--------------------------- MODULE Terminal_proofs ---------------------------
(***************************************************************************)
(* The terminal, for any windows, sizes and numbers of transfers and       *)
(* faults: the state is of its type, nothing of the shell outlives the     *)
(* terminal, the session of an attached pane ends only with its shell or   *)
(* its server, and no output is lost, repeated or reordered.               *)
(*                                                                         *)
(* Only the output depends on LateReplies.  What the invariant says of the *)
(* parts (BaseInv) is kept by every action on its own, but for the arrival *)
(* of a session, which needs that a tab is not moved to its own source     *)
(* (TransferInv).                                                          *)
(***************************************************************************)
EXTENDS Terminal, SequenceTheorems, TLAPS

USE WindowsAssumption, BoundsAssumption, LateRepliesAssumption

-----------------------------------------------------------------------------
(* The invariants                                                          *)

Has(queue, op) == \E i \in DOMAIN queue : queue[i] = op

\* Nothing has happened to a terminal that no connection has reached.
StartInv ==
  facade.current = 0 =>
    /\ ~facade.closed /\ ~facade.timer /\ shell.stage = "none" /\ shell.made = 0
    /\ Len(links) = 1
    /\ \A i \in DOMAIN links[1].down : links[1].down[i].op \in {"exit", "close"}
    /\ \A w \in Windows : ~panes[w].known

\* Connections are accepted in order; one that says it is going is broken.
LinksInv ==
  /\ links # <<>>
  /\ \A l \in DOMAIN links :
       /\ links[l].resumes <=> l # 1
       /\ links[l].server = "none" => l > facade.current /\ links[l].down = <<>>
       /\ links[l].server = "none" /\ links[l].client = "open" => ~links[l].cut
       /\ Has(links[l].up, "bye") \/ Has(links[l].up, "gone") => links[l].cut
  /\ facade.timer => links[facade.current].cut

\* A connection is one pane's, as long as the page keeps it open.
PanesInv ==
  /\ \A w \in Windows :
       /\ panes[w].link # 0 => panes[w].tab /\ links[panes[w].link].client = "open"
       /\ panes[w].after <= Len(links)
       /\ panes[w].after # 0 => links[panes[w].after].server # "none"
  /\ \A v, w \in Windows : panes[v].link = panes[w].link /\ panes[v].link # 0 => v = w

\* What the facade's end does to the bridge is done, or will be at the answer.
ShellInv ==
  /\ shell.over => shell.pod # "kept" /\ shell.stage \in {"connecting", "ended"}
  /\ shell.pod = "kept" => shell.stage \in {"connecting", "open"}
  /\ facade.closed => shell.stage # "open" /\ (shell.stage = "connecting" => shell.over)

BaseInv == TypeOK /\ StartInv /\ LinksInv /\ PanesInv /\ ShellInv

\* One source, one claim, one tab that has it.
TransferInv ==
  /\ \A v, w \in transfer.from : v = w
  /\ \A v, w \in transfer.claim : v = w
  /\ transfer.claim \cap transfer.from = {}
  /\ transfer.id = 0 => transfer.from = {} /\ transfer.claim = {}
  /\ transfer.claim # {} => transfer.claimed
  /\ \A w \in Windows :
       /\ panes[w].preparing => w \in transfer.from /\ transfer.claimed
       /\ panes[w].transfer <= transfer.id
       /\ Adopting(w) => w \notin transfer.from /\ transfer.claimed /\ transfer.claim = {}
  /\ \A v, w \in Windows : Adopting(v) /\ Adopting(w) => v = w

-----------------------------------------------------------------------------
(* The connections                                                         *)

\* What an operation on connection l leaves of the others, and of the parts of
\* l that no operation changes.
SoleChange(ls, ms, l) ==
  /\ ms \in Seq(Link) /\ Len(ms) = Len(ls) /\ DOMAIN ms = DOMAIN ls
  /\ \A k \in DOMAIN ls : k # l => ms[k] = ls[k]
  /\ \A k \in DOMAIN ls : ms[k].resumes = ls[k].resumes

LEMMA ExceptLink ==
  ASSUME NEW ls \in Seq(Link), NEW l \in DOMAIN ls, NEW x \in Link, x.resumes = ls[l].resumes,
         NEW ms, ms = [ls EXCEPT ![l] = x]
  PROVE  SoleChange(ls, ms, l) /\ ms[l] = x
<1>1. ms \in Seq(Link) /\ Len(ms) = Len(ls)
  BY ExceptSeq
<1>2. \A k \in DOMAIN ls : k # l => ms[k] = ls[k]
  OBVIOUS
<1>3. ms[l] = x /\ DOMAIN ms = DOMAIN ls
  OBVIOUS
<1> QED
  BY <1>1, <1>2, <1>3 DEF SoleChange

LEMMA LinkAt ==
  ASSUME NEW ls \in Seq(Link), NEW l \in DOMAIN ls
  PROVE  /\ ls[l] \in Link /\ ls[l].resumes \in BOOLEAN /\ ls[l].cut \in BOOLEAN
         /\ ls[l].client \in {"open", "closed"}
         /\ ls[l].server \in {"none", "open", "closing", "closed"}
         /\ ls[l].up \in Seq(Upward) /\ ls[l].down \in Seq(Downward)
<1>1. ls[l] \in Link
  OBVIOUS
<1> QED
  BY <1>1 DEF Link

LEMMA Frame ==
  /\ \A op \in {"session", "ready", "exit", "close"} : Control(op) \in Downward
  /\ \A n \in Chunk : Output(n) \in Downward
  BY DEF Control, Output, Downward

LEMMA FramesSeq ==
  ASSUME NEW chunks \in Seq(Chunk)
  PROVE  /\ Frames(chunks) \in Seq(Downward) /\ Len(Frames(chunks)) = Len(chunks)
         /\ \A i \in DOMAIN chunks : Frames(chunks)[i] = Output(chunks[i])
  BY Frame DEF Frames

\* What becomes of a connection that is sent frames, asked something, closed by
\* the server, and left by its page.
Sent(x, frames) == IF x.cut THEN x ELSE [x EXCEPT !.down = x.down \o frames]

Asked(x, op) ==
  IF x.server \notin {"open", "closing"} \/ x.cut THEN x ELSE [x EXCEPT !.up = Append(x.up, op)]

Closing(x) ==
  IF x.server # "open" THEN x ELSE [Sent(x, <<Control("close")>>) EXCEPT !.server = "closing"]

Hung(x, op) ==
  [Asked(x, op) EXCEPT !.client = "closed", !.cut = TRUE, !.down = <<>>,
     !.up = IF x.server = "none" THEN <<"gone">> ELSE Asked(x, op).up]

LEMMA ReadIs ==
  ASSUME NEW ls \in Seq(Link), NEW l \in DOMAIN ls, ls[l].up # <<>>,
         NEW ms, ms = [ls EXCEPT ![l].up = Tail(@)]
  PROVE  /\ SoleChange(ls, ms, l)
         /\ ms[l] = [ls[l] EXCEPT !.up = Tail(ls[l].up)]
<1>1. ls[l] \in Link /\ ls[l].up \in Seq(Upward)
  BY LinkAt
<1>2. Tail(ls[l].up) \in Seq(Upward)
  BY <1>1
<1> DEFINE x == [ls[l] EXCEPT !.up = Tail(ls[l].up)]
<1>3. x \in Link /\ x.resumes = ls[l].resumes
  BY <1>1, <1>2 DEF Link
<1>4. ms = [ls EXCEPT ![l] = x]
  OBVIOUS
<1> HIDE DEF x
<1>5. SoleChange(ls, ms, l) /\ ms[l] = x
  BY <1>3, <1>4, ExceptLink
<1> QED
  BY <1>5 DEF x

LEMMA ShowsIs ==
  ASSUME NEW ls \in Seq(Link), NEW l \in DOMAIN ls, ls[l].down # <<>>,
         NEW ms, ms = [ls EXCEPT ![l].down = Tail(@)]
  PROVE  /\ SoleChange(ls, ms, l)
         /\ ms[l] = [ls[l] EXCEPT !.down = Tail(ls[l].down)]
<1>1. ls[l] \in Link /\ ls[l].down \in Seq(Downward)
  BY LinkAt
<1>2. Tail(ls[l].down) \in Seq(Downward)
  BY <1>1
<1> DEFINE x == [ls[l] EXCEPT !.down = Tail(ls[l].down)]
<1>3. x \in Link /\ x.resumes = ls[l].resumes
  BY <1>1, <1>2 DEF Link
<1>4. ms = [ls EXCEPT ![l] = x]
  OBVIOUS
<1> HIDE DEF x
<1>5. SoleChange(ls, ms, l) /\ ms[l] = x
  BY <1>3, <1>4, ExceptLink
<1> QED
  BY <1>5 DEF x

LEMMA SendIs ==
  ASSUME NEW ls \in Seq(Link), NEW l \in DOMAIN ls, NEW frames \in Seq(Downward)
  PROVE  /\ SoleChange(ls, Send(ls, l, frames), l)
         /\ Send(ls, l, frames)[l] = Sent(ls[l], frames)
<1>1. CASE ls[l].cut
  BY <1>1 DEF Send, Sent, SoleChange
<1>2. CASE ~ls[l].cut
  <2>1. ls[l] \in Link /\ ls[l].down \in Seq(Downward)
    BY LinkAt
  <2>2. ls[l].down \o frames \in Seq(Downward)
    BY <2>1
  <2> DEFINE x == [ls[l] EXCEPT !.down = ls[l].down \o frames]
  <2>3. x \in Link /\ x.resumes = ls[l].resumes
    BY <2>1, <2>2 DEF Link
  <2>4. Send(ls, l, frames) = [ls EXCEPT ![l] = x]
    BY <1>2 DEF Send
  <2> HIDE DEF x
  <2>5. SoleChange(ls, Send(ls, l, frames), l) /\ Send(ls, l, frames)[l] = x
    BY <2>3, <2>4, ExceptLink
  <2> QED
    BY <1>2, <2>5 DEF x, Sent
<1> QED
  BY <1>1, <1>2

LEMMA AskIs ==
  ASSUME NEW ls \in Seq(Link), NEW l \in 0..Len(ls), NEW op \in Upward
  PROVE  /\ SoleChange(ls, Ask(ls, l, op), l)
         /\ l # 0 => Ask(ls, l, op)[l] = Asked(ls[l], op)
<1>1. CASE l = 0 \/ ls[l].server \notin {"open", "closing"} \/ ls[l].cut
  BY <1>1 DEF Ask, Asked, SoleChange
<1>2. CASE ~(l = 0 \/ ls[l].server \notin {"open", "closing"} \/ ls[l].cut)
  <2>0. l \in DOMAIN ls
    BY <1>2
  <2>1. ls[l] \in Link /\ ls[l].up \in Seq(Upward)
    BY <2>0, LinkAt
  <2>2. Append(ls[l].up, op) \in Seq(Upward)
    BY <2>1
  <2> DEFINE x == [ls[l] EXCEPT !.up = Append(ls[l].up, op)]
  <2>3. x \in Link /\ x.resumes = ls[l].resumes
    BY <2>1, <2>2 DEF Link
  <2>4. Ask(ls, l, op) = [ls EXCEPT ![l] = x]
    BY <1>2 DEF Ask
  <2> HIDE DEF x
  <2>5. SoleChange(ls, Ask(ls, l, op), l) /\ Ask(ls, l, op)[l] = x
    BY <2>0, <2>3, <2>4, ExceptLink
  <2> QED
    BY <1>2, <2>5 DEF x, Asked
<1> QED
  BY <1>1, <1>2

LEMMA HangIs ==
  ASSUME NEW ls \in Seq(Link), NEW l \in 0..Len(ls), NEW op \in Upward
  PROVE  /\ SoleChange(ls, Hang(ls, l, op), l)
         /\ l # 0 => Hang(ls, l, op)[l] = Hung(ls[l], op)
<1>1. CASE l = 0
  BY <1>1 DEF Hang, SoleChange
<1>2. CASE l # 0
  <2> DEFINE ms == Ask(ls, l, op)
             x == Asked(ls[l], op)
             y == Hung(ls[l], op)
  <2>0. l \in DOMAIN ls
    BY <1>2
  <2>1. SoleChange(ls, ms, l) /\ ms[l] = x
    BY <1>2, AskIs
  <2>2. /\ ms \in Seq(Link) /\ DOMAIN ms = DOMAIN ls /\ l \in DOMAIN ms
        /\ x \in Link /\ x.resumes = ls[l].resumes
    BY <2>0, <2>1, LinkAt DEF SoleChange
  <2>3. <<>> \in Seq(Downward) /\ <<"gone">> \in Seq(Upward)
    BY DEF Upward
  <2>4. y \in Link /\ y.resumes = x.resumes
    BY <2>2, <2>3 DEF Link, Hung
  <2>5. Hang(ls, l, op) = [ms EXCEPT ![l] = y]
    BY <1>2, <2>0, <2>1, <2>2 DEF Hang, Hung
  <2> HIDE DEF ms, x, y
  <2>6. SoleChange(ms, Hang(ls, l, op), l) /\ Hang(ls, l, op)[l] = y
    BY <2>1, <2>2, <2>4, <2>5, ExceptLink
  <2> QED
    BY <1>2, <2>0, <2>1, <2>6 DEF SoleChange, y
<1> QED
  BY <1>1, <1>2

LEMMA ServerClosesIs ==
  ASSUME NEW ls \in Seq(Link), NEW l \in DOMAIN ls
  PROVE  /\ SoleChange(ls, ServerCloses(ls, l), l)
         /\ ServerCloses(ls, l)[l] = Closing(ls[l])
<1>1. CASE ls[l].server # "open"
  BY <1>1 DEF ServerCloses, Closing, SoleChange
<1>2. CASE ls[l].server = "open"
  <2> DEFINE closing == <<Control("close")>>
  <2>0. closing \in Seq(Downward)
    BY Frame
  <2> HIDE DEF closing
  <2> DEFINE ms == Send(ls, l, closing)
             x == Sent(ls[l], closing)
             y == [x EXCEPT !.server = "closing"]
  <2>1. SoleChange(ls, ms, l) /\ ms[l] = x
    BY <2>0, SendIs
  <2>2. /\ ms \in Seq(Link) /\ DOMAIN ms = DOMAIN ls /\ l \in DOMAIN ms
        /\ x \in Link /\ x.resumes = ls[l].resumes
    BY <2>1, LinkAt DEF SoleChange
  <2>3. y \in Link /\ y.resumes = x.resumes
    BY <2>2 DEF Link
  <2>4. ServerCloses(ls, l) = [ms EXCEPT ![l] = y]
    BY <1>2, <2>1, <2>2 DEF ServerCloses, closing
  <2>5. Closing(ls[l]) = y
    BY <1>2 DEF Closing, closing
  <2> HIDE DEF ms, x, y
  <2>6. SoleChange(ms, ServerCloses(ls, l), l) /\ ServerCloses(ls, l)[l] = y
    BY <2>1, <2>2, <2>3, <2>4, ExceptLink
  <2> QED
    BY <2>1, <2>5, <2>6 DEF SoleChange
<1> QED
  BY <1>1, <1>2

\* How a connection may change while it is not accepted: it keeps its kind, it
\* is never reopened or mended, and says that it is going only when it is broken.
Goes(x, y) ==
  /\ y.resumes = x.resumes
  /\ y.server = "none" => x.server = "none" /\ (x.down = <<>> => y.down = <<>>)
  /\ y.client = "open" => x.client = "open"
  /\ y.server = "none" /\ y.client = "open" /\ y.cut => x.cut
  /\ x.cut => y.cut
  /\ Has(y.up, "bye") => y.cut \/ Has(x.up, "bye")
  /\ Has(y.up, "gone") => y.cut \/ Has(x.up, "gone")

\* All connections go on so, the pages keep all of them but those of H.
Onward(ls, ms, H) ==
  /\ ms \in Seq(Link) /\ Len(ms) = Len(ls) /\ DOMAIN ms = DOMAIN ls
  /\ \A k \in DOMAIN ls : Goes(ls[k], ms[k]) /\ (k \in H \/ ms[k].client = ls[k].client)

LEMMA OnwardSame ==
  ASSUME NEW ls \in Seq(Link), NEW H
  PROVE  Onward(ls, ls, H)
  BY DEF Onward, Goes

LEMMA OnwardTrans ==
  ASSUME NEW ls, NEW ms, NEW ns, NEW H, Onward(ls, ms, H), Onward(ms, ns, H)
  PROVE  Onward(ls, ns, H)
<1>1. \A k \in DOMAIN ls : Goes(ls[k], ms[k]) /\ Goes(ms[k], ns[k])
  BY DEF Onward
<1>2. \A k \in DOMAIN ls : Goes(ls[k], ns[k])
  BY <1>1 DEF Goes
<1> QED
  BY <1>2 DEF Onward

LEMMA OnwardMore ==
  ASSUME NEW ls, NEW ms, NEW H, NEW G, H \subseteq G, Onward(ls, ms, H)
  PROVE  Onward(ls, ms, G)
  BY DEF Onward

LEMMA OnwardSole ==
  ASSUME NEW ls \in Seq(Link), NEW ms, NEW l \in DOMAIN ls, NEW H, SoleChange(ls, ms, l),
         Goes(ls[l], ms[l]), l \in H \/ ms[l].client = ls[l].client
  PROVE  Onward(ls, ms, H)
<1>1. \A k \in DOMAIN ls : k # l => Goes(ls[k], ms[k])
  BY DEF SoleChange, Goes
<1> QED
  BY <1>1 DEF Onward, SoleChange

LEMMA HasAppend ==
  ASSUME NEW T, NEW s \in Seq(T), NEW x \in T, NEW op, Has(Append(s, x), op)
  PROVE  Has(s, op) \/ op = x
<1>1. PICK i \in DOMAIN Append(s, x) : Append(s, x)[i] = op
  BY DEF Has
<1>2. i \in 1..(Len(s) + 1)
  BY <1>1
<1>3. CASE i = Len(s) + 1
  BY <1>1, <1>3
<1>4. CASE i \in DOMAIN s
  BY <1>1, <1>4 DEF Has
<1> QED
  BY <1>2, <1>3, <1>4

LEMMA HasTail ==
  ASSUME NEW T, NEW s \in Seq(T), s # <<>>, NEW op, Has(Tail(s), op)
  PROVE  Has(s, op)
<1>1. PICK i \in DOMAIN Tail(s) : Tail(s)[i] = op
  BY DEF Has
<1>2. i + 1 \in DOMAIN s /\ s[i + 1] = op
  BY <1>1
<1> QED
  BY <1>2 DEF Has

LEMMA AskOnward ==
  ASSUME NEW ls \in Seq(Link), NEW l \in 0..Len(ls), NEW op \in {"prepare", "cancel"}
  PROVE  Onward(ls, Ask(ls, l, op), {})
<1> DEFINE ms == Ask(ls, l, op)
<1>0. SoleChange(ls, ms, l) /\ (l # 0 => ms[l] = Asked(ls[l], op))
  BY AskIs DEF Upward
<1>1. CASE l = 0
  <2>1. ms = ls
    BY <1>1 DEF Ask
  <2> QED
    BY <2>1, OnwardSame
<1>2. CASE l # 0
  <2>1. l \in DOMAIN ls
    BY <1>2
  <2>2. ls[l] \in Link /\ ls[l].up \in Seq(Upward) /\ op \in Upward
    BY <2>1, LinkAt DEF Upward
  <2>3. ms[l] = Asked(ls[l], op)
    BY <1>0, <1>2
  <2> HIDE DEF ms
  <2>4. \A o \in {"bye", "gone"} : Has(Append(ls[l].up, op), o) => Has(ls[l].up, o)
    BY <2>2, HasAppend
  <2>5. Goes(ls[l], ms[l]) /\ ms[l].client = ls[l].client
    BY <2>2, <2>3, <2>4 DEF Goes, Asked, Link
  <2> QED
    BY <1>0, <2>1, <2>5, OnwardSole DEF ms
<1> QED
  BY <1>1, <1>2

LEMMA HangOnward ==
  ASSUME NEW ls \in Seq(Link), NEW l \in 0..Len(ls), NEW op \in Upward
  PROVE  Onward(ls, Hang(ls, l, op), {l})
<1> DEFINE ms == Hang(ls, l, op)
<1>0. SoleChange(ls, ms, l) /\ (l # 0 => ms[l] = Hung(ls[l], op))
  BY HangIs
<1>1. CASE l = 0
  <2>1. ms = ls
    BY <1>1 DEF Hang
  <2> QED
    BY <2>1, OnwardSame
<1>2. CASE l # 0
  <2>1. l \in DOMAIN ls /\ ls[l] \in Link
    BY <1>2
  <2>3. ms[l] = Hung(ls[l], op)
    BY <1>0, <1>2
  <2> HIDE DEF ms
  <2>5. Goes(ls[l], ms[l])
    BY <2>1, <2>3 DEF Goes, Hung, Asked, Link
  <2> QED
    BY <1>0, <2>1, <2>5, OnwardSole DEF ms
<1> QED
  BY <1>1, <1>2

LEMMA SendOnward ==
  ASSUME NEW ls \in Seq(Link), NEW l \in DOMAIN ls, ls[l].server # "none",
         NEW frames \in Seq(Downward)
  PROVE  Onward(ls, Send(ls, l, frames), {})
<1>1. ls[l] \in Link
  OBVIOUS
<1>2. Goes(ls[l], Sent(ls[l], frames)) /\ Sent(ls[l], frames).client = ls[l].client
  BY <1>1 DEF Goes, Sent, Link
<1>3. SoleChange(ls, Send(ls, l, frames), l) /\ Send(ls, l, frames)[l] = Sent(ls[l], frames)
  BY SendIs
<1> QED
  BY <1>2, <1>3, OnwardSole

LEMMA ServerClosesOnward ==
  ASSUME NEW ls \in Seq(Link), NEW l \in DOMAIN ls
  PROVE  Onward(ls, ServerCloses(ls, l), {})
<1>1. ls[l] \in Link
  OBVIOUS
<1>2. Goes(ls[l], Closing(ls[l])) /\ Closing(ls[l]).client = ls[l].client
  BY <1>1 DEF Goes, Closing, Sent, Link
<1> QED
  BY <1>2, OnwardSole, ServerClosesIs

LEMMA ReadOnward ==
  ASSUME NEW ls \in Seq(Link), NEW l \in DOMAIN ls, ls[l].up # <<>>,
         NEW ms, ms = [ls EXCEPT ![l].up = Tail(@)]
  PROVE  Onward(ls, ms, {})
<1>1. ls[l] \in Link /\ ls[l].up \in Seq(Upward)
  BY LinkAt
<1>2. SoleChange(ls, ms, l) /\ ms[l] = [ls[l] EXCEPT !.up = Tail(ls[l].up)]
  BY ReadIs
<1>3. \A o \in {"bye", "gone"} : Has(Tail(ls[l].up), o) => Has(ls[l].up, o)
  BY <1>1, HasTail
<1>4. Goes(ls[l], ms[l]) /\ ms[l].client = ls[l].client
  BY <1>1, <1>2, <1>3 DEF Goes, Link
<1> QED
  BY <1>2, <1>4, OnwardSole

LEMMA ShowsOnward ==
  ASSUME NEW ls \in Seq(Link), NEW l \in DOMAIN ls, ls[l].down # <<>>,
         NEW ms, ms = [ls EXCEPT ![l].down = Tail(@)]
  PROVE  Onward(ls, ms, {})
<1>1. ls[l] \in Link
  OBVIOUS
<1>2. SoleChange(ls, ms, l) /\ ms[l] = [ls[l] EXCEPT !.down = Tail(ls[l].down)]
  BY ShowsIs
<1>4. Goes(ls[l], ms[l]) /\ ms[l].client = ls[l].client
  BY <1>1, <1>2 DEF Goes, Link
<1> QED
  BY <1>2, <1>4, OnwardSole

LEMMA SettleOnward ==
  ASSUME NEW ls \in Seq(Link), NEW l \in DOMAIN ls, NEW ms,
         ms = [ls EXCEPT ![l].server = "closed", ![l].up = <<>>]
  PROVE  Onward(ls, ms, {})
<1> DEFINE x == [ls[l] EXCEPT !.server = "closed", !.up = <<>>]
<1>1. ls[l] \in Link /\ <<>> \in Seq(Upward)
  OBVIOUS
<1>2. x \in Link /\ x.client = ls[l].client /\ x.resumes = ls[l].resumes
  BY <1>1 DEF Link
<1>3. x.server = "closed" /\ x.up = <<>> /\ x.cut = ls[l].cut
  BY <1>1 DEF Link
<1>4. ms = [ls EXCEPT ![l] = x]
  OBVIOUS
<1> HIDE DEF x
<1>5. Goes(ls[l], x)
  BY <1>2, <1>3 DEF Goes, Has
<1>6. SoleChange(ls, ms, l) /\ ms[l] = x
  BY <1>2, <1>4, ExceptLink
<1> QED
  BY <1>2, <1>5, <1>6, OnwardSole

LEMMA GoneOnward ==
  ASSUME links \in Seq(Link), NEW l \in DOMAIN links
  PROVE  Onward(links, Gone(l), {})
  BY SettleOnward DEF Gone

LEMMA AnsweredOnward ==
  ASSUME NEW ls \in Seq(Link), NEW l \in DOMAIN ls
  PROVE  Onward(ls, Answered(ls, l), {})
<1>1. CASE ls[l].server # "closing"
  BY <1>1, OnwardSame DEF Answered
<1>2. CASE ls[l].server = "closing"
  BY <1>2, SettleOnward DEF Answered
<1> QED
  BY <1>1, <1>2

LEMMA AcceptOnward ==
  ASSUME NEW ls \in Seq(Link), NEW l \in DOMAIN ls, NEW state \in {"open", "closing"},
         NEW ms, ms = [ls EXCEPT ![l].server = state]
  PROVE  /\ Onward(ls, ms, {}) /\ SoleChange(ls, ms, l)
         /\ ms[l] = [ls[l] EXCEPT !.server = state]
<1> DEFINE x == [ls[l] EXCEPT !.server = state]
<1>1. ls[l] \in Link
  OBVIOUS
<1>2. x \in Link /\ Goes(ls[l], x) /\ x.client = ls[l].client /\ x.resumes = ls[l].resumes
  BY <1>1 DEF Link, Goes
<1>3. ms = [ls EXCEPT ![l] = x]
  OBVIOUS
<1> HIDE DEF x
<1>4. SoleChange(ls, ms, l) /\ ms[l] = x
  BY <1>2, <1>3, ExceptLink
<1> QED
  BY <1>2, <1>4, OnwardSole DEF x

\* A connection that breaks.
Broken(x) ==
  [x EXCEPT !.cut = TRUE, !.down = <<Control("close")>>,
            !.up = IF x.server = "none" THEN <<>> ELSE <<"gone">>,
            !.server = IF x.server = "none" THEN "closed" ELSE x.server]

LEMMA BreaksIs ==
  ASSUME links \in Seq(Link), NEW l \in DOMAIN links, Breaks(l)
  PROVE  SoleChange(links, links', l) /\ links'[l] = Broken(links[l])
<1> DEFINE x == Broken(links[l])
<1>1. /\ links[l] \in Link /\ <<Control("close")>> \in Seq(Downward)
      /\ <<>> \in Seq(Upward) /\ <<"gone">> \in Seq(Upward)
  BY Frame DEF Upward
<1>2. x \in Link /\ x.resumes = links[l].resumes
  BY <1>1 DEF Link, Broken
<1>3. links' = [links EXCEPT ![l] = x]
  BY <1>1 DEF Breaks, Broken
<1> HIDE DEF x
<1> QED
  BY <1>2, <1>3, ExceptLink DEF x

LEMMA BreaksOnward ==
  ASSUME links \in Seq(Link), NEW l \in DOMAIN links, Breaks(l)
  PROVE  Onward(links, links', {})
<1>1. links[l] \in Link
  OBVIOUS
<1>2. Goes(links[l], Broken(links[l])) /\ Broken(links[l]).client = links[l].client
  BY <1>1 DEF Goes, Broken, Link, Has
<1> QED
  BY <1>2, BreaksIs, OnwardSole

-----------------------------------------------------------------------------
(* The invariant of the parts                                              *)

LEMMA Parts ==
  ASSUME TypeOK
  PROVE  /\ facade.current \in 0..Len(links) /\ facade.closed \in BOOLEAN
         /\ facade.detached \in BOOLEAN /\ facade.buffering \in BOOLEAN
         /\ facade.timer \in BOOLEAN /\ facade.buffer \in Seq(Chunk)
         /\ shell.stage \in {"none", "pod", "connecting", "open", "ended"}
         /\ shell.over \in BOOLEAN /\ shell.pod \in {"none", "kept", "deleted"}
         /\ shell.made \in 0..MaxOutput
         /\ transfer.id \in 0..MaxTransfers /\ transfer.from \subseteq Windows
         /\ transfer.claim \subseteq Windows /\ transfer.claimed \in BOOLEAN
  BY DEF TypeOK, Shell, Facade, Transfer

LEMMA PaneAt ==
  ASSUME TypeOK, NEW w \in Windows
  PROVE  /\ panes[w] \in Pane /\ panes[w].link \in 0..Len(links)
         /\ panes[w].tab \in BOOLEAN /\ panes[w].known \in BOOLEAN
         /\ panes[w].transfer \in 0..MaxTransfers /\ panes[w].preparing \in BOOLEAN
         /\ panes[w].saved \in Seq(Chunk) /\ panes[w].screen \in Seq(Chunk)
         /\ panes[w].after \in Nat
<1>1. panes[w] \in Pane /\ panes[w].link <= Len(links)
  BY DEF TypeOK
<1> QED
  BY <1>1 DEF Pane

LEMMA LinksStep ==
  ASSUME BaseInv, NEW H, Onward(links, links', H),
         \A k \in DOMAIN links : links'[k].server = "none" => k > facade'.current,
         facade'.timer => \/ facade.timer /\ facade'.current = facade.current
                          \/ links'[facade'.current].cut
  PROVE  LinksInv'
<1>1. links # <<>> /\ links \in Seq(Link)
  BY DEF BaseInv, LinksInv, TypeOK
<1>2. links' # <<>>
  BY <1>1 DEF Onward
<1>3. ASSUME NEW l \in DOMAIN links
      PROVE  /\ links'[l].resumes <=> l # 1
             /\ links'[l].server = "none" => links'[l].down = <<>>
             /\ links'[l].server = "none" /\ links'[l].client = "open" => ~links'[l].cut
             /\ Has(links'[l].up, "bye") \/ Has(links'[l].up, "gone") => links'[l].cut
  BY <1>3 DEF BaseInv, LinksInv, Onward, Goes
<1>4. facade'.timer => links'[facade'.current].cut
  <2>1. facade.timer => facade.current \in DOMAIN links /\ links[facade.current].cut
    BY Parts DEF BaseInv, StartInv, LinksInv, TypeOK
  <2> QED
    BY <2>1 DEF Onward, Goes
<1> QED
  BY <1>2, <1>3, <1>4 DEF LinksInv, Onward

LEMMA PanesStep ==
  ASSUME BaseInv, NEW H, Onward(links, links', H),
         \A w \in Windows :
           /\ panes'[w].link # 0 =>
                panes'[w].link = panes[w].link /\ panes[w].link \notin H /\ panes'[w].tab
           /\ panes'[w].after \in {0, panes[w].after}
  PROVE  PanesInv'
<1>1. \A w \in Windows : panes[w].link \in 0..Len(links) /\ panes[w].after \in Nat
  BY PaneAt DEF BaseInv
<1>2. links \in Seq(Link)
  BY DEF BaseInv, TypeOK
<1>3. ASSUME NEW w \in Windows
      PROVE  /\ panes'[w].link # 0 =>
                  panes'[w].tab /\ links'[panes'[w].link].client = "open"
             /\ panes'[w].after <= Len(links')
             /\ panes'[w].after # 0 => links'[panes'[w].after].server # "none"
  BY <1>1, <1>2, <1>3, SMTT(30) DEF BaseInv, PanesInv, Onward, Goes
<1> QED
  BY <1>3 DEF BaseInv, PanesInv

LEMMA AppendIs ==
  ASSUME NEW S, NEW s \in Seq(S), NEW x \in S
  PROVE  /\ Append(s, x) \in Seq(S) /\ Len(Append(s, x)) = Len(s) + 1
         /\ \A k \in DOMAIN s : Append(s, x)[k] = s[k]
         /\ Append(s, x)[Len(s) + 1] = x
         /\ DOMAIN Append(s, x) = DOMAIN s \cup {Len(s) + 1}
<1>1. /\ Append(s, x) \in Seq(S) /\ Len(Append(s, x)) = Len(s) + 1
      /\ Append(s, x)[Len(s) + 1] = x
  OBVIOUS
<1>2. \A k \in DOMAIN s : Append(s, x)[k] = s[k]
  OBVIOUS
<1>3. DOMAIN Append(s, x) = 1..(Len(s) + 1) /\ DOMAIN s = 1..Len(s) /\ Len(s) \in Nat
  OBVIOUS
<1> QED
  BY <1>1, <1>2, <1>3

\* A pane opens a connection of its own, l, behind the others.
Opened(ls, ms, H, l) ==
  /\ ms \in Seq(Link) /\ l = Len(ls) + 1 /\ Len(ms) = l /\ DOMAIN ms = DOMAIN ls \cup {l}
  /\ ms[l] = Connect(TRUE)
  /\ \A k \in DOMAIN ls : Goes(ls[k], ms[k]) /\ (k \in H \/ ms[k].client = ls[k].client)

LEMMA OpenedIs ==
  ASSUME NEW ls \in Seq(Link), NEW ms, NEW H, Onward(ls, ms, H)
  PROVE  Opened(ls, Append(ms, Connect(TRUE)), H, Len(ls) + 1)
<1> DEFINE n == Connect(TRUE)
<1>1. n \in Link
  BY DEF Connect, Link
<1> HIDE DEF n
<1>2. ms \in Seq(Link) /\ Len(ms) = Len(ls) /\ DOMAIN ms = DOMAIN ls
  BY DEF Onward
<1>3. /\ Append(ms, n) \in Seq(Link) /\ Len(Append(ms, n)) = Len(ls) + 1
      /\ Append(ms, n)[Len(ls) + 1] = n
      /\ DOMAIN Append(ms, n) = DOMAIN ls \cup {Len(ls) + 1}
  BY <1>1, <1>2, AppendIs
<1>4. \A k \in DOMAIN ls : Append(ms, n)[k] = ms[k]
  BY <1>1, <1>2, AppendIs
<1> QED
  BY <1>3, <1>4 DEF Opened, Onward, n

LEMMA ConnectIs ==
  /\ Connect(TRUE).resumes /\ Connect(TRUE).server = "none" /\ Connect(TRUE).client = "open"
  /\ ~Connect(TRUE).cut /\ Connect(TRUE).down = <<>> /\ Connect(TRUE).up = <<>>
  BY DEF Connect

LEMMA LinksGrow ==
  ASSUME BaseInv, facade.current # 0, UNCHANGED facade, NEW H, NEW n, Opened(links, links', H, n)
  PROVE  LinksInv'
<1>1. /\ links \in Seq(Link) /\ facade.current \in DOMAIN links /\ n > facade.current /\ n # 1
      /\ n \in Nat
  BY Parts DEF BaseInv, TypeOK, LinksInv, Opened
<1>2. ASSUME NEW l \in DOMAIN links
      PROVE  /\ links'[l].resumes <=> l # 1
             /\ links'[l].server = "none" => l > facade.current /\ links'[l].down = <<>>
             /\ links'[l].server = "none" /\ links'[l].client = "open" => ~links'[l].cut
             /\ Has(links'[l].up, "bye") \/ Has(links'[l].up, "gone") => links'[l].cut
  BY <1>2 DEF BaseInv, LinksInv, Opened, Goes
<1>3. /\ links'[n].resumes <=> n # 1
      /\ links'[n].server = "none" => n > facade.current /\ links'[n].down = <<>>
      /\ links'[n].server = "none" /\ links'[n].client = "open" => ~links'[n].cut
      /\ Has(links'[n].up, "bye") \/ Has(links'[n].up, "gone") => links'[n].cut
  <2>1. links'[n] = Connect(TRUE)
    BY DEF Opened
  <2>2. ~Has(Connect(TRUE).up, "bye") /\ ~Has(Connect(TRUE).up, "gone")
    BY DEF Connect, Has
  <2> QED
    BY <1>1, <2>1, <2>2, ConnectIs
<1>4. facade.timer => links'[facade.current].cut
  BY <1>1 DEF BaseInv, LinksInv, Opened, Goes
<1>5. links' # <<>>
  BY <1>1 DEF Opened
<1>6. DOMAIN links' = DOMAIN links \cup {n}
  BY DEF Opened
<1> QED
  BY <1>2, <1>3, <1>4, <1>5, <1>6 DEF LinksInv

LEMMA PanesGrow ==
  ASSUME BaseInv, NEW H, NEW n, Opened(links, links', H, n),
         NEW v \in Windows, panes'[v].tab, panes'[v].link = n,
         \/ panes'[v].after = 0
         \/ panes'[v].after \in DOMAIN links /\ links[panes'[v].after].server # "none",
         \A w \in Windows \ {v} :
           /\ panes'[w].link # 0 =>
                panes'[w].link = panes[w].link /\ panes[w].link \notin H /\ panes'[w].tab
           /\ panes'[w].after \in {0, panes[w].after}
  PROVE  PanesInv'
<1>0. links \in Seq(Link)
  BY DEF BaseInv, TypeOK
<1>1. Len(links) \in Nat /\ n = Len(links) + 1 /\ Len(links') = n
  BY <1>0 DEF Opened
<1>2. \A l \in 1..Len(links) :
        /\ links[l].server # "none" => links'[l].server # "none"
        /\ l \notin H => links'[l].client = links[l].client
  BY <1>0 DEF Opened, Goes
<1>3. links'[n].client = "open"
  BY ConnectIs DEF Opened
<1>4. \A w \in Windows :
        /\ panes[w].link \in 0..Len(links) /\ panes[w].after \in Nat
        /\ panes[w].link # 0 => links[panes[w].link].client = "open"
        /\ panes[w].after <= Len(links)
        /\ panes[w].after # 0 => links[panes[w].after].server # "none"
  BY PaneAt DEF BaseInv, PanesInv
<1>5. /\ panes'[v].link # 0 => panes'[v].tab /\ links'[panes'[v].link].client = "open"
      /\ panes'[v].after <= Len(links')
      /\ panes'[v].after # 0 => links'[panes'[v].after].server # "none"
  <2>1. CASE panes'[v].after = 0
    BY <1>1, <1>3, <2>1
  <2>2. CASE panes'[v].after # 0
    <3>1. panes'[v].after \in 1..Len(links) /\ links[panes'[v].after].server # "none"
      BY <1>0, <2>2
    <3> QED
      BY <1>1, <1>2, <1>3, <3>1, SMTT(20)
  <2> QED
    BY <2>1, <2>2
<1>6. ASSUME NEW w \in Windows \ {v}
      PROVE  /\ panes'[w].link # 0 => panes'[w].tab /\ links'[panes'[w].link].client = "open"
             /\ panes'[w].after <= Len(links')
             /\ panes'[w].after # 0 => links'[panes'[w].after].server # "none"
  <2>1. panes'[w].link # 0 => panes'[w].tab /\ links'[panes'[w].link].client = "open"
    <3>1. panes'[w].link # 0 =>
            panes'[w].link = panes[w].link /\ panes[w].link \notin H /\ panes'[w].tab
      OBVIOUS
    <3>2. panes'[w].link # 0 =>
            panes[w].link \in 1..Len(links) /\ links[panes[w].link].client = "open"
      BY <1>1, <1>4, <3>1
    <3> QED
      BY <1>2, <3>1, <3>2
  <2>2. \/ panes'[w].after = 0
        \/ panes'[w].after \in 1..Len(links) /\ links[panes'[w].after].server # "none"
    <3>1. panes'[w].after \in {0, panes[w].after}
      OBVIOUS
    <3> QED
      BY <1>1, <1>4, <3>1
  <2> QED
    BY <1>1, <1>2, <2>1, <2>2
<1>7. ASSUME NEW u \in Windows, NEW w \in Windows,
             panes'[u].link = panes'[w].link, panes'[u].link # 0
      PROVE  u = w
  <2>1. \A t \in Windows \ {v} : panes'[t].link # n
    BY <1>1, <1>4
  <2> QED
    BY <1>7, <2>1 DEF BaseInv, PanesInv
<1> QED
  BY <1>5, <1>6, <1>7 DEF PanesInv

LEMMA FinishIs ==
  ASSUME TypeOK
  PROVE  /\ Finish(facade) \in Facade /\ Finish(facade).closed /\ ~Finish(facade).timer
         /\ Finish(facade).current = facade.current /\ Finish(facade).buffer = <<>>
<1>1. facade \in Facade /\ <<>> \in Seq(Chunk)
  BY DEF TypeOK
<1> QED
  BY <1>1 DEF Finish, Facade

LEMMA ReleasedIs ==
  ASSUME TypeOK, ShellInv
  PROVE  /\ Released(shell) \in Shell /\ Released(shell).made = shell.made
         /\ Released(shell).stage # "open" /\ Released(shell).pod # "kept"
         /\ Released(shell).stage = "connecting" => Released(shell).over
         /\ Released(shell).over => Released(shell).stage \in {"connecting", "ended"}
         /\ shell.stage = "none" <=> Released(shell).stage = "none"
<1>1. shell \in Shell
  BY DEF TypeOK
<1> QED
  BY <1>1 DEF Released, Shell, ShellInv

\* The facade ends, with all that it holds.
LEMMA FinishStep ==
  ASSUME BaseInv, facade.current # 0, FinishAlone, NEW H, Onward(links, links', H)
  PROVE  /\ facade' \in Facade /\ facade'.current = facade.current /\ facade'.buffer = <<>>
         /\ shell' \in Shell /\ shell'.made = shell.made /\ ShellInv' /\ LinksInv' /\ StartInv'
<1>1. /\ facade' = Finish(facade) /\ shell' = Released(shell) /\ TypeOK /\ ShellInv
      /\ facade.current \in 0..Len(links) /\ links \in Seq(Link)
  BY Parts DEF FinishAlone, BaseInv, TypeOK
<1>2. facade' \in Facade /\ facade'.current = facade.current /\ facade'.buffer = <<>>
      /\ ~facade'.timer
  BY <1>1, FinishIs
<1>3. shell' \in Shell /\ shell'.made = shell.made
  BY <1>1, ReleasedIs
<1>4. ShellInv'
  BY <1>1, FinishIs, ReleasedIs DEF ShellInv
<1>5. \A k \in DOMAIN links : links'[k].server = "none" => k > facade.current
  BY DEF BaseInv, LinksInv, Onward, Goes
<1>6. LinksInv'
  BY <1>2, <1>5, LinksStep
<1>7. StartInv'
  BY <1>2 DEF StartInv
<1> QED
  BY <1>2, <1>3, <1>4, <1>6, <1>7

LEMMA CloseFacadeOnward ==
  ASSUME BaseInv, facade.current # 0, NEW frames \in Seq(Downward)
  PROVE  Onward(links, CloseFacade(frames), {})
<1>1. links \in Seq(Link) /\ facade.current \in DOMAIN links
  BY Parts DEF BaseInv, TypeOK
<1> DEFINE ms == IF CurrentOpen THEN Send(links, facade.current, frames) ELSE links
<1>2. Onward(links, ms, {})
  BY <1>1, SendOnward, OnwardSame DEF CurrentOpen
<1>3. ms \in Seq(Link) /\ facade.current \in DOMAIN ms
  BY <1>1, <1>2 DEF Onward
<1> HIDE DEF ms
<1>4. Onward(ms, ServerCloses(ms, facade.current), {})
  BY <1>3, ServerClosesOnward
<1>5. Onward(links, ServerCloses(ms, facade.current), {})
  BY <1>2, <1>4, OnwardTrans
<1> QED
  BY <1>1, <1>5, OnwardSame DEF CloseFacade, ms

LEMMA ChooseIn ==
  ASSUME NEW S, S # {}
  PROVE  (CHOOSE w \in S : TRUE) \in S
  OBVIOUS

LEMMA CancelAskedOnward ==
  ASSUME TypeOK, NEW ls, NEW H, Onward(links, ls, H)
  PROVE  Onward(links, CancelAsked(ls), H)
<1> DEFINE sources == {w \in transfer.from : panes[w].tab /\ PaneOpen(w)}
           u == CHOOSE w \in sources : TRUE
<1>1. sources \subseteq Windows
  BY Parts
<1>2. CASE sources = {}
  BY <1>2 DEF CancelAsked
<1>3. CASE sources # {}
  <2>1. u \in Windows
    BY <1>1, <1>3
  <2>2. CancelAsked(ls) = Ask(ls, panes[u].link, "cancel")
    BY <1>3 DEF CancelAsked
  <2> HIDE DEF u
  <2>3. ls \in Seq(Link) /\ panes[u].link \in 0..Len(ls)
    BY <2>1, PaneAt DEF Onward
  <2>4. Onward(ls, CancelAsked(ls), {})
    BY <2>2, <2>3, AskOnward
  <2>5. Onward(ls, CancelAsked(ls), H)
    BY <2>4, OnwardMore
  <2> QED
    BY <2>5, OnwardTrans
<1> QED
  BY <1>2, <1>3

LEMMA SetPane ==
  ASSUME TypeOK, NEW w \in Windows, NEW x \in Pane, Len(links') >= Len(links),
         links' \in Seq(Link), x.link <= Len(links'), panes' = [panes EXCEPT ![w] = x]
  PROVE  /\ panes' \in [Windows -> Pane] /\ \A v \in Windows : panes'[v].link <= Len(links')
         /\ panes'[w] = x /\ \A v \in Windows \ {w} : panes'[v] = panes[v]
<1>1. panes \in [Windows -> Pane]
  BY DEF TypeOK
<1>2. panes'[w] = x /\ \A v \in Windows \ {w} : panes'[v] = panes[v]
  BY <1>1
<1>3. links \in Seq(Link) /\ \A v \in Windows : panes[v].link \in 0..Len(links)
  BY PaneAt DEF TypeOK
<1>4. \A v \in Windows : panes'[v].link <= Len(links')
  BY <1>2, <1>3
<1> QED
  BY <1>1, <1>2, <1>4

LEMMA NoPaneIs ==
  /\ NoPane \in Pane /\ NoPane.link = 0 /\ NoPane.after = 0 /\ ~NoPane.known /\ ~NoPane.tab
  /\ ~NoPane.preparing /\ NoPane.transfer = 0
  BY DEF NoPane, Pane

LEMMA InFlightIsChunks ==
  ASSUME TypeOK, NEW l \in DOMAIN links
  PROVE  InFlight(l) \subseteq Chunk
<1>1. links[l].down \in Seq(Downward)
  BY LinkAt DEF TypeOK
<1>2. \A i \in Outputs(links[l].down) : links[l].down[i].chunk \in Chunk
  <2> TAKE i \in Outputs(links[l].down)
  <2>1. links[l].down[i] \in Downward /\ links[l].down[i].op = "output"
    BY <1>1 DEF Outputs
  <2> QED
    BY <2>1 DEF Downward
<1> QED
  BY <1>2 DEF InFlight, Chunks

LEMMA RangeSeq ==
  ASSUME NEW S, NEW s \in Seq(S)
  PROVE  Range(s) \subseteq S
  BY DEF Range

LEMMA FlushLostIsChunks ==
  ASSUME TypeOK, NEW l
  PROVE  FlushLost(l) \subseteq Chunk
  BY Parts, RangeSeq DEF FlushLost

\* The next chunk goes into a buffer that is bounded.
LEMMA BufferedIs ==
  ASSUME TypeOK, NEW n \in Chunk
  PROVE  Buffered(n) \in Seq(Chunk) /\ Len(Buffered(n)) <= MaxBuffer
<1>1. facade.buffer \in Seq(Chunk) /\ Len(facade.buffer) <= MaxBuffer
  BY Parts DEF TypeOK
<1>2. CASE Len(facade.buffer) < MaxBuffer
  BY <1>1, <1>2 DEF Buffered
<1>3. CASE ~(Len(facade.buffer) < MaxBuffer)
  <2>1. facade.buffer # <<>> /\ Len(facade.buffer) = MaxBuffer
    BY <1>1, <1>3
  <2>2. Tail(facade.buffer) \in Seq(Chunk) /\ Len(Tail(facade.buffer)) = MaxBuffer - 1
    BY <1>1, <2>1
  <2> QED
    BY <1>3, <2>2 DEF Buffered
<1> QED
  BY <1>2, <1>3

-----------------------------------------------------------------------------
(* Each action keeps the parts right                                       *)

\* What everything rests on.
LEMMA Basics ==
  ASSUME BaseInv
  PROVE  /\ TypeOK /\ StartInv /\ LinksInv /\ PanesInv /\ ShellInv
         /\ shell \in Shell /\ facade \in Facade /\ links \in Seq(Link) /\ Len(links) \in Nat
         /\ facade.current \in 0..Len(links) /\ facade.buffer \in Seq(Chunk)
         /\ Len(facade.buffer) <= MaxBuffer
         /\ panes \in [Windows -> Pane]
         /\ \A w \in Windows : panes[w].link \in 0..Len(links)
         /\ transfer \in Transfer /\ lost \subseteq Chunk /\ faults \in 0..MaxFaults
         /\ facade.current # 0 => facade.current \in DOMAIN links
         /\ \A k \in DOMAIN links : links[k].server = "none" => k > facade.current
  BY Parts, PaneAt DEF BaseInv, TypeOK, LinksInv

\* An action of the server's that leaves the panes alone, on an accepted connection.
LEMMA ServerStep ==
  ASSUME BaseInv, Onward(links, links', {}), facade' \in Facade,
         facade'.current = facade.current, facade.current # 0,
         Len(facade'.buffer) <= MaxBuffer,
         facade'.timer => facade.timer \/ links'[facade.current].cut,
         shell' \in Shell, ShellInv', lost' \subseteq Chunk, faults' \in 0..MaxFaults,
         UNCHANGED <<panes, transfer>>
  PROVE  BaseInv'
<1>1. \A k \in DOMAIN links : links'[k].server = "none" => k > facade'.current
  BY Basics DEF Onward, Goes
<1>2. LinksInv'
  BY <1>1, LinksStep
<1>3. PanesInv'
  BY PanesStep DEF BaseInv, PanesInv
<1>4. StartInv'
  BY DEF StartInv
<1>5. TypeOK'
  BY Basics DEF TypeOK, Onward
<1> QED
  BY <1>2, <1>3, <1>4, <1>5 DEF BaseInv

\* One that finishes the facade.
LEMMA FinishBase ==
  ASSUME BaseInv, facade.current # 0, FinishAlone, Onward(links, links', {}),
         faults' \in 0..MaxFaults, UNCHANGED <<panes, transfer, lost>>
  PROVE  BaseInv'
<1>1. /\ facade' \in Facade /\ facade'.current = facade.current /\ facade'.buffer = <<>>
      /\ shell' \in Shell /\ ShellInv' /\ LinksInv' /\ StartInv'
  BY FinishStep
<1>2. PanesInv'
  BY PanesStep DEF BaseInv, PanesInv
<1>3. TypeOK'
  BY <1>1, Basics DEF TypeOK, Onward
<1> QED
  BY <1>1, <1>2, <1>3 DEF BaseInv

LEMMA WriteBase ==
  ASSUME BaseInv, Write
  PROVE  BaseInv'
<1> DEFINE n == shell.made + 1
<1>1. n \in Chunk /\ facade.current # 0
  <2>1. shell.made \in Nat /\ MaxOutput \in Nat /\ shell.made < MaxOutput
    BY Basics, Parts DEF Write
  <2>2. shell.stage # "none"
    BY DEF Write
  <2> QED
    BY <2>1, <2>2, Basics DEF StartInv, Chunk
<1>2. shell' = [shell EXCEPT !.made = n] /\ UNCHANGED <<panes, transfer, faults>>
  BY DEF Write
<1>3. shell' \in Shell /\ ShellInv'
  <2>1. shell \in Shell /\ n \in 0..MaxOutput /\ ~facade.closed
    BY <1>1, Basics DEF Write, Chunk
  <2>2. /\ shell' \in Shell /\ shell'.stage = shell.stage /\ shell'.over = shell.over
        /\ shell'.pod = shell.pod
    BY <1>2, <2>1 DEF Shell
  <2>3. facade'.closed = facade.closed
    BY Basics DEF Write, Facade
  <2> QED
    BY <2>1, <2>2, <2>3, Basics DEF ShellInv
<1>4. CASE facade.buffering \/ facade.detached \/ ~CurrentOpen
  <2>1. /\ facade' = [facade EXCEPT !.buffer = Buffered(n)] /\ links' = links
        /\ lost' = lost \cup (Range(facade.buffer) \ Range(Buffered(n)))
    BY <1>4 DEF Write
  <2>2. Buffered(n) \in Seq(Chunk) /\ Len(Buffered(n)) <= MaxBuffer
    BY <1>1, Basics, BufferedIs
  <2>3. /\ facade' \in Facade /\ facade'.current = facade.current /\ facade'.timer = facade.timer
        /\ facade'.closed = facade.closed /\ Len(facade'.buffer) <= MaxBuffer
    BY <2>1, <2>2, Basics DEF Facade
  <2>4. lost' \subseteq Chunk
    BY <2>1, Basics, RangeSeq
  <2>5. Onward(links, links', {})
    BY <2>1, Basics, OnwardSame
  <2> HIDE DEF n
  <2>6. ShellInv'
    BY <1>3
  <2> QED
    BY <1>1, <1>2, <1>3, <2>3, <2>4, <2>5, <2>6, Basics, ServerStep
<1>5. CASE ~(facade.buffering \/ facade.detached \/ ~CurrentOpen)
  <2>1. /\ facade' = facade /\ links' = Send(links, facade.current, <<Output(n)>>)
        /\ lost' = IF links[facade.current].cut THEN lost \cup {n} ELSE lost
    BY <1>5 DEF Write
  <2>2. <<Output(n)>> \in Seq(Downward)
    BY <1>1, Frame
  <2>3. links[facade.current].server # "none"
    BY <1>5 DEF CurrentOpen
  <2>4. Onward(links, links', {})
    BY <1>1, <2>1, <2>2, <2>3, Basics, SendOnward
  <2>5. lost' \subseteq Chunk
    BY <1>1, <2>1, Basics
  <2> HIDE DEF n
  <2> QED
    BY <1>1, <1>2, <1>3, <2>1, <2>4, <2>5, Basics, ServerStep
<1> QED
  BY <1>4, <1>5

LEMMA AcceptNewBase ==
  ASSUME BaseInv, NEW l \in DOMAIN links, AcceptNew(l)
  PROVE  BaseInv'
<1>1. l = 1 /\ links[l].server = "none" /\ facade.current = 0
  BY Basics DEF AcceptNew, Arrives, LinksInv
<1>2. /\ ~facade.closed /\ ~facade.timer /\ shell.stage = "none"
  BY <1>1, Basics DEF StartInv
<1>3. /\ facade' = [facade EXCEPT !.current = 1] /\ UNCHANGED <<panes, transfer, lost, faults>>
      /\ \E stage \in {"pod", "connecting"} : shell' = [shell EXCEPT !.stage = stage]
  BY <1>1 DEF AcceptNew
<1>4. facade' \in Facade /\ facade'.current = 1 /\ ~facade'.closed /\ ~facade'.timer
      /\ Len(facade'.buffer) <= MaxBuffer
  BY <1>2, <1>3, Basics DEF Facade
<1>5. shell' \in Shell /\ ShellInv'
  BY <1>2, <1>3, <1>4, Basics DEF Shell, ShellInv
<1> DEFINE ms == [links EXCEPT ![l].server = "open"]
<1>6. Onward(links, ms, {}) /\ SoleChange(links, ms, l) /\ ms[l].server = "open"
  <2>1. links \in Seq(Link)
    BY Basics
  <2>2. /\ Onward(links, ms, {}) /\ SoleChange(links, ms, l)
        /\ ms[l] = [links[l] EXCEPT !.server = "open"]
    BY <2>1, AcceptOnward
  <2> HIDE DEF ms
  <2>3. links[l] \in Link
    BY <2>1
  <2> QED
    BY <2>2, <2>3 DEF Link
<1>7. links' = Send(ms, l, <<Control("session")>>)
  BY DEF AcceptNew
<1>8. <<Control("session")>> \in Seq(Downward)
  BY Frame
<1> HIDE DEF ms
<1>9. ms \in Seq(Link) /\ l \in DOMAIN ms
  BY <1>6 DEF Onward
<1>10. Onward(links, links', {}) /\ links'[1].server # "none"
  <2>1. Onward(ms, links', {})
    BY <1>6, <1>7, <1>8, <1>9, SendOnward
  <2> QED
    BY <1>1, <1>6, <1>9, <2>1, OnwardTrans DEF Onward, Goes
<1>11. LinksInv'
  <2>1. \A k \in DOMAIN links : links'[k].server = "none" => k > facade'.current
    BY <1>4, <1>10, Basics
  <2> QED
    BY <1>4, <1>10, <2>1, LinksStep
<1>12. PanesInv'
  BY <1>3, <1>10, PanesStep, Basics DEF PanesInv
<1>13. StartInv'
  BY <1>4 DEF StartInv
<1>14. TypeOK'
  BY <1>3, <1>4, <1>5, <1>10, Basics DEF TypeOK, Onward
<1> QED
  BY <1>5, <1>11, <1>12, <1>13, <1>14 DEF BaseInv

\* The new connection is what the page asked for, and comes with the buffer.
LEMMA AttachIs ==
  ASSUME BaseInv, NEW l \in DOMAIN links, Attach(l)
  PROVE  /\ facade.current \in DOMAIN links /\ l > facade.current /\ links[l].server = "none"
         /\ links[l].down = <<>>
         /\ Onward(links, links', {}) /\ links'[l].server = "open"
         /\ \A k \in DOMAIN links \ {l, facade.current} : links'[k] = links[k]
         /\ links'[facade.current] = Closing(links[facade.current])
         /\ links'[l] = Sent([links[l] EXCEPT !.server = "open"],
                             <<Control("session")>> \o Frames(facade.buffer))
<1>1. links[l].server = "none" /\ l > facade.current /\ l # 1 /\ links[l].down = <<>>
  BY Basics DEF Attach, Arrives, LinksInv
<1>2. facade.current \in DOMAIN links
  BY <1>1, Basics DEF StartInv
<1> DEFINE c == facade.current
           ms == ServerCloses(links, c)
           ns == [ms EXCEPT ![l].server = "open"]
           frames == <<Control("session")>> \o Frames(facade.buffer)
<1>3. links' = Send(ns, l, frames)
  BY DEF Attach
<1>4. frames \in Seq(Downward)
  <2>1. <<Control("session")>> \in Seq(Downward)
    BY Frame
  <2>2. Frames(facade.buffer) \in Seq(Downward)
    BY Basics, FramesSeq
  <2> QED
    BY <2>1, <2>2
<1>5. SoleChange(links, ms, c) /\ Onward(links, ms, {}) /\ ms[c] = Closing(links[c])
  BY <1>2, Basics, ServerClosesIs, ServerClosesOnward
<1> HIDE DEF frames, ms
<1>6. ms \in Seq(Link) /\ l \in DOMAIN ms /\ ms[l] = links[l] /\ DOMAIN ms = DOMAIN links
  BY <1>1, <1>5 DEF SoleChange
<1>7. SoleChange(ms, ns, l) /\ Onward(ms, ns, {}) /\ ns[l] = [ms[l] EXCEPT !.server = "open"]
  BY <1>6, AcceptOnward
<1> HIDE DEF ns
<1>8. ns \in Seq(Link) /\ l \in DOMAIN ns /\ ns[l].server = "open"
  BY <1>6, <1>7, LinkAt DEF SoleChange, Link
<1>9. SoleChange(ns, links', l) /\ Onward(ns, links', {}) /\ links'[l] = Sent(ns[l], frames)
  BY <1>3, <1>4, <1>8, SendIs, SendOnward
<1>10. Onward(links, links', {})
  BY <1>5, <1>7, <1>9, OnwardTrans
<1>11. links'[l].server = "open"
  BY <1>8, <1>9, LinkAt DEF Sent, Link
<1>12. \A k \in DOMAIN links \ {l, c} : links'[k] = links[k]
  BY <1>5, <1>6, <1>7, <1>9 DEF SoleChange
<1>13. links'[c] = Closing(links[c])
  BY <1>1, <1>2, <1>5, <1>6, <1>7, <1>9 DEF SoleChange
<1>14. links'[l] = Sent([links[l] EXCEPT !.server = "open"], frames)
  BY <1>6, <1>7, <1>9
<1> QED
  BY <1>1, <1>2, <1>10, <1>11, <1>12, <1>13, <1>14 DEF frames

LEMMA AttachBase ==
  ASSUME BaseInv, NEW l \in DOMAIN links, Attach(l)
  PROVE  BaseInv'
<1>1. /\ facade.current \in DOMAIN links /\ l > facade.current /\ links[l].server = "none"
      /\ Onward(links, links', {}) /\ links'[l].server = "open"
  BY AttachIs
<1>2. /\ facade' = [facade EXCEPT !.current = l, !.detached = FALSE, !.timer = FALSE,
                      !.buffering = FALSE, !.buffer = <<>>]
      /\ UNCHANGED <<shell, panes, transfer, faults>>
  BY DEF Attach
<1>3. <<>> \in Seq(Chunk) /\ l \in Nat /\ l <= Len(links)
  BY Basics
<1>4. facade' \in Facade /\ facade'.current = l /\ ~facade'.timer /\ facade'.buffer = <<>>
      /\ facade'.closed = facade.closed
  BY <1>2, <1>3, Basics DEF Facade
<1>5. LinksInv'
  <2>1. \A k \in DOMAIN links : links'[k].server = "none" => k > facade'.current
    <3> SUFFICES ASSUME NEW k \in DOMAIN links, links'[k].server = "none" PROVE k > l
      BY <1>4
    <3>1. links[k].server = "none" /\ k # l
      BY <1>1 DEF Onward, Goes
    <3>2. \A j \in 1..(l - 1) : links[j].server # "none"
      BY DEF Attach, Arrives
    <3> QED
      BY <3>1, <3>2, Basics
  <2> QED
    BY <1>1, <1>4, <2>1, LinksStep
<1>6. PanesInv'
  BY <1>1, <1>2, PanesStep, Basics DEF PanesInv
<1>7. StartInv' /\ ShellInv'
  BY <1>1, <1>2, <1>4, Basics DEF StartInv, ShellInv
<1>8. lost' \subseteq Chunk
  BY Basics, FlushLostIsChunks DEF Attach, Chunk, Shell
<1>9. TypeOK'
  BY <1>1, <1>2, <1>3, <1>4, <1>8, Basics DEF TypeOK, Onward
<1> QED
  BY <1>5, <1>6, <1>7, <1>9 DEF BaseInv

LEMMA AttachRefusedBase ==
  ASSUME BaseInv, NEW l \in DOMAIN links, AttachRefused(l)
  PROVE  BaseInv'
<1> DEFINE frames == <<Control("exit"), Control("close")>>
           ms == Send(links, l, frames)
<1>1. /\ links' = [ms EXCEPT ![l].server = "closing"] /\ links[l].server = "none"
      /\ (links[l].resumes => facade.closed)
      /\ UNCHANGED <<shell, facade, panes, transfer, lost, faults>>
  BY DEF AttachRefused, Arrives
<1>2. frames \in Seq(Downward) /\ links \in Seq(Link) /\ links[l].down = <<>>
  BY <1>1, Frame, Basics DEF LinksInv
<1>3. SoleChange(links, ms, l) /\ ms[l] = Sent(links[l], frames)
  BY <1>2, SendIs
<1> HIDE DEF ms, frames
<1>4. ms \in Seq(Link) /\ l \in DOMAIN ms /\ ms[l] \in Link
  BY <1>3 DEF SoleChange
<1>5. /\ SoleChange(ms, links', l) /\ links'[l] = [ms[l] EXCEPT !.server = "closing"]
  BY <1>1, <1>4, AcceptOnward
<1>6. SoleChange(links, links', l)
  BY <1>3, <1>5 DEF SoleChange
<1>7. links[l] \in Link
  BY <1>2
<1>8. /\ links'[l].server = "closing" /\ links'[l].client = links[l].client
      /\ links'[l].resumes = links[l].resumes /\ links'[l].cut = links[l].cut
      /\ links'[l].up = links[l].up
      /\ links'[l].down \in {<<>>, <<>> \o frames}
  BY <1>2, <1>3, <1>4, <1>5, <1>7 DEF Sent, Link
<1>9. Onward(links, links', {})
  <2>1. Goes(links[l], links'[l])
    BY <1>8 DEF Goes
  <2> QED
    BY <1>2, <1>6, <1>8, <2>1, OnwardSole
<1>10. CASE facade.current # 0
  <2>1. ShellInv'
    BY <1>1, Basics DEF ShellInv
  <2>2. facade' = facade /\ shell' = shell /\ lost' = lost /\ faults' = faults
    BY <1>1
  <2> QED
    BY <1>1, <1>9, <1>10, <2>1, <2>2, Basics, ServerStep
<1>11. CASE facade.current = 0
  <2>1. StartInv /\ ~facade.timer /\ Len(links) = 1 /\ l = 1
    BY <1>2, <1>11, Basics DEF StartInv
  <2>2. LinksInv'
    BY <1>1, <1>9, Basics, LinksStep DEF Onward, Goes
  <2>3. PanesInv'
    <3>1. \A w \in Windows : panes[w].link # 0 => panes[w].tab
      BY Basics DEF PanesInv
    <3>2. panes' = panes
      BY <1>1
    <3> QED
      BY <1>9, <3>1, <3>2, PanesStep
  <2>4. \A i \in DOMAIN links'[1].down : links'[1].down[i].op \in {"exit", "close"}
    <3>1. links'[1].down \in {<<>>, <<Control("exit"), Control("close")>>}
      BY <1>8, <2>1 DEF frames
    <3> QED
      BY <3>1 DEF Control
  <2>5. StartInv'
    BY <1>1, <1>9, <1>11, <2>1, <2>4 DEF StartInv, Onward
  <2>6. TypeOK' /\ ShellInv'
    BY <1>1, <1>9, Basics DEF TypeOK, Onward, ShellInv
  <2> QED
    BY <2>2, <2>3, <2>5, <2>6 DEF BaseInv
<1> QED
  BY <1>10, <1>11

\* What is on the way down from a server that has refused the terminal.
Calm(frames) == \A i \in DOMAIN frames : frames[i].op \in {"exit", "close"}
Drains(ls, ms) == \A k \in DOMAIN ls : Calm(ls[k].down) => Calm(ms[k].down)

LEMMA CalmTail ==
  ASSUME NEW frames \in Seq(Downward), frames # <<>>, Calm(frames)
  PROVE  Calm(Tail(frames))
<1> SUFFICES ASSUME NEW i \in DOMAIN Tail(frames)
             PROVE  Tail(frames)[i].op \in {"exit", "close"}
  BY DEF Calm
<1>1. i + 1 \in DOMAIN frames /\ Tail(frames)[i] = frames[i + 1]
  OBVIOUS
<1> QED
  BY <1>1 DEF Calm

LEMMA CalmEnd ==
  Calm(<<>>) /\ Calm(<<Control("close")>>)
  BY DEF Calm, Control

LEMMA DrainsSole ==
  ASSUME NEW ls \in Seq(Link), NEW ms, NEW l \in Nat, SoleChange(ls, ms, l),
         l \in DOMAIN ls => (Calm(ls[l].down) => Calm(ms[l].down))
  PROVE  Drains(ls, ms)
  BY DEF SoleChange, Drains

LEMMA DrainsTrans ==
  ASSUME NEW ls, NEW ms, NEW ns, Drains(ls, ms), Drains(ms, ns), DOMAIN ms = DOMAIN ls
  PROVE  Drains(ls, ns)
  BY DEF Drains

LEMMA AskDrains ==
  ASSUME NEW ls \in Seq(Link), NEW l \in 0..Len(ls), NEW op \in Upward
  PROVE  Drains(ls, Ask(ls, l, op))
<1>1. SoleChange(ls, Ask(ls, l, op), l) /\ (l # 0 => Ask(ls, l, op)[l] = Asked(ls[l], op))
  BY AskIs
<1>2. l \in DOMAIN ls => l # 0 /\ ls[l] \in Link
  OBVIOUS
<1>3. l \in DOMAIN ls => Asked(ls[l], op).down = ls[l].down
  BY <1>2 DEF Asked, Link
<1> QED
  BY <1>1, <1>2, <1>3, DrainsSole

LEMMA HangDrains ==
  ASSUME NEW ls \in Seq(Link), NEW l \in 0..Len(ls), NEW op \in Upward
  PROVE  Drains(ls, Hang(ls, l, op))
<1>1. SoleChange(ls, Hang(ls, l, op), l) /\ (l # 0 => Hang(ls, l, op)[l] = Hung(ls[l], op))
  BY HangIs
<1>2. l \in DOMAIN ls => l # 0 /\ ls[l] \in Link
  OBVIOUS
<1>3. l \in DOMAIN ls => Hung(ls[l], op).down = <<>>
  BY <1>2 DEF Hung, Asked, Link
<1> QED
  BY <1>1, <1>2, <1>3, CalmEnd, DrainsSole

LEMMA ShowsDrains ==
  ASSUME NEW ls \in Seq(Link), NEW l \in DOMAIN ls, ls[l].down # <<>>,
         NEW ms, ms = [ls EXCEPT ![l].down = Tail(@)]
  PROVE  Drains(ls, ms)
<1>1. SoleChange(ls, ms, l) /\ ms[l] = [ls[l] EXCEPT !.down = Tail(ls[l].down)]
  BY ShowsIs
<1>2. ls[l] \in Link /\ ls[l].down \in Seq(Downward) /\ l \in Nat
  BY LinkAt
<1>3. ms[l].down = Tail(ls[l].down)
  BY <1>1, <1>2 DEF Link
<1> QED
  BY <1>1, <1>2, <1>3, CalmTail, DrainsSole

LEMMA ReadDrains ==
  ASSUME NEW ls \in Seq(Link), NEW l \in DOMAIN ls, ls[l].up # <<>>,
         NEW ms, ms = [ls EXCEPT ![l].up = Tail(@)]
  PROVE  Drains(ls, ms)
<1>1. SoleChange(ls, ms, l) /\ ms[l] = [ls[l] EXCEPT !.up = Tail(ls[l].up)]
  BY ReadIs
<1>2. ls[l] \in Link /\ l \in Nat
  OBVIOUS
<1> QED
  BY <1>1, <1>2, DrainsSole DEF Link

LEMMA SettleDrains ==
  ASSUME NEW ls \in Seq(Link), NEW l \in DOMAIN ls
  PROVE  Drains(ls, [ls EXCEPT ![l].server = "closed", ![l].up = <<>>])
<1>1. \A k \in DOMAIN ls : ls[k] \in Link
  OBVIOUS
<1> QED
  BY <1>1 DEF Drains, Link

\* What the pages do: connections are only asked something and left.
LEMMA PageStep ==
  ASSUME BaseInv, NEW H, Onward(links, links', H), Drains(links, links'),
         UNCHANGED <<shell, facade>>, panes' \in [Windows -> Pane],
         \A w \in Windows :
           /\ panes'[w].link # 0 =>
                panes'[w].link = panes[w].link /\ panes[w].link \notin H /\ panes'[w].tab
           /\ panes'[w].after \in {0, panes[w].after}
           /\ panes'[w].known => panes[w].known \/ facade.current # 0,
         transfer' \in Transfer, lost' \subseteq Chunk, faults' \in 0..MaxFaults
  PROVE  BaseInv'
<1>1. \A k \in DOMAIN links : links'[k].server = "none" => k > facade.current
  BY Basics DEF Onward, Goes
<1>2. LinksInv'
  BY <1>1, LinksStep
<1>3. PanesInv'
  BY PanesStep
<1>4. StartInv'
  <2> SUFFICES ASSUME facade.current = 0 PROVE StartInv'
    BY DEF StartInv
  <2>1. StartInv /\ links \in Seq(Link)
    BY Basics
  <2>2. 1 \in DOMAIN links /\ Calm(links[1].down) /\ Len(links) = 1
    BY <2>1 DEF StartInv, Calm
  <2>3. Calm(links'[1].down) /\ Len(links') = 1
    BY <2>2 DEF Drains, Onward
  <2> QED
    BY <2>1, <2>3 DEF StartInv, Calm
<1>5. TypeOK'
  <2>1. \A w \in Windows : panes'[w].link \in {0, panes[w].link}
    OBVIOUS
  <2>2. \A w \in Windows : panes'[w].link <= Len(links')
    BY <2>1, Basics DEF Onward
  <2> QED
    BY <2>2, Basics DEF TypeOK, Onward
<1>6. ShellInv'
  BY Basics DEF ShellInv
<1> QED
  BY <1>2, <1>3, <1>4, <1>5, <1>6 DEF BaseInv

\* ... or a page opens one.
LEMMA GrowStep ==
  ASSUME BaseInv, facade.current # 0, UNCHANGED <<shell, facade>>,
         NEW H, NEW n, Opened(links, links', H, n), panes' \in [Windows -> Pane],
         NEW v \in Windows, panes'[v].tab, panes'[v].link = n,
         \/ panes'[v].after = 0
         \/ panes'[v].after \in DOMAIN links /\ links[panes'[v].after].server # "none",
         \A w \in Windows \ {v} :
           /\ panes'[w].link # 0 =>
                panes'[w].link = panes[w].link /\ panes[w].link \notin H /\ panes'[w].tab
           /\ panes'[w].after \in {0, panes[w].after},
         transfer' \in Transfer, lost' \subseteq Chunk, faults' \in 0..MaxFaults
  PROVE  BaseInv'
<1>1. LinksInv'
  BY LinksGrow
<1>2. PanesInv'
  BY PanesGrow
<1>3. StartInv' /\ ShellInv'
  BY Basics DEF StartInv, ShellInv
<1>4. TypeOK'
  <2>1. links' \in Seq(Link) /\ Len(links') = Len(links) + 1 /\ n = Len(links')
    BY DEF Opened
  <2>2. \A w \in Windows : panes'[w].link \in {0, n, panes[w].link}
    OBVIOUS
  <2>3. \A w \in Windows : panes'[w].link <= Len(links')
    BY <2>1, <2>2, Basics, SMTT(30)
  <2> QED
    BY <2>1, <2>3, Basics DEF TypeOK
<1> QED
  BY <1>1, <1>2, <1>3, <1>4 DEF BaseInv

\* The server reads from a connection that is not the current one.
LEMMA UnboundBase ==
  ASSUME BaseInv, NEW l \in DOMAIN links, links[l].up # <<>>, links' \in {Read(l), Gone(l)},
         UNCHANGED <<shell, facade, panes, transfer, lost, faults>>
  PROVE  BaseInv'
<1>1. Onward(links, links', {}) /\ Drains(links, links')
  <2>1. CASE links' = Read(l)
    BY <2>1, Basics, ReadOnward, ReadDrains DEF Read
  <2>2. CASE links' = Gone(l)
    BY <2>2, Basics, GoneOnward, SettleDrains DEF Gone
  <2> QED
    BY <2>1, <2>2
<1>2. \A w \in Windows : panes[w].link # 0 => panes[w].tab
  BY Basics DEF PanesInv
<1> QED
  BY <1>1, <1>2, Basics, PageStep

LEMMA AnswerOnward ==
  ASSUME BaseInv, NEW l \in DOMAIN links, links[l].up # <<>>, links[l].server # "none",
         NEW frames \in Seq(Downward)
  PROVE  Onward(links, Send(Read(l), l, frames), {})
<1> DEFINE ms == Read(l)
<1>1. Onward(links, ms, {}) /\ SoleChange(links, ms, l) /\ ms[l] = [links[l] EXCEPT !.up = Tail(links[l].up)]
  BY Basics, ReadOnward, ReadIs DEF Read
<1> HIDE DEF ms
<1>2. links[l] \in Link
  BY Basics
<1>3. ms \in Seq(Link) /\ l \in DOMAIN ms /\ ms[l].server # "none"
  BY <1>1, <1>2 DEF SoleChange, Link
<1>4. Onward(ms, Send(ms, l, frames), {})
  BY <1>3, SendOnward
<1>5. Onward(links, Send(ms, l, frames), {})
  BY <1>1, <1>4, OnwardTrans
<1> QED
  BY <1>5 DEF ms

LEMMA OnPrepareBase ==
  ASSUME BaseInv, NEW l \in DOMAIN links, OnPrepare(l)
  PROVE  BaseInv'
<1>1. links[l].up # <<>> /\ links[l].server # "none"
  BY DEF OnPrepare, Reads
<1>2. CASE ~Bound(l)
  BY <1>1, <1>2, UnboundBase DEF OnPrepare
<1>3. CASE Bound(l)
  <2>1. /\ facade' = [facade EXCEPT !.buffering = TRUE]
        /\ links' = Send(Read(l), l, <<Control("ready")>>)
        /\ UNCHANGED <<shell, panes, transfer, lost, faults>> /\ facade.current = l
    BY <1>3 DEF OnPrepare, Bound
  <2>2. /\ facade' \in Facade /\ facade'.current = facade.current /\ facade'.timer = facade.timer
        /\ facade'.buffer = facade.buffer /\ facade'.closed = facade.closed
    BY <2>1, Basics DEF Facade
  <2>3. <<Control("ready")>> \in Seq(Downward)
    BY Frame
  <2>4. Onward(links, links', {})
    BY <1>1, <2>1, <2>3, AnswerOnward
  <2>5. ShellInv'
    BY <2>1, <2>2, Basics DEF ShellInv
  <2> QED
    BY <2>1, <2>2, <2>4, <2>5, Basics, ServerStep
<1> QED
  BY <1>2, <1>3

LEMMA OnCancelBase ==
  ASSUME BaseInv, NEW l \in DOMAIN links, OnCancel(l)
  PROVE  BaseInv'
<1>1. links[l].up # <<>> /\ links[l].server # "none"
  BY DEF OnCancel, Reads
<1>2. CASE ~Bound(l)
  BY <1>1, <1>2, UnboundBase DEF OnCancel
<1>3. CASE Bound(l)
  <2>1. /\ facade' = [facade EXCEPT !.buffering = FALSE, !.buffer = <<>>]
        /\ links' = Send(Read(l), l, Frames(facade.buffer))
        /\ lost' = lost \cup FlushLost(l)
        /\ UNCHANGED <<shell, panes, transfer, faults>> /\ facade.current = l
    BY <1>3 DEF OnCancel, Bound
  <2>2. /\ facade' \in Facade /\ facade'.current = facade.current /\ facade'.timer = facade.timer
        /\ facade'.buffer = <<>> /\ facade'.closed = facade.closed
    <3>1. <<>> \in Seq(Chunk) /\ facade \in Facade
      BY Basics
    <3> QED
      BY <2>1, <3>1 DEF Facade
  <2>3. Frames(facade.buffer) \in Seq(Downward)
    BY Basics, FramesSeq
  <2>4. Onward(links, links', {})
    BY <1>1, <2>1, <2>3, AnswerOnward
  <2>5. ShellInv'
    BY <2>1, <2>2, Basics DEF ShellInv
  <2>6. lost' \subseteq Chunk
    BY <2>1, Basics, FlushLostIsChunks
  <2>7. Len(facade'.buffer) <= MaxBuffer
    BY <2>2
  <2> QED
    BY <2>1, <2>2, <2>4, <2>5, <2>6, <2>7, Basics, ServerStep
<1> QED
  BY <1>2, <1>3

LEMMA OnByeBase ==
  ASSUME BaseInv, NEW l \in DOMAIN links, OnBye(l)
  PROVE  BaseInv'
<1>1. links[l].up # <<>> /\ links' = Gone(l) /\ UNCHANGED <<panes, transfer, lost, faults>>
  BY DEF OnBye, Reads
<1>2. CASE ~Bound(l)
  BY <1>1, <1>2, UnboundBase DEF OnBye
<1>3. CASE Bound(l)
  <2>1. FinishAlone /\ facade.current # 0
    BY <1>3, Basics DEF OnBye, Bound
  <2>2. Onward(links, links', {})
    BY <1>1, Basics, GoneOnward
  <2> QED
    BY <1>1, <2>1, <2>2, Basics, FinishBase
<1> QED
  BY <1>2, <1>3

LEMMA OnGoneBase ==
  ASSUME BaseInv, NEW l \in DOMAIN links, OnGone(l)
  PROVE  BaseInv'
<1>1. /\ links[l].up # <<>> /\ links' = Gone(l) /\ Head(links[l].up) = "gone"
      /\ UNCHANGED <<shell, panes, transfer, lost, faults>>
  BY DEF OnGone, Reads
<1>2. CASE ~Bound(l)
  BY <1>1, <1>2, UnboundBase DEF OnGone
<1>3. CASE Bound(l)
  <2>1. facade' = [facade EXCEPT !.detached = TRUE, !.timer = TRUE] /\ facade.current = l
    BY <1>3 DEF OnGone, Bound
  <2>2. /\ facade' \in Facade /\ facade'.current = facade.current
        /\ facade'.buffer = facade.buffer /\ facade'.closed = facade.closed
    BY <2>1, Basics DEF Facade
  <2>3. Onward(links, links', {})
    BY <1>1, Basics, GoneOnward
  <2>4. links'[l].cut
    <3>1. links[l].up \in Seq(Upward)
      BY Basics, LinkAt
    <3>2. Has(links[l].up, "gone")
      BY <1>1, <3>1 DEF Has
    <3>3. links[l].cut
      BY <3>2, Basics DEF LinksInv
    <3> QED
      BY <2>3, <3>3 DEF Onward, Goes
  <2>5. ShellInv'
    BY <1>1, <2>2, Basics DEF ShellInv
  <2> QED
    BY <1>1, <2>1, <2>2, <2>3, <2>4, <2>5, Basics, ServerStep
<1> QED
  BY <1>2, <1>3

LEMMA GraceExpiresBase ==
  ASSUME BaseInv, GraceExpires
  PROVE  BaseInv'
<1>1. facade.current # 0 /\ FinishAlone /\ UNCHANGED <<links, panes, transfer, lost, faults>>
  BY Basics DEF GraceExpires, StartInv
<1>2. Onward(links, links', {})
  BY <1>1, Basics, OnwardSame
<1> QED
  BY <1>1, <1>2, Basics, FinishBase

LEMMA DisposeBase ==
  ASSUME BaseInv, Dispose
  PROVE  BaseInv'
<1>1. /\ facade.current # 0 /\ FinishAlone /\ links' = CloseFacade(<<>>) /\ Fault
      /\ UNCHANGED <<panes, transfer, lost>>
  BY DEF Dispose
<1>2. <<>> \in Seq(Downward)
  OBVIOUS
<1>3. Onward(links, links', {})
  BY <1>1, <1>2, CloseFacadeOnward
<1>4. faults' \in 0..MaxFaults
  BY <1>1, Basics DEF Fault
<1> QED
  BY <1>1, <1>3, <1>4, FinishBase

LEMMA PodStartsBase ==
  ASSUME BaseInv, PodStarts
  PROVE  BaseInv'
<1>1. /\ shell.stage = "pod" /\ UNCHANGED <<facade, links, panes, transfer, lost, faults>>
      /\ shell' = IF facade.closed THEN [shell EXCEPT !.stage = "ended", !.pod = "deleted"]
                  ELSE [shell EXCEPT !.stage = "connecting", !.pod = "kept"]
  BY DEF PodStarts
<1>2. facade.current # 0
  BY <1>1, Basics DEF StartInv
<1>3. shell' \in Shell /\ ShellInv'
  BY <1>1, Basics DEF Shell, ShellInv
<1>4. Onward(links, links', {})
  BY <1>1, Basics, OnwardSame
<1> QED
  BY <1>1, <1>2, <1>3, <1>4, Basics, ServerStep

LEMMA ConnectedBase ==
  ASSUME BaseInv, Connected
  PROVE  BaseInv'
<1>1. /\ shell.stage = "connecting" /\ UNCHANGED <<facade, links, panes, transfer, lost, faults>>
      /\ shell' = [shell EXCEPT !.stage = IF shell.over THEN "ended" ELSE "open"]
  BY DEF Connected
<1>2. facade.current # 0
  BY <1>1, Basics DEF StartInv
<1>3. shell' \in Shell /\ ShellInv'
  BY <1>1, Basics DEF Shell, ShellInv
<1>4. Onward(links, links', {})
  BY <1>1, Basics, OnwardSame
<1> QED
  BY <1>1, <1>2, <1>3, <1>4, Basics, ServerStep

LEMMA EndsBase ==
  ASSUME BaseInv, Ends
  PROVE  BaseInv'
<1>1. /\ shell.stage \in {"pod", "connecting", "open"}
      /\ shell' = [Released(shell) EXCEPT !.stage = "ended"]
      /\ UNCHANGED <<panes, transfer, lost, faults>>
  BY DEF Ends
<1>2. facade.current # 0
  BY <1>1, Basics DEF StartInv
<1>3. shell' \in Shell /\ shell'.stage = "ended" /\ shell'.pod # "kept"
  <2>1. Released(shell) \in Shell /\ Released(shell).pod # "kept"
    BY Basics, ReleasedIs
  <2> QED
    BY <1>1, <2>1 DEF Shell
<1>4. ShellInv'
  BY <1>3 DEF ShellInv
<1>5. /\ facade' \in Facade /\ facade'.current = facade.current
      /\ Len(facade'.buffer) <= MaxBuffer /\ (facade'.timer => facade.timer)
  <2>1. facade' = facade \/ facade' = Finish(facade)
    BY DEF Ends
  <2>2. CASE facade' = facade
    BY <2>2, Basics
  <2>3. CASE facade' = Finish(facade)
    BY <2>3, Basics, FinishIs
  <2> QED
    BY <2>1, <2>2, <2>3
<1>6. Onward(links, links', {})
  <2>1. <<Control("exit")>> \in Seq(Downward)
    BY Frame
  <2>2. links' = links \/ links' = CloseFacade(<<Control("exit")>>)
    BY DEF Ends
  <2>3. Onward(links, links, {}) /\ Onward(links, CloseFacade(<<Control("exit")>>), {})
    BY <1>2, <2>1, Basics, OnwardSame, CloseFacadeOnward
  <2> QED
    BY <2>2, <2>3
<1> QED
  BY <1>1, <1>2, <1>3, <1>4, <1>5, <1>6, Basics, ServerStep

LEMMA TransferIs ==
  ASSUME BaseInv
  PROVE  /\ \A from, claim \in SUBSET Windows, claimed \in BOOLEAN :
              [id |-> transfer.id, from |-> from, claim |-> claim, claimed |-> claimed] \in Transfer
         /\ [transfer EXCEPT !.claim = {}] \in Transfer
         /\ [transfer EXCEPT !.from = {}] \in Transfer
         /\ [transfer EXCEPT !.claimed = TRUE] \in Transfer
         /\ [transfer EXCEPT !.claimed = TRUE, !.from = {}] \in Transfer
         /\ \A v \in Windows : [transfer EXCEPT !.claim = {v}, !.claimed = TRUE] \in Transfer
         /\ \A S : [transfer EXCEPT !.from = transfer.from \ S] \in Transfer
         /\ \A S : [transfer EXCEPT !.from = transfer.from \ S, !.claim = transfer.claim \ S]
                     \in Transfer
<1>1. transfer \in Transfer
  BY Basics
<1> QED
  BY <1>1 DEF Transfer

LEMMA TokenStep ==
  ASSUME BaseInv, UNCHANGED <<shell, facade, links, panes, lost, faults>>, transfer' \in Transfer
  PROVE  BaseInv'
<1>1. Onward(links, links', {}) /\ Drains(links, links')
  BY Basics, OnwardSame DEF Drains
<1>2. \A w \in Windows :
        /\ panes'[w].link # 0 => panes'[w].link = panes[w].link /\ panes'[w].tab
        /\ panes'[w].after \in {0, panes[w].after}
        /\ panes'[w].known => panes[w].known \/ facade.current # 0
  BY Basics DEF PanesInv
<1>3. panes' \in [Windows -> Pane] /\ lost' \subseteq Chunk /\ faults' \in 0..MaxFaults
  BY Basics
<1> QED
  BY <1>1, <1>2, <1>3, PageStep

LEMMA BeginTransferBase ==
  ASSUME BaseInv, NEW w \in Windows, BeginTransfer(w)
  PROVE  BaseInv'
<1>1. /\ transfer' = [id |-> transfer.id + 1, from |-> {w}, claim |-> {}, claimed |-> FALSE]
      /\ transfer.id < MaxTransfers /\ UNCHANGED <<shell, facade, links, panes, lost, faults>>
  BY DEF BeginTransfer
<1>2. transfer.id + 1 \in 0..MaxTransfers
  BY <1>1, Basics, Parts
<1>3. transfer' \in Transfer
  BY <1>1, <1>2 DEF Transfer
<1> QED
  BY <1>1, <1>3, TokenStep

LEMMA ClaimRefusedBase ==
  ASSUME BaseInv, NEW v \in Windows, ClaimRefused(v)
  PROVE  BaseInv'
<1>1. /\ transfer' = [transfer EXCEPT !.claimed = TRUE]
      /\ UNCHANGED <<shell, facade, links, panes, lost, faults>>
  BY DEF ClaimRefused
<1>2. transfer' \in Transfer
  BY <1>1, TransferIs
<1> QED
  BY <1>1, <1>2, TokenStep

\* Changes of what is pending in the panes.
LEMMA PreparingStep ==
  ASSUME BaseInv, NEW S, NEW b \in BOOLEAN, UNCHANGED <<shell, facade, lost, faults>>,
         panes' = [w \in Windows |-> IF w \in S THEN [panes[w] EXCEPT !.preparing = b]
                                     ELSE panes[w]],
         Onward(links, links', {}), Drains(links, links'), transfer' \in Transfer
  PROVE  BaseInv'
<1>1. /\ panes' \in [Windows -> Pane]
      /\ \A w \in Windows :
           /\ panes'[w].link = panes[w].link /\ panes'[w].tab = panes[w].tab
           /\ panes'[w].after = panes[w].after /\ panes'[w].known = panes[w].known
  <2>1. \A w \in Windows : panes[w] \in Pane
    BY Basics
  <2> QED
    BY <2>1 DEF Pane
<1>2. \A w \in Windows : panes[w].link # 0 => panes[w].tab
  BY Basics DEF PanesInv
<1> QED
  BY <1>1, <1>2, Basics, PageStep

LEMMA CancelAskedDrains ==
  ASSUME TypeOK, NEW ls \in Seq(Link), Len(ls) = Len(links)
  PROVE  Drains(ls, CancelAsked(ls))
<1> DEFINE sources == {w \in transfer.from : panes[w].tab /\ PaneOpen(w)}
           u == CHOOSE w \in sources : TRUE
<1>1. sources \subseteq Windows
  BY Parts
<1>2. CASE sources = {}
  BY <1>2 DEF CancelAsked, Drains
<1>3. CASE sources # {}
  <2>1. u \in Windows
    BY <1>1, <1>3
  <2>2. CancelAsked(ls) = Ask(ls, panes[u].link, "cancel")
    BY <1>3 DEF CancelAsked
  <2> HIDE DEF u
  <2>3. panes[u].link \in 0..Len(ls) /\ "cancel" \in Upward
    BY <2>1, PaneAt DEF Upward
  <2> QED
    BY <2>2, <2>3, AskDrains
<1> QED
  BY <1>2, <1>3

LEMMA ClaimBase ==
  ASSUME BaseInv, NEW v \in Windows, Claim(v)
  PROVE  BaseInv'
<1>1. /\ UNCHANGED <<shell, facade, lost, faults>>
      /\ transfer' = [transfer EXCEPT !.claim = {v}, !.claimed = TRUE]
      /\ panes' = [w \in Windows |-> IF w \in transfer.from
                                     THEN [panes[w] EXCEPT !.preparing = TRUE] ELSE panes[w]]
  BY DEF Claim
<1>2. transfer' \in Transfer
  BY <1>1, TransferIs
<1>3. Onward(links, links', {}) /\ Drains(links, links')
  <2>1. CASE transfer.from = {}
    BY <2>1, Basics, OnwardSame DEF Claim, Drains
  <2>2. CASE transfer.from # {}
    <3> DEFINE u == CHOOSE w \in transfer.from : TRUE
    <3>1. u \in Windows
      BY <2>2, Basics, Parts
    <3>2. links' = Ask(links, panes[u].link, "prepare")
      BY <2>2 DEF Claim
    <3> HIDE DEF u
    <3>3. panes[u].link \in 0..Len(links) /\ "prepare" \in Upward
      BY <3>1, Basics DEF Upward
    <3> QED
      BY <3>2, <3>3, Basics, AskOnward, AskDrains
  <2> QED
    BY <2>1, <2>2
<1> QED
  BY <1>1, <1>2, <1>3, PreparingStep

LEMMA CancelBase ==
  ASSUME BaseInv, UNCHANGED <<shell, facade, lost, faults>>, transfer' \in Transfer,
         panes' = Cancelled(panes), links' = CancelAsked(links)
  PROVE  BaseInv'
<1>1. Onward(links, links', {})
  <2>1. Onward(links, links, {})
    BY Basics, OnwardSame
  <2> QED
    BY <2>1, Basics, CancelAskedOnward
<1>2. Drains(links, links')
  BY Basics, CancelAskedDrains
<1> QED
  BY <1>1, <1>2, PreparingStep DEF Cancelled

LEMMA ClaimTimesOutBase ==
  ASSUME BaseInv, ClaimTimesOut
  PROVE  BaseInv'
  BY CancelBase, TransferIs DEF ClaimTimesOut

LEMMA SourceExpiresBase ==
  ASSUME BaseInv, SourceExpires
  PROVE  BaseInv'
  BY CancelBase, TransferIs DEF SourceExpires

LEMMA PrepareTimesOutBase ==
  ASSUME BaseInv, NEW w \in Windows, PrepareTimesOut(w)
  PROVE  BaseInv'
<1>1. /\ UNCHANGED <<shell, facade, lost, faults>>
      /\ transfer' = [transfer EXCEPT !.claim = {}]
      /\ panes' = [panes EXCEPT ![w].preparing = FALSE]
  BY DEF PrepareTimesOut
<1>2. panes' = [u \in Windows |-> IF u \in {w} THEN [panes[u] EXCEPT !.preparing = FALSE]
                                 ELSE panes[u]]
  <2>1. panes \in [Windows -> Pane]
    BY Basics
  <2> QED
    BY <1>1, <2>1
<1>3. Onward(links, links', {}) /\ Drains(links, links')
  <2>1. panes[w].link \in 0..Len(links) /\ "cancel" \in Upward
    BY Basics DEF Upward
  <2>2. links' = links \/ links' = Ask(links, panes[w].link, "cancel")
    BY DEF PrepareTimesOut
  <2>3. Onward(links, links, {}) /\ Drains(links, links)
    BY Basics, OnwardSame DEF Drains
  <2> QED
    BY <2>1, <2>2, <2>3, Basics, AskOnward, AskDrains
<1>4. transfer' \in Transfer
  BY <1>1, TransferIs
<1> QED
  BY <1>1, <1>2, <1>3, <1>4, PreparingStep

\* A pane goes, and its connection with it.
LEMMA UnmountBase ==
  ASSUME BaseInv, NEW w \in Windows, NEW op \in Upward, Unmount(w, op),
         panes' = [panes EXCEPT ![w] = NoPane], transfer' \in Transfer,
         faults' \in 0..MaxFaults, UNCHANGED <<shell, facade>>
  PROVE  BaseInv'
<1> DEFINE l == panes[w].link
<1>1. l \in 0..Len(links) /\ links \in Seq(Link) /\ TypeOK
  BY Basics
<1>2. Onward(links, links', {l}) /\ Drains(links, links')
  BY <1>1, HangOnward, HangDrains DEF Unmount
<1>3. lost' \subseteq Chunk
  BY <1>1, Basics, InFlightIsChunks DEF Unmount
<1>4. panes' \in [Windows -> Pane] /\ panes'[w] = NoPane /\ \A v \in Windows \ {w} : panes'[v] = panes[v]
  BY Basics, NoPaneIs
<1>5. ASSUME NEW v \in Windows
      PROVE  /\ panes'[v].link # 0 =>
                  panes'[v].link = panes[v].link /\ panes[v].link \notin {l} /\ panes'[v].tab
             /\ panes'[v].after \in {0, panes[v].after}
             /\ panes'[v].known => panes[v].known \/ facade.current # 0
  <2>1. CASE v = w
    BY <1>4, <2>1, NoPaneIs
  <2>2. CASE v # w
    BY <1>4, <2>2, Basics DEF PanesInv
  <2> QED
    BY <2>1, <2>2
<1> HIDE DEF l
<1> QED
  BY <1>2, <1>3, <1>4, <1>5, PageStep

LEMMA ClaimDeadBase ==
  ASSUME BaseInv, NEW v \in Windows, ClaimDead(v)
  PROVE  BaseInv'
<1>1. PICK w \in transfer.from : Unmount(w, "bye") /\ panes' = [panes EXCEPT ![w] = NoPane]
  BY DEF ClaimDead
<1>2. w \in Windows /\ "bye" \in Upward
  BY Basics, Parts DEF Upward
<1>3. transfer' \in Transfer /\ UNCHANGED <<shell, facade, faults>>
  BY TransferIs DEF ClaimDead
<1> QED
  BY <1>1, <1>2, <1>3, Basics, UnmountBase

LEMMA CloseTabBase ==
  ASSUME BaseInv, NEW w \in Windows, CloseTab(w)
  PROVE  BaseInv'
<1>1. /\ Unmount(w, "bye") /\ panes' = [panes EXCEPT ![w] = NoPane] /\ "bye" \in Upward
      /\ UNCHANGED <<shell, facade, faults>>
  BY DEF CloseTab, Upward
<1>2. transfer' \in Transfer
  BY Basics, TransferIs DEF CloseTab
<1> QED
  BY <1>1, <1>2, Basics, UnmountBase

LEMMA WindowGoneBase ==
  ASSUME BaseInv, NEW w \in Windows, WindowGone(w)
  PROVE  BaseInv'
<1>1. /\ Unmount(w, "gone") /\ panes' = [panes EXCEPT ![w] = NoPane] /\ "gone" \in Upward
      /\ UNCHANGED <<shell, facade>> /\ Fault
  BY DEF WindowGone, Upward
<1>2. transfer' \in Transfer
  <2>1. transfer' = [transfer EXCEPT !.from = transfer.from \ {w}, !.claim = transfer.claim \ {w}]
    BY DEF WindowGone, PageGone
  <2> QED
    BY <2>1, TransferIs
<1>3. faults' \in 0..MaxFaults
  BY <1>1, Basics DEF Fault
<1> QED
  BY <1>1, <1>2, <1>3, Basics, UnmountBase

LEMMA ShownIs ==
  ASSUME BaseInv, NEW w \in Windows, NEW op, Shows(w, op)
  PROVE  /\ panes[w].link \in DOMAIN links /\ panes[w].tab
         /\ links[panes[w].link].down \in Seq(Downward) /\ links[panes[w].link].down # <<>>
         /\ Head(links[panes[w].link].down) \in Downward
         /\ Head(links[panes[w].link].down).op = op
         /\ links[panes[w].link].server # "none"
         /\ Onward(links, Shown(w), {}) /\ Drains(links, Shown(w))
         /\ op \in {"session", "ready"} => facade.current # 0
<1> DEFINE l == panes[w].link
<1>1. l # 0 /\ links[l].down # <<>> /\ Head(links[l].down).op = op
  BY DEF Shows
<1>2. l \in DOMAIN links /\ links \in Seq(Link)
  BY <1>1, Basics
<1>3. links[l].down \in Seq(Downward)
  BY <1>2, LinkAt
<1>4. Head(links[l].down) \in Downward /\ 1 \in DOMAIN links[l].down
      /\ Head(links[l].down) = links[l].down[1]
  BY <1>1, <1>3
<1>5. Onward(links, Shown(w), {}) /\ Drains(links, Shown(w))
  BY <1>1, <1>2, ShowsOnward, ShowsDrains DEF Shown
<1>6. panes[w].tab /\ links[l].server # "none"
  BY <1>1, <1>2, Basics DEF PanesInv, LinksInv
<1>7. op \in {"session", "ready"} => facade.current # 0
  <2> SUFFICES ASSUME facade.current = 0 PROVE op \in {"exit", "close"}
    OBVIOUS
  <2>1. l = 1
    BY <1>2, Basics DEF StartInv
  <2> QED
    BY <1>1, <1>4, <2>1, Basics DEF StartInv
<1> QED
  BY <1>1, <1>2, <1>3, <1>4, <1>5, <1>6, <1>7

LEMMA OnOutputBase ==
  ASSUME BaseInv, NEW w \in Windows, OnOutput(w)
  PROVE  BaseInv'
<1> DEFINE c == Head(links[panes[w].link].down).chunk
           x == [panes[w] EXCEPT !.screen = Append(panes[w].screen, c)]
<1>1. /\ panes' = [panes EXCEPT ![w] = x] /\ links' = Shown(w) /\ Shows(w, "output")
      /\ UNCHANGED <<shell, facade, transfer, lost, faults>>
  BY DEF OnOutput
<1>2. Onward(links, links', {}) /\ Drains(links, links')
  BY <1>1, ShownIs
<1>3. c \in Chunk
  <2>1. Head(links[panes[w].link].down) \in Downward
        /\ Head(links[panes[w].link].down).op = "output"
    BY <1>1, ShownIs
  <2> QED
    BY <2>1 DEF Downward
<1> HIDE DEF c
<1>4. /\ x \in Pane /\ x.link = panes[w].link /\ x.tab = panes[w].tab
      /\ x.after = panes[w].after /\ x.known = panes[w].known
  <2>1. panes[w] \in Pane /\ panes[w].screen \in Seq(Chunk)
    BY Basics, PaneAt
  <2>2. Append(panes[w].screen, c) \in Seq(Chunk)
    BY <1>3, <2>1
  <2> QED
    BY <2>1, <2>2 DEF Pane
<1> HIDE DEF x
<1>5. panes' \in [Windows -> Pane] /\ panes'[w] = x /\ \A v \in Windows \ {w} : panes'[v] = panes[v]
  BY <1>1, <1>4, Basics
<1>6. \A v \in Windows :
        /\ panes'[v].link # 0 => panes'[v].link = panes[v].link /\ panes'[v].tab
        /\ panes'[v].after \in {0, panes[v].after}
        /\ panes'[v].known => panes[v].known \/ facade.current # 0
  BY <1>4, <1>5, Basics DEF PanesInv
<1> QED
  BY <1>1, <1>2, <1>5, <1>6, Basics, PageStep

LEMMA OnExitBase ==
  ASSUME BaseInv, NEW w \in Windows, OnExit(w)
  PROVE  BaseInv'
<1> DEFINE x == [panes[w] EXCEPT !.known = FALSE]
<1>1. /\ panes' = [panes EXCEPT ![w] = x] /\ links' = Shown(w) /\ Shows(w, "exit")
      /\ UNCHANGED <<shell, facade, transfer, lost, faults>>
  BY DEF OnExit
<1>2. Onward(links, links', {}) /\ Drains(links, links')
  BY <1>1, ShownIs
<1>4. /\ x \in Pane /\ x.link = panes[w].link /\ x.tab = panes[w].tab
      /\ x.after = panes[w].after /\ ~x.known
  <2>1. panes[w] \in Pane
    BY Basics
  <2> QED
    BY <2>1 DEF Pane
<1> HIDE DEF x
<1>5. panes' \in [Windows -> Pane] /\ panes'[w] = x /\ \A v \in Windows \ {w} : panes'[v] = panes[v]
  BY <1>1, <1>4, Basics
<1>6. \A v \in Windows :
        /\ panes'[v].link # 0 => panes'[v].link = panes[v].link /\ panes'[v].tab
        /\ panes'[v].after \in {0, panes[v].after}
        /\ panes'[v].known => panes[v].known \/ facade.current # 0
  BY <1>4, <1>5, Basics DEF PanesInv
<1> QED
  BY <1>1, <1>2, <1>5, <1>6, Basics, PageStep

\* The pane that has its terminal closes the tab of the source, never its own.
LEMMA OnSessionBase ==
  ASSUME BaseInv, TransferInv, NEW w \in Windows, OnSession(w)
  PROVE  BaseInv'
<1> DEFINE sources == IF Adopting(w) THEN transfer.from ELSE {}
           here == [panes[w] EXCEPT !.known = TRUE, !.transfer = 0, !.saved = <<>>]
           u == CHOOSE v \in sources : TRUE
<1>1. /\ panes' = [v \in Windows |-> IF v = w THEN here
                                     ELSE IF v \in sources THEN NoPane ELSE panes[v]]
      /\ transfer' = [transfer EXCEPT !.from = transfer.from \ sources]
      /\ links' = IF sources = {} THEN Shown(w) ELSE Hang(Shown(w), panes[u].link, "bye")
      /\ UNCHANGED <<shell, facade, lost, faults>> /\ Shows(w, "session")
  BY DEF OnSession
<1>2. sources \subseteq Windows /\ w \notin sources
  BY Basics, Parts DEF TransferInv
<1>3. Onward(links, Shown(w), {}) /\ Drains(links, Shown(w)) /\ facade.current # 0
  BY <1>1, ShownIs
<1>4. here \in Pane /\ here.link = panes[w].link /\ here.tab = panes[w].tab
      /\ here.after = panes[w].after
  <2>1. panes[w] \in Pane /\ <<>> \in Seq(Chunk) /\ 0 \in 0..MaxTransfers
    BY Basics
  <2> QED
    BY <2>1 DEF Pane
<1>5. u \in sources \/ sources = {}
  OBVIOUS
<1> HIDE DEF here, sources, u
<1>6. panes' \in [Windows -> Pane]
  BY <1>1, <1>4, NoPaneIs, Basics
<1>7. transfer' \in Transfer
  BY <1>1, TransferIs
<1>8. CASE sources = {}
  <2>1. Onward(links, links', {}) /\ Drains(links, links')
    BY <1>1, <1>3, <1>8
  <2>2. \A v \in Windows :
          /\ panes'[v].link # 0 => panes'[v].link = panes[v].link /\ panes'[v].tab
          /\ panes'[v].after \in {0, panes[v].after}
          /\ panes'[v].known => panes[v].known \/ facade.current # 0
    BY <1>1, <1>3, <1>4, <1>8, Basics DEF PanesInv
  <2>3. UNCHANGED <<shell, facade, lost, faults>>
    BY <1>1
  <2> QED
    BY <1>6, <1>7, <2>1, <2>2, <2>3, Basics, PageStep, SMTT(30)
<1>9. CASE sources # {}
  <2>1. u \in Windows /\ u # w /\ u \in sources
    BY <1>2, <1>5, <1>9
  <2>2. panes[u].link \in 0..Len(links) /\ "bye" \in Upward
    BY <2>1, Basics DEF Upward
  <2> DEFINE l == panes[u].link
             ms == Shown(w)
  <2>3. links' = Hang(ms, l, "bye")
    BY <1>1, <1>9
  <2>4. Onward(links, ms, {}) /\ Drains(links, ms)
    BY <1>3
  <2> HIDE DEF l, ms
  <2>5. ms \in Seq(Link) /\ l \in 0..Len(ms)
    BY <2>2, <2>4 DEF Onward, l
  <2>6. Onward(ms, links', {l}) /\ Drains(ms, links')
    BY <2>2, <2>3, <2>5, HangOnward, HangDrains
  <2>7. Onward(links, links', {l})
    BY <2>4, <2>6, OnwardMore, OnwardTrans
  <2>8. Drains(links, links')
    BY <2>4, <2>6, DrainsTrans DEF Onward
  <2>9. ASSUME NEW v \in Windows
        PROVE  /\ panes'[v].link # 0 =>
                    panes'[v].link = panes[v].link /\ panes[v].link \notin {l} /\ panes'[v].tab
               /\ panes'[v].after \in {0, panes[v].after}
    <3>0. panes[v].link # 0 => panes[v].tab
      BY Basics DEF PanesInv
    <3>1. CASE v \in sources
      BY <1>1, <1>2, <3>1, NoPaneIs
    <3>2. CASE v \notin sources
      <4>1. panes'[v].link = panes[v].link /\ panes'[v].tab = panes[v].tab
            /\ panes'[v].after = panes[v].after
        BY <1>1, <1>4, <3>2
      <4>2. panes[v].link # 0 => panes[v].link # l
        BY <2>1, <3>2, Basics DEF PanesInv, l
      <4> QED
        BY <3>0, <4>1, <4>2
    <3> QED
      BY <3>1, <3>2
  <2> QED
    BY <1>1, <1>3, <1>6, <1>7, <2>7, <2>8, <2>9, Basics, PageStep
<1> QED
  BY <1>8, <1>9

LEMMA OnReadyBase ==
  ASSUME BaseInv, NEW w \in Windows, OnReady(w)
  PROVE  BaseInv'
<1> DEFINE l == panes[w].link
           ms == Shown(w)
<1>1. Shows(w, "ready") /\ UNCHANGED <<shell, facade, lost, faults>>
  BY DEF OnReady
<1>2. /\ Onward(links, ms, {}) /\ Drains(links, ms) /\ facade.current # 0
      /\ l \in DOMAIN links /\ panes[w].tab /\ links[l].server # "none"
  BY <1>1, ShownIs
<1>3. ms \in Seq(Link) /\ Len(ms) = Len(links) /\ l \in 0..Len(ms)
  BY <1>2, Basics DEF Onward
<1>4. \A u \in Windows : panes[u].link # 0 => panes[u].tab
  BY Basics DEF PanesInv
<1>5. CASE ~panes[w].preparing \/ transfer.claim = {}
  <2>1. links' = ms /\ panes' = panes /\ transfer' = transfer
    BY <1>5 DEF OnReady
  <2>2. \A v \in Windows :
          /\ panes'[v].link # 0 => panes'[v].link = panes[v].link /\ panes'[v].tab
          /\ panes'[v].after \in {0, panes[v].after}
          /\ panes'[v].known => panes[v].known \/ facade.current # 0
    BY <1>4, <2>1
  <2>3. panes' \in [Windows -> Pane] /\ transfer' \in Transfer
    BY <2>1, Basics
  <2> HIDE DEF ms
  <2> QED
    BY <1>1, <1>2, <2>1, <2>2, <2>3, Basics, PageStep
<1>6. CASE ~(~panes[w].preparing \/ transfer.claim = {})
  <2>1. PICK v \in transfer.claim :
          /\ transfer' = [transfer EXCEPT !.claim = {}]
          /\ IF panes[v].tab
             THEN /\ links' = Ask(ms, l, "cancel")
                  /\ panes' = [panes EXCEPT ![w].preparing = FALSE]
             ELSE /\ links' = Append(ms, Connect(TRUE))
                  /\ panes' = [panes EXCEPT ![w].preparing = FALSE,
                       ![v] = [NoPane EXCEPT !.tab = TRUE, !.link = Len(links) + 1,
                                 !.known = TRUE, !.transfer = transfer.id,
                                 !.saved = panes[w].screen, !.screen = panes[w].screen,
                                 !.after = l]]
    BY <1>6 DEF OnReady
  <2>2. v \in Windows /\ transfer' \in Transfer
    BY <2>1, Basics, Parts, TransferIs
  <2>3. CASE panes[v].tab
    <3>1. /\ links' = Ask(ms, l, "cancel")
          /\ panes' = [u \in Windows |-> IF u \in {w} THEN [panes[u] EXCEPT !.preparing = FALSE]
                                        ELSE panes[u]]
      <4>1. panes \in [Windows -> Pane]
        BY Basics
      <4> QED
        BY <2>1, <2>3, <4>1
    <3> HIDE DEF ms, l
    <3>2. Onward(ms, links', {}) /\ Drains(ms, links')
      BY <1>3, <3>1, AskOnward, AskDrains DEF Upward
    <3>3. Onward(links, links', {})
      BY <1>2, <3>2, OnwardTrans
    <3>4. Drains(links, links')
      BY <1>2, <3>2, DrainsTrans DEF Onward
    <3> QED
      BY <1>1, <2>2, <3>1, <3>3, <3>4, PreparingStep
  <2>4. CASE ~panes[v].tab
    <3> DEFINE n == Len(links) + 1
               x == [panes[w] EXCEPT !.preparing = FALSE]
               y == [NoPane EXCEPT !.tab = TRUE, !.link = n,
                       !.known = TRUE, !.transfer = transfer.id,
                       !.saved = panes[w].screen, !.screen = panes[w].screen, !.after = l]
    <3>1. v # w
      BY <1>2, <2>4
    <3>2. links' = Append(ms, Connect(TRUE)) /\ panes' = [panes EXCEPT ![w].preparing = FALSE, ![v] = y]
      BY <2>1, <2>4
    <3>3. /\ x \in Pane /\ x.link = panes[w].link /\ x.tab = panes[w].tab
          /\ x.after = panes[w].after
      <4>1. panes[w] \in Pane
        BY Basics
      <4> QED
        BY <4>1 DEF Pane
    <3>4. y \in Pane /\ y.link = n /\ y.tab /\ y.after = l
      <4>1. /\ NoPane \in Pane /\ panes[w].screen \in Seq(Chunk) /\ l \in Nat /\ n \in Nat
            /\ transfer.id \in 0..MaxTransfers
        BY Basics, NoPaneIs, PaneAt, Parts
      <4> HIDE DEF l, n
      <4> QED
        BY <4>1 DEF Pane
    <3> HIDE DEF x, y
    <3>5. /\ panes' \in [Windows -> Pane] /\ panes'[v] = y /\ panes'[w] = x
          /\ \A u \in Windows \ {v, w} : panes'[u] = panes[u]
      <4>1. panes \in [Windows -> Pane]
        BY Basics
      <4>2. /\ panes'[v] = y /\ \A u \in Windows \ {v, w} : panes'[u] = panes[u]
            /\ DOMAIN panes' = Windows
        BY <2>2, <3>1, <3>2, <4>1
      <4>3. panes'[w] = x
        BY <2>2, <3>1, <3>2, <4>1 DEF x
      <4>4. panes' = [u \in Windows |-> panes'[u]]
        BY <3>2, <4>1
      <4> QED
        BY <3>3, <3>4, <4>1, <4>2, <4>3, <4>4
    <3>6. Opened(links, links', {}, n)
      BY <1>2, <3>2, Basics, OpenedIs
    <3>7. \A u \in Windows \ {v} :
            /\ panes'[u].link # 0 =>
                 panes'[u].link = panes[u].link /\ panes[u].link \notin {} /\ panes'[u].tab
            /\ panes'[u].after \in {0, panes[u].after}
      BY <1>2, <1>4, <3>3, <3>5
    <3>8. panes'[v].tab /\ panes'[v].link = n /\ panes'[v].after \in DOMAIN links
          /\ links[panes'[v].after].server # "none"
      BY <1>2, <3>4, <3>5
    <3>9. lost' \subseteq Chunk /\ faults' \in 0..MaxFaults
      BY <1>1, Basics
    <3>10. panes' \in [Windows -> Pane] /\ UNCHANGED <<shell, facade>> /\ facade.current # 0
      BY <1>1, <1>2, <3>5
    <3> HIDE DEF ms, l, n
    <3> QED
      BY <2>2, <3>6, <3>7, <3>8, <3>9, <3>10, GrowStep
  <2> QED
    BY <2>3, <2>4
<1> QED
  BY <1>5, <1>6

LEMMA OnCloseBase ==
  ASSUME BaseInv, NEW w \in Windows, OnClose(w)
  PROVE  BaseInv'
<1> DEFINE l == panes[w].link
           hung == Hang(links, l, "gone")
           closed == Answered(hung, l)
           x == [panes[w] EXCEPT !.link = 0, !.transfer = 0, !.saved = <<>>]
           p == IF Adopting(w) THEN Cancelled(panes) ELSE panes
<1>1. /\ links' = IF Adopting(w) THEN CancelAsked(closed) ELSE closed
      /\ panes' = [p EXCEPT ![w] = x] /\ Shows(w, "close")
      /\ UNCHANGED <<shell, facade, transfer, lost, faults>>
  BY DEF OnClose
<1>2. l \in DOMAIN links /\ l \in 0..Len(links) /\ "gone" \in Upward
  BY <1>1, ShownIs, Basics DEF Upward
<1>3. Onward(links, hung, {l}) /\ Drains(links, hung)
  BY <1>2, Basics, HangOnward, HangDrains
<1>4. x \in Pane /\ x.link = 0 /\ x.after = panes[w].after /\ x.known = panes[w].known
  <2>1. panes[w] \in Pane /\ <<>> \in Seq(Chunk) /\ 0 \in 0..MaxTransfers /\ 0 \in Nat
    BY Basics
  <2> QED
    BY <2>1 DEF Pane
<1>5. /\ p \in [Windows -> Pane]
      /\ \A v \in Windows :
           /\ p[v].link = panes[v].link /\ p[v].tab = panes[v].tab
           /\ p[v].after = panes[v].after /\ p[v].known = panes[v].known
  <2>1. \A v \in Windows : panes[v] \in Pane
    BY Basics
  <2>2. /\ Cancelled(panes) \in [Windows -> Pane]
        /\ \A v \in Windows :
             /\ Cancelled(panes)[v].link = panes[v].link
             /\ Cancelled(panes)[v].tab = panes[v].tab
             /\ Cancelled(panes)[v].after = panes[v].after
             /\ Cancelled(panes)[v].known = panes[v].known
    BY <2>1 DEF Cancelled, Pane
  <2> QED
    BY <2>2, Basics
<1> HIDE DEF hung, x, p
<1>6. hung \in Seq(Link) /\ l \in DOMAIN hung /\ Len(hung) = Len(links)
  BY <1>2, <1>3 DEF Onward
<1>7. Onward(hung, closed, {}) /\ Drains(hung, closed)
  BY <1>6, AnsweredOnward, SettleDrains DEF Answered, Drains
<1> HIDE DEF closed
<1>8. Onward(links, closed, {l}) /\ Drains(links, closed)
  BY <1>3, <1>7, OnwardMore, OnwardTrans, DrainsTrans DEF Onward
<1>9. closed \in Seq(Link) /\ Len(closed) = Len(links) /\ DOMAIN closed = DOMAIN links
  BY <1>8 DEF Onward
<1>10. Onward(links, CancelAsked(closed), {l}) /\ Drains(links, CancelAsked(closed))
  BY <1>8, <1>9, Basics, CancelAskedOnward, CancelAskedDrains, DrainsTrans
<1>11. Onward(links, links', {l}) /\ Drains(links, links')
  BY <1>1, <1>8, <1>10
<1>12. panes' \in [Windows -> Pane] /\ panes'[w] = x /\ \A v \in Windows \ {w} : panes'[v] = p[v]
  BY <1>1, <1>4, <1>5
<1>13. ASSUME NEW v \in Windows
       PROVE  /\ panes'[v].link # 0 =>
                   panes'[v].link = panes[v].link /\ panes[v].link \notin {l} /\ panes'[v].tab
              /\ panes'[v].after \in {0, panes[v].after}
              /\ panes'[v].known => panes[v].known \/ facade.current # 0
  <2>1. CASE v = w
    BY <1>4, <1>12, <2>1
  <2>2. CASE v # w
    <3>1. panes[v].link # 0 => panes[v].tab /\ panes[v].link # l
      BY <2>2, Basics DEF PanesInv
    <3> QED
      BY <1>5, <1>12, <2>2, <3>1
  <2> QED
    BY <2>1, <2>2
<1> HIDE DEF l
<1> QED
  BY <1>1, <1>11, <1>12, <1>13, Basics, PageStep

LEMMA ReloadBase ==
  ASSUME BaseInv, NEW w \in Windows, Reload(w)
  PROVE  BaseInv'
<1> DEFINE l == panes[w].link
           hung == Hang(links, l, "gone")
<1>1. UNCHANGED <<shell, facade>> /\ Fault
  BY DEF Reload
<1>2. l \in 0..Len(links) /\ "gone" \in Upward /\ links \in Seq(Link) /\ TypeOK
  BY Basics DEF Upward
<1>3. Onward(links, hung, {l}) /\ Drains(links, hung)
  BY <1>2, HangOnward, HangDrains
<1>4. lost' \subseteq Chunk
  BY <1>2, Basics, InFlightIsChunks DEF Reload
<1>5. faults' \in 0..MaxFaults
  BY <1>1, Basics DEF Fault
<1>6. transfer' \in Transfer
  <2>1. transfer' = [transfer EXCEPT !.from = transfer.from \ {w}, !.claim = transfer.claim \ {w}]
    BY DEF Reload, PageGone
  <2> QED
    BY <2>1, TransferIs
<1>7. CASE panes[w].known
  <2> DEFINE n == Len(links) + 1
             x == [panes[w] EXCEPT !.link = n, !.preparing = FALSE, !.screen = panes[w].saved,
                                   !.after = 0]
  <2>1. /\ links' = Append(hung, Connect(TRUE)) /\ panes[w].tab
        /\ panes' = [panes EXCEPT ![w] = x]
    <3>1. panes' = [panes EXCEPT ![w].link = n, ![w].preparing = FALSE,
                      ![w].screen = panes[w].saved, ![w].after = 0]
      BY <1>7 DEF Reload
    <3>2. panes \in [Windows -> Pane] /\ panes[w] \in Pane
      BY Basics
    <3>3. panes' = [panes EXCEPT ![w] = x]
      BY <3>1, <3>2
    <3> QED
      BY <1>7, <3>3 DEF Reload
  <2>2. facade.current # 0
    BY <1>7, Basics DEF StartInv
  <2>3. x \in Pane /\ x.link = n /\ x.tab = panes[w].tab /\ x.after = 0
    <3>1. panes[w] \in Pane /\ n \in Nat /\ panes[w].saved \in Seq(Chunk) /\ 0 \in Nat
      BY Basics, PaneAt
    <3> HIDE DEF n
    <3> QED
      BY <3>1 DEF Pane
  <2> HIDE DEF x
  <2>4. panes' \in [Windows -> Pane] /\ panes'[w] = x /\ \A v \in Windows \ {w} : panes'[v] = panes[v]
    BY <2>1, <2>3, Basics
  <2>5. Opened(links, links', {l}, n)
    BY <1>2, <1>3, <2>1, OpenedIs
  <2>6. \A v \in Windows \ {w} :
          /\ panes'[v].link # 0 =>
               panes'[v].link = panes[v].link /\ panes[v].link \notin {l} /\ panes'[v].tab
          /\ panes'[v].after \in {0, panes[v].after}
    <3>1. \A v \in Windows \ {w} : panes[v].link # 0 => panes[v].tab /\ panes[v].link # l
      BY Basics DEF PanesInv
    <3> QED
      BY <2>4, <3>1
  <2>7. panes'[w].tab /\ panes'[w].link = n /\ panes'[w].after = 0
    BY <2>1, <2>3, <2>4
  <2> HIDE DEF l, n, hung
  <2> QED
    BY <1>1, <1>4, <1>5, <1>6, <2>2, <2>4, <2>5, <2>6, <2>7, GrowStep
<1>8. CASE ~panes[w].known
  <2>1. panes' = [panes EXCEPT ![w] = NoPane] /\ links' = hung
    BY <1>8 DEF Reload
  <2>2. Unmount(w, "gone")
    BY <2>1 DEF Unmount, Reload
  <2> QED
    BY <1>1, <1>2, <1>5, <1>6, <2>1, <2>2, UnmountBase
<1> QED
  BY <1>7, <1>8

LEMMA BreaksBase ==
  ASSUME BaseInv, NEW l \in DOMAIN links, Breaks(l)
  PROVE  BaseInv'
<1>1. links \in Seq(Link) /\ TypeOK /\ l \in Nat
  BY Basics
<1>2. Onward(links, links', {}) /\ SoleChange(links, links', l) /\ links'[l] = Broken(links[l])
  BY <1>1, BreaksOnward, BreaksIs
<1>3. Drains(links, links')
  <2>1. links[l] \in Link
    BY <1>1
  <2>2. Broken(links[l]).down = <<Control("close")>>
    BY <2>1 DEF Broken, Link
  <2> QED
    BY <1>1, <1>2, <2>2, CalmEnd, DrainsSole
<1>4. lost' \subseteq Chunk
  BY <1>1, Basics, InFlightIsChunks DEF Breaks
<1>5. faults' \in 0..MaxFaults /\ UNCHANGED <<shell, facade, panes, transfer>>
  BY Basics DEF Fault, Breaks
<1>6. \A v \in Windows :
        /\ panes'[v].link # 0 => panes'[v].link = panes[v].link /\ panes'[v].tab
        /\ panes'[v].after \in {0, panes[v].after}
        /\ panes'[v].known => panes[v].known \/ facade.current # 0
  BY <1>5, Basics DEF PanesInv
<1>7. panes' \in [Windows -> Pane] /\ transfer' \in Transfer
  BY <1>5, Basics
<1> QED
  BY <1>2, <1>3, <1>4, <1>5, <1>6, <1>7, PageStep

LEMMA InitBase ==
  Init => BaseInv
<1> SUFFICES ASSUME Init PROVE BaseInv
  OBVIOUS
<1> DEFINE l1 == Connect(FALSE)
           x == [NoPane EXCEPT !.tab = TRUE, !.link = 1]
<1>1. /\ l1 \in Link /\ ~l1.resumes /\ l1.server = "none" /\ l1.client = "open" /\ ~l1.cut
      /\ l1.up = <<>> /\ l1.down = <<>>
  <2>1. <<>> \in Seq(Upward) /\ <<>> \in Seq(Downward)
    OBVIOUS
  <2> QED
    BY <2>1 DEF Connect, Link
<1>2. x \in Pane /\ x.tab /\ x.link = 1 /\ x.after = 0 /\ ~x.known
  BY NoPaneIs DEF Pane, NoPane
<1>3. /\ shell = [stage |-> "none", over |-> FALSE, pod |-> "none", made |-> 0]
      /\ facade = [current |-> 0, closed |-> FALSE, detached |-> FALSE, buffering |-> FALSE,
                   timer |-> FALSE, buffer |-> <<>>]
      /\ links = <<l1>> /\ lost = {} /\ faults = 0
      /\ panes = [w \in Windows |-> IF w = Home THEN x ELSE NoPane]
      /\ transfer = [id |-> 0, from |-> {}, claim |-> {}, claimed |-> FALSE]
  BY DEF Init
<1> HIDE DEF l1, x
<1>4. links \in Seq(Link) /\ Len(links) = 1 /\ DOMAIN links = {1} /\ links[1] = l1
  BY <1>1, <1>3
<1>5. panes \in [Windows -> Pane] /\ \A w \in Windows : panes[w] = IF w = Home THEN x ELSE NoPane
  BY <1>2, <1>3, NoPaneIs
<1>6. \A w \in Windows : panes[w].link <= 1
  BY <1>2, <1>5, NoPaneIs
<1>7. shell \in Shell /\ facade \in Facade /\ transfer \in Transfer
  <2>1. <<>> \in Seq(Chunk) /\ 0 \in Nat
    OBVIOUS
  <2> QED
    BY <1>3, <2>1 DEF Shell, Facade, Transfer
<1>8. TypeOK
  BY <1>3, <1>4, <1>5, <1>6, <1>7 DEF TypeOK
<1>9. StartInv
  BY <1>1, <1>2, <1>3, <1>4, <1>5, NoPaneIs DEF StartInv
<1>10. LinksInv
  BY <1>1, <1>3, <1>4 DEF LinksInv, Has
<1>11. PanesInv
  BY <1>1, <1>2, <1>4, <1>5, NoPaneIs DEF PanesInv
<1>12. ShellInv
  BY <1>3 DEF ShellInv
<1> QED
  BY <1>8, <1>9, <1>10, <1>11, <1>12 DEF BaseInv

-----------------------------------------------------------------------------
(* The transfer                                                            *)

\* A step that only takes from the transfer, or marks its token as used.
LEMMA TransferKeeps ==
  ASSUME BaseInv, TransferInv,
         transfer'.id = transfer.id, transfer'.from \subseteq transfer.from,
         transfer'.claim \subseteq transfer.claim, transfer.claimed => transfer'.claimed,
         \A w \in Windows :
           /\ panes'[w].transfer \in {0, panes[w].transfer}
           /\ panes'[w].preparing =>
                panes[w].preparing /\ (w \in transfer.from => w \in transfer'.from)
  PROVE  TransferInv'
<1>0. transfer.id \in Nat /\ \A w \in Windows : panes[w].transfer \in Nat
  BY Basics, Parts, PaneAt
<1>1. \A w \in Windows : panes'[w].transfer = transfer.id /\ transfer.id # 0
                           => panes[w].transfer = transfer.id
  OBVIOUS
<1>2. /\ \A v, w \in transfer'.from : v = w
      /\ \A v, w \in transfer'.claim : v = w
      /\ transfer'.claim \cap transfer'.from = {}
      /\ transfer'.id = 0 => transfer'.from = {} /\ transfer'.claim = {}
      /\ transfer'.claim # {} => transfer'.claimed
  BY DEF TransferInv
<1>3. \A w \in Windows :
        /\ panes'[w].preparing => w \in transfer'.from /\ transfer'.claimed
        /\ panes'[w].transfer <= transfer'.id
  BY <1>0 DEF TransferInv
<1>4. \A w \in Windows : Adopting(w)' => Adopting(w)
  BY <1>1 DEF Adopting
<1>5. \A w \in Windows :
        Adopting(w)' => w \notin transfer'.from /\ transfer'.claimed /\ transfer'.claim = {}
  BY <1>4 DEF TransferInv
<1>6. \A v, w \in Windows : Adopting(v)' /\ Adopting(w)' => v = w
  BY <1>4 DEF TransferInv
<1> QED
  BY <1>2, <1>3, <1>5, <1>6 DEF TransferInv

\* What the actions of the server leave alone.
LEMMA ServerLeaves ==
  ASSUME \/ Write \/ Ends \/ Dispose \/ GraceExpires \/ PodStarts \/ Connected
         \/ \E l \in DOMAIN links : \/ AcceptNew(l) \/ Attach(l) \/ AttachRefused(l)
                                    \/ OnPrepare(l) \/ OnCancel(l) \/ OnBye(l) \/ OnGone(l)
                                    \/ Breaks(l)
  PROVE  panes' = panes /\ transfer' = transfer
  BY DEF Write, Ends, Dispose, GraceExpires, PodStarts, Connected, AcceptNew, Attach,
         AttachRefused, OnPrepare, OnCancel, OnBye, OnGone, Breaks

LEMMA TransferFields ==
  ASSUME BaseInv
  PROVE  /\ \A S : /\ [transfer EXCEPT !.claim = S].id = transfer.id
                   /\ [transfer EXCEPT !.claim = S].from = transfer.from
                   /\ [transfer EXCEPT !.claim = S].claim = S
                   /\ [transfer EXCEPT !.claim = S].claimed = transfer.claimed
                   /\ [transfer EXCEPT !.from = S].id = transfer.id
                   /\ [transfer EXCEPT !.from = S].from = S
                   /\ [transfer EXCEPT !.from = S].claim = transfer.claim
                   /\ [transfer EXCEPT !.from = S].claimed = transfer.claimed
                   /\ [transfer EXCEPT !.claimed = TRUE, !.from = S].id = transfer.id
                   /\ [transfer EXCEPT !.claimed = TRUE, !.from = S].from = S
                   /\ [transfer EXCEPT !.claimed = TRUE, !.from = S].claim = transfer.claim
                   /\ [transfer EXCEPT !.claimed = TRUE, !.from = S].claimed
                   /\ [transfer EXCEPT !.claim = S, !.claimed = TRUE].id = transfer.id
                   /\ [transfer EXCEPT !.claim = S, !.claimed = TRUE].from = transfer.from
                   /\ [transfer EXCEPT !.claim = S, !.claimed = TRUE].claim = S
                   /\ [transfer EXCEPT !.claim = S, !.claimed = TRUE].claimed
         /\ [transfer EXCEPT !.claimed = TRUE].id = transfer.id
         /\ [transfer EXCEPT !.claimed = TRUE].from = transfer.from
         /\ [transfer EXCEPT !.claimed = TRUE].claim = transfer.claim
         /\ [transfer EXCEPT !.claimed = TRUE].claimed
<1>1. transfer \in Transfer
  BY Basics
<1> QED
  BY <1>1 DEF Transfer

LEMMA GoneFields ==
  ASSUME BaseInv, NEW w, PageGone(w)
  PROVE  /\ transfer'.id = transfer.id /\ transfer'.from = transfer.from \ {w}
         /\ transfer'.claim = transfer.claim \ {w} /\ transfer'.claimed = transfer.claimed
<1>1. transfer \in Transfer
  BY Basics
<1> QED
  BY <1>1 DEF Transfer, PageGone

\* w's pane is the only one to change.
LEMMA OnePane ==
  ASSUME BaseInv, NEW w \in Windows, NEW x, panes' = [panes EXCEPT ![w] = x]
  PROVE  panes'[w] = x /\ \A v \in Windows \ {w} : panes'[v] = panes[v]
  BY Basics

LEMMA PaneFields ==
  ASSUME BaseInv, NEW w \in Windows
  PROVE  /\ \A b : /\ [panes[w] EXCEPT !.preparing = b].preparing = b
                   /\ [panes[w] EXCEPT !.preparing = b].transfer = panes[w].transfer
         /\ \A s : /\ [panes[w] EXCEPT !.screen = s].preparing = panes[w].preparing
                   /\ [panes[w] EXCEPT !.screen = s].transfer = panes[w].transfer
         /\ [panes[w] EXCEPT !.known = FALSE].preparing = panes[w].preparing
         /\ [panes[w] EXCEPT !.known = FALSE].transfer = panes[w].transfer
         /\ [panes[w] EXCEPT !.known = TRUE, !.transfer = 0, !.saved = <<>>].preparing
              = panes[w].preparing
         /\ [panes[w] EXCEPT !.known = TRUE, !.transfer = 0, !.saved = <<>>].transfer = 0
         /\ [panes[w] EXCEPT !.link = 0, !.transfer = 0, !.saved = <<>>].preparing
              = panes[w].preparing
         /\ [panes[w] EXCEPT !.link = 0, !.transfer = 0, !.saved = <<>>].transfer = 0
<1>1. panes[w] \in Pane
  BY Basics
<1> QED
  BY <1>1 DEF Pane

LEMMA BeginTransferToken ==
  ASSUME BaseInv, TransferInv, NEW w \in Windows, BeginTransfer(w)
  PROVE  TransferInv'
<1>1. /\ transfer' = [id |-> transfer.id + 1, from |-> {w}, claim |-> {}, claimed |-> FALSE]
      /\ transfer.from = {} /\ panes' = panes
  BY DEF BeginTransfer
<1>2. transfer.id \in Nat /\ \A v \in Windows : panes[v].transfer \in Nat
  BY Basics, Parts, PaneAt
<1>3. \A v \in Windows : ~panes[v].preparing /\ panes[v].transfer <= transfer.id
  BY <1>1 DEF TransferInv
<1>4. \A v \in Windows : ~Adopting(v)' /\ panes'[v].transfer <= transfer'.id
  BY <1>1, <1>2, <1>3 DEF Adopting
<1> QED
  BY <1>1, <1>2, <1>3, <1>4 DEF TransferInv

LEMMA ClaimToken ==
  ASSUME BaseInv, TransferInv, NEW v \in Windows, Claim(v)
  PROVE  TransferInv'
<1>1. /\ transfer' = [transfer EXCEPT !.claim = {v}, !.claimed = TRUE]
      /\ panes' = [w \in Windows |-> IF w \in transfer.from
                                     THEN [panes[w] EXCEPT !.preparing = TRUE] ELSE panes[w]]
      /\ transfer.id # 0 /\ ~transfer.claimed /\ v \notin transfer.from
  BY DEF Claim
<1>2. /\ transfer'.id = transfer.id /\ transfer'.from = transfer.from
      /\ transfer'.claim = {v} /\ transfer'.claimed
  BY <1>1, TransferFields
<1>3. \A w \in Windows :
        /\ panes'[w].transfer = panes[w].transfer
        /\ panes'[w].preparing => w \in transfer.from
  <2>1. \A w \in Windows : w \in transfer.from =>
          [panes[w] EXCEPT !.preparing = TRUE].transfer = panes[w].transfer
    BY PaneFields
  <2> QED
    BY <1>1, <2>1 DEF TransferInv
<1>4. \A w \in Windows : ~Adopting(w)'
  BY <1>1, <1>2, <1>3 DEF TransferInv, Adopting
<1> QED
  BY <1>1, <1>2, <1>3, <1>4 DEF TransferInv

\* The claiming window has the tab, and is the only one.
LEMMA OnReadyToken ==
  ASSUME BaseInv, TransferInv, NEW w \in Windows, OnReady(w)
  PROVE  TransferInv'
<1>1. CASE ~panes[w].preparing \/ transfer.claim = {}
  <2>1. panes' = panes /\ transfer' = transfer
    BY <1>1 DEF OnReady
  <2> QED
    BY <2>1, TransferKeeps
<1>2. CASE ~(~panes[w].preparing \/ transfer.claim = {})
  <2>1. PICK v \in transfer.claim :
          /\ transfer' = [transfer EXCEPT !.claim = {}]
          /\ IF panes[v].tab
             THEN panes' = [panes EXCEPT ![w].preparing = FALSE]
             ELSE panes' = [panes EXCEPT ![w].preparing = FALSE,
                       ![v] = [NoPane EXCEPT !.tab = TRUE, !.link = Len(links) + 1,
                                 !.known = TRUE, !.transfer = transfer.id,
                                 !.saved = panes[w].screen, !.screen = panes[w].screen,
                                 !.after = panes[w].link]]
    BY <1>2 DEF OnReady
  <2>2. /\ transfer'.id = transfer.id /\ transfer'.from = transfer.from /\ transfer'.claim = {}
        /\ transfer'.claimed = transfer.claimed
    BY <2>1, TransferFields
  <2>3. v \in Windows /\ transfer.claimed /\ v \notin transfer.from /\ v # w
    BY <1>2, <2>1, Basics, Parts DEF TransferInv
  <2>4. \A u \in Windows \ {v} :
          /\ panes'[u].transfer = panes[u].transfer
          /\ panes'[u].preparing => panes[u].preparing
    <3>1. panes \in [Windows -> Pane] /\ panes[w] \in Pane
      BY Basics
    <3>2. \A u \in Windows \ {v, w} : panes'[u] = panes[u]
      BY <2>1, <3>1
    <3>3. panes'[w] = [panes[w] EXCEPT !.preparing = FALSE]
      BY <2>1, <2>3, <3>1
    <3>4. panes'[w].transfer = panes[w].transfer
      BY <3>3, PaneFields
    <3>5. panes[w].preparing
      BY <1>2
    <3> QED
      BY <3>2, <3>4, <3>5
  <2>5. transfer.id \in Nat /\ \A u \in Windows : panes[u].transfer \in Nat
    BY Basics, Parts, PaneAt
  <2>6. CASE panes[v].tab
    <3>1. panes'[v] = panes[v]
      BY <2>1, <2>3, <2>6, Basics
    <3> QED
      BY <2>2, <2>4, <3>1, TransferKeeps
  <2>7. CASE ~panes[v].tab
    <3>1. panes'[v].transfer = transfer.id /\ ~panes'[v].preparing
      <4> DEFINE y == [NoPane EXCEPT !.tab = TRUE, !.link = Len(links) + 1,
                                 !.known = TRUE, !.transfer = transfer.id,
                                 !.saved = panes[w].screen, !.screen = panes[w].screen,
                                 !.after = panes[w].link]
      <4>1. panes' = [panes EXCEPT ![w].preparing = FALSE, ![v] = y]
        BY <2>1, <2>7
      <4>2. y.transfer = transfer.id /\ ~y.preparing
        BY DEF NoPane
      <4> HIDE DEF y
      <4>3. panes'[v] = y
        BY <2>3, <4>1, Basics
      <4> QED
        BY <4>2, <4>3
    <3>2. \A u \in Windows \ {v} : ~Adopting(u)
      BY <1>2 DEF TransferInv
    <3>3. \A u \in Windows \ {v} : ~Adopting(u)'
      BY <2>2, <2>4, <3>2 DEF Adopting
    <3>4. \A u \in Windows :
            /\ panes'[u].preparing => u \in transfer'.from /\ transfer'.claimed
            /\ panes'[u].transfer <= transfer'.id
      BY <2>2, <2>4, <2>5, <3>1 DEF TransferInv
    <3>5. /\ \A x, y \in transfer'.from : x = y
          /\ \A x, y \in transfer'.claim : x = y
          /\ transfer'.claim \cap transfer'.from = {}
          /\ transfer'.id = 0 => transfer'.from = {} /\ transfer'.claim = {}
          /\ transfer'.claim # {} => transfer'.claimed
      BY <2>2 DEF TransferInv
    <3>6. \A u \in Windows :
            Adopting(u)' => u \notin transfer'.from /\ transfer'.claimed /\ transfer'.claim = {}
      BY <2>2, <2>3, <3>3
    <3>7. \A x, y \in Windows : Adopting(x)' /\ Adopting(y)' => x = y
      BY <3>3
    <3> QED
      BY <3>4, <3>5, <3>6, <3>7 DEF TransferInv
  <2> QED
    BY <2>6, <2>7
<1> QED
  BY <1>1, <1>2

LEMMA CancelToken ==
  ASSUME BaseInv, TransferInv, panes' = Cancelled(panes),
         transfer'.id = transfer.id, transfer'.from \subseteq transfer.from,
         transfer'.claim \subseteq transfer.claim, transfer.claimed => transfer'.claimed
  PROVE  TransferInv'
<1>1. \A w \in Windows :
        /\ panes'[w].transfer = panes[w].transfer
        /\ panes'[w].preparing => panes[w].preparing /\ w \notin transfer.from
  BY PaneFields DEF Cancelled
<1> QED
  BY <1>1, TransferKeeps

LEMMA ClaimTimesOutToken ==
  ASSUME BaseInv, TransferInv, ClaimTimesOut
  PROVE  TransferInv'
<1>1. transfer' = [transfer EXCEPT !.claim = {}] /\ panes' = Cancelled(panes)
  BY DEF ClaimTimesOut
<1> QED
  BY <1>1, TransferFields, CancelToken

LEMMA SourceExpiresToken ==
  ASSUME BaseInv, TransferInv, SourceExpires
  PROVE  TransferInv'
<1>1. transfer' = [transfer EXCEPT !.from = {}] /\ panes' = Cancelled(panes)
  BY DEF SourceExpires
<1> QED
  BY <1>1, TransferFields, CancelToken

LEMMA PrepareTimesOutToken ==
  ASSUME BaseInv, TransferInv, NEW w \in Windows, PrepareTimesOut(w)
  PROVE  TransferInv'
<1>1. transfer' = [transfer EXCEPT !.claim = {}] /\ panes[w].preparing
      /\ panes' = [panes EXCEPT ![w] = [panes[w] EXCEPT !.preparing = FALSE]]
  BY DEF PrepareTimesOut
<1>2. \A v \in Windows :
        panes'[v].transfer = panes[v].transfer /\ (panes'[v].preparing => panes[v].preparing)
  BY <1>1, OnePane, PaneFields
<1> QED
  BY <1>1, <1>2, TransferFields, TransferKeeps

LEMMA ClaimRefusedToken ==
  ASSUME BaseInv, TransferInv, NEW v \in Windows, ClaimRefused(v)
  PROVE  TransferInv'
<1>1. transfer' = [transfer EXCEPT !.claimed = TRUE] /\ panes' = panes
  BY DEF ClaimRefused
<1> QED
  BY <1>1, TransferFields, TransferKeeps

LEMMA ClaimDeadToken ==
  ASSUME BaseInv, TransferInv, NEW v \in Windows, ClaimDead(v)
  PROVE  TransferInv'
<1>1. PICK w \in transfer.from : panes' = [panes EXCEPT ![w] = NoPane]
  BY DEF ClaimDead
<1>2. transfer' = [transfer EXCEPT !.claimed = TRUE, !.from = {}] /\ ~transfer.claimed
  BY DEF ClaimDead
<1>3. \A u \in Windows : ~panes[u].preparing
  BY <1>2 DEF TransferInv
<1>4. w \in Windows
  BY Basics, Parts
<1>5. \A u \in Windows : panes'[u].transfer \in {0, panes[u].transfer} /\ ~panes'[u].preparing
  BY <1>1, <1>3, <1>4, OnePane, NoPaneIs
<1> QED
  BY <1>2, <1>5, TransferFields, TransferKeeps

LEMMA OnOutputToken ==
  ASSUME BaseInv, TransferInv, NEW w \in Windows, OnOutput(w)
  PROVE  TransferInv'
<1>1. PICK s : panes' = [panes EXCEPT ![w] = [panes[w] EXCEPT !.screen = s]]
  BY DEF OnOutput
<1>2. transfer' = transfer
  BY DEF OnOutput
<1>3. \A v \in Windows :
        panes'[v].transfer = panes[v].transfer /\ panes'[v].preparing = panes[v].preparing
  BY <1>1, OnePane, PaneFields
<1> QED
  BY <1>2, <1>3, TransferKeeps

LEMMA OnExitToken ==
  ASSUME BaseInv, TransferInv, NEW w \in Windows, OnExit(w)
  PROVE  TransferInv'
<1>1. panes' = [panes EXCEPT ![w] = [panes[w] EXCEPT !.known = FALSE]] /\ transfer' = transfer
  BY DEF OnExit
<1>3. \A v \in Windows :
        panes'[v].transfer = panes[v].transfer /\ panes'[v].preparing = panes[v].preparing
  BY <1>1, OnePane, PaneFields
<1> QED
  BY <1>1, <1>3, TransferKeeps

LEMMA OnSessionToken ==
  ASSUME BaseInv, TransferInv, NEW w \in Windows, OnSession(w)
  PROVE  TransferInv'
<1> DEFINE sources == IF Adopting(w) THEN transfer.from ELSE {}
           here == [panes[w] EXCEPT !.known = TRUE, !.transfer = 0, !.saved = <<>>]
<1>1. /\ panes' = [v \in Windows |-> IF v = w THEN here
                                     ELSE IF v \in sources THEN NoPane ELSE panes[v]]
      /\ transfer' = [transfer EXCEPT !.from = transfer.from \ sources]
  BY DEF OnSession
<1>2. here.transfer = 0 /\ here.preparing = panes[w].preparing /\ w \notin sources
  BY PaneFields DEF TransferInv
<1> HIDE DEF sources, here
<1>3. \A v \in Windows :
        /\ panes'[v].transfer \in {0, panes[v].transfer}
        /\ panes'[v].preparing => panes[v].preparing /\ v \notin sources
  BY <1>1, <1>2, NoPaneIs
<1> QED
  BY <1>1, <1>3, TransferFields, TransferKeeps

LEMMA OnCloseToken ==
  ASSUME BaseInv, TransferInv, NEW w \in Windows, OnClose(w)
  PROVE  TransferInv'
<1> DEFINE x == [panes[w] EXCEPT !.link = 0, !.transfer = 0, !.saved = <<>>]
           p == IF Adopting(w) THEN Cancelled(panes) ELSE panes
<1>1. panes' = [p EXCEPT ![w] = x] /\ transfer' = transfer
  BY DEF OnClose
<1>2. x.transfer = 0 /\ x.preparing = panes[w].preparing
  BY PaneFields
<1>3. /\ DOMAIN p = Windows
      /\ \A v \in Windows : p[v].transfer = panes[v].transfer
                            /\ (p[v].preparing => panes[v].preparing)
  BY Basics, PaneFields DEF Cancelled
<1> HIDE DEF x, p
<1>4. \A v \in Windows :
        panes'[v].transfer \in {0, panes[v].transfer} /\ (panes'[v].preparing => panes[v].preparing)
  BY <1>1, <1>2, <1>3
<1> QED
  BY <1>1, <1>4, TransferKeeps

LEMMA CloseTabToken ==
  ASSUME BaseInv, TransferInv, NEW w \in Windows, CloseTab(w)
  PROVE  TransferInv'
<1>1. /\ panes' = [panes EXCEPT ![w] = NoPane]
      /\ transfer' = transfer \/ transfer' = [transfer EXCEPT !.claim = {}]
  BY DEF CloseTab
<1>2. \A v \in Windows :
        panes'[v].transfer \in {0, panes[v].transfer} /\ (panes'[v].preparing => panes[v].preparing)
  BY <1>1, OnePane, NoPaneIs
<1>3. /\ transfer'.id = transfer.id /\ transfer'.from = transfer.from
      /\ transfer'.claim \subseteq transfer.claim /\ transfer'.claimed = transfer.claimed
  <2>1. CASE transfer' = transfer
    BY <2>1
  <2>2. CASE transfer' = [transfer EXCEPT !.claim = {}]
    BY <2>2, TransferFields
  <2> QED
    BY <1>1, <2>1, <2>2
<1> QED
  BY <1>2, <1>3, TransferKeeps

LEMMA PageGoneToken ==
  ASSUME BaseInv, TransferInv, NEW w \in Windows, Reload(w) \/ WindowGone(w)
  PROVE  TransferInv'
<1>1. /\ transfer'.id = transfer.id /\ transfer'.from = transfer.from \ {w}
      /\ transfer'.claim = transfer.claim \ {w} /\ transfer'.claimed = transfer.claimed
  BY GoneFields DEF Reload, WindowGone
<1>2. /\ panes'[w].transfer \in {0, panes[w].transfer} /\ ~panes'[w].preparing
      /\ \A v \in Windows \ {w} : panes'[v] = panes[v]
  <2>1. CASE panes' = [panes EXCEPT ![w] = NoPane]
    BY <2>1, OnePane, NoPaneIs, ZenonT(40)
  <2>2. CASE panes' # [panes EXCEPT ![w] = NoPane]
    <3>1. panes' = [panes EXCEPT ![w].link = Len(links) + 1, ![w].preparing = FALSE,
                      ![w].screen = panes[w].saved, ![w].after = 0]
      BY <2>2 DEF Reload, WindowGone
    <3>2. panes \in [Windows -> Pane] /\ panes[w] \in Pane
      BY Basics
    <3>3. \A v \in Windows \ {w} : panes'[v] = panes[v]
      BY <3>1, <3>2
    <3>4. panes'[w].transfer = panes[w].transfer /\ panes'[w].preparing = FALSE
      BY <3>1, <3>2 DEF Pane
    <3> QED
      BY <3>3, <3>4
  <2> QED
    BY <2>1, <2>2
<1>3. \A v \in Windows :
        /\ panes'[v].transfer \in {0, panes[v].transfer}
        /\ panes'[v].preparing =>
             panes[v].preparing /\ (v \in transfer.from => v \in transfer'.from)
  BY <1>1, <1>2
<1> QED
  BY <1>1, <1>3, TransferKeeps

-----------------------------------------------------------------------------
(* The specification                                                       *)

SafeInv == BaseInv /\ TransferInv

LEMMA InitSafe ==
  Init => SafeInv
<1> SUFFICES ASSUME Init PROVE TransferInv
  BY InitBase DEF SafeInv
<1>1. transfer = [id |-> 0, from |-> {}, claim |-> {}, claimed |-> FALSE]
  BY DEF Init
<1>2. \A w \in Windows : ~panes[w].preparing /\ panes[w].transfer = 0
  BY DEF Init, NoPane
<1> QED
  BY <1>1, <1>2 DEF TransferInv, Adopting

LEMMA ServerSafe ==
  ASSUME SafeInv,
         \/ Write \/ Ends \/ Dispose \/ GraceExpires \/ PodStarts \/ Connected
         \/ \E l \in DOMAIN links : \/ AcceptNew(l) \/ Attach(l) \/ AttachRefused(l)
                                    \/ OnPrepare(l) \/ OnCancel(l) \/ OnBye(l) \/ OnGone(l)
                                    \/ Breaks(l)
  PROVE  SafeInv'
<1>1. BaseInv /\ TransferInv
  BY DEF SafeInv
<1>2. TransferInv'
  <2>1. panes' = panes /\ transfer' = transfer
    BY ServerLeaves
  <2> QED
    BY <1>1, <2>1, TransferKeeps
<1>3. BaseInv'
  <2>1. CASE \E l \in DOMAIN links : AcceptNew(l) \/ Attach(l) \/ AttachRefused(l)
    BY <1>1, <2>1, AcceptNewBase, AttachBase, AttachRefusedBase
  <2>2. CASE \E l \in DOMAIN links : OnPrepare(l) \/ OnCancel(l)
    BY <1>1, <2>2, OnPrepareBase, OnCancelBase
  <2>3. CASE \E l \in DOMAIN links : OnBye(l) \/ OnGone(l) \/ Breaks(l)
    BY <1>1, <2>3, OnByeBase, OnGoneBase, BreaksBase
  <2>4. CASE Write \/ Ends \/ Dispose
    BY <1>1, <2>4, WriteBase, EndsBase, DisposeBase
  <2>5. CASE GraceExpires \/ PodStarts \/ Connected
    BY <1>1, <2>5, GraceExpiresBase, PodStartsBase, ConnectedBase
  <2> QED
    BY <2>1, <2>2, <2>3, <2>4, <2>5
<1> QED
  BY <1>2, <1>3 DEF SafeInv

LEMMA WindowsSafe ==
  ASSUME SafeInv,
         \/ ClaimTimesOut \/ SourceExpires
         \/ \E w \in Windows : \/ OnOutput(w) \/ OnSession(w) \/ OnReady(w) \/ OnExit(w)
                               \/ OnClose(w) \/ PrepareTimesOut(w)
                               \/ BeginTransfer(w) \/ Claim(w) \/ ClaimRefused(w) \/ ClaimDead(w)
                               \/ CloseTab(w) \/ Reload(w) \/ WindowGone(w)
  PROVE  SafeInv'
<1>1. BaseInv /\ TransferInv
  BY DEF SafeInv
<1>2. CASE ClaimTimesOut \/ SourceExpires
  BY <1>1, <1>2, ClaimTimesOutBase, SourceExpiresBase, ClaimTimesOutToken, SourceExpiresToken
     DEF SafeInv
<1>3. CASE \E w \in Windows : OnOutput(w) \/ OnSession(w) \/ OnReady(w)
  BY <1>1, <1>3, OnOutputBase, OnSessionBase, OnReadyBase, OnOutputToken, OnSessionToken,
     OnReadyToken DEF SafeInv
<1>4. CASE \E w \in Windows : OnExit(w) \/ OnClose(w) \/ PrepareTimesOut(w)
  BY <1>1, <1>4, OnExitBase, OnCloseBase, PrepareTimesOutBase, OnExitToken, OnCloseToken,
     PrepareTimesOutToken DEF SafeInv
<1>5. CASE \E w \in Windows : BeginTransfer(w) \/ Claim(w) \/ ClaimRefused(w) \/ ClaimDead(w)
  BY <1>1, <1>5, BeginTransferBase, ClaimBase, ClaimRefusedBase, ClaimDeadBase,
     BeginTransferToken, ClaimToken, ClaimRefusedToken, ClaimDeadToken DEF SafeInv
<1>6. CASE \E w \in Windows : CloseTab(w) \/ Reload(w) \/ WindowGone(w)
  BY <1>1, <1>6, CloseTabBase, ReloadBase, WindowGoneBase, CloseTabToken, PageGoneToken
     DEF SafeInv
<1> QED
  BY <1>2, <1>3, <1>4, <1>5, <1>6

LEMMA NextIs ==
  ASSUME Next
  PROVE  \/ \/ Write \/ Ends \/ Dispose \/ GraceExpires \/ PodStarts \/ Connected
            \/ \E l \in DOMAIN links : \/ AcceptNew(l) \/ Attach(l) \/ AttachRefused(l)
                                       \/ OnPrepare(l) \/ OnCancel(l) \/ OnBye(l) \/ OnGone(l)
                                       \/ Breaks(l)
         \/ \/ ClaimTimesOut \/ SourceExpires
            \/ \E w \in Windows : \/ OnOutput(w) \/ OnSession(w) \/ OnReady(w) \/ OnExit(w)
                                  \/ OnClose(w) \/ PrepareTimesOut(w)
                                  \/ BeginTransfer(w) \/ Claim(w) \/ ClaimRefused(w)
                                  \/ ClaimDead(w) \/ CloseTab(w) \/ Reload(w) \/ WindowGone(w)
<1>1. CASE Server
  BY <1>1 DEF Server
<1>2. CASE Browser
  BY <1>2 DEF Browser
<1>3. CASE User
  BY <1>3 DEF User
<1>4. CASE Write \/ Ends \/ Dispose \/ \E l \in DOMAIN links : Breaks(l)
  BY <1>4
<1> QED
  BY <1>1, <1>2, <1>3, <1>4 DEF Next

LEMMA StutterSafe ==
  ASSUME SafeInv, UNCHANGED vars
  PROVE  SafeInv'
<1>1. /\ shell' = shell /\ facade' = facade /\ links' = links /\ panes' = panes
      /\ transfer' = transfer /\ lost' = lost /\ faults' = faults
  BY DEF vars
<1>2. TypeOK'
  BY <1>1 DEF SafeInv, BaseInv, TypeOK
<1>3. StartInv' /\ LinksInv'
  BY <1>1 DEF SafeInv, BaseInv, StartInv, LinksInv
<1>4. PanesInv' /\ ShellInv'
  BY <1>1 DEF SafeInv, BaseInv, PanesInv, ShellInv
<1>5. TransferInv'
  BY <1>1 DEF SafeInv, TransferInv, Adopting
<1> QED
  BY <1>2, <1>3, <1>4, <1>5 DEF SafeInv, BaseInv

LEMMA NextSafe ==
  SafeInv /\ [Next]_vars => SafeInv'
<1>1. SafeInv /\ Next => SafeInv'
  BY NextIs, ServerSafe, WindowsSafe
<1> QED
  BY <1>1, StutterSafe

THEOREM AlwaysSafe ==
  Spec => []SafeInv
  BY InitSafe, NextSafe, PTL DEF Spec

\* The state of the shell, of the connections and of the panes is what the code
\* can hold: the buffer stays within MAX_TRANSFER_BUFFER_BYTES, and no pane and
\* no facade names a connection that was not opened.
THEOREM TypeCorrect ==
  Spec => []TypeOK
<1>1. SafeInv => TypeOK
  BY DEF SafeInv, BaseInv
<1> QED
  BY <1>1, AlwaysSafe, PTL

\* No upstream connection and no node shell pod outlives the terminal, whenever
\* the browser leaves while either is being made.
THEOREM NoneOrphaned ==
  Spec => []NoOrphanShell
<1>1. SafeInv => NoOrphanShell
  BY Basics DEF SafeInv, ShellInv, NoOrphanShell, Shell
<1> QED
  BY <1>1, AlwaysSafe, PTL

\* The session of a pane that is attached by a connection that works ends only
\* with its shell or with the server, however its tab is moved.
THEOREM NotEndedAttached ==
  Spec => EndsUnattended
<1> DEFINE A == facade'.closed /\ ~facade.closed /\ ~Ends /\ ~Dispose
                  => ~\E w \in Windows : Attached(w) /\ ~links[facade.current].cut
<1>1. SafeInv /\ [Next]_vars => [A]_vars
  <2> SUFFICES ASSUME SafeInv, Next, facade'.closed, ~facade.closed, ~Ends, ~Dispose
               PROVE  links[facade.current].cut
    OBVIOUS
  <2>1. BaseInv /\ facade \in Facade /\ LinksInv /\ links \in Seq(Link)
    BY Basics DEF SafeInv
  <2>2. facade'.closed = facade.closed
        \/ GraceExpires \/ \E l \in DOMAIN links : OnBye(l) /\ Bound(l)
    <3>1. CASE \E l \in DOMAIN links : \/ AcceptNew(l) \/ Attach(l) \/ AttachRefused(l)
                                      \/ OnPrepare(l) \/ OnCancel(l) \/ OnGone(l)
                                      \/ Breaks(l)
      BY <2>1, <3>1 DEF AcceptNew, Attach, AttachRefused, OnPrepare, OnCancel, OnGone, Breaks,
                        Facade
    <3>2. CASE \E l \in DOMAIN links : OnBye(l)
      BY <3>2 DEF OnBye
    <3>3. CASE Write \/ PodStarts \/ Connected
      BY <2>1, <3>3 DEF Write, PodStarts, Connected, Facade
    <3>4. CASE \/ ClaimTimesOut \/ SourceExpires
               \/ \E w \in Windows : \/ OnOutput(w) \/ OnSession(w) \/ OnReady(w) \/ OnExit(w)
                                     \/ OnClose(w) \/ PrepareTimesOut(w)
                                     \/ BeginTransfer(w) \/ Claim(w) \/ ClaimRefused(w)
                                     \/ ClaimDead(w) \/ CloseTab(w) \/ Reload(w)
                                     \/ WindowGone(w)
      BY <3>4 DEF ClaimTimesOut, SourceExpires, OnOutput, OnSession, OnReady, OnExit, OnClose,
                  PrepareTimesOut, BeginTransfer, Claim, ClaimRefused, ClaimDead, CloseTab,
                  Reload, WindowGone
    <3> QED
      BY <3>1, <3>2, <3>3, <3>4, NextIs
  <2>3. CASE GraceExpires
    BY <2>1, <2>3 DEF GraceExpires, LinksInv
  <2>4. CASE \E l \in DOMAIN links : OnBye(l) /\ Bound(l)
    <3>1. PICK l \in DOMAIN links : OnBye(l) /\ Bound(l)
      BY <2>4
    <3>2. links[l].up # <<>> /\ Head(links[l].up) = "bye" /\ facade.current = l
      BY <3>1 DEF OnBye, Reads, Bound
    <3>3. links[l].up \in Seq(Upward)
      BY <2>1, LinkAt
    <3>4. Has(links[l].up, "bye")
      BY <3>2, <3>3 DEF Has
    <3> QED
      BY <2>1, <3>2, <3>4 DEF LinksInv
  <2> QED
    BY <2>2, <2>3, <2>4
<1> QED
  BY <1>1, AlwaysSafe, PTL DEF Spec, EndsUnattended


-----------------------------------------------------------------------------
(* The output                                                              *)
(*                                                                         *)
(* All that the shell has written is shown, on its way or held back, in    *)
(* order.  This depends on LateReplies: a 'transfer-ready' of a transfer   *)
(* that is over, or a cancel that is still on its way, meets the next one, *)
(* and the tab is adopted while its output still goes to the window it     *)
(* leaves.  Only BeginTransfer, which starts the next one, uses the        *)
(* assumption.                                                             *)

\* What has been shown or sent comes before what is held back.
OrderInv ==
  /\ Ascending(facade.buffer) /\ Range(facade.buffer) \subseteq 1..shell.made
  /\ \A w \in Windows :
       /\ Ascending(panes[w].screen) /\ Ascending(panes[w].saved)
       /\ Range(panes[w].screen) \cup Range(panes[w].saved) \subseteq 1..shell.made
       /\ Before(Range(panes[w].screen) \cup Range(panes[w].saved), Range(facade.buffer))
       /\ panes[w].link # 0 => Before(Range(panes[w].screen), Chunks(links[panes[w].link].down))
  /\ \A l \in DOMAIN links :
       /\ InOrder(links[l].down) /\ Chunks(links[l].down) \subseteq 1..shell.made
       /\ Before(Chunks(links[l].down), Range(facade.buffer))

\* Output is held back only in a transfer or without a window.
HeldInv ==
  ~facade.closed =>
    /\ facade.buffer # <<>> => facade.buffering \/ facade.detached
    /\ facade.current # 0 =>
         links[facade.current].server = "open" \/ facade.detached

Preparing == \E w \in Windows : panes[w].preparing

HasFrame(frames, op) == \E i \in DOMAIN frames : frames[i].op = op

\* No output follows what tells the page that there will be none.
Settled(frames) ==
  \A i, j \in DOMAIN frames : i < j /\ frames[i].op = "ready" => frames[j].op # "output"

Arrived ==
  \A l \in DOMAIN links : /\ ~Has(links[l].up, "prepare") /\ ~Has(links[l].up, "cancel")
                         /\ ~HasFrame(links[l].down, "ready")

\* Nothing of an earlier transfer meets this one.
ArrivedInv ==
  /\ ~transfer.claimed /\ transfer.from # {} => Arrived
  /\ Preparing /\ transfer.claim # {} =>
       /\ \A l \in DOMAIN links : ~Has(links[l].up, "cancel")
       /\ (/\ facade.current # 0 /\ ~facade.closed
           /\ HasFrame(links[facade.current].down, "ready"))
            => facade.buffering /\ Settled(links[facade.current].down)

\* w took the tab over from the connection that is attached, and has not come yet.
Waiting(w) ==
  /\ panes[w].link # 0 /\ links[panes[w].link].server = "none"
  /\ panes[w].after # 0 /\ panes[w].after = facade.current

\* Its source stays the source.
WaitingInv ==
  \A v, w \in Windows : Waiting(v) /\ panes[w].link = facade.current =>
    w \in transfer.from /\ Adopting(v) /\ ~panes[w].preparing

\* The screen that is attached, or waits to be, lacks nothing that is not on
\* its way there or held back.
CoverInv ==
  ~facade.closed /\ facade.current # 0 =>
    \A w \in Windows :
      /\ panes[w].link = facade.current =>
           1..shell.made \subseteq Range(panes[w].screen) \cup Chunks(links[facade.current].down)
                                   \cup Range(facade.buffer) \cup lost
      /\ Waiting(w) =>
           /\ facade.buffering
           /\ ~Has(links[facade.current].up, "cancel")
           /\ 1..shell.made \subseteq Range(panes[w].screen) \cup Range(facade.buffer) \cup lost

OutInv == OrderInv /\ HeldInv /\ ArrivedInv /\ WaitingInv /\ CoverInv

-----------------------------------------------------------------------------
(* Output in a queue of frames                                             *)

LEMMA TailIs ==
  ASSUME NEW T, NEW s \in Seq(T), s # <<>>
  PROVE  /\ 1 \in DOMAIN s /\ s[1] = Head(s)
         /\ \A i \in DOMAIN Tail(s) : i \in Nat \ {0} /\ i + 1 \in DOMAIN s /\ Tail(s)[i] = s[i + 1]
         /\ \A j \in DOMAIN s : j \in Nat \ {0} /\ (j # 1 => j - 1 \in DOMAIN Tail(s))
<1>1. /\ Len(s) \in Nat \ {0} /\ DOMAIN s = 1..Len(s) /\ s[1] = Head(s)
      /\ Len(Tail(s)) = Len(s) - 1 /\ DOMAIN Tail(s) = 1..(Len(s) - 1)
  OBVIOUS
<1>2. \A i \in DOMAIN Tail(s) : Tail(s)[i] = s[i + 1]
  OBVIOUS
<1> QED
  BY <1>1, <1>2

LEMMA TailFrames ==
  ASSUME NEW d \in Seq(Downward), d # <<>>
  PROVE  /\ InOrder(d) => InOrder(Tail(d))
         /\ Chunks(Tail(d)) \subseteq Chunks(d)
         /\ Head(d).op # "output" => Chunks(Tail(d)) = Chunks(d)
         /\ Head(d).op = "output" => Chunks(d) = Chunks(Tail(d)) \cup {Head(d).chunk}
         /\ Head(d).op = "output" /\ InOrder(d) => Before({Head(d).chunk}, Chunks(Tail(d)))
         /\ \A op : HasFrame(Tail(d), op) => HasFrame(d, op)
         /\ Settled(d) => Settled(Tail(d))
<1> DEFINE t == Tail(d)
<1>1. /\ 1 \in DOMAIN d /\ d[1] = Head(d)
      /\ \A i \in DOMAIN t : i \in Nat \ {0} /\ i + 1 \in DOMAIN d /\ t[i] = d[i + 1]
      /\ \A j \in DOMAIN d : j \in Nat \ {0} /\ (j # 1 => j - 1 \in DOMAIN t)
  BY TailIs
<1> HIDE DEF t
<1>2. \A i \in Outputs(t) : i \in Nat \ {0} /\ i + 1 \in Outputs(d) /\ t[i] = d[i + 1]
  BY <1>1 DEF Outputs
<1>3. \A j \in Outputs(d) : j # 1 => j - 1 \in Outputs(t) /\ t[j - 1] = d[j]
  BY ONLY <1>1, SMTT(30) DEF Outputs
<1>4. InOrder(d) => InOrder(t)
  BY <1>2 DEF InOrder
<1>5. Chunks(t) \subseteq Chunks(d)
  BY <1>2 DEF Chunks
<1>6. \A j \in Outputs(d) : j = 1 \/ d[j].chunk \in Chunks(t)
  BY <1>3 DEF Chunks
<1>7. Chunks(d) \subseteq Chunks(t) \cup {d[1].chunk}
  BY <1>6 DEF Chunks
<1>8. d[1].op # "output" => Chunks(t) = Chunks(d)
  <2>1. d[1].op # "output" => 1 \notin Outputs(d)
    BY DEF Outputs
  <2>2. d[1].op # "output" => Chunks(d) \subseteq Chunks(t)
    BY <1>6, <2>1 DEF Chunks
  <2> QED
    BY <1>5, <2>2
<1>9. d[1].op = "output" => d[1].chunk \in Chunks(d)
  BY <1>1 DEF Chunks, Outputs
<1>10. d[1].op = "output" /\ InOrder(d) => Before({d[1].chunk}, Chunks(t))
  <2> SUFFICES ASSUME d[1].op = "output", InOrder(d), NEW i \in Outputs(t)
               PROVE  d[1].chunk < t[i].chunk
    BY DEF Before, Chunks
  <2>1. 1 \in Outputs(d) /\ i + 1 \in Outputs(d) /\ 1 < i + 1 /\ t[i] = d[i + 1]
    BY <1>1, <1>2 DEF Outputs
  <2> QED
    BY <2>1 DEF InOrder
<1>11. \A op : HasFrame(t, op) => HasFrame(d, op)
  BY <1>1 DEF HasFrame
<1>12. Settled(d) => Settled(t)
  BY <1>1 DEF Settled
<1> QED
  BY <1>1, <1>4, <1>5, <1>7, <1>8, <1>9, <1>10, <1>11, <1>12 DEF t

LEMMA ConcatIs ==
  ASSUME NEW T, NEW s \in Seq(T), NEW t \in Seq(T)
  PROVE  /\ s \o t \in Seq(T) /\ Len(s) \in Nat
         /\ \A i \in DOMAIN s : i \in 1..Len(s) /\ i \in DOMAIN (s \o t) /\ (s \o t)[i] = s[i]
         /\ \A j \in DOMAIN t : /\ j \in Nat \ {0} /\ Len(s) + j \in DOMAIN (s \o t)
                                /\ (s \o t)[Len(s) + j] = t[j]
         /\ \A i \in DOMAIN (s \o t) :
              i \in DOMAIN s \/ (i - Len(s) \in DOMAIN t /\ i > Len(s) /\ i \in Nat)
<1>1. /\ DOMAIN s = 1..Len(s) /\ DOMAIN t = 1..Len(t) /\ DOMAIN (s \o t) = 1..(Len(s) + Len(t))
      /\ Len(s) \in Nat /\ Len(t) \in Nat /\ s \o t \in Seq(T)
  OBVIOUS
<1>2. /\ \A i \in 1..Len(s) : (s \o t)[i] = s[i]
      /\ \A j \in 1..Len(t) : (s \o t)[Len(s) + j] = t[j]
  OBVIOUS
<1>3. \A i \in DOMAIN s : i \in 1..Len(s) /\ i \in DOMAIN (s \o t) /\ (s \o t)[i] = s[i]
  BY <1>1, <1>2
<1>4. \A j \in DOMAIN t : /\ j \in Nat \ {0} /\ Len(s) + j \in DOMAIN (s \o t)
                         /\ (s \o t)[Len(s) + j] = t[j]
  <2> SUFFICES ASSUME NEW j \in DOMAIN t
               PROVE  /\ j \in Nat \ {0} /\ Len(s) + j \in DOMAIN (s \o t)
                      /\ (s \o t)[Len(s) + j] = t[j]
    OBVIOUS
  <2>1. j \in 1..Len(t) /\ j \in Nat \ {0}
    BY <1>1
  <2>2. Len(s) + j \in 1..(Len(s) + Len(t))
    BY <1>1, <2>1
  <2> QED
    BY <1>1, <1>2, <2>1, <2>2
<1>5. \A i \in DOMAIN (s \o t) :
        i \in DOMAIN s \/ (i - Len(s) \in DOMAIN t /\ i > Len(s) /\ i \in Nat)
  <2> SUFFICES ASSUME NEW i \in DOMAIN (s \o t), i \notin DOMAIN s
               PROVE  i - Len(s) \in DOMAIN t /\ i > Len(s) /\ i \in Nat
    OBVIOUS
  <2>1. i \in 1..(Len(s) + Len(t)) /\ i \notin 1..Len(s)
    BY <1>1
  <2>2. i \in Nat /\ i > Len(s) /\ i - Len(s) \in 1..Len(t)
    BY <1>1, <2>1
  <2> QED
    BY <1>1, <2>2
<1> QED
  BY <1>1, <1>3, <1>4, <1>5

LEMMA ConcatFrames ==
  ASSUME NEW d \in Seq(Downward), NEW f \in Seq(Downward)
  PROVE  /\ Chunks(d \o f) = Chunks(d) \cup Chunks(f)
         /\ InOrder(d) /\ InOrder(f) /\ Before(Chunks(d), Chunks(f)) => InOrder(d \o f)
         /\ \A op : HasFrame(d \o f, op) => HasFrame(d, op) \/ HasFrame(f, op)
         /\ Settled(d) /\ Settled(f) /\ (HasFrame(d, "ready") => Outputs(f) = {})
              => Settled(d \o f)
<1> DEFINE e == d \o f
           n == Len(d)
<1>1. /\ n \in Nat
      /\ \A i \in DOMAIN d : i \in 1..n /\ i \in DOMAIN e /\ e[i] = d[i]
      /\ \A j \in DOMAIN f : j \in Nat \ {0} /\ n + j \in DOMAIN e /\ e[n + j] = f[j]
      /\ \A i \in DOMAIN e : i \in DOMAIN d \/ (i - n \in DOMAIN f /\ i > n /\ i \in Nat)
  BY ConcatIs
<1> HIDE DEF e, n
<1>2. \A i \in DOMAIN e : \/ i \in DOMAIN d /\ e[i] = d[i]
                          \/ i - n \in DOMAIN f /\ i > n /\ e[i] = f[i - n]
  <2> SUFFICES ASSUME NEW i \in DOMAIN e, i \notin DOMAIN d
               PROVE  i - n \in DOMAIN f /\ i > n /\ e[i] = f[i - n]
    BY <1>1
  <2>1. i - n \in DOMAIN f /\ i > n /\ i \in Nat
    BY <1>1
  <2>2. e[n + (i - n)] = f[i - n] /\ n + (i - n) = i
    BY <1>1, <2>1
  <2> QED
    BY <2>1, <2>2
<1>3. /\ \A i \in Outputs(d) : i \in Outputs(e) /\ e[i] = d[i]
      /\ \A j \in Outputs(f) : n + j \in Outputs(e) /\ e[n + j] = f[j]
  BY <1>1 DEF Outputs
<1>4. \A i \in Outputs(e) : \/ i \in Outputs(d) /\ e[i] = d[i]
                            \/ i - n \in Outputs(f) /\ i > n /\ e[i] = f[i - n]
  BY <1>2 DEF Outputs
<1>5. Chunks(e) = Chunks(d) \cup Chunks(f)
  <2>1. Chunks(e) \subseteq Chunks(d) \cup Chunks(f)
    BY <1>4 DEF Chunks
  <2>2. Chunks(d) \subseteq Chunks(e) /\ Chunks(f) \subseteq Chunks(e)
    BY <1>3 DEF Chunks
  <2> QED
    BY <2>1, <2>2
<1>6. InOrder(d) /\ InOrder(f) /\ Before(Chunks(d), Chunks(f)) => InOrder(e)
  <2> SUFFICES ASSUME InOrder(d), InOrder(f), Before(Chunks(d), Chunks(f)),
                      NEW i \in Outputs(e), NEW j \in Outputs(e), i < j
               PROVE  e[i].chunk < e[j].chunk
    BY DEF InOrder
  <2>0. i \in DOMAIN e /\ j \in DOMAIN e
    BY DEF Outputs
  <2>1. CASE i \in Outputs(d) /\ j \in Outputs(d)
    BY <1>3, <2>1 DEF InOrder
  <2>2. CASE i - n \in Outputs(f) /\ i > n /\ e[i] = f[i - n]
             /\ j - n \in Outputs(f) /\ j > n /\ e[j] = f[j - n]
    <3>1. i \in Nat /\ j \in Nat
      <4>1. e \in Seq(Downward)
        BY DEF e
      <4> QED
        BY <2>0, <4>1
    <3>2. i - n < j - n
      BY <1>1, <3>1
    <3> QED
      BY <2>2, <3>2 DEF InOrder
  <2>3. CASE i \in Outputs(d) /\ e[i] = d[i] /\ j - n \in Outputs(f) /\ e[j] = f[j - n]
    <3>1. d[i].chunk \in Chunks(d) /\ f[j - n].chunk \in Chunks(f)
      BY <2>3 DEF Chunks
    <3> QED
      BY <2>3, <3>1 DEF Before
  <2>4. CASE i > n /\ j \in Outputs(d)
    <3>1. j \in 1..n
      BY <1>1, <2>4 DEF Outputs
    <3>2. i \in Nat
      <4>1. e \in Seq(Downward)
        BY DEF e
      <4> QED
        BY <2>0, <4>1
    <3> QED
      BY <1>1, <2>4, <3>1, <3>2
  <2> QED
    BY <1>4, <2>1, <2>2, <2>3, <2>4
<1>7. \A op : HasFrame(e, op) => HasFrame(d, op) \/ HasFrame(f, op)
  BY <1>2 DEF HasFrame
<1>8. Settled(d) /\ Settled(f) /\ (HasFrame(d, "ready") => Outputs(f) = {}) => Settled(e)
  <2> SUFFICES ASSUME Settled(d), Settled(f), HasFrame(d, "ready") => Outputs(f) = {},
                      NEW i \in DOMAIN e, NEW j \in DOMAIN e, i < j, e[i].op = "ready"
               PROVE  e[j].op # "output"
    BY DEF Settled
  <2>0. i \in Nat /\ j \in Nat
    <3>1. e \in Seq(Downward)
      BY DEF e
    <3> QED
      BY <3>1
  <2>1. CASE i \in DOMAIN d /\ e[i] = d[i] /\ j \in DOMAIN d /\ e[j] = d[j]
    BY <2>1 DEF Settled
  <2>2. CASE i - n \in DOMAIN f /\ e[i] = f[i - n] /\ j - n \in DOMAIN f /\ e[j] = f[j - n]
    <3>1. i - n < j - n
      BY <1>1, <2>0
    <3> QED
      BY <2>2, <3>1 DEF Settled
  <2>3. CASE i \in DOMAIN d /\ e[i] = d[i] /\ j - n \in DOMAIN f /\ e[j] = f[j - n]
    <3>1. HasFrame(d, "ready")
      BY <2>3 DEF HasFrame
    <3> QED
      BY <2>3, <3>1 DEF Outputs
  <2>4. CASE i > n /\ j \in DOMAIN d
    <3>1. j \in 1..n
      BY <1>1, <2>4
    <3> QED
      BY <1>1, <2>0, <2>4, <3>1
  <2> QED
    BY <1>2, <2>1, <2>2, <2>3, <2>4
<1> QED
  BY <1>5, <1>6, <1>7, <1>8 DEF e

\* What the frames of the code add.
LEMMA NoOutput ==
  ASSUME NEW f \in Seq(Downward), \A i \in DOMAIN f : f[i].op # "output"
  PROVE  Outputs(f) = {} /\ Chunks(f) = {} /\ InOrder(f) /\ Settled(f)
<1>1. Outputs(f) = {}
  BY DEF Outputs
<1> QED
  BY <1>1 DEF Chunks, InOrder, Settled

LEMMA FramesAre ==
  ASSUME NEW b \in Seq(Chunk)
  PROVE  /\ Frames(b) \in Seq(Downward) /\ Chunks(Frames(b)) = Range(b)
         /\ Ascending(b) => InOrder(Frames(b))
         /\ ~HasFrame(Frames(b), "ready") /\ Settled(Frames(b))
<1>1. /\ Frames(b) \in Seq(Downward) /\ DOMAIN Frames(b) = DOMAIN b
      /\ \A i \in DOMAIN b : Frames(b)[i].op = "output" /\ Frames(b)[i].chunk = b[i]
  BY FramesSeq DEF Frames, Output
<1>2. Outputs(Frames(b)) = DOMAIN b
  BY <1>1 DEF Outputs
<1>3. Chunks(Frames(b)) = Range(b)
  BY <1>1, <1>2 DEF Chunks, Range
<1>4. Ascending(b) => InOrder(Frames(b))
  BY <1>1, <1>2 DEF Ascending, InOrder
<1> QED
  BY <1>1, <1>3, <1>4 DEF HasFrame, Settled

-----------------------------------------------------------------------------
(* Steps that add no output                                                *)

Dwindles(d, e) ==
  /\ InOrder(d) => InOrder(e)
  /\ Chunks(e) \subseteq Chunks(d)
  /\ HasFrame(e, "ready") => HasFrame(d, "ready")
  /\ Settled(d) => Settled(e)

\* No output is sent, no page is told to be ready; A is what is asked of the
\* server, and on which connection.
Quiet(ls, ms, A) ==
  /\ DOMAIN ls \subseteq DOMAIN ms
  /\ \A k \in DOMAIN ls :
       /\ Dwindles(ls[k].down, ms[k].down)
       /\ \A op \in {"prepare", "cancel"} :
            Has(ms[k].up, op) => Has(ls[k].up, op) \/ <<k, op>> \in A
  /\ \A k \in DOMAIN ms \ DOMAIN ls : ms[k].down = <<>> /\ ms[k].up = <<>>

LEMMA DwindlesSame ==
  ASSUME NEW d
  PROVE  Dwindles(d, d)
  BY DEF Dwindles

LEMMA DwindlesTrans ==
  ASSUME NEW d, NEW e, NEW f, Dwindles(d, e), Dwindles(e, f)
  PROVE  Dwindles(d, f)
  BY DEF Dwindles

LEMMA DwindlesTail ==
  ASSUME NEW d \in Seq(Downward), d # <<>>
  PROVE  Dwindles(d, Tail(d))
  BY TailFrames DEF Dwindles

LEMMA EndFrames ==
  /\ <<>> \in Seq(Downward) /\ Outputs(<<>>) = {} /\ ~HasFrame(<<>>, "ready")
  /\ \A op \in {"session", "exit", "close"} :
       /\ <<Control(op)>> \in Seq(Downward) /\ Outputs(<<Control(op)>>) = {}
       /\ ~HasFrame(<<Control(op)>>, "ready")
  /\ <<Control("exit"), Control("close")>> \in Seq(Downward)
  /\ Outputs(<<Control("exit"), Control("close")>>) = {}
  /\ ~HasFrame(<<Control("exit"), Control("close")>>, "ready")
<1>1. <<>> \in Seq(Downward) /\ Outputs(<<>>) = {} /\ ~HasFrame(<<>>, "ready")
  BY DEF Outputs, HasFrame
<1>2. ASSUME NEW op \in {"session", "exit", "close"}
      PROVE  /\ <<Control(op)>> \in Seq(Downward) /\ Outputs(<<Control(op)>>) = {}
             /\ ~HasFrame(<<Control(op)>>, "ready")
  <2>1. Control(op) \in Downward /\ Control(op).op = op
    BY Frame DEF Control
  <2> QED
    BY <2>1 DEF Outputs, HasFrame
<1>3. /\ <<Control("exit"), Control("close")>> \in Seq(Downward)
      /\ Outputs(<<Control("exit"), Control("close")>>) = {}
      /\ ~HasFrame(<<Control("exit"), Control("close")>>, "ready")
  <2>1. /\ Control("exit") \in Downward /\ Control("exit").op = "exit"
        /\ Control("close") \in Downward /\ Control("close").op = "close"
    BY Frame DEF Control
  <2> QED
    BY <2>1 DEF Outputs, HasFrame
<1> QED
  BY <1>1, <1>2, <1>3

\* Frames without output or readiness, alone or at the end of a queue.
LEMMA DwindlesEnd ==
  ASSUME NEW d \in Seq(Downward), NEW f \in Seq(Downward), Outputs(f) = {}, ~HasFrame(f, "ready")
  PROVE  Dwindles(d, f) /\ Dwindles(d, d \o f) /\ Chunks(d \o f) = Chunks(d)
<1>1. Chunks(f) = {} /\ InOrder(f) /\ Settled(f)
  BY DEF Chunks, InOrder, Settled, HasFrame
<1>2. Before(Chunks(d), Chunks(f))
  BY <1>1 DEF Before
<1>3. /\ Chunks(d \o f) = Chunks(d) \cup Chunks(f)
      /\ InOrder(d) => InOrder(d \o f)
      /\ Settled(d) => Settled(d \o f)
  BY <1>1, <1>2, ConcatFrames
<1>4. HasFrame(d \o f, "ready") => HasFrame(d, "ready") \/ HasFrame(f, "ready")
  BY ConcatFrames
<1>5. Dwindles(d, f)
  BY <1>1 DEF Dwindles
<1> QED
  BY <1>1, <1>3, <1>4, <1>5 DEF Dwindles

LEMMA QuietSole ==
  ASSUME NEW ls \in Seq(Link), NEW ms, NEW l, NEW A, SoleChange(ls, ms, l),
         l \in DOMAIN ls =>
           /\ Dwindles(ls[l].down, ms[l].down)
           /\ \A op \in {"prepare", "cancel"} :
                Has(ms[l].up, op) => Has(ls[l].up, op) \/ <<l, op>> \in A
  PROVE  Quiet(ls, ms, A)
  BY DwindlesSame DEF SoleChange, Quiet

LEMMA QuietSame ==
  ASSUME NEW ls, NEW A
  PROVE  Quiet(ls, ls, A)
  BY DwindlesSame DEF Quiet

LEMMA QuietTrans ==
  ASSUME NEW ls, NEW ms, NEW ns, NEW A, NEW B, Quiet(ls, ms, A), Quiet(ms, ns, B),
         DOMAIN ms = DOMAIN ls
  PROVE  Quiet(ls, ns, A \cup B)
<1>1. ASSUME NEW k \in DOMAIN ls
      PROVE  Dwindles(ls[k].down, ns[k].down)
  BY DwindlesTrans DEF Quiet
<1>2. ASSUME NEW k \in DOMAIN ls, NEW op \in {"prepare", "cancel"}, Has(ns[k].up, op)
      PROVE  Has(ls[k].up, op) \/ <<k, op>> \in A \cup B
  <2>1. Has(ms[k].up, op) \/ <<k, op>> \in B
    BY <1>2 DEF Quiet
  <2>2. Has(ms[k].up, op) => Has(ls[k].up, op) \/ <<k, op>> \in A
    BY DEF Quiet
  <2> QED
    BY <2>1, <2>2
<1>3. /\ DOMAIN ls \subseteq DOMAIN ns
      /\ \A k \in DOMAIN ns \ DOMAIN ls : ns[k].down = <<>> /\ ns[k].up = <<>>
  BY DEF Quiet
<1> QED
  BY <1>1, <1>2, <1>3 DEF Quiet

LEMMA QuietMore ==
  ASSUME NEW ls, NEW ms, NEW A, NEW B, A \subseteq B, Quiet(ls, ms, A)
  PROVE  Quiet(ls, ms, B)
  BY DEF Quiet

LEMMA OpenQuiet ==
  ASSUME NEW ls \in Seq(Link)
  PROVE  /\ Quiet(ls, Append(ls, Connect(TRUE)), {})
         /\ \A k \in DOMAIN ls : Append(ls, Connect(TRUE))[k] = ls[k]
<1> DEFINE n == Connect(TRUE)
<1>1. n \in Link /\ n.down = <<>> /\ n.up = <<>>
  BY DEF Connect, Link
<1> HIDE DEF n
<1>2. /\ \A k \in DOMAIN ls : Append(ls, n)[k] = ls[k]
      /\ Append(ls, n)[Len(ls) + 1] = n /\ DOMAIN Append(ls, n) = DOMAIN ls \cup {Len(ls) + 1}
  BY <1>1, AppendIs
<1> QED
  BY <1>1, <1>2, DwindlesSame DEF Quiet, n

LEMMA AskQuiet ==
  ASSUME NEW ls \in Seq(Link), NEW l \in 0..Len(ls), NEW op \in Upward
  PROVE  /\ Quiet(ls, Ask(ls, l, op), {<<l, op>>})
         /\ \A k \in DOMAIN ls : /\ Ask(ls, l, op)[k].down = ls[k].down
                                 /\ Ask(ls, l, op)[k].server = ls[k].server
<1> DEFINE ms == Ask(ls, l, op)
<1>1. SoleChange(ls, ms, l) /\ (l # 0 => ms[l] = Asked(ls[l], op))
  BY AskIs
<1>2. l \in DOMAIN ls => l # 0 /\ ls[l] \in Link /\ ls[l].up \in Seq(Upward)
  BY LinkAt
<1>3. l \in DOMAIN ls => /\ Asked(ls[l], op).down = ls[l].down
                         /\ Asked(ls[l], op).server = ls[l].server
                         /\ Asked(ls[l], op).up \in {ls[l].up, Append(ls[l].up, op)}
  BY <1>2 DEF Asked, Link
<1> HIDE DEF ms
<1>4. ASSUME l \in DOMAIN ls, NEW o \in {"prepare", "cancel"}, Has(ms[l].up, o)
      PROVE  Has(ls[l].up, o) \/ <<l, o>> \in {<<l, op>>}
  <2>1. ms[l].up \in {ls[l].up, Append(ls[l].up, op)} /\ ls[l].up \in Seq(Upward)
    BY <1>1, <1>2, <1>3, <1>4
  <2>2. Has(Append(ls[l].up, op), o) => Has(ls[l].up, o) \/ o = op
    BY <2>1, HasAppend
  <2> QED
    BY <1>4, <2>1, <2>2
<1>5. l \in DOMAIN ls => Dwindles(ls[l].down, ms[l].down)
  BY <1>1, <1>2, <1>3, DwindlesSame
<1>6. Quiet(ls, ms, {<<l, op>>})
  BY <1>1, <1>4, <1>5, QuietSole
<1>7. \A k \in DOMAIN ls : ms[k].down = ls[k].down /\ ms[k].server = ls[k].server
  BY <1>1, <1>2, <1>3 DEF SoleChange
<1> QED
  BY <1>6, <1>7 DEF ms

LEMMA HangQuiet ==
  ASSUME NEW ls \in Seq(Link), NEW l \in 0..Len(ls), NEW op \in {"bye", "gone"}
  PROVE  /\ Quiet(ls, Hang(ls, l, op), {}) /\ SoleChange(ls, Hang(ls, l, op), l)
         /\ \A k \in DOMAIN ls : Hang(ls, l, op)[k].server = ls[k].server
<1> DEFINE ms == Hang(ls, l, op)
<1>1. SoleChange(ls, ms, l) /\ (l # 0 => ms[l] = Hung(ls[l], op))
  BY HangIs DEF Upward
<1>2. l \in DOMAIN ls => l # 0 /\ ls[l] \in Link /\ ls[l].up \in Seq(Upward)
                         /\ ls[l].down \in Seq(Downward)
  BY LinkAt
<1>3. l \in DOMAIN ls => /\ Hung(ls[l], op).down = <<>>
                         /\ Hung(ls[l], op).server = ls[l].server
                         /\ Hung(ls[l], op).up \in {<<"gone">>, ls[l].up, Append(ls[l].up, op)}
  BY <1>2 DEF Hung, Asked, Link
<1> HIDE DEF ms
<1>4. ASSUME l \in DOMAIN ls, NEW o \in {"prepare", "cancel"}, Has(ms[l].up, o)
      PROVE  Has(ls[l].up, o)
  <2>1. ms[l].up \in {<<"gone">>, ls[l].up, Append(ls[l].up, op)} /\ ls[l].up \in Seq(Upward)
    BY <1>1, <1>2, <1>3, <1>4
  <2>2. ~Has(<<"gone">>, o)
    BY DEF Has
  <2>3. Has(Append(ls[l].up, op), o) => Has(ls[l].up, o) \/ o = op
    BY <2>1, HasAppend DEF Upward
  <2> QED
    BY <1>4, <2>1, <2>2, <2>3
<1>5. l \in DOMAIN ls => Dwindles(ls[l].down, ms[l].down)
  BY <1>1, <1>2, <1>3, EndFrames, DwindlesEnd
<1>6. Quiet(ls, ms, {})
  BY <1>1, <1>4, <1>5, QuietSole
<1>7. \A k \in DOMAIN ls : ms[k].server = ls[k].server
  BY <1>1, <1>2, <1>3 DEF SoleChange
<1> QED
  BY <1>1, <1>6, <1>7 DEF ms

LEMMA ShowsQuiet ==
  ASSUME BaseInv, NEW w \in Windows, NEW op, Shows(w, op)
  PROVE  /\ Quiet(links, Shown(w), {}) /\ SoleChange(links, Shown(w), panes[w].link)
         /\ Shown(w)[panes[w].link].down = Tail(links[panes[w].link].down)
         /\ \A k \in DOMAIN links : Shown(w)[k].server = links[k].server
<1> DEFINE l == panes[w].link
           ms == Shown(w)
<1>1. /\ l \in DOMAIN links /\ links[l].down \in Seq(Downward) /\ links[l].down # <<>>
      /\ links \in Seq(Link) /\ links[l] \in Link
  BY ShownIs, Basics
<1>2. SoleChange(links, ms, l) /\ ms[l] = [links[l] EXCEPT !.down = Tail(links[l].down)]
  BY <1>1, ShowsIs DEF Shown
<1> HIDE DEF l, ms
<1>3. ms[l].down = Tail(links[l].down) /\ ms[l].up = links[l].up /\ ms[l].server = links[l].server
  BY <1>1, <1>2 DEF Link
<1>4. Quiet(links, ms, {})
  BY <1>1, <1>2, <1>3, DwindlesTail, QuietSole
<1>5. \A k \in DOMAIN links : ms[k].server = links[k].server
  BY <1>2, <1>3 DEF SoleChange
<1> QED
  BY <1>2, <1>3, <1>4, <1>5 DEF l, ms

ServerGone(ls, l) == [ls EXCEPT ![l].server = "closed", ![l].up = <<>>]

LEMMA SettleQuiet ==
  ASSUME NEW ls \in Seq(Link), NEW l \in DOMAIN ls
  PROVE  /\ Quiet(ls, ServerGone(ls, l), {}) /\ SoleChange(ls, ServerGone(ls, l), l)
         /\ ServerGone(ls, l)[l].down = ls[l].down /\ ServerGone(ls, l)[l].server = "closed"
         /\ \A k \in DOMAIN ls \ {l} : ServerGone(ls, l)[k].server = ls[k].server
<1> DEFINE x == [ls[l] EXCEPT !.server = "closed", !.up = <<>>]
           ms == ServerGone(ls, l)
<1>1. ls[l] \in Link /\ <<>> \in Seq(Upward)
  OBVIOUS
<1>2. x \in Link /\ x.resumes = ls[l].resumes /\ x.up = <<>> /\ x.down = ls[l].down
      /\ x.server = "closed"
  BY <1>1 DEF Link
<1>3. ms = [ls EXCEPT ![l] = x]
  BY DEF ServerGone
<1> HIDE DEF x, ms
<1>4. SoleChange(ls, ms, l) /\ ms[l] = x
  BY <1>2, <1>3, ExceptLink
<1>5. \A op : ~Has(x.up, op)
  BY <1>2 DEF Has
<1>6. Quiet(ls, ms, {})
  BY <1>2, <1>4, <1>5, DwindlesSame, QuietSole
<1>7. \A k \in DOMAIN ls \ {l} : ms[k].server = ls[k].server
  BY <1>4 DEF SoleChange
<1> QED
  BY <1>2, <1>4, <1>6, <1>7 DEF ms

LEMMA ReadQuiet ==
  ASSUME links \in Seq(Link), NEW l \in DOMAIN links, links[l].up # <<>>
  PROVE  /\ Quiet(links, Read(l), {}) /\ SoleChange(links, Read(l), l)
         /\ \A k \in DOMAIN links : /\ Read(l)[k].down = links[k].down
                                    /\ Read(l)[k].server = links[k].server
                                    /\ Read(l)[k].cut = links[k].cut
<1> DEFINE ms == Read(l)
<1>1. links[l] \in Link /\ links[l].up \in Seq(Upward)
  BY LinkAt
<1>2. SoleChange(links, ms, l) /\ ms[l] = [links[l] EXCEPT !.up = Tail(links[l].up)]
  BY ReadIs DEF Read
<1> HIDE DEF ms
<1>3. /\ ms[l].down = links[l].down /\ ms[l].up = Tail(links[l].up)
      /\ ms[l].server = links[l].server /\ ms[l].cut = links[l].cut
  BY <1>1, <1>2 DEF Link
<1>4. \A op : Has(Tail(links[l].up), op) => Has(links[l].up, op)
  BY <1>1, HasTail
<1>5. Quiet(links, ms, {})
  BY <1>2, <1>3, <1>4, DwindlesSame, QuietSole
<1>6. \A k \in DOMAIN links : /\ ms[k].down = links[k].down /\ ms[k].server = links[k].server
                              /\ ms[k].cut = links[k].cut
  BY <1>2, <1>3 DEF SoleChange
<1> QED
  BY <1>2, <1>5, <1>6 DEF ms

LEMMA BreaksQuiet ==
  ASSUME links \in Seq(Link), NEW l \in DOMAIN links, Breaks(l)
  PROVE  /\ Quiet(links, links', {}) /\ SoleChange(links, links', l)
         /\ \A k \in DOMAIN links :
              links'[k].server = links[k].server
              \/ (k = l /\ links[k].server = "none" /\ links'[k].server = "closed")
<1> DEFINE y == Broken(links[l])
<1>1. SoleChange(links, links', l) /\ links'[l] = y
  BY BreaksIs
<1>2. links[l] \in Link /\ links[l].down \in Seq(Downward)
  BY LinkAt
<1>3. /\ y.down = <<Control("close")>> /\ y.up \in {<<>>, <<"gone">>}
      /\ y.server = (IF links[l].server = "none" THEN "closed" ELSE links[l].server)
  BY <1>2 DEF Broken, Link
<1> HIDE DEF y
<1>4. \A op \in {"prepare", "cancel"} : ~Has(y.up, op)
  BY <1>3 DEF Has
<1>5. Dwindles(links[l].down, y.down)
  BY <1>2, <1>3, EndFrames, DwindlesEnd
<1>6. Quiet(links, links', {})
  BY <1>1, <1>4, <1>5, QuietSole
<1> QED
  BY <1>1, <1>3, <1>6 DEF SoleChange

LEMMA CancelAskedQuiet ==
  ASSUME BaseInv, NEW ls \in Seq(Link), Len(ls) = Len(links)
  PROVE  /\ Quiet(ls, CancelAsked(ls), {<<panes[u].link, "cancel">> : u \in transfer.from})
         /\ \A k \in DOMAIN ls : /\ CancelAsked(ls)[k].down = ls[k].down
                                 /\ CancelAsked(ls)[k].server = ls[k].server
<1> DEFINE sources == {w \in transfer.from : panes[w].tab /\ PaneOpen(w)}
           v == CHOOSE w \in sources : TRUE
           A == {<<panes[u].link, "cancel">> : u \in transfer.from}
<1>1. CASE sources = {}
  <2>1. CancelAsked(ls) = ls
    BY <1>1 DEF CancelAsked
  <2> QED
    BY <2>1, QuietSame
<1>2. CASE sources # {}
  <2>1. v \in transfer.from
    BY <1>2
  <2>2. CancelAsked(ls) = Ask(ls, panes[v].link, "cancel")
    BY <1>2 DEF CancelAsked
  <2> HIDE DEF v
  <2>3. v \in Windows /\ panes[v].link \in 0..Len(ls) /\ "cancel" \in Upward
    BY <2>1, Basics, Parts DEF Upward
  <2>4. {<<panes[v].link, "cancel">>} \subseteq A
    BY <2>1
  <2> HIDE DEF A
  <2>5. Quiet(ls, Ask(ls, panes[v].link, "cancel"), {<<panes[v].link, "cancel">>})
    BY <2>3, AskQuiet
  <2>6. Quiet(ls, CancelAsked(ls), A)
    BY <2>2, <2>4, <2>5, QuietMore
  <2>7. \A k \in DOMAIN ls : /\ Ask(ls, panes[v].link, "cancel")[k].down = ls[k].down
                            /\ Ask(ls, panes[v].link, "cancel")[k].server = ls[k].server
    BY <2>3, AskQuiet
  <2> QED
    BY <2>2, <2>6, <2>7 DEF A
<1> QED
  BY <1>1, <1>2

LEMMA AnsweredQuiet ==
  ASSUME NEW ls \in Seq(Link), NEW l \in DOMAIN ls
  PROVE  /\ Quiet(ls, Answered(ls, l), {}) /\ SoleChange(ls, Answered(ls, l), l)
         /\ Answered(ls, l)[l].down = ls[l].down
         /\ \A k \in DOMAIN ls :
              \/ Answered(ls, l)[k].server = ls[k].server
              \/ ls[k].server = "closing" /\ Answered(ls, l)[k].server = "closed"
<1>1. CASE ls[l].server # "closing"
  <2>1. Answered(ls, l) = ls
    BY <1>1 DEF Answered
  <2> QED
    BY <2>1, QuietSame DEF SoleChange
<1>2. CASE ls[l].server = "closing"
  <2>1. Answered(ls, l) = ServerGone(ls, l)
    BY <1>2 DEF Answered, ServerGone
  <2>2. /\ Quiet(ls, Answered(ls, l), {}) /\ SoleChange(ls, Answered(ls, l), l)
        /\ Answered(ls, l)[l].down = ls[l].down /\ Answered(ls, l)[l].server = "closed"
        /\ \A k \in DOMAIN ls \ {l} : Answered(ls, l)[k].server = ls[k].server
    BY <2>1, SettleQuiet
  <2> QED
    BY <1>2, <2>2
<1> QED
  BY <1>1, <1>2

\* What the end of a session sends to its page.
LEMMA SendQuiet ==
  ASSUME NEW ls \in Seq(Link), NEW l \in DOMAIN ls, NEW f \in Seq(Downward),
         Outputs(f) = {}, ~HasFrame(f, "ready")
  PROVE  /\ Quiet(ls, Send(ls, l, f), {}) /\ SoleChange(ls, Send(ls, l, f), l)
         /\ \A k \in DOMAIN ls : Chunks(Send(ls, l, f)[k].down) = Chunks(ls[k].down)
<1> DEFINE ms == Send(ls, l, f)
<1>1. SoleChange(ls, ms, l) /\ ms[l] = Sent(ls[l], f)
  BY SendIs
<1>2. ls[l] \in Link /\ ls[l].down \in Seq(Downward)
  BY LinkAt
<1> HIDE DEF ms
<1>3. ms[l].down \in {ls[l].down, ls[l].down \o f} /\ ms[l].up = ls[l].up
  BY <1>1, <1>2 DEF Sent, Link
<1>4. /\ Dwindles(ls[l].down, ms[l].down) /\ Chunks(ms[l].down) = Chunks(ls[l].down)
  BY <1>2, <1>3, DwindlesEnd, DwindlesSame
<1>5. Quiet(ls, ms, {})
  BY <1>1, <1>3, <1>4, QuietSole
<1>6. \A k \in DOMAIN ls : Chunks(ms[k].down) = Chunks(ls[k].down)
  BY <1>1, <1>4 DEF SoleChange
<1> QED
  BY <1>1, <1>5, <1>6 DEF ms

LEMMA ServerClosesQuiet ==
  ASSUME NEW ls \in Seq(Link), NEW l \in DOMAIN ls
  PROVE  /\ Quiet(ls, ServerCloses(ls, l), {}) /\ SoleChange(ls, ServerCloses(ls, l), l)
         /\ \A k \in DOMAIN ls : Chunks(ServerCloses(ls, l)[k].down) = Chunks(ls[k].down)
<1> DEFINE ms == ServerCloses(ls, l)
           f == <<Control("close")>>
<1>1. SoleChange(ls, ms, l) /\ ms[l] = Closing(ls[l])
  BY ServerClosesIs
<1>2. ls[l] \in Link /\ ls[l].down \in Seq(Downward)
  BY LinkAt
<1> HIDE DEF ms
<1>3. ms[l].down \in {ls[l].down, ls[l].down \o f} /\ ms[l].up = ls[l].up
  <2>1. /\ Sent(ls[l], f) \in Link /\ Sent(ls[l], f).up = ls[l].up
        /\ Sent(ls[l], f).down \in {ls[l].down, ls[l].down \o f}
    <3>1. f \in Seq(Downward)
      BY EndFrames
    <3>2. ls[l].down \o f \in Seq(Downward)
      BY <1>2, <3>1
    <3> HIDE DEF f
    <3> QED
      BY <1>2, <3>2 DEF Sent, Link
  <2>2. Closing(ls[l]) = ls[l] \/ Closing(ls[l]) = [Sent(ls[l], f) EXCEPT !.server = "closing"]
    BY DEF Closing
  <2> HIDE DEF f
  <2>3. CASE Closing(ls[l]) = ls[l]
    BY <1>1, <2>3
  <2>4. CASE Closing(ls[l]) = [Sent(ls[l], f) EXCEPT !.server = "closing"]
    BY <1>1, <2>1, <2>4 DEF Link
  <2> QED
    BY <2>2, <2>3, <2>4
<1>4. f \in Seq(Downward) /\ Outputs(f) = {} /\ ~HasFrame(f, "ready")
  BY EndFrames
<1> HIDE DEF f
<1>5. /\ Dwindles(ls[l].down, ms[l].down) /\ Chunks(ms[l].down) = Chunks(ls[l].down)
  BY <1>2, <1>3, <1>4, DwindlesEnd, DwindlesSame
<1>6. Quiet(ls, ms, {})
  BY <1>1, <1>3, <1>5, QuietSole
<1>7. \A k \in DOMAIN ls : Chunks(ms[k].down) = Chunks(ls[k].down)
  BY <1>1, <1>5 DEF SoleChange
<1> QED
  BY <1>1, <1>6, <1>7 DEF ms

LEMMA CloseFacadeQuiet ==
  ASSUME BaseInv, facade.current # 0, NEW f \in Seq(Downward),
         Outputs(f) = {}, ~HasFrame(f, "ready")
  PROVE  Quiet(links, CloseFacade(f), {})
<1>1. links \in Seq(Link) /\ facade.current \in DOMAIN links
  BY Basics
<1> DEFINE ms == IF CurrentOpen THEN Send(links, facade.current, f) ELSE links
<1>2. Quiet(links, ms, {}) /\ ms \in Seq(Link) /\ DOMAIN ms = DOMAIN links
  BY <1>1, SendQuiet, QuietSame DEF SoleChange
<1> HIDE DEF ms
<1>3. Quiet(ms, ServerCloses(ms, facade.current), {})
  BY <1>1, <1>2, ServerClosesQuiet
<1>4. Quiet(links, ServerCloses(ms, facade.current), {} \cup {})
  BY <1>2, <1>3, QuietTrans
<1>5. {} \cup {} = {}
  OBVIOUS
<1>6. Quiet(links, ServerCloses(ms, facade.current), {})
  BY <1>4, <1>5, QuietMore
<1> QED
  BY <1>6, QuietSame DEF CloseFacade, ms

-----------------------------------------------------------------------------
(* A step that adds no output keeps what is said of it                     *)

\* What the panes show, now or once they are reloaded.
Screens == {<<>>} \cup {panes[w].screen : w \in Windows} \cup {panes[w].saved : w \in Windows}

Stays(w) ==
  /\ panes'[w].link = panes[w].link /\ panes'[w].screen = panes[w].screen
  /\ panes'[w].after = panes[w].after

\* A pane that has a connection is as it was, or has just been reloaded.
PanesShow ==
  \A w \in Windows :
    /\ panes'[w].screen \in Screens /\ panes'[w].saved \in Screens
    /\ panes'[w].link # 0 =>
         Stays(w) \/ (panes'[w].link \notin DOMAIN links /\ panes'[w].after = 0)

PreparesLess == \A w \in Windows : panes'[w].preparing => panes[w].preparing

PanesStay == PanesShow /\ PreparesLess

FacadeStays ==
  /\ facade'.current = facade.current /\ facade'.closed = facade.closed
  /\ facade'.buffer = facade.buffer /\ facade'.buffering = facade.buffering
  /\ shell'.made = shell.made

LEMMA EmptyRange ==
  Range(<<>>) = {} /\ Ascending(<<>>) /\ Chunks(<<>>) = {} /\ InOrder(<<>>)
  BY DEF Range, Ascending, Chunks, InOrder, Outputs

\* What OrderInv says of a screen.
Ordered(s) ==
  Ascending(s) /\ Range(s) \subseteq 1..shell.made /\ Before(Range(s), Range(facade.buffer))

LEMMA ScreensOrdered ==
  ASSUME OrderInv
  PROVE  \A s \in Screens : Ordered(s)
<1>1. Ordered(<<>>)
  BY EmptyRange DEF Ordered, Before
<1>2. \A w \in Windows : Ordered(panes[w].screen) /\ Ordered(panes[w].saved)
  BY DEF OrderInv, Ordered, Before
<1> QED
  BY <1>1, <1>2 DEF Screens

LEMMA OrderStep ==
  ASSUME OrderInv, shell'.made = shell.made, facade'.buffer \in {<<>>, facade.buffer},
         \A k \in DOMAIN links : /\ InOrder(links'[k].down)
                                 /\ Chunks(links'[k].down) \subseteq Chunks(links[k].down),
         \A k \in DOMAIN links' \ DOMAIN links : links'[k].down = <<>>,
         \A w \in Windows :
           /\ panes'[w].screen \in Screens /\ panes'[w].saved \in Screens
           /\ panes'[w].link # 0 =>
                /\ panes'[w].link \in DOMAIN links'
                /\ \/ panes'[w].link = panes[w].link /\ panes'[w].screen = panes[w].screen
                   \/ panes'[w].link \notin DOMAIN links
  PROVE  OrderInv'
<1>1. /\ Ascending(facade'.buffer) /\ Range(facade'.buffer) \subseteq 1..shell.made
      /\ Range(facade'.buffer) \subseteq Range(facade.buffer)
  BY EmptyRange DEF OrderInv
<1>2. ASSUME NEW w \in Windows
      PROVE  /\ Ascending(panes'[w].screen) /\ Ascending(panes'[w].saved)
             /\ Range(panes'[w].screen) \cup Range(panes'[w].saved) \subseteq 1..shell.made
             /\ Before(Range(panes'[w].screen) \cup Range(panes'[w].saved), Range(facade'.buffer))
  <2>1. Ordered(panes'[w].screen) /\ Ordered(panes'[w].saved)
    BY ScreensOrdered
  <2> QED
    BY <1>1, <2>1 DEF Ordered, Before
<1>3. ASSUME NEW w \in Windows, panes'[w].link # 0
      PROVE  Before(Range(panes'[w].screen), Chunks(links'[panes'[w].link].down))
  <2> DEFINE l == panes'[w].link
  <2>1. CASE l \in DOMAIN links
    <3>1. panes'[w].link = panes[w].link /\ panes'[w].screen = panes[w].screen
      BY <1>3, <2>1
    <3>2. Before(Range(panes[w].screen), Chunks(links[l].down))
      BY <1>3, <3>1 DEF OrderInv
    <3>3. Chunks(links'[l].down) \subseteq Chunks(links[l].down)
      BY <2>1
    <3> QED
      BY <3>1, <3>2, <3>3 DEF Before
  <2>2. CASE l \notin DOMAIN links
    <3>1. links'[l].down = <<>>
      BY <1>3, <2>2
    <3> QED
      BY <3>1, EmptyRange DEF Before
  <2> QED
    BY <2>1, <2>2
<1>4. ASSUME NEW l \in DOMAIN links'
      PROVE  /\ InOrder(links'[l].down) /\ Chunks(links'[l].down) \subseteq 1..shell.made
             /\ Before(Chunks(links'[l].down), Range(facade'.buffer))
  <2>1. CASE l \in DOMAIN links
    <3>1. /\ InOrder(links[l].down) /\ Chunks(links[l].down) \subseteq 1..shell.made
          /\ Before(Chunks(links[l].down), Range(facade.buffer))
      BY <2>1 DEF OrderInv
    <3>2. InOrder(links'[l].down) /\ Chunks(links'[l].down) \subseteq Chunks(links[l].down)
      BY <2>1
    <3> QED
      BY <1>1, <3>1, <3>2 DEF Before
  <2>2. CASE l \notin DOMAIN links
    <3>1. links'[l].down = <<>>
      BY <2>2
    <3> QED
      BY <3>1, EmptyRange DEF Before
  <2> QED
    BY <2>1, <2>2
<1> QED
  BY <1>1, <1>2, <1>3, <1>4 DEF OrderInv

TokenStays ==
  /\ transfer'.id = transfer.id /\ transfer'.from \subseteq transfer.from
  /\ transfer'.claim \subseteq transfer.claim
  /\ transfer.claimed => transfer'.claimed

\* What is asked of the server belongs to the transfer that is under way.
AsksInTime(A) ==
  /\ A # {} => transfer'.claimed \/ transfer'.from = {}
  /\ (\E k \in DOMAIN links : <<k, "cancel">> \in A) => transfer'.claim = {}

\* Who has not come yet is still waited for.
WaitStays(A) ==
  \A v \in Windows : Waiting(v) /\ Waiting(v)' =>
    /\ <<facade.current, "cancel">> \notin A
    /\ \A w \in transfer.from :
         (/\ panes[w].link = facade.current /\ panes'[w].link = facade.current
          /\ Adopting(v) /\ ~panes[w].preparing)
            => w \in transfer'.from /\ Adopting(v)'

\* The server holds on to what it holds.
HoldStays ==
  /\ facade.detached => facade'.detached
  /\ \A k \in DOMAIN links : links'[k].server = "none" => links[k].server = "none"
  /\ (/\ ~facade.closed /\ facade.current # 0
      /\ links[facade.current].server = "open")
       => links'[facade.current].server = "open" \/ facade'.detached

\* What leaves the current connection unseen is lost.
LossKnown ==
  /\ lost \subseteq lost'
  /\ facade.current # 0 /\ (\E w \in Windows : panes'[w].link = facade.current)
       => Chunks(links[facade.current].down) \subseteq
            Chunks(links'[facade.current].down) \cup lost'

LEMMA HeldStep ==
  ASSUME HeldInv, FacadeStays, HoldStays
  PROVE  HeldInv'
  BY DEF HeldInv, FacadeStays, HoldStays

LEMMA ArrivedStep ==
  ASSUME BaseInv, ArrivedInv, FacadeStays, PreparesLess, TokenStays, NEW A, Quiet(links, links', A),
         AsksInTime(A)
  PROVE  ArrivedInv'
<1>1. links \in Seq(Link) /\ (facade.current # 0 => facade.current \in DOMAIN links)
  BY Basics
<1>2. ASSUME ~transfer'.claimed, transfer'.from # {}, NEW l \in DOMAIN links'
      PROVE  /\ ~Has(links'[l].up, "prepare") /\ ~Has(links'[l].up, "cancel")
             /\ ~HasFrame(links'[l].down, "ready")
  <2>1. Arrived /\ A = {}
    BY <1>2 DEF ArrivedInv, TokenStays, AsksInTime
  <2>2. CASE l \in DOMAIN links
    BY <2>1, <2>2 DEF Arrived, Quiet, Dwindles
  <2>3. CASE l \notin DOMAIN links
    <3>1. links'[l].up = <<>> /\ links'[l].down = <<>>
      BY <1>2, <2>3 DEF Quiet
    <3> QED
      BY <3>1 DEF Has, HasFrame
  <2> QED
    BY <2>2, <2>3
<1>3. ASSUME Preparing', transfer'.claim # {}
      PROVE  /\ \A l \in DOMAIN links' : ~Has(links'[l].up, "cancel")
             /\ (/\ facade'.current # 0 /\ ~facade'.closed
                 /\ HasFrame(links'[facade'.current].down, "ready"))
                  => facade'.buffering /\ Settled(links'[facade'.current].down)
  <2>1. Preparing /\ transfer.claim # {}
    BY <1>3 DEF Preparing, PreparesLess, TokenStays
  <2>2. /\ \A l \in DOMAIN links : ~Has(links[l].up, "cancel")
        /\ (/\ facade.current # 0 /\ ~facade.closed
            /\ HasFrame(links[facade.current].down, "ready"))
             => facade.buffering /\ Settled(links[facade.current].down)
    BY <2>1 DEF ArrivedInv
  <2>3. ASSUME NEW l \in DOMAIN links'
        PROVE  ~Has(links'[l].up, "cancel")
    <3>1. CASE l \in DOMAIN links
      <4>1. <<l, "cancel">> \notin A
        BY <1>3, <3>1 DEF AsksInTime
      <4> QED
        BY <2>2, <3>1, <4>1 DEF Quiet
    <3>2. CASE l \notin DOMAIN links
      <4>1. links'[l].up = <<>>
        BY <2>3, <3>2 DEF Quiet
      <4> QED
        BY <4>1 DEF Has
    <3> QED
      BY <3>1, <3>2
  <2>4. ASSUME facade'.current # 0, ~facade'.closed,
               HasFrame(links'[facade'.current].down, "ready")
        PROVE  facade'.buffering /\ Settled(links'[facade'.current].down)
    <3>1. facade.current \in DOMAIN links /\ ~facade.closed /\ facade'.current = facade.current
      BY <1>1, <2>4 DEF FacadeStays
    <3>2. Dwindles(links[facade.current].down, links'[facade.current].down)
      BY <3>1 DEF Quiet
    <3>3. facade.buffering /\ Settled(links[facade.current].down)
      BY <2>2, <2>4, <3>1, <3>2 DEF Dwindles, FacadeStays
    <3> QED
      BY <3>1, <3>2, <3>3 DEF Dwindles, FacadeStays
  <2> QED
    BY <2>3, <2>4
<1> QED
  BY <1>2, <1>3 DEF ArrivedInv, Arrived

\* A pane that is attached afterwards was so before, and so for one that waits.
LEMMA StaysAttached ==
  ASSUME BaseInv, FacadeStays, PanesShow, HoldStays, facade.current # 0, NEW w \in Windows
  PROVE  /\ panes'[w].link = facade.current => Stays(w) /\ panes[w].link = facade.current
         /\ panes'[w].link \in DOMAIN links \cup {0} /\ Waiting(w)' => Waiting(w) /\ Stays(w)
<1>1. facade.current \in DOMAIN links
  BY Basics
<1>2. panes'[w].link = facade.current => Stays(w) /\ panes[w].link = facade.current
  BY <1>1 DEF PanesShow, Stays
<1>3. panes'[w].link \in DOMAIN links \cup {0} /\ Waiting(w)' => Waiting(w) /\ Stays(w)
  <2> SUFFICES ASSUME panes'[w].link \in DOMAIN links \cup {0}, Waiting(w)'
               PROVE  Waiting(w) /\ Stays(w)
    OBVIOUS
  <2>1. panes'[w].link # 0 /\ links'[panes'[w].link].server = "none" /\ panes'[w].after # 0
        /\ panes'[w].after = facade.current
    BY DEF Waiting, FacadeStays
  <2>2. Stays(w) /\ panes'[w].link \in DOMAIN links
    BY <2>1 DEF PanesShow
  <2> QED
    BY <2>1, <2>2 DEF Waiting, Stays, HoldStays
<1> QED
  BY <1>2, <1>3

LEMMA WaitingStays ==
  ASSUME BaseInv, FacadeStays, PanesShow, HoldStays, NEW v \in Windows, Waiting(v)'
  PROVE  Waiting(v) /\ Stays(v) /\ facade.current # 0 /\ facade'.current = facade.current
<1>1. panes'[v].link # 0 /\ panes'[v].after # 0 /\ panes'[v].after = facade.current
  BY DEF Waiting, FacadeStays
<1>2. Stays(v)
  BY <1>1 DEF PanesShow
<1>3. panes'[v].link \in DOMAIN links
  BY <1>1, <1>2, Basics DEF Stays
<1> QED
  BY <1>1, <1>2, <1>3, StaysAttached DEF FacadeStays

LEMMA WaitingStep ==
  ASSUME BaseInv, WaitingInv, FacadeStays, PanesShow, PreparesLess, HoldStays, NEW A, WaitStays(A)
  PROVE  WaitingInv'
<1> SUFFICES ASSUME NEW v \in Windows, NEW w \in Windows, Waiting(v)',
                    panes'[w].link = facade'.current
             PROVE  w \in transfer'.from /\ Adopting(v)' /\ ~panes'[w].preparing
  BY DEF WaitingInv
<1>1. Waiting(v) /\ facade.current # 0 /\ facade'.current = facade.current
  BY WaitingStays
<1>2. panes[w].link = facade.current
  BY <1>1, StaysAttached
<1>3. w \in transfer.from /\ Adopting(v) /\ ~panes[w].preparing
  BY <1>1, <1>2 DEF WaitingInv
<1> QED
  BY <1>1, <1>2, <1>3 DEF WaitStays, PreparesLess

LEMMA CoverStep ==
  ASSUME BaseInv, CoverInv, FacadeStays, PanesShow, HoldStays, LossKnown,
         NEW A, Quiet(links, links', A), WaitStays(A)
  PROVE  CoverInv'
<1> SUFFICES ASSUME ~facade'.closed, facade'.current # 0, NEW w \in Windows
             PROVE  /\ panes'[w].link = facade'.current =>
                         1..shell'.made \subseteq
                           Range(panes'[w].screen) \cup Chunks(links'[facade'.current].down)
                             \cup Range(facade'.buffer) \cup lost'
                    /\ Waiting(w)' =>
                         /\ facade'.buffering
                         /\ ~Has(links'[facade'.current].up, "cancel")
                         /\ 1..shell'.made \subseteq
                              Range(panes'[w].screen) \cup Range(facade'.buffer) \cup lost'
  BY DEF CoverInv
<1>1. ~facade.closed /\ facade.current # 0 /\ facade.current \in DOMAIN links
  BY Basics DEF FacadeStays
<1>2. ASSUME panes'[w].link = facade'.current
      PROVE  1..shell'.made \subseteq
               Range(panes'[w].screen) \cup Chunks(links'[facade'.current].down)
                 \cup Range(facade'.buffer) \cup lost'
  <2>1. panes'[w].link = facade.current
    BY <1>2 DEF FacadeStays
  <2>2. Stays(w) /\ panes[w].link = facade.current
    BY <1>1, <2>1, StaysAttached
  <2>3. 1..shell.made \subseteq Range(panes[w].screen) \cup Chunks(links[facade.current].down)
                                  \cup Range(facade.buffer) \cup lost
    BY <1>1, <2>2 DEF CoverInv
  <2>4. /\ Chunks(links[facade.current].down) \subseteq
             Chunks(links'[facade.current].down) \cup lost'
        /\ lost \subseteq lost'
    BY <1>1, <2>1 DEF LossKnown
  <2>5. /\ panes'[w].screen = panes[w].screen /\ facade'.buffer = facade.buffer
        /\ shell'.made = shell.made /\ facade'.current = facade.current
    BY <2>2 DEF Stays, FacadeStays
  <2> QED
    BY <2>3, <2>4, <2>5
<1>3. ASSUME Waiting(w)'
      PROVE  /\ facade'.buffering
             /\ ~Has(links'[facade'.current].up, "cancel")
             /\ 1..shell'.made \subseteq
                  Range(panes'[w].screen) \cup Range(facade'.buffer) \cup lost'
  <2>1. Waiting(w) /\ Stays(w)
    BY <1>3, WaitingStays
  <2>2. /\ facade.buffering /\ ~Has(links[facade.current].up, "cancel")
        /\ 1..shell.made \subseteq Range(panes[w].screen) \cup Range(facade.buffer) \cup lost
    BY <1>1, <2>1 DEF CoverInv
  <2>3. <<facade.current, "cancel">> \notin A
    BY <1>3, <2>1 DEF WaitStays
  <2>4. ~Has(links'[facade.current].up, "cancel")
    BY <1>1, <2>2, <2>3 DEF Quiet
  <2>5. /\ panes'[w].screen = panes[w].screen /\ facade'.buffer = facade.buffer
        /\ facade'.buffering = facade.buffering
        /\ shell'.made = shell.made /\ facade'.current = facade.current /\ lost \subseteq lost'
    BY <2>1 DEF Stays, FacadeStays, LossKnown
  <2> QED
    BY <2>2, <2>4, <2>5
<1> QED
  BY <1>2, <1>3

\* The whole, for a step that leaves the facade and the panes at work.
LEMMA Kept ==
  ASSUME BaseInv, BaseInv', OutInv, FacadeStays, HoldStays, PanesStay, TokenStays, LossKnown,
         NEW A, Quiet(links, links', A), AsksInTime(A), WaitStays(A)
  PROVE  OutInv'
<1>1. OrderInv'
  <2>1. \A w \in Windows : panes'[w].link # 0 => panes'[w].link \in DOMAIN links'
    <3> SUFFICES ASSUME NEW w \in Windows, panes'[w].link # 0
                 PROVE  panes'[w].link \in DOMAIN links'
      OBVIOUS
    <3>1. links' \in Seq(Link) /\ panes'[w].link \in Nat /\ panes'[w].link <= Len(links')
      BY DEF BaseInv, TypeOK, Pane
    <3> QED
      BY <3>1
  <2>2. /\ \A k \in DOMAIN links : /\ InOrder(links'[k].down)
                                   /\ Chunks(links'[k].down) \subseteq Chunks(links[k].down)
        /\ \A k \in DOMAIN links' \ DOMAIN links : links'[k].down = <<>>
    BY DEF Quiet, Dwindles, OutInv, OrderInv
  <2>3. \A w \in Windows :
          /\ panes'[w].screen \in Screens /\ panes'[w].saved \in Screens
          /\ panes'[w].link # 0 =>
               \/ panes'[w].link = panes[w].link /\ panes'[w].screen = panes[w].screen
               \/ panes'[w].link \notin DOMAIN links
    BY DEF PanesStay, PanesShow, Stays
  <2> QED
    BY <2>1, <2>2, <2>3, OrderStep DEF OutInv, FacadeStays
<1> QED
  BY <1>1, HeldStep, ArrivedStep, WaitingStep, CoverStep DEF OutInv, PanesStay

-----------------------------------------------------------------------------
(* The server's steps that only read, forget or cut                        *)

LEMMA ServerKept ==
  ASSUME BaseInv, BaseInv', OutInv, UNCHANGED <<panes, transfer>>, FacadeStays, HoldStays,
         LossKnown, Quiet(links, links', {})
  PROVE  OutInv'
<1>1. PanesStay
  BY DEF PanesStay, PanesShow, PreparesLess, Stays, Screens
<1>2. TokenStays /\ AsksInTime({})
  BY DEF TokenStays, AsksInTime
<1>3. \A v \in Windows : Adopting(v) => Adopting(v)'
  BY DEF Adopting
<1>4. WaitStays({})
  BY <1>3 DEF WaitStays
<1> QED
  BY <1>1, <1>2, <1>4, Kept

\* One connection changes, and no output on it.
LEMMA SoleKept ==
  ASSUME BaseInv, NEW ms, NEW l, SoleChange(links, ms, l), links' = ms, lost \subseteq lost',
         l \in DOMAIN links => Chunks(ms[l].down) = Chunks(links[l].down)
  PROVE  LossKnown
<1>1. facade.current # 0 => facade.current \in DOMAIN links
  BY Basics
<1> QED
  BY <1>1 DEF SoleChange, LossKnown

LEMMA ShellKept ==
  ASSUME BaseInv, BaseInv', OutInv, UNCHANGED <<facade, links, panes, transfer, lost>>,
         shell'.made = shell.made
  PROVE  OutInv'
<1>1. FacadeStays /\ HoldStays
  BY DEF FacadeStays, HoldStays
<1>2. LossKnown
  BY DEF LossKnown
<1>3. Quiet(links, links', {})
  BY QuietSame
<1> QED
  BY <1>1, <1>2, <1>3, ServerKept

LEMMA PodStartsOut ==
  ASSUME BaseInv, BaseInv', OutInv, PodStarts \/ Connected
  PROVE  OutInv'
<1>1. shell \in Shell
  BY Basics
<1>2. shell'.made = shell.made
  BY <1>1 DEF PodStarts, Connected, Shell
<1>3. UNCHANGED <<facade, links, panes, transfer, lost>>
  BY DEF PodStarts, Connected
<1> QED
  BY <1>2, <1>3, ShellKept

LEMMA AttachRefusedOut ==
  ASSUME BaseInv, BaseInv', OutInv, NEW l \in DOMAIN links, AttachRefused(l)
  PROVE  OutInv'
<1> DEFINE f == <<Control("exit"), Control("close")>>
           ms == Send(links, l, f)
<1>1. links \in Seq(Link) /\ f \in Seq(Downward) /\ Outputs(f) = {} /\ ~HasFrame(f, "ready")
  BY Basics, EndFrames
<1>2. UNCHANGED <<shell, facade, panes, transfer, lost, faults>>
      /\ links[l].server = "none" /\ links' = [ms EXCEPT ![l].server = "closing"]
  BY DEF AttachRefused, Arrives
<1> HIDE DEF f
<1>3. /\ Quiet(links, ms, {}) /\ SoleChange(links, ms, l)
      /\ Chunks(ms[l].down) = Chunks(links[l].down)
  BY <1>1, SendQuiet
<1> HIDE DEF ms
<1>4. ms \in Seq(Link) /\ l \in DOMAIN ms /\ DOMAIN ms = DOMAIN links
  BY <1>3 DEF SoleChange
<1>5. SoleChange(ms, links', l) /\ links'[l] = [ms[l] EXCEPT !.server = "closing"]
  BY <1>2, <1>4, AcceptOnward
<1>6. ms[l] \in Link
  BY <1>4
<1>7. links'[l].down = ms[l].down /\ links'[l].up = ms[l].up /\ links'[l].server = "closing"
  BY <1>5, <1>6 DEF Link
<1>8. Quiet(ms, links', {})
  BY <1>4, <1>5, <1>7, DwindlesSame, QuietSole
<1>9. Quiet(links, links', {})
  <2>1. Quiet(links, links', {} \cup {})
    BY <1>3, <1>4, <1>8, QuietTrans
  <2> QED
    BY <2>1, QuietMore
<1>10. SoleChange(links, links', l)
  BY <1>3, <1>5 DEF SoleChange
<1>11. LossKnown
  BY <1>2, <1>3, <1>7, <1>10, SoleKept
<1>12. FacadeStays
  BY <1>2 DEF FacadeStays
<1>13. HoldStays
  <2>1. l # facade.current /\ (facade.current # 0 => facade.current \in DOMAIN links)
    BY <1>2, Basics
  <2> QED
    BY <1>2, <1>7, <1>10, <2>1 DEF HoldStays, SoleChange
<1> QED
  BY <1>2, <1>9, <1>11, <1>12, <1>13, ServerKept

LEMMA ReadOut ==
  ASSUME BaseInv, BaseInv', OutInv, NEW l \in DOMAIN links, links[l].up # <<>>, links' = Read(l),
         UNCHANGED <<shell, facade, panes, transfer, lost>>
  PROVE  OutInv'
<1>1. links \in Seq(Link)
  BY Basics
<1>2. /\ Quiet(links, links', {}) /\ SoleChange(links, links', l)
      /\ \A k \in DOMAIN links : /\ links'[k].down = links[k].down
                                 /\ links'[k].server = links[k].server
  BY <1>1, ReadQuiet
<1>3. LossKnown
  BY <1>2, SoleKept
<1>4. facade.current # 0 => facade.current \in DOMAIN links
  BY Basics
<1>5. FacadeStays /\ HoldStays
  BY <1>2, <1>4 DEF FacadeStays, HoldStays
<1> QED
  BY <1>2, <1>3, <1>5, ServerKept

LEMMA GoneIs ==
  ASSUME BaseInv, NEW l \in DOMAIN links
  PROVE  /\ Quiet(links, Gone(l), {}) /\ SoleChange(links, Gone(l), l)
         /\ Gone(l)[l].down = links[l].down
         /\ \A k \in DOMAIN links : Gone(l)[k].server # "none" \/ links[k].server = "none"
         /\ \A k \in DOMAIN links \ {l} : Gone(l)[k].server = links[k].server
<1>1. links \in Seq(Link) /\ Gone(l) = ServerGone(links, l)
  BY Basics DEF Gone, ServerGone
<1>2. /\ Quiet(links, Gone(l), {}) /\ SoleChange(links, Gone(l), l)
      /\ Gone(l)[l].down = links[l].down
      /\ \A k \in DOMAIN links \ {l} : Gone(l)[k].server = links[k].server
  BY <1>1, SettleQuiet
<1>3. Gone(l)[l].server = "closed"
  <2>1. links[l] \in Link /\ Gone(l)[l] = [links[l] EXCEPT !.server = "closed", !.up = <<>>]
    BY <1>1 DEF Gone
  <2> QED
    BY <2>1 DEF Link
<1> QED
  BY <1>2, <1>3

LEMMA GoneOut ==
  ASSUME BaseInv, BaseInv', OutInv, NEW l \in DOMAIN links, links' = Gone(l),
         UNCHANGED <<shell, panes, transfer, lost>>,
         \/ facade' = [facade EXCEPT !.detached = TRUE, !.timer = TRUE]
         \/ facade' = facade /\ ~Bound(l)
  PROVE  OutInv'
<1>1. /\ Quiet(links, links', {}) /\ SoleChange(links, links', l)
      /\ links'[l].down = links[l].down
      /\ \A k \in DOMAIN links : links'[k].server # "none" \/ links[k].server = "none"
      /\ \A k \in DOMAIN links \ {l} : links'[k].server = links[k].server
  BY GoneIs
<1>2. LossKnown
  BY <1>1, SoleKept
<1>3. facade \in Facade
  BY Basics
<1>4. /\ FacadeStays /\ (facade.detached => facade'.detached)
      /\ facade'.detached \/ ~Bound(l)
  BY <1>3 DEF FacadeStays, Facade
<1>5. facade.current # 0 => facade.current \in DOMAIN links
  BY Basics
<1>6. HoldStays
  BY <1>1, <1>4, <1>5 DEF HoldStays, Bound
<1> QED
  BY <1>1, <1>2, <1>4, <1>6, ServerKept

LEMMA BreaksOut ==
  ASSUME BaseInv, BaseInv', OutInv, NEW l \in DOMAIN links, Breaks(l)
  PROVE  OutInv'
<1>1. UNCHANGED <<shell, facade, panes, transfer>> /\ lost' = lost \cup InFlight(l)
  BY DEF Breaks
<1>2. /\ Quiet(links, links', {}) /\ SoleChange(links, links', l)
      /\ \A k \in DOMAIN links :
           links'[k].server = links[k].server
           \/ (k = l /\ links[k].server = "none" /\ links'[k].server = "closed")
  BY Basics, BreaksQuiet
<1>3. facade.current # 0 => facade.current \in DOMAIN links
  BY Basics
<1>4. LossKnown
  <2>1. CASE l = facade.current
    BY <1>1, <2>1 DEF LossKnown, InFlight
  <2>2. CASE l # facade.current
    BY <1>1, <1>2, <1>3, <2>2 DEF LossKnown, SoleChange
  <2> QED
    BY <2>1, <2>2
<1>5. FacadeStays /\ HoldStays
  BY <1>1, <1>2, <1>3 DEF FacadeStays, HoldStays
<1> QED
  BY <1>1, <1>2, <1>4, <1>5, ServerKept

-----------------------------------------------------------------------------
(* The pages' steps                                                        *)

\* Only the answer to a close changes a connection's state on the server.
ServersStay ==
  \A k \in DOMAIN links :
    links'[k].server = links[k].server
    \/ (links[k].server = "closing" /\ links'[k].server = "closed")

LEMMA PageKept ==
  ASSUME BaseInv, BaseInv', OutInv, UNCHANGED <<shell, facade>>, ServersStay, PanesStay,
         TokenStays, LossKnown, NEW A, Quiet(links, links', A), AsksInTime(A), WaitStays(A)
  PROVE  OutInv'
<1>1. FacadeStays
  BY DEF FacadeStays
<1>2. facade.current # 0 => facade.current \in DOMAIN links
  BY Basics
<1>3. HoldStays
  BY <1>2 DEF HoldStays, ServersStay
<1> QED
  BY <1>1, <1>3, Kept

LEMMA WaitKeeps ==
  ASSUME BaseInv, transfer'.id = transfer.id, UNCHANGED <<shell, facade>>, NEW A,
         \A v \in Windows : Waiting(v) /\ panes'[v].link # 0 =>
           /\ panes'[v].transfer = panes[v].transfer
           /\ <<facade.current, "cancel">> \notin A
           /\ Adopting(v) =>
                \A u \in transfer.from :
                  (panes[u].link = facade.current /\ panes'[u].link = facade.current)
                    => u \in transfer'.from
  PROVE  WaitStays(A)
<1> SUFFICES ASSUME NEW v \in Windows, Waiting(v), Waiting(v)'
             PROVE  /\ <<facade.current, "cancel">> \notin A
                    /\ \A w \in transfer.from :
                         (/\ panes[w].link = facade.current /\ panes'[w].link = facade.current
                          /\ Adopting(v) /\ ~panes[w].preparing)
                            => w \in transfer'.from /\ Adopting(v)'
  BY DEF WaitStays
<1>1. panes'[v].link # 0
  BY DEF Waiting
<1>2. /\ panes'[v].transfer = panes[v].transfer
      /\ <<facade.current, "cancel">> \notin A
      /\ Adopting(v) =>
           \A u \in transfer.from :
             (panes[u].link = facade.current /\ panes'[u].link = facade.current)
               => u \in transfer'.from
  BY <1>1
<1>3. Adopting(v) => Adopting(v)'
  BY <1>2 DEF Adopting
<1> QED
  BY <1>2, <1>3

LEMMA OnePaneStays ==
  ASSUME BaseInv, NEW w \in Windows, NEW x, panes' = [panes EXCEPT ![w] = x],
         x.screen \in Screens, x.saved \in Screens, x.preparing => panes[w].preparing,
         x.link # 0 =>
           \/ x.link = panes[w].link /\ x.screen = panes[w].screen /\ x.after = panes[w].after
           \/ x.link \notin DOMAIN links /\ x.after = 0
  PROVE  PanesStay
<1>1. panes'[w] = x /\ \A v \in Windows \ {w} : panes'[v] = panes[v]
  BY OnePane
<1>2. \A v \in Windows : panes[v].screen \in Screens /\ panes[v].saved \in Screens
  BY DEF Screens
<1> QED
  BY <1>1, <1>2 DEF PanesStay, PanesShow, PreparesLess, Stays

\* A page's connection may go when its pane does.
LEMMA HungKnown ==
  ASSUME BaseInv, NEW ms, NEW l \in 0..Len(links), SoleChange(links, ms, l), DOMAIN links \subseteq DOMAIN links',
         \A k \in DOMAIN links : links'[k].down = ms[k].down, lost \subseteq lost',
         l = facade.current /\ l # 0 => \/ InFlight(l) \subseteq lost'
                                        \/ \A v \in Windows : panes'[v].link # l
  PROVE  LossKnown
<1>1. facade.current # 0 => facade.current \in DOMAIN links
  BY Basics
<1> QED
  BY <1>1 DEF SoleChange, LossKnown, InFlight

LEMMA NoScreen ==
  NoPane.screen \in Screens /\ NoPane.saved \in Screens
  BY DEF NoPane, Screens

LEMMA UnmountOut ==
  ASSUME BaseInv, BaseInv', OutInv, NEW w \in Windows, NEW op \in {"bye", "gone"},
         Unmount(w, op), panes' = [panes EXCEPT ![w] = NoPane], UNCHANGED <<shell, facade>>,
         TokenStays,
         \A u \in transfer.from \ {w} : u \in transfer'.from \/ ~\E v \in Windows : Adopting(v)
  PROVE  OutInv'
<1> DEFINE l == panes[w].link
<1>1. /\ links \in Seq(Link) /\ l \in 0..Len(links) /\ links' = Hang(links, l, op)
      /\ lost' = IF l = 0 THEN lost ELSE lost \cup InFlight(l)
  BY Basics DEF Unmount
<1> HIDE DEF l
<1>2. /\ Quiet(links, links', {}) /\ SoleChange(links, links', l)
      /\ \A k \in DOMAIN links : links'[k].server = links[k].server
  BY <1>1, HangQuiet
<1>3. LossKnown
  BY <1>1, <1>2, HungKnown DEF SoleChange
<1>4. PanesStay
  BY OnePaneStays, NoPaneIs, NoScreen
<1>5. ServersStay /\ AsksInTime({})
  BY <1>2 DEF ServersStay, AsksInTime
<1>6. panes'[w] = NoPane /\ \A v \in Windows \ {w} : panes'[v] = panes[v]
  BY OnePane
<1>7. ASSUME NEW v \in Windows, Waiting(v), panes'[v].link # 0
      PROVE  /\ panes'[v].transfer = panes[v].transfer
             /\ Adopting(v) =>
                  \A u \in transfer.from :
                    (panes[u].link = facade.current /\ panes'[u].link = facade.current)
                      => u \in transfer'.from
  <2>1. v # w /\ facade.current # 0
    BY <1>6, <1>7, NoPaneIs DEF Waiting
  <2>2. ASSUME Adopting(v), NEW u \in transfer.from, panes'[u].link = facade.current
        PROVE  u \in transfer'.from
    BY <1>6, <2>1, <2>2, NoPaneIs
  <2> QED
    BY <1>6, <2>1, <2>2
<1>8. WaitStays({})
  BY <1>7, WaitKeeps DEF TokenStays
<1> QED
  BY <1>2, <1>3, <1>4, <1>5, <1>8, PageKept

LEMMA ClaimDeadOut ==
  ASSUME BaseInv, BaseInv', TransferInv, OutInv, NEW v \in Windows, ClaimDead(v)
  PROVE  OutInv'
<1>1. PICK w \in transfer.from : /\ Unmount(w, "bye") /\ panes' = [panes EXCEPT ![w] = NoPane]
                                 /\ UNCHANGED <<shell, facade>>
                                 /\ transfer' = [transfer EXCEPT !.claimed = TRUE, !.from = {}]
                                 /\ ~transfer.claimed
  BY DEF ClaimDead
<1>2. w \in Windows
  BY Parts, Basics
<1>3. /\ transfer'.id = transfer.id /\ transfer'.from = {}
      /\ transfer'.claim = transfer.claim /\ transfer'.claimed
  BY <1>1, TransferFields
<1>4. TokenStays
  BY <1>3 DEF TokenStays
<1>5. ~\E u \in Windows : Adopting(u)
  BY <1>1 DEF TransferInv
<1> QED
  BY <1>1, <1>2, <1>4, <1>5, UnmountOut

LEMMA CloseTabOut ==
  ASSUME BaseInv, BaseInv', OutInv, NEW w \in Windows, CloseTab(w)
  PROVE  OutInv'
<1>1. /\ Unmount(w, "bye") /\ panes' = [panes EXCEPT ![w] = NoPane]
      /\ UNCHANGED <<shell, facade>>
      /\ transfer' \in {transfer, [transfer EXCEPT !.claim = {}]}
  BY DEF CloseTab
<1>2. /\ transfer'.id = transfer.id /\ transfer'.from = transfer.from
      /\ transfer'.claim \subseteq transfer.claim /\ transfer'.claimed = transfer.claimed
  <2>1. CASE transfer' = transfer
    BY <2>1
  <2>2. CASE transfer' = [transfer EXCEPT !.claim = {}]
    BY <2>2, TransferFields
  <2> QED
    BY <1>1, <2>1, <2>2
<1>3. TokenStays
  BY <1>2 DEF TokenStays
<1> QED
  BY <1>1, <1>2, <1>3, UnmountOut

LEMMA WindowGoneOut ==
  ASSUME BaseInv, BaseInv', OutInv, NEW w \in Windows, WindowGone(w)
  PROVE  OutInv'
<1>1. /\ Unmount(w, "gone") /\ panes' = [panes EXCEPT ![w] = NoPane] /\ PageGone(w)
      /\ UNCHANGED <<shell, facade>>
  BY DEF WindowGone
<1>2. TokenStays /\ transfer'.from = transfer.from \ {w}
  BY <1>1, GoneFields DEF TokenStays
<1> QED
  BY <1>1, <1>2, UnmountOut

LEMMA ReloadOut ==
  ASSUME BaseInv, BaseInv', OutInv, NEW w \in Windows, Reload(w)
  PROVE  OutInv'
<1> DEFINE l == panes[w].link
           ms == Hang(links, l, "gone")
           n == Connect(TRUE)
           x == [panes[w] EXCEPT !.link = Len(links) + 1, !.preparing = FALSE,
                                 !.screen = panes[w].saved, !.after = 0]
<1>1. /\ links \in Seq(Link) /\ l \in 0..Len(links)
      /\ lost' = IF l = 0 THEN lost ELSE lost \cup InFlight(l)
      /\ PageGone(w) /\ UNCHANGED <<shell, facade>>
  BY Basics DEF Reload
<1>2. /\ Quiet(links, ms, {}) /\ SoleChange(links, ms, l)
      /\ \A k \in DOMAIN links : ms[k].server = links[k].server
  BY <1>1, HangQuiet
<1>3. TokenStays /\ transfer'.from = transfer.from \ {w}
  BY <1>1, GoneFields DEF TokenStays
<1>4. AsksInTime({})
  BY DEF AsksInTime
<1>5. \/ links' = Append(ms, n) /\ panes' = [panes EXCEPT ![w] = x]
      \/ links' = ms /\ panes' = [panes EXCEPT ![w] = NoPane]
  <2>1. panes[w] \in Pane /\ panes \in [Windows -> Pane]
    BY Basics
  <2>2. panes[w].known => links' = Append(ms, n)
    BY DEF Reload
  <2>3. panes[w].known => panes' = [panes EXCEPT ![w] = x]
    BY <2>1 DEF Reload
  <2>4. ~panes[w].known => links' = ms /\ panes' = [panes EXCEPT ![w] = NoPane]
    BY DEF Reload
  <2> QED
    BY <2>2, <2>3, <2>4
<1>6. /\ x.screen = panes[w].saved /\ x.saved = panes[w].saved /\ ~x.preparing /\ x.after = 0
      /\ x.link = Len(links) + 1
  BY Basics DEF Pane
<1>7. Len(links) + 1 \notin DOMAIN links /\ Len(links) + 1 # 0
  BY <1>1
<1> HIDE DEF ms, n, x
<1>8. PanesStay
  <2>1. CASE panes' = [panes EXCEPT ![w] = x]
    BY <1>6, <1>7, <2>1, OnePaneStays DEF Screens
  <2>2. CASE panes' = [panes EXCEPT ![w] = NoPane]
    BY <2>2, OnePaneStays, NoPaneIs, NoScreen
  <2> QED
    BY <1>5, <2>1, <2>2
<1>9. /\ Quiet(links, links', {}) /\ DOMAIN links \subseteq DOMAIN links'
      /\ \A k \in DOMAIN links : links'[k] = ms[k]
  <2>1. CASE links' = ms
    BY <1>2, <2>1 DEF SoleChange
  <2>2. CASE links' = Append(ms, n)
    <3>1. /\ Quiet(ms, links', {}) /\ DOMAIN ms = DOMAIN links
          /\ \A k \in DOMAIN links : links'[k] = ms[k]
      BY <1>2, <2>2, OpenQuiet DEF SoleChange, n
    <3>2. Quiet(links, links', {} \cup {})
      BY <1>2, <3>1, QuietTrans
    <3>3. Quiet(links, links', {})
      BY <3>2, QuietMore
    <3> QED
      BY <3>1, <3>3 DEF Quiet
  <2> QED
    BY <1>5, <2>1, <2>2
<1>10. LossKnown
  BY <1>1, <1>2, <1>9, HungKnown
<1>11. ServersStay
  BY <1>2, <1>9 DEF ServersStay
<1>12. /\ \A v \in Windows \ {w} : panes'[v] = panes[v]
       /\ panes'[w].link \in {0, Len(links) + 1}
  <2>1. CASE panes' = [panes EXCEPT ![w] = x]
    BY <1>6, <2>1, OnePane
  <2>2. CASE panes' = [panes EXCEPT ![w] = NoPane]
    BY <2>2, OnePane, NoPaneIs
  <2> QED
    BY <1>5, <2>1, <2>2
<1>13. WaitStays({})
  <2> SUFFICES ASSUME NEW v \in Windows, Waiting(v), Waiting(v)'
               PROVE  \A u \in transfer.from :
                        (/\ panes[u].link = facade.current /\ panes'[u].link = facade.current
                         /\ Adopting(v) /\ ~panes[u].preparing)
                           => u \in transfer'.from /\ Adopting(v)'
    BY DEF WaitStays
  <2>1. facade.current # 0 /\ facade.current \in DOMAIN links /\ facade' = facade
    BY <1>1, Basics DEF Waiting
  <2>2. \A u \in transfer.from : panes'[u].link = facade.current => u \in transfer'.from
    BY <1>3, <1>7, <1>12, <2>1
  <2>3. v # w
    <3> SUFFICES ASSUME v = w PROVE FALSE
      OBVIOUS
    <3>1. panes'[w].after # 0 /\ panes'[w].link # 0
      BY DEF Waiting
    <3>2. panes'[w] \in {x, NoPane}
      BY <1>5, OnePane
    <3> QED
      BY <1>6, <3>1, <3>2, NoPaneIs
  <2>4. Adopting(v) => Adopting(v)'
    BY <1>3, <1>12, <2>3 DEF Adopting, TokenStays
  <2> QED
    BY <2>2, <2>4
<1> QED
  BY <1>1, <1>3, <1>4, <1>8, <1>9, <1>10, <1>11, <1>13, PageKept

\* A frame that is not output comes off a queue.
LEMMA ShownKept ==
  ASSUME BaseInv, NEW w \in Windows, NEW op, op # "output", Shows(w, op)
  PROVE  /\ Quiet(links, Shown(w), {}) /\ SoleChange(links, Shown(w), panes[w].link)
         /\ \A k \in DOMAIN links : /\ Chunks(Shown(w)[k].down) = Chunks(links[k].down)
                                    /\ Shown(w)[k].server = links[k].server
<1> DEFINE l == panes[w].link
           ms == Shown(w)
<1>1. /\ Quiet(links, ms, {}) /\ SoleChange(links, ms, l)
      /\ ms[l].down = Tail(links[l].down)
      /\ \A k \in DOMAIN links : ms[k].server = links[k].server
  BY ShowsQuiet
<1>2. /\ l \in DOMAIN links /\ links[l].down \in Seq(Downward) /\ links[l].down # <<>>
      /\ Head(links[l].down).op = op
  BY ShownIs
<1> HIDE DEF l, ms
<1>3. Chunks(ms[l].down) = Chunks(links[l].down)
  BY <1>1, <1>2, TailFrames
<1> QED
  BY <1>1, <1>3 DEF SoleChange, l, ms

LEMMA OnExitOut ==
  ASSUME BaseInv, BaseInv', OutInv, NEW w \in Windows, OnExit(w)
  PROVE  OutInv'
<1> DEFINE x == [panes[w] EXCEPT !.known = FALSE]
<1>1. /\ Shows(w, "exit") /\ panes' = [panes EXCEPT ![w] = x] /\ links' = Shown(w)
      /\ UNCHANGED <<shell, facade, transfer, lost, faults>>
  BY DEF OnExit
<1>2. /\ Quiet(links, links', {}) /\ SoleChange(links, links', panes[w].link)
      /\ \A k \in DOMAIN links : /\ Chunks(links'[k].down) = Chunks(links[k].down)
                                 /\ links'[k].server = links[k].server
  BY <1>1, ShownKept
<1>3. /\ x.link = panes[w].link /\ x.screen = panes[w].screen /\ x.after = panes[w].after
      /\ x.saved = panes[w].saved /\ x.preparing = panes[w].preparing
      /\ x.transfer = panes[w].transfer
  BY Basics DEF Pane
<1> HIDE DEF x
<1>4. PanesStay
  BY <1>1, <1>3, OnePaneStays DEF Screens
<1>5. TokenStays /\ AsksInTime({}) /\ ServersStay
  BY <1>1, <1>2 DEF TokenStays, AsksInTime, ServersStay
<1>6. LossKnown
  <2>1. facade.current # 0 => facade.current \in DOMAIN links
    BY Basics
  <2> QED
    BY <1>1, <1>2, <2>1 DEF LossKnown
<1>7. \A v \in Windows : panes'[v].transfer = panes[v].transfer
  BY <1>1, <1>3, OnePane
<1>8. WaitStays({})
  BY <1>1, <1>7, WaitKeeps
<1> QED
  BY <1>1, <1>2, <1>4, <1>5, <1>6, <1>8, PageKept

LEMMA ClaimRefusedOut ==
  ASSUME BaseInv, BaseInv', OutInv, NEW v \in Windows, ClaimRefused(v)
  PROVE  OutInv'
<1>1. /\ UNCHANGED <<shell, facade, links, panes, lost, faults>>
      /\ transfer' = [transfer EXCEPT !.claimed = TRUE]
  BY DEF ClaimRefused
<1>2. /\ transfer'.id = transfer.id /\ transfer'.from = transfer.from
      /\ transfer'.claim = transfer.claim /\ transfer'.claimed
  BY <1>1, TransferFields
<1>3. TokenStays /\ AsksInTime({}) /\ ServersStay
  BY <1>1, <1>2 DEF TokenStays, AsksInTime, ServersStay
<1>4. PanesStay /\ LossKnown
  BY <1>1 DEF PanesStay, PanesShow, PreparesLess, Stays, Screens, LossKnown
<1>5. WaitStays({})
  BY <1>1, <1>2, WaitKeeps
<1>6. Quiet(links, links', {})
  BY <1>1, QuietSame
<1> QED
  BY <1>1, <1>3, <1>4, <1>5, <1>6, PageKept

\* Preparations end: the panes are otherwise as they were.
LEMMA SettledPanes ==
  ASSUME BaseInv, NEW S,
         panes' = [w \in Windows |-> IF w \in S THEN [panes[w] EXCEPT !.preparing = FALSE]
                                     ELSE panes[w]]
  PROVE  PanesStay /\ \A w \in Windows : panes'[w].transfer = panes[w].transfer
<1>1. ASSUME NEW w \in Windows
      PROVE  /\ panes'[w].link = panes[w].link /\ panes'[w].screen = panes[w].screen
             /\ panes'[w].after = panes[w].after /\ panes'[w].saved = panes[w].saved
             /\ (panes'[w].preparing => panes[w].preparing)
             /\ panes'[w].transfer = panes[w].transfer
  <2>1. panes[w] \in Pane
    BY Basics
  <2>2. panes'[w] = panes[w] \/ panes'[w] = [panes[w] EXCEPT !.preparing = FALSE]
    OBVIOUS
  <2> QED
    BY <2>1, <2>2 DEF Pane
<1> QED
  BY <1>1 DEF PanesStay, PanesShow, PreparesLess, Stays, Screens

\* The server is asked to give up a transfer that nobody is waiting for.
LEMMA CancelOut ==
  ASSUME BaseInv, BaseInv', OutInv, UNCHANGED <<shell, facade, lost, faults>>, NEW S,
         panes' = [w \in Windows |-> IF w \in S THEN [panes[w] EXCEPT !.preparing = FALSE]
                                     ELSE panes[w]],
         TokenStays, transfer'.claim = {}, transfer'.claimed \/ transfer'.from = {},
         NEW A, Quiet(links, links', A),
         \A k \in DOMAIN links : /\ Chunks(links'[k].down) = Chunks(links[k].down)
                                 /\ links'[k].server = links[k].server,
         \A v \in Windows : Waiting(v) =>
           /\ <<facade.current, "cancel">> \notin A
           /\ Adopting(v) => transfer'.from = transfer.from
  PROVE  OutInv'
<1>1. PanesStay /\ \A w \in Windows : panes'[w].transfer = panes[w].transfer
  BY SettledPanes
<1>2. AsksInTime(A) /\ ServersStay
  BY DEF AsksInTime, ServersStay
<1>3. LossKnown
  <2>1. facade.current # 0 => facade.current \in DOMAIN links
    BY Basics
  <2> QED
    BY <2>1 DEF LossKnown
<1>4. WaitStays(A)
  BY <1>1, WaitKeeps DEF TokenStays
<1> QED
  BY <1>1, <1>2, <1>3, <1>4, PageKept

LEMMA ClaimTimesOutOut ==
  ASSUME BaseInv, BaseInv', TransferInv, OutInv, ClaimTimesOut
  PROVE  OutInv'
<1> DEFINE A == {<<panes[u].link, "cancel">> : u \in transfer.from}
<1>1. /\ UNCHANGED <<shell, facade, lost, faults>> /\ transfer.claim # {}
      /\ transfer' = [transfer EXCEPT !.claim = {}] /\ links' = CancelAsked(links)
      /\ panes' = Cancelled(panes)
  BY DEF ClaimTimesOut
<1>2. /\ transfer'.id = transfer.id /\ transfer'.from = transfer.from
      /\ transfer'.claim = {} /\ transfer'.claimed = transfer.claimed
  BY <1>1, TransferFields
<1>3. transfer.claimed /\ ~\E v \in Windows : Adopting(v)
  BY <1>1 DEF TransferInv
<1>4. /\ Quiet(links, links', A)
      /\ \A k \in DOMAIN links : /\ links'[k].down = links[k].down
                                 /\ links'[k].server = links[k].server
  BY <1>1, Basics, CancelAskedQuiet
<1>5. ASSUME NEW v \in Windows, Waiting(v)
      PROVE  <<facade.current, "cancel">> \notin A
  <2> SUFFICES ASSUME NEW u \in transfer.from, panes[u].link = facade.current
               PROVE  FALSE
    OBVIOUS
  <2>1. u \in Windows
    BY Parts, Basics
  <2> QED
    BY <1>3, <1>5, <2>1 DEF OutInv, WaitingInv
<1> HIDE DEF A
<1>6. TokenStays
  BY <1>2 DEF TokenStays
<1>7. panes' = [w \in Windows |-> IF w \in transfer.from
                                  THEN [panes[w] EXCEPT !.preparing = FALSE] ELSE panes[w]]
  BY <1>1 DEF Cancelled
<1> QED
  BY <1>1, <1>2, <1>3, <1>4, <1>5, <1>6, <1>7, CancelOut

LEMMA SourceExpiresOut ==
  ASSUME BaseInv, BaseInv', TransferInv, OutInv, SourceExpires
  PROVE  OutInv'
<1> DEFINE A == {<<panes[u].link, "cancel">> : u \in transfer.from}
<1>1. /\ UNCHANGED <<shell, facade, lost, faults>> /\ transfer.claim = {}
      /\ transfer' = [transfer EXCEPT !.from = {}] /\ links' = CancelAsked(links)
      /\ panes' = Cancelled(panes) /\ ~\E v \in Windows : Adopting(v)
  BY DEF SourceExpires
<1>2. /\ transfer'.id = transfer.id /\ transfer'.from = {}
      /\ transfer'.claim = {} /\ transfer'.claimed = transfer.claimed
  BY <1>1, TransferFields
<1>4. /\ Quiet(links, links', A)
      /\ \A k \in DOMAIN links : /\ links'[k].down = links[k].down
                                 /\ links'[k].server = links[k].server
  BY <1>1, Basics, CancelAskedQuiet
<1>5. ASSUME NEW v \in Windows, Waiting(v)
      PROVE  <<facade.current, "cancel">> \notin A
  <2> SUFFICES ASSUME NEW u \in transfer.from, panes[u].link = facade.current
               PROVE  FALSE
    OBVIOUS
  <2>1. u \in Windows
    BY Parts, Basics
  <2> QED
    BY <1>1, <1>5, <2>1 DEF OutInv, WaitingInv
<1> HIDE DEF A
<1>6. TokenStays
  BY <1>2 DEF TokenStays
<1>7. panes' = [w \in Windows |-> IF w \in transfer.from
                                  THEN [panes[w] EXCEPT !.preparing = FALSE] ELSE panes[w]]
  BY <1>1 DEF Cancelled
<1> QED
  BY <1>1, <1>2, <1>4, <1>5, <1>6, <1>7, CancelOut

\* panes with one preparation ended.
LEMMA OneSettled ==
  ASSUME BaseInv, NEW w \in Windows, panes' = [panes EXCEPT ![w].preparing = FALSE]
  PROVE  panes' = [v \in Windows |-> IF v \in {w} THEN [panes[v] EXCEPT !.preparing = FALSE]
                                     ELSE panes[v]]
<1>1. panes \in [Windows -> Pane]
  BY Basics
<1> QED
  BY <1>1

LEMMA PrepareTimesOutOut ==
  ASSUME BaseInv, BaseInv', TransferInv, OutInv, NEW w \in Windows, PrepareTimesOut(w)
  PROVE  OutInv'
<1> DEFINE A == {<<panes[w].link, "cancel">>}
<1>1. /\ UNCHANGED <<shell, facade, lost, faults>> /\ panes[w].preparing
      /\ panes' = [panes EXCEPT ![w].preparing = FALSE]
      /\ links' = (IF PaneOpen(w) THEN Ask(links, panes[w].link, "cancel") ELSE links)
      /\ transfer' = [transfer EXCEPT !.claim = {}]
  BY DEF PrepareTimesOut
<1>2. /\ transfer'.id = transfer.id /\ transfer'.from = transfer.from
      /\ transfer'.claim = {} /\ transfer'.claimed = transfer.claimed
  BY <1>1, TransferFields
<1>3. transfer.claimed
  BY <1>1 DEF TransferInv
<1>4. /\ Quiet(links, links', A)
      /\ \A k \in DOMAIN links : /\ links'[k].down = links[k].down
                                 /\ links'[k].server = links[k].server
  <2>1. links \in Seq(Link) /\ panes[w].link \in 0..Len(links) /\ "cancel" \in Upward
    BY Basics DEF Upward
  <2>2. CASE links' = links
    BY <2>2, QuietSame
  <2>3. CASE links' = Ask(links, panes[w].link, "cancel")
    BY <2>1, <2>3, AskQuiet
  <2> QED
    BY <1>1, <2>2, <2>3
<1>5. ASSUME NEW v \in Windows, Waiting(v)
      PROVE  <<facade.current, "cancel">> \notin A
  BY <1>1, <1>5 DEF OutInv, WaitingInv
<1> HIDE DEF A
<1>6. TokenStays
  BY <1>2 DEF TokenStays
<1>7. panes' = [v \in Windows |-> IF v \in {w} THEN [panes[v] EXCEPT !.preparing = FALSE]
                                  ELSE panes[v]]
  BY <1>1, OneSettled
<1> QED
  BY <1>1, <1>2, <1>3, <1>4, <1>5, <1>6, <1>7, CancelOut

\* A pane whose connection closed.
LEMMA OnCloseOut ==
  ASSUME BaseInv, BaseInv', TransferInv, OutInv, NEW w \in Windows, OnClose(w)
  PROVE  OutInv'
<1> DEFINE l == panes[w].link
           hung == Hang(links, l, "gone")
           closed == Answered(hung, l)
           x == [panes[w] EXCEPT !.link = 0, !.transfer = 0, !.saved = <<>>]
           A == IF Adopting(w) THEN {<<panes[u].link, "cancel">> : u \in transfer.from} ELSE {}
<1>1. /\ Shows(w, "close") /\ UNCHANGED <<shell, facade, transfer, lost, faults>>
      /\ links' = IF Adopting(w) THEN CancelAsked(closed) ELSE closed
      /\ panes' = [IF Adopting(w) THEN Cancelled(panes) ELSE panes EXCEPT ![w] = x]
  BY DEF OnClose
<1>2. links \in Seq(Link) /\ l \in DOMAIN links /\ l \in 0..Len(links) /\ l # 0
  BY <1>1, Basics, ShownIs
<1>3. /\ Quiet(links, hung, {}) /\ SoleChange(links, hung, l)
      /\ \A k \in DOMAIN links : hung[k].server = links[k].server
  BY <1>2, HangQuiet
<1> HIDE DEF l, hung
<1>4. hung \in Seq(Link) /\ DOMAIN hung = DOMAIN links /\ l \in DOMAIN hung
      /\ Len(hung) = Len(links)
  BY <1>2, <1>3 DEF SoleChange
<1>5. /\ Quiet(hung, closed, {}) /\ SoleChange(hung, closed, l)
      /\ \A k \in DOMAIN hung :
           \/ closed[k].server = hung[k].server
           \/ hung[k].server = "closing" /\ closed[k].server = "closed"
  BY <1>4, AnsweredQuiet
<1> HIDE DEF closed
<1>6. SoleChange(links, closed, l) /\ closed \in Seq(Link) /\ Len(closed) = Len(links)
      /\ DOMAIN closed = DOMAIN links
  BY <1>3, <1>5 DEF SoleChange
<1>7. Quiet(links, closed, {})
  <2>1. Quiet(links, closed, {} \cup {})
    BY <1>3, <1>4, <1>5, QuietTrans
  <2> QED
    BY <2>1, QuietMore
<1>8. /\ Quiet(links, links', A) /\ DOMAIN links \subseteq DOMAIN links'
      /\ \A k \in DOMAIN links : /\ links'[k].down = closed[k].down
                                 /\ links'[k].server = closed[k].server
  <2>1. CASE ~Adopting(w)
    BY <1>1, <1>6, <1>7, <2>1
  <2>2. CASE Adopting(w)
    <3>1. links' = CancelAsked(closed) /\ A = {<<panes[u].link, "cancel">> : u \in transfer.from}
      BY <1>1, <2>2
    <3> HIDE DEF A
    <3>2. /\ Quiet(closed, links', A)
          /\ \A k \in DOMAIN closed : /\ links'[k].down = closed[k].down
                                      /\ links'[k].server = closed[k].server
      BY <1>6, <3>1, CancelAskedQuiet
    <3>3. Quiet(links, links', {} \cup A)
      BY <1>6, <1>7, <3>2, QuietTrans
    <3>4. Quiet(links, links', A)
      BY <3>3, QuietMore
    <3> QED
      BY <1>6, <3>2, <3>4 DEF Quiet
  <2> QED
    BY <2>1, <2>2
<1>9. /\ x.link = 0 /\ x.screen = panes[w].screen /\ x.saved = <<>>
      /\ x.preparing = panes[w].preparing
  BY Basics DEF Pane
<1> HIDE DEF x
<1>10. /\ panes'[w] = x
       /\ \A v \in Windows \ {w} :
            panes'[v] = panes[v] \/ panes'[v] = [panes[v] EXCEPT !.preparing = FALSE]
  <2>1. panes \in [Windows -> Pane]
    BY Basics
  <2>2. CASE Adopting(w)
    BY <1>1, <2>1, <2>2 DEF Cancelled
  <2>3. CASE ~Adopting(w)
    BY <1>1, <2>1, <2>3
  <2> QED
    BY <2>2, <2>3
<1>11. \A v \in Windows \ {w} :
         /\ Stays(v) /\ panes'[v].saved = panes[v].saved /\ panes'[v].transfer = panes[v].transfer
         /\ (panes'[v].preparing => panes[v].preparing)
  <2> SUFFICES ASSUME NEW v \in Windows \ {w}
               PROVE  /\ Stays(v) /\ panes'[v].saved = panes[v].saved
                      /\ panes'[v].transfer = panes[v].transfer
                      /\ (panes'[v].preparing => panes[v].preparing)
    OBVIOUS
  <2>1. panes[v] \in Pane
    BY Basics
  <2>2. CASE panes'[v] = panes[v]
    BY <2>2 DEF Stays
  <2>3. CASE panes'[v] = [panes[v] EXCEPT !.preparing = FALSE]
    BY <2>1, <2>3 DEF Stays, Pane
  <2> QED
    BY <1>10, <2>2, <2>3
<1>12. PanesStay
  BY <1>9, <1>10, <1>11 DEF PanesStay, PanesShow, PreparesLess, Stays, Screens
<1>13. \A v \in Windows : panes'[v].link # l
  <2> SUFFICES ASSUME NEW v \in Windows, panes'[v].link = l PROVE FALSE
    OBVIOUS
  <2>1. v # w
    BY <1>2, <1>9, <1>10
  <2>2. panes[v].link = panes[w].link /\ panes[v].link # 0
    BY <1>2, <1>11, <2>1 DEF Stays, l
  <2> QED
    BY <2>1, <2>2 DEF BaseInv, PanesInv
<1>14. LossKnown
  BY <1>1, <1>2, <1>6, <1>8, <1>13, HungKnown
<1>15. ServersStay
  BY <1>3, <1>4, <1>5, <1>8 DEF ServersStay
<1>16. TokenStays
  BY <1>1 DEF TokenStays
<1>17. AsksInTime(A)
  <2>1. Adopting(w) => transfer.claimed /\ transfer.claim = {}
    BY DEF TransferInv
  <2> QED
    BY <1>1, <2>1 DEF AsksInTime
<1>18. WaitStays(A)
  <2>1. ASSUME NEW v \in Windows, Waiting(v), panes'[v].link # 0
        PROVE  <<facade.current, "cancel">> \notin A /\ panes'[v].transfer = panes[v].transfer
    <3>1. v # w
      BY <1>9, <1>10, <2>1
    <3>2. ASSUME <<facade.current, "cancel">> \in A
          PROVE  FALSE
      <4>1. PICK u \in transfer.from : panes[u].link = facade.current /\ Adopting(w)
        BY <3>2
      <4>2. u \in Windows
        BY Parts, Basics
      <4>3. Adopting(v)
        BY <2>1, <4>1, <4>2 DEF OutInv, WaitingInv
      <4> QED
        BY <3>1, <4>1, <4>3 DEF TransferInv
    <3> QED
      BY <1>11, <3>1, <3>2
  <2> HIDE DEF A
  <2> QED
    BY <1>1, <2>1, WaitKeeps
<1> HIDE DEF A
<1> QED
  BY <1>1, <1>8, <1>12, <1>14, <1>15, <1>16, <1>17, <1>18, PageKept

\* A pane has its terminal, and its source, if it has one, closes.
LEMMA OnSessionOut ==
  ASSUME BaseInv, BaseInv', TransferInv, OutInv, NEW w \in Windows, OnSession(w)
  PROVE  OutInv'
<1> DEFINE sources == IF Adopting(w) THEN transfer.from ELSE {}
           x == [panes[w] EXCEPT !.known = TRUE, !.transfer = 0, !.saved = <<>>]
           l == panes[CHOOSE v \in sources : TRUE].link
           ms == Shown(w)
<1>1. /\ Shows(w, "session") /\ UNCHANGED <<shell, facade, lost, faults>>
      /\ panes' = [v \in Windows |-> IF v = w THEN x
                                     ELSE IF v \in sources THEN NoPane ELSE panes[v]]
      /\ transfer' = [transfer EXCEPT !.from = transfer.from \ sources]
      /\ links' = IF sources = {} THEN ms ELSE Hang(ms, l, "bye")
  BY DEF OnSession
<1>2. /\ Quiet(links, ms, {}) /\ SoleChange(links, ms, panes[w].link)
      /\ \A k \in DOMAIN links : /\ Chunks(ms[k].down) = Chunks(links[k].down)
                                 /\ ms[k].server = links[k].server
  BY <1>1, ShownKept
<1>3. links[panes[w].link].server # "none" /\ panes[w].link \in DOMAIN links
  BY <1>1, ShownIs
<1> HIDE DEF ms
<1>4. /\ ms \in Seq(Link) /\ Len(ms) = Len(links) /\ DOMAIN ms = DOMAIN links
  BY <1>2 DEF SoleChange
<1>5. /\ transfer'.id = transfer.id /\ transfer'.from = transfer.from \ sources
      /\ transfer'.claim = transfer.claim /\ transfer'.claimed = transfer.claimed
  BY <1>1, TransferFields
<1>6. w \notin sources /\ sources \subseteq Windows
  BY Parts, Basics DEF TransferInv
<1>7. sources # {} => \E v \in sources : l = panes[v].link /\ \A u \in sources : u = v
  <2> SUFFICES ASSUME sources # {}
               PROVE  \E v \in sources : l = panes[v].link /\ \A u \in sources : u = v
    OBVIOUS
  <2>1. (CHOOSE v \in sources : TRUE) \in sources
    BY ChooseIn
  <2>2. \A u, v \in sources : u = v
    BY DEF TransferInv
  <2> QED
    BY <2>1, <2>2
<1>8. x.link = panes[w].link /\ x.screen = panes[w].screen /\ x.after = panes[w].after
      /\ x.saved = <<>> /\ x.preparing = panes[w].preparing
  BY Basics DEF Pane
<1> HIDE DEF x, l
<1>9. /\ panes'[w] = x /\ \A v \in sources : panes'[v] = NoPane
      /\ \A v \in Windows \ ({w} \cup sources) : panes'[v] = panes[v]
  BY <1>1, <1>6
<1>10. PanesStay
  BY <1>8, <1>9, NoPaneIs, NoScreen DEF PanesStay, PanesShow, PreparesLess, Stays, Screens
<1>11. CASE sources = {}
  <2>1. links' = ms
    BY <1>1, <1>11
  <2>2. LossKnown /\ ServersStay
    <3>1. facade.current # 0 => facade.current \in DOMAIN links
      BY Basics
    <3> QED
      BY <1>1, <1>2, <2>1, <3>1 DEF LossKnown, ServersStay
  <2>3. TokenStays /\ AsksInTime({})
    BY <1>5 DEF TokenStays, AsksInTime
  <2>4. \A v \in Windows : Waiting(v) => panes'[v].transfer = panes[v].transfer
    BY <1>3, <1>9, <1>11 DEF Waiting
  <2>5. WaitStays({})
    BY <1>1, <1>5, <1>11, <2>4, WaitKeeps
  <2> QED
    BY <1>1, <1>2, <1>10, <2>1, <2>2, <2>3, <2>5, PageKept
<1>12. CASE sources # {}
  <2>1. PICK v \in sources : l = panes[v].link /\ \A u \in sources : u = v
    BY <1>7, <1>12
  <2>2. v \in Windows /\ l \in 0..Len(ms) /\ links' = Hang(ms, l, "bye")
    BY <1>1, <1>4, <1>6, <1>12, <2>1, Basics
  <2>3. /\ Quiet(ms, links', {}) /\ SoleChange(ms, links', l)
        /\ \A k \in DOMAIN ms : links'[k].server = ms[k].server
    BY <1>4, <2>2, HangQuiet
  <2>4. Quiet(links, links', {})
    <3>1. Quiet(links, links', {} \cup {})
      BY <1>2, <1>4, <2>3, QuietTrans
    <3> QED
      BY <3>1, QuietMore
  <2>5. l # 0 => \A u \in Windows : panes'[u].link # l
    <3> SUFFICES ASSUME l # 0, NEW u \in Windows, panes'[u].link = l PROVE FALSE
      OBVIOUS
    <3>1. u \notin sources /\ panes[u].link = l
      BY <1>8, <1>9, NoPaneIs
    <3> QED
      BY <2>1, <2>2, <3>1 DEF BaseInv, PanesInv
  <2>6. LossKnown
    <3>1. facade.current # 0 => facade.current \in DOMAIN links
      BY Basics
    <3>2. \A k \in DOMAIN links : k # l => Chunks(links'[k].down) = Chunks(links[k].down)
      BY <1>2, <1>4, <2>3 DEF SoleChange
    <3> QED
      BY <1>1, <2>5, <3>1, <3>2 DEF LossKnown
  <2>7. ServersStay
    BY <1>2, <1>4, <2>3 DEF ServersStay
  <2>8. TokenStays /\ AsksInTime({})
    BY <1>5 DEF TokenStays, AsksInTime
  <2>9. WaitStays({})
    <3>1. Adopting(w)
      BY <1>12
    <3>2. \A u \in Windows : Waiting(u) /\ panes'[u].link # 0 => ~Adopting(u)
      <4> SUFFICES ASSUME NEW u \in Windows, Waiting(u), Adopting(u) PROVE FALSE
        OBVIOUS
      <4>1. u = w
        BY <3>1 DEF TransferInv
      <4> QED
        BY <1>3, <4>1 DEF Waiting
    <3>3. \A u \in Windows : Waiting(u) /\ panes'[u].link # 0 =>
                               panes'[u].transfer = panes[u].transfer
      BY <1>3, <1>9, NoPaneIs DEF Waiting
    <3> QED
      BY <1>1, <1>5, <3>2, <3>3, WaitKeeps
  <2> QED
    BY <1>1, <1>10, <2>4, <2>6, <2>7, <2>8, <2>9, PageKept
<1> QED
  BY <1>11, <1>12

\* 'transfer-ready' that nobody waits for, or whose tab the other window has.
LEMMA OnReadyIdleOut ==
  ASSUME BaseInv, BaseInv', TransferInv, OutInv, NEW w \in Windows, OnReady(w),
         \/ ~panes[w].preparing \/ transfer.claim = {}
         \/ \E v \in transfer.claim : panes[v].tab
  PROVE  OutInv'
<1>1. Shows(w, "ready") /\ UNCHANGED <<shell, facade, lost, faults>>
  BY DEF OnReady
<1>2. /\ Quiet(links, Shown(w), {}) /\ SoleChange(links, Shown(w), panes[w].link)
      /\ \A k \in DOMAIN links : /\ Chunks(Shown(w)[k].down) = Chunks(links[k].down)
                                 /\ Shown(w)[k].server = links[k].server
  BY <1>1, ShownKept
<1>3. CASE ~panes[w].preparing \/ transfer.claim = {}
  <2>1. links' = Shown(w) /\ UNCHANGED <<panes, transfer>>
    BY <1>3 DEF OnReady
  <2>2. facade.current # 0 => facade.current \in DOMAIN links
    BY Basics
  <2>3. LossKnown
    BY <1>1, <1>2, <2>1, <2>2 DEF LossKnown
  <2>4. FacadeStays /\ HoldStays
    BY <1>1, <1>2, <2>1, <2>2 DEF FacadeStays, HoldStays
  <2> QED
    BY <1>2, <2>1, <2>3, <2>4, ServerKept
<1>4. CASE panes[w].preparing /\ transfer.claim # {}
  <2> DEFINE l == panes[w].link
             ms == Shown(w)
             A == {<<l, "cancel">>}
  <2>1. \A u, v \in transfer.claim : u = v
    BY DEF TransferInv
  <2>2. /\ links' = Ask(ms, l, "cancel") /\ panes' = [panes EXCEPT ![w].preparing = FALSE]
        /\ transfer' = [transfer EXCEPT !.claim = {}]
    BY <1>4, <2>1 DEF OnReady
  <2>3. /\ transfer'.id = transfer.id /\ transfer'.from = transfer.from
        /\ transfer'.claim = {} /\ transfer'.claimed = transfer.claimed /\ transfer.claimed
    BY <1>4, <2>2, TransferFields DEF TransferInv
  <2> HIDE DEF ms
  <2>4. ms \in Seq(Link) /\ DOMAIN ms = DOMAIN links /\ l \in 0..Len(ms) /\ "cancel" \in Upward
    BY <1>2, Basics DEF SoleChange, ms, Upward
  <2> HIDE DEF l
  <2>5. /\ Quiet(ms, links', A)
        /\ \A k \in DOMAIN ms : links'[k].down = ms[k].down /\ links'[k].server = ms[k].server
    BY <2>2, <2>4, AskQuiet
  <2> HIDE DEF A
  <2>6. Quiet(links, links', A)
    <3>1. Quiet(links, links', {} \cup A)
      BY <1>2, <2>4, <2>5, QuietTrans DEF ms
    <3> QED
      BY <3>1, QuietMore
  <2>7. \A k \in DOMAIN links : /\ Chunks(links'[k].down) = Chunks(links[k].down)
                                /\ links'[k].server = links[k].server
    BY <1>2, <2>4, <2>5 DEF ms
  <2>8. \A v \in Windows : Waiting(v) => <<facade.current, "cancel">> \notin A
    BY <1>4 DEF OutInv, WaitingInv, A, l
  <2>9. TokenStays
    BY <2>3 DEF TokenStays
  <2>10. panes' = [v \in Windows |-> IF v \in {w} THEN [panes[v] EXCEPT !.preparing = FALSE]
                                     ELSE panes[v]]
    BY <2>2, OneSettled
  <2> QED
    BY <1>1, <2>3, <2>6, <2>7, <2>8, <2>9, <2>10, CancelOut
<1> QED
  BY <1>3, <1>4

-----------------------------------------------------------------------------
(* The session ends                                                        *)

LEMMA ClosedOut ==
  ASSUME BaseInv, BaseInv', OutInv, facade'.closed, facade'.buffer = <<>>,
         facade'.current = facade.current, shell'.made = shell.made,
         UNCHANGED <<panes, transfer>>, Quiet(links, links', {}),
         \A k \in DOMAIN links : links'[k].server = "none" => links[k].server = "none"
  PROVE  OutInv'
<1>1. OrderInv'
  <2>1. \A w \in Windows : panes'[w].link # 0 =>
          panes'[w].link \in DOMAIN links' /\ panes'[w].link = panes[w].link
    <3>1. \A w \in Windows : panes[w].link # 0 => panes[w].link \in DOMAIN links
      BY Basics
    <3> QED
      BY <3>1 DEF Quiet
  <2>2. /\ \A k \in DOMAIN links : /\ InOrder(links'[k].down)
                                   /\ Chunks(links'[k].down) \subseteq Chunks(links[k].down)
        /\ \A k \in DOMAIN links' \ DOMAIN links : links'[k].down = <<>>
    BY DEF Quiet, Dwindles, OutInv, OrderInv
  <2>3. \A w \in Windows : panes'[w].screen \in Screens /\ panes'[w].saved \in Screens
    BY DEF Screens
  <2> QED
    BY <2>1, <2>2, <2>3, OrderStep DEF OutInv
<1>2. HeldInv' /\ CoverInv'
  BY DEF HeldInv, CoverInv
<1>3. ArrivedInv'
  <2>1. ASSUME Arrived
        PROVE  Arrived'
    <3> SUFFICES ASSUME NEW l \in DOMAIN links'
                 PROVE  /\ ~Has(links'[l].up, "prepare") /\ ~Has(links'[l].up, "cancel")
                        /\ ~HasFrame(links'[l].down, "ready")
      BY DEF Arrived
    <3>1. CASE l \in DOMAIN links
      BY <2>1, <3>1 DEF Arrived, Quiet, Dwindles
    <3>2. CASE l \notin DOMAIN links
      <4>1. links'[l].up = <<>> /\ links'[l].down = <<>>
        BY <3>2 DEF Quiet
      <4> QED
        BY <4>1 DEF Has, HasFrame
    <3> QED
      BY <3>1, <3>2
  <2>2. ASSUME \A l \in DOMAIN links : ~Has(links[l].up, "cancel")
        PROVE  \A l \in DOMAIN links' : ~Has(links'[l].up, "cancel")
    <3> SUFFICES ASSUME NEW l \in DOMAIN links'
                 PROVE  ~Has(links'[l].up, "cancel")
      OBVIOUS
    <3>1. CASE l \in DOMAIN links
      BY <2>2, <3>1 DEF Quiet
    <3>2. CASE l \notin DOMAIN links
      <4>1. links'[l].up = <<>>
        BY <3>2 DEF Quiet
      <4> QED
        BY <4>1 DEF Has
    <3> QED
      BY <3>1, <3>2
  <2>3. transfer' = transfer /\ (Preparing' => Preparing)
    BY DEF Preparing
  <2> QED
    BY <2>1, <2>2, <2>3 DEF OutInv, ArrivedInv
<1>4. WaitingInv'
  <2> SUFFICES ASSUME NEW v \in Windows, NEW w \in Windows, Waiting(v)',
                      panes'[w].link = facade'.current
               PROVE  w \in transfer'.from /\ Adopting(v)' /\ ~panes'[w].preparing
    BY DEF WaitingInv
  <2>1. panes[v].link # 0 => panes[v].link \in DOMAIN links
    BY Basics
  <2>2. Waiting(v)
    BY <2>1 DEF Waiting
  <2>3. w \in transfer.from /\ Adopting(v) /\ ~panes[w].preparing
    BY <2>2 DEF OutInv, WaitingInv
  <2> QED
    BY <2>3 DEF Adopting
<1> QED
  BY <1>1, <1>2, <1>3, <1>4 DEF OutInv

LEMMA FinishOut ==
  ASSUME BaseInv, BaseInv', OutInv, FinishAlone, UNCHANGED <<panes, transfer>>,
         Quiet(links, links', {}),
         \A k \in DOMAIN links : links'[k].server = "none" => links[k].server = "none"
  PROVE  OutInv'
<1>1. /\ facade'.closed /\ facade'.current = facade.current /\ facade'.buffer = <<>>
      /\ shell'.made = shell.made
  BY Basics, FinishIs, ReleasedIs DEF FinishAlone
<1> QED
  BY <1>1, ClosedOut

LEMMA OnByeOut ==
  ASSUME BaseInv, BaseInv', OutInv, NEW l \in DOMAIN links, OnBye(l)
  PROVE  OutInv'
<1>1. links' = Gone(l) /\ UNCHANGED <<panes, transfer, lost>>
  BY DEF OnBye
<1>2. /\ Quiet(links, links', {})
      /\ \A k \in DOMAIN links : links'[k].server # "none" \/ links[k].server = "none"
  BY <1>1, GoneIs
<1>3. CASE Bound(l)
  <2>1. FinishAlone
    BY <1>3 DEF OnBye
  <2> QED
    BY <1>1, <1>2, <2>1, FinishOut
<1>4. CASE ~Bound(l)
  <2>1. UNCHANGED <<shell, facade>>
    BY <1>4 DEF OnBye
  <2> QED
    BY <1>1, <1>4, <2>1, GoneOut
<1> QED
  BY <1>3, <1>4

LEMMA GraceExpiresOut ==
  ASSUME BaseInv, BaseInv', OutInv, GraceExpires
  PROVE  OutInv'
<1>1. FinishAlone /\ UNCHANGED <<links, panes, transfer>>
  BY DEF GraceExpires
<1>2. Quiet(links, links', {})
  BY <1>1, QuietSame
<1> QED
  BY <1>1, <1>2, FinishOut

\* What close() sends ends a session.
LEMMA CloseFacadeOut ==
  ASSUME BaseInv, facade.current # 0, NEW f \in Seq(Downward), Outputs(f) = {},
         ~HasFrame(f, "ready"), links' = CloseFacade(f)
  PROVE  /\ Quiet(links, links', {})
         /\ \A k \in DOMAIN links : links'[k].server = "none" => links[k].server = "none"
<1>1. Quiet(links, links', {})
  BY CloseFacadeQuiet
<1>2. Onward(links, links', {})
  BY CloseFacadeOnward
<1> QED
  BY <1>1, <1>2 DEF Onward, Goes

LEMMA DisposeOut ==
  ASSUME BaseInv, BaseInv', OutInv, Dispose
  PROVE  OutInv'
<1>1. /\ FinishAlone /\ links' = CloseFacade(<<>>) /\ facade.current # 0
      /\ UNCHANGED <<panes, transfer, lost>>
  BY DEF Dispose
<1>2. /\ Quiet(links, links', {})
      /\ \A k \in DOMAIN links : links'[k].server = "none" => links[k].server = "none"
  BY <1>1, EndFrames, CloseFacadeOut
<1> QED
  BY <1>1, <1>2, FinishOut

LEMMA EndsOut ==
  ASSUME BaseInv, BaseInv', OutInv, Ends
  PROVE  OutInv'
<1>1. UNCHANGED <<panes, transfer, lost, faults>> /\ shell.stage # "none"
  BY DEF Ends
<1>2. shell'.made = shell.made
  <2>1. Released(shell) \in Shell /\ Released(shell).made = shell.made
    BY Basics, ReleasedIs
  <2>2. shell' = [Released(shell) EXCEPT !.stage = "ended"]
    BY DEF Ends
  <2> QED
    BY <2>1, <2>2 DEF Shell
<1>3. CASE facade.closed
  <2>1. UNCHANGED <<facade, links>>
    BY <1>3 DEF Ends
  <2> QED
    BY <1>1, <1>2, <2>1, ShellKept
<1>4. CASE ~facade.closed
  <2>1. facade' = Finish(facade) /\ links' = CloseFacade(<<Control("exit")>>)
    BY <1>4 DEF Ends
  <2>2. facade.current # 0
    BY <1>1, Basics DEF StartInv
  <2>3. /\ Quiet(links, links', {})
        /\ \A k \in DOMAIN links : links'[k].server = "none" => links[k].server = "none"
    BY <2>1, <2>2, EndFrames, CloseFacadeOut
  <2>4. facade'.closed /\ facade'.current = facade.current /\ facade'.buffer = <<>>
    BY <2>1, Basics, FinishIs
  <2> QED
    BY <1>1, <1>2, <2>3, <2>4, ClosedOut
<1> QED
  BY <1>3, <1>4

LEMMA OnGoneOut ==
  ASSUME BaseInv, BaseInv', OutInv, NEW l \in DOMAIN links, OnGone(l)
  PROVE  OutInv'
<1>1. links' = Gone(l) /\ UNCHANGED <<shell, panes, transfer, lost>>
  BY DEF OnGone
<1>2. \/ facade' = [facade EXCEPT !.detached = TRUE, !.timer = TRUE]
      \/ facade' = facade /\ ~Bound(l)
  BY DEF OnGone
<1> QED
  BY <1>1, <1>2, GoneOut

-----------------------------------------------------------------------------
(* Output is written                                                       *)

LEMMA OutBasics ==
  ASSUME BaseInv
  PROVE  /\ shell.made \in Nat /\ facade.buffer \in Seq(Chunk) /\ Chunk \subseteq Nat \ {0}
         /\ \A w \in Windows : panes[w].screen \in Seq(Chunk) /\ panes[w].saved \in Seq(Chunk)
         /\ \A l \in DOMAIN links : links[l].down \in Seq(Downward) /\ links[l].up \in Seq(Upward)
<1>1. shell.made \in Nat /\ facade.buffer \in Seq(Chunk)
  BY Basics, Parts, BoundsAssumption
<1>2. \A w \in Windows : panes[w].screen \in Seq(Chunk) /\ panes[w].saved \in Seq(Chunk)
  BY Basics DEF Pane
<1>3. \A l \in DOMAIN links : links[l].down \in Seq(Downward) /\ links[l].up \in Seq(Upward)
  BY Basics, LinkAt
<1>4. Chunk \subseteq Nat \ {0}
  BY BoundsAssumption DEF Chunk
<1> QED
  BY <1>1, <1>2, <1>3, <1>4

LEMMA RangeAppend ==
  ASSUME NEW T, NEW s \in Seq(T), NEW x \in T
  PROVE  Range(Append(s, x)) = Range(s) \cup {x}
<1>1. /\ \A k \in DOMAIN s : Append(s, x)[k] = s[k]
      /\ Append(s, x)[Len(s) + 1] = x /\ DOMAIN Append(s, x) = DOMAIN s \cup {Len(s) + 1}
  BY AppendIs
<1> QED
  BY <1>1 DEF Range

LEMMA AscendingAppend ==
  ASSUME NEW T \in SUBSET Nat, NEW s \in Seq(T), NEW n \in T, Ascending(s),
         Before(Range(s), {n})
  PROVE  Ascending(Append(s, n))
<1>1. /\ \A k \in DOMAIN s : Append(s, n)[k] = s[k] /\ s[k] \in Range(s)
      /\ Append(s, n)[Len(s) + 1] = n /\ DOMAIN Append(s, n) = DOMAIN s \cup {Len(s) + 1}
      /\ DOMAIN s = 1..Len(s) /\ Len(s) \in Nat
  BY AppendIs DEF Range
<1> SUFFICES ASSUME NEW i \in DOMAIN Append(s, n), NEW j \in DOMAIN Append(s, n), i < j
             PROVE  Append(s, n)[i] < Append(s, n)[j]
  BY DEF Ascending
<1>2. i \in DOMAIN s
  BY <1>1
<1>3. CASE j \in DOMAIN s
  BY <1>1, <1>2, <1>3 DEF Ascending
<1>4. CASE j = Len(s) + 1
  BY <1>1, <1>2, <1>4 DEF Before
<1> QED
  BY <1>1, <1>3, <1>4

LEMMA TailOrder ==
  ASSUME NEW T, NEW s \in Seq(T), s # <<>>
  PROVE  /\ Ascending(s) => Ascending(Tail(s))
         /\ Range(Tail(s)) \subseteq Range(s)
<1>1. \A i \in DOMAIN Tail(s) : i \in Nat \ {0} /\ i + 1 \in DOMAIN s /\ Tail(s)[i] = s[i + 1]
  BY TailIs
<1> QED
  BY <1>1 DEF Ascending, Range

\* What is held back stays in order, and what is dropped is lost.
LEMMA BufferedOut ==
  ASSUME BaseInv, NEW n \in Chunk, Ascending(facade.buffer), Before(Range(facade.buffer), {n})
  PROVE  /\ Ascending(Buffered(n)) /\ n \in Range(Buffered(n))
         /\ Range(Buffered(n)) \subseteq Range(facade.buffer) \cup {n}
<1> DEFINE b == facade.buffer
<1>1. b \in Seq(Chunk) /\ Len(b) <= MaxBuffer /\ Chunk \subseteq Nat /\ MaxBuffer \in Nat \ {0}
  BY Basics, OutBasics, BoundsAssumption
<1>2. PICK t \in Seq(Chunk) : /\ Buffered(n) = Append(t, n) /\ Ascending(t)
                              /\ Range(t) \subseteq Range(b)
  <2>1. CASE Len(b) < MaxBuffer
    BY <1>1, <2>1 DEF Buffered
  <2>2. CASE ~(Len(b) < MaxBuffer)
    <3>1. b # <<>>
      BY <1>1, <2>2
    <3>2. Tail(b) \in Seq(Chunk) /\ Ascending(Tail(b)) /\ Range(Tail(b)) \subseteq Range(b)
      BY <1>1, <3>1, TailOrder
    <3> QED
      BY <2>2, <3>2 DEF Buffered
  <2> QED
    BY <2>1, <2>2
<1> HIDE DEF b
<1>3. Range(Buffered(n)) = Range(t) \cup {n}
  BY <1>2, RangeAppend
<1>4. Ascending(Buffered(n))
  <2>1. Before(Range(t), {n})
    BY <1>2 DEF Before, b
  <2> QED
    BY <1>1, <1>2, <2>1, AscendingAppend
<1> QED
  BY <1>2, <1>3, <1>4 DEF b

\* Everything that exists was written before.
LEMMA MadeBefore ==
  ASSUME NEW m \in Nat, NEW S, S \subseteq 1..m
  PROVE  Before(S, {m + 1}) /\ S \subseteq 1..(m + 1)
  BY DEF Before

LEMMA WriteHeldOut ==
  ASSUME BaseInv, OutInv, NEW n, n = shell.made + 1, n \in Chunk,
         facade.buffering \/ facade.detached \/ ~CurrentOpen, ~facade.closed,
         shell.stage # "none", shell'.made = n,
         facade' = [facade EXCEPT !.buffer = Buffered(n)],
         lost' = lost \cup (Range(facade.buffer) \ Range(Buffered(n))),
         UNCHANGED <<links, panes, transfer>>
  PROVE  OutInv'
<1> DEFINE m == shell.made
<1>1. facade \in Facade /\ m \in Nat /\ facade.buffer \in Seq(Chunk)
  BY Basics, OutBasics
<1>2. /\ facade'.buffer = Buffered(n) /\ facade'.buffering = facade.buffering
      /\ facade'.detached = facade.detached /\ facade'.current = facade.current
      /\ facade'.closed = facade.closed
  BY <1>1 DEF Facade
<1>3. /\ Ascending(facade.buffer) /\ Range(facade.buffer) \subseteq 1..m
      /\ Before(Range(facade.buffer), {n})
  BY <1>1, MadeBefore DEF OutInv, OrderInv
<1>4. /\ Ascending(facade'.buffer) /\ n \in Range(facade'.buffer)
      /\ Range(facade'.buffer) \subseteq Range(facade.buffer) \cup {n}
  BY <1>2, <1>3, BufferedOut
<1>5. shell'.made = n /\ n = m + 1 /\ 1..m \subseteq 1..n /\ 1..n = 1..m \cup {n}
  BY <1>1
<1>6. \A S : S \subseteq 1..m /\ Before(S, Range(facade.buffer)) => Before(S, Range(facade'.buffer))
  BY <1>1, <1>4, <1>5, MadeBefore DEF Before
<1> HIDE DEF m
<1>7. OrderInv'
  <2>1. \A w \in Windows :
          /\ Ascending(panes[w].screen) /\ Ascending(panes[w].saved)
          /\ Range(panes[w].screen) \cup Range(panes[w].saved) \subseteq 1..m
          /\ Before(Range(panes[w].screen) \cup Range(panes[w].saved), Range(facade.buffer))
          /\ panes[w].link # 0 =>
               Before(Range(panes[w].screen), Chunks(links[panes[w].link].down))
    BY DEF OutInv, OrderInv, m
  <2>2. \A l \in DOMAIN links :
          /\ InOrder(links[l].down) /\ Chunks(links[l].down) \subseteq 1..m
          /\ Before(Chunks(links[l].down), Range(facade.buffer))
    BY DEF OutInv, OrderInv, m
  <2>3. Range(facade'.buffer) \subseteq 1..n
    BY <1>3, <1>4, <1>5
  <2>4. \A w \in Windows :
          /\ Range(panes[w].screen) \cup Range(panes[w].saved) \subseteq 1..n
          /\ Before(Range(panes[w].screen) \cup Range(panes[w].saved), Range(facade'.buffer))
    BY <1>5, <1>6, <2>1
  <2>5. \A l \in DOMAIN links :
          /\ Chunks(links[l].down) \subseteq 1..n
          /\ Before(Chunks(links[l].down), Range(facade'.buffer))
    BY <1>5, <1>6, <2>2
  <2>6. links' = links /\ panes' = panes
    OBVIOUS
  <2> QED
    BY <1>4, <1>5, <2>1, <2>2, <2>3, <2>4, <2>5, <2>6 DEF OrderInv
<1>8. HeldInv'
  <2>1. facade.current # 0
    BY Basics DEF StartInv
  <2>2. facade.buffering \/ facade.detached
    BY <2>1 DEF OutInv, HeldInv, CurrentOpen
  <2> QED
    BY <1>2, <2>2 DEF OutInv, HeldInv
<1>9. ArrivedInv'
  <2>1. UNCHANGED <<links, panes, transfer>>
    OBVIOUS
  <2>2. Arrived' = Arrived /\ Preparing' = Preparing
    BY <2>1 DEF Arrived, Preparing
  <2> QED
    BY <1>2, <2>1, <2>2 DEF OutInv, ArrivedInv
<1>10. \A v \in Windows : Waiting(v)' = Waiting(v)
  BY <1>2 DEF Waiting
<1>11. WaitingInv'
  BY <1>2, <1>10 DEF OutInv, WaitingInv, Adopting
<1>12. CoverInv'
  <2> SUFFICES ASSUME ~facade'.closed, facade'.current # 0, NEW w \in Windows
               PROVE  /\ panes'[w].link = facade'.current =>
                           1..shell'.made \subseteq
                             Range(panes'[w].screen) \cup Chunks(links'[facade'.current].down)
                               \cup Range(facade'.buffer) \cup lost'
                      /\ Waiting(w)' =>
                           /\ facade'.buffering
                           /\ ~Has(links'[facade'.current].up, "cancel")
                           /\ 1..shell'.made \subseteq
                                Range(panes'[w].screen) \cup Range(facade'.buffer) \cup lost'
    BY DEF CoverInv
  <2>1. /\ panes[w].link = facade.current =>
             1..m \subseteq Range(panes[w].screen) \cup Chunks(links[facade.current].down)
                              \cup Range(facade.buffer) \cup lost
        /\ Waiting(w) =>
             /\ facade.buffering
             /\ ~Has(links[facade.current].up, "cancel")
             /\ 1..m \subseteq Range(panes[w].screen) \cup Range(facade.buffer) \cup lost
    BY <1>2 DEF OutInv, CoverInv, m
  <2>2. Range(facade.buffer) \cup lost \subseteq Range(facade'.buffer) \cup lost'
    BY <1>2
  <2> QED
    BY <1>2, <1>4, <1>5, <1>10, <2>1, <2>2
<1> QED
  BY <1>7, <1>8, <1>9, <1>11, <1>12 DEF OutInv

\* A chunk on its way.
LEMMA OneChunk ==
  ASSUME NEW n \in Chunk
  PROVE  /\ <<Output(n)>> \in Seq(Downward) /\ Chunks(<<Output(n)>>) = {n}
         /\ InOrder(<<Output(n)>>) /\ ~HasFrame(<<Output(n)>>, "ready")
<1> DEFINE f == <<Output(n)>>
<1>1. f \in Seq(Downward) /\ DOMAIN f = {1} /\ f[1].op = "output" /\ f[1].chunk = n
  BY Frame DEF Output
<1> HIDE DEF f
<1>2. Outputs(f) = {1}
  BY <1>1 DEF Outputs
<1> QED
  BY <1>1, <1>2 DEF Chunks, InOrder, HasFrame, f

LEMMA WriteSentOut ==
  ASSUME BaseInv, OutInv, NEW n, n = shell.made + 1, n \in Chunk,
         ~facade.buffering, ~facade.detached, CurrentOpen, ~facade.closed, shell'.made = n,
         links' = Send(links, facade.current, <<Output(n)>>),
         lost' = IF links[facade.current].cut THEN lost \cup {n} ELSE lost,
         UNCHANGED <<facade, panes, transfer>>
  PROVE  OutInv'
<1> DEFINE m == shell.made
           l == facade.current
           f == <<Output(n)>>
<1>1. /\ links \in Seq(Link) /\ l \in DOMAIN links /\ l # 0 /\ m \in Nat
      /\ links[l] \in Link /\ links[l].down \in Seq(Downward)
      /\ f \in Seq(Downward) /\ Chunks(f) = {n} /\ InOrder(f) /\ ~HasFrame(f, "ready")
  BY Basics, OutBasics, OneChunk DEF CurrentOpen
<1>2. 1..m \subseteq 1..n /\ 1..n = 1..m \cup {n}
  BY <1>1
<1> HIDE DEF m, f
<1>30. links \in Seq(Link) /\ l \in DOMAIN links /\ f \in Seq(Downward)
  BY <1>1
<1>31. SoleChange(links, Send(links, l, f), l) /\ Send(links, l, f)[l] = Sent(links[l], f)
  BY ONLY <1>30, SendIs
<1>32. links' = Send(links, l, f)
  BY DEF f
<1>3. SoleChange(links, links', l) /\ links'[l] = Sent(links[l], f)
  BY <1>31, <1>32
<1> HIDE DEF l
<1>4. /\ links'[l].up = links[l].up /\ links'[l].server = links[l].server
      /\ IF links[l].cut THEN links'[l].down = links[l].down
         ELSE links'[l].down = links[l].down \o f
  BY <1>1, <1>3 DEF Sent, Link
<1>5. facade.buffer = <<>>
  BY DEF OutInv, HeldInv
<1>6. \A S : S \subseteq 1..m => Before(S, {n})
  BY <1>1, MadeBefore DEF m
<1>7. /\ InOrder(links[l].down) /\ Chunks(links[l].down) \subseteq 1..m
      /\ Before(Chunks(links[l].down), {n})
  BY <1>1, <1>6 DEF OutInv, OrderInv, m
<1>8. /\ InOrder(links'[l].down) /\ Chunks(links'[l].down) \subseteq Chunks(links[l].down) \cup {n}
      /\ Chunks(links[l].down) \subseteq Chunks(links'[l].down)
      /\ n \in Chunks(links'[l].down) \cup lost' /\ lost \subseteq lost'
      /\ (HasFrame(links'[l].down, "ready") => HasFrame(links[l].down, "ready"))
  <2>1. CASE links[l].cut
    BY <1>4, <1>7, <2>1 DEF l
  <2>2. CASE ~links[l].cut
    <3>1. links'[l].down = links[l].down \o f /\ lost' = lost
      BY <1>4, <2>2 DEF l
    <3>2. Chunks(links'[l].down) = Chunks(links[l].down) \cup {n}
      BY <1>1, <3>1, ConcatFrames
    <3>3. InOrder(links'[l].down)
      BY <1>1, <1>7, <3>1, ConcatFrames, ZenonT(40)
    <3>4. HasFrame(links'[l].down, "ready") => HasFrame(links[l].down, "ready")
      BY <1>1, <3>1, ConcatFrames, ZenonT(40)
    <3> QED
      BY <3>1, <3>2, <3>3, <3>4
  <2> QED
    BY <2>1, <2>2
<1>9. \A k \in DOMAIN links : k # l => links'[k] = links[k]
  BY <1>3 DEF SoleChange
<1>10. DOMAIN links' = DOMAIN links
  BY <1>3 DEF SoleChange
<1>11. OrderInv'
  <2>1. facade'.buffer = <<>> /\ shell'.made = n
    BY <1>5
  <2>2. ASSUME NEW w \in Windows
        PROVE  /\ Ascending(panes[w].screen) /\ Ascending(panes[w].saved)
               /\ Range(panes[w].screen) \cup Range(panes[w].saved) \subseteq 1..n
               /\ panes[w].link # 0 =>
                    Before(Range(panes[w].screen), Chunks(links'[panes[w].link].down))
    <3>1. /\ Ascending(panes[w].screen) /\ Ascending(panes[w].saved)
          /\ Range(panes[w].screen) \cup Range(panes[w].saved) \subseteq 1..m
          /\ panes[w].link # 0 =>
               Before(Range(panes[w].screen), Chunks(links[panes[w].link].down))
      BY DEF OutInv, OrderInv, m
    <3>2. panes[w].link # 0 => panes[w].link \in DOMAIN links
      BY Basics
    <3>3. Before(Range(panes[w].screen), {n})
      BY <1>6, <3>1
    <3>4. panes[w].link # 0 =>
            Chunks(links'[panes[w].link].down) \subseteq Chunks(links[panes[w].link].down) \cup {n}
      BY <1>8, <1>9, <3>2
    <3> QED
      BY <1>2, <3>1, <3>3, <3>4 DEF Before
  <2>3. ASSUME NEW k \in DOMAIN links
        PROVE  InOrder(links'[k].down) /\ Chunks(links'[k].down) \subseteq 1..n
    <3>1. InOrder(links[k].down) /\ Chunks(links[k].down) \subseteq 1..m
      BY DEF OutInv, OrderInv, m
    <3> QED
      BY <1>2, <1>7, <1>8, <1>9, <3>1
  <2>4. panes' = panes /\ \A S : Before(S, Range(<<>>))
    BY EmptyRange DEF Before
  <2> QED
    BY <1>10, <2>1, <2>2, <2>3, <2>4, EmptyRange DEF OrderInv
<1>12. HeldInv'
  <2>1. links'[l].server = "open" /\ l = facade'.current
    BY <1>4 DEF CurrentOpen, l
  <2> QED
    BY <1>5, <2>1 DEF HeldInv
<1>13. ArrivedInv'
  <2>1. UNCHANGED <<facade, panes, transfer>>
    OBVIOUS
  <2>2. \A k \in DOMAIN links : /\ links'[k].up = links[k].up
                                /\ HasFrame(links'[k].down, "ready") => HasFrame(links[k].down, "ready")
    BY <1>4, <1>8, <1>9
  <2>3. (Arrived => Arrived') /\ Preparing' = Preparing
    BY <1>10, <2>1, <2>2 DEF Arrived, Preparing
  <2> QED
    BY <1>1, <1>10, <2>1, <2>2, <2>3 DEF OutInv, ArrivedInv, l
<1>14. \A v \in Windows : Waiting(v)' = Waiting(v)
  <2>1. \A v \in Windows : panes[v].link # 0 => panes[v].link \in DOMAIN links
    BY Basics
  <2> QED
    BY <1>4, <1>9, <2>1 DEF Waiting
<1>15. WaitingInv'
  BY <1>14 DEF OutInv, WaitingInv, Adopting
<1>16. CoverInv'
  <2> SUFFICES ASSUME NEW w \in Windows
               PROVE  /\ panes'[w].link = facade'.current =>
                           1..shell'.made \subseteq
                             Range(panes'[w].screen) \cup Chunks(links'[facade'.current].down)
                               \cup Range(facade'.buffer) \cup lost'
                      /\ ~Waiting(w)'
    BY DEF CoverInv
  <2>1. /\ panes[w].link = l =>
             1..m \subseteq Range(panes[w].screen) \cup Chunks(links[l].down)
                              \cup Range(facade.buffer) \cup lost
        /\ Waiting(w) => facade.buffering
    BY <1>1 DEF OutInv, CoverInv, m, l
  <2>2. UNCHANGED <<facade, panes>> /\ shell'.made = n
    OBVIOUS
  <2> QED
    BY <1>2, <1>8, <1>14, <2>1, <2>2 DEF l
<1> QED
  BY <1>11, <1>12, <1>13, <1>15, <1>16 DEF OutInv

LEMMA WriteOut ==
  ASSUME BaseInv, OutInv, Write
  PROVE  OutInv'
<1> DEFINE n == shell.made + 1
<1>1. /\ shell.stage # "none" /\ ~facade.closed /\ shell.made < MaxOutput
      /\ shell' = [shell EXCEPT !.made = n] /\ UNCHANGED <<panes, transfer>>
  BY DEF Write
<1>2. shell \in Shell /\ shell.made \in Nat /\ MaxOutput \in Nat
  BY Basics, OutBasics, BoundsAssumption
<1>3. n \in Chunk /\ shell'.made = n
  BY <1>1, <1>2 DEF Chunk, Shell
<1>4. CASE facade.buffering \/ facade.detached \/ ~CurrentOpen
  <2>1. /\ facade' = [facade EXCEPT !.buffer = Buffered(n)]
        /\ lost' = lost \cup (Range(facade.buffer) \ Range(Buffered(n)))
        /\ links' = links
    BY <1>4 DEF Write
  <2> QED
    BY <1>1, <1>3, <1>4, <2>1, WriteHeldOut
<1>5. CASE ~(facade.buffering \/ facade.detached \/ ~CurrentOpen)
  <2>1. /\ links' = Send(links, facade.current, <<Output(n)>>)
        /\ lost' = (IF links[facade.current].cut THEN lost \cup {n} ELSE lost)
        /\ facade' = facade
    BY <1>5 DEF Write
  <2> HIDE DEF n
  <2> QED
    BY <1>1, <1>3, <1>5, <2>1, WriteSentOut DEF n
<1> QED
  BY <1>4, <1>5

-----------------------------------------------------------------------------
(* The server holds output back, and releases it                           *)

\* What the answer to a request leaves on its connection.
LEMMA AnswerIs ==
  ASSUME BaseInv, NEW l \in DOMAIN links, links[l].up # <<>>, NEW f \in Seq(Downward),
         links' = Send(Read(l), l, f)
  PROVE  /\ SoleChange(links, links', l)
         /\ links'[l].server = links[l].server
         /\ \A op : Has(links'[l].up, op) => Has(links[l].up, op)
         /\ IF links[l].cut THEN links'[l].down = links[l].down
            ELSE links'[l].down = links[l].down \o f
<1> DEFINE ms == Read(l)
<1>1. links \in Seq(Link) /\ links[l] \in Link /\ links[l].up \in Seq(Upward)
  BY Basics, OutBasics
<1>2. SoleChange(links, ms, l) /\ ms[l] = [links[l] EXCEPT !.up = Tail(links[l].up)]
  BY <1>1, ReadIs DEF Read
<1> HIDE DEF ms
<1>3. /\ ms \in Seq(Link) /\ l \in DOMAIN ms /\ ms[l] \in Link
      /\ ms[l].up = Tail(links[l].up) /\ ms[l].down = links[l].down
      /\ ms[l].server = links[l].server /\ ms[l].cut = links[l].cut
  <2>1. ms \in Seq(Link) /\ l \in DOMAIN ms
    BY <1>2 DEF SoleChange
  <2>2. /\ ms[l].up = Tail(links[l].up) /\ ms[l].down = links[l].down
        /\ ms[l].server = links[l].server /\ ms[l].cut = links[l].cut
    BY <1>1, <1>2 DEF Link
  <2> QED
    BY <2>1, <2>2
<1>4. links' = Send(ms, l, f)
  BY DEF ms
<1>5. SoleChange(ms, links', l) /\ links'[l] = Sent(ms[l], f)
  BY <1>3, <1>4, SendIs
<1>6. /\ links'[l].server = ms[l].server /\ links'[l].up = ms[l].up
      /\ IF ms[l].cut THEN links'[l].down = ms[l].down
         ELSE links'[l].down = ms[l].down \o f
  BY <1>3, <1>5 DEF Sent, Link
<1>7. SoleChange(links, links', l)
  BY <1>2, <1>5 DEF SoleChange
<1>8. \A op : Has(Tail(links[l].up), op) => Has(links[l].up, op)
  BY <1>1, HasTail
<1> QED
  BY <1>3, <1>6, <1>7, <1>8

LEMMA HeadHas ==
  ASSUME NEW T, NEW s \in Seq(T), s # <<>>
  PROVE  Has(s, Head(s))
  BY TailIs DEF Has

\* Who waits does so still when the connections only get on.
LEMMA WaitersSame ==
  ASSUME BaseInv, WaitingInv, UNCHANGED <<panes, transfer>>, facade'.current = facade.current,
         \A k \in DOMAIN links : links'[k].server = links[k].server
  PROVE  WaitingInv' /\ \A v \in Windows : Waiting(v)' = Waiting(v)
<1>1. \A v \in Windows : panes[v].link # 0 => panes[v].link \in DOMAIN links
  BY Basics
<1>2. \A v \in Windows : Waiting(v)' = Waiting(v)
  BY <1>1 DEF Waiting
<1> QED
  BY <1>2 DEF WaitingInv, Adopting

LEMMA OnPrepareOut ==
  ASSUME BaseInv, BaseInv', OutInv, NEW l \in DOMAIN links, OnPrepare(l)
  PROVE  OutInv'
<1> DEFINE f == <<Control("ready")>>
<1>1. links[l].up # <<>> /\ Head(links[l].up) = "prepare"
      /\ UNCHANGED <<shell, panes, transfer, lost, faults>>
  BY DEF OnPrepare, Reads
<1>2. CASE ~Bound(l)
  <2>1. facade' = facade /\ links' = Read(l)
    BY <1>2 DEF OnPrepare
  <2> QED
    BY <1>1, <2>1, ReadOut
<1>3. CASE Bound(l)
  <2>1. /\ facade' = [facade EXCEPT !.buffering = TRUE] /\ links' = Send(Read(l), l, f)
        /\ l = facade.current /\ ~facade.closed /\ l # 0
    BY <1>3, Basics DEF OnPrepare, Bound
  <2>2. /\ f \in Seq(Downward) /\ Chunks(f) = {} /\ InOrder(f) /\ Settled(f) /\ Outputs(f) = {}
    <3>1. f \in Seq(Downward) /\ \A i \in DOMAIN f : f[i].op # "output"
      BY Frame DEF Control
    <3> HIDE DEF f
    <3> QED
      BY <3>1, NoOutput
  <2> HIDE DEF f
  <2>3. /\ SoleChange(links, links', l) /\ links'[l].server = links[l].server
        /\ \A op : Has(links'[l].up, op) => Has(links[l].up, op)
        /\ IF links[l].cut THEN links'[l].down = links[l].down
           ELSE links'[l].down = links[l].down \o f
    BY <1>1, <2>1, <2>2, AnswerIs
  <2>4. /\ facade'.buffer = facade.buffer /\ facade'.buffering
        /\ facade'.detached = facade.detached /\ facade'.current = facade.current
        /\ facade'.closed = facade.closed
    BY <2>1, Basics DEF Facade
  <2>5. /\ links[l].down \in Seq(Downward) /\ links[l].up \in Seq(Upward)
        /\ InOrder(links[l].down)
    BY OutBasics DEF OutInv, OrderInv
  <2>6. Before(Chunks(links[l].down), Chunks(f))
    BY <2>2 DEF Before
  <2>7. InOrder(links'[l].down) /\ Chunks(links'[l].down) = Chunks(links[l].down)
    <3>1. InOrder(links[l].down \o f)
      BY <2>2, <2>5, <2>6, ConcatFrames
    <3>2. Chunks(links[l].down \o f) = Chunks(links[l].down)
      <4>1. Chunks(links[l].down \o f) = Chunks(links[l].down) \cup Chunks(f)
        BY <2>2, <2>5, ConcatFrames
      <4> QED
        BY <2>2, <4>1
    <3> QED
      BY <2>3, <2>5, <3>1, <3>2
  <2>8. /\ \A k \in DOMAIN links : k # l => links'[k] = links[k]
        /\ DOMAIN links' = DOMAIN links
    BY <2>3 DEF SoleChange
  <2>9. OrderInv'
    <3>1. \A k \in DOMAIN links : /\ InOrder(links'[k].down)
                                  /\ Chunks(links'[k].down) \subseteq Chunks(links[k].down)
      BY <2>7, <2>8 DEF OutInv, OrderInv
    <3>2. \A w \in Windows : panes[w].link # 0 => panes[w].link \in DOMAIN links
      BY Basics
    <3>3. /\ shell'.made = shell.made /\ panes' = panes
          /\ \A w \in Windows : panes'[w].screen \in Screens /\ panes'[w].saved \in Screens
      BY <1>1 DEF Screens
    <3> QED
      BY <2>4, <2>8, <3>1, <3>2, <3>3, OrderStep DEF OutInv
  <2>10. HeldInv'
    BY <2>1, <2>3, <2>4 DEF OutInv, HeldInv
  <2>11. ArrivedInv'
    <3>1. ~Arrived
      <4>1. Has(links[l].up, "prepare")
        BY <1>1, <2>5, HeadHas
      <4> QED
        BY <4>1 DEF Arrived
    <3>2. ~(~transfer'.claimed /\ transfer'.from # {})
      BY <1>1, <3>1 DEF OutInv, ArrivedInv
    <3>3. ASSUME Preparing', transfer'.claim # {}
          PROVE  /\ \A k \in DOMAIN links' : ~Has(links'[k].up, "cancel")
                 /\ facade'.buffering /\ Settled(links'[facade'.current].down)
      <4>1. Preparing /\ transfer.claim # {}
        BY <1>1, <3>3 DEF Preparing
      <4>2. \A k \in DOMAIN links : ~Has(links[k].up, "cancel")
        BY <4>1 DEF OutInv, ArrivedInv
      <4>3. Settled(links[l].down)
        <5>1. CASE HasFrame(links[l].down, "ready")
          BY <2>1, <4>1, <5>1 DEF OutInv, ArrivedInv
        <5>2. CASE ~HasFrame(links[l].down, "ready")
          BY <5>2 DEF HasFrame, Settled
        <5> QED
          BY <5>1, <5>2
      <4>4. Settled(links[l].down \o f)
        BY <2>2, <2>5, <4>3, ConcatFrames
      <4>5. Settled(links'[l].down)
        BY <2>3, <4>3, <4>4
      <4>6. \A k \in DOMAIN links' : ~Has(links'[k].up, "cancel")
        BY <2>3, <2>8, <4>2
      <4> QED
        BY <2>1, <2>4, <4>5, <4>6
    <3> QED
      BY <3>2, <3>3 DEF ArrivedInv
  <2>12. WaitingInv' /\ \A v \in Windows : Waiting(v)' = Waiting(v)
    <3>1. \A k \in DOMAIN links : links'[k].server = links[k].server
      BY <2>3, <2>8
    <3> QED
      BY <1>1, <2>4, <3>1, WaitersSame DEF OutInv
  <2>13. CoverInv'
    <3> SUFFICES ASSUME NEW w \in Windows
                 PROVE  /\ panes'[w].link = facade'.current =>
                             1..shell'.made \subseteq
                               Range(panes'[w].screen) \cup Chunks(links'[facade'.current].down)
                                 \cup Range(facade'.buffer) \cup lost'
                        /\ Waiting(w)' =>
                             /\ facade'.buffering
                             /\ ~Has(links'[facade'.current].up, "cancel")
                             /\ 1..shell'.made \subseteq
                                  Range(panes'[w].screen) \cup Range(facade'.buffer) \cup lost'
      BY DEF CoverInv
    <3>1. /\ panes[w].link = facade.current =>
               1..shell.made \subseteq Range(panes[w].screen)
                 \cup Chunks(links[facade.current].down) \cup Range(facade.buffer) \cup lost
          /\ Waiting(w) =>
               /\ ~Has(links[facade.current].up, "cancel")
               /\ 1..shell.made \subseteq Range(panes[w].screen) \cup Range(facade.buffer) \cup lost
      BY <2>1 DEF OutInv, CoverInv
    <3> QED
      BY <1>1, <2>1, <2>3, <2>4, <2>7, <2>12, <3>1
  <2> QED
    BY <2>9, <2>10, <2>11, <2>12, <2>13 DEF OutInv
<1> QED
  BY <1>2, <1>3

LEMMA OnCancelOut ==
  ASSUME BaseInv, BaseInv', OutInv, NEW l \in DOMAIN links, OnCancel(l)
  PROVE  OutInv'
<1> DEFINE f == Frames(facade.buffer)
<1>1. links[l].up # <<>> /\ Head(links[l].up) = "cancel"
      /\ UNCHANGED <<shell, panes, transfer, faults>>
  BY DEF OnCancel, Reads
<1>2. CASE ~Bound(l)
  <2>1. facade' = facade /\ links' = Read(l) /\ lost' = lost
    BY <1>2 DEF OnCancel
  <2> QED
    BY <1>1, <2>1, ReadOut
<1>3. CASE Bound(l)
  <2>1. /\ facade' = [facade EXCEPT !.buffering = FALSE, !.buffer = <<>>]
        /\ links' = Send(Read(l), l, f) /\ lost' = lost \cup FlushLost(l)
        /\ l = facade.current /\ ~facade.closed /\ l # 0
    BY <1>3, Basics DEF OnCancel, Bound
  <2>2. f \in Seq(Downward) /\ Chunks(f) = Range(facade.buffer) /\ InOrder(f)
    <3>1. facade.buffer \in Seq(Chunk) /\ Ascending(facade.buffer)
      BY Basics DEF OutInv, OrderInv
    <3> QED
      BY <3>1, FramesAre
  <2> HIDE DEF f
  <2>3. /\ SoleChange(links, links', l) /\ links'[l].server = links[l].server
        /\ \A op : Has(links'[l].up, op) => Has(links[l].up, op)
        /\ IF links[l].cut THEN links'[l].down = links[l].down
           ELSE links'[l].down = links[l].down \o f
    BY <1>1, <2>1, <2>2, AnswerIs
  <2>4. /\ facade'.buffer = <<>> /\ facade'.detached = facade.detached
        /\ facade'.current = facade.current /\ facade'.closed = facade.closed
    BY <2>1, Basics DEF Facade
  <2>5. /\ links[l].down \in Seq(Downward) /\ links[l].up \in Seq(Upward)
        /\ InOrder(links[l].down) /\ Before(Chunks(links[l].down), Range(facade.buffer))
        /\ Chunks(links[l].down) \subseteq 1..shell.made
        /\ Range(facade.buffer) \subseteq 1..shell.made
    BY OutBasics DEF OutInv, OrderInv
  <2>6. /\ InOrder(links'[l].down)
        /\ Chunks(links'[l].down) \subseteq Chunks(links[l].down) \cup Range(facade.buffer)
        /\ Chunks(links[l].down) \cup Range(facade.buffer) \subseteq Chunks(links'[l].down) \cup lost'
    <3>1. CASE links[l].cut
      BY <2>1, <2>3, <2>5, <3>1 DEF FlushLost
    <3>2. CASE ~links[l].cut
      <4>1. links'[l].down = links[l].down \o f
        BY <2>3, <3>2
      <4>2. InOrder(links'[l].down)
        BY <2>2, <2>5, <4>1, ConcatFrames
      <4>3. Chunks(links'[l].down) = Chunks(links[l].down) \cup Range(facade.buffer)
        BY <2>2, <2>5, <4>1, ConcatFrames
      <4> QED
        BY <4>2, <4>3
    <3> QED
      BY <3>1, <3>2
  <2>7. /\ \A k \in DOMAIN links : k # l => links'[k] = links[k]
        /\ DOMAIN links' = DOMAIN links
    BY <2>3 DEF SoleChange
  <2>8. OrderInv'
    <3>1. shell'.made = shell.made /\ panes' = panes
      BY <1>1
    <3>2. ASSUME NEW w \in Windows
          PROVE  /\ Ascending(panes[w].screen) /\ Ascending(panes[w].saved)
                 /\ Range(panes[w].screen) \cup Range(panes[w].saved) \subseteq 1..shell.made
                 /\ panes[w].link # 0 =>
                      Before(Range(panes[w].screen), Chunks(links'[panes[w].link].down))
      <4>1. /\ Ascending(panes[w].screen) /\ Ascending(panes[w].saved)
            /\ Range(panes[w].screen) \cup Range(panes[w].saved) \subseteq 1..shell.made
            /\ Before(Range(panes[w].screen), Range(facade.buffer))
            /\ panes[w].link # 0 =>
                 Before(Range(panes[w].screen), Chunks(links[panes[w].link].down))
        BY DEF OutInv, OrderInv, Before
      <4>2. panes[w].link # 0 => panes[w].link \in DOMAIN links
        BY Basics
      <4>3. panes[w].link # 0 => Chunks(links'[panes[w].link].down) \subseteq
                                   Chunks(links[panes[w].link].down) \cup Range(facade.buffer)
        BY <2>6, <2>7, <4>2
      <4> QED
        BY <4>1, <4>3 DEF Before
    <3>3. ASSUME NEW k \in DOMAIN links
          PROVE  InOrder(links'[k].down) /\ Chunks(links'[k].down) \subseteq 1..shell.made
      <4>1. InOrder(links[k].down) /\ Chunks(links[k].down) \subseteq 1..shell.made
        BY DEF OutInv, OrderInv
      <4> QED
        BY <2>5, <2>6, <2>7, <4>1
    <3>4. \A S : Before(S, Range(<<>>))
      BY EmptyRange DEF Before
    <3> QED
      BY <2>4, <2>7, <3>1, <3>2, <3>3, <3>4, EmptyRange DEF OrderInv
  <2>9. HeldInv'
    BY <2>1, <2>3, <2>4 DEF OutInv, HeldInv
  <2>10. Has(links[l].up, "cancel")
    BY <1>1, <2>5, HeadHas
  <2>11. ArrivedInv'
    <3>1. ~Arrived
      BY <2>10 DEF Arrived
    <3>2. ~(~transfer'.claimed /\ transfer'.from # {})
      BY <1>1, <3>1 DEF OutInv, ArrivedInv
    <3>3. ~(Preparing' /\ transfer'.claim # {})
      BY <1>1, <2>10 DEF OutInv, ArrivedInv, Preparing
    <3> QED
      BY <3>2, <3>3 DEF ArrivedInv
  <2>12. WaitingInv' /\ \A v \in Windows : Waiting(v)' = Waiting(v)
    <3>1. \A k \in DOMAIN links : links'[k].server = links[k].server
      BY <2>3, <2>7
    <3> QED
      BY <1>1, <2>4, <3>1, WaitersSame DEF OutInv
  <2>13. CoverInv'
    <3> SUFFICES ASSUME NEW w \in Windows
                 PROVE  /\ panes'[w].link = facade'.current =>
                             1..shell'.made \subseteq
                               Range(panes'[w].screen) \cup Chunks(links'[facade'.current].down)
                                 \cup Range(facade'.buffer) \cup lost'
                        /\ ~Waiting(w)'
      BY DEF CoverInv
    <3>1. /\ panes[w].link = facade.current =>
               1..shell.made \subseteq Range(panes[w].screen)
                 \cup Chunks(links[facade.current].down) \cup Range(facade.buffer) \cup lost
          /\ Waiting(w) => ~Has(links[facade.current].up, "cancel")
      BY <2>1 DEF OutInv, CoverInv
    <3>2. ~Waiting(w)'
      BY <2>1, <2>10, <2>12, <3>1
    <3>3. lost \subseteq lost' /\ shell' = shell /\ panes' = panes
      BY <1>1, <2>1
    <3> QED
      BY <2>1, <2>4, <2>6, <3>1, <3>2, <3>3
  <2> QED
    BY <2>8, <2>9, <2>11, <2>12, <2>13 DEF OutInv
<1> QED
  BY <1>2, <1>3

-----------------------------------------------------------------------------
(* A connection takes the terminal                                         *)

\* Nobody waits for what has just come to be current.
LEMMA NoneWaits ==
  ASSUME BaseInv, NEW l \in DOMAIN links, links[l].server = "none", facade'.current = l,
         panes' = panes
  PROVE  (\A v \in Windows : ~Waiting(v)') /\ WaitingInv'
<1>1. \A v \in Windows : panes[v].after # 0 => links[panes[v].after].server # "none"
  BY Basics DEF PanesInv
<1>2. \A v \in Windows : ~Waiting(v)'
  BY <1>1 DEF Waiting
<1> QED
  BY <1>2 DEF WaitingInv

LEMMA ArrivedNew ==
  ASSUME OutInv, UNCHANGED <<panes, transfer>>, DOMAIN links' = DOMAIN links,
         \A k \in DOMAIN links :
           /\ \A op \in {"prepare", "cancel"} : Has(links'[k].up, op) => Has(links[k].up, op)
           /\ HasFrame(links'[k].down, "ready") => HasFrame(links[k].down, "ready"),
         ~HasFrame(links'[facade'.current].down, "ready")
  PROVE  ArrivedInv'
<1>1. Arrived => Arrived'
  BY DEF Arrived
<1>2. Preparing' = Preparing
  BY DEF Preparing
<1> QED
  BY <1>1, <1>2 DEF OutInv, ArrivedInv

LEMMA AcceptNewOut ==
  ASSUME BaseInv, BaseInv', OutInv, NEW l \in DOMAIN links, AcceptNew(l)
  PROVE  OutInv'
<1> DEFINE f == <<Control("session")>>
           ms == [links EXCEPT ![l].server = "open"]
<1>1. /\ links[l].server = "none" /\ ~links[l].resumes /\ facade' = [facade EXCEPT !.current = l]
      /\ links' = Send(ms, l, f) /\ UNCHANGED <<panes, transfer, lost, faults>>
  BY DEF AcceptNew, Arrives
<1>2. shell'.made = shell.made
  BY Basics DEF AcceptNew, Shell
<1>3. l = 1 /\ facade.current = 0 /\ links[l].down = <<>>
  <2>1. (links[l].resumes <=> l # 1) /\ l > facade.current /\ links[l].down = <<>>
    BY <1>1, Basics DEF LinksInv
  <2> QED
    BY <1>1, <2>1, Basics
<1>4. /\ shell.made = 0 /\ ~facade.closed
  BY <1>3, Basics DEF StartInv
<1>5. f \in Seq(Downward) /\ Outputs(f) = {} /\ ~HasFrame(f, "ready")
  BY EndFrames
<1> HIDE DEF f
<1>6. SoleChange(links, ms, l) /\ ms[l] = [links[l] EXCEPT !.server = "open"]
  BY Basics, AcceptOnward
<1> HIDE DEF ms
<1>7. links[l] \in Link /\ ms \in Seq(Link) /\ l \in DOMAIN ms /\ DOMAIN ms = DOMAIN links
  BY <1>6, Basics DEF SoleChange
<1>8. /\ ms[l].down = <<>> /\ ms[l].up = links[l].up /\ ms[l].server = "open" /\ ms[l] \in Link
  BY <1>3, <1>6, <1>7 DEF Link
<1>9. SoleChange(ms, links', l) /\ links'[l] = Sent(ms[l], f)
  BY <1>1, <1>5, <1>7, SendIs
<1>10. /\ links'[l].down \in {ms[l].down, ms[l].down \o f}
       /\ links'[l].up = links[l].up /\ links'[l].server = "open"
  BY <1>8, <1>9 DEF Sent, Link
<1>11. InOrder(links'[l].down) /\ Chunks(links'[l].down) = {} /\ ~HasFrame(links'[l].down, "ready")
  <2>1. <<>> \in Seq(Downward) /\ ~HasFrame(<<>>, "ready")
    BY EndFrames
  <2>2. Dwindles(<<>>, <<>> \o f) /\ Chunks(<<>> \o f) = Chunks(<<>>)
    BY <1>5, <2>1, DwindlesEnd
  <2> QED
    BY <1>8, <1>10, <2>1, <2>2, EmptyRange DEF Dwindles
<1>12. /\ DOMAIN links' = DOMAIN links
       /\ \A k \in DOMAIN links : k # l => links'[k] = links[k]
  BY <1>6, <1>9 DEF SoleChange
<1>13. /\ facade'.current = l /\ facade'.closed = facade.closed /\ facade'.buffer = facade.buffer
       /\ facade'.buffering = facade.buffering /\ facade'.detached = facade.detached
  BY <1>1, Basics DEF Facade
<1>14. OrderInv'
  <2>1. \A k \in DOMAIN links : /\ InOrder(links'[k].down)
                                /\ Chunks(links'[k].down) \subseteq Chunks(links[k].down)
    BY <1>11, <1>12 DEF OutInv, OrderInv
  <2>2. \A w \in Windows : panes[w].link # 0 => panes[w].link \in DOMAIN links
    BY Basics
  <2>3. panes' = panes /\ \A w \in Windows : panes'[w].screen \in Screens /\ panes'[w].saved \in Screens
    BY <1>1 DEF Screens
  <2> QED
    BY <1>2, <1>12, <1>13, <2>1, <2>2, <2>3, OrderStep DEF OutInv
<1>15. HeldInv'
  BY <1>10, <1>13 DEF OutInv, HeldInv
<1>16. ArrivedInv'
  BY <1>1, <1>10, <1>11, <1>12, <1>13, ArrivedNew
<1>17. (\A v \in Windows : ~Waiting(v)') /\ WaitingInv'
  BY <1>1, <1>13, NoneWaits
<1>18. CoverInv'
  <2>1. 1..shell'.made = {}
    BY <1>2, <1>4
  <2> QED
    BY <1>17, <2>1 DEF CoverInv
<1> QED
  BY <1>14, <1>15, <1>16, <1>17, <1>18 DEF OutInv

\* What a connection is sent as it takes the terminal over.
LEMMA GreetingIs ==
  ASSUME BaseInv, OutInv
  PROVE  LET g == <<Control("session")>> \o Frames(facade.buffer)
         IN /\ g \in Seq(Downward) /\ Chunks(g) = Range(facade.buffer) /\ InOrder(g)
            /\ ~HasFrame(g, "ready")
            /\ Chunks(<<>> \o g) = Range(facade.buffer) /\ InOrder(<<>> \o g)
            /\ ~HasFrame(<<>> \o g, "ready")
<1> DEFINE s == <<Control("session")>>
           f == Frames(facade.buffer)
           g == s \o f
           e == <<>> \o g
<1>1. facade.buffer \in Seq(Chunk) /\ Ascending(facade.buffer)
  BY Basics DEF OutInv, OrderInv
<1>2. /\ f \in Seq(Downward) /\ Chunks(f) = Range(facade.buffer) /\ InOrder(f)
      /\ ~HasFrame(f, "ready")
  BY <1>1, FramesAre
<1>3. s \in Seq(Downward) /\ Outputs(s) = {} /\ ~HasFrame(s, "ready")
  BY EndFrames
<1>4. Chunks(s) = {} /\ InOrder(s)
  BY <1>3 DEF Chunks, InOrder
<1> HIDE DEF s, f
<1>5. g \in Seq(Downward)
  BY <1>2, <1>3
<1>6. Chunks(g) = Chunks(s) \cup Chunks(f) /\ (HasFrame(g, "ready") => HasFrame(s, "ready") \/ HasFrame(f, "ready"))
  BY <1>2, <1>3, ConcatFrames
<1>7. InOrder(g)
  <2>1. Before(Chunks(s), Chunks(f))
    BY <1>4 DEF Before
  <2> QED
    BY <1>2, <1>3, <1>4, <2>1, ConcatFrames
<1>8. Chunks(g) = Range(facade.buffer) /\ ~HasFrame(g, "ready")
  BY <1>2, <1>3, <1>4, <1>6
<1> HIDE DEF g
<1>9. <<>> \in Seq(Downward) /\ Chunks(<<>>) = {} /\ InOrder(<<>>) /\ ~HasFrame(<<>>, "ready")
  BY EndFrames, EmptyRange
<1>10. /\ Chunks(e) = Chunks(<<>>) \cup Chunks(g)
       /\ (HasFrame(e, "ready") => HasFrame(<<>>, "ready") \/ HasFrame(g, "ready"))
  BY <1>5, <1>9, ConcatFrames
<1>11. InOrder(e)
  <2>1. Before(Chunks(<<>>), Chunks(g))
    BY <1>9 DEF Before
  <2> QED
    BY <1>5, <1>7, <1>9, <2>1, ConcatFrames
<1>12. Chunks(e) = Range(facade.buffer) /\ ~HasFrame(e, "ready")
  BY <1>8, <1>9, <1>10
<1> QED
  BY <1>5, <1>7, <1>8, <1>11, <1>12 DEF e, g, f, s

\* What the connections are after it.
LEMMA AttachLinks ==
  ASSUME BaseInv, OutInv, NEW l \in DOMAIN links, Attach(l)
  PROVE  /\ DOMAIN links' = DOMAIN links /\ l # facade.current /\ facade.current # 0
         /\ links[l].server = "none" /\ links'[l].server = "open"
         /\ facade.current \in DOMAIN links
         /\ \A k \in DOMAIN links :
              /\ \A op \in {"prepare", "cancel"} : Has(links'[k].up, op) => Has(links[k].up, op)
              /\ HasFrame(links'[k].down, "ready") => HasFrame(links[k].down, "ready")
              /\ k # l => /\ Chunks(links'[k].down) = Chunks(links[k].down)
                          /\ InOrder(links'[k].down)
         /\ InOrder(links'[l].down) /\ ~HasFrame(links'[l].down, "ready")
         /\ Chunks(links'[l].down) \subseteq Range(facade.buffer)
         /\ ~links[l].cut => Chunks(links'[l].down) = Range(facade.buffer)
<1> DEFINE c == facade.current
           g == <<Control("session")>> \o Frames(facade.buffer)
           o == [links[l] EXCEPT !.server = "open"]
<1>1. /\ c \in DOMAIN links /\ l > c /\ links[l].server = "none" /\ links[l].down = <<>>
      /\ Onward(links, links', {}) /\ links'[l].server = "open"
      /\ \A k \in DOMAIN links \ {l, c} : links'[k] = links[k]
      /\ links'[c] = Closing(links[c]) /\ links'[l] = Sent(o, g)
  BY AttachIs
<1>2. /\ g \in Seq(Downward) /\ Chunks(<<>> \o g) = Range(facade.buffer) /\ InOrder(<<>> \o g)
      /\ ~HasFrame(<<>> \o g, "ready")
  BY GreetingIs
<1> HIDE DEF g
<1>3. links \in Seq(Link) /\ links[l] \in Link /\ c \in Nat /\ l \in Nat
  BY <1>1, Basics
<1>4. /\ o.down = <<>> /\ o.up = links[l].up /\ o.cut = links[l].cut /\ o \in Link
  BY <1>1, <1>3 DEF Link
<1> HIDE DEF o, c
<1>5. /\ links'[l].up = links[l].up
      /\ IF links[l].cut THEN links'[l].down = <<>> ELSE links'[l].down = <<>> \o g
  BY <1>1, <1>4 DEF Sent, Link
<1>6. /\ InOrder(links'[l].down) /\ ~HasFrame(links'[l].down, "ready")
      /\ Chunks(links'[l].down) \subseteq Range(facade.buffer)
      /\ ~links[l].cut => Chunks(links'[l].down) = Range(facade.buffer)
  <2>1. InOrder(<<>>) /\ Chunks(<<>>) = {} /\ ~HasFrame(<<>>, "ready")
    BY EmptyRange, EndFrames
  <2>2. CASE links[l].cut
    BY <1>5, <2>1, <2>2
  <2>3. CASE ~links[l].cut
    BY <1>2, <1>5, <2>3
  <2> QED
    BY <2>2, <2>3
<1>7. /\ Dwindles(links[c].down, links'[c].down)
      /\ Chunks(links'[c].down) = Chunks(links[c].down)
      /\ \A op \in {"prepare", "cancel"} : Has(links'[c].up, op) => Has(links[c].up, op)
  <2>1. Closing(links[c]) = ServerCloses(links, c)[c]
    BY <1>1, <1>3, ServerClosesIs
  <2>2. /\ Quiet(links, ServerCloses(links, c), {})
        /\ Chunks(ServerCloses(links, c)[c].down) = Chunks(links[c].down)
    BY <1>1, <1>3, ServerClosesQuiet
  <2> QED
    BY <1>1, <2>1, <2>2 DEF Quiet
<1>8. DOMAIN links' = DOMAIN links
  BY <1>1 DEF Onward
<1>9. \A k \in DOMAIN links : InOrder(links[k].down)
  BY DEF OutInv, OrderInv
<1>10. ASSUME NEW k \in DOMAIN links
       PROVE  /\ \A op \in {"prepare", "cancel"} : Has(links'[k].up, op) => Has(links[k].up, op)
              /\ HasFrame(links'[k].down, "ready") => HasFrame(links[k].down, "ready")
              /\ k # l => /\ Chunks(links'[k].down) = Chunks(links[k].down)
                          /\ InOrder(links'[k].down)
  <2>1. CASE k = l
    BY <1>5, <1>6, <2>1
  <2>2. CASE k = c
    BY <1>7, <1>9, <2>2 DEF Dwindles
  <2>3. CASE k # l /\ k # c
    BY <1>1, <1>9, <2>3
  <2> QED
    BY <2>1, <2>2, <2>3
<1>11. l # c /\ c # 0
  BY <1>1, <1>3
<1> QED
  BY <1>1, <1>6, <1>8, <1>10, <1>11 DEF c

LEMMA AttachOut ==
  ASSUME BaseInv, BaseInv', OutInv, NEW l \in DOMAIN links, Attach(l)
  PROVE  OutInv'
<1>1. /\ DOMAIN links' = DOMAIN links /\ l # facade.current /\ facade.current # 0
      /\ links[l].server = "none" /\ links'[l].server = "open"
      /\ facade.current \in DOMAIN links
  BY AttachLinks
<1>2. \A k \in DOMAIN links :
        /\ \A op \in {"prepare", "cancel"} : Has(links'[k].up, op) => Has(links[k].up, op)
        /\ HasFrame(links'[k].down, "ready") => HasFrame(links[k].down, "ready")
        /\ k # l => /\ Chunks(links'[k].down) = Chunks(links[k].down)
                    /\ InOrder(links'[k].down)
  BY AttachLinks
<1>3. /\ InOrder(links'[l].down) /\ ~HasFrame(links'[l].down, "ready")
      /\ Chunks(links'[l].down) \subseteq Range(facade.buffer)
      /\ ~links[l].cut => Chunks(links'[l].down) = Range(facade.buffer)
  BY AttachLinks
<1>4. /\ facade'.current = l /\ ~facade.closed /\ ~facade'.closed /\ facade'.buffer = <<>>
      /\ UNCHANGED <<shell, panes, transfer>>
  BY Basics DEF Attach, Facade
<1>5. (\A v \in Windows : ~Waiting(v)') /\ WaitingInv'
  BY <1>1, <1>4, NoneWaits
<1>6. OrderInv'
  <2>1. \A S : Before(S, Range(<<>>))
    BY EmptyRange DEF Before
  <2>2. ASSUME NEW w \in Windows
        PROVE  /\ Ascending(panes[w].screen) /\ Ascending(panes[w].saved)
               /\ Range(panes[w].screen) \cup Range(panes[w].saved) \subseteq 1..shell.made
               /\ panes[w].link # 0 =>
                    Before(Range(panes[w].screen), Chunks(links'[panes[w].link].down))
    <3>1. /\ Ascending(panes[w].screen) /\ Ascending(panes[w].saved)
          /\ Range(panes[w].screen) \cup Range(panes[w].saved) \subseteq 1..shell.made
          /\ Before(Range(panes[w].screen), Range(facade.buffer))
          /\ panes[w].link # 0 =>
               Before(Range(panes[w].screen), Chunks(links[panes[w].link].down))
      BY DEF OutInv, OrderInv, Before
    <3>2. panes[w].link # 0 => panes[w].link \in DOMAIN links
      BY Basics
    <3>3. CASE panes[w].link = l
      BY <1>3, <3>1, <3>3 DEF Before
    <3>4. CASE panes[w].link # l
      BY <1>2, <3>1, <3>2, <3>4
    <3> QED
      BY <3>3, <3>4, <3>1
  <2>3. ASSUME NEW k \in DOMAIN links
        PROVE  InOrder(links'[k].down) /\ Chunks(links'[k].down) \subseteq 1..shell.made
    <3>1. Range(facade.buffer) \subseteq 1..shell.made /\ Chunks(links[k].down) \subseteq 1..shell.made
      BY DEF OutInv, OrderInv
    <3>2. CASE k = l
      BY <1>3, <3>1, <3>2
    <3>3. CASE k # l
      BY <1>2, <3>1, <3>3
    <3> QED
      BY <3>2, <3>3
  <2> QED
    BY <1>1, <1>4, <2>1, <2>2, <2>3, EmptyRange DEF OrderInv
<1>7. HeldInv'
  BY <1>1, <1>4 DEF HeldInv
<1>8. ArrivedInv'
  BY <1>1, <1>2, <1>3, <1>4, ArrivedNew
<1>9. CoverInv'
  <2> SUFFICES ASSUME NEW w \in Windows, panes[w].link = l
               PROVE  1..shell.made \subseteq
                        Range(panes[w].screen) \cup Chunks(links'[l].down) \cup lost'
    BY <1>4, <1>5, EmptyRange DEF CoverInv
  <2>1. ~links[l].cut
    <3>1. links[l].client = "open"
      BY Basics DEF PanesInv
    <3> QED
      BY <1>1, <3>1, Basics DEF LinksInv
  <2>2. Chunks(links'[l].down) = Range(facade.buffer)
    BY <1>3, <2>1
  <2>3. CASE \E v \in Windows : panes[v].link = l /\ panes[v].after # facade.current
    <3>1. lost' = UNION {(1..shell.made) \ Range(panes[v].screen \o facade.buffer) :
                           v \in {u \in Windows : panes[u].link = l}}
      BY <2>3 DEF Attach
    <3>2. (1..shell.made) \ Range(panes[w].screen \o facade.buffer) \subseteq lost'
      BY <3>1
    <3>3. Range(panes[w].screen \o facade.buffer) \subseteq
            Range(panes[w].screen) \cup Range(facade.buffer)
      <4> DEFINE s == panes[w].screen
                 b == facade.buffer
      <4>1. s \in Seq(Chunk) /\ b \in Seq(Chunk)
        BY OutBasics
      <4> HIDE DEF s, b
      <4>2. /\ \A i \in DOMAIN s : (s \o b)[i] = s[i]
            /\ \A j \in DOMAIN b : (s \o b)[Len(s) + j] = b[j]
            /\ \A i \in DOMAIN (s \o b) :
                 i \in DOMAIN s \/ (i - Len(s) \in DOMAIN b /\ i > Len(s) /\ i \in Nat)
            /\ Len(s) \in Nat
        BY <4>1, ConcatIs
      <4> SUFFICES ASSUME NEW i \in DOMAIN (s \o b)
                   PROVE  (s \o b)[i] \in Range(s) \cup Range(b)
        BY DEF Range, s, b
      <4>3. CASE i \in DOMAIN s
        BY <4>2, <4>3 DEF Range
      <4>4. CASE i - Len(s) \in DOMAIN b /\ i > Len(s) /\ i \in Nat
        <5>1. (s \o b)[Len(s) + (i - Len(s))] = b[i - Len(s)] /\ Len(s) + (i - Len(s)) = i
          BY <4>2, <4>4
        <5> QED
          BY <4>4, <5>1 DEF Range
      <4> QED
        BY <4>2, <4>3, <4>4
    <3> QED
      BY <2>2, <3>2, <3>3
  <2>4. CASE ~\E v \in Windows : panes[v].link = l /\ panes[v].after # facade.current
    <3>1. lost' = lost \cup FlushLost(l)
      BY <2>4 DEF Attach
    <3>2. panes[w].after = facade.current
      BY <2>4
    <3>3. l # 0
      BY Basics
    <3>4. Waiting(w)
      BY <1>1, <3>2, <3>3 DEF Waiting
    <3>5. 1..shell.made \subseteq Range(panes[w].screen) \cup Range(facade.buffer) \cup lost
      BY <1>1, <1>4, <3>4 DEF OutInv, CoverInv
    <3> QED
      BY <2>2, <3>1, <3>5
  <2> QED
    BY <2>3, <2>4
<1> QED
  BY <1>5, <1>6, <1>7, <1>8, <1>9 DEF OutInv

-----------------------------------------------------------------------------
(* Output is shown                                                         *)

LEMMA OnOutputOut ==
  ASSUME BaseInv, BaseInv', OutInv, NEW w \in Windows, OnOutput(w)
  PROVE  OutInv'
<1> DEFINE l == panes[w].link
           d == links[panes[w].link].down
           c == Head(links[panes[w].link].down).chunk
           s == Append(panes[w].screen, Head(links[panes[w].link].down).chunk)
           x == [panes[w] EXCEPT !.screen = Append(panes[w].screen, Head(links[panes[w].link].down).chunk)]
<1>1. /\ Shows(w, "output") /\ links' = Shown(w)
      /\ UNCHANGED <<shell, facade, transfer, lost, faults>>
  BY DEF OnOutput
<1>2. panes' = [panes EXCEPT ![w] = x]
  BY Basics DEF OnOutput
<1>3. /\ l \in DOMAIN links /\ d \in Seq(Downward) /\ d # <<>> /\ Head(d).op = "output"
      /\ links[l].server # "none" /\ l # 0
  BY <1>1, Basics, ShownIs
<1>4. /\ Quiet(links, links', {}) /\ SoleChange(links, links', l)
      /\ links'[l].down = Tail(d)
      /\ \A k \in DOMAIN links : links'[k].server = links[k].server
  BY <1>1, ShowsQuiet
<1>5. /\ InOrder(d) /\ Chunks(d) \subseteq 1..shell.made
      /\ Before(Chunks(d), Range(facade.buffer)) /\ Before(Range(panes[w].screen), Chunks(d))
  BY <1>3 DEF OutInv, OrderInv
<1>6. /\ InOrder(Tail(d)) /\ Chunks(d) = Chunks(Tail(d)) \cup {c} /\ Before({c}, Chunks(Tail(d)))
  BY <1>3, <1>5, TailFrames
<1>7. /\ panes[w].screen \in Seq(Chunk) /\ panes[w] \in Pane /\ Chunk \in SUBSET Nat
      /\ Ascending(panes[w].screen) /\ Range(panes[w].screen) \subseteq 1..shell.made
  BY Basics, OutBasics DEF OutInv, OrderInv
<1>8. c \in Chunk
  <2>1. Head(d) \in Downward
    BY <1>1, ShownIs
  <2> QED
    BY <1>3, <2>1 DEF Downward
<1>9. /\ x.screen = s /\ x.link = l /\ x.after = panes[w].after /\ x.saved = panes[w].saved
      /\ x.preparing = panes[w].preparing /\ x.transfer = panes[w].transfer
  BY <1>7 DEF Pane
<1> HIDE DEF l, x
<1>10. Range(s) = Range(panes[w].screen) \cup {c}
  BY <1>7, <1>8, RangeAppend
<1>11. Ascending(s)
  <2>1. Before(Range(panes[w].screen), {c})
    BY <1>5, <1>6 DEF Before
  <2> QED
    BY <1>7, <1>8, <2>1, AscendingAppend
<1> HIDE DEF d, c, s
<1>12. panes'[w] = x /\ \A v \in Windows \ {w} : panes'[v] = panes[v]
  BY <1>2, OnePane
<1>13. DOMAIN links' = DOMAIN links /\ \A k \in DOMAIN links : k # l => links'[k] = links[k]
  BY <1>4 DEF SoleChange
<1>14. links[l].down = d /\ panes[w].link = l
  BY DEF d, l
<1>15. OrderInv'
  <2>1. ASSUME NEW v \in Windows
        PROVE  /\ Ascending(panes'[v].screen) /\ Ascending(panes'[v].saved)
               /\ Range(panes'[v].screen) \cup Range(panes'[v].saved) \subseteq 1..shell.made
               /\ Before(Range(panes'[v].screen) \cup Range(panes'[v].saved), Range(facade.buffer))
               /\ panes'[v].link # 0 =>
                    Before(Range(panes'[v].screen), Chunks(links'[panes'[v].link].down))
    <3>1. /\ Ascending(panes[v].screen) /\ Ascending(panes[v].saved)
          /\ Range(panes[v].screen) \cup Range(panes[v].saved) \subseteq 1..shell.made
          /\ Before(Range(panes[v].screen) \cup Range(panes[v].saved), Range(facade.buffer))
          /\ panes[v].link # 0 =>
               Before(Range(panes[v].screen), Chunks(links[panes[v].link].down))
      BY DEF OutInv, OrderInv
    <3>2. CASE v = w
      <4>1. /\ panes'[v].screen = s /\ panes'[v].saved = panes[w].saved /\ panes'[v].link = l
        BY <1>9, <1>12, <3>2
      <4>2. Range(s) \subseteq 1..shell.made
        BY <1>5, <1>6, <1>7, <1>10
      <4>3. Before(Range(s) \cup Range(panes[w].saved), Range(facade.buffer))
        BY <1>5, <1>6, <1>10, <3>1, <3>2 DEF Before
      <4>4. Before(Range(s), Chunks(links'[l].down))
        BY <1>4, <1>5, <1>6, <1>10 DEF Before
      <4> QED
        BY <1>11, <3>1, <3>2, <4>1, <4>2, <4>3, <4>4
    <3>3. CASE v # w
      <4>1. panes'[v] = panes[v]
        BY <1>12, <3>3
      <4>2. panes[v].link # 0 => panes[v].link \in DOMAIN links
        BY Basics
      <4>3. panes[v].link # 0 =>
              Chunks(links'[panes[v].link].down) \subseteq Chunks(links[panes[v].link].down)
        BY <4>2, <1>4 DEF Quiet, Dwindles
      <4> QED
        BY <3>1, <4>1, <4>3 DEF Before
    <3> QED
      BY <3>2, <3>3
  <2>2. ASSUME NEW k \in DOMAIN links
        PROVE  /\ InOrder(links'[k].down) /\ Chunks(links'[k].down) \subseteq 1..shell.made
               /\ Before(Chunks(links'[k].down), Range(facade.buffer))
    <3>1. /\ InOrder(links[k].down) /\ Chunks(links[k].down) \subseteq 1..shell.made
          /\ Before(Chunks(links[k].down), Range(facade.buffer))
      BY DEF OutInv, OrderInv
    <3>2. Dwindles(links[k].down, links'[k].down)
      BY <1>4 DEF Quiet
    <3> QED
      BY <3>1, <3>2 DEF Before, Dwindles
  <2>3. Ascending(facade.buffer) /\ Range(facade.buffer) \subseteq 1..shell.made
    BY DEF OutInv, OrderInv
  <2> QED
    BY <1>1, <1>13, <2>1, <2>2, <2>3 DEF OrderInv
<1>16. FacadeStays /\ PreparesLess /\ TokenStays /\ AsksInTime({})
  BY <1>1, <1>9, <1>12 DEF FacadeStays, PreparesLess, TokenStays, AsksInTime
<1>17. HoldStays
  <2>1. facade.current # 0 => facade.current \in DOMAIN links
    BY Basics
  <2> QED
    BY <1>1, <1>4, <2>1 DEF HoldStays
<1>18. HeldInv' /\ ArrivedInv'
  BY <1>4, <1>16, <1>17, HeldStep, ArrivedStep DEF OutInv
<1>19. \A v \in Windows : Waiting(v)' => Waiting(v) /\ v # w
  <2>1. \A v \in Windows : panes[v].link # 0 => panes[v].link \in DOMAIN links
    BY Basics
  <2>2. \A v \in Windows : panes'[v].link = panes[v].link /\ panes'[v].after = panes[v].after
    BY <1>9, <1>12, <1>14
  <2> QED
    BY <1>1, <1>3, <1>4, <1>14, <2>1, <2>2 DEF Waiting
<1>20. WaitingInv'
  <2> SUFFICES ASSUME NEW v \in Windows, NEW u \in Windows, Waiting(v)',
                      panes'[u].link = facade'.current
               PROVE  u \in transfer'.from /\ Adopting(v)' /\ ~panes'[u].preparing
    BY DEF WaitingInv
  <2>1. Waiting(v) /\ panes[u].link = facade.current
    BY <1>1, <1>9, <1>12, <1>14, <1>19
  <2>2. u \in transfer.from /\ Adopting(v) /\ ~panes[u].preparing
    BY <2>1 DEF OutInv, WaitingInv
  <2> QED
    BY <1>1, <1>9, <1>12, <2>2 DEF Adopting
<1>21. CoverInv'
  <2> SUFFICES ASSUME ~facade.closed, facade.current # 0, NEW v \in Windows
               PROVE  /\ panes'[v].link = facade.current =>
                           1..shell.made \subseteq
                             Range(panes'[v].screen) \cup Chunks(links'[facade.current].down)
                               \cup Range(facade.buffer) \cup lost
                      /\ Waiting(v)' =>
                           /\ facade.buffering
                           /\ ~Has(links'[facade.current].up, "cancel")
                           /\ 1..shell.made \subseteq
                                Range(panes'[v].screen) \cup Range(facade.buffer) \cup lost
    BY <1>1 DEF CoverInv
  <2>1. /\ panes[v].link = facade.current =>
             1..shell.made \subseteq Range(panes[v].screen)
               \cup Chunks(links[facade.current].down) \cup Range(facade.buffer) \cup lost
        /\ Waiting(v) =>
             /\ facade.buffering /\ ~Has(links[facade.current].up, "cancel")
             /\ 1..shell.made \subseteq Range(panes[v].screen) \cup Range(facade.buffer) \cup lost
    BY DEF OutInv, CoverInv
  <2>2. ASSUME panes'[v].link = facade.current
        PROVE  1..shell.made \subseteq
                 Range(panes'[v].screen) \cup Chunks(links'[facade.current].down)
                   \cup Range(facade.buffer) \cup lost
    <3>1. panes[v].link = facade.current
      BY <1>9, <1>12, <1>14, <2>2
    <3>2. CASE v = w
      <4>1. facade.current = l
        BY <1>14, <3>1, <3>2
      <4>2. 1..shell.made \subseteq Range(panes[w].screen) \cup Chunks(d)
                                      \cup Range(facade.buffer) \cup lost
        BY <1>14, <2>1, <3>1, <3>2, <4>1
      <4>3. panes'[v].screen = s /\ links'[facade.current].down = Tail(d)
        BY <1>4, <1>9, <1>12, <3>2, <4>1
      <4> QED
        BY <1>6, <1>10, <4>2, <4>3
    <3>3. CASE v # w
      <4>1. facade.current # l
        BY <1>3, <1>14, <3>1, <3>3, Basics DEF PanesInv
      <4>2. links'[facade.current] = links[facade.current]
        BY <1>13, <4>1, Basics
      <4> QED
        BY <1>12, <2>1, <3>1, <3>3, <4>2
    <3> QED
      BY <3>2, <3>3
  <2>3. ASSUME Waiting(v)'
        PROVE  /\ facade.buffering
               /\ ~Has(links'[facade.current].up, "cancel")
               /\ 1..shell.made \subseteq
                    Range(panes'[v].screen) \cup Range(facade.buffer) \cup lost
    <3>1. Waiting(v) /\ panes'[v] = panes[v]
      BY <1>12, <1>19, <2>3
    <3>2. ~Has(links[facade.current].up, "cancel") =>
            ~Has(links'[facade.current].up, "cancel")
      BY <1>4, Basics DEF Quiet
    <3> QED
      BY <2>1, <3>1, <3>2
  <2> QED
    BY <2>2, <2>3
<1> QED
  BY <1>15, <1>18, <1>20, <1>21 DEF OutInv

-----------------------------------------------------------------------------
(* A transfer begins, is claimed, and is adopted                           *)

LEMMA ArrivedAll ==
  ASSUME BaseInv, AllArrived
  PROVE  Arrived
<1> SUFFICES ASSUME NEW l \in DOMAIN links
             PROVE  /\ ~Has(links[l].up, "prepare") /\ ~Has(links[l].up, "cancel")
                    /\ ~HasFrame(links[l].down, "ready")
  BY DEF Arrived
<1>1. /\ Range(links[l].up) \cap {"prepare", "cancel"} = {}
      /\ Control("ready") \notin Range(links[l].down)
  BY DEF AllArrived
<1>2. ~Has(links[l].up, "prepare") /\ ~Has(links[l].up, "cancel")
  BY <1>1 DEF Range, Has
<1>3. ~HasFrame(links[l].down, "ready")
  <2> SUFFICES ASSUME NEW i \in DOMAIN links[l].down, links[l].down[i].op = "ready"
               PROVE  FALSE
    BY DEF HasFrame
  <2>1. links[l].down \in Seq(Downward)
    BY OutBasics
  <2>2. links[l].down[i] \in Downward
    BY <2>1
  <2>3. links[l].down[i] = Control("ready")
    BY <2>2 DEF Downward, Control
  <2> QED
    BY <1>1, <2>3 DEF Range
<1> QED
  BY <1>2, <1>3

LEMMA BeginTransferOut ==
  ASSUME ~LateReplies, BaseInv, BaseInv', OutInv, NEW w \in Windows, BeginTransfer(w)
  PROVE  OutInv'
<1>1. /\ transfer.from = {} /\ AllArrived
      /\ transfer' = [id |-> transfer.id + 1, from |-> {w}, claim |-> {}, claimed |-> FALSE]
      /\ UNCHANGED <<shell, facade, links, panes, lost, faults>>
  BY DEF BeginTransfer
<1>2. OrderInv' /\ HeldInv'
  BY <1>1 DEF OutInv, OrderInv, HeldInv
<1>3. ArrivedInv'
  <2>1. Arrived
    BY <1>1, ArrivedAll
  <2>2. Arrived' /\ transfer'.claim = {}
    BY <1>1, <2>1 DEF Arrived
  <2> QED
    BY <2>2 DEF ArrivedInv
<1>4. \A v \in Windows : Waiting(v)' = Waiting(v)
  BY <1>1 DEF Waiting
<1>5. WaitingInv'
  BY <1>1, <1>4 DEF OutInv, WaitingInv
<1>6. CoverInv'
  BY <1>1, <1>4 DEF OutInv, CoverInv
<1> QED
  BY <1>2, <1>3, <1>5, <1>6 DEF OutInv

LEMMA ClaimOut ==
  ASSUME BaseInv, BaseInv', TransferInv, OutInv, NEW v \in Windows, Claim(v)
  PROVE  OutInv'
<1> DEFINE l == panes[CHOOSE w \in transfer.from : TRUE].link
           A == {<<l, "prepare">>}
<1>1. /\ ~transfer.claimed /\ transfer' = [transfer EXCEPT !.claim = {v}, !.claimed = TRUE]
      /\ panes' = [w \in Windows |-> IF w \in transfer.from
                                     THEN [panes[w] EXCEPT !.preparing = TRUE] ELSE panes[w]]
      /\ links' = (IF transfer.from = {} THEN links ELSE Ask(links, l, "prepare"))
      /\ UNCHANGED <<shell, facade, lost, faults>>
  BY DEF Claim
<1>2. /\ transfer'.id = transfer.id /\ transfer'.from = transfer.from /\ transfer'.claimed
  BY <1>1, TransferFields
<1>3. \A w \in Windows : ~panes[w].preparing /\ ~Adopting(w)
  BY <1>1 DEF TransferInv
<1>4. ASSUME NEW w \in Windows
      PROVE  /\ Stays(w) /\ panes'[w].saved = panes[w].saved
             /\ (panes'[w].preparing => w \in transfer.from)
  <2>1. panes[w] \in Pane
    BY Basics
  <2>2. CASE w \in transfer.from
    <3>1. panes'[w] = [panes[w] EXCEPT !.preparing = TRUE]
      BY <1>1, <2>2
    <3> QED
      BY <2>1, <2>2, <3>1 DEF Stays, Pane
  <2>3. CASE w \notin transfer.from
    <3>1. panes'[w] = panes[w]
      BY <1>1, <2>3
    <3> QED
      BY <1>3, <3>1 DEF Stays
  <2> QED
    BY <2>2, <2>3
<1>5. PanesShow
  BY <1>4 DEF PanesShow, Stays, Screens
<1>6. /\ Quiet(links, links', A) /\ DOMAIN links' = DOMAIN links
      /\ \A k \in DOMAIN links : /\ links'[k].down = links[k].down
                                 /\ links'[k].server = links[k].server
  <2>1. CASE transfer.from = {}
    BY <1>1, <2>1, QuietSame
  <2>2. CASE transfer.from # {}
    <3>1. l \in 0..Len(links) /\ links \in Seq(Link) /\ "prepare" \in Upward
      <4>1. (CHOOSE w \in transfer.from : TRUE) \in Windows
        BY <2>2, ChooseIn, Parts, Basics
      <4> QED
        BY <4>1, Basics DEF Upward
    <3>2. links' = Ask(links, l, "prepare")
      BY <1>1, <2>2
    <3> HIDE DEF l
    <3>3. /\ Quiet(links, links', A) /\ SoleChange(links, links', l)
          /\ \A k \in DOMAIN links : /\ links'[k].down = links[k].down
                                     /\ links'[k].server = links[k].server
      BY <3>1, <3>2, AskQuiet, AskIs
    <3> QED
      BY <3>3 DEF SoleChange
  <2> QED
    BY <2>1, <2>2
<1> HIDE DEF l
<1>7. FacadeStays /\ HoldStays /\ LossKnown
  <2>1. facade.current # 0 => facade.current \in DOMAIN links
    BY Basics
  <2> QED
    BY <1>1, <1>6, <2>1 DEF FacadeStays, HoldStays, LossKnown
<1>8. WaitStays(A)
  BY <1>3 DEF WaitStays
<1> HIDE DEF A
<1>9. CoverInv'
  BY <1>5, <1>6, <1>7, <1>8, CoverStep DEF OutInv
<1>10. HeldInv'
  BY <1>7, HeldStep DEF OutInv
<1>11. OrderInv'
  <2>1. \A w \in Windows : panes[w].link # 0 => panes[w].link \in DOMAIN links
    BY Basics
  <2>2. \A w \in Windows :
          /\ panes'[w].screen \in Screens /\ panes'[w].saved \in Screens
          /\ panes'[w].link = panes[w].link /\ panes'[w].screen = panes[w].screen
    BY <1>4 DEF Stays, Screens
  <2>3. \A k \in DOMAIN links : /\ InOrder(links'[k].down)
                                /\ Chunks(links'[k].down) \subseteq Chunks(links[k].down)
    BY <1>6 DEF OutInv, OrderInv
  <2> QED
    BY <1>1, <1>6, <2>1, <2>2, <2>3, OrderStep DEF OutInv
<1>12. ArrivedInv'
  <2> SUFFICES ASSUME Preparing'
               PROVE  /\ \A k \in DOMAIN links' : ~Has(links'[k].up, "cancel")
                      /\ facade'.current # 0 /\ facade'.current \in DOMAIN links' =>
                           ~HasFrame(links'[facade'.current].down, "ready")
    <3>1. facade'.current # 0 => facade'.current \in DOMAIN links'
      BY <1>1, <1>6, Basics
    <3> QED
      BY <1>2, <3>1 DEF ArrivedInv
  <2>1. PICK w \in Windows : panes'[w].preparing
    BY DEF Preparing
  <2>2. transfer.from # {}
    BY <1>4, <2>1
  <2>3. Arrived
    BY <1>1, <2>2 DEF OutInv, ArrivedInv
  <2>4. \A k : <<k, "cancel">> \notin A
    BY DEF A
  <2> QED
    BY <1>6, <2>3, <2>4 DEF Arrived, Quiet
<1>13. WaitingInv'
  <2> SUFFICES ASSUME NEW u \in Windows, NEW w \in Windows, Waiting(u)',
                      panes'[w].link = facade'.current
               PROVE  FALSE
    BY DEF WaitingInv
  <2>1. Waiting(u) /\ facade.current # 0 /\ facade'.current = facade.current
    BY <1>5, <1>7, WaitingStays
  <2>2. panes[w].link = facade.current
    BY <1>4, <2>1 DEF Stays
  <2> QED
    BY <1>3, <2>1, <2>2 DEF OutInv, WaitingInv
<1> QED
  BY <1>9, <1>10, <1>11, <1>12, <1>13 DEF OutInv

-----------------------------------------------------------------------------
(* 'transfer-ready' of a tab that the claiming window adopts               *)

\* The state after v has adopted what w offers.
LEMMA AdoptIs ==
  ASSUME BaseInv, TransferInv, NEW w \in Windows, OnReady(w), panes[w].preparing,
         NEW v \in transfer.claim, ~panes[v].tab
  PROVE  /\ v \in Windows /\ v # w /\ w \in transfer.from /\ transfer.claimed /\ transfer.id # 0
         /\ transfer'.id = transfer.id /\ transfer'.from = transfer.from
         /\ transfer'.claim = {} /\ transfer'.claimed
         /\ links' = Append(Shown(w), Connect(TRUE))
         /\ panes'[v].link = Len(links) + 1 /\ panes'[v].after = panes[w].link
         /\ panes'[v].transfer = transfer.id
         /\ panes'[v].screen = panes[w].screen /\ panes'[v].saved = panes[w].screen
         /\ panes'[w].link = panes[w].link /\ panes'[w].screen = panes[w].screen
         /\ panes'[w].saved = panes[w].saved /\ ~panes'[w].preparing
         /\ \A u \in Windows \ {v, w} : panes'[u] = panes[u]
<1> DEFINE x == [panes[w] EXCEPT !.preparing = FALSE]
           y == [NoPane EXCEPT !.tab = TRUE, !.link = Len(links) + 1,
                   !.known = TRUE, !.transfer = transfer.id,
                   !.saved = panes[w].screen, !.screen = panes[w].screen, !.after = panes[w].link]
<1>1. v \in Windows /\ transfer.claim # {} /\ \A u \in transfer.claim : u = v
  BY Basics, Parts DEF TransferInv
<1>2. /\ transfer' = [transfer EXCEPT !.claim = {}]
      /\ links' = Append(Shown(w), Connect(TRUE))
      /\ panes' = [panes EXCEPT ![w].preparing = FALSE, ![v] = y]
  BY <1>1 DEF OnReady
<1>3. /\ w \in transfer.from /\ v \notin transfer.from /\ transfer.claimed /\ transfer.id # 0
  BY <1>1 DEF TransferInv
<1>4. /\ transfer'.id = transfer.id /\ transfer'.from = transfer.from
      /\ transfer'.claim = {} /\ transfer'.claimed
  BY <1>2, <1>3, TransferFields
<1>5. /\ x.link = panes[w].link /\ x.screen = panes[w].screen /\ x.saved = panes[w].saved
      /\ ~x.preparing
  BY Basics DEF Pane
<1>6. /\ y.link = Len(links) + 1 /\ y.after = panes[w].link /\ y.transfer = transfer.id
      /\ y.screen = panes[w].screen /\ y.saved = panes[w].screen
  BY DEF NoPane
<1> HIDE DEF y
<1>7. /\ panes'[v] = y /\ panes'[w] = x /\ \A u \in Windows \ {v, w} : panes'[u] = panes[u]
  <2>1. panes \in [Windows -> Pane] /\ v # w
    BY <1>3, Basics
  <2>2. panes'[v] = y /\ \A u \in Windows \ {v, w} : panes'[u] = panes[u]
    BY <1>1, <1>2, <2>1
  <2>3. panes'[w] = x
    BY <1>1, <1>2, <2>1 DEF x
  <2> QED
    BY <2>2, <2>3
<1> HIDE DEF x
<1> QED
  BY <1>1, <1>2, <1>3, <1>4, <1>5, <1>6, <1>7

\* What the connections are after it.
LEMMA AdoptLinks ==
  ASSUME BaseInv, NEW w \in Windows, Shows(w, "ready"),
         links' = Append(Shown(w), Connect(TRUE))
  PROVE  /\ panes[w].link \in DOMAIN links /\ links[panes[w].link].server # "none"
         /\ Quiet(links, links', {}) /\ DOMAIN links' = DOMAIN links \cup {Len(links) + 1}
         /\ Len(links) + 1 \notin DOMAIN links
         /\ \A k \in DOMAIN links : /\ Chunks(links'[k].down) = Chunks(links[k].down)
                                    /\ links'[k].server = links[k].server
<1>1. /\ Quiet(links, Shown(w), {}) /\ SoleChange(links, Shown(w), panes[w].link)
      /\ \A k \in DOMAIN links : /\ Chunks(Shown(w)[k].down) = Chunks(links[k].down)
                                 /\ Shown(w)[k].server = links[k].server
  BY ShownKept
<1>2. panes[w].link \in DOMAIN links /\ links[panes[w].link].server # "none"
  BY ShownIs
<1> DEFINE ms == Shown(w)
           n == Connect(TRUE)
<1>3. ms \in Seq(Link) /\ Len(ms) = Len(links) /\ DOMAIN ms = DOMAIN links
  BY <1>1 DEF SoleChange
<1>4. n \in Link
  BY DEF Connect, Link
<1> HIDE DEF ms
<1>5. /\ Quiet(ms, links', {}) /\ \A k \in DOMAIN ms : links'[k] = ms[k]
  BY <1>3, OpenQuiet DEF ms
<1> HIDE DEF n
<1>6. DOMAIN links' = DOMAIN ms \cup {Len(ms) + 1}
  BY <1>3, <1>4, AppendIs DEF ms, n
<1>7. Quiet(links, links', {})
  <2>1. Quiet(links, links', {} \cup {})
    BY <1>1, <1>3, <1>5, QuietTrans DEF ms
  <2> QED
    BY <2>1, QuietMore
<1>8. Len(links) + 1 \notin DOMAIN links
  BY Basics
<1> QED
  BY <1>1, <1>2, <1>3, <1>5, <1>6, <1>7, <1>8 DEF ms

\* The page that offers its tab has been told everything it will be.
LEMMA ReadyIsLast ==
  ASSUME BaseInv, NEW w \in Windows, Shows(w, "ready"), Settled(links[panes[w].link].down)
  PROVE  Chunks(links[panes[w].link].down) = {}
<1> DEFINE d == links[panes[w].link].down
<1>1. d \in Seq(Downward) /\ d # <<>> /\ Head(d).op = "ready"
  BY ShownIs
<1> HIDE DEF d
<1>2. 1 \in DOMAIN d /\ d[1].op = "ready" /\ \A j \in DOMAIN d : j = 1 \/ 1 < j
  BY <1>1
<1>3. Outputs(d) = {}
  BY <1>2 DEF Settled, Outputs, d
<1> QED
  BY <1>3 DEF Chunks, d

LEMMA OnReadyAdoptOut ==
  ASSUME BaseInv, BaseInv', TransferInv, OutInv, NEW w \in Windows, OnReady(w),
         panes[w].preparing, NEW v \in transfer.claim, ~panes[v].tab
  PROVE  OutInv'
<1> DEFINE l == panes[w].link
           n == Len(links) + 1
<1>1. Shows(w, "ready") /\ UNCHANGED <<shell, facade, lost, faults>>
  BY DEF OnReady
<1>2. /\ v \in Windows /\ v # w /\ w \in transfer.from /\ transfer.claimed /\ transfer.id # 0
      /\ transfer'.id = transfer.id /\ transfer'.from = transfer.from
      /\ transfer'.claim = {} /\ transfer'.claimed
      /\ links' = Append(Shown(w), Connect(TRUE))
  BY ONLY BaseInv, TransferInv, w \in Windows, OnReady(w), panes[w].preparing,
     v \in transfer.claim, ~panes[v].tab, AdoptIs
<1>31. /\ panes'[v].link = Len(links) + 1 /\ panes'[v].after = panes[w].link
       /\ panes'[v].transfer = transfer.id
       /\ panes'[v].screen = panes[w].screen /\ panes'[v].saved = panes[w].screen
  BY ONLY BaseInv, TransferInv, w \in Windows, OnReady(w), panes[w].preparing,
     v \in transfer.claim, ~panes[v].tab, AdoptIs, ZenonT(40)
<1>32. /\ panes'[w].link = panes[w].link /\ panes'[w].screen = panes[w].screen
       /\ panes'[w].saved = panes[w].saved /\ ~panes'[w].preparing
  BY ONLY BaseInv, TransferInv, w \in Windows, OnReady(w), panes[w].preparing,
     v \in transfer.claim, ~panes[v].tab, AdoptIs
<1>33. \A u \in Windows \ {v, w} : panes'[u] = panes[u]
  BY ONLY BaseInv, TransferInv, w \in Windows, OnReady(w), panes[w].preparing,
     v \in transfer.claim, ~panes[v].tab, AdoptIs
<1>3. /\ panes'[v].link = n /\ panes'[v].after = l /\ panes'[v].transfer = transfer.id
      /\ panes'[v].screen = panes[w].screen /\ panes'[v].saved = panes[w].screen
      /\ panes'[w].link = l /\ panes'[w].screen = panes[w].screen
      /\ panes'[w].saved = panes[w].saved /\ ~panes'[w].preparing
      /\ \A u \in Windows \ {v, w} : panes'[u] = panes[u]
  BY <1>31, <1>32, <1>33
<1>4. /\ l \in DOMAIN links /\ links[l].server # "none"
      /\ Quiet(links, links', {}) /\ DOMAIN links' = DOMAIN links \cup {n}
      /\ n \notin DOMAIN links
      /\ \A k \in DOMAIN links : /\ Chunks(links'[k].down) = Chunks(links[k].down)
                                 /\ links'[k].server = links[k].server
  BY <1>1, <1>2, AdoptLinks
<1> HIDE DEF l, n
<1>5. /\ \A u \in Windows : panes[u].link # 0 => panes[u].link \in DOMAIN links
      /\ facade.current # 0 => facade.current \in DOMAIN links
      /\ 0 \notin DOMAIN links
  BY Basics
<1>6. OrderInv'
  <2>1. /\ \A k \in DOMAIN links : /\ InOrder(links'[k].down)
                                   /\ Chunks(links'[k].down) \subseteq Chunks(links[k].down)
        /\ \A k \in DOMAIN links' \ DOMAIN links : links'[k].down = <<>>
    BY <1>4 DEF Quiet, Dwindles, OutInv, OrderInv
  <2>2. ASSUME NEW u \in Windows
        PROVE  /\ panes'[u].screen \in Screens /\ panes'[u].saved \in Screens
               /\ panes'[u].link # 0 =>
                    /\ panes'[u].link \in DOMAIN links'
                    /\ \/ panes'[u].link = panes[u].link /\ panes'[u].screen = panes[u].screen
                       \/ panes'[u].link \notin DOMAIN links
    <3>1. CASE u = v
      BY <1>3, <1>4, <3>1 DEF Screens
    <3>2. CASE u = w
      BY <1>3, <1>4, <3>2 DEF Screens, l
    <3>3. CASE u # v /\ u # w
      <4>1. panes'[u] = panes[u]
        BY <1>3, <3>3
      <4> QED
        BY <1>4, <1>5, <4>1 DEF Screens
    <3> QED
      BY <3>1, <3>2, <3>3
  <2> QED
    BY <1>1, <2>1, <2>2, OrderStep DEF OutInv
<1>7. HeldInv'
  BY <1>1, <1>4, <1>5 DEF OutInv, HeldInv
<1>8. ArrivedInv'
  BY <1>2 DEF ArrivedInv
<1>9. ASSUME NEW u \in Windows, u # v, Waiting(u)'
      PROVE  Waiting(u) /\ panes'[u].screen = panes[u].screen
  <2>1. u # w
    BY <1>3, <1>4, <1>9 DEF Waiting
  <2>2. panes'[u] = panes[u]
    BY <1>3, <1>9, <2>1
  <2> QED
    BY <1>1, <1>4, <1>5, <1>9, <2>2 DEF Waiting
<1>10. WaitingInv'
  <2> SUFFICES ASSUME NEW u \in Windows, NEW z \in Windows, Waiting(u)',
                      panes'[z].link = facade.current
               PROVE  z \in transfer.from /\ Adopting(u)' /\ ~panes'[z].preparing
    BY <1>1, <1>2 DEF WaitingInv
  <2>1. facade.current # 0
    BY <1>1 DEF Waiting
  <2>2. z # v /\ panes[z].link = facade.current
    BY <1>3, <1>4, <1>5, <2>1 DEF l
  <2>3. CASE u = v
    <3>1. facade.current = l
      BY <1>1, <1>3, <2>3 DEF Waiting
    <3>2. z = w
      BY <2>1, <2>2, <3>1, Basics DEF PanesInv, l
    <3> QED
      BY <1>2, <1>3, <2>3, <3>2 DEF Adopting
  <2>4. CASE u # v
    <3>1. Adopting(u)
      BY <1>9, <2>2, <2>4 DEF OutInv, WaitingInv
    <3> QED
      BY <3>1 DEF TransferInv
  <2> QED
    BY <2>3, <2>4
<1>11. CoverInv'
  <2> SUFFICES ASSUME ~facade.closed, facade.current # 0, NEW u \in Windows
               PROVE  /\ panes'[u].link = facade.current =>
                           1..shell.made \subseteq
                             Range(panes'[u].screen) \cup Chunks(links'[facade.current].down)
                               \cup Range(facade.buffer) \cup lost
                      /\ Waiting(u)' =>
                           /\ facade.buffering
                           /\ ~Has(links'[facade.current].up, "cancel")
                           /\ 1..shell.made \subseteq
                                Range(panes'[u].screen) \cup Range(facade.buffer) \cup lost
    BY <1>1 DEF CoverInv
  <2>1. facade.current \in DOMAIN links
    BY <1>5
  <2>2. \A z \in Windows :
          panes[z].link = facade.current =>
            1..shell.made \subseteq Range(panes[z].screen) \cup Chunks(links[facade.current].down)
                                     \cup Range(facade.buffer) \cup lost
    BY DEF OutInv, CoverInv
  <2>3. ASSUME panes'[u].link = facade.current
        PROVE  1..shell.made \subseteq
                 Range(panes'[u].screen) \cup Chunks(links'[facade.current].down)
                   \cup Range(facade.buffer) \cup lost
    <3>1. u # v
      BY <1>3, <1>4, <2>1, <2>3
    <3>2. panes[u].link = facade.current /\ panes'[u].screen = panes[u].screen
      BY <1>3, <2>3, <3>1 DEF l
    <3> QED
      BY <1>4, <2>1, <2>2, <3>2
  <2>4. ASSUME Waiting(u)'
        PROVE  /\ facade.buffering
               /\ ~Has(links'[facade.current].up, "cancel")
               /\ 1..shell.made \subseteq
                    Range(panes'[u].screen) \cup Range(facade.buffer) \cup lost
    <3>1. CASE u # v
      <4>1. Waiting(u) /\ panes'[u].screen = panes[u].screen
        BY <1>9, <2>4, <3>1
      <4>2. /\ facade.buffering /\ ~Has(links[facade.current].up, "cancel")
            /\ 1..shell.made \subseteq Range(panes[u].screen) \cup Range(facade.buffer) \cup lost
        BY <4>1 DEF OutInv, CoverInv
      <4> QED
        BY <1>4, <2>1, <4>1, <4>2 DEF Quiet
    <3>2. CASE u = v
      <4>1. facade.current = l
        BY <1>1, <1>3, <2>4, <3>2 DEF Waiting
      <4>2. HasFrame(links[l].down, "ready")
        <5>1. links[l].down \in Seq(Downward) /\ links[l].down # <<>>
              /\ Head(links[l].down).op = "ready"
          BY <1>1, ShownIs DEF l
        <5> QED
          BY <5>1 DEF HasFrame
      <4>3. /\ \A k \in DOMAIN links : ~Has(links[k].up, "cancel")
            /\ facade.buffering /\ Settled(links[l].down)
        BY <4>1, <4>2 DEF OutInv, ArrivedInv, Preparing
      <4>4. Chunks(links[l].down) = {}
        BY <1>1, <4>3, ReadyIsLast DEF l
      <4>5. 1..shell.made \subseteq Range(panes[w].screen) \cup Range(facade.buffer) \cup lost
        BY <2>2, <4>1, <4>4 DEF l
      <4>6. ~Has(links'[facade.current].up, "cancel")
        BY <1>4, <2>1, <4>3 DEF Quiet
      <4> QED
        BY <1>3, <3>2, <4>3, <4>5, <4>6
    <3> QED
      BY <3>1, <3>2
  <2> QED
    BY <2>3, <2>4
<1> QED
  BY <1>6, <1>7, <1>8, <1>10, <1>11 DEF OutInv

LEMMA OnReadyOut ==
  ASSUME BaseInv, BaseInv', TransferInv, OutInv, NEW w \in Windows, OnReady(w)
  PROVE  OutInv'
<1>1. CASE \/ ~panes[w].preparing \/ transfer.claim = {}
           \/ \E v \in transfer.claim : panes[v].tab
  BY <1>1, OnReadyIdleOut
<1>2. CASE panes[w].preparing /\ \E v \in transfer.claim : ~panes[v].tab
  BY <1>2, OnReadyAdoptOut
<1> QED
  BY <1>1, <1>2

-----------------------------------------------------------------------------
(* The specification                                                       *)

LEMMA ServerOut ==
  ASSUME BaseInv, BaseInv', OutInv,
         \/ Write \/ Ends \/ Dispose \/ GraceExpires \/ PodStarts \/ Connected
         \/ \E l \in DOMAIN links : \/ AcceptNew(l) \/ Attach(l) \/ AttachRefused(l)
                                    \/ OnPrepare(l) \/ OnCancel(l) \/ OnBye(l) \/ OnGone(l)
                                    \/ Breaks(l)
  PROVE  OutInv'
<1>1. CASE \E l \in DOMAIN links : AcceptNew(l) \/ Attach(l) \/ AttachRefused(l)
  BY <1>1, AcceptNewOut, AttachOut, AttachRefusedOut
<1>2. CASE \E l \in DOMAIN links : OnPrepare(l) \/ OnCancel(l)
  BY <1>2, OnPrepareOut, OnCancelOut
<1>3. CASE \E l \in DOMAIN links : OnBye(l) \/ OnGone(l) \/ Breaks(l)
  BY <1>3, OnByeOut, OnGoneOut, BreaksOut
<1>4. CASE Write \/ Ends \/ Dispose
  BY <1>4, WriteOut, EndsOut, DisposeOut
<1>5. CASE GraceExpires \/ PodStarts \/ Connected
  BY <1>5, GraceExpiresOut, PodStartsOut
<1> QED
  BY <1>1, <1>2, <1>3, <1>4, <1>5

LEMMA WindowsOut ==
  ASSUME BaseInv, BaseInv', TransferInv, OutInv, ~LateReplies,
         \/ ClaimTimesOut \/ SourceExpires
         \/ \E w \in Windows : \/ OnOutput(w) \/ OnSession(w) \/ OnReady(w) \/ OnExit(w)
                               \/ OnClose(w) \/ PrepareTimesOut(w)
                               \/ BeginTransfer(w) \/ Claim(w) \/ ClaimRefused(w) \/ ClaimDead(w)
                               \/ CloseTab(w) \/ Reload(w) \/ WindowGone(w)
  PROVE  OutInv'
<1>1. CASE ClaimTimesOut \/ SourceExpires
  BY <1>1, ClaimTimesOutOut, SourceExpiresOut
<1>2. CASE \E w \in Windows : OnOutput(w) \/ OnSession(w) \/ OnReady(w)
  BY <1>2, OnOutputOut, OnSessionOut, OnReadyOut
<1>3. CASE \E w \in Windows : OnExit(w) \/ OnClose(w) \/ PrepareTimesOut(w)
  BY <1>3, OnExitOut, OnCloseOut, PrepareTimesOutOut
<1>4. CASE \E w \in Windows : BeginTransfer(w) \/ Claim(w) \/ ClaimRefused(w) \/ ClaimDead(w)
  BY <1>4, BeginTransferOut, ClaimOut, ClaimRefusedOut, ClaimDeadOut
<1>5. CASE \E w \in Windows : CloseTab(w) \/ Reload(w) \/ WindowGone(w)
  BY <1>5, CloseTabOut, ReloadOut, WindowGoneOut
<1> QED
  BY <1>1, <1>2, <1>3, <1>4, <1>5

LEMMA StutterOut ==
  ASSUME OutInv, UNCHANGED vars
  PROVE  OutInv'
<1>1. /\ shell' = shell /\ facade' = facade /\ links' = links /\ panes' = panes
      /\ transfer' = transfer /\ lost' = lost
  BY DEF vars
<1>2. OrderInv' /\ HeldInv'
  BY <1>1 DEF OutInv, OrderInv, HeldInv
<1>3. ArrivedInv'
  BY <1>1 DEF OutInv, ArrivedInv, Arrived, Preparing
<1>4. \A v \in Windows : Waiting(v)' = Waiting(v) /\ Adopting(v)' = Adopting(v)
  BY <1>1 DEF Waiting, Adopting
<1>5. WaitingInv'
  BY <1>1, <1>4 DEF OutInv, WaitingInv
<1>6. CoverInv'
  BY <1>1, <1>4 DEF OutInv, CoverInv
<1> QED
  BY <1>2, <1>3, <1>5, <1>6 DEF OutInv

LEMMA NextOut ==
  ASSUME ~LateReplies
  PROVE  SafeInv /\ SafeInv' /\ OutInv /\ [Next]_vars => OutInv'
<1>1. ASSUME SafeInv, SafeInv', OutInv, Next
      PROVE  OutInv'
  <2>1. BaseInv /\ BaseInv' /\ TransferInv
    BY <1>1 DEF SafeInv
  <2> QED
    BY <1>1, <2>1, NextIs, ServerOut, WindowsOut
<1> QED
  BY <1>1, StutterOut

LEMMA InitOut ==
  Init => OutInv
<1> SUFFICES ASSUME Init PROVE OutInv
  OBVIOUS
<1>1. /\ facade.current = 0 /\ facade.buffer = <<>> /\ shell.made = 0
      /\ transfer.from = {} /\ transfer.claim = {}
  BY DEF Init
<1>2. DOMAIN links = {1} /\ links[1].down = <<>> /\ links[1].up = <<>>
  BY DEF Init, Connect
<1>3. \A w \in Windows : /\ panes[w].screen = <<>> /\ panes[w].saved = <<>>
                         /\ panes[w].after = 0 /\ panes[w].link \in {0, 1}
  BY DEF Init, NoPane
<1>4. OrderInv
  BY <1>1, <1>2, <1>3, EmptyRange DEF OrderInv, Before
<1>5. HeldInv /\ CoverInv
  BY <1>1 DEF HeldInv, CoverInv
<1>6. ArrivedInv
  BY <1>1 DEF ArrivedInv
<1>7. WaitingInv
  BY <1>3 DEF WaitingInv, Waiting
<1> QED
  BY <1>4, <1>5, <1>6, <1>7 DEF OutInv

\* What is in order, apart, and covers what was written is what Conserved says.
LEMMA OutConserves ==
  ASSUME SafeInv, OutInv
  PROVE  Conserved
<1>1. BaseInv
  BY DEF SafeInv
<1> SUFFICES ASSUME NEW w \in Windows, Attached(w), ~facade.closed
             PROVE  /\ Ascending(panes[w].screen) /\ InOrder(links[facade.current].down)
                    /\ Ascending(facade.buffer)
                    /\ Before(Range(panes[w].screen),
                              Chunks(links[facade.current].down) \cup Range(facade.buffer))
                    /\ Before(Chunks(links[facade.current].down), Range(facade.buffer))
                    /\ (1..shell.made) \ (Range(panes[w].screen)
                          \cup Chunks(links[facade.current].down) \cup Range(facade.buffer))
                         \subseteq lost
  BY DEF Conserved
<1>2. panes[w].link # 0 /\ panes[w].link = facade.current /\ facade.current \in DOMAIN links
  BY <1>1, Basics DEF Attached
<1>3. /\ Ascending(panes[w].screen) /\ Ascending(facade.buffer)
      /\ Before(Range(panes[w].screen), Range(facade.buffer))
      /\ Before(Range(panes[w].screen), Chunks(links[facade.current].down))
  BY <1>2 DEF OutInv, OrderInv, Before
<1>4. /\ InOrder(links[facade.current].down)
      /\ Before(Chunks(links[facade.current].down), Range(facade.buffer))
  BY <1>2 DEF OutInv, OrderInv
<1>5. 1..shell.made \subseteq Range(panes[w].screen) \cup Chunks(links[facade.current].down)
                                \cup Range(facade.buffer) \cup lost
  BY <1>2 DEF OutInv, CoverInv
<1> QED
  BY <1>3, <1>4, <1>5 DEF Before

\* Moving a terminal from window to window loses, repeats and reorders nothing
\* of its output but what a full buffer, a broken connection or a reload costs,
\* as long as a transfer begins only when all of the last one has arrived: a
\* 'transfer-ready' that is late is the one way to lose more.
THEOREM NothingLost ==
  ~LateReplies => (Spec => []Conserved)
<1> SUFFICES ASSUME ~LateReplies PROVE Spec => []Conserved
  OBVIOUS
<1>1. SafeInv /\ SafeInv' /\ OutInv /\ [Next]_vars => OutInv'
  BY NextOut
<1>2. SafeInv /\ OutInv => Conserved
  BY OutConserves
<1> QED
  BY <1>1, <1>2, InitOut, AlwaysSafe, PTL DEF Spec
==============================================================================
