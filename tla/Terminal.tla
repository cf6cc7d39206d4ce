------------------------------- MODULE Terminal -------------------------------
(***************************************************************************)
(* One terminal: the shell and its bridge (exec-bridge.ts, with the pod of *)
(* a node shell, node-shell-socket.ts), the replaceable socket between     *)
(* them and the browser (transferable-exec.ts), the panes that show it in  *)
(* the windows (TerminalPaneImpl.tsx) and the hand-off of its tab from one *)
(* window to another (tab-transfer.ts).                                    *)
(*                                                                         *)
(* A connection is two FIFO queues.  Output is numbered chunks; input and  *)
(* resizes, which change nothing here, are left out.  The windows' shared  *)
(* BroadcastChannel delivers at once, and one transfer is under way at a   *)
(* time.  A pane that starts a fresh shell leaves this model.              *)
(***************************************************************************)
EXTENDS Naturals, Sequences, Functions

CONSTANTS Windows,
          Home,          \* the window the terminal is opened in
          MaxOutput,     \* bound on the chunks the shell writes
          MaxBuffer,     \* MAX_TRANSFER_BUFFER_BYTES, in chunks
          MaxTransfers,  \* bound on the transfers begun
          MaxFaults,     \* bound on broken connections, reloads and closed windows
          LateReplies    \* a transfer may begin before all of the last has arrived

ASSUME WindowsAssumption == Home \in Windows
ASSUME BoundsAssumption ==
  /\ {MaxOutput, MaxTransfers, MaxFaults} \subseteq Nat
  /\ MaxBuffer \in Nat \ {0}
ASSUME LateRepliesAssumption == LateReplies \in BOOLEAN

VARIABLES
  shell,     \* the pod and upstream connection of the bridge
  facade,    \* the TransferableExecSocket; closed: not in the registry either
  links,     \* the browser's connections, in the order they were opened
  panes,     \* what each window has of this tab
  transfer,  \* the transfer begun last: its token, source entry and claim
  lost,      \* chunks the screen that is attached may miss: dropped from a full
             \* buffer, in flight on a broken connection, shown before a reload
  faults

vars == <<shell, facade, links, panes, transfer, lost, faults>>

Chunk == 1..MaxOutput
Upward == {"prepare", "cancel", "bye", "gone"}
Downward == [op : {"output"}, chunk : Chunk]
            \cup [op : {"session", "ready", "exit", "close"}, chunk : {0}]

\* stage: the node shell's pod starts, the exec handshake runs, the shell runs.
\* over: the bridge's `closed`.  pod: kept until the bridge's cleanup.
Shell == [stage : {"none", "pod", "connecting", "open", "ended"}, over : BOOLEAN,
          pod : {"none", "kept", "deleted"}, made : 0..MaxOutput]

Facade == [current : Nat, closed : BOOLEAN, detached : BOOLEAN, buffering : BOOLEAN,
           timer : BOOLEAN, buffer : Seq(Chunk)]

\* resumes: the query names the terminal.  cut: what the server sends is lost.
Link == [resumes : BOOLEAN, client : {"open", "closed"},
         server : {"none", "open", "closing", "closed"}, cut : BOOLEAN,
         up : Seq(Upward), down : Seq(Downward)]

\* link: its WebSocket unless closed, or 0.  known: the tab has a terminalId.
\* transfer and saved: the tab's transferId and snapshot.  preparing: a transfer
\* preparation is pending.  after: the connection whose output its screen
\* had when it was adopted; 0 once the page was reloaded, and its screen with it.
Pane == [tab : BOOLEAN, link : Nat, known : BOOLEAN, transfer : 0..MaxTransfers,
         saved : Seq(Chunk), screen : Seq(Chunk), preparing : BOOLEAN, after : Nat]

Transfer == [id : 0..MaxTransfers, from : SUBSET Windows, claim : SUBSET Windows,
             claimed : BOOLEAN]

TypeOK ==
  /\ shell \in Shell /\ facade \in Facade /\ links \in Seq(Link)
  /\ panes \in [Windows -> Pane] /\ transfer \in Transfer
  /\ lost \subseteq Chunk /\ faults \in 0..MaxFaults
  /\ facade.current <= Len(links) /\ \A w \in Windows : panes[w].link <= Len(links)
  /\ Len(facade.buffer) <= MaxBuffer

NoPane == [tab |-> FALSE, link |-> 0, known |-> FALSE, transfer |-> 0, saved |-> <<>>,
           screen |-> <<>>, preparing |-> FALSE, after |-> 0]

Connect(resumes) == [resumes |-> resumes, client |-> "open", server |-> "none",
                     cut |-> FALSE, up |-> <<>>, down |-> <<>>]

Init ==
  /\ shell = [stage |-> "none", over |-> FALSE, pod |-> "none", made |-> 0]
  /\ facade = [current |-> 0, closed |-> FALSE, detached |-> FALSE, buffering |-> FALSE,
               timer |-> FALSE, buffer |-> <<>>]
  /\ links = <<Connect(FALSE)>>
  /\ panes = [w \in Windows |->
                IF w = Home THEN [NoPane EXCEPT !.tab = TRUE, !.link = 1] ELSE NoPane]
  /\ transfer = [id |-> 0, from |-> {}, claim |-> {}, claimed |-> FALSE]
  /\ lost = {}
  /\ faults = 0

Fault == faults < MaxFaults /\ faults' = faults + 1

Output(n) == [op |-> "output", chunk |-> n]
Control(op) == [op |-> op, chunk |-> 0]
Frames(chunks) == [i \in DOMAIN chunks |-> Output(chunks[i])]
Outputs(frames) == {i \in DOMAIN frames : frames[i].op = "output"}
Chunks(frames) == {frames[i].chunk : i \in Outputs(frames)}

\* Both directions, nothing onto a connection that is broken or closing.
Send(ls, l, frames) == IF ls[l].cut THEN ls ELSE [ls EXCEPT ![l].down = @ \o frames]
Ask(ls, l, op) ==
  IF l = 0 \/ ls[l].server \notin {"open", "closing"} \/ ls[l].cut THEN ls
  ELSE [ls EXCEPT ![l].up = Append(@, op)]
ServerCloses(ls, l) ==
  IF ls[l].server # "open" THEN ls
  ELSE [Send(ls, l, <<Control("close")>>) EXCEPT ![l].server = "closing"]

InFlight(l) == IF l = facade.current THEN Chunks(links[l].down) ELSE {}

\* The page closes its socket, or goes away with it.
Hang(ls, l, op) ==
  IF l = 0 THEN ls
  ELSE [Ask(ls, l, op) EXCEPT ![l].client = "closed", ![l].cut = TRUE, ![l].down = <<>>,
          ![l].up = IF ls[l].server = "none" THEN <<"gone">> ELSE @]

\* Nobody listens for the answer to a close of the server's.
Answered(ls, l) ==
  IF ls[l].server # "closing" THEN ls
  ELSE [ls EXCEPT ![l].server = "closed", ![l].up = <<>>]

(***************************************************************************)
(* The facade                                                              *)
(***************************************************************************)
CurrentOpen == facade.current # 0 /\ links[facade.current].server = "open"

\* finish(), and what the facade's 'close' event does to the bridge.
Finish(f) == [f EXCEPT !.closed = TRUE, !.detached = FALSE, !.timer = FALSE, !.buffer = <<>>]

Released(s) ==
  IF s.stage \notin {"connecting", "open"} THEN s
  ELSE [s EXCEPT !.over = TRUE, !.pod = IF @ = "kept" THEN "deleted" ELSE @,
                 !.stage = IF @ = "open" THEN "ended" ELSE @]

FinishAlone == facade' = Finish(facade) /\ shell' = Released(shell)

\* close(): the current socket is closed with it.
CloseFacade(frames) ==
  IF facade.closed THEN links
  ELSE ServerCloses(IF CurrentOpen THEN Send(links, facade.current, frames) ELSE links,
                    facade.current)

\* Mutant: the buffer is not bounded.
BufferedAll(n) == Append(facade.buffer, n)

\* bufferTransferData.
Buffered(n) ==
  IF Len(facade.buffer) < MaxBuffer THEN Append(facade.buffer, n)
  ELSE Append(Tail(facade.buffer), n)

\* send() of a chunk, from the shell or from the node shell's start-up notes.
Write ==
  /\ shell.stage \in {"pod", "open"} /\ ~facade.closed /\ shell.made < MaxOutput
  /\ LET n == shell.made + 1
     IN /\ shell' = [shell EXCEPT !.made = n]
        /\ IF facade.buffering \/ facade.detached \/ ~CurrentOpen
           THEN /\ facade' = [facade EXCEPT !.buffer = Buffered(n)]
                /\ lost' = lost \cup (Range(facade.buffer) \ Range(Buffered(n)))
                /\ links' = links
           ELSE /\ links' = Send(links, facade.current, <<Output(n)>>)
                /\ lost' = IF links[facade.current].cut THEN lost \cup {n} ELSE lost
                /\ facade' = facade
  /\ UNCHANGED <<panes, transfer, faults>>

\* Requests arrive in the order they were made: a page reloads for longer than
\* one is on its way.
Arrives(l) == links[l].server = "none" /\ \A k \in 1..(l - 1) : links[k].server # "none"

FlushLost(l) == IF links[l].cut THEN Range(facade.buffer) ELSE {}

\* A connection without a terminalId: the facade is created and the bridge
\* started, for a node shell after its pod.
AcceptNew(l) ==
  /\ Arrives(l) /\ ~links[l].resumes
  /\ \E stage \in {"pod", "connecting"} : shell' = [shell EXCEPT !.stage = stage]
  /\ facade' = [facade EXCEPT !.current = l]
  /\ links' = Send([links EXCEPT ![l].server = "open"], l, <<Control("session")>>)
  /\ UNCHANGED <<panes, transfer, lost, faults>>

\* attach(): the new socket replaces the current one.
Attach(l) ==
  /\ Arrives(l) /\ links[l].resumes /\ ~facade.closed
  /\ links' = Send([ServerCloses(links, facade.current) EXCEPT ![l].server = "open"],
                   l, <<Control("session")>> \o Frames(facade.buffer))
  /\ facade' = [facade EXCEPT !.current = l, !.detached = FALSE, !.timer = FALSE,
                  !.buffering = FALSE, !.buffer = <<>>]
  /\ lost' = IF \E w \in Windows : panes[w].link = l /\ panes[w].after # facade.current
             THEN UNION {(1..shell.made) \ Range(panes[w].screen \o facade.buffer) :
                           w \in {v \in Windows : panes[v].link = l}}
             ELSE lost \cup FlushLost(l)
  /\ UNCHANGED <<shell, panes, transfer, faults>>

\* No such terminal any more, or no such cluster.
AttachRefused(l) ==
  /\ Arrives(l) /\ (links[l].resumes => facade.closed)
  /\ links' = [Send(links, l, <<Control("exit"), Control("close")>>)
                 EXCEPT ![l].server = "closing"]
  /\ UNCHANGED <<shell, facade, panes, transfer, lost, faults>>

\* What the server reads next on l; only the current socket has listeners.
Reads(l, op) ==
  links[l].server \in {"open", "closing"} /\ links[l].up # <<>> /\ Head(links[l].up) = op
Bound(l) == l = facade.current /\ ~facade.closed
Read(l) == [links EXCEPT ![l].up = Tail(@)]

\* Mutant: output still goes to the old window.
OnPrepareOpen(l) ==
  /\ Reads(l, "prepare")
  /\ links' = IF Bound(l) THEN Send(Read(l), l, <<Control("ready")>>) ELSE Read(l)
  /\ UNCHANGED <<shell, facade, panes, transfer, lost, faults>>

OnPrepare(l) ==
  /\ Reads(l, "prepare")
  /\ IF Bound(l)
     THEN facade' = [facade EXCEPT !.buffering = TRUE]
          /\ links' = Send(Read(l), l, <<Control("ready")>>)
     ELSE facade' = facade /\ links' = Read(l)
  /\ UNCHANGED <<shell, panes, transfer, lost, faults>>

OnCancel(l) ==
  /\ Reads(l, "cancel")
  /\ IF Bound(l)
     THEN /\ facade' = [facade EXCEPT !.buffering = FALSE, !.buffer = <<>>]
          /\ links' = Send(Read(l), l, Frames(facade.buffer))
          /\ lost' = lost \cup FlushLost(l)
     ELSE facade' = facade /\ links' = Read(l) /\ lost' = lost
  /\ UNCHANGED <<shell, panes, transfer, faults>>

Gone(l) == [links EXCEPT ![l].server = "closed", ![l].up = <<>>]

\* Mutant: the listeners of a replaced socket stay.
OnByeOfAny(l) ==
  /\ Reads(l, "bye")
  /\ links' = Gone(l)
  /\ IF facade.closed THEN UNCHANGED <<shell, facade>> ELSE FinishAlone
  /\ UNCHANGED <<panes, transfer, lost, faults>>

\* handleClose, of a socket the page closed to end the session...
OnBye(l) ==
  /\ Reads(l, "bye")
  /\ links' = Gone(l)
  /\ IF Bound(l) THEN FinishAlone ELSE UNCHANGED <<shell, facade>>
  /\ UNCHANGED <<panes, transfer, lost, faults>>

\* Mutant: the grace timer is not armed.
OnGoneForGood(l) ==
  /\ Reads(l, "gone")
  /\ links' = Gone(l)
  /\ facade' = IF Bound(l) THEN [facade EXCEPT !.detached = TRUE] ELSE facade
  /\ UNCHANGED <<shell, panes, transfer, lost, faults>>

\* ... or of one that just went away: the session waits for its window.
OnGone(l) ==
  /\ Reads(l, "gone")
  /\ links' = Gone(l)
  /\ facade' = IF Bound(l) THEN [facade EXCEPT !.detached = TRUE, !.timer = TRUE]
               ELSE facade
  /\ UNCHANGED <<shell, panes, transfer, lost, faults>>

GraceExpires ==
  /\ facade.timer
  /\ FinishAlone
  /\ UNCHANGED <<links, panes, transfer, lost, faults>>

\* The server's onClose hook: dispose().
Dispose ==
  /\ facade.current # 0 /\ ~facade.closed
  /\ Fault
  /\ FinishAlone /\ links' = CloseFacade(<<>>)
  /\ UNCHANGED <<panes, transfer, lost>>

(***************************************************************************)
(* The bridge                                                              *)
(***************************************************************************)
\* createNodeShellPod returns.  A closed facade has aborted the wait or is seen
\* afterwards: either way the pod is deleted.
PodStarts ==
  /\ shell.stage = "pod"
  /\ shell' = IF facade.closed THEN [shell EXCEPT !.stage = "ended", !.pod = "deleted"]
              ELSE [shell EXCEPT !.stage = "connecting", !.pod = "kept"]
  /\ UNCHANGED <<facade, links, panes, transfer, lost, faults>>

\* Mutant: the browser may have left during the handshake.
ConnectedRegardless ==
  /\ shell.stage = "connecting"
  /\ shell' = [shell EXCEPT !.stage = "open"]
  /\ UNCHANGED <<facade, links, panes, transfer, lost, faults>>

\* The handshake is answered.
Connected ==
  /\ shell.stage = "connecting"
  /\ shell' = [shell EXCEPT !.stage = IF shell.over THEN "ended" ELSE "open"]
  /\ UNCHANGED <<facade, links, panes, transfer, lost, faults>>

\* The pod or the handshake fails, or the shell ends: 'exit', and the facade closes.
Ends ==
  /\ shell.stage \in {"pod", "connecting", "open"}
  /\ shell' = [Released(shell) EXCEPT !.stage = "ended"]
  /\ IF facade.closed THEN UNCHANGED <<facade, links>>
     ELSE facade' = Finish(facade) /\ links' = CloseFacade(<<Control("exit")>>)
  /\ UNCHANGED <<panes, transfer, lost, faults>>

(***************************************************************************)
(* The panes and the transfer                                              *)
(***************************************************************************)
\* The source's WebSocket is OPEN: the server has accepted it.
PaneOpen(w) == panes[w].link # 0 /\ links[panes[w].link].server # "none"

\* w adopted the tab under the token and has not got its terminal yet.
Adopting(w) == panes[w].transfer = transfer.id /\ transfer.id # 0

\* The source's handlers run on its tab as it is now.  cancelTransfer settles a
\* pending preparation, which answers the claim with nothing.
Cancelled(p) == [w \in Windows |->
                   IF w \in transfer.from THEN [p[w] EXCEPT !.preparing = FALSE] ELSE p[w]]
CancelAsked(ls) ==
  LET sources == {w \in transfer.from : panes[w].tab /\ PaneOpen(w)}
  IN IF sources = {} THEN ls
     ELSE Ask(ls, panes[CHOOSE w \in sources : TRUE].link, "cancel")

\* The pane is unmounted: its preparation is settled, its socket closed.
Unmount(w, op) ==
  /\ links' = Hang(links, panes[w].link, op)
  /\ lost' = IF panes[w].link = 0 THEN lost ELSE lost \cup InFlight(panes[w].link)

\* Nothing of an earlier transfer is under way.
AllArrived ==
  \A l \in DOMAIN links : /\ Range(links[l].up) \cap {"prepare", "cancel"} = {}
                         /\ Control("ready") \notin Range(links[l].down)

\* moveTabToNewWindow, or a drag starts: a token and its source are registered.
BeginTransfer(w) ==
  /\ panes[w].tab /\ transfer.from = {} /\ transfer.claim = {}
  /\ transfer.id < MaxTransfers
  /\ LateReplies \/ AllArrived
  /\ transfer' = [id |-> transfer.id + 1, from |-> {w}, claim |-> {}, claimed |-> FALSE]
  /\ UNCHANGED <<shell, facade, links, panes, lost, faults>>

\* claimTabTransfer in another window.  The source, if it is still there,
\* prepares: a tab with a terminalId asks the server to hold the output back.
Claim(v) ==
  /\ transfer.id # 0 /\ ~transfer.claimed /\ v \notin transfer.from
  /\ \A w \in transfer.from :
       panes[w].tab /\ panes[w].known /\ PaneOpen(w) /\ ~panes[w].preparing
  /\ transfer' = [transfer EXCEPT !.claim = {v}, !.claimed = TRUE]
  /\ panes' = [w \in Windows |->
                 IF w \in transfer.from THEN [panes[w] EXCEPT !.preparing = TRUE]
                 ELSE panes[w]]
  /\ links' = IF transfer.from = {} THEN links
              ELSE Ask(links, panes[CHOOSE w \in transfer.from : TRUE].link, "prepare")
  /\ UNCHANGED <<shell, facade, lost, faults>>

\* The source has no tab or no open socket any more: nothing is offered.
ClaimRefused(v) ==
  /\ transfer.id # 0 /\ ~transfer.claimed /\ v \notin transfer.from
  /\ \E w \in transfer.from :
       ~panes[w].tab \/ (panes[w].known /\ ~PaneOpen(w))
  /\ transfer' = [transfer EXCEPT !.claimed = TRUE]
  /\ UNCHANGED <<shell, facade, links, panes, lost, faults>>

\* A tab whose session never began or is over is moved at once: the claiming
\* window starts a shell of its own, the source closes its tab.
ClaimDead(v) ==
  /\ transfer.id # 0 /\ ~transfer.claimed /\ v \notin transfer.from
  /\ \E w \in transfer.from :
       /\ panes[w].tab /\ ~panes[w].known
       /\ Unmount(w, "bye")
       /\ panes' = [panes EXCEPT ![w] = NoPane]
  /\ transfer' = [transfer EXCEPT !.claimed = TRUE, !.from = {}]
  /\ UNCHANGED <<shell, facade, faults>>

\* TRANSFER_PREPARE_TIMEOUT_MS: nothing is offered.
PrepareTimesOut(w) ==
  /\ panes[w].preparing
  /\ panes' = [panes EXCEPT ![w].preparing = FALSE]
  /\ links' = IF PaneOpen(w) THEN Ask(links, panes[w].link, "cancel") ELSE links
  /\ transfer' = [transfer EXCEPT !.claim = {}]
  /\ UNCHANGED <<shell, facade, lost, faults>>

\* CLAIM_TIMEOUT_MS.
ClaimTimesOut ==
  /\ transfer.claim # {}
  /\ transfer' = [transfer EXCEPT !.claim = {}]
  /\ panes' = Cancelled(panes) /\ links' = CancelAsked(links)
  /\ UNCHANGED <<shell, facade, lost, faults>>

\* The drag ends nowhere, or the token's two minutes, longer than a claim and
\* what follows it take, are over.
SourceExpires ==
  /\ transfer.from # {}
  /\ transfer.claim = {} /\ ~\E w \in Windows : Adopting(w)
  /\ transfer' = [transfer EXCEPT !.from = {}]
  /\ panes' = Cancelled(panes) /\ links' = CancelAsked(links)
  /\ UNCHANGED <<shell, facade, lost, faults>>

\* ws.onmessage of the socket of w's pane.
Shows(w, op) ==
  /\ panes[w].link # 0
  /\ LET l == panes[w].link
     IN links[l].down # <<>> /\ Head(links[l].down).op = op
Shown(w) == [links EXCEPT ![panes[w].link].down = Tail(@)]

OnOutput(w) ==
  /\ Shows(w, "output")
  /\ panes' = [panes EXCEPT ![w].screen = Append(@, Head(links[panes[w].link].down).chunk)]
  /\ links' = Shown(w)
  /\ UNCHANGED <<shell, facade, transfer, lost, faults>>

\* 'session': a tab that was moved here has its terminal; the source, told that
\* the transfer is complete, closes its tab.
OnSession(w) ==
  /\ Shows(w, "session")
  /\ LET sources == IF Adopting(w) THEN transfer.from ELSE {}
         here == [panes[w] EXCEPT !.known = TRUE, !.transfer = 0, !.saved = <<>>]
     IN /\ panes' = [v \in Windows |-> IF v = w THEN here
                                       ELSE IF v \in sources THEN NoPane ELSE panes[v]]
        /\ transfer' = [transfer EXCEPT !.from = @ \ sources]
        /\ links' = IF sources = {} THEN Shown(w)
                    ELSE Hang(Shown(w), panes[CHOOSE v \in sources : TRUE].link, "bye")
  /\ UNCHANGED <<shell, facade, lost, faults>>

\* 'transfer-ready': the tab is offered with its screen and adopted by the
\* claiming window, which connects with its terminalId.
OnReady(w) ==
  /\ Shows(w, "ready")
  /\ IF ~panes[w].preparing \/ transfer.claim = {}
     THEN /\ links' = Shown(w)
          /\ UNCHANGED <<panes, transfer>>
     ELSE \E v \in transfer.claim :
            /\ transfer' = [transfer EXCEPT !.claim = {}]
            /\ IF panes[v].tab
               THEN /\ links' = Ask(Shown(w), panes[w].link, "cancel")
                    /\ panes' = [panes EXCEPT ![w].preparing = FALSE]
               ELSE /\ links' = Append(Shown(w), Connect(TRUE))
                    /\ panes' = [panes EXCEPT ![w].preparing = FALSE,
                         ![v] = [NoPane EXCEPT !.tab = TRUE, !.link = Len(links) + 1,
                                   !.known = TRUE, !.transfer = transfer.id,
                                   !.saved = panes[w].screen, !.screen = panes[w].screen,
                                   !.after = panes[w].link]]
  /\ UNCHANGED <<shell, facade, lost, faults>>

OnExit(w) ==
  /\ Shows(w, "exit")
  /\ panes' = [panes EXCEPT ![w].known = FALSE]
  /\ links' = Shown(w)
  /\ UNCHANGED <<shell, facade, transfer, lost, faults>>

\* ws.onclose: a tab that did not get its terminal gives it back.
OnClose(w) ==
  /\ Shows(w, "close")
  /\ LET mine == Adopting(w)
         closed == Answered(Hang(links, panes[w].link, "gone"), panes[w].link)
         pane == [panes[w] EXCEPT !.link = 0, !.transfer = 0, !.saved = <<>>]
     IN /\ links' = IF mine THEN CancelAsked(closed) ELSE closed
        /\ panes' = [IF mine THEN Cancelled(panes) ELSE panes EXCEPT ![w] = pane]
  /\ UNCHANGED <<shell, facade, transfer, lost, faults>>

\* The user closes the tab, or asks for a fresh shell in its place.
CloseTab(w) ==
  /\ panes[w].tab
  /\ Unmount(w, "bye")
  /\ panes' = [panes EXCEPT ![w] = NoPane]
  /\ transfer' = IF panes[w].preparing THEN [transfer EXCEPT !.claim = {}] ELSE transfer
  /\ UNCHANGED <<shell, facade, faults>>

(***************************************************************************)
(* Faults                                                                  *)
(***************************************************************************)
\* A connection breaks: what is under way is lost, each side notices later.
Breaks(l) ==
  /\ Fault
  /\ ~links[l].cut /\ links[l].client = "open" /\ links[l].server \in {"none", "open"}
  /\ lost' = lost \cup InFlight(l)
  /\ links' = [links EXCEPT ![l].cut = TRUE, ![l].down = <<Control("close")>>,
                 ![l].up = IF links[l].server = "none" THEN <<>> ELSE <<"gone">>,
                 ![l].server = IF @ = "none" THEN "closed" ELSE @]
  /\ UNCHANGED <<shell, facade, panes, transfer>>

\* The tab's sources and claims go with the page of w.
PageGone(w) ==
  transfer' = [transfer EXCEPT !.from = @ \ {w}, !.claim = @ \ {w}]

\* The page is reloaded; sessionStorage keeps the tab with its terminalId, and
\* its snapshot while a transfer is not complete.  Without a terminalId the tab
\* starts a fresh shell.
Reload(w) ==
  /\ panes[w].tab
  /\ Fault
  /\ IF panes[w].known
     THEN /\ links' = Append(Hang(links, panes[w].link, "gone"), Connect(TRUE))
          /\ panes' = [panes EXCEPT ![w].link = Len(links) + 1, ![w].preparing = FALSE,
                         ![w].screen = panes[w].saved,
                         ![w].after = 0]
     ELSE /\ links' = Hang(links, panes[w].link, "gone")
          /\ panes' = [panes EXCEPT ![w] = NoPane]
  /\ lost' = IF panes[w].link = 0 THEN lost ELSE lost \cup InFlight(panes[w].link)
  /\ PageGone(w)
  /\ UNCHANGED <<shell, facade>>

\* The window is closed or crashes.
WindowGone(w) ==
  /\ panes[w].tab
  /\ Fault
  /\ Unmount(w, "gone")
  /\ panes' = [panes EXCEPT ![w] = NoPane]
  /\ PageGone(w)
  /\ UNCHANGED <<shell, facade>>

-----------------------------------------------------------------------------
Server == \/ \E l \in DOMAIN links : \/ AcceptNew(l) \/ Attach(l) \/ AttachRefused(l)
                                     \/ OnPrepare(l) \/ OnCancel(l) \/ OnBye(l) \/ OnGone(l)
          \/ GraceExpires \/ PodStarts \/ Connected

Browser == \/ \E w \in Windows : \/ OnOutput(w) \/ OnSession(w) \/ OnReady(w) \/ OnExit(w)
                                 \/ OnClose(w) \/ PrepareTimesOut(w)
           \/ ClaimTimesOut \/ SourceExpires

User == \E w \in Windows : \/ BeginTransfer(w) \/ Claim(w) \/ ClaimRefused(w) \/ ClaimDead(w)
                           \/ CloseTab(w) \/ Reload(w) \/ WindowGone(w)

Next == \/ Server \/ Browser \/ User \/ Write \/ Ends \/ Dispose
        \/ \E l \in DOMAIN links : Breaks(l)

Spec == Init /\ [][Next]_vars

\* Messages arrive, requests are answered, timers fire.
FairSpec == Spec /\ WF_vars(Server \/ Browser)

(***************************************************************************)
(* Properties                                                              *)
(***************************************************************************)
Attached(w) == panes[w].tab /\ panes[w].link # 0 /\ panes[w].link = facade.current

Ascending(s) == \A i, j \in DOMAIN s : i < j => s[i] < s[j]
InOrder(frames) == \A i, j \in Outputs(frames) : i < j => frames[i].chunk < frames[j].chunk
Before(S, T) == \A m \in S, n \in T : m < n

\* Moving a terminal loses, repeats and reorders nothing: what the pane that is
\* attached shows, what is on its way there and what the server holds back are
\* all that the shell has written, in order, but for what a full buffer, a
\* broken connection or a reload cost.  transferable-exec.ts:9 "Output is bounded
\* and buffered while the new window claims the session."
Conserved ==
  \A w \in Windows : Attached(w) /\ ~facade.closed =>
    LET screen == panes[w].screen
        down == links[facade.current].down
        held == facade.buffer
    IN /\ Ascending(screen) /\ InOrder(down) /\ Ascending(held)
       /\ Before(Range(screen), Chunks(down) \cup Range(held))
       /\ Before(Chunks(down), Range(held))
       /\ (1..shell.made) \ (Range(screen) \cup Chunks(down) \cup Range(held)) \subseteq lost

\* Nothing outlives the terminal: no upstream connection, also when it was being
\* opened as the browser left, and no node shell pod.
NoOrphanShell ==
  facade.closed => shell.stage # "open" /\ shell.pod # "kept"

\* "moving a tab between renderers does not close the upstream shell"
\* (transferable-exec.ts:11): while a pane is attached by a connection that
\* works, the session ends only with its shell or with the server.
EndsUnattended ==
  [][facade'.closed /\ ~facade.closed /\ ~Ends /\ ~Dispose
       => ~\E w \in Windows : Attached(w) /\ ~links[facade.current].cut]_vars

\* Nothing is kept for ever, whatever becomes of the windows and the transfer:
\* output that is held back for a transfer is released (transferable-exec.ts
\* 71-110), and a terminal that no window shows ends (120-137).
Unheld == facade.current # 0 /\ \A w \in Windows : ~panes[w].tab
NothingLingers == []<>(facade.buffering \/ Unheld => facade.closed)
=============================================================================
