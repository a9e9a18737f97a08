---------------------------- MODULE WebChannel ----------------------------
(***************************************************************************)
(* The live part of the web UI: web/channel.go between the router and the  *)
(* browsers, web/hub.go, the request handlers of web/server.go and         *)
(* web/projects.go that start, prompt and stop conversations, and one open *)
(* project page (templates/projectview.html) with its two sockets.         *)
(*                                                                         *)
(* Every request and every agent has a goroutine.  Announcing an event     *)
(* runs the subscribers in order on it: the persister has written the row  *)
(* when the web channel publishes; what is left to publish is in say.      *)
(* Publish finds a subscriber, and sends to its channel in a later step.   *)
(*                                                                         *)
(* The page is loaded, then subscribes to the lifecycle topic and to its   *)
(* conversation.  A nudge makes it fetch the taskbar; answers may pass     *)
(* each other.  It can start a conversation and go on with that one in     *)
(* place, and stop the one it shows.                                       *)
(*                                                                         *)
(* A turn outlives its conversation: what a prompt or its answer writes to *)
(* the row may come after the end, or a restart, of the conversation.      *)
(***************************************************************************)
EXTENDS Integers, Sequences, FiniteSets, SequencesExt

CONSTANTS
  MaxConvs,      \* bound: conversations; 1 is of an earlier server
  Goroutines,    \* those of requests, agents and other channels
  DotLimit,      \* tabDotLimit
  Cap,           \* the capacity of a subscriber's channel
  MaxFlights,    \* bound: taskbar requests under way
  MaxEvents      \* bound: requests, follow-ups, ends and adoptions of agents, loads and
                 \* broken sockets

ASSUME LimitsAssumption ==
  /\ MaxConvs \in Nat \ {0} /\ DotLimit \in Nat \ {0}
  /\ Cap \in Nat \ {0} /\ MaxFlights \in Nat \ {0} /\ MaxEvents \in Nat

Convs == 1..MaxConvs
Topics == {"life", "feed"}       \* LifecycleTopic, and the conversation the page shows

VARIABLES
  rows,          \* the status of each row in the store, in the order of their creation
  current,       \* the conversation that the process of each one serves now (state.meta)
  live,          \* conversations registered in the router
  turns,         \* how many prompts sent in each conversation are not answered
  byID,          \* those the web channel maps
  ours,          \* history: those it started, adopted or was given by a restart
  act,           \* what each goroutine is in the middle of
  page,          \* the page: what it shows, its sockets, and what it waits for
  orphans,       \* history: live conversations a failed or overtaken restart left behind
  noops,         \* history: conversations a Stop reported stopped without closing them
  reopened,      \* history: conversations whose finished row a turn set running again
  panicked,      \* a Publish sent on a closed channel
  events         \* how much of the bound is used

agents == <<live, current>>
server == <<rows, agents, turns, byID, ours, orphans, noops, reopened>>
vars == <<server, act, page, panicked, events>>

Rest == [at |-> "idle", conv |-> 0, next |-> 0, say |-> <<>>, to |-> "none"]

\* A page that is not open.  asks are the requests whose answer it waits for, cut says that its
\* feed broke.  The others are history: missed and deaf, a change of the taskbar, or of the
\* conversation shown, of which nothing told it; misled, the answer to the Stop of another.
Blank == [view |-> 0, pill |-> "none", subs |-> {}, queue |-> [t \in Topics |-> <<>>],
          timer |-> FALSE, flights |-> <<>>, bar |-> {}, asks |-> {}, cut |-> FALSE,
          missed |-> FALSE, deaf |-> FALSE, misled |-> FALSE]

\* A user, an agent or the network does something once more.
Event == events < MaxEvents /\ events' = events + 1

Init ==
  /\ rows = <<"done">> /\ current = <<1>> /\ live = {} /\ turns = [c \in Convs |-> 0]
  /\ byID = {} /\ ours = {}
  /\ act = [g \in Goroutines |-> Rest]
  /\ page = Blank
  /\ orphans = {} /\ noops = {} /\ reopened = {} /\ panicked = FALSE /\ events = 0

-----------------------------------------------------------------------------
(* Helpers *)

Open(c) == rows[c] \in {"pending", "running"}
OpenRows == {c \in DOMAIN rows : Open(c)}

\* The dots of the project's tab: its newest open sessions, and whether each is running.
buildProjectTabs ==
  {<<c, rows[c]>> : c \in {d \in OpenRows : Cardinality({e \in OpenRows : e > d}) < DotLimit}}

Free(g) == act[g] = Rest
At(g, at) == act[g].at = at /\ act[g].say = <<>>
Goes(g, at, c, n, say) ==
  act' = [act EXCEPT ![g] = [Rest EXCEPT !.at = at, !.conv = c, !.next = n, !.say = say]]
Ends(g, say) == Goes(g, "idle", 0, 0, say)

\* The page becomes p, and goroutines a.  Where it gave a socket up, Unsubscribe closes the
\* channel, also for a Publish that is about to send.
BecomesWhile(p, a) ==
  /\ page' = p
  /\ act' = [g \in Goroutines |->
               IF a[g].to = "open" /\ Head(a[g].say).topic \in page.subs \ p.subs
               THEN [a[g] EXCEPT !.to = "closed"] ELSE a[g]]
Becomes(p) == BecomesWhile(p, act)

\* Goroutine g is done, and its answer, which the page waits for, makes the page p.
Answers(g, p) == BecomesWhile(p, [act EXCEPT ![g] = Rest])

\* The page of conversation c as it is loaded.
Loaded(c) ==
  [Blank EXCEPT !.view = c, !.bar = buildProjectTabs, !.pill = IF Open(c) THEN "live" ELSE "done"]

publishLifecycle(c, phase) == [topic |-> "life", conv |-> c, phase |-> phase, new |-> 0]
publishLifecycleClosed(c) == publishLifecycle(c, "closed")
sessionReplaced(old, new) == [topic |-> "feed", conv |-> old, phase |-> "replaced", new |-> new]

\* A new row, its conversation registered or stillborn.
New == Len(rows) + 1
CanCreate == New <= MaxConvs
Creates(status) ==
  /\ CanCreate
  /\ rows' = Append(rows, status) /\ current' = Append(current, New)

\* The persister sets a row running, whatever became of it meanwhile (beginTurn, endTurn).
Runs(c) ==
  /\ rows' = [rows EXCEPT ![c] = "running"]
  /\ reopened' = IF Open(c) THEN reopened ELSE reopened \cup {c}

-----------------------------------------------------------------------------
(* Conversations the web starts *)

\* viewProjects without a session: it lists the project's, and finds none open.
viewProjects(g) ==
  /\ Free(g) /\ OpenRows = {}
  /\ Goes(g, "listed", 0, 0, <<>>)
  /\ UNCHANGED <<server, page>>

\* StartSessionWeb up to the return of Router.Create, which may also fail before it announces
\* anything.
StartSessionWeb(g) ==
  /\ Creates("pending") /\ live' = live \cup {New}
  /\ Goes(g, "mapping", New, 0, <<publishLifecycle(New, "created")>>)
  /\ UNCHANGED <<turns, byID, ours, orphans, noops, reopened>>

\* The page that found nothing open starts a conversation, or none can be started.
startPendingSession(g) ==
  /\ At(g, "listed") /\ UNCHANGED page
  /\ StartSessionWeb(g) \/ (Ends(g, <<>>) /\ UNCHANGED server)

\* A user asks for one by its directory.
createSession(g) == Free(g) /\ StartSessionWeb(g) /\ UNCHANGED page

\* A project whose directory cannot be found gets a stillborn one.
StartFailedSessionWeb(g) ==
  /\ Creates("done")
  /\ Goes(g, "stillborn", New, 0,
          <<publishLifecycle(New, "created"), publishLifecycleClosed(New)>>)
  /\ UNCHANGED <<live, turns, byID, ours, orphans, noops, reopened>>

\* ... or by the project, from the page (unless it waits for one already) or elsewhere.
createProjectSession(g) ==
  /\ Free(g)
  /\ StartSessionWeb(g) \/ StartFailedSessionWeb(g)
  /\ \/ UNCHANGED page
     \/ /\ page.view # 0 /\ \A h \in page.asks : act[h].at \notin {"mapping", "stillborn"}
        /\ page' = [page EXCEPT !.asks = @ \cup {g}]

\* startNewSession in the page: it goes on with conversation c in place, whatever the row says,
\* and its feed is opened anew.
Switched(g, c) ==
  [page EXCEPT !.view = c, !.pill = "live", !.asks = @ \ {g}, !.subs = @ \ {"feed"},
               !.queue["feed"] = <<>>, !.cut = FALSE, !.deaf = ~Open(c), !.misled = FALSE]

\* The entry in byID, and the answer.
StartMaps(g) ==
  LET c == act[g].conv IN
  /\ At(g, "mapping")
  /\ byID' = byID \cup {c} /\ ours' = ours \cup {c}
  /\ Answers(g, IF g \in page.asks THEN Switched(g, c) ELSE page)
  /\ UNCHANGED <<rows, agents, turns, orphans, noops, reopened>>

\* The page goes to the stillborn's.
StartFailed(g) ==
  /\ At(g, "stillborn")
  /\ Answers(g, IF g \in page.asks THEN Loaded(act[g].conv) ELSE page)
  /\ UNCHANGED server

-----------------------------------------------------------------------------
(* Turns *)

\* The web, or the channel that owns it, is given a prompt or a command for a conversation;
\* WaitReady finds it.
SubmitPrompt(g, c) ==
  /\ Free(g) /\ c \in live /\ (c \in byID \/ c \notin ours)
  /\ Goes(g, "submit", c, 0, <<>>)
  /\ UNCHANGED <<server, page>>

\* It is a prompt, and the handshake is done: Send is given the conversation that the session
\* serves now and looks that up, or nothing more happens.
SendPrompt(g) ==
  LET c == current[act[g].conv] IN
  /\ At(g, "submit")
  /\ IF c \in live THEN Goes(g, "prompting", c, 0, <<>>) ELSE Ends(g, <<>>)
  /\ UNCHANGED <<server, page>>

\* Router.dispatch: the subscribers, the lock released since the look-up; then the agent.
PromptRuns(g) ==
  /\ At(g, "prompting")
  /\ Runs(act[g].conv)
  /\ turns' = [turns EXCEPT ![act[g].conv] = @ + 1]
  /\ Ends(g, <<publishLifecycle(act[g].conv, "running")>>)
  /\ UNCHANGED <<agents, byID, ours, orphans, noops, page>>

\* The agent answers a prompt: endTurn writes to the row of the conversation its session serves
\* now, which may be over, and no taskbar is told.  A hook may follow up with a prompt of its
\* own, which is not looked up.
TurnEnds(g, c, followUp) ==
  LET now == current[c] IN
  /\ Free(g) /\ turns[c] > 0
  /\ turns' = [turns EXCEPT ![c] = @ - 1]
  /\ Runs(now)
  /\ page' = [page EXCEPT !.missed = @ \/ rows[now] # "running"]
  /\ IF followUp THEN Goes(g, "prompting", now, 0, <<>>) ELSE UNCHANGED act
  /\ UNCHANGED <<agents, byID, ours, orphans, noops>>

-----------------------------------------------------------------------------
(* /clear, from the page or from the channel that owns the conversation *)

\* Restart re-keys the session and announces the new conversation.
Restart(g, c) ==
  /\ c \in live /\ CanCreate
  /\ rows' = Append(rows, "pending")
  /\ current' = [d \in 1..New |-> IF d = New \/ current[d] = c THEN New ELSE current[d]]
  /\ live' = (live \ {c}) \cup {New}
  /\ Goes(g, "restarting", c, New, <<publishLifecycle(New, "created")>>)
  /\ UNCHANGED <<turns, byID, ours, orphans, noops, reopened, page>>

\* WaitReady finds the new conversation,
RestartWaits(g) ==
  /\ At(g, "restarting") /\ act[g].next \in live
  /\ Goes(g, "replacing", act[g].conv, act[g].next, <<>>)
  /\ UNCHANGED <<server, page>>

\* The new conversation of one of ours is not mapped.
Orphaned(old, new) ==
  LET left == IF old \in ours THEN {new} \ byID ELSE {} IN
  ours' = ours \cup left /\ orphans' = orphans \cup left

\* ... and the handshake is done.  WaitReady returns what the session serves now, also if that
\* was closed or restarted meanwhile.  The persister finishes the old row; a mapped conversation
\* is re-keyed and its page and the taskbars are told.  Of one that is not mapped (another
\* channel's, or stopped meanwhile) the browsers hear nothing.
handleReplaced(g) ==
  LET old == act[g].conv  new == current[act[g].next] IN
  /\ At(g, "replacing")
  /\ rows' = [rows EXCEPT ![old] = "done"]
  /\ IF old \in byID
     THEN /\ byID' = (byID \ {old}) \cup {new} /\ ours' = ours \cup {new}
          /\ Ends(g, <<sessionReplaced(old, new), publishLifecycle(new, "replaced")>>)
          /\ UNCHANGED <<page, orphans>>
     ELSE /\ Ends(g, <<>>) /\ Orphaned(old, new) /\ UNCHANGED byID
          /\ page' = [page EXCEPT !.missed = TRUE, !.deaf = @ \/ page.view = old]
  /\ UNCHANGED <<agents, turns, noops, reopened>>

\* The write or the handshake fails, or the new conversation was closed before: only an error
\* comes back, and the old row stays as it is.
RestartFails(g) ==
  /\ At(g, "restarting") \/ At(g, "replacing")
  /\ Ends(g, <<>>)
  /\ Orphaned(act[g].conv, act[g].next)
  /\ UNCHANGED <<rows, agents, turns, byID, noops, reopened, page>>

-----------------------------------------------------------------------------
(* The end of conversations *)

\* closeConversation and the subscribers of ConversationClosed, for one that is registered.
\* The process still runs, and turns it has not answered may still end.
closeConversation(c) ==
  /\ live' = live \ {c}
  /\ rows' = [rows EXCEPT ![c] = "done"]
  /\ UNCHANGED <<current, turns, reopened>>

\* The page has asked for the Stop of c and is told that it is done: it says so of what it
\* shows, or goes to the desktop when nothing else of the project is open.
Stopped(g, c) ==
  IF g \notin page.asks THEN page
  ELSE IF OpenRows \subseteq {c} THEN Blank
  ELSE [page EXCEPT !.pill = "done", !.asks = @ \ {g}, !.misled = @ \/ page.view # c]

\* Stop is pressed in the page of c, or elsewhere.  CloseSession, up to the answer of the close
\* guards: it knows nothing to close and reports success, or goes on.  force asks no guards.
CloseSession(g, c) ==
  /\ Free(g)
  /\ page' \in {page} \cup (IF page.view = c /\ page.pill = "live"
                            THEN {[page EXCEPT !.asks = @ \cup {g}]} ELSE {})
  /\ Goes(g, IF c \in byID THEN "closing" ELSE "unknown", c, 0, <<>>)
  /\ noops' = IF c \notin byID /\ Open(c) THEN noops \cup {c} ELSE noops
  /\ UNCHANGED <<rows, agents, turns, byID, ours, orphans, reopened>>

\* Mutant: the mapping of a refused conversation is dropped.
CloseRefusedForgets(g) ==
  /\ At(g, "closing") /\ act[g].conv \in live
  /\ byID' = byID \ {act[g].conv}
  /\ Answers(g, [page EXCEPT !.asks = @ \ {g}])
  /\ UNCHANGED <<rows, agents, turns, ours, orphans, noops, reopened>>
\* TryCloseConversation is refused by a guard; the mapping stays.
CloseRefused(g) ==
  /\ At(g, "closing") /\ act[g].conv \in live
  /\ Answers(g, [page EXCEPT !.asks = @ \ {g}])
  /\ UNCHANGED server

\* TryCloseConversation without a veto, or ForceCloseConversation: nothing for an id that is
\* not registered any more.
CloseGoes(g) ==
  LET c == act[g].conv IN
  /\ At(g, "closing")
  /\ IF c \in live
     THEN /\ closeConversation(c)
          /\ Goes(g, "unmapping", c, 0, <<publishLifecycleClosed(c)>>)
          /\ UNCHANGED noops
     ELSE /\ Goes(g, "unmapping", c, 0, <<>>)
          /\ noops' = IF Open(c) THEN noops \cup {c} ELSE noops
          /\ UNCHANGED <<rows, agents, turns, reopened>>
  /\ UNCHANGED <<byID, ours, orphans, page>>

\* The mapping goes, if there was one, and the answer.
CloseUnmaps(g) ==
  /\ At(g, "unmapping") \/ At(g, "unknown")
  /\ byID' = byID \ (IF act[g].at = "unmapping" THEN {act[g].conv} ELSE {})
  /\ Answers(g, Stopped(g, act[g].conv))
  /\ UNCHANGED <<rows, agents, turns, ours, orphans, noops, reopened>>

\* Mutant: the end is not published.
ExitUnsaid(g, c) ==
  /\ Free(g) /\ c \in live
  /\ closeConversation(c)
  /\ Ends(g, <<>>)
  /\ UNCHANGED <<byID, ours, orphans, noops, page>>
\* The agent exits (watchProcess), or the channel that owns the conversation closes it.
Exit(g, c) ==
  /\ Free(g) /\ c \in live
  /\ closeConversation(c)
  /\ Ends(g, <<publishLifecycleClosed(c)>>)
  /\ UNCHANGED <<byID, ours, orphans, noops, page>>

\* Another channel creates a conversation.
OtherCreates(g) ==
  /\ Free(g) /\ Creates("pending") /\ live' = live \cup {New}
  /\ Ends(g, <<publishLifecycle(New, "created")>>)
  /\ UNCHANGED <<turns, byID, ours, orphans, noops, reopened, page>>

\* The conversation of the earlier server is adopted: its row is open again, and whichever
\* channel started it, the web maps it.  A page that shows it as over goes on doing so.
Adopt(g) ==
  /\ Free(g) /\ 1 \notin ours
  /\ rows' = [rows EXCEPT ![1] = "pending"] /\ live' = live \cup {1}
  /\ byID' = byID \cup {1} /\ ours' = ours \cup {1}
  /\ Ends(g, <<publishLifecycle(1, "adopted")>>)
  /\ page' = [page EXCEPT !.deaf = @ \/ page.view = 1]
  /\ UNCHANGED <<current, turns, orphans, noops, reopened>>

-----------------------------------------------------------------------------
(* The hub *)

Message(g) == Head(act[g].say)
Saying(g, to) == act[g].say # <<>> /\ act[g].to = to

\* The message is for a topic that the page is subscribed to.
Hears(m) == m.topic \in page.subs /\ (m.topic = "feed" => m.conv = page.view)

\* The page will not learn what m says: a change of the taskbar (another nudge may do as
\* well), or that the conversation it shows is over.
Unheard(m, alsoBar) ==
  page' = [page EXCEPT !.missed = @ \/ (alsoBar /\ m.topic = "life"),
                       !.deaf = @ \/ (m.conv = page.view
                                      /\ m.phase \in {"closed", "replaced"})]

Said(g) == act' = [act EXCEPT ![g].say = Tail(@), ![g].to = "none"]

\* Publish finds the page among the topic's subscribers,
PublishFinds(g) ==
  /\ Saying(g, "none") /\ Hears(Message(g))
  /\ act' = [act EXCEPT ![g].to = "open"]
  /\ UNCHANGED <<server, page>>

\* ... or nobody it has to tell.
PublishFindsNone(g) ==
  /\ Saying(g, "none") /\ ~Hears(Message(g))
  /\ Said(g) /\ Unheard(Message(g), TRUE)
  /\ UNCHANGED server

\* The send, which drops the message when the channel is full.
PublishSends(g) ==
  LET t == Message(g).topic IN
  /\ Saying(g, "open") /\ Said(g)
  /\ IF Len(page.queue[t]) < Cap
     THEN page' = [page EXCEPT !.queue[t] = Append(@, Message(g))]
     ELSE Unheard(Message(g), FALSE)
  /\ UNCHANGED server

\* The channel was closed in the meantime: the send panics.
PublishPanics(g) ==
  /\ Saying(g, "closed")
  /\ panicked' = TRUE
  /\ UNCHANGED <<server, act, page>>

-----------------------------------------------------------------------------
(* The page *)

\* The page of another conversation is loaded; one that was open goes away with its sockets.
ViewSession(c) ==
  /\ c \in DOMAIN rows /\ page.view # c
  /\ Becomes(Loaded(c))
  /\ UNCHANGED server

\* serveWebSocket: the lifecycle socket of every page, the feed of one whose conversation
\* is open.
serveWebSocket(t) ==
  /\ page.view # 0 /\ t \notin page.subs
  /\ t = "feed" => page.pill = "live" /\ ~page.cut
  /\ page' = [page EXCEPT !.subs = @ \cup {t}]
  /\ UNCHANGED <<server, act>>

\* A socket breaks.  The page opens the lifecycle socket again, the feed never.
SocketBreaks(t) ==
  /\ t \in page.subs
  /\ Becomes([page EXCEPT !.subs = @ \ {t}, !.queue[t] = <<>>, !.missed = TRUE, !.deaf = TRUE,
                           !.cut = @ \/ t = "feed"])
  /\ UNCHANGED server

\* Mutant: the end of any conversation ends the page's.
OnNudgeAny ==
  /\ page.queue["life"] # <<>>
  /\ LET m == Head(page.queue["life"]) IN
     page' = [page EXCEPT !.queue["life"] = Tail(@), !.timer = TRUE,
                          !.pill = IF m.phase = "closed" THEN "done" ELSE @]
  /\ UNCHANGED <<server, act>>
\* A nudge: the taskbar is to be fetched, and the page of a conversation that is over says so.
OnNudge ==
  /\ page.queue["life"] # <<>>
  /\ LET m == Head(page.queue["life"]) IN
     page' = [page EXCEPT !.queue["life"] = Tail(@), !.timer = TRUE,
                          !.pill = IF m.phase = "closed" /\ m.conv = page.view
                                   THEN "done" ELSE @]
  /\ UNCHANGED <<server, act>>

\* session_replaced: the browser leaves for the page of the new conversation at /session,
\* which has neither taskbar nor lifecycle socket.
OnReplaced == page.queue["feed"] # <<>> /\ Becomes(Blank) /\ UNCHANGED server

\* The timer fires and viewTaskbar answers with the tabs of this moment.
viewTaskbar ==
  /\ page.timer /\ Len(page.flights) < MaxFlights
  /\ page' = [page EXCEPT !.timer = FALSE, !.missed = FALSE,
                          !.flights = Append(@, [bar |-> buildProjectTabs, late |-> FALSE])]
  /\ UNCHANGED <<server, act>>

\* An answer arrives.  Those asked before it are late now, and overwrite it when they come.
TaskbarArrives(i) ==
  /\ page' = [page EXCEPT
       !.bar = page.flights[i].bar,
       !.flights = [j \in DOMAIN RemoveAt(@, i) |->
                      IF j < i THEN [@[j] EXCEPT !.late = TRUE] ELSE @[j + 1]],
       !.missed = @ \/ page.flights[i].late]
  /\ UNCHANGED <<server, act>>

\* ... or none does, and the bar stays as it was.
TaskbarFails(i) ==
  /\ page' = [page EXCEPT !.flights = RemoveAt(@, i), !.missed = TRUE]
  /\ UNCHANGED <<server, act>>

-----------------------------------------------------------------------------
\* What a goroutine begins with, and how it goes on.
Begin(g) ==
  \/ viewProjects(g) \/ createSession(g) \/ createProjectSession(g)
  \/ OtherCreates(g) \/ Adopt(g)
  \/ \E c \in DOMAIN rows :
       \/ SubmitPrompt(g, c) \/ CloseSession(g, c) \/ Exit(g, c) \/ TurnEnds(g, c, TRUE)
       \/ (Free(g) /\ c \notin ours /\ Restart(g, c))

GoOn(g) ==
  \/ startPendingSession(g) \/ StartMaps(g) \/ StartFailed(g)
  \/ SendPrompt(g) \/ PromptRuns(g) \/ (\E c \in DOMAIN rows : TurnEnds(g, c, FALSE))
  \/ (At(g, "submit") /\ Restart(g, act[g].conv))
  \/ RestartWaits(g) \/ handleReplaced(g) \/ RestartFails(g)
  \/ CloseRefused(g) \/ CloseGoes(g) \/ CloseUnmaps(g)
  \/ PublishFinds(g) \/ PublishFindsNone(g) \/ PublishSends(g)

Browse ==
  \/ \E t \in Topics : serveWebSocket(t)
  \/ OnNudge \/ OnReplaced \/ viewTaskbar
  \/ \E i \in DOMAIN page.flights : TaskbarArrives(i)

Disturb ==
  \/ \E c \in Convs : ViewSession(c)
  \/ \E t \in Topics : SocketBreaks(t)
  \/ \E i \in DOMAIN page.flights : TaskbarFails(i)

Next ==
  /\ ~panicked
  /\ \/ (Disturb \/ (\E g \in Goroutines : Begin(g))) /\ Event /\ UNCHANGED panicked
     \/ (Browse \/ (\E g \in Goroutines : GoOn(g))) /\ UNCHANGED <<events, panicked>>
     \/ \E g \in Goroutines : PublishPanics(g) /\ UNCHANGED events

Spec == Init /\ [][Next]_vars

-----------------------------------------------------------------------------
(* Properties *)

\* Nothing is under way between the server and the page.
Settled ==
  /\ \A g \in Goroutines : act[g].say = <<>>
  /\ "life" \in page.subs /\ page.queue = [t \in Topics |-> <<>>]
  /\ ~page.timer /\ page.flights = <<>>

\* Property: the taskbar of a page shows the store's open sessions once nothing is under way,
\* also after nudges were dropped because the channel was full: the ones before them make
\* the page ask for what they were about (hub.go:58-77, projectview.html:905-922).  Not so
\* after a nudge that came between the page and its subscription, an answer overtaken by a
\* later one or lost, the restart of a conversation the web does not map, or the end of a turn
\* that finds its row not running: it sets it so, and tells no taskbar (channel.go:95-97).
TaskbarIsFresh == Settled /\ ~page.missed => page.bar = buildProjectTabs

\* Property: a page says that its conversation is over exactly if its row does (channel.go:
\* 106-148, server.go:441-489).  Not so if a Stop found nothing to close, the one message that
\* says so was dropped or came while the page was not subscribed, the conversation was adopted,
\* it was over when the page went on with it in place, a prompt sent or a turn ended after its
\* end and set its row running again, or the page was told that another one had stopped.
PillIsTrue ==
  Settled /\ ~page.deaf /\ ~page.misled /\ page.view \notin noops \cup reopened =>
    (page.pill = "done" <=> ~Open(page.view))

\* A page switches out of its running state "when the viewed session ends - whether from the
\* Stop button here or a lifecycle closed nudge" (projectview.html:995-998).
ViewedHasEnded ==
  Settled /\ page.pill = "done" /\ ~page.deaf /\ page.view \notin noops \cup reopened =>
    ~Open(page.view)

\* Property: a live conversation the web channel had can be prompted and stopped from there,
\* also after a refused Stop (channel.go:281-307); those a restart left behind cannot.
StaysReachable ==
  \A c \in (live \cap ours) \ orphans : c \in byID

\* Publish is "Non-blocking: drops the message if a subscriber's buffer is full" (hub.go:59):
\* it never sends on a channel that Unsubscribe closed.
NoPanic == ~panicked
=============================================================================
