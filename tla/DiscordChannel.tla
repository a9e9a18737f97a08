--------------------------- MODULE DiscordChannel ---------------------------
(***************************************************************************)
(* discord/discord.go for one Discord channel, with the typing indicator   *)
(* of discord/typing.go and the renderer: messages of users become         *)
(* prompts or commands of a conversation, and what its agent answers is    *)
(* written through a BlockBuffer into the channel.                         *)
(*                                                                         *)
(* discordgo runs handleMessage on a goroutine per message.  The router    *)
(* and the agent are external: the conversations that are live, and the    *)
(* turns each agent still has to do, one after the other, across a /clear  *)
(* too.  Events come to Receive one at a time for each conversation.       *)
(***************************************************************************)
EXTENDS BlockBuffer

CONSTANTS
  Goroutines,    \* those of handleMessage
  Fragments,     \* what an agent writes at once: sequences of the kinds of tokens
  Scopes         \* bounds, one of which a behaviour keeps to: conversations, messages of
                 \* users, tokens and tool messages of agents, outputs that Discord refuses

ASSUME ScopesAssumption ==
  /\ Scopes \subseteq [convs : Nat, posts : Nat, tokens : Nat, tools : Nat, refusals : Nat]
  /\ \A f \in Fragments : \A i \in DOMAIN f : f[i] \in {"text", "nl", "fence", "bar"}

VARIABLES
  scope,         \* the bounds of this behaviour
  conv,          \* convByChannel and channelByProject: the conversation, 0 for none
  act,           \* what each goroutine is in the middle of
  convs,         \* conversations created so far
  live,          \* those the router knows
  turns,         \* the turns each agent has to do
  posted,        \* messages of users so far
  buffer,        \* buffers[channel]
  late,          \* a buffer that was dropped, and whose timer still runs
  shown,         \* the messages in the channel
  typing,        \* the indicator is shown
  written,       \* history: the agents' tokens
  turnOf,        \* history: the turn of each token
  refused,       \* outputs Discord refused so far
  upset,         \* history: what was written is not all shown, for a reason the actions name
  stuck,         \* history: a command, a failed turn or a dead agent left the indicator on
  mixed          \* history: two conversations share the channel, or a turn ended without response

vars == <<scope, conv, act, convs, live, turns, posted, buffer, late, shown, typing, written, turnOf,
          refused, upset, stuck, mixed>>
router == <<convs, live, turns>>
output == <<buffer, late, shown, written, turnOf, refused, upset>>

Rest == [at |-> "idle", conv |-> 0, turn |-> 0]

Init ==
  /\ scope \in Scopes
  /\ conv = 0 /\ act = [g \in Goroutines |-> Rest]
  /\ convs = 0 /\ live = {} /\ turns = <<>> /\ posted = 0
  /\ buffer = NewBlockBuffer /\ late = <<>> /\ shown = <<>> /\ typing = FALSE
  /\ written = <<>> /\ turnOf = <<>> /\ refused = 0
  /\ upset = FALSE /\ stuck = FALSE /\ mixed = FALSE

-----------------------------------------------------------------------------
(* Typing *)

Start == typing' = TRUE /\ UNCHANGED stuck
Stop == typing' = FALSE /\ stuck' = FALSE

-----------------------------------------------------------------------------
(* What a reader sees *)

\* The agents' words, but for what follows a fence on its line: the language of a block is
\* left out, and what starts a line depends on flushes.
AfterFence(s, i) == \E f \in 1..i : s[f].k = "fence" /\ \A j \in f..i : s[j].k # "nl"
Counted == {n \in DOMAIN written : written[n].k \in {"text", "bar"} /\ ~AfterFence(written, n)}

\* Those of a text, by their places in written.
Words(s) == SelectSeq([i \in DOMAIN s |-> s[i].n], LAMBDA n : n \in Counted)
WordsOf(texts) == FoldLeft(LAMBDA words, s : words \o Words(s), <<>>, texts)

\* What a buffer holds back: a block or a table, and the end of the current line.
Pending(w) ==
  LET line == Words(w.cur \o w.text)
  IN Words(w.held) \o WordsOf(w.rows) \o SubSeq(line, Len(Words(w.cur)) + 1, Len(line))

\* A flush would put out a block or table whose last line is incomplete and already in it:
\* the rest of that line overwrites the block, or shows the row again.
Torn(w) == w.out /\ w.text = <<>> /\ (w.held # <<>> \/ w.rows # <<>>)

-----------------------------------------------------------------------------
(* What the buffer does with the channel *)

\* The state a method of buffer w begins with; fails is the output Discord refuses, if any.
Call(w, fails) == [w |-> w, shown |-> shown, fails |-> fails, err |-> FALSE, lost |-> FALSE]
Fails == IF refused < scope.refusals THEN 0..2 ELSE {0}

\* ... and what it leaves.  A refused message is lost, or shown again with the next line.
Returns(t, torn) ==
  /\ shown' = t.shown
  /\ refused' = refused + (IF t.err THEN 1 ELSE 0)
  /\ upset' = (upset \/ t.lost \/ torn)

\* resetBuffer: the buffer w is dropped; its timer goes on.
resetBuffer(w) ==
  /\ buffer' = NewBlockBuffer
  /\ late' = IF w.timer THEN Append(late, w) ELSE late

-----------------------------------------------------------------------------
(* Messages of users *)

Free(g) == act[g] = Rest
Goes(g, at, c) == act' = [act EXCEPT ![g].at = at, ![g].conv = c]
Ends(g) == act' = [act EXCEPT ![g] = Rest]

\* handleMessage: resolveConversation looks the channel up.
handleMessage(g) ==
  /\ Free(g) /\ posted < scope.posts
  /\ posted' = posted + 1
  /\ act' = [act EXCEPT ![g] = [at |-> IF conv = 0 THEN "creating" ELSE "resolved",
                               conv |-> conv, turn |-> posted + 1]]
  /\ UNCHANGED <<conv, router, output, typing, stuck, mixed>>

\* No conversation yet: Router.Create,
resolveCreates(g) ==
  /\ act[g].at = "creating" /\ convs < scope.convs
  /\ convs' = convs + 1 /\ live' = live \cup {convs + 1} /\ turns' = Append(turns, <<>>)
  /\ Goes(g, "mapping", convs + 1)
  /\ UNCHANGED <<conv, posted, output, typing, stuck, mixed>>

\* ... which may fail, as may the lookups before it,
resolveFails(g) ==
  /\ act[g].at = "creating"
  /\ Ends(g)
  /\ UNCHANGED <<conv, router, posted, output, typing, stuck, mixed>>

\* ... and the entry of what it created, over that of another message.
resolveMaps(g) ==
  /\ act[g].at = "mapping"
  /\ conv' = act[g].conv
  /\ mixed' = (mixed \/ conv # 0)
  /\ Goes(g, "resolved", act[g].conv)
  /\ UNCHANGED <<router, posted, output, typing, stuck>>

\* The goroutine of the prompt shows the indicator first.
typingStarts(g) ==
  /\ act[g].at = "resolved"
  /\ Goes(g, "submit", act[g].conv)
  /\ Start
  /\ UNCHANGED <<conv, router, posted, output, mixed>>

\* submitPrompt: the router sends the prompt,
SubmitPrompt(g) ==
  LET c == act[g].conv IN
  /\ act[g].at = "submit" /\ c \in live
  /\ turns' = [turns EXCEPT ![c] = Append(@, act[g].turn)]
  /\ Ends(g)
  /\ UNCHANGED <<conv, convs, live, posted, output, typing, stuck, mixed>>

\* Mutant: the error is reported, the indicator goes on.
SubmitFailsTyping(g) ==
  /\ act[g].at = "submit"
  /\ Ends(g)
  /\ UNCHANGED <<conv, router, posted, output, typing, stuck, mixed>>
\* ... does not know the conversation, or fails otherwise: it says so and stops the indicator,
SubmitFails(g) ==
  /\ act[g].at = "submit"
  /\ Ends(g) /\ Stop
  /\ UNCHANGED <<conv, router, posted, output, mixed>>

\* ... or it was a command that leads to no turn: nothing stops the indicator.
SubmitCommand(g) ==
  /\ act[g].at = "submit" /\ act[g].conv \in live
  /\ Ends(g)
  /\ stuck' = TRUE
  /\ UNCHANGED <<conv, router, posted, output, typing, mixed>>

\* /clear: Restart registers the agent under a new conversation; its turns go on.
SubmitClear(g) ==
  LET c == act[g].conv IN
  /\ act[g].at = "submit" /\ c \in live /\ convs < scope.convs
  /\ convs' = convs + 1 /\ live' = (live \ {c}) \cup {convs + 1}
  /\ turns' = Append([turns EXCEPT ![c] = <<>>], turns[c])
  /\ Goes(g, "restarting", convs + 1)
  /\ UNCHANGED <<conv, posted, output, typing, stuck, mixed>>

\* Receive of ConversationReplaced: the channel of the project goes to the new conversation,
\* and text that is not out yet is dropped, or comes late.
ReceiveReplaced(g) ==
  /\ act[g].at = "restarting"
  /\ conv' = act[g].conv
  /\ resetBuffer(buffer)
  /\ upset' = (upset \/ Pending(buffer) # <<>>)
  /\ Ends(g)
  /\ stuck' = TRUE
  /\ UNCHANGED <<router, posted, shown, written, turnOf, refused, typing, mixed>>

-----------------------------------------------------------------------------
(* What agents answer *)

Working(c) == c \in live /\ turns[c] # <<>>
TurnDone(c) == turns' = [turns EXCEPT ![c] = Tail(@)]

Tokens(f) == [i \in DOMAIN f |-> [k |-> f[i], n |-> Len(turnOf) + i]]

\* Receive of a text or thought chunk: SendTextFragment.
SendTextFragment(c) ==
  /\ Working(c)
  /\ \E f \in Fragments, n \in Fails :
       LET t == Write(Call(buffer, n), Tokens(f)) IN
       /\ Len(turnOf) + Len(f) <= scope.tokens
       /\ written' = written \o Tokens(f)
       /\ turnOf' = turnOf \o [i \in DOMAIN f |-> Head(turns[c])]
       /\ buffer' = t.w /\ Returns(t, FALSE)
  /\ UNCHANGED <<conv, act, router, posted, late, typing, stuck, mixed>>

\* Receive of a plan, or of an image: what is buffered is put out before it.
SendPlanUpdate(c) ==
  /\ Working(c)
  /\ \E n \in Fails :
       LET t == Flush(Call(buffer, n)) IN
       buffer' = t.w /\ Returns(t, Torn(buffer))
  /\ UNCHANGED <<conv, act, router, posted, late, written, turnOf, typing, stuck, mixed>>

\* Receive of a tool call: its message is posted at once and edited later (SendToolUsage).  It
\* comes before text that is still in the buffer, which goes on editing its own message.
SendToolUsage(c) ==
  /\ Working(c)
  /\ Cardinality({m \in DOMAIN shown : shown[m] = <<>>}) < scope.tools
  /\ shown' = Append(shown, <<>>)
  /\ UNCHANGED <<conv, act, router, posted, buffer, late, written, turnOf, refused, upset,
                 typing, stuck, mixed>>

\* Mutant: the buffer of the turn stays.
ReceiveResponseKeepsBuffer(c) ==
  /\ Working(c) /\ TurnDone(c) /\ Stop
  /\ \E n \in Fails :
       LET t == Flush(Call(buffer, n)) IN
       /\ buffer' = t.w /\ late' = late
       /\ Returns(t, Pending(t.w) # <<>>)
  /\ UNCHANGED <<conv, act, convs, live, posted, written, turnOf, mixed>>
\* Receive of a PromptResponse: the indicator stops, the buffer is put out and dropped.
ReceiveResponse(c) ==
  /\ Working(c) /\ TurnDone(c) /\ Stop
  /\ \E n \in Fails :
       LET t == Flush(Call(buffer, n)) IN
       /\ resetBuffer(t.w)
       /\ Returns(t, Pending(t.w) # <<>>)
  /\ UNCHANGED <<conv, act, convs, live, posted, written, turnOf, mixed>>

\* A prompt that ends in an error: Receive does nothing with it.
ReceiveError(c) ==
  /\ Working(c) /\ TurnDone(c)
  /\ stuck' = TRUE /\ mixed' = TRUE
  /\ UNCHANGED <<conv, act, convs, live, posted, output, typing>>

\* The agent ends.  Receive does nothing with it either: the channel keeps its conversation.
AgentEnds(c) ==
  /\ c \in live
  /\ live' = live \ {c} /\ turns' = [turns EXCEPT ![c] = <<>>]
  /\ stuck' = (stuck \/ Working(c)) /\ mixed' = (mixed \/ Working(c))
  /\ UNCHANGED <<conv, act, convs, posted, output, typing>>

-----------------------------------------------------------------------------
(* Timers *)

\* The timer of the channel's buffer.
TimerFires ==
  /\ buffer.timer
  /\ \E n \in Fails :
       LET t == timerFlush(Call(buffer, n)) IN
       buffer' = t.w /\ Returns(t, FALSE)
  /\ UNCHANGED <<conv, act, router, posted, late, written, turnOf, typing, stuck, mixed>>

\* The timer of a buffer that was dropped.
LateTimerFires ==
  /\ late # <<>>
  /\ \E n \in Fails :
       LET t == timerFlush(Call(Head(late), n)) IN Returns(t, FALSE)
  /\ late' = Tail(late)
  /\ UNCHANGED <<conv, act, router, posted, buffer, written, turnOf, typing, stuck, mixed>>

-----------------------------------------------------------------------------
OfUsers ==
  \E g \in Goroutines :
       \/ handleMessage(g) \/ resolveCreates(g) \/ resolveFails(g) \/ resolveMaps(g)
       \/ typingStarts(g) \/ SubmitPrompt(g) \/ SubmitFails(g) \/ SubmitCommand(g)
       \/ SubmitClear(g) \/ ReceiveReplaced(g)

OfAgents ==
  \E c \in 1..convs :
       \/ SendTextFragment(c) \/ SendPlanUpdate(c) \/ SendToolUsage(c)
       \/ ReceiveResponse(c) \/ ReceiveError(c) \/ AgentEnds(c)

Next == (OfUsers \/ OfAgents \/ TimerFires \/ LateTimerFires) /\ UNCHANGED scope

Spec == Init /\ [][Next]_vars

-----------------------------------------------------------------------------
(* Properties *)

\* Property: nothing an agent writes is lost, repeated or out of order, whenever the timer
\* fires: the messages, then what the buffer holds back, are what was written, but for the
\* lines of the fences (line_buffer.go:48-173, block_buffer.go:60-195).  Not so after a
\* message with text was refused, a /clear dropped text, or a flush tore a block.
TextIsKept == ~upset => WordsOf(shown) \o Pending(buffer) = Words(written)

\* Property: a message has text of one turn only: "a new turn always starts a new message
\* rather than editing the previous turn's last message" (discord.go:449-451), also when the
\* next message came during the turn, or a /clear did.
TurnsApart ==
  ~mixed => \A m \in DOMAIN shown :
              Cardinality({turnOf[n] : n \in ToSet(Words(shown[m]))}) <= 1

\* Property: the indicator is not shown for nothing: somebody submits, or an agent has a turn
\* (discord.go:238-249, typing.go:34-78); unless a command, a failed turn or a dead agent
\* left it on.
TypingStops ==
  typing => \/ stuck \/ \E c \in live : turns[c] # <<>>
            \/ \E g \in Goroutines : act[g].at \in {"submit", "restarting"}
=============================================================================
