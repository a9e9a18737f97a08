# Verification of acpp

acpp runs ACP agents (programs that speak JSON-RPC over stdin and stdout) for people who use
them from a web UI, a chat or a schedule. The agents are local subprocesses or processes on a
*remote host*, where a remote agent dials in to the server and streams their stdio. This
directory holds TLA+ models of the program, TLC configurations that check them, and proofs.

`tlc -config <run>.cfg <Module>.tla` repeats a run, `tlapm <Module>.tla` a proof.
`PROJECT.json` lists runs, hazards, findings, theorems, and the source lines each definition
stands for.

## 1. Inventory

| part | state | operations | what makes it correct |
|---|---|---|---|
| remote stream buffers (`remote/buffer.go`) | `outbox`: bytes not acknowledged, position sent, EOF; `inbuf`: bytes not read, position received | write, next, ack, unsend, rewind; write, Read | the bytes at both ends are adjacent pieces of one stream; a resume is always possible |
| remote connection (`remote/conn.go`) | frame link, pending acks | flush, acker, loss at each end | nothing taken from an outbox is lost with a connection, nothing is sent twice into a stream |
| remote hub (`remote/hub.go`) | per location: claim, grace timer, handles, tombstones, finished | attach, detach, expire, Start, Close, Detach, finish | every handle has a process whose end will still be reported; a stream given up is stopped, never adopted |
| remote agent (`remote/agent.go`) | stream records, grace timer | hello/welcome, spawn, pumps, close, forget, expire | stops only what nobody wants; reports an exit after all output, until it is heard |
| router (`router/router.go`) | sessions by conversation id | Create, CreateError, receive loop, WaitReady, Send, Restart, close, watch, shutdown | a conversation ends once, with its process; WaitReady returns; events come in order |
| adoption (`router/adopt.go`) | — | Adopt, Detach | a conversation survives a server restart or ends in the store |
| ACP connection (`acp/connection.go`) | pending requests | receive loop, SendRequest | an answer goes to its own request; answers in the order they came |
| agent processes (`process/`) | live processes | Start, Close, CloseAll | Done only after the last output; Close ends the process |
| persister (`persistence/`) | tracked telemetry of each conversation | one per router event | a row is open while its conversation is live; every answered turn is counted |
| stores (`db/store.go`, `db/memstore.go`) | session, log and project rows | statements and queries | both answer alike |
| scheduler (`router/scheduler.go`) | running jobs, reused conversations | tick, run, finish | one run at a time of a job; a job is always released |
| slash commands (`router/commands.go`) | — | parse, dispatch | sequential |
| web hub, channel, server (`web/`) | subscribers, mapped conversations | Publish, Subscribe, request handlers | no send on a closed channel; a page shows the store in the end; a live session stays reachable |
| discord (`discord/`) | the conversation of a channel, its buffer, typing indicator | message, `/clear`, output | text once and in order; turns in messages of their own |
| hooks (`hook/`) | worktrees, follow-up prompts | setup, guard, teardown, Incoming | no uncommitted work is discarded; sessions do not share a tree; a follow-up once a turn |
| text buffers (`acp/helpers`) | pending text, code block, table, timer | write, flush, timer | every line once, in order |
| permission policies, sandbox, config, arena, metrics, compliance kit, command line, clients | small or none | pure, sequential or UI | see `PROJECT.json` for each |

**How they interact.** A channel calls the router. Each connection has one receive loop, which
calls `onMessage` and, on the same goroutine, every subscriber (persister, scheduler, channels).
Callers of `Create`, `Send`, `Restart` and close call the same subscribers from their own
goroutines, so two events of one conversation may be handled at once. `Router.mu` guards the
sessions and is never held over a subscriber, the process or the store. A remote process is a
handle whose stdio is a pair of buffers; hub and remote agent exchange frames over one connection
a location, which may break and be dialled again, and either program may restart.

**What is hard.** Frames lost with a connection and taken from a buffer before; the two ends
noticing a loss at different times; flushes that hold a dead connection; a server restart with
bytes received and not read; timers on both ends racing a reconnect; requests whose answer is
lost; sessions that are re-keyed while somebody holds the old key; a close, a process exit and a
shutdown ending the same session; database writes of different goroutines. "hazards"
in `PROJECT.json` names each at its line with the properties that catch it.

## 2. Plan

Done, in this order; each line composes or reuses the ones before it:

1. `StreamBuffers`, `ByteStream`, `RemoteStdout` and `RemoteStdin` with their proofs: the bytes.
2. `RemoteLifecycle` with its proofs: which remote processes exist and who holds a handle.
3. `SessionRows`, `ConversationLife`, `Conversations` with its proofs: one session of the router
   with process, connection and rows, and what it promises of a conversation.
4. `Scheduler` with its proofs: a job's runs over what the scheduler sees of the router.
5. `StoreRows`, `PostgresStore`, `MemStore`, `Persister` with its proofs: telemetry and rows over
   late events, restarts and adoption, in both implementations of the store side by side.
6. `WebChannel` with its proofs: the web channel, the hub's topics and one open page.
7. `BlockBuffer`, `DiscordChannel`, `MessageSplit`: an agent's text on its way into a chat.
8. `Worktrees` with its proofs: the worktree hook in the life of the sessions of a repository.

Open:

* adoption's ACP side in `Conversations` (`session/load`, handles that detach), and several
  conversations over one `RemoteLifecycle`;
* the commit hook outside of scheduled jobs; permission requests (`acp/` to a channel and back);
* proofs: `TypingStops` of `DiscordChannel`, and that `Scheduler`'s view of the router (created,
  ready, turns, ended once) is what `Conversations` implements.

## 3. The modules

**StreamBuffers** — `outbox` and `inbuf` as records, one operator for a method (each method is one
critical section). A byte is a record that says whether it is a newline: `ack` trims only whole
lines, and nothing else looks at the data. Used by both directions.

**ByteStream** — the abstract promise of one direction: its reader reads consecutive bytes of what
was written; a reader that takes over begins at the start of a line.

**RemoteStdout** — one process's stdout. Agent: `PumpWrite`, `PumpOverflow`, `PumpEOF` (pump
goroutine), `FlushTake`/`FlushSend`/`FlushFail`/`FlushEnd` (a flush takes a chunk under the stream's
lock, writes it after, puts it back when the write fails), `AgentLoses`, `Dial`, `Welcome`,
`AgentRecv`. Server: `ServerLoses`, `ServerRestarts`, `Attach`, `RecvData`, `RecvExit`, the reader
(`ReaderRead`, then `ReaderNotify`: the ack is computed after the unlock), `AckerSend`. The
connection is FIFO; its ends notice a loss separately, and what was in flight is lost.

**RemoteStdin** — the same for the messages the server writes. The outbox is lost with a server;
the next one starts at the agent's received offset, after a newline if the last line is cut off.

**RemoteLifecycle** — streams as identities, with what each end records of them. Messages about a
stream are sent by goroutines of their own, so what is in flight is a set. `finish` is two steps
(`FinishDrop`, `FinishMark`), `attach` one for each stream of the hello, because the code unlocks in
between. Not modelled there: a new connection while the server is leaving; an adoption between the
halves of a `finish`; `Leave` waits for starts and ends under way; a Start whose context ends
before its answer (`hub.go:525-530`), since `Router.Create`, its only caller, passes the router's
own context, which ends with the server; and that `finished` forgets a stream after an hour
(`finishedRetention`), longer than any grace.

**SessionRows** — session and log tables as one value: status, ACP session, finished_at, log
entries the foreign key refuses. The writes of one event are one step.

**Conversations** — one session, created as conversation 1 and rolled to the next by each
`Restart`. Its actors are goroutines: `create`, the receive `loop`, a `user` in WaitReady and
Send, `restart`, `stop` (CloseConversation), `watch` (watchProcess), `down` (Router.Close).
`act[a]` says where each is and what it holds from an earlier critical section; a step is one
critical section or one call made outside of it. The agent answers requests in any order, with a
result or an error, sends updates during a turn and may end at any moment. `Reap` is `cmd.Wait` in
its goroutine: it closes the stdout pipe, so that the loop gets what it had buffered.
`CreateStillborn` is `CreateError`. A `Restart` may come at any time, also before the handshake of
the old conversation is done, since `/clear` reaches it without WaitReady (`commands.go:78-88`);
`LoopSession` then takes the answer of the old `session/new` for the new conversation, as
`onMessage` does, and `hasty` remembers that this can be. Left out: `session/load`, hooks and
close guards, permission requests, remote handles; `Process.Close` always ends the process (its
escalation ends in SIGKILL); nobody calls a conversation that has no connection yet.

**ConversationLife** — what of this subscribers may rely on: a conversation is registered, at most
one at a time and each at most once, leaves, and only then its end is told, once. `Register` is
`CreateRegister` or `CreateStillborn`, `Replace` the one critical section of `Restart`, `Leave` the
guarded delete of `CloseDeletes` (or `CreateAsk` taking the session back, of which no end is told),
`Tell` is `CloseTells` or `RestartReplaces`. `Phase` maps a state of `Conversations` to it.

**Scheduler** — one job. Actors are its runs (`runJob`, a goroutine each), the receive loop of
each conversation and its `watchProcess`; whoever reports the end of a turn runs `Receive`,
`finish` and `closeConversation` itself, as `ReceiveLooks`, `Finish`, `Delete`, `Kill`, nested as
in the code. Channels know only conversations of their own, so nobody else prompts, restarts or
closes one of a job. The hook's decision to follow up is a choice, since it depends on the tree.
Left out: shutdown, which ends every wait, and the upsert of project settings. `upset` holds the
conversations whose process ended, whose handshake failed or that had a follow-up. Without one,
runs do not overlap. With one they can: `Receive` looks a job up and `finish` releases it without
asking whether that was done, so a watcher that looked before a failing run finished itself
releases the job once more, under the next run.

**StoreRows, PostgresStore, MemStore** — the rows, and one operator for each statement of
`db/store.go`, `db/store_projects.go` and each method of `db/memstore.go`, with the same names and
parameters. Tables are sets of rows, the maps in memory are functions. A query returns what it
computes (joins, groups, sums, limits); what the telemetry is added up from are small records.

**Persister** — the persister under the events of the router, over both stores at once. `Receive`
changes the track of a conversation under the mutex and writes after it, so `doing` holds the
writes each goroutine still has to do: `WriteUpdate`, `WriteDuration`, `WriteFinish`,
`WriteReopen`, `Track`. `Restart` keeps the stores and any subset of the agents; it runs
`CompleteRunningSessions`. `Adopt` starts the receive loop before `ConversationAdopted` reads the
stored totals (`adopt.go:210`, `220`). `Edit` is what the project pages write. `upset` holds
conversations whose writes passed each other, came after the end (they begin from zero totals) or
were cut off by a restart.

**WebChannel** — conversations with their rows, the web channel's map (`byID`), and one project
page. Announcing an event runs the subscribers in order, on the goroutine that announces it; the
topics it still has to publish to are in `say`. `Publish` copies the subscribers under the lock
(`PublishFinds`) and sends outside of it (`PublishSends`, `PublishPanics`); a full channel drops.
Requests: `viewProjects` with `startPendingSession`, `createSession`, `createProjectSession` with
its stillborn conversations, `SubmitPrompt` with `/clear` (`Restart`, `RestartWaits`,
`handleReplaced`), `CloseSession` with its refusal. A process serves one conversation after the
other; `current` is `state.meta`, which whoever holds an older id reads. A prompt is three steps:
`SubmitPrompt` and `SendPrompt` look the conversation up, `PromptRuns` records it after the
unlock. `turns` counts what the agent has not answered: a turn outlives its conversation, since
the end is announced before the process is closed (`router.go:998-1000`), and `TurnEnds` sets the
row running whatever became of it (`persister.go:246-290`), without a nudge; a hook may follow up
with a prompt of its own (`triggerPrompt`).

The page: load, the two sockets, nudges, taskbar fetches that overtake each other or fail, the
pill, its own Stop and the answer to it (`Stopped`), and a new session it starts and goes on with
in place (`Switched`). At `session_replaced` the browser goes to `/session/<id>` (`OnReplaced`),
a page without taskbar or lifecycle socket that is not modelled: the project page is gone. The
question after a refused Stop is left out: the refusal ends that Stop.

The history variables name where page and store part. `noops` and `orphans` are the two places
where the mapping and the router disagree: a Stop of a conversation that is not mapped succeeds
without closing anything, and a restart that fails after the re-key leaves the new conversation
unmapped. `reopened` holds the conversations whose finished row a prompt or a turn set running
again. `page.missed` says that a taskbar may be stale: a nudge between render and subscription, a
reconnect (nothing is fetched again), an answer overtaken or lost, a turn that ended when its row
was not running, the `/clear` of a conversation that the web does not map (`handleReplaced`
returns early, though `channel.go:143` promises a nudge). `page.deaf` says the same of the pill: a
message that was dropped or came while the page was not subscribed, an adoption, a conversation
that was over when the page went on with it. `page.misled` says that the answer to the Stop of one
conversation came when the page showed another.

**BlockBuffer** — `acp/helpers/line_buffer.go` and `block_buffer.go` with the output functions of
`discord.go`: fragments to lines, lines to code blocks, tables and messages posted or edited. Text
is a sequence of tokens (word, newline, fence, bar). Every output may be refused; the error path
of `processBuffer` loses the refused line and repeats the current one.

**DiscordChannel** — one Discord channel: `handleMessage` on a goroutine per message,
`resolveConversation` as look-up and creation, the typing indicator, `SubmitPrompt`, commands,
`/clear` with `ConversationReplaced`, the agents' text, tool and plan messages, answers, errors
and death, the flush timer, and the timer of a buffer that a `/clear` dropped. Tool and plan
messages are one message each. The history variables name where the code gives a guarantee up:
`upset` (a refused message, text dropped by `/clear`, a flush that tore a block), `stuck` (a
handled command, a failed turn, a dead agent leave the indicator on), `mixed` (check-then-create
in `resolveConversation`, `discord.go:291`; a turn that ended without an answer leaves its buffer,
so the next one continues the old message, although `discord.go:448` says it never does).

**MessageSplit** — `splitMessage`, one step a round of its loop, on sequences of characters. It is
not composed with `BlockBuffer`, whose messages are short.

**Worktrees** — the sessions of one repository on a remote location: setup by the hook in Create
(a direct session, a worktree, or blind when git cannot be asked), close with the guard and a
confirmation, the end of the process, the teardown that asks git once more and removes, crashes, a
server restart and adoption with or without the hooks. A command that is reported to have failed
may have done its work all the same, because it ran into its time limit or its answer was lost:
`SetupFails` may leave a worktree, `RemoveFails` may have removed it, `StartFails` may have started
the process, which may also survive its Close, since the remote close returns after a time limit.
History variables name what the hook cannot help: `unseen` (sessions that are being created at the
same time, that are closing, or not yet adopted are not counted), `unsure` (git status failed: the
guard lets the close pass and the teardown forces the removal), `outlived`, `left` (a server crash,
a refused adoption, Finalize, a changed list of hooks: nobody tears down; or the removal failed),
and `stray` (`git worktree add` reported a failure and made the worktree: `SetupSession` returns no
teardown, so it stays, although "the worktree is removed when the session stops",
`worktree.go:32-38`).

## 4. The runs

| run | states | question |
|---|---|---|
| `stdout` | 108 thousand | does stdout survive a broken connection and a server restart? `ReaderGetsStream` is the refinement of `ByteStream`; `ReconnectIsClean` (no gap, and a resume is possible), `EOFIsComplete`, `AcksFollowReader`; liveness `EveryByteRead`, `ExitIsSettled` |
| `stdin` | 106 thousand | the same for stdin: `MessagesInOrder`, `NoGluedLine`, `ReconnectIsClean` (no gap, and a resume is possible); liveness `EveryMessageGiven` |
| `lifecycle` | 195 thousand | two breaks, a server and an agent restart: `HandleHasProcess`, `AwayIsTimed`, `StopsUnwanted`, `GivenUpIsNotAdopted`; liveness `ExitIsReported`, `CallsReturn` (Start and Close) |
| `conversations` | 1.6 million | one session with a restart, a prompt and a close or shutdown: `EachLivesOnce` is the refinement of `ConversationLife`; `LiveIsUnfinished`, `StoreKeepsUp` (who waited for ready finds the ACP session of its conversation, or one if a Restart overtook a handshake; no log entry before its row) |
| `conversations_live` | 56 thousand | without restart; an update, a close and a shutdown: `DeadIsFinalized`, `ClosedIsCleaned`, `WaitReturns` |
| `scheduler` | 130 thousand | three ticks of a job that keeps its conversation or does not, with a commit hook; one exit or failed handshake, one follow-up: `OneAtATime` (runs overlap only after one of these, and one conversation is kept), `TurnIsNotCut`; liveness `JobIsReleased`, `OneShotEnds` |
| `store` | 149 thousand | two conversations, one of an earlier server, through updates, turns, restarts, adoption and a change of day: `SameTables` and `SameAnswers` (what Postgres and memory hold and answer), `TurnsCounted`, `OpenIsLive` |
| `web` | 1.9 million | two goroutines, and turns that outlive their conversations, against a page over a channel of capacity one: `TaskbarIsFresh`, `PillIsTrue`, `StaysReachable` |
| `web_publish` | | violation of `NoPanic` |
| `discord` | 832 thousand | two goroutines, agents that write words, line ends, fences and tables, the timer at any moment and refused outputs: `TextIsKept`, `TurnsApart`, `TypingStops` |
| `discord_split` | | violation of `EveryChunkTakes` |
| `worktree` | 2.2 million | three sessions, a restart, and git or the host failing at any command, before or after it did its work: `WorkIsKept`, `Isolated`, `WorktreesGo` |

**What the two violations show.** `hub.go:59` calls `Publish` non-blocking and says a full channel
only drops the message. It sends after it unlocked the hub, to channels that `Unsubscribe` closes
under the lock: a WebSocket that ends in between makes the send panic. Where the publisher is a
receive loop or a request's own goroutine, nothing recovers, and the server ends. `splitMessage`
puts a fence in front of the rest of a code block. When the line after it is longer than a chunk,
the only newline to cut at is the one behind that fence, so the next chunk is an empty code block,
and so on for ever.

**Answers of the two stores that differ**, and that `SameLookups`, `SameRows` and
`SameStatistics` therefore leave out: Postgres never selects `acp_session_id`; the memory store
counts sessions that had no turn; tool calls without a title are counted by Postgres only; only
Postgres has rows for days without sessions; `since` of `GetDailyStats` is a date in one and an
instant in the other. Outside of the model: a duplicate insert and a missing row are errors in
one and not in the other; the monthly cut-off of the memory store uses `AddDate`, which overflows
at the end of long months.

**Bounds.** Positions in a stream matter relative to one another and to line ends: three bytes in
frames of up to two, with every placement of newlines, give a partial line acknowledged, a frame
that straddles a line, a chunk in hand when the connection breaks and a full backlog. Stdout was
also checked with limit 3 and 4 bytes, and a second stream of `RemoteLifecycle` (6.1 million
states, safety only) by hand, without change. Two breaks let a timer of the first race the attach
of the second. In `Conversations` one close (`MaxCloses`) and the exit watcher race already; a
close together with a shutdown is left to `conversations_live`. One restart has the old
conversation, the new one and the answers of both; updates are left to `conversations_live` too,
and liveness with a restart is beyond TLC's reach here. In `Scheduler` three ticks are what an
overlap needs: one run that ends twice, one released by that, one that overlaps it. With two exits
or failed handshakes (1.8 million states for a one-shot job, safety only) nothing changes.
`reuse`, whether the job keeps its conversation, is chosen in the initial state. In `Persister`
three events (`MaxEvents`) over the creation, answers and ends of two conversations let a write
pass another, a restart fall between two, and a total be added to after an adoption; days are ten
instants and months two days, so that a limit falls inside one. In `WebChannel` a channel of
capacity one is full after one nudge; four events are a load, a prompt or stop, an exit and a
broken socket, or a prompt whose turn ends after a stop. `DiscordChannel` has one of four scopes
in each behaviour: five tokens of text are what opens and closes a code block with a line between;
a tool message, a refused output, or a second conversation with a second message take their place.
In `Worktrees` the third session sees what two have left. The goroutines, and the sessions of
`Worktrees`, are symmetric; the runs with symmetry check no liveness.

**Fairness.** Weak fairness for each goroutine that has something to do: Go's scheduler runs it,
mutexes are released, timers fire. A broken connection is noticed at both ends (keepalive with a
deadline) and the agent dials for ever (`Agent.Run`). A process whose stdin is closed or that is
being stopped ends, since both hosts escalate to a kill. In `Conversations` the agent answers its
handshake, else WaitReady has nothing to return. Nothing makes a process write or end by itself, a
prompt be answered, anybody close anything, or a connection break.

Some more statements of the source are not what the code does. Each has a configuration beside the
standing runs; TLC finds a counterexample in a few seconds:

| configuration, property | the statement | what happens |
|---|---|---|
| `RemoteStdout_adopt`, `AdoptionSkipsNothing` | bytes nobody processed stay at the peer for a server restart (`buffer.go:160`) | a reconnect acknowledges what was received, read or not |
| `RemoteLifecycle_givenup`, `GivenUpIsStopped` | a failed Start's process does not linger (`hub.go:640`) | the spawn comes after the hello that would stop it |
| `Conversations_finished`, `FinishedStays` | finish marks a session complete or errored (`persister.go:295`) | a prompt that looked the session up before the close writes "running" after it |
| `Conversations_replaced`, `ReplacedIsReady` | Restart announces ConversationReplaced once the new session is ready (`router.go:773-776`) | an answer to `session/new` names no conversation: one that the Restart overtook is taken for the new conversation's, wakes Restart and its other waiters and is recorded on the new row |
| `Conversations_handshake`, `OnlyHandshakeFails` | a prompt error leaves ready untouched (`router.go:679`) | during a Restart it fails the new handshake, for good |
| `WebChannel_stop`, `ViewedHasEnded` | a page ends the session it shows when that session ended (`projectview.html:995-998`) | the answer to a Stop ends whatever the page shows when it comes (`applyStopped`), also a new session that the page went on to in place |
| `Scheduler_overlap`, `RunsDoNotOverlap` | running guards against overlapping runs (`scheduler.go:45`) | a follow-up's answer ends the next run |
| `Scheduler_commit`, `FollowUpIsSent` | the commit hook asks for a commit after a turn (`hook/commit.go:18`) | the scheduler has closed the conversation |

**Hazards that no property covers**, beside those listed with a note: an exit that comes after
Detach was acknowledged (`hub.go:482`); an agent's `disconnected` without streams arms no timer
for a spawn under way (`agent.go:308`); the line limit of the scanner ends a receive loop without
an error (`connection.go:107`); the stdout pipe closed by the waiter while it is read
(`process.go:270`); a session whose connection is not there yet (`router.go:810`); a failed
Restart leaves the old row unfinished (`router.go:791`); a kept conversation whose handshake
failed is used again (`scheduler.go:261`); the commit hook's last prompt stays the long one during
a follow-up (`commit.go:52`); two loads of a project's page each start a pending session
(`projects.go:271`).

Deadlock is not checked anywhere: every bound, every process that has ended and every connection
that is given up is a state in which the system rightly stops.

## 5. What is proved

`RemoteStdout_proof` proves of `RemoteStdout`, for every limit, frame and read size and any number
of bytes, breaks and restarts (`ConstantsAssumption`: naturals, sizes not zero):

* `TypeCorrect`, `ReconnectsAreClean`, `EOFHolds`, `AcksHold`: its safety properties;
* `Refinement`: it implements `ByteStream`.

They rest on `Invariance`. None of the properties is inductive. `ReconnectIsClean` speaks of the
first frame in flight only; that it fits the inbuf depends on where the agent sent from, which
depends on what it answered to a resume. The inductive invariant `IInv` says that everything, from
the reader's log to the outbox, is a piece of the one history: log and inbuf meet (`InInv`), each
frame in flight continues the one before (`ChainInv`), and what the agent sends next, be it in the
outbox or in the hand of a flush, continues the last (`TipInv`, `HandInv`). `AckInv` bounds every
ack by the reader and by what was sent, so no ack trims what a resume will ask for; `ConnInv` says
where the two ends of a connection can be. There is one lemma for each action. What an operator of
`StreamBuffers` does to a piece of a stream (`AckFacts`, `TakeFacts`, `RewindFacts`,
`ReceiveFacts`, `ReadFacts`, ...) is proved for bytes of any set; the module of each direction
begins with these lemmas, so that it can be read and checked alone.

The refinement maps the history, the reader's start and its log to themselves: a write is
`Produce`, a read is `Consume` since the inbuf continues the log, an adoption is `TakeOver` since
an outbox begins at a line, and all other steps stutter.

`RemoteStdin_proof` proves of `RemoteStdin`, under the same assumptions, `MessagesComeInOrder`,
`NoLineIsGlued` and `ReconnectsAreClean`. There is no history to compare with: a server that
restarts has lost its outbox, and what of it had not arrived is gone. So the invariant (`Inv`) says
that *some* stream `h` exists with everything at the agent a piece of it: what the process was
given and the inbuf are its beginning, the frames in flight continue the inbuf and one another
(`ChainOf`), what the server sends next continues them (`TipInv`), and the outbox ends where `h`
ends (`OutInv`). `h` itself is in order and not glued (`InOrder`, `NotGlued`), and its end is what
the present server wrote, in whole lines (`Written`). A server that adopts a process cuts `h` off
where the inbuf ends and begins its own part there, after a newline if the inbuf stops inside a
line (`StreamRestarts`); a server that only lost its connection keeps `h`.

`RemoteLifecycle_proof` proves of `RemoteLifecycle`, for any number of streams, breaks and
restarts of either end, `HandlesHaveProcesses`, `AwayTimesOut`, `OnlyUnwantedStops` and
`NoSecondAdoption`. Three of the four need to know what a message in flight, or half an attach,
may still do. `Links` says where the two ends of a connection can be and what can be in flight
then; `Births` that a stream whose spawn was not sent is known nowhere, at no end and in no
message; `Words` that a close or a forget in flight, and the kill of an answer, is for a stream
that has no handle any more or is being closed. `Answers` follows attach through its streams: when
it is done, each handle is ending, still starting, or resumed and in the agent's hello, and finish
took care of the others. From it comes `Held`, which is `HandleHasProcess` before the messages
have settled: the process of a handle is there or its exit is on the way. `GivenUp` remembers why
a stream that the server gave up on cannot come back: it is in the tombstones or finished, or its
Start failed and no session of it was ever recorded (`NoSession`), which attach requires of what
it adopts.

`Worktrees_proof` proves of `Worktrees`, for any finite set of sessions and any number of restarts
(`BoundsAssumption`), `WorkIsNeverLost`, `SessionsAreIsolated` and `NoWorktreeIsForgotten`, the
three properties of its run. The inductive invariant is `TypeOK`, `Kept`, `Apart` and `Removed`.
`WorkIsKept` looks only at the moment of the removal; `Kept` says what holds before it: in the
worktree of a session on its way out nobody works but a process that outlived its Close or a
failed Start, so that what the teardown's own question found stays true until the removal. `Apart`
is `Isolated` over all processes in the repository, those of sessions that are being set up or are
closing included, since they are what a new session cannot see. `Removed` follows who holds the
teardown of a worktree from its setup on, and names those that nobody ever held it for.

`WebChannel_proof` proves the three properties of `WebChannel`'s run, for any number of
conversations, requests, goroutines and messages that a channel of the hub holds
(`LimitsAssumption`). `SessionsStayReachable` rests on `HeldBy`: a goroutine that is about to
unmap a conversation, or that has restarted one, holds one that is not live and cannot be again,
so that it never takes the mapping of somebody's live session. `TaskbarsAreFresh` and
`PillsAreTrue` rest on `PageInvariant`: with the exceptions that the two properties name, what the
page shows is true or will be put right by what is under way. For the taskbar that is a nudge not
yet published, or in the channel, or the timer (`Nudged`), and else the last answer asked for,
which is of this moment (`Fresh`); a full channel may drop a nudge since the ones before it are
still to come. For the pill it is a message of the end, or one that replaces the page's
conversation (`Told`). `Truthful` says what a message may tell at any time until it is read, and
`Stopping` that a close has ended its conversation when it unmaps it, or found nothing to end.

`Conversations_proof` proves of `Conversations`, for any number of restarts, prompts, updates and
closes (`ConversationsAssumption`), `Refinement`, that it implements `ConversationLife`, with
`ConversationsEndOnce` as what it says of ends alone, and the other two properties of its run,
`LiveStaysUnfinished` and `TheStoreKeepsUp`. `Endings` is the heart of all but `TheStoreKeepsUp`:
an actor that is on its way to tell of an end (`Ending`) is the only one that does for that
conversation, which is no longer `Fresh`, that is live or yet to be; whoever unregisters a
conversation takes it out of `Fresh` in the same critical section. `Rows` says that nobody but
Create knows of a conversation before its row is there. `Channels` says what a closed ready
channel means: the receive loop takes the channel together with the response, delivers, and only
then closes it, and a channel closed by an error leaves `handshakeErr` behind, so that no waiter
goes on to send. That the session found is the conversation's own is `SessionsAreLoyal`, an
invariant (`Loyal`) beside the others: unless a Restart overtook a handshake (`hasty`), every
request and answer of a handshake that is on its way, and the answer in the hands of the loop, is
of the conversation that it will be taken for. Of the thirty-eight actions seven are seen by
`ConversationLife`; the others, and a `CloseDeletes` that came late, leave registration and ends
as they are (`Same`).

`Scheduler_proof` proves of `Scheduler` `OneThingAtATime` and `NoTurnIsCut`, for any number of
ticks, upsets and follow-ups, with or without the commit hook (`SchedulerAssumption`). `One`
carries the first: as long as nothing is upset, one run, one turn or one receive has the job's
work (`Single`); while it has, the job is marked as running and its conversation is in `inflight`
(`Marked`), so that no tick starts a second run and only the receive loop that ends the turn
clears the mark; and a job that reuses has no conversation beside the one it keeps or is about to
keep (`Kept`). `Turned` carries the second: without reuse a receive loop tells of an end only when
the prompt of its conversation is answered or can never be sent (`Over`), with reuse only
watchProcess closes anything. `Roles` says who works on which conversation.

`Persister_proof` proves of `Persister` with its two stores `TablesAgree`, `LookupsAgree`,
`EveryTurnCounts` and `OpenRowsAreLive`, for any number of conversations and events
(`BoundsAssumption`), any options, updates and answers, and any restarts and adoptions. `Agree`
relates a set of tables to the maps of the store in memory: the same rows, each under its own id,
sessions and log entries numbered without gaps. For each statement there is a lemma that it and
the method of the same name take tables and maps that agree to ones that do (`InsertAgrees`,
`FinishAgrees`, `LogAgrees`, `FieldAgrees`, ...), whoever calls it. So `TablesAgree` needs nothing
of the persister but that it makes the same calls, of sessions that exist where the stores would
differ; `LookupsAgree`, the part of `SameAnswers` about single rows, follows from it. The other two
theorems follow from `Right`, which holds of a conversation that is not in `upset`: at most one
goroutine has writes to do for it, what those writes carry counts every answer (`Fits`), and a
track in memory does; when nothing of a goroutine is on its way, the row does too, and is open
exactly while the conversation is live. `Queued` says which writes a goroutine can still have, in
which order, and `ShapeOf` what holds of every conversation, upset or not, so that one that is
adopted or starts again has nothing on its way that nobody knows of.

Only model-checked: `DiscordChannel` with `BlockBuffer`, `MessageSplit`, and of `SameAnswers` the
lists and statistics. Of equal tables, lists are equal since both stores sort and select them, with
`SortSeq` and `SelectSeq`, which the prover cannot expand; groups and sums are folds, what they
compute for a table of any size needs induction over data, and so does what a buffer makes of a
text of any length, in `TextIsKept` and `TurnsApart`. `TypingStops` has no proof yet. Liveness is
model-checked everywhere: it is out of the prover's reach, as are ENABLED, induction over data
with an operator parameter, and RECURSIVE operators; the modules use none.

## 6. Not modelled

Encoding of frames and JSON, WebSocket, TLS and tokens; the sandbox command line; configuration
files; SQL as a language, connecting and migrations; the layout of tables, tool and plan messages
and of web pages; permission policies (a pure match of a title against patterns); the arena, the
compliance kit and the clients; `/session/<id>` and the other pages that only read. The line
length limit of the ACP scanner, keepalive periods and dial back-off are abstracted away. Of the
modelled parts: the gap of a page's feed between its first fetch and its socket
(`projectview.html:867`); correlation of Discord messages by project, `/exit`, permission buttons;
a database that fails; overlapping flushes of the persister's totals are there but excluded from
its properties (`upset`).
