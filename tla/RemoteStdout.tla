---------------------------- MODULE RemoteStdout ----------------------------
(***************************************************************************)
(* The stdout of one process that runs on a remote agent, from the pipe of *)
(* the process to the reader in the server (remote/agent.go, conn.go,      *)
(* hub.go).  The agent keeps the bytes in an outbox; the connection        *)
(* carries data frames up and acks down; the server reassembles the frames *)
(* in an inbuf that the ACP reader of the router drains.                   *)
(*                                                                         *)
(* The connection is FIFO in each direction and may break at any moment.   *)
(* Its two ends notice separately, and a new one is dialled only when both *)
(* have let go of the old one: the agent runs one session at a time, and   *)
(* the hub refuses a location that is still claimed.  The server may also  *)
(* restart, losing its inbuf; the next server adopts the stream.           *)
(***************************************************************************)
EXTENDS StreamBuffers

CONSTANTS
  Limit,        \* outbox limit, in bytes
  MaxChunk,     \* payload of one data frame
  MaxRead,      \* the most one read of a pipe or of an inbuf returns
  MaxBytes,     \* bound: bytes the process writes
  MaxDrops,     \* bound: connections that break
  MaxRestarts   \* bound: server restarts

ASSUME ConstantsAssumption ==
  /\ Limit \in Nat /\ MaxChunk \in Nat \ {0} /\ MaxRead \in Nat \ {0}
  /\ MaxBytes \in Nat /\ MaxDrops \in Nat /\ MaxRestarts \in Nat

VARIABLES
  \* Remote agent.
  hist,      \* history: every byte the outbox accepted
  proc,      \* "running", "overrun" (its output is discarded), "exited"
  out,       \* the stream's outbox
  hand,      \* the frame a flush took from the outbox and has not sent: {} or {f}
  due,       \* a flush is running or about to run on the current connection
  stale,     \* a flush has yet to run that holds a connection lost meanwhile
  exitSent,  \* exitSentOn is the current connection
  gone,      \* the agent forgot the stream
  agent,     \* its end of the connection: "off", "hello", "on"
  \* Connection.
  hs,        \* the handshake message in flight
  toSrv,     \* frames in flight to the server
  toAgent,   \* acks and forgets in flight to the agent
  \* Server.
  server,    \* its end of the connection: "off", "wait", "ready"
  hd,        \* its handle: "none", "live", "done"
  inb,       \* the handle's inbuf
  notify,    \* consumed offset a Read has still to report: {} or {off}
  acks,      \* the connection's pending ack: {} or {off}
  start,     \* history: the offset the present handle began at
  log,       \* history: what its reader has read
  eofSeen,   \* its reader has seen EOF
  \* Bounds.
  drops, restarts

agentVars  == <<hist, proc, out, hand, due, stale, exitSent, gone, agent>>
wireVars   == <<hs, toSrv, toAgent>>
serverVars == <<server, hd, inb, notify, acks, start, log, eofSeen>>
vars       == <<agentVars, wireVars, serverVars, drops, restarts>>

NoMsg == [type |-> "none", off |-> 0, exited |-> FALSE]
Hello == [type |-> "hello", off |-> out.base, exited |-> proc = "exited"]
Resume(off) == [type |-> "resume", off |-> off, exited |-> FALSE]
Kill == [type |-> "kill", off |-> 0, exited |-> FALSE]

Init ==
  /\ hist = <<>> /\ proc = "running" /\ out = NewOutbox(0) /\ hand = {}
  /\ due = FALSE /\ stale = FALSE /\ exitSent = FALSE /\ gone = FALSE /\ agent = "on"
  /\ hs = NoMsg /\ toSrv = <<>> /\ toAgent = <<>>
  /\ server = "ready" /\ hd = "live" /\ inb = NewInbuf(0)
  /\ notify = {} /\ acks = {} /\ start = 0 /\ log = <<>> /\ eofSeen = FALSE
  /\ drops = 0 /\ restarts = 0

-----------------------------------------------------------------------------
(* The agent's stdout pump and its flushes *)

\* One read of the process's stdout: n bytes, newlines where nl says.  The flush
\* that follows uses the connection that is current by then.
PumpWrite(n, nl) ==
  LET p == [i \in 1..n |-> [pos |-> Len(hist) + i, nl |-> i \in nl]] IN
  /\ ~gone /\ proc = "running" /\ Len(hist) + n <= MaxBytes
  /\ Fits(out, p, Limit)
  /\ hist' = hist \o p
  /\ out' = WriteOut(out, p)
  /\ due' = (due \/ agent = "on")
  /\ UNCHANGED <<proc, hand, stale, exitSent, gone, agent, wireVars, serverVars, drops, restarts>>

\* The backlog is full: the process is stopped and the rest of its output discarded.
PumpOverflow ==
  /\ ~gone /\ proc = "running" /\ Len(out.buf) + MaxRead > Limit
  /\ proc' = "overrun"
  /\ UNCHANGED <<hist, out, hand, due, stale, exitSent, gone, agent, wireVars, serverVars,
                 drops, restarts>>

\* EOF on the pipe and the process reaped: the exit is recorded, stdout closed.
PumpEOF ==
  /\ ~gone /\ proc \in {"running", "overrun"}
  /\ proc' = "exited"
  /\ out' = CloseOut(out)
  /\ due' = (due \/ agent = "on")
  /\ UNCHANGED <<hist, hand, stale, exitSent, gone, agent, wireVars, serverVars, drops, restarts>>

\* A flush takes the next chunk.  A flush that looked up its connection before it
\* was lost may run at any later time; what it takes, it cannot send.
FlushTake(live) ==
  /\ ~gone /\ hand = {} /\ ChunkLen(out, MaxChunk) > 0
  /\ IF live THEN due /\ agent = "on" ELSE stale
  /\ hand' = {[off |-> out.sent, data |-> NextChunk(out, MaxChunk), live |-> live]}
  /\ out' = MarkSent(out, MaxChunk)
  /\ UNCHANGED <<hist, proc, due, stale, exitSent, gone, agent, wireVars, serverVars,
                 drops, restarts>>

\* A frame written to a connection that the server has already closed is lost.
ToServer(m) == toSrv' = IF server = "off" THEN toSrv ELSE Append(toSrv, m)

FlushSend ==
  /\ \E f \in hand :
       /\ f.live
       /\ ToServer([type |-> "data", off |-> f.off, data |-> f.data])
  /\ hand' = {}
  /\ UNCHANGED <<hist, proc, out, due, stale, exitSent, gone, agent, hs, toAgent, serverVars,
                 drops, restarts>>

\* The write fails, the connection having been closed: the chunk is unsent again.
FlushFail ==
  /\ \E f \in hand :
       /\ ~f.live
       /\ out' = Unsend(out, f.off)
  /\ hand' = {} /\ stale' = FALSE
  /\ UNCHANGED <<hist, proc, due, exitSent, gone, agent, wireVars, serverVars,
                 drops, restarts>>

\* Nothing is left to send: a flush ends, after the exit if stdout is drained.
FlushEnd ==
  /\ ~gone /\ due /\ hand = {} /\ agent = "on" /\ ChunkLen(out, MaxChunk) = 0
  /\ due' = FALSE
  /\ IF Drained(out) /\ ~exitSent
       THEN /\ ToServer([type |-> "exit", off |-> out.sent, data |-> <<>>])
            /\ exitSent' = TRUE
       ELSE UNCHANGED <<toSrv, exitSent>>
  /\ UNCHANGED <<hist, proc, out, hand, stale, gone, agent, hs, toAgent, serverVars,
                 drops, restarts>>

-----------------------------------------------------------------------------
(* The connection *)

\* Mutant: the exit counts as sent on the next connection too.
AgentLosesKeepsExit ==
  /\ agent # "off"
  /\ server = "off" \/ drops < MaxDrops
  /\ drops' = IF server = "off" THEN drops ELSE drops + 1
  /\ agent' = "off" /\ due' = FALSE /\ stale' = (stale \/ due)
  /\ hand' = {[f EXCEPT !.live = FALSE] : f \in hand}
  /\ toAgent' = <<>>
  /\ hs' = IF hs.type = "hello" THEN hs ELSE NoMsg
  /\ UNCHANGED <<hist, proc, out, exitSent, gone, toSrv, serverVars, restarts>>

\* The agent's end closes; flushes that hold it are left with a dead connection.
AgentLoses ==
  /\ agent # "off"
  /\ server = "off" \/ drops < MaxDrops
  /\ drops' = IF server = "off" THEN drops ELSE drops + 1
  /\ agent' = "off" /\ due' = FALSE /\ stale' = (stale \/ due) /\ exitSent' = FALSE
  /\ hand' = {[f EXCEPT !.live = FALSE] : f \in hand}
  /\ toAgent' = <<>>
  /\ hs' = IF hs.type = "hello" THEN hs ELSE NoMsg
  /\ UNCHANGED <<hist, proc, out, gone, toSrv, serverVars, restarts>>

\* The server's end closes (detachConn): nothing in flight to it arrives any more.
ServerLets ==
  /\ server' = "off" /\ acks' = {} /\ toSrv' = <<>>
  /\ hs' = IF hs.type = "hello" THEN NoMsg ELSE hs

ServerLoses ==
  /\ server # "off"
  /\ agent = "off" \/ drops < MaxDrops
  /\ drops' = IF agent = "off" THEN drops ELSE drops + 1
  /\ ServerLets
  /\ UNCHANGED <<agentVars, toAgent, hd, inb, notify, start, log, eofSeen, restarts>>

\* The server process ends and another takes its place, which knows nothing.
ServerRestarts ==
  /\ restarts < MaxRestarts /\ restarts' = restarts + 1
  /\ ServerLets
  /\ hd' = "none" /\ notify' = {}
  /\ UNCHANGED <<agentVars, toAgent, inb, start, log, eofSeen, drops>>

\* A new session: the agent dials, the hub claims the location, hello goes out.
Dial ==
  /\ ~gone /\ agent = "off" /\ server = "off"
  /\ agent' = "hello" /\ server' = "wait"
  /\ hs' = Hello
  /\ UNCHANGED <<hist, proc, out, hand, due, stale, exitSent, gone, toSrv, toAgent,
                 hd, inb, notify, acks, start, log, eofSeen, drops, restarts>>

\* attach: a known stream resumes where the inbuf ends; one that already ended here,
\* or that ended while no server watched, is killed; any other is adopted from the
\* start of the agent's buffer.
Attach ==
  /\ server = "wait" /\ hs.type = "hello"
  /\ server' = "ready"
  /\ LET Answer(m) == hs' = IF agent = "hello" THEN m ELSE NoMsg
         adopted  == hd = "none" /\ ~hs.exited
     IN \/ /\ hd = "live" /\ Answer(Resume(inb.next))
           /\ UNCHANGED <<hd, inb, start, log, eofSeen>>
        \/ /\ hd = "done" \/ (hd = "none" /\ hs.exited)
           /\ Answer(Kill)
           /\ UNCHANGED <<hd, inb, start, log, eofSeen>>
        \/ /\ adopted /\ Answer(Resume(hs.off))
           /\ hd' = "live" /\ inb' = NewInbuf(hs.off)
           /\ start' = hs.off /\ log' = <<>> /\ eofSeen' = FALSE
  /\ UNCHANGED <<agentVars, toSrv, toAgent, notify, acks, drops, restarts>>

\* Mutant: nothing is flushed until the process writes again.
WelcomeWaits ==
  /\ agent = "hello" /\ hs.type \in {"resume", "kill"} /\ hand = {}
  /\ hs' = NoMsg
  /\ agent' = "on"
  /\ IF hs.type = "resume" /\ CanRewind(out, hs.off)
       THEN out' = Rewind(out, hs.off) /\ UNCHANGED <<gone, due>>
       ELSE gone' = TRUE /\ UNCHANGED <<out, due>>
  /\ UNCHANGED <<hist, proc, hand, stale, exitSent, toSrv, toAgent, serverVars, drops, restarts>>

\* welcome: the agent rewinds its outbox to what the server holds and flushes.  The
\* rewind takes sendMu, so it waits for a flush that holds a frame.
Welcome ==
  /\ agent = "hello" /\ hs.type \in {"resume", "kill"} /\ hand = {}
  /\ hs' = NoMsg
  /\ agent' = "on"
  /\ IF hs.type = "resume" /\ CanRewind(out, hs.off)
       THEN out' = Rewind(out, hs.off) /\ due' = TRUE /\ UNCHANGED gone
       ELSE gone' = TRUE /\ UNCHANGED <<out, due>>
  /\ UNCHANGED <<hist, proc, hand, stale, exitSent, toSrv, toAgent, serverVars, drops, restarts>>

-----------------------------------------------------------------------------
(* The server's read loop and its reader *)

\* A data frame for a handle we already let go of is skipped; a gap closes the
\* connection.
RecvData ==
  /\ server = "ready" /\ toSrv # <<>> /\ Head(toSrv).type = "data"
  /\ LET m == Head(toSrv) IN
     \/ /\ hd = "live" /\ Gap(inb, m.off)
        /\ ServerLets
        /\ UNCHANGED inb
     \/ /\ ~(hd = "live" /\ Gap(inb, m.off))
        /\ inb' = IF hd = "live" THEN Receive(inb, m.off, m.data) ELSE inb
        /\ toSrv' = Tail(toSrv)
        /\ UNCHANGED <<server, acks, hs>>
  /\ UNCHANGED <<agentVars, toAgent, hd, notify, start, log, eofSeen, drops, restarts>>

\* A message to an agent that has closed its end is lost.
ToAgent(m) == toAgent' = IF agent = "off" THEN toAgent ELSE Append(toAgent, m)

\* exit ends stdout for the reader; the record at the agent may go.
RecvExit ==
  /\ server = "ready" /\ toSrv # <<>> /\ Head(toSrv).type = "exit"
  /\ toSrv' = Tail(toSrv)
  /\ inb' = IF hd = "live" THEN CloseIn(inb) ELSE inb
  /\ ToAgent([type |-> "forget", off |-> 0])
  /\ UNCHANGED <<agentVars, hs, server, hd, notify, acks, start, log, eofSeen,
                 drops, restarts>>

\* exited: Done once the reader drained stdout, or two seconds later.
HandleDone ==
  /\ hd = "live" /\ inb.eof
  /\ hd' = "done"
  /\ UNCHANGED <<agentVars, wireVars, server, inb, notify, acks, start, log, eofSeen,
                 drops, restarts>>

\* Mutant: what was received is acknowledged, not what was read.
ReaderReadAcksReceipt(n) ==
  /\ hd # "none" /\ notify = {} /\ n <= Len(inb.buf)
  /\ log' = log \o SubSeq(inb.buf, 1, n)
  /\ inb' = ReadIn(inb, n)
  /\ notify' = {inb.next}
  /\ UNCHANGED <<agentVars, wireVars, server, hd, acks, start, eofSeen, drops, restarts>>

\* A Read returns n bytes, under the inbuf's lock ...
ReaderRead(n) ==
  /\ hd # "none" /\ notify = {} /\ n <= Len(inb.buf)
  /\ log' = log \o SubSeq(inb.buf, 1, n)
  /\ inb' = ReadIn(inb, n)
  /\ notify' = {inb.consumed + n}
  /\ UNCHANGED <<agentVars, wireVars, server, hd, acks, start, eofSeen, drops, restarts>>

\* Mutant: queued acks pile up.
ReaderNotifyAdds ==
  /\ notify # {}
  /\ acks' = IF server = "ready" THEN acks \cup notify ELSE acks
  /\ notify' = {}
  /\ UNCHANGED <<agentVars, wireVars, server, hd, inb, start, log, eofSeen, drops, restarts>>

\* ... and reports the consumed offset after unlocking it: queueAck, replacing an
\* earlier offset not yet sent, if a connection is ready.
ReaderNotify ==
  /\ notify # {}
  /\ acks' = IF server = "ready" THEN notify ELSE acks
  /\ notify' = {}
  /\ UNCHANGED <<agentVars, wireVars, server, hd, inb, start, log, eofSeen, drops, restarts>>

ReaderEOF ==
  /\ hd # "none" /\ notify = {} /\ ~eofSeen /\ AtEOF(inb)
  /\ eofSeen' = TRUE
  /\ UNCHANGED <<agentVars, wireVars, server, hd, inb, notify, acks, start, log,
                 drops, restarts>>

\* The connection's acker sends what is pending.
AckerSend ==
  /\ server = "ready"
  /\ \E off \in acks : ToAgent([type |-> "ack", off |-> off])
  /\ acks' = {}
  /\ UNCHANGED <<agentVars, hs, toSrv, server, hd, inb, notify, start, log, eofSeen,
                 drops, restarts>>

\* The agent's read loop: ack and forget.
AgentRecv ==
  /\ agent = "on" /\ toAgent # <<>>
  /\ toAgent' = Tail(toAgent)
  /\ IF Head(toAgent).type = "forget"
       THEN gone' = TRUE /\ UNCHANGED out
       ELSE /\ out' = IF gone THEN out ELSE Ack(out, Head(toAgent).off)
            /\ UNCHANGED gone
  /\ UNCHANGED <<hist, proc, hand, due, stale, exitSent, agent, hs, toSrv, serverVars,
                 drops, restarts>>

-----------------------------------------------------------------------------
Next ==
  \/ \E n \in 1..MaxRead : \E nl \in SUBSET (1..n) : PumpWrite(n, nl)
  \/ PumpOverflow \/ PumpEOF
  \/ \E live \in BOOLEAN : FlushTake(live)
  \/ FlushSend \/ FlushFail \/ FlushEnd
  \/ AgentLoses \/ ServerLoses \/ ServerRestarts
  \/ Dial \/ Attach \/ Welcome
  \/ RecvData \/ RecvExit \/ HandleDone
  \/ \E n \in 1..MaxRead : ReaderRead(n)
  \/ ReaderNotify \/ ReaderEOF \/ AckerSend \/ AgentRecv

Spec == Init /\ [][Next]_vars

\* Goroutines run, a broken connection is noticed at both ends (keepalive) and the
\* agent keeps dialling.  Nothing makes the process write or exit.
Fairness ==
  /\ WF_vars(FlushTake(TRUE)) /\ WF_vars(FlushSend) /\ WF_vars(FlushFail)
  /\ WF_vars(FlushEnd)
  /\ WF_vars(AgentLoses /\ server = "off") /\ WF_vars(ServerLoses /\ agent = "off")
  /\ WF_vars(Dial) /\ WF_vars(Attach) /\ WF_vars(Welcome)
  /\ WF_vars(RecvData) /\ WF_vars(RecvExit) /\ WF_vars(HandleDone)
  /\ WF_vars(\E n \in 1..MaxRead : ReaderRead(n))
  /\ WF_vars(ReaderNotify) /\ WF_vars(ReaderEOF)
  /\ WF_vars(AckerSend) /\ WF_vars(AgentRecv)

FairSpec == Spec /\ Fairness

-----------------------------------------------------------------------------
(* Properties *)

Bytes == [pos : Nat, nl : BOOLEAN]
Frames == [off : Nat, data : Pieces(Bytes), live : BOOLEAN]
HsMsgs == [type : {"none", "hello", "resume", "kill"}, off : Nat, exited : BOOLEAN]
UpMsgs == [type : {"data", "exit"}, off : Nat, data : Pieces(Bytes)]
DownMsgs == [type : {"ack", "forget"}, off : Nat]
AtMostOne(S) == \A x, y \in S : x = y

AgentTypeOK ==
  /\ hist \in Pieces(Bytes) /\ proc \in {"running", "overrun", "exited"}
  /\ out \in Outboxes(Bytes)
  /\ hand \in SUBSET Frames /\ AtMostOne(hand)
  /\ due \in BOOLEAN /\ stale \in BOOLEAN /\ exitSent \in BOOLEAN /\ gone \in BOOLEAN
  /\ agent \in {"off", "hello", "on"}
WireTypeOK == hs \in HsMsgs /\ toSrv \in Seq(UpMsgs) /\ toAgent \in Seq(DownMsgs)
ServerTypeOK ==
  /\ server \in {"off", "wait", "ready"} /\ hd \in {"none", "live", "done"}
  /\ inb \in Inbufs(Bytes)
  /\ notify \in SUBSET Nat /\ AtMostOne(notify)
  /\ acks \in SUBSET Nat /\ AtMostOne(acks)
  /\ start \in Nat /\ log \in Pieces(Bytes) /\ eofSeen \in BOOLEAN

\* The shape of every variable.
TypeOK ==
  /\ AgentTypeOK /\ WireTypeOK /\ ServerTypeOK
  /\ drops \in Nat /\ restarts \in Nat

\* Whatever the connection does, the reader in the server sees the bytes the process
\* wrote, in order, none twice and none missing, and a reader that adopted the stream
\* begins at the start of a line: this module implements ByteStream.
Abs == INSTANCE ByteStream WITH hist <- hist, start <- start, log <- log
ReaderGetsStream == Abs!Spec

\* The offset a server answers to hello is always inside the agent's buffer, so a
\* reconnect never ends a healthy process with "cannot resume at offset".
ResumeIsPossible ==
  agent = "hello" /\ hs.type = "resume" => CanRewind(out, hs.off)

\* No data frame ever leaves a gap: after any number of failed sends, replays and
\* late flushes the next frame starts exactly where the inbuf ends.
NoGap ==
  server = "ready" /\ hd = "live" /\ toSrv # <<>> /\ Head(toSrv).type = "data"
    => Head(toSrv).off = inb.next

\* A reconnect costs neither end anything: the agent never answers a resume with "cannot
\* resume at offset", and no handle closes its connection over a gap.
ReconnectIsClean == ResumeIsPossible /\ NoGap

\* When the reader sees EOF it has read all the stdout of an exited process: the exit
\* message never overtakes a byte, on whichever connection it is sent.
EOFIsComplete ==
  eofSeen => proc = "exited" /\ start + Len(log) = Len(hist)

\* Outside of a handshake the agent drops only bytes the server's reader has consumed.
AcksFollowReader ==
  [][out.base' > out.base /\ agent # "hello" => out.base' <= inb.consumed]_vars

\* A server that adopts the stream starts no later than where the reader of the server
\* before it stopped: bytes that nobody processed stayed in the agent's buffer.
AdoptionSkipsNothing == [][start' <= start + Len(log)]_vars

\* Every byte written is eventually read, unless a process that ended unwatched is
\* finalized by a server that never knew it.
EveryByteRead ==
  \A k \in 1..MaxBytes :
    Len(hist) >= k ~> start + Len(log) >= k \/ (gone /\ hd = "none")

\* The exit of a process eventually reaches the reader as EOF, and the agent gets rid
\* of its record.
ExitIsSettled == proc = "exited" ~> gone /\ (eofSeen \/ hd = "none")
=============================================================================
