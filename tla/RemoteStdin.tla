---------------------------- MODULE RemoteStdin ----------------------------
(***************************************************************************)
(* The stdin of one process that runs on a remote agent: the messages the  *)
(* router writes to the handle, each one line, down to the process.  The   *)
(* outbox is the server's here and the inbuf the agent's (remote/hub.go,   *)
(* agent.go).  A server restart loses the outbox: the next server starts   *)
(* its own where the agent's inbuf ends, after a newline when the last     *)
(* line the agent holds is cut off.                                        *)
(*                                                                         *)
(* The connection is that of RemoteStdout.                                 *)
(***************************************************************************)
EXTENDS StreamBuffers

CONSTANTS
  Limit,        \* outbox limit, in bytes
  MaxChunk,     \* payload of one data frame
  MaxLine,      \* bound: bytes of one line
  MaxBytes,     \* bound: bytes each server writes
  MaxDrops,     \* bound: connections that break
  MaxRestarts   \* bound: server restarts

ASSUME ConstantsAssumption ==
  /\ Limit \in Nat /\ MaxChunk \in Nat \ {0} /\ MaxLine \in Nat \ {0}
  /\ MaxBytes \in Nat /\ MaxDrops \in Nat /\ MaxRestarts \in Nat

VARIABLES
  \* Server.
  server,    \* its end of the connection: "off", "wait", "ready"
  hd,        \* its handle: "none", "live", "done"
  out,       \* the handle's outbox (in, in the code: stdin)
  wrote,     \* history: bytes of messages this server's outbox accepted
  hand,      \* the frame a flush took and has not sent: {} or {f}
  due,       \* a flush is running or about to run on the current connection
  stale,     \* a flush has yet to run that holds a connection lost meanwhile
  \* Connection.
  hs,        \* the handshake message in flight
  toAgent,   \* frames in flight to the agent
  toSrv,     \* acks in flight to the server
  \* Remote agent.
  agent,     \* its end of the connection: "off", "hello", "on"
  inb,       \* the stream's inbuf
  notify,    \* consumed offset a Read has still to report: {} or {off}
  acks,      \* the connection's pending ack: {} or {off}
  proc,      \* "running" or "exited"
  gone,      \* the agent forgot the stream
  log,       \* history: what the process has been given
  \* Bounds; restarts is also the number of the present server.
  drops, restarts

serverVars == <<server, hd, out, wrote, hand, due, stale>>
wireVars   == <<hs, toAgent, toSrv>>
agentVars  == <<agent, inb, notify, acks, proc, gone, log>>
vars       == <<serverVars, wireVars, agentVars, drops, restarts>>

NoMsg == [type |-> "none", off |-> 0, lineEnd |-> TRUE, exited |-> FALSE]
Hello == [type |-> "hello", off |-> inb.next, lineEnd |-> inb.lineEnd,
          exited |-> proc = "exited"]
Answered(action) == [NoMsg EXCEPT !.type = action]

\* The newline a server writes after a line that an earlier server left unfinished.
Terminator == [srv |-> restarts, pos |-> 0, nl |-> TRUE]

Init ==
  /\ server = "ready" /\ hd = "live" /\ out = NewOutbox(0) /\ wrote = 0
  /\ hand = {} /\ due = FALSE /\ stale = FALSE
  /\ hs = NoMsg /\ toAgent = <<>> /\ toSrv = <<>>
  /\ agent = "on" /\ inb = NewInbuf(0) /\ notify = {} /\ acks = {}
  /\ proc = "running" /\ gone = FALSE /\ log = <<>>
  /\ drops = 0 /\ restarts = 0

-----------------------------------------------------------------------------
(* The server's writer and its flushes *)

\* stdinWriter.Write of one message of n bytes.  A full buffer refuses it whole.
WriteLine(n) ==
  LET p == [i \in 1..n |-> [srv |-> restarts, pos |-> wrote + i, nl |-> i = n]] IN
  /\ hd = "live" /\ wrote + n <= MaxBytes
  /\ Fits(out, p, Limit)
  /\ out' = WriteOut(out, p)
  /\ wrote' = wrote + n
  /\ due' = (due \/ server = "ready")
  /\ UNCHANGED <<server, hd, hand, stale, wireVars, agentVars, drops, restarts>>

FlushTake(live) ==
  /\ hd # "none" /\ hand = {} /\ ChunkLen(out, MaxChunk) > 0
  /\ IF live THEN due /\ server = "ready" ELSE stale
  /\ hand' = {[off |-> out.sent, data |-> NextChunk(out, MaxChunk), live |-> live]}
  /\ out' = MarkSent(out, MaxChunk)
  /\ UNCHANGED <<server, hd, wrote, due, stale, wireVars, agentVars, drops, restarts>>

FlushSend ==
  /\ \E f \in hand :
       /\ f.live
       /\ toAgent' = IF agent = "off" THEN toAgent
                     ELSE Append(toAgent, [off |-> f.off, data |-> f.data])
  /\ hand' = {}
  /\ UNCHANGED <<server, hd, out, wrote, due, stale, hs, toSrv, agentVars, drops, restarts>>

FlushFail ==
  /\ \E f \in hand : ~f.live /\ out' = Unsend(out, f.off)
  /\ hand' = {} /\ stale' = FALSE
  /\ UNCHANGED <<server, hd, wrote, due, wireVars, agentVars, drops, restarts>>

FlushEnd ==
  /\ due /\ hand = {} /\ server = "ready" /\ ChunkLen(out, MaxChunk) = 0
  /\ due' = FALSE
  /\ UNCHANGED <<server, hd, out, wrote, hand, stale, wireVars, agentVars, drops, restarts>>

-----------------------------------------------------------------------------
(* The connection *)

\* The server's end closes; flushes that hold it are left with a dead connection.
ServerLets ==
  /\ server' = "off" /\ due' = FALSE
  /\ toSrv' = <<>>
  /\ hs' = IF hs.type = "hello" THEN NoMsg ELSE hs

ServerLoses ==
  /\ server # "off"
  /\ agent = "off" \/ drops < MaxDrops
  /\ drops' = IF agent = "off" THEN drops ELSE drops + 1
  /\ ServerLets
  /\ stale' = (stale \/ due)
  /\ hand' = {[f EXCEPT !.live = FALSE] : f \in hand}
  /\ UNCHANGED <<hd, out, wrote, toAgent, agentVars, restarts>>

\* The server process ends, and its outbox with it.
ServerRestarts ==
  /\ restarts < MaxRestarts /\ restarts' = restarts + 1
  /\ ServerLets
  /\ hd' = "none" /\ out' = NewOutbox(0) /\ wrote' = 0 /\ hand' = {} /\ stale' = FALSE
  /\ UNCHANGED <<toAgent, agentVars, drops>>

AgentLoses ==
  /\ agent # "off"
  /\ server = "off" \/ drops < MaxDrops
  /\ drops' = IF server = "off" THEN drops ELSE drops + 1
  /\ agent' = "off" /\ acks' = {} /\ toAgent' = <<>>
  /\ hs' = IF hs.type = "hello" THEN hs ELSE NoMsg
  /\ UNCHANGED <<serverVars, toSrv, inb, notify, proc, gone, log, restarts>>

Dial ==
  /\ ~gone /\ agent = "off" /\ server = "off"
  /\ agent' = "hello" /\ server' = "wait"
  /\ hs' = Hello
  /\ UNCHANGED <<hd, out, wrote, hand, due, stale, toAgent, toSrv,
                 inb, notify, acks, proc, gone, log, drops, restarts>>

\* Mutant: a cut-off line is not ended.
AttachGlues ==
  /\ server = "wait" /\ hs.type = "hello" /\ hand = {}
  /\ server' = "ready"
  /\ LET Answer(action) ==
           hs' = IF agent = "hello" THEN Answered(action) ELSE NoMsg
         resumable == hd = "live" /\ CanRewind(out, hs.off)
         adopted   == hd = "none" /\ ~hs.exited
         fresh     == NewOutbox(hs.off)
     IN \/ /\ resumable
           /\ out' = Rewind(out, hs.off)
           /\ due' = TRUE /\ hd' = hd /\ Answer("resume")
        \/ /\ adopted
           /\ out' = fresh
           /\ due' = TRUE /\ hd' = "live" /\ Answer("resume")
        \/ /\ ~resumable /\ ~adopted
           /\ out' = CloseOut(out)
           /\ hd' = (IF hd = "live" THEN "done" ELSE hd)
           /\ Answer("kill") /\ UNCHANGED due
  /\ UNCHANGED <<wrote, hand, stale, toAgent, toSrv, agentVars, drops, restarts>>

\* attach, once no flush holds a frame: a known stream is rewound to what the agent
\* holds (or stopped, if that is not in the buffer); an unknown one is adopted, its
\* outbox beginning where the agent's inbuf ends.
Attach ==
  /\ server = "wait" /\ hs.type = "hello" /\ hand = {}
  /\ server' = "ready"
  /\ LET Answer(action) ==
           hs' = IF agent = "hello" THEN Answered(action) ELSE NoMsg
         resumable == hd = "live" /\ CanRewind(out, hs.off)
         adopted   == hd = "none" /\ ~hs.exited
         fresh     == NewOutbox(hs.off)
     IN \/ /\ resumable
           /\ out' = Rewind(out, hs.off)
           /\ due' = TRUE /\ hd' = hd /\ Answer("resume")
        \/ /\ adopted
           /\ out' = IF hs.lineEnd THEN fresh ELSE WriteOut(fresh, <<Terminator>>)
           /\ due' = TRUE /\ hd' = "live" /\ Answer("resume")
        \/ /\ ~resumable /\ ~adopted
           /\ out' = CloseOut(out)
           /\ hd' = (IF hd = "live" THEN "done" ELSE hd)
           /\ Answer("kill") /\ UNCHANGED due
  /\ UNCHANGED <<wrote, hand, stale, toAgent, toSrv, agentVars, drops, restarts>>

Welcome ==
  /\ agent = "hello" /\ hs.type \in {"resume", "kill"}
  /\ agent' = "on" /\ hs' = NoMsg
  /\ gone' = (gone \/ hs.type = "kill")
  /\ UNCHANGED <<serverVars, toAgent, toSrv, inb, notify, acks, proc, log, drops, restarts>>

-----------------------------------------------------------------------------
(* The agent's read loop, the pump to the process, and the process *)

\* A data frame for a stream the agent forgot is skipped; a gap ends the session.
RecvData ==
  /\ agent = "on" /\ toAgent # <<>>
  /\ LET m == Head(toAgent) IN
     \/ /\ ~gone /\ Gap(inb, m.off)
        /\ agent' = "off" /\ acks' = {} /\ toAgent' = <<>>
        /\ UNCHANGED inb
     \/ /\ gone \/ ~Gap(inb, m.off)
        /\ inb' = IF gone THEN inb ELSE Receive(inb, m.off, m.data)
        /\ toAgent' = Tail(toAgent)
        /\ UNCHANGED <<agent, acks>>
  /\ UNCHANGED <<serverVars, hs, toSrv, notify, proc, gone, log, drops, restarts>>

\* The pump moves n bytes on to the process ...
PumpRead(n) ==
  /\ proc = "running" /\ notify = {} /\ n <= Len(inb.buf)
  /\ log' = log \o SubSeq(inb.buf, 1, n)
  /\ inb' = ReadIn(inb, n)
  /\ notify' = {inb.consumed + n}
  /\ UNCHANGED <<serverVars, wireVars, agent, acks, proc, gone, drops, restarts>>

\* ... and the consumed offset is queued on the connection then current.
PumpNotify ==
  /\ notify # {}
  /\ acks' = IF agent = "on" THEN notify ELSE acks
  /\ notify' = {}
  /\ UNCHANGED <<serverVars, wireVars, agent, inb, proc, gone, log, drops, restarts>>

AckerSend ==
  /\ agent = "on"
  /\ \E off \in acks : toSrv' = IF server = "off" THEN toSrv ELSE Append(toSrv, off)
  /\ acks' = {}
  /\ UNCHANGED <<serverVars, hs, toAgent, agent, inb, notify, proc, gone, log,
                 drops, restarts>>

\* The hub's read loop: an ack trims the outbox of a handle it still has.
RecvAck ==
  /\ server = "ready" /\ toSrv # <<>>
  /\ toSrv' = Tail(toSrv)
  /\ out' = IF hd = "live" THEN Ack(out, Head(toSrv)) ELSE out
  /\ UNCHANGED <<server, hd, wrote, hand, due, stale, hs, toAgent, agentVars,
                 drops, restarts>>

\* The process exits: its stdin takes nothing more.
ProcExit ==
  /\ proc = "running"
  /\ proc' = "exited"
  /\ inb' = CloseIn(inb)
  /\ UNCHANGED <<serverVars, wireVars, agent, notify, acks, gone, log, drops, restarts>>

\* The exit has reached the server, over stdout: the handle is finished.
HandleDone ==
  /\ hd = "live" /\ proc = "exited"
  /\ hd' = "done" /\ out' = CloseOut(out)
  /\ UNCHANGED <<server, wrote, hand, due, stale, wireVars, agentVars, drops, restarts>>

-----------------------------------------------------------------------------
Next ==
  \/ \E n \in 1..MaxLine : WriteLine(n)
  \/ \E live \in BOOLEAN : FlushTake(live)
  \/ FlushSend \/ FlushFail \/ FlushEnd
  \/ ServerLoses \/ ServerRestarts \/ AgentLoses
  \/ Dial \/ Attach \/ Welcome
  \/ RecvData
  \/ \E n \in 1..MaxLine : PumpRead(n)
  \/ PumpNotify \/ AckerSend \/ RecvAck \/ ProcExit \/ HandleDone

Spec == Init /\ [][Next]_vars

\* Goroutines run, both ends notice a broken connection, the agent keeps dialling and
\* a running process keeps reading its stdin.
Fairness ==
  /\ WF_vars(FlushTake(TRUE)) /\ WF_vars(FlushSend) /\ WF_vars(FlushFail)
  /\ WF_vars(FlushEnd)
  /\ WF_vars(AgentLoses /\ server = "off") /\ WF_vars(ServerLoses /\ agent = "off")
  /\ WF_vars(Dial) /\ WF_vars(Attach) /\ WF_vars(Welcome) /\ WF_vars(RecvData)
  /\ WF_vars(\E n \in 1..MaxLine : PumpRead(n))
  /\ WF_vars(PumpNotify) /\ WF_vars(AckerSend) /\ WF_vars(RecvAck)

FairSpec == Spec /\ Fairness

-----------------------------------------------------------------------------
(* Properties *)

Bytes == [srv : Nat, pos : Nat, nl : BOOLEAN]
Frames == [off : Nat, data : Pieces(Bytes)]
Taken == [off : Nat, data : Pieces(Bytes), live : BOOLEAN]
HsMsgs == [type : {"none", "hello", "resume", "kill"}, off : Nat,
           lineEnd : BOOLEAN, exited : BOOLEAN]
AtMostOne(S) == \A x, y \in S : x = y

\* The shape of every variable.
TypeOK ==
  /\ server \in {"off", "wait", "ready"} /\ agent \in {"off", "hello", "on"}
  /\ hd \in {"none", "live", "done"}
  /\ out \in Outboxes(Bytes)
  /\ wrote \in Nat
  /\ hand \subseteq Taken /\ AtMostOne(hand)
  /\ due \in BOOLEAN /\ stale \in BOOLEAN /\ gone \in BOOLEAN
  /\ hs \in HsMsgs /\ toAgent \in Seq(Frames) /\ toSrv \in Seq(Nat)
  /\ inb \in Inbufs(Bytes)
  /\ notify \subseteq Nat /\ AtMostOne(notify)
  /\ acks \subseteq Nat /\ AtMostOne(acks)
  /\ proc \in {"running", "exited"} /\ log \in Pieces(Bytes)
  /\ drops \in Nat /\ restarts \in Nat

\* The agent's end of the pipe, read and unread.
Given == log \o inb.buf

\* Each server's messages reach the process as one run of bytes, in order and none of
\* them twice, whatever was sent again on later connections.
MessagesInOrder ==
  /\ \A i \in 1..Len(Given) :
       LET b == Given[i] IN
       b.pos > 1 => i > 1 /\ Given[i - 1].srv = b.srv /\ Given[i - 1].pos = b.pos - 1
  /\ \A i, j \in 1..Len(Given) : Given[i] = Given[j] => i = j

\* A restarted server's messages are never glued to a fragment of an older one's: a
\* byte that follows another server's unfinished line is a newline.
NoGluedLine ==
  \A i \in 2..Len(Given) :
    Given[i].srv # Given[i - 1].srv /\ ~Given[i - 1].nl => Given[i].nl

\* A known, live handle can always be rewound to what the agent says it holds.
ResumeIsPossible ==
  server = "wait" /\ hs.type = "hello" /\ hd = "live" => CanRewind(out, hs.off)

\* The frame the agent reads next starts exactly where its inbuf ends.
NoGap == agent = "on" /\ ~gone /\ toAgent # <<>> => Head(toAgent).off = inb.next

\* A reconnect costs neither end anything: the server never finishes a live handle with
\* "cannot resume" (attach), and the agent never drops the connection over a gap (Write).
ReconnectIsClean == ResumeIsPossible /\ NoGap

\* A message the server accepted reaches the process, unless the server restarts or
\* the process exits.
EveryMessageGiven ==
  \A r \in 0..MaxRestarts, k \in 1..MaxBytes :
    (restarts = r /\ wrote >= k)
      ~> \/ restarts > r \/ proc = "exited"
         \/ \E i \in 1..Len(log) : log[i].srv = r /\ log[i].pos = k
=============================================================================
