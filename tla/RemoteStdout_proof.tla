-------------------------- MODULE RemoteStdout_proof --------------------------
(***************************************************************************)
(* The theorems about RemoteStdout: its inductive invariant, the safety    *)
(* properties the runs check, and that it implements ByteStream, for any   *)
(* limits and any number of drops and restarts.                            *)
(***************************************************************************)
EXTENDS RemoteStdout, TLAPS, SequenceTheorems

\* s is the piece of the stream h that begins at offset k.
PieceOf(s, h, k) ==
  /\ k + Len(s) <= Len(h)
  /\ \A i \in 1..Len(s) : s[i] = h[k + i]

\* A piece of the process's output.
Piece(s, k) == PieceOf(s, hist, k)

\* The outbox ends where the stream does, is resumed inside its buffer and begins a line.
OutInv ==
  /\ out.base + Len(out.buf) = Len(hist) /\ Piece(out.buf, out.base)
  /\ out.base <= out.sent /\ out.sent <= Len(hist)
  /\ out.base = 0 \/ hist[out.base].nl
  /\ out.eof <=> proc = "exited"

\* The inbuf holds what was received and not yet read; the log what was read.
InInv ==
  /\ inb.consumed + Len(inb.buf) = inb.next /\ Piece(inb.buf, inb.consumed)
  /\ start + Len(log) = inb.consumed /\ Piece(log, start)
  /\ out.base <= inb.next
  /\ inb.eof => proc = "exited" /\ inb.next = Len(hist)
  /\ hd = "done" => inb.eof
  /\ eofSeen => inb.eof /\ inb.buf = <<>>

\* A frame in hand is the last that was taken, and none of it is acknowledged.
HandInv ==
  \A f \in hand :
    /\ Piece(f.data, f.off) /\ Len(f.data) > 0
    /\ f.off + Len(f.data) = out.sent /\ out.base <= f.off
    /\ f.live => agent = "on"

\* Where the two ends of a connection can be.
ConnInv ==
  /\ agent = "off" => toAgent = <<>> /\ hs.type \in {"none", "hello"}
  /\ agent = "on" => hs.type = "none" /\ server # "wait"
  /\ server = "off" => hs.type # "hello" /\ toSrv = <<>> /\ acks = {}
  /\ server = "wait" => hs.type \in {"none", "hello"} /\ toSrv = <<>> /\ toAgent = <<>> /\ acks = {}
  /\ server = "ready" => hs.type # "hello"
  /\ agent = "hello" => toSrv = <<>>
  /\ agent = "hello" /\ server = "ready" => hs.type \in {"resume", "kill"}
  /\ hd = "none" => notify = {} /\ acks = {}
  /\ hd = "none" /\ server = "ready" /\ agent = "on" => gone
  /\ hs.type = "hello" => hs.off = out.base /\ (hs.exited => proc = "exited")
  /\ hs.type = "resume" =>
       /\ out.base <= hs.off /\ hs.off <= Len(hist) /\ hs.off <= inb.next
       /\ server = "ready" => hs.off = inb.next /\ hd # "none"

\* The offset the agent sends next.
SendPoint == IF hand = {} THEN out.sent ELSE (CHOOSE f \in hand : TRUE).off

\* The offset after everything in flight to the server.
WireEnd ==
  IF toSrv = <<>> THEN inb.next ELSE toSrv[Len(toSrv)].off + Len(toSrv[Len(toSrv)].data)

\* Frames in flight continue the inbuf and one another; an exit comes after all stdout.
ChainInv ==
  server = "ready" /\ hd # "none" =>
    /\ \A i \in 1..Len(toSrv) :
         /\ toSrv[i].off = IF i = 1 THEN inb.next ELSE toSrv[i - 1].off + Len(toSrv[i - 1].data)
         /\ Piece(toSrv[i].data, toSrv[i].off)
         /\ toSrv[i].type = "data" => Len(toSrv[i].data) > 0
         /\ toSrv[i].type = "exit" =>
              toSrv[i].data = <<>> /\ toSrv[i].off = Len(hist) /\ proc = "exited"
    /\ \A i, j \in 1..Len(toSrv) :
         i < j => toSrv[i].off + Len(toSrv[i].data) <= toSrv[j].off

\* What the agent sends next continues what is in flight.
TipInv ==
  agent = "on" /\ server = "ready" /\ hd # "none" /\ (~gone \/ hand # {})
    => WireEnd = SendPoint

\* No ack passes the reader, nor what the agent has sent on this connection.
AckInv ==
  /\ \A off \in notify \cup acks : off <= inb.consumed
  /\ \A i \in 1..Len(toAgent) :
       toAgent[i].type = "ack" =>
         /\ toAgent[i].off <= inb.consumed
         /\ agent = "on" /\ (~gone \/ hand # {}) => toAgent[i].off <= SendPoint
         /\ hs.type = "resume" => toAgent[i].off <= hs.off

IInv ==
  /\ TypeOK /\ OutInv /\ InInv /\ HandInv /\ ConnInv /\ ChainInv /\ TipInv /\ AckInv

-----------------------------------------------------------------------------
(* StreamBuffers: what its operators do to the pieces of a stream of any bytes *)

\* A part of a piece is the piece that begins as much later.
LEMMA PiecePart ==
  ASSUME NEW T, NEW s \in Pieces(T), NEW h \in Pieces(T), NEW k \in Nat, PieceOf(s, h, k),
         NEW a \in Nat, NEW b \in Nat, a <= b, b <= Len(s)
  PROVE  /\ SubSeq(s, a + 1, b) \in Pieces(T)
         /\ Len(SubSeq(s, a + 1, b)) = b - a
         /\ PieceOf(SubSeq(s, a + 1, b), h, k + a)
<1>1. /\ SubSeq(s, a + 1, b) \in Pieces(T)
      /\ Len(SubSeq(s, a + 1, b)) = b - a
      /\ \A i \in 1..(b - a) : SubSeq(s, a + 1, b)[i] = s[a + i]
  BY SubSeqProperties DEF Pieces
<1> QED
  BY <1>1 DEF PieceOf

\* Two pieces that meet are one piece.
LEMMA PieceJoin ==
  ASSUME NEW T, NEW s \in Pieces(T), NEW t \in Pieces(T), NEW h \in Pieces(T), NEW k \in Nat,
         PieceOf(s, h, k), PieceOf(t, h, k + Len(s))
  PROVE  /\ s \o t \in Pieces(T) /\ Len(s \o t) = Len(s) + Len(t)
         /\ PieceOf(s \o t, h, k)
<1>1. /\ s \o t \in Pieces(T) /\ Len(s \o t) = Len(s) + Len(t)
      /\ \A i \in 1..(Len(s) + Len(t)) :
           (s \o t)[i] = IF i <= Len(s) THEN s[i] ELSE t[i - Len(s)]
  BY ConcatProperties DEF Pieces
<1> QED
  BY <1>1 DEF PieceOf

\* A piece remains one when the stream grows.
LEMMA PieceGrows ==
  ASSUME NEW T, NEW s \in Pieces(T), NEW h \in Pieces(T), NEW p \in Pieces(T), NEW k \in Nat,
         PieceOf(s, h, k)
  PROVE  PieceOf(s, h \o p, k)
<1>1. /\ h \o p \in Pieces(T) /\ Len(h \o p) = Len(h) + Len(p)
      /\ \A i \in 1..(Len(h) + Len(p)) :
           (h \o p)[i] = IF i <= Len(h) THEN h[i] ELSE p[i - Len(h)]
  BY ConcatProperties DEF Pieces
<1> QED
  BY <1>1 DEF PieceOf

\* What ack does: it moves the start of the buffer to a line start no later than the
\* acknowledged offset and keeps the bytes after it.
LEMMA AckFacts ==
  ASSUME NEW T, NEW o \in Outboxes(T), NEW h \in Pieces(T), PieceOf(o.buf, h, o.base),
         o.base + Len(o.buf) = Len(h), NEW off \in Nat
  PROVE  LET r == Ack(o, off) IN
         /\ r \in Outboxes(T) /\ r.eof = o.eof
         /\ r.base + Len(r.buf) = Len(h) /\ PieceOf(r.buf, h, r.base)
         /\ o.base <= r.base
         /\ r.base = o.base \/ (r.base <= off /\ h[r.base].nl)
         /\ off <= o.sent => r.sent = o.sent
<1>1. CASE off <= o.base \/ off > OutEnd(o)
  BY <1>1 DEF Ack, Outboxes
<1>2. CASE ~(off <= o.base \/ off > OutEnd(o))
  <2>1. o.buf \in Pieces(T) /\ o.base \in Nat /\ o.sent \in Nat /\ o.eof \in BOOLEAN
    BY DEF Outboxes, Pieces
  <2>2. off - o.base \in Nat /\ off - o.base <= Len(o.buf) /\ off - o.base > 0
    BY <1>2, <2>1 DEF OutEnd
  <2>3. PICK cut, rest :
           /\ cut = 0 \/ cut \in LineCut(o.buf, off - o.base)
           /\ rest = SubSeq(o.buf, cut + 1, Len(o.buf))
           /\ Ack(o, off) = [base |-> o.base + cut, buf |-> rest,
                             sent |-> IF o.sent < off THEN off ELSE o.sent,
                             eof |-> o.eof]
    <3>1. CASE LineCut(o.buf, off - o.base) = {}
      BY <1>2, <3>1 DEF Ack
    <3>2. CASE LineCut(o.buf, off - o.base) # {}
      <4>1. (CHOOSE c \in LineCut(o.buf, off - o.base) : TRUE) \in LineCut(o.buf, off - o.base)
        BY <3>2
      <4> QED
        BY <1>2, <3>2, <4>1 DEF Ack
    <3> QED
      BY <3>1, <3>2
  <2>4. cut \in Nat /\ cut <= off - o.base
        /\ (cut = 0 \/ (cut \in 1..Len(o.buf) /\ o.buf[cut].nl))
    BY <2>2, <2>3 DEF LineCut
  <2>5. rest \in Pieces(T) /\ Len(rest) = Len(o.buf) - cut /\ PieceOf(rest, h, o.base + cut)
    <3>1. cut \in Nat /\ Len(o.buf) \in Nat /\ cut <= Len(o.buf)
      BY <2>1, <2>2, <2>4, LenProperties DEF Pieces
    <3>2. /\ SubSeq(o.buf, cut + 1, Len(o.buf)) \in Pieces(T)
          /\ Len(SubSeq(o.buf, cut + 1, Len(o.buf))) = Len(o.buf) - cut
          /\ PieceOf(SubSeq(o.buf, cut + 1, Len(o.buf)), h, o.base + cut)
      BY <2>1, <3>1, PiecePart
    <3>3. rest = SubSeq(o.buf, cut + 1, Len(o.buf))
      BY <2>3
    <3> QED
      BY <3>2, <3>3
  <2>6. /\ Ack(o, off).base = o.base + cut /\ Ack(o, off).buf = rest
        /\ Ack(o, off).sent = IF o.sent < off THEN off ELSE o.sent
        /\ Ack(o, off).eof = o.eof
    <3>1. Ack(o, off) = [base |-> o.base + cut, buf |-> rest,
                         sent |-> IF o.sent < off THEN off ELSE o.sent, eof |-> o.eof]
      BY <2>3, Zenon
    <3> QED
      BY <3>1
  <2>7. Ack(o, off) \in Outboxes(T) /\ Ack(o, off).eof = o.eof
    BY <2>3, <2>4, <2>1, <2>5 DEF Outboxes, Pieces
  <2>8. /\ Ack(o, off).base + Len(Ack(o, off).buf) = Len(h)
        /\ PieceOf(Ack(o, off).buf, h, Ack(o, off).base)
    BY <2>1, <2>4, <2>5, <2>6
  <2>9. /\ o.base <= Ack(o, off).base /\ Ack(o, off).base <= off
        /\ off <= o.sent => Ack(o, off).sent = o.sent
    BY <2>1, <2>2, <2>3, <2>4
  <2>10. Ack(o, off).base = o.base \/ h[Ack(o, off).base].nl
    <3>1. CASE cut = 0
      BY <3>1, <2>1, <2>3
    <3>2. CASE cut # 0
      <4>1. o.buf[cut] = h[o.base + cut] /\ o.buf[cut].nl
        BY <3>2, <2>4 DEF PieceOf
      <4> QED
        BY <4>1, <2>3
    <3> QED
      BY <3>1, <3>2
  <2> QED
    BY <2>7, <2>8, <2>9, <2>10
<1> QED
  BY <1>1, <1>2

\* Write appends to the buffer and changes nothing else.
LEMMA WriteFacts ==
  ASSUME NEW T, NEW o \in Outboxes(T), NEW p \in Pieces(T)
  PROVE  LET r == WriteOut(o, p) IN
         /\ r \in Outboxes(T) /\ r.buf = o.buf \o p
         /\ r.base = o.base /\ r.sent = o.sent /\ r.eof = o.eof
<1>1. o.buf \o p \in Pieces(T)
  BY ConcatProperties DEF Outboxes, Pieces
<1> QED
  BY <1>1 DEF WriteOut, Outboxes

\* next hands out the piece that begins at the send offset, which moves past it.
LEMMA TakeFacts ==
  ASSUME NEW T, NEW o \in Outboxes(T), NEW h \in Pieces(T), PieceOf(o.buf, h, o.base),
         o.base + Len(o.buf) = Len(h), o.base <= o.sent, o.sent <= Len(h),
         NEW max \in Nat \ {0}, ChunkLen(o, max) > 0
  PROVE  LET c == NextChunk(o, max)
             r == MarkSent(o, max)
         IN /\ c \in Pieces(T) /\ Len(c) > 0 /\ PieceOf(c, h, o.sent)
            /\ r \in Outboxes(T) /\ r.base = o.base /\ r.buf = o.buf /\ r.eof = o.eof
            /\ r.sent = o.sent + Len(c) /\ r.sent <= Len(h)
<1>1. o.base \in Nat /\ o.sent \in Nat /\ o.buf \in Pieces(T) /\ Len(o.buf) \in Nat
  BY LenProperties DEF Outboxes, Pieces
<1>2. PICK n \in Nat : n = ChunkLen(o, max)
  BY <1>1 DEF ChunkLen, OutEnd
<1>3. PICK a \in Nat : a = o.sent - o.base
  BY <1>1
<1>4. n > 0 /\ a + n <= Len(o.buf) /\ o.base + a = o.sent
  <2>1. n <= OutEnd(o) - o.sent /\ OutEnd(o) = o.base + Len(o.buf)
    BY <1>1, <1>2 DEF ChunkLen, OutEnd
  <2>2. n > 0 /\ o.base + a = o.sent
    BY <1>1, <1>2, <1>3
  <2> QED
    BY <1>1, <2>1, <2>2
<1>5. /\ SubSeq(o.buf, a + 1, a + n) \in Pieces(T)
      /\ Len(SubSeq(o.buf, a + 1, a + n)) = (a + n) - a
      /\ PieceOf(SubSeq(o.buf, a + 1, a + n), h, o.base + a)
  <2>1. a + n \in Nat /\ a <= a + n
    OBVIOUS
  <2> QED
    BY <1>1, <1>4, <2>1, PiecePart
<1>6. NextChunk(o, max) = SubSeq(o.buf, a + 1, a + n)
  BY <1>2, <1>3 DEF NextChunk
<1>7. NextChunk(o, max) \in Pieces(T) /\ Len(NextChunk(o, max)) = n
      /\ PieceOf(NextChunk(o, max), h, o.sent)
  <2>1. (a + n) - a = n
    OBVIOUS
  <2> QED
    BY <1>4, <1>5, <1>6, <2>1
<1>8. MarkSent(o, max) = [o EXCEPT !.sent = o.sent + n]
  BY <1>2 DEF MarkSent
<1>9. o.sent + n \in Nat /\ o.sent + n <= Len(h)
  <2>1. o.base + (a + n) <= o.base + Len(o.buf) /\ o.base + (a + n) = o.sent + n
    BY <1>1, <1>4
  <2> QED
    BY <1>1, <2>1
<1> QED
  BY <1>1, <1>4, <1>7, <1>8, <1>9 DEF Outboxes

\* unsend only moves the send offset, and only back inside the buffer.
LEMMA UnsendFacts ==
  ASSUME NEW T, NEW o \in Outboxes(T), NEW off \in Nat
  PROVE  LET r == Unsend(o, off) IN
         /\ r \in Outboxes(T) /\ r.base = o.base /\ r.buf = o.buf /\ r.eof = o.eof
         /\ r.sent = IF off >= o.base /\ off < o.sent THEN off ELSE o.sent
BY DEF Unsend, Outboxes

\* rewind acknowledges its offset and resumes there.
LEMMA RewindFacts ==
  ASSUME NEW T, NEW o \in Outboxes(T), NEW h \in Pieces(T), PieceOf(o.buf, h, o.base),
         o.base + Len(o.buf) = Len(h), NEW off \in Nat, CanRewind(o, off)
  PROVE  LET r == Rewind(o, off) IN
         /\ r \in Outboxes(T) /\ r.eof = o.eof /\ r.sent = off
         /\ r.base + Len(r.buf) = Len(h) /\ PieceOf(r.buf, h, r.base)
         /\ o.base <= r.base /\ r.base <= off
         /\ r.base = o.base \/ h[r.base].nl
<1> DEFINE a == Ack(o, off)
<1>1. /\ a \in Outboxes(T) /\ a.eof = o.eof
      /\ a.base + Len(a.buf) = Len(h) /\ PieceOf(a.buf, h, a.base)
      /\ o.base <= a.base
      /\ a.base = o.base \/ (a.base <= off /\ h[a.base].nl)
  BY AckFacts
<1>2. o.base <= off
  BY DEF CanRewind
<1>3. Rewind(o, off) = [a EXCEPT !.sent = off]
  BY DEF Rewind
<1> HIDE DEF a
<1> QED
  BY <1>1, <1>2, <1>3 DEF Outboxes

\* A non-empty frame that continues the inbuf is appended to it whole, unless the reader was
\* told that the stream is over: then it is only counted.
LEMMA ReceiveFacts ==
  ASSUME NEW T, \A x \in T : x.nl \in BOOLEAN,
         NEW b \in Inbufs(T), NEW h \in Pieces(T), NEW p \in Pieces(T),
         b.consumed + Len(b.buf) <= b.next, ~b.eof => b.consumed + Len(b.buf) = b.next,
         PieceOf(b.buf, h, b.consumed), Len(p) > 0, PieceOf(p, h, b.next)
  PROVE  LET r == Receive(b, b.next, p) IN
         /\ r \in Inbufs(T) /\ r.eof = b.eof /\ r.consumed = b.consumed
         /\ r.next = b.next + Len(p) /\ r.lineEnd = p[Len(p)].nl
         /\ r.buf = IF b.eof THEN b.buf ELSE b.buf \o p
         /\ r.consumed + Len(r.buf) <= r.next
         /\ ~r.eof => r.consumed + Len(r.buf) = r.next
         /\ PieceOf(r.buf, h, r.consumed)
<1>1. b.next \in Nat /\ b.consumed \in Nat /\ b.buf \in Pieces(T) /\ Len(b.buf) \in Nat
      /\ Len(p) \in Nat
  BY LenProperties DEF Inbufs, Pieces
<1>2. b.next - b.next = 0 /\ ~(0 >= Len(p)) /\ Len(p) - 0 = Len(p)
  BY <1>1
<1>3. PICK q : q = IF b.eof THEN b.buf ELSE b.buf \o p
  OBVIOUS
<1>4. /\ q \in Pieces(T) /\ PieceOf(q, h, b.consumed)
      /\ Len(q) = IF b.eof THEN Len(b.buf) ELSE Len(b.buf) + Len(p)
  <2>1. CASE b.eof
    BY <1>1, <1>3, <2>1
  <2>2. CASE ~b.eof
    BY <1>1, <1>3, <2>2, PieceJoin
  <2> QED
    BY <2>1, <2>2
<1>5. SubSeq(p, 0 + 1, Len(p)) = p
  BY SubSeqFull DEF Pieces
<1>6. PICK l \in BOOLEAN : l = p[Len(p)].nl
  <2>1. p[Len(p)] \in T
    BY <1>1, ElementOfSeq DEF Pieces
  <2> QED
    BY <2>1
<1>7. Receive(b, b.next, p) = [b EXCEPT !.buf = q, !.next = b.next + Len(p), !.lineEnd = l]
  BY <1>2, <1>3, <1>5, <1>6 DEF Receive
<1>8. PICK r : r = Receive(b, b.next, p)
  OBVIOUS
<1>9. /\ r \in Inbufs(T) /\ r.eof = b.eof /\ r.consumed = b.consumed
      /\ r.next = b.next + Len(p) /\ r.lineEnd = l /\ r.buf = q
  <2>1. q \in Pieces(T) /\ b.next + Len(p) \in Nat
    BY <1>1, <1>4
  <2> QED
    BY <1>7, <1>8, <2>1 DEF Inbufs
<1>10. r.consumed + Len(r.buf) <= r.next /\ (~r.eof => r.consumed + Len(r.buf) = r.next)
  <2>1. Len(r.buf) \in Nat /\ r.next \in Nat /\ b.eof \in BOOLEAN
    BY <1>1, <1>4, <1>9 DEF Inbufs
  <2>2. CASE b.eof
    BY <1>1, <1>4, <1>9, <2>1, <2>2
  <2>3. CASE ~b.eof
    <3>1. Len(r.buf) = Len(b.buf) + Len(p)
      BY <1>4, <1>9, <2>3
    <3>2. b.consumed + Len(b.buf) = b.next
      BY <2>3
    <3>3. r.consumed = b.consumed /\ r.next = b.next + Len(p)
      BY <1>9
    <3> QED
      BY <1>1, <3>1, <3>2, <3>3
  <2> QED
    BY <2>1, <2>2, <2>3
<1> QED
  BY <1>3, <1>4, <1>6, <1>8, <1>9, <1>10

\* A read takes the first n bytes.
LEMMA ReadFacts ==
  ASSUME NEW T, NEW b \in Inbufs(T), NEW h \in Pieces(T),
         b.consumed + Len(b.buf) = b.next, PieceOf(b.buf, h, b.consumed),
         NEW n \in Nat, n <= Len(b.buf)
  PROVE  LET r == ReadIn(b, n) IN
         /\ r \in Inbufs(T) /\ r.eof = b.eof /\ r.next = b.next
         /\ r.consumed = b.consumed + n /\ r.consumed + Len(r.buf) = r.next
         /\ PieceOf(r.buf, h, r.consumed)
<1>1. b.next \in Nat /\ b.consumed \in Nat /\ b.buf \in Pieces(T) /\ Len(b.buf) \in Nat
  BY LenProperties DEF Inbufs, Pieces
<1>2. PICK q : q = SubSeq(b.buf, n + 1, Len(b.buf))
  OBVIOUS
<1>3. q \in Pieces(T) /\ Len(q) = Len(b.buf) - n /\ PieceOf(q, h, b.consumed + n)
  BY <1>1, <1>2, PiecePart
<1>4. ReadIn(b, n) = [b EXCEPT !.buf = q, !.consumed = b.consumed + n]
  BY <1>2 DEF ReadIn
<1>5. LET r == ReadIn(b, n) IN
      /\ r \in Inbufs(T) /\ r.eof = b.eof /\ r.next = b.next
      /\ r.consumed = b.consumed + n /\ r.buf = q
  <2>1. q \in Pieces(T) /\ b.consumed + n \in Nat
    BY <1>1, <1>3
  <2> QED
    BY <1>4, <2>1 DEF Inbufs
<1> QED
  BY <1>1, <1>3, <1>5

-----------------------------------------------------------------------------
(* What the variables are *)

\* The send point is the frame in hand, if there is one, else the send offset.
LEMMA SendPointFacts ==
  ASSUME TypeOK, OutInv, HandInv
  PROVE  /\ SendPoint \in Nat /\ out.base <= SendPoint /\ SendPoint <= out.sent
         /\ hand = {} => SendPoint = out.sent
         /\ \A f \in hand : hand = {f} /\ SendPoint = f.off
<1>1. out.sent \in Nat /\ out.base \in Nat /\ out.base <= out.sent
  BY DEF TypeOK, AgentTypeOK, Outboxes, OutInv
<1>2. CASE hand = {}
  BY <1>1, <1>2 DEF SendPoint
<1>3. ASSUME NEW f \in hand
      PROVE  /\ SendPoint \in Nat /\ out.base <= SendPoint /\ SendPoint <= out.sent
             /\ hand = {f} /\ SendPoint = f.off
  <2>1. hand = {f}
    BY DEF TypeOK, AgentTypeOK, AtMostOne
  <2>2. (CHOOSE g \in hand : TRUE) = f
    BY <2>1
  <2>3. SendPoint = f.off
    BY <2>1, <2>2 DEF SendPoint
  <2>4. f.off \in Nat /\ f.data \in Pieces(Bytes)
    BY DEF TypeOK, AgentTypeOK, Frames
  <2>5. f.off + Len(f.data) = out.sent /\ out.base <= f.off
    BY DEF HandInv
  <2> QED
    BY <1>1, <2>1, <2>3, <2>4, <2>5, LenProperties DEF Pieces
<1> QED
  BY <1>2, <1>3

\* The shape of what is in flight.
LEMMA WireFacts ==
  ASSUME TypeOK
  PROVE  /\ \A i \in 1..Len(toSrv) :
              /\ toSrv[i].type \in {"data", "exit"} /\ toSrv[i].off \in Nat
              /\ toSrv[i].data \in Pieces(Bytes) /\ Len(toSrv[i].data) \in Nat
         /\ \A i \in 1..Len(toAgent) :
              toAgent[i].type \in {"ack", "forget"} /\ toAgent[i].off \in Nat
         /\ Len(toSrv) \in Nat /\ Len(toAgent) \in Nat /\ inb.next \in Nat
         /\ inb.consumed \in Nat /\ Len(hist) \in Nat /\ WireEnd \in Nat
<1>1. /\ toSrv \in Seq(UpMsgs) /\ toAgent \in Seq(DownMsgs) /\ inb \in Inbufs(Bytes)
      /\ hist \in Pieces(Bytes)
  BY DEF TypeOK, AgentTypeOK, WireTypeOK, ServerTypeOK
<1>2. /\ Len(toSrv) \in Nat /\ Len(toAgent) \in Nat /\ inb.next \in Nat
      /\ inb.consumed \in Nat /\ Len(hist) \in Nat
  BY <1>1, LenProperties DEF Inbufs, Pieces
<1>3. ASSUME NEW i \in 1..Len(toSrv)
      PROVE  /\ toSrv[i].type \in {"data", "exit"} /\ toSrv[i].off \in Nat
             /\ toSrv[i].data \in Pieces(Bytes) /\ Len(toSrv[i].data) \in Nat
  <2>1. toSrv[i] \in UpMsgs
    BY <1>1, ElementOfSeq
  <2>2. /\ toSrv[i].type \in {"data", "exit"} /\ toSrv[i].off \in Nat
        /\ toSrv[i].data \in Pieces(Bytes)
    BY <2>1 DEF UpMsgs
  <2> QED
    BY <2>2, LenProperties DEF Pieces
<1>4. ASSUME NEW i \in 1..Len(toAgent)
      PROVE  toAgent[i].type \in {"ack", "forget"} /\ toAgent[i].off \in Nat
  <2>1. toAgent[i] \in DownMsgs
    BY <1>1, ElementOfSeq
  <2> QED
    BY <2>1 DEF DownMsgs
<1>5. WireEnd \in Nat
  <2>1. CASE toSrv = <<>>
    BY <1>2, <2>1 DEF WireEnd
  <2>2. CASE toSrv # <<>>
    <3>1. Len(toSrv) \in 1..Len(toSrv)
      BY <1>1, <2>2, EmptySeq, LenProperties
    <3> QED
      BY <1>3, <2>2, <3>1 DEF WireEnd
  <2> QED
    BY <2>1, <2>2
<1> QED
  BY <1>2, <1>3, <1>4, <1>5

\* Everything in flight lies between the end of the inbuf and WireEnd.
LEMMA WireSpan ==
  ASSUME TypeOK, ChainInv, server = "ready", hd # "none"
  PROVE  /\ inb.next <= WireEnd
         /\ \A i \in 1..Len(toSrv) : toSrv[i].off + Len(toSrv[i].data) <= WireEnd
<1>1. toSrv = <<>> \/ Len(toSrv) \in 1..Len(toSrv)
  BY EmptySeq, LenProperties DEF TypeOK, WireTypeOK
<1>2. CASE toSrv = <<>>
  BY <1>2, WireFacts DEF WireEnd
<1>3. CASE toSrv # <<>> /\ Len(toSrv) \in 1..Len(toSrv)
  <2> DEFINE l == Len(toSrv)
  <2>1. WireEnd = toSrv[l].off + Len(toSrv[l].data)
    BY <1>3 DEF WireEnd
  <2>2. toSrv[l].off \in Nat /\ Len(toSrv[l].data) \in Nat
    BY <1>3, WireFacts
  <2>3. ASSUME NEW i \in 1..l
        PROVE  toSrv[i].off + Len(toSrv[i].data) <= WireEnd
    <3>1. toSrv[i].off \in Nat /\ Len(toSrv[i].data) \in Nat
      BY WireFacts
    <3>2. CASE i = l
      BY <2>1, <2>2, <3>2
    <3>3. CASE i < l
      <4>1. toSrv[i].off + Len(toSrv[i].data) <= toSrv[l].off
        BY <1>3, <3>3 DEF ChainInv
      <4> QED
        BY <2>1, <2>2, <3>1, <4>1
    <3> QED
      BY <1>3, <3>2, <3>3
  <2>4. 1 \in 1..l /\ toSrv[1].off = inb.next
    BY <1>3 DEF ChainInv
  <2> QED
    BY <2>3, <2>4, WireFacts
<1> QED
  BY <1>1, <1>2, <1>3

-----------------------------------------------------------------------------
(* The chain of frames in flight *)

\* A message that continues what is in flight extends the chain.
LEMMA ChainExtends ==
  ASSUME TypeOK, ChainInv, server = "ready", hd # "none",
         UNCHANGED <<hist, proc, server, hd, inb>>,
         NEW m \in UpMsgs, toSrv' = Append(toSrv, m),
         m.off = WireEnd, Piece(m.data, m.off),
         m.type = "data" => Len(m.data) > 0,
         m.type = "exit" => m.data = <<>> /\ m.off = Len(hist) /\ proc = "exited"
  PROVE  ChainInv' /\ WireEnd' = m.off + Len(m.data)
<1> DEFINE l == Len(toSrv)
<1>1. toSrv \in Seq(UpMsgs) /\ l \in Nat
  BY LenProperties DEF TypeOK, WireTypeOK
<1>2. /\ toSrv' \in Seq(UpMsgs) /\ Len(toSrv') = l + 1
      /\ \A i \in 1..l : toSrv'[i] = toSrv[i]
      /\ toSrv'[l + 1] = m
  BY <1>1, AppendProperties
<1>3. m.off = IF l = 0 THEN inb.next ELSE toSrv[l].off + Len(toSrv[l].data)
  BY <1>1, EmptySeq DEF WireEnd
<1>4. ASSUME NEW i \in 1..(l + 1)
      PROVE  /\ toSrv'[i].off = IF i = 1 THEN inb.next
                                ELSE toSrv'[i - 1].off + Len(toSrv'[i - 1].data)
             /\ Piece(toSrv'[i].data, toSrv'[i].off)
             /\ toSrv'[i].type = "data" => Len(toSrv'[i].data) > 0
             /\ toSrv'[i].type = "exit" =>
                  toSrv'[i].data = <<>> /\ toSrv'[i].off = Len(hist) /\ proc = "exited"
  <2>1. CASE i = l + 1
    <3>1. toSrv'[i] = m /\ (i # 1 => toSrv'[i - 1] = toSrv[l])
      BY <1>1, <1>2, <2>1
    <3> QED
      BY <1>1, <1>3, <2>1, <3>1
  <2>2. CASE i # l + 1
    <3>1. i \in 1..l
      BY <1>1, <2>2
    <3>2. toSrv'[i] = toSrv[i] /\ (i # 1 => toSrv'[i - 1] = toSrv[i - 1])
      BY <1>1, <1>2, <3>1
    <3> QED
      BY <3>1, <3>2 DEF ChainInv
  <2> QED
    BY <2>1, <2>2
<1>5. ASSUME NEW i \in 1..(l + 1), NEW j \in 1..(l + 1), i < j
      PROVE  toSrv'[i].off + Len(toSrv'[i].data) <= toSrv'[j].off
  <2>1. i \in 1..l /\ toSrv'[i] = toSrv[i]
    BY <1>1, <1>2, <1>5
  <2>2. CASE j = l + 1
    BY <1>2, <2>1, <2>2, WireSpan
  <2>3. CASE j # l + 1
    <3>1. j \in 1..l /\ toSrv'[j] = toSrv[j]
      BY <1>1, <1>2, <2>3
    <3> QED
      BY <1>5, <2>1, <3>1 DEF ChainInv
  <2> QED
    BY <2>2, <2>3
<1>6. ChainInv'
  BY <1>2, <1>4, <1>5 DEF ChainInv, Piece
<1>7. WireEnd' = m.off + Len(m.data)
  <2>1. toSrv' # <<>> /\ toSrv'[Len(toSrv')] = m
    BY <1>1, <1>2, EmptySeq
  <2> QED
    BY <2>1 DEF WireEnd
<1> QED
  BY <1>6, <1>7

\* When the inbuf takes the first message, the rest continues it.
LEMMA ChainShifts ==
  ASSUME TypeOK, ChainInv, server = "ready", hd # "none", toSrv # <<>>,
         UNCHANGED <<hist, proc, server, hd>>, toSrv' = Tail(toSrv),
         inb'.next = toSrv[1].off + Len(toSrv[1].data)
  PROVE  ChainInv' /\ WireEnd' = WireEnd
<1> DEFINE l == Len(toSrv)
<1>1. toSrv \in Seq(UpMsgs) /\ l \in Nat /\ l # 0
  BY LenProperties, EmptySeq DEF TypeOK, WireTypeOK
<1>2. /\ toSrv' \in Seq(UpMsgs) /\ Len(toSrv') = l - 1
      /\ \A i \in 1..(l - 1) : toSrv'[i] = toSrv[i + 1]
  BY <1>1, HeadTailProperties
<1>3. ASSUME NEW i \in 1..(l - 1)
      PROVE  /\ toSrv'[i].off = IF i = 1 THEN inb'.next
                                ELSE toSrv'[i - 1].off + Len(toSrv'[i - 1].data)
             /\ Piece(toSrv'[i].data, toSrv'[i].off)
             /\ toSrv'[i].type = "data" => Len(toSrv'[i].data) > 0
             /\ toSrv'[i].type = "exit" =>
                  toSrv'[i].data = <<>> /\ toSrv'[i].off = Len(hist) /\ proc = "exited"
  <2>1. i + 1 \in 1..l /\ toSrv'[i] = toSrv[i + 1] /\ (i + 1) - 1 = i /\ i + 1 # 1
    BY <1>1, <1>2
  <2>2. i # 1 => toSrv'[i - 1] = toSrv[i]
    BY <1>1, <1>2
  <2>3. /\ toSrv[i + 1].off = toSrv[i].off + Len(toSrv[i].data)
        /\ Piece(toSrv[i + 1].data, toSrv[i + 1].off)
        /\ toSrv[i + 1].type = "data" => Len(toSrv[i + 1].data) > 0
        /\ toSrv[i + 1].type = "exit" =>
             /\ toSrv[i + 1].data = <<>> /\ toSrv[i + 1].off = Len(hist)
             /\ proc = "exited"
    BY <2>1 DEF ChainInv
  <2>4. toSrv'[i].off = IF i = 1 THEN inb'.next
                        ELSE toSrv'[i - 1].off + Len(toSrv'[i - 1].data)
    BY <2>1, <2>2, <2>3
  <2> QED
    BY <2>1, <2>3, <2>4
<1>4. ASSUME NEW i \in 1..(l - 1), NEW j \in 1..(l - 1), i < j
      PROVE  toSrv'[i].off + Len(toSrv'[i].data) <= toSrv'[j].off
  <2>1. /\ i + 1 \in 1..l /\ toSrv'[i] = toSrv[i + 1]
        /\ j + 1 \in 1..l /\ toSrv'[j] = toSrv[j + 1] /\ i + 1 < j + 1
    BY <1>1, <1>2, <1>4
  <2> QED
    BY <2>1 DEF ChainInv
<1>5. ChainInv'
  BY <1>2, <1>3, <1>4 DEF ChainInv, Piece
<1>6. PICK k \in Nat : k + 1 = l
  <2>1. l - 1 \in Nat /\ (l - 1) + 1 = l
    BY <1>1
  <2> QED
    BY <2>1
<1>7. Len(toSrv') = k
  <2>1. l - 1 = k
    BY <1>1, <1>6
  <2>2. Len(toSrv') = l - 1
    BY <1>2
  <2> QED
    BY <2>1, <2>2
<1>8. WireEnd = toSrv[k + 1].off + Len(toSrv[k + 1].data)
  BY <1>6 DEF WireEnd
<1>9. WireEnd' = WireEnd
  <2>1. CASE k = 0
    <3>1. toSrv' = <<>>
      BY <1>2, <1>7, <2>1, EmptySeq
    <3> QED
      BY <1>8, <2>1, <3>1 DEF WireEnd
  <2>2. CASE k # 0
    <3>1. k \in 1..k /\ k \in 1..(l - 1)
      BY <1>2, <1>7, <2>2
    <3>2. toSrv'[k] = toSrv[k + 1]
      BY <1>2, <3>1
    <3>3. toSrv' # <<>>
      BY <1>7, <2>2, EmptySeq
    <3> QED
      BY <1>7, <1>8, <3>2, <3>3 DEF WireEnd
  <2> QED
    BY <2>1, <2>2
<1> QED
  BY <1>5, <1>9

-----------------------------------------------------------------------------
(* The agent *)

\* The pump's write appends the same bytes to the stream and to the outbox.
LEMMA PumpWrite_Step ==
  ASSUME ConstantsAssumption, IInv,
         NEW n \in 1..MaxRead, NEW nl \in SUBSET (1..n), PumpWrite(n, nl)
  PROVE  IInv'
<1>0. /\ TypeOK /\ OutInv /\ InInv /\ HandInv /\ ConnInv /\ ChainInv /\ TipInv /\ AckInv
  BY DEF IInv
<1>1. /\ hist \in Pieces(Bytes) /\ out \in Outboxes(Bytes) /\ inb \in Inbufs(Bytes) /\ log \in Pieces(Bytes)
      /\ hand \subseteq Frames /\ start \in Nat /\ Len(hist) \in Nat
  BY <1>0, LenProperties DEF TypeOK, AgentTypeOK, ServerTypeOK, Pieces
<1>2. PICK p \in Pieces(Bytes) :
        /\ Len(p) = n /\ hist' = hist \o p /\ out' = WriteOut(out, p)
        /\ proc = "running" /\ due' = (due \/ agent = "on")
  <2> DEFINE q == [i \in 1..n |-> [pos |-> Len(hist) + i, nl |-> i \in nl]]
  <2>1. \A i \in 1..n : q[i] \in Bytes
    BY <1>1 DEF Bytes
  <2>2. q \in Pieces(Bytes) /\ Len(q) = n
    BY <2>1, IsASeq DEF Pieces
  <2> QED
    BY <2>2 DEF PumpWrite
<1>3. /\ hist' \in Pieces(Bytes) /\ Len(hist') = Len(hist) + n
      /\ \A i \in 1..Len(hist) : hist'[i] = hist[i]
      /\ \A i \in 1..n : hist'[Len(hist) + i] = p[i]
  <2>1. /\ hist \o p \in Pieces(Bytes) /\ Len(hist \o p) = Len(hist) + Len(p)
        /\ \A i \in 1..(Len(hist) + Len(p)) :
             (hist \o p)[i] = IF i <= Len(hist) THEN hist[i] ELSE p[i - Len(hist)]
    BY <1>1, ConcatProperties DEF Pieces
  <2>2. \A i \in 1..n : (Len(hist) + i) - Len(hist) = i /\ ~(Len(hist) + i <= Len(hist))
    BY <1>1
  <2> QED
    BY <1>1, <1>2, <2>1, <2>2
<1>4. /\ out' \in Outboxes(Bytes) /\ out'.buf = out.buf \o p
      /\ out'.base = out.base /\ out'.sent = out.sent /\ out'.eof = out.eof
  BY <1>1, <1>2, WriteFacts
<1>5. UNCHANGED <<proc, hand, stale, exitSent, gone, agent, hs, toSrv, toAgent, server,
                  hd, inb, notify, acks, start, log, eofSeen, drops, restarts>>
  BY DEF PumpWrite, wireVars, serverVars
<1>6. ASSUME NEW s \in Pieces(Bytes), NEW k \in Nat, PieceOf(s, hist, k)
      PROVE  PieceOf(s, hist', k)
  BY <1>1, <1>2, <1>6, PieceGrows
<1>7. TypeOK'
  BY <1>0, <1>2, <1>3, <1>4, <1>5 DEF TypeOK, AgentTypeOK, WireTypeOK, ServerTypeOK
<1>8. OutInv'
  <2>1. /\ out.base \in Nat /\ out.buf \in Pieces(Bytes) /\ out.base + Len(out.buf) = Len(hist)
        /\ PieceOf(out.buf, hist, out.base)
    BY <1>0, <1>1 DEF OutInv, Piece, Outboxes
  <2>2. PieceOf(out.buf, hist', out.base) /\ PieceOf(p, hist', out.base + Len(out.buf))
    <3>1. PieceOf(p, hist', Len(hist))
      BY <1>1, <1>2, <1>3 DEF PieceOf
    <3> QED
      BY <1>6, <2>1, <3>1
  <2>3. Len(out.buf \o p) = Len(out.buf) + n /\ PieceOf(out.buf \o p, hist', out.base)
    <3>1. /\ out.buf \in Pieces(Bytes) /\ p \in Pieces(Bytes) /\ hist' \in Pieces(Bytes)
          /\ out.base \in Nat /\ Len(p) = n
      BY <1>2, <1>3, <2>1
    <3>2. Len(out.buf \o p) = Len(out.buf) + Len(p) /\ PieceOf(out.buf \o p, hist', out.base)
      BY <2>2, <3>1, PieceJoin
    <3> QED
      BY <3>1, <3>2
  <2>4. out'.base + Len(out'.buf) = Len(hist') /\ PieceOf(out'.buf, hist', out'.base)
    <3>1. out.base + (Len(out.buf) + n) = Len(hist) + n
      <4>1. Len(out.buf) \in Nat /\ n \in Nat
        BY <2>1, LenProperties DEF Pieces, ConstantsAssumption
      <4> QED
        BY <1>1, <2>1, <4>1
    <3> QED
      BY <1>3, <1>4, <2>3, <3>1
  <2>5. out'.base <= out'.sent /\ out'.sent <= Len(hist') /\ (out'.eof <=> proc' = "exited")
    BY <1>0, <1>1, <1>2, <1>3, <1>4, <1>5 DEF OutInv, Outboxes
  <2>6. out'.base = 0 \/ hist'[out'.base].nl
    BY <1>0, <1>1, <1>3, <1>4 DEF OutInv, Outboxes
  <2> QED
    BY <2>4, <2>5, <2>6 DEF OutInv, Piece
<1>9. InInv'
  <2>1. /\ inb.consumed \in Nat /\ inb.buf \in Pieces(Bytes)
        /\ PieceOf(inb.buf, hist', inb.consumed) /\ PieceOf(log, hist', start)
    BY <1>0, <1>1, <1>6 DEF InInv, Piece, Inbufs
  <2>2. ~inb.eof
    BY <1>0, <1>2 DEF InInv
  <2> QED
    BY <1>0, <1>4, <1>5, <2>1, <2>2 DEF InInv, Piece
<1>10. HandInv'
  <2>1. ASSUME NEW f \in hand PROVE PieceOf(f.data, hist', f.off)
    BY <1>0, <1>1, <1>6 DEF HandInv, Piece, Frames
  <2> QED
    BY <1>0, <1>4, <1>5, <2>1 DEF HandInv, Piece
<1>11. ConnInv'
  <2>1. hs.type = "resume" => hs.off <= Len(hist')
    <3>1. hs.off \in Nat
      BY <1>0 DEF TypeOK, WireTypeOK, HsMsgs
    <3> QED
      BY <1>0, <1>1, <1>3, <3>1 DEF ConnInv
  <2> HIDE <1>3
  <2> QED
    BY <1>0, <1>2, <1>4, <1>5, <2>1 DEF ConnInv
<1>12. ChainInv'
  <2>1. ASSUME server = "ready", hd # "none", NEW i \in 1..Len(toSrv)
        PROVE  /\ toSrv[i].off = IF i = 1 THEN inb.next
                                 ELSE toSrv[i - 1].off + Len(toSrv[i - 1].data)
               /\ PieceOf(toSrv[i].data, hist', toSrv[i].off)
               /\ toSrv[i].type = "data" => Len(toSrv[i].data) > 0
               /\ toSrv[i].type # "exit"
    <3>1. PieceOf(toSrv[i].data, hist', toSrv[i].off)
      BY <1>0, <1>6, <2>1, WireFacts DEF ChainInv, Piece
    <3> QED
      BY <1>0, <1>2, <2>1, <3>1 DEF ChainInv
  <2>2. server = "ready" /\ hd # "none" =>
          \A i, j \in 1..Len(toSrv) :
            i < j => toSrv[i].off + Len(toSrv[i].data) <= toSrv[j].off
    BY <1>0 DEF ChainInv
  <2> QED
    BY <1>5, <2>1, <2>2 DEF ChainInv, Piece
<1>13. WireEnd' = WireEnd /\ SendPoint' = SendPoint
  BY <1>4, <1>5 DEF WireEnd, SendPoint
<1>14. TipInv' /\ AckInv'
  BY <1>0, <1>5, <1>13 DEF TipInv, AckInv
<1> QED
  BY <1>7, <1>8, <1>9, <1>10, <1>11, <1>12, <1>14 DEF IInv

\* A chunk taken from the outbox is a frame in hand: the send point stays where it was.
LEMMA FlushTake_Step ==
  ASSUME ConstantsAssumption, IInv, NEW live \in BOOLEAN, FlushTake(live)
  PROVE  IInv'
<1>0. /\ TypeOK /\ OutInv /\ InInv /\ HandInv /\ ConnInv /\ ChainInv /\ TipInv /\ AckInv
  BY DEF IInv
<1>1. /\ hist \in Pieces(Bytes) /\ out \in Outboxes(Bytes) /\ MaxChunk \in Nat \ {0} /\ hand = {}
      /\ ~gone /\ (live => agent = "on")
      /\ ChunkLen(out, MaxChunk) > 0 /\ out' = MarkSent(out, MaxChunk)
      /\ hand' = {[off |-> out.sent, data |-> NextChunk(out, MaxChunk), live |-> live]}
  BY <1>0 DEF TypeOK, AgentTypeOK, ConstantsAssumption, FlushTake
<1>2. UNCHANGED <<hist, proc, due, stale, exitSent, gone, agent, hs, toSrv, toAgent, server,
                  hd, inb, notify, acks, start, log, eofSeen, drops, restarts>>
  BY DEF FlushTake, wireVars, serverVars
<1>3. /\ PieceOf(out.buf, hist, out.base) /\ out.base + Len(out.buf) = Len(hist)
      /\ out.base <= out.sent /\ out.sent <= Len(hist)
      /\ out.sent \in Nat /\ out.base \in Nat /\ Len(hist) \in Nat
  BY <1>0, <1>1, LenProperties DEF OutInv, Piece, Outboxes, Pieces
<1>4. PICK c \in Pieces(Bytes) :
        /\ c = NextChunk(out, MaxChunk)
        /\ Len(c) > 0 /\ PieceOf(c, hist, out.sent)
        /\ out' \in Outboxes(Bytes) /\ out'.base = out.base /\ out'.buf = out.buf
        /\ out'.eof = out.eof /\ out'.sent = out.sent + Len(c) /\ out'.sent <= Len(hist)
  BY <1>1, <1>3, TakeFacts
<1>5. PICK f : f = [off |-> out.sent, data |-> c, live |-> live]
  OBVIOUS
<1>6. hand' = {f}
  BY <1>1, <1>4, <1>5
<1>7. f \in Frames /\ f.off = out.sent /\ f.data = c /\ f.live = live
  BY <1>3, <1>5 DEF Frames
<1>8. TypeOK'
  <2>1. hand' \in SUBSET Frames /\ AtMostOne(hand')
    BY <1>6, <1>7 DEF AtMostOne
  <2> QED
    BY <1>0, <1>2, <1>4, <2>1 DEF TypeOK, AgentTypeOK, WireTypeOK, ServerTypeOK
<1>9. OutInv'
  <2>1. out'.base <= out'.sent
    BY <1>3, <1>4, LenProperties DEF Pieces
  <2> QED
    BY <1>0, <1>2, <1>4, <2>1 DEF OutInv, Piece
<1>10. InInv' /\ ConnInv' /\ ChainInv'
  BY <1>0, <1>2, <1>4 DEF InInv, ConnInv, ChainInv, Piece
<1>11. HandInv'
  BY <1>0, <1>1, <1>2, <1>3, <1>4, <1>6, <1>7 DEF HandInv, Piece
<1>12. SendPoint = out.sent
  BY <1>1 DEF SendPoint
<1>13. SendPoint' = out.sent
  <2>1. (CHOOSE g \in {f} : TRUE) = f
    OBVIOUS
  <2> QED
    BY <1>6, <1>7, <2>1 DEF SendPoint
<1>14. WireEnd' = WireEnd
  BY <1>2 DEF WireEnd
<1>15. TipInv' /\ AckInv'
  BY <1>0, <1>1, <1>2, <1>12, <1>13, <1>14 DEF TipInv, AckInv
<1> QED
  BY <1>8, <1>9, <1>10, <1>11, <1>15 DEF IInv

\* A chunk that could not be sent is taken back, so the send point stays where it was.
LEMMA FlushFail_Step ==
  ASSUME IInv, FlushFail
  PROVE  IInv'
<1>0. /\ TypeOK /\ OutInv /\ InInv /\ HandInv /\ ConnInv /\ ChainInv /\ TipInv /\ AckInv
  BY DEF IInv
<1>1. PICK f \in hand : out' = Unsend(out, f.off) /\ ~f.live
  BY DEF FlushFail
<1>2. hand' = {} /\ stale' = FALSE
      /\ UNCHANGED <<hist, proc, due, exitSent, gone, agent, hs, toSrv, toAgent, server,
                     hd, inb, notify, acks, start, log, eofSeen, drops, restarts>>
  BY DEF FlushFail, wireVars, serverVars
<1>3. /\ f.off \in Nat /\ Len(f.data) \in Nat /\ Len(f.data) > 0
      /\ f.off + Len(f.data) = out.sent /\ out.base <= f.off /\ SendPoint = f.off
      /\ out \in Outboxes(Bytes) /\ out.sent \in Nat
  BY <1>0, SendPointFacts, LenProperties
     DEF TypeOK, AgentTypeOK, Frames, HandInv, Pieces, Outboxes
<1>4. /\ out' \in Outboxes(Bytes) /\ out'.base = out.base /\ out'.buf = out.buf
      /\ out'.eof = out.eof /\ out'.sent = f.off
  <2>1. f.off >= out.base /\ f.off < out.sent
    BY <1>0, <1>3 DEF TypeOK, AgentTypeOK, Outboxes
  <2> QED
    BY <1>1, <1>3, <2>1, UnsendFacts
<1>5. TypeOK'
  BY <1>0, <1>2, <1>4 DEF TypeOK, AgentTypeOK, WireTypeOK, ServerTypeOK, AtMostOne
<1>6. OutInv'
  <2>1. out'.sent <= Len(hist)
    BY <1>0, <1>3, <1>4, WireFacts DEF OutInv
  <2> QED
    BY <1>0, <1>2, <1>3, <1>4, <2>1 DEF OutInv, Piece
<1>7. InInv' /\ HandInv' /\ ConnInv' /\ ChainInv'
  BY <1>0, <1>2, <1>4 DEF InInv, HandInv, ConnInv, ChainInv, Piece
<1>8. SendPoint' = SendPoint /\ WireEnd' = WireEnd
  BY <1>2, <1>3, <1>4 DEF SendPoint, WireEnd
<1>9. TipInv' /\ AckInv'
  BY <1>0, <1>1, <1>2, <1>8 DEF TipInv, AckInv
<1> QED
  BY <1>5, <1>6, <1>7, <1>9 DEF IInv

\* A frame sent continues what is in flight.
LEMMA FlushSend_Step ==
  ASSUME IInv, FlushSend
  PROVE  IInv'
<1>0. /\ TypeOK /\ OutInv /\ InInv /\ HandInv /\ ConnInv /\ ChainInv /\ TipInv /\ AckInv
  BY DEF IInv
<1>1. PICK f \in hand : /\ f.live
                        /\ ToServer([type |-> "data", off |-> f.off, data |-> f.data])
  BY DEF FlushSend
<1>2. hand' = {}
      /\ UNCHANGED <<hist, proc, out, due, stale, exitSent, gone, agent, hs, toAgent, server,
                     hd, inb, notify, acks, start, log, eofSeen, drops, restarts>>
  BY DEF FlushSend, serverVars
<1>3. /\ f.off \in Nat /\ f.data \in Pieces(Bytes) /\ Len(f.data) \in Nat /\ Len(f.data) > 0
      /\ f.off + Len(f.data) = out.sent /\ Piece(f.data, f.off) /\ SendPoint = f.off
      /\ agent = "on"
  BY <1>0, <1>1, SendPointFacts, LenProperties
     DEF TypeOK, AgentTypeOK, Frames, HandInv, Pieces
<1>4. PICK m : /\ m = [type |-> "data", off |-> f.off, data |-> f.data]
               /\ toSrv' = IF server = "off" THEN toSrv ELSE Append(toSrv, m)
  BY <1>1 DEF ToServer
<1>5. m \in UpMsgs /\ m.type = "data" /\ m.off = f.off /\ m.data = f.data
  <2>1. m = [type |-> "data", off |-> f.off, data |-> f.data]
    BY <1>4, Zenon
  <2> QED
    BY <1>3, <2>1 DEF UpMsgs
<1>6. toSrv \in Seq(UpMsgs) /\ Len(toSrv) \in Nat
  BY <1>0, LenProperties DEF TypeOK, WireTypeOK
<1>7. server # "off" =>
        /\ toSrv' \in Seq(UpMsgs) /\ Len(toSrv') = Len(toSrv) + 1
        /\ \A i \in 1..Len(toSrv) : toSrv'[i] = toSrv[i]
        /\ toSrv'[Len(toSrv) + 1] = m
  BY <1>4, <1>5, <1>6, AppendProperties
<1>8. TypeOK'
  BY <1>0, <1>2, <1>4, <1>6, <1>7
     DEF TypeOK, AgentTypeOK, WireTypeOK, ServerTypeOK, AtMostOne
<1>9. OutInv' /\ InInv' /\ HandInv'
  BY <1>0, <1>2 DEF OutInv, InInv, HandInv, Piece
<1>10. ConnInv'
  BY <1>0, <1>2, <1>3, <1>4 DEF ConnInv
<1>11. SendPoint' = out.sent /\ SendPoint <= out.sent
  BY <1>0, <1>2, SendPointFacts DEF SendPoint
<1>12. AckInv'
  BY <1>0, <1>2, <1>11, SendPointFacts, WireFacts, <1>3 DEF AckInv
<1>13. CASE server = "off"
  BY <1>0, <1>2, <1>8, <1>9, <1>10, <1>12, <1>13 DEF IInv, ChainInv, TipInv
<1>14. CASE server # "off" /\ hd = "none"
  BY <1>0, <1>2, <1>8, <1>9, <1>10, <1>12, <1>14 DEF IInv, ChainInv, TipInv
<1>15. CASE server # "off" /\ hd # "none"
  <2>1. server = "ready" /\ WireEnd = f.off
    BY <1>0, <1>3, <1>15 DEF ConnInv, TipInv, TypeOK, ServerTypeOK
  <2>2. m.off = IF Len(toSrv) = 0 THEN inb.next
                ELSE toSrv[Len(toSrv)].off + Len(toSrv[Len(toSrv)].data)
    BY <1>5, <1>6, <2>1, EmptySeq DEF WireEnd
  <2>3. ChainInv'
    <3> DEFINE l == Len(toSrv)
    <3>1. ASSUME NEW i \in 1..(l + 1)
          PROVE  /\ toSrv'[i].off = IF i = 1 THEN inb.next
                                    ELSE toSrv'[i - 1].off + Len(toSrv'[i - 1].data)
                 /\ Piece(toSrv'[i].data, toSrv'[i].off)
                 /\ toSrv'[i].type = "data" => Len(toSrv'[i].data) > 0
                 /\ toSrv'[i].type = "exit" =>
                      /\ toSrv'[i].data = <<>> /\ toSrv'[i].off = Len(hist)
                      /\ proc = "exited"
      <4>1. CASE i = l + 1
        <5>1. toSrv'[i] = m /\ (i # 1 => toSrv'[i - 1] = toSrv[l])
          BY <1>6, <1>7, <1>15, <4>1
        <5> QED
          BY <1>3, <1>5, <1>6, <2>2, <4>1, <5>1
      <4>2. CASE i # l + 1
        <5>1. i \in 1..l
          BY <1>6, <4>2
        <5>2. toSrv'[i] = toSrv[i] /\ (i # 1 => toSrv'[i - 1] = toSrv[i - 1])
          BY <1>6, <1>7, <1>15, <5>1
        <5> QED
          BY <1>0, <1>15, <2>1, <5>1, <5>2 DEF ChainInv
      <4> QED
        BY <4>1, <4>2
    <3>2. ASSUME NEW i \in 1..(l + 1), NEW j \in 1..(l + 1), i < j
          PROVE  toSrv'[i].off + Len(toSrv'[i].data) <= toSrv'[j].off
      <4>1. i \in 1..l /\ toSrv'[i] = toSrv[i]
        BY <1>6, <1>7, <1>15, <3>2
      <4>2. CASE j = l + 1
        BY <1>0, <1>5, <1>7, <1>15, <2>1, <4>1, <4>2, WireSpan
      <4>3. CASE j # l + 1
        <5>1. j \in 1..l /\ toSrv'[j] = toSrv[j]
          BY <1>6, <1>7, <1>15, <4>3
        <5> QED
          BY <1>0, <1>15, <2>1, <3>2, <4>1, <5>1 DEF ChainInv
      <4> QED
        BY <4>2, <4>3
    <3> QED
      BY <1>2, <1>7, <1>15, <3>1, <3>2 DEF ChainInv, Piece
  <2>4. WireEnd' = out.sent
    <3>1. toSrv' # <<>> /\ toSrv'[Len(toSrv')] = m
      BY <1>6, <1>7, <1>15, EmptySeq
    <3> QED
      BY <1>3, <1>5, <3>1 DEF WireEnd
  <2>5. TipInv'
    BY <1>2, <1>11, <2>4 DEF TipInv
  <2> QED
    BY <1>8, <1>9, <1>10, <1>12, <2>3, <2>5 DEF IInv
<1> QED
  BY <1>13, <1>14, <1>15

\* An exit is sent after all stdout.
LEMMA FlushEnd_Step ==
  ASSUME ConstantsAssumption, IInv, FlushEnd
  PROVE  IInv'
<1>0. /\ TypeOK /\ OutInv /\ InInv /\ HandInv /\ ConnInv /\ ChainInv /\ TipInv /\ AckInv
  BY DEF IInv
<1>1. /\ ~gone /\ hand = {} /\ agent = "on" /\ due' = FALSE
      /\ UNCHANGED <<hist, proc, out, hand, stale, gone, agent, hs, toAgent, server, hd,
                     inb, notify, acks, start, log, eofSeen, drops, restarts>>
  BY DEF FlushEnd, serverVars
<1>2. CASE UNCHANGED <<toSrv, exitSent>>
  <2>1. TypeOK'
    BY <1>0, <1>1, <1>2 DEF TypeOK, AgentTypeOK, WireTypeOK, ServerTypeOK
  <2>2. OutInv' /\ InInv' /\ HandInv' /\ ConnInv' /\ ChainInv'
    BY <1>0, <1>1, <1>2 DEF OutInv, InInv, HandInv, ConnInv, ChainInv, Piece
  <2>3. WireEnd' = WireEnd /\ SendPoint' = SendPoint
    BY <1>1, <1>2 DEF WireEnd, SendPoint
  <2>4. TipInv' /\ AckInv'
    BY <1>0, <1>1, <1>2, <2>3 DEF TipInv, AckInv
  <2> QED
    BY <2>1, <2>2, <2>4 DEF IInv
<1>3. CASE /\ Drained(out) /\ ToServer([type |-> "exit", off |-> out.sent, data |-> <<>>])
           /\ exitSent' = TRUE
  <2>1. out \in Outboxes(Bytes) /\ out.sent \in Nat /\ out.sent = Len(hist) /\ proc = "exited"
    BY <1>0, <1>3 DEF Drained, OutEnd, OutInv, TypeOK, AgentTypeOK, Outboxes
  <2>2. <<>> \in Pieces(Bytes) /\ Len(<<>>) = 0
    BY EmptySeq DEF Pieces
  <2>3. PICK m : m = [type |-> "exit", off |-> out.sent, data |-> <<>>]
    OBVIOUS
  <2>4. m \in UpMsgs /\ m.type = "exit" /\ m.off = out.sent /\ m.data = <<>>
    BY <2>1, <2>2, <2>3 DEF UpMsgs
  <2>5. toSrv' = IF server = "off" THEN toSrv ELSE Append(toSrv, m)
    BY <1>3, <2>3 DEF ToServer
  <2>6. TypeOK'
    <3>1. toSrv' \in Seq(UpMsgs)
      BY <1>0, <2>4, <2>5, AppendProperties DEF TypeOK, WireTypeOK
    <3> QED
      BY <1>0, <1>1, <1>3, <3>1
         DEF TypeOK, AgentTypeOK, WireTypeOK, ServerTypeOK
  <2>7. OutInv' /\ InInv' /\ HandInv' /\ SendPoint' = SendPoint /\ AckInv'
    BY <1>0, <1>1 DEF OutInv, InInv, HandInv, AckInv, Piece, SendPoint
  <2>8. ConnInv'
    BY <1>0, <1>1, <2>5 DEF ConnInv
  <2>9. SendPoint = out.sent
    BY <1>1 DEF SendPoint
  <2>10. CASE server = "off" \/ hd = "none"
    BY <1>0, <1>1, <2>6, <2>7, <2>8, <2>10 DEF IInv, ChainInv, TipInv
  <2>11. CASE server # "off" /\ hd # "none"
    <3>1. server = "ready" /\ WireEnd = out.sent
      BY <1>0, <1>1, <2>9, <2>11 DEF ConnInv, TipInv, TypeOK, ServerTypeOK
    <3>2. Piece(m.data, m.off)
      BY <2>1, <2>2, <2>4 DEF Piece, PieceOf
    <3>3. toSrv' = Append(toSrv, m)
      BY <2>5, <2>11
    <3>4. ChainInv' /\ WireEnd' = m.off + Len(m.data)
      BY <1>0, <1>1, <2>1, <2>4, <2>11, <3>1, <3>2, <3>3, ChainExtends
    <3>5. TipInv'
      BY <2>1, <2>2, <2>4, <2>7, <2>9, <3>4 DEF TipInv
    <3> QED
      BY <2>6, <2>7, <2>8, <3>4, <3>5 DEF IInv
  <2> QED
    BY <2>10, <2>11
<1> QED
  BY <1>2, <1>3 DEF FlushEnd

\* A frame in hand when the agent loses its connection can no longer be sent.
LEMMA AgentLoses_Step ==
  ASSUME IInv, AgentLoses
  PROVE  IInv'
<1>0. /\ TypeOK /\ OutInv /\ InInv /\ HandInv /\ ConnInv /\ ChainInv /\ TipInv /\ AckInv
  BY DEF IInv
<1>1. /\ agent' = "off" /\ due' = FALSE /\ stale' = (stale \/ due) /\ exitSent' = FALSE
      /\ hand' = {[f EXCEPT !.live = FALSE] : f \in hand}
      /\ toAgent' = <<>> /\ hs' = (IF hs.type = "hello" THEN hs ELSE NoMsg)
      /\ UNCHANGED <<hist, proc, out, gone, toSrv, server, hd, inb, notify, acks, start, log,
                     eofSeen, restarts>>
      /\ drops' = IF server = "off" THEN drops ELSE drops + 1
  BY DEF AgentLoses, serverVars
<1>2. ASSUME NEW g \in hand'
      PROVE  /\ g \in Frames /\ ~g.live
             /\ \E f \in hand : f.off = g.off /\ f.data = g.data
  BY <1>0, <1>1 DEF TypeOK, AgentTypeOK, Frames
<1>3. AtMostOne(hand')
  BY <1>0, <1>1 DEF TypeOK, AgentTypeOK, AtMostOne
<1>4. TypeOK'
  <2>1. toAgent' \in Seq(DownMsgs)
    BY <1>1, EmptySeq
  <2>2. hs' \in HsMsgs
    BY <1>0, <1>1 DEF TypeOK, WireTypeOK, HsMsgs, NoMsg
  <2>3. hand' \in SUBSET Frames
    BY <1>2
  <2>4. (stale \/ due) \in BOOLEAN
    OBVIOUS
  <2>5. AgentTypeOK'
    BY <1>0, <1>1, <1>3, <2>3, <2>4 DEF TypeOK, AgentTypeOK
  <2> QED
    BY <1>0, <1>1, <2>1, <2>2, <2>5 DEF TypeOK, WireTypeOK, ServerTypeOK
<1>5. OutInv' /\ InInv' /\ ChainInv'
  BY <1>0, <1>1 DEF OutInv, InInv, ChainInv, Piece
<1>6. HandInv'
  BY <1>0, <1>1, <1>2 DEF HandInv, Piece
<1>7. ConnInv'
  BY <1>0, <1>1 DEF ConnInv, NoMsg
<1>8. TipInv' /\ AckInv'
  <2>1. Len(<<>>) = 0
    OBVIOUS
  <2> QED
    BY <1>0, <1>1, <2>1 DEF TipInv, AckInv
<1> QED
  BY <1>4, <1>5, <1>6, <1>7, <1>8 DEF IInv

-----------------------------------------------------------------------------
(* The connection and the server *)

\* A read moves bytes from the inbuf to the log.
LEMMA ReaderRead_Step ==
  ASSUME ConstantsAssumption, IInv, NEW n \in 1..MaxRead, ReaderRead(n)
  PROVE  IInv'
<1>0. /\ TypeOK /\ OutInv /\ InInv /\ HandInv /\ ConnInv /\ ChainInv /\ TipInv /\ AckInv
  BY DEF IInv
<1>1. /\ hd # "none" /\ notify = {} /\ n <= Len(inb.buf)
      /\ log' = log \o SubSeq(inb.buf, 1, n) /\ inb' = ReadIn(inb, n)
      /\ notify' = {inb.consumed + n}
      /\ UNCHANGED <<hist, proc, out, hand, due, stale, exitSent, gone, agent, hs, toSrv,
                     toAgent, server, hd, acks, start, eofSeen, drops, restarts>>
  BY DEF ReaderRead, agentVars, wireVars
<1>2. /\ inb \in Inbufs(Bytes) /\ hist \in Pieces(Bytes) /\ log \in Pieces(Bytes)
      /\ inb.buf \in Pieces(Bytes)
      /\ inb.consumed \in Nat /\ start \in Nat /\ n \in Nat /\ n > 0 /\ Len(log) \in Nat
      /\ Len(hist) \in Nat
  BY <1>0, LenProperties
     DEF TypeOK, AgentTypeOK, ServerTypeOK, Inbufs, Pieces, ConstantsAssumption
<1>3. /\ inb.consumed + Len(inb.buf) = inb.next /\ PieceOf(inb.buf, hist, inb.consumed)
      /\ start + Len(log) = inb.consumed /\ PieceOf(log, hist, start)
  BY <1>0 DEF InInv, Piece
<1>4. /\ inb' \in Inbufs(Bytes) /\ inb'.eof = inb.eof /\ inb'.next = inb.next
      /\ inb'.consumed = inb.consumed + n /\ inb'.consumed + Len(inb'.buf) = inb'.next
      /\ PieceOf(inb'.buf, hist, inb'.consumed)
  <2>1. PICK r : r = ReadIn(inb, n)
    OBVIOUS
  <2>2. n <= Len(inb.buf)
    BY <1>1
  <2>3. /\ r \in Inbufs(Bytes) /\ r.eof = inb.eof /\ r.next = inb.next
        /\ r.consumed = inb.consumed + n /\ r.consumed + Len(r.buf) = r.next
        /\ PieceOf(r.buf, hist, r.consumed)
    BY <1>2, <1>3, <2>1, <2>2, ReadFacts
  <2> QED
    BY <1>1, <2>1, <2>3
<1>5. PICK z \in Nat : z = 0
  OBVIOUS
<1>6. PICK q : /\ q \in Pieces(Bytes) /\ Len(q) = n /\ PieceOf(q, hist, inb.consumed)
               /\ log' = log \o q
  <2>1. /\ SubSeq(inb.buf, z + 1, n) \in Pieces(Bytes)
        /\ Len(SubSeq(inb.buf, z + 1, n)) = n - z
        /\ PieceOf(SubSeq(inb.buf, z + 1, n), hist, inb.consumed + z)
    <3>1. z <= n
      BY <1>2, <1>5
    <3> QED
      BY <1>1, <1>2, <1>3, <3>1, PiecePart
  <2>2. z + 1 = 1 /\ n - z = n /\ inb.consumed + z = inb.consumed
    BY <1>2, <1>5
  <2> QED
    BY <1>1, <2>1, <2>2
<1>7. log' = log \o q
  BY <1>6
<1>8. log' \in Pieces(Bytes) /\ Len(log') = Len(log) + n /\ PieceOf(log', hist, start)
  <2>1. PieceOf(q, hist, start + Len(log))
    BY <1>3, <1>6
  <2>2. /\ log \o q \in Pieces(Bytes) /\ Len(log \o q) = Len(log) + Len(q)
        /\ PieceOf(log \o q, hist, start)
    BY <1>2, <1>3, <1>6, <2>1, PieceJoin
  <2> QED
    BY <1>6, <1>7, <2>2
<1>9. TypeOK'
  BY <1>0, <1>1, <1>2, <1>4, <1>8
     DEF TypeOK, AgentTypeOK, WireTypeOK, ServerTypeOK, AtMostOne
<1>10. OutInv' /\ HandInv'
  BY <1>0, <1>1 DEF OutInv, HandInv, Piece
<1>11. InInv'
  <2>1. start' + Len(log') = inb'.consumed
    BY <1>1, <1>2, <1>3, <1>4, <1>8
  <2>2. ~eofSeen
    <3>1. inb.buf # <<>>
      BY <1>1, <1>2, EmptySeq
    <3> QED
      BY <1>0, <3>1 DEF InInv
  <2> QED
    BY <1>0, <1>1, <1>4, <1>8, <2>1, <2>2 DEF InInv, Piece
<1>12. ConnInv'
  BY <1>0, <1>1, <1>4 DEF ConnInv
<1>13. ChainInv'
  BY <1>0, <1>1, <1>4 DEF ChainInv, Piece
<1>14. WireEnd' = WireEnd /\ SendPoint' = SendPoint
  BY <1>1, <1>4 DEF WireEnd, SendPoint
<1>15. TipInv'
  BY <1>0, <1>1, <1>14 DEF TipInv
<1>16. AckInv'
  <2>1. \A off \in notify' \cup acks' : off <= inb'.consumed
    <3>1. acks \subseteq Nat
      BY <1>0 DEF TypeOK, ServerTypeOK
    <3> QED
      BY <1>0, <1>1, <1>2, <1>4, <3>1 DEF AckInv
  <2>2. ASSUME NEW i \in 1..Len(toAgent), toAgent[i].type = "ack"
        PROVE  toAgent[i].off <= inb'.consumed
    <3>1. toAgent[i].off \in Nat
      BY <1>0, WireFacts
    <3>2. toAgent[i].off <= inb.consumed
      BY <1>0, <2>2 DEF AckInv
    <3> QED
      BY <1>2, <1>4, <3>1, <3>2
  <2> QED
    BY <1>0, <1>1, <1>14, <2>1, <2>2 DEF AckInv
<1> QED
  BY <1>9, <1>10, <1>11, <1>12, <1>13, <1>15, <1>16 DEF IInv

\* The offset acknowledged is one the agent has already sent past.
LEMMA AckerSend_Step ==
  ASSUME IInv, AckerSend
  PROVE  IInv'
<1>0. /\ TypeOK /\ OutInv /\ InInv /\ HandInv /\ ConnInv /\ ChainInv /\ TipInv /\ AckInv
  BY DEF IInv
<1>1. PICK off \in acks : ToAgent([type |-> "ack", off |-> off])
  BY DEF AckerSend
<1>2. /\ server = "ready" /\ acks' = {}
      /\ UNCHANGED <<hist, proc, out, hand, due, stale, exitSent, gone, agent, hs, toSrv,
                     server, hd, inb, notify, start, log, eofSeen, drops, restarts>>
  BY DEF AckerSend, agentVars
<1>3. PICK m : m = [type |-> "ack", off |-> off]
  OBVIOUS
<1>4. off \in Nat /\ m \in DownMsgs /\ m.type = "ack" /\ m.off = off
  BY <1>0, <1>3 DEF TypeOK, ServerTypeOK, DownMsgs
<1>5. toAgent' = IF agent = "off" THEN toAgent ELSE Append(toAgent, m)
  BY <1>1, <1>3 DEF ToAgent
<1>6. toAgent \in Seq(DownMsgs) /\ Len(toAgent) \in Nat
  BY <1>0, WireFacts DEF TypeOK, WireTypeOK
<1>7. TypeOK'
  <2>1. toAgent' \in Seq(DownMsgs)
    BY <1>4, <1>5, <1>6, AppendProperties
  <2> QED
    BY <1>0, <1>2, <2>1 DEF TypeOK, AgentTypeOK, WireTypeOK, ServerTypeOK, AtMostOne
<1>8. OutInv' /\ InInv' /\ HandInv' /\ ChainInv'
  BY <1>0, <1>2 DEF OutInv, InInv, HandInv, ChainInv, Piece
<1>9. ConnInv'
  BY <1>0, <1>2, <1>5 DEF ConnInv
<1>10. WireEnd' = WireEnd /\ SendPoint' = SendPoint
  BY <1>2 DEF WireEnd, SendPoint
<1>11. TipInv'
  BY <1>0, <1>2, <1>10 DEF TipInv
<1>12. /\ off <= inb.consumed
       /\ agent = "on" /\ (~gone \/ hand # {}) => off <= SendPoint
       /\ hs.type = "resume" => off <= hs.off
  <2>1. hd # "none" /\ off <= inb.consumed
    BY <1>0 DEF ConnInv, AckInv
  <2>2. inb.consumed <= inb.next /\ inb.next \in Nat /\ inb.consumed \in Nat
    <3>1. inb.consumed + Len(inb.buf) = inb.next /\ Len(inb.buf) \in Nat
      BY <1>0, LenProperties DEF InInv, TypeOK, ServerTypeOK, Inbufs, Pieces
    <3> QED
      BY <1>0, <3>1, WireFacts
  <2>3. inb.next <= WireEnd /\ WireEnd \in Nat
    BY <1>0, <1>2, <2>1, WireSpan, WireFacts
  <2>4. agent = "on" /\ (~gone \/ hand # {}) => WireEnd = SendPoint
    BY <1>0, <1>2, <2>1 DEF TipInv
  <2>5. hs.type = "resume" => hs.off = inb.next
    BY <1>0, <1>2 DEF ConnInv
  <2>6. off <= inb.next /\ off <= WireEnd
    BY <1>4, <2>1, <2>2, <2>3
  <2> QED
    BY <2>1, <2>4, <2>5, <2>6
<1>13. AckInv'
  <2>1. \A o \in notify' \cup acks' : o <= inb'.consumed
    BY <1>0, <1>2 DEF AckInv
  <2>2. ASSUME NEW i \in 1..Len(toAgent'), toAgent'[i].type = "ack"
        PROVE  /\ toAgent'[i].off <= inb.consumed
               /\ agent = "on" /\ (~gone \/ hand # {}) => toAgent'[i].off <= SendPoint
               /\ hs.type = "resume" => toAgent'[i].off <= hs.off
    <3>1. CASE agent = "off"
      BY <1>0, <1>5, <2>2, <3>1 DEF AckInv
    <3>2. CASE agent # "off"
      <4>1. /\ Len(toAgent') = Len(toAgent) + 1 /\ toAgent'[Len(toAgent) + 1] = m
            /\ \A j \in 1..Len(toAgent) : toAgent'[j] = toAgent[j]
        BY <1>4, <1>5, <1>6, <3>2, AppendProperties
      <4>2. CASE i = Len(toAgent) + 1
        BY <1>4, <1>12, <4>1, <4>2
      <4>3. CASE i # Len(toAgent) + 1
        <5>1. i \in 1..Len(toAgent) /\ toAgent'[i] = toAgent[i]
          BY <1>6, <4>1, <4>3
        <5> QED
          BY <1>0, <2>2, <5>1 DEF AckInv
      <4> QED
        BY <4>2, <4>3
    <3> QED
      BY <3>1, <3>2
  <2> QED
    BY <1>2, <1>10, <2>1, <2>2 DEF AckInv
<1> QED
  BY <1>7, <1>8, <1>9, <1>11, <1>13 DEF IInv

\* An ack moves neither the send point nor, past what the reader consumed, the buffer's start.
LEMMA AgentRecv_Step ==
  ASSUME IInv, AgentRecv
  PROVE  IInv'
<1>0. /\ TypeOK /\ OutInv /\ InInv /\ HandInv /\ ConnInv /\ ChainInv /\ TipInv /\ AckInv
  BY DEF IInv
<1>1. /\ agent = "on" /\ toAgent # <<>> /\ toAgent' = Tail(toAgent)
      /\ UNCHANGED <<hist, proc, hand, due, stale, exitSent, agent, hs, toSrv, server, hd,
                     inb, notify, acks, start, log, eofSeen, drops, restarts>>
  BY DEF AgentRecv, serverVars
<1>2. toAgent \in Seq(DownMsgs) /\ Len(toAgent) \in Nat /\ 1 \in 1..Len(toAgent)
      /\ Head(toAgent) = toAgent[1]
  BY <1>0, <1>1, EmptySeq, LenProperties DEF TypeOK, WireTypeOK
<1>3. /\ toAgent' \in Seq(DownMsgs) /\ Len(toAgent') = Len(toAgent) - 1
      /\ \A i \in 1..Len(toAgent') :
           i + 1 \in 1..Len(toAgent) /\ toAgent'[i] = toAgent[i + 1]
  BY <1>1, <1>2, HeadTailProperties
<1>4. WireEnd' = WireEnd
  BY <1>1 DEF WireEnd
<1>5. ASSUME UNCHANGED out, gone => gone'
      PROVE  IInv'
  <2>1. gone' \in BOOLEAN
    BY <1>0, <1>5 DEF AgentRecv, TypeOK, AgentTypeOK
  <2>2. TypeOK'
    BY <1>0, <1>1, <1>3, <1>5, <2>1
       DEF TypeOK, AgentTypeOK, WireTypeOK, ServerTypeOK, AtMostOne
  <2>3. OutInv' /\ InInv' /\ HandInv' /\ ChainInv'
    BY <1>0, <1>1, <1>5 DEF OutInv, InInv, HandInv, ChainInv, Piece
  <2>4. ConnInv'
    BY <1>0, <1>1, <1>5 DEF ConnInv
  <2>5. SendPoint' = SendPoint
    BY <1>1, <1>5 DEF SendPoint
  <2>6. TipInv'
    BY <1>0, <1>1, <1>4, <1>5, <2>5 DEF TipInv
  <2>7. AckInv'
    BY <1>0, <1>1, <1>3, <1>5, <2>5 DEF AckInv
  <2> QED
    BY <2>2, <2>3, <2>4, <2>6, <2>7 DEF IInv
<1>6. CASE Head(toAgent).type = "forget"
  BY <1>5, <1>6 DEF AgentRecv
<1>7. CASE Head(toAgent).type # "forget" /\ gone
  BY <1>5, <1>7 DEF AgentRecv
<1>8. CASE Head(toAgent).type # "forget" /\ ~gone
  <2>1. PICK off : off = Head(toAgent).off
    OBVIOUS
  <2>2. /\ off \in Nat /\ off <= inb.consumed /\ off <= SendPoint
    <3>1. toAgent[1].type = "ack" /\ toAgent[1].off \in Nat
      BY <1>0, <1>2, <1>8, WireFacts
    <3> QED
      BY <1>0, <1>1, <1>2, <1>8, <2>1, <3>1 DEF AckInv
  <2>3. out' = Ack(out, off) /\ gone' = gone
    BY <1>8, <2>1 DEF AgentRecv
  <2>4. /\ out \in Outboxes(Bytes) /\ hist \in Pieces(Bytes) /\ PieceOf(out.buf, hist, out.base)
        /\ out.base + Len(out.buf) = Len(hist) /\ out.base \in Nat /\ out.sent \in Nat
        /\ SendPoint \in Nat /\ SendPoint <= out.sent /\ out.base <= SendPoint
        /\ Len(hist) \in Nat
    BY <1>0, SendPointFacts, WireFacts DEF TypeOK, AgentTypeOK, Outboxes, OutInv, Piece
  <2>5. off <= out.sent
    BY <2>2, <2>4
  <2>6. /\ out' \in Outboxes(Bytes) /\ out'.eof = out.eof
        /\ out'.base + Len(out'.buf) = Len(hist) /\ PieceOf(out'.buf, hist, out'.base)
        /\ out.base <= out'.base
        /\ out'.base = out.base \/ (out'.base <= off /\ hist[out'.base].nl)
        /\ out'.sent = out.sent
    <3>1. LET r == Ack(out, off) IN
          /\ r \in Outboxes(Bytes) /\ r.eof = out.eof
          /\ r.base + Len(r.buf) = Len(hist) /\ PieceOf(r.buf, hist, r.base)
          /\ out.base <= r.base
          /\ r.base = out.base \/ (r.base <= off /\ hist[r.base].nl)
          /\ off <= out.sent => r.sent = out.sent
      BY <2>2, <2>4, AckFacts
    <3> QED
      BY <2>3, <2>5, <3>1
  <2>7. out'.base \in Nat /\ (out'.base = out.base \/ out'.base <= off)
    BY <2>6 DEF Outboxes
  <2>8. out'.base <= SendPoint /\ out'.base <= out.sent /\ out'.base <= inb.next
    <3>1. inb.consumed <= inb.next /\ inb.consumed \in Nat /\ inb.next \in Nat
          /\ out.base <= inb.next
      <4>1. inb.consumed + Len(inb.buf) = inb.next /\ Len(inb.buf) \in Nat
        BY <1>0, LenProperties DEF InInv, TypeOK, ServerTypeOK, Inbufs, Pieces
      <4> QED
        BY <1>0, <4>1, WireFacts DEF InInv
    <3> QED
      BY <2>2, <2>4, <2>7, <3>1
  <2>9. TypeOK'
    BY <1>0, <1>1, <1>3, <2>3, <2>6
       DEF TypeOK, AgentTypeOK, WireTypeOK, ServerTypeOK, AtMostOne
  <2>10. OutInv'
    BY <1>0, <1>1, <2>6, <2>8 DEF OutInv, Piece
  <2>11. InInv' /\ ChainInv'
    BY <1>0, <1>1, <2>8 DEF InInv, ChainInv, Piece
  <2>12. HandInv'
    BY <1>0, <1>1, <2>4, <2>6, <2>8, SendPointFacts DEF HandInv, Piece
  <2>13. ConnInv'
    BY <1>0, <1>1, <2>3 DEF ConnInv
  <2>14. SendPoint' = SendPoint
    BY <1>1, <2>6 DEF SendPoint
  <2>15. TipInv'
    BY <1>0, <1>1, <1>4, <2>3, <2>14 DEF TipInv
  <2>16. AckInv'
    BY <1>0, <1>1, <1>3, <2>3, <2>14 DEF AckInv
  <2> QED
    BY <2>9, <2>10, <2>11, <2>12, <2>13, <2>15, <2>16 DEF IInv
<1> QED
  BY <1>6, <1>7, <1>8

\* A known stream is resumed where the inbuf ends; an adopted one where the agent's buffer begins.
LEMMA Attach_Step ==
  ASSUME IInv, Attach
  PROVE  IInv'
<1>0. /\ TypeOK /\ OutInv /\ InInv /\ HandInv /\ ConnInv /\ ChainInv /\ TipInv /\ AckInv
  BY DEF IInv
<1>1. /\ server = "wait" /\ hs.type = "hello" /\ server' = "ready"
      /\ UNCHANGED <<hist, proc, out, hand, due, stale, exitSent, gone, agent, toSrv,
                     toAgent, notify, acks, drops, restarts>>
  BY DEF Attach, agentVars
<1>2. /\ toSrv = <<>> /\ toAgent = <<>> /\ acks = {} /\ agent # "on"
      /\ hs.off = out.base /\ hs.off \in Nat /\ out.base <= Len(hist)
      /\ Len(toSrv) = 0 /\ Len(toAgent) = 0
  <2>1. toSrv = <<>> /\ toAgent = <<>> /\ acks = {} /\ agent # "on" /\ hs.off = out.base
    BY <1>0, <1>1 DEF ConnInv
  <2>2. out.base + Len(out.buf) = Len(hist) /\ out.base \in Nat /\ Len(out.buf) \in Nat
    BY <1>0, LenProperties DEF OutInv, TypeOK, AgentTypeOK, Outboxes, Pieces
  <2> QED
    BY <2>1, <2>2
<1>3. OutInv' /\ HandInv'
  BY <1>0, <1>1 DEF OutInv, HandInv, Piece
<1>4. SendPoint' = SendPoint
  BY <1>1 DEF SendPoint
<1>5. CASE \/ /\ hd = "live" /\ hs' = IF agent = "hello" THEN Resume(inb.next) ELSE NoMsg
              /\ UNCHANGED <<hd, inb, start, log, eofSeen>>
           \/ /\ hd = "done" \/ (hd = "none" /\ hs.exited)
              /\ hs' = IF agent = "hello" THEN Kill ELSE NoMsg
              /\ UNCHANGED <<hd, inb, start, log, eofSeen>>
  <2>1. /\ hs' \in HsMsgs /\ hs'.type \in {"none", "resume", "kill"}
        /\ hs'.type = "resume" => hd = "live" /\ hs'.off = inb.next
        /\ agent # "hello" => hs'.type = "none"
        /\ agent = "hello" => hs'.type # "none"
    <3>1. inb.next \in Nat
      BY <1>0, WireFacts
    <3>2. /\ NoMsg \in HsMsgs /\ NoMsg.type = "none"
          /\ Kill \in HsMsgs /\ Kill.type = "kill"
          /\ Resume(inb.next) \in HsMsgs /\ Resume(inb.next).type = "resume"
          /\ Resume(inb.next).off = inb.next
      BY <3>1 DEF HsMsgs, Resume, Kill, NoMsg
    <3> QED
      BY <1>5, <3>2
  <2>2. TypeOK'
    BY <1>0, <1>1, <1>5, <2>1 DEF TypeOK, AgentTypeOK, WireTypeOK, ServerTypeOK, AtMostOne
  <2>3. InInv'
    BY <1>0, <1>1, <1>5 DEF InInv, Piece
  <2>4. inb.next <= Len(hist) /\ out.base <= inb.next
    <3>1. /\ inb.consumed + Len(inb.buf) = inb.next /\ out.base <= inb.next
          /\ inb.consumed + Len(inb.buf) <= Len(hist)
      BY <1>0 DEF InInv, Piece, PieceOf
    <3> QED
      BY <3>1
  <2>5. ConnInv'
    <3>1. hs.off = out.base /\ agent \in {"off", "hello"}
      BY <1>0, <1>2 DEF TypeOK, AgentTypeOK
    <3>2. hs'.type = "resume" =>
            /\ out'.base <= hs'.off /\ hs'.off <= Len(hist') /\ hs'.off <= inb'.next
            /\ hs'.off = inb'.next /\ hd' # "none"
      <4>1. inb.next <= inb.next
        BY <1>0, WireFacts
      <4> QED
        BY <1>1, <1>5, <2>1, <2>4, <4>1
    <3>3. hd' = "none" => notify' = {} /\ acks' = {}
      BY <1>0, <1>1, <1>5 DEF ConnInv
    <3> QED
      BY <1>1, <1>2, <2>1, <3>1, <3>2, <3>3 DEF ConnInv
  <2>6. ChainInv'
    BY <1>1, <1>2 DEF ChainInv
  <2>7. TipInv' /\ AckInv'
    BY <1>0, <1>1, <1>2, <1>4, <1>5 DEF TipInv, AckInv
  <2> QED
    BY <1>3, <2>2, <2>3, <2>5, <2>6, <2>7 DEF IInv
<1>6. CASE /\ hd = "none" /\ ~hs.exited
           /\ hs' = IF agent = "hello" THEN Resume(hs.off) ELSE NoMsg
           /\ hd' = "live" /\ inb' = NewInbuf(hs.off)
           /\ start' = hs.off /\ log' = <<>> /\ eofSeen' = FALSE
  <2>1. /\ hs' \in HsMsgs /\ hs'.type \in {"none", "resume"}
        /\ hs'.type = "resume" => hs'.off = hs.off
        /\ agent # "hello" => hs'.type = "none"
        /\ agent = "hello" => hs'.type # "none"
    BY <1>2, <1>6 DEF HsMsgs, Resume, NoMsg
  <2>2. <<>> \in Pieces(Bytes) /\ Len(<<>>) = 0 /\ PieceOf(<<>>, hist, out.base)
    BY <1>2, EmptySeq DEF Pieces, PieceOf
  <2>3. /\ inb' \in Inbufs(Bytes) /\ inb'.next = out.base /\ inb'.buf = <<>> /\ ~inb'.eof
        /\ inb'.consumed = out.base
    BY <1>2, <1>6, <2>2 DEF NewInbuf, Inbufs
  <2>4. TypeOK'
    BY <1>0, <1>1, <1>2, <1>6, <2>1, <2>2, <2>3
       DEF TypeOK, AgentTypeOK, WireTypeOK, ServerTypeOK, AtMostOne
  <2>5. notify = {}
    BY <1>0, <1>6 DEF ConnInv
  <2>6. InInv'
    <3>1. inb'.consumed + Len(inb'.buf) = inb'.next /\ start' + Len(log') = inb'.consumed
      BY <1>2, <1>6, <2>2, <2>3
    <3>2. PieceOf(inb'.buf, hist, inb'.consumed) /\ PieceOf(log', hist, start')
      BY <1>2, <1>6, <2>2, <2>3
    <3>3. out'.base <= inb'.next
      BY <1>1, <1>2, <2>3
    <3> QED
      BY <1>1, <1>6, <2>3, <3>1, <3>2, <3>3 DEF InInv, Piece
  <2>7. ConnInv'
    BY <1>0, <1>1, <1>2, <1>6, <2>1, <2>3, <2>5 DEF ConnInv
  <2>8. ChainInv' /\ TipInv' /\ AckInv'
    BY <1>0, <1>1, <1>2, <1>6, <2>5 DEF ChainInv, TipInv, AckInv
  <2> QED
    BY <1>3, <2>4, <2>6, <2>7, <2>8 DEF IInv
<1> QED
  BY <1>5, <1>6 DEF Attach

\* After the rewind the send point is the end of the inbuf.
LEMMA Welcome_Step ==
  ASSUME IInv, Welcome
  PROVE  IInv'
<1>0. /\ TypeOK /\ OutInv /\ InInv /\ HandInv /\ ConnInv /\ ChainInv /\ TipInv /\ AckInv
  BY DEF IInv
<1>1. /\ agent = "hello" /\ hand = {} /\ hs.type \in {"resume", "kill"}
      /\ hs' = NoMsg /\ agent' = "on"
      /\ UNCHANGED <<hist, proc, hand, stale, exitSent, toSrv, toAgent, server, hd, inb,
                     notify, acks, start, log, eofSeen, drops, restarts>>
  BY DEF Welcome, serverVars
<1>2. hs' \in HsMsgs /\ hs'.type = "none"
  BY <1>1 DEF NoMsg, HsMsgs
<1>3. WireEnd' = WireEnd
  BY <1>1 DEF WireEnd
<1>4. /\ toSrv = <<>> /\ WireEnd = inb.next /\ server # "wait"
  BY <1>0, <1>1 DEF ConnInv, WireEnd
<1>5. CASE gone' /\ UNCHANGED <<out, due>>
  <2>1. TypeOK'
    BY <1>0, <1>1, <1>2, <1>5 DEF TypeOK, AgentTypeOK, WireTypeOK, ServerTypeOK, AtMostOne
  <2>2. OutInv' /\ InInv' /\ HandInv' /\ ChainInv'
    BY <1>0, <1>1, <1>5 DEF OutInv, InInv, HandInv, ChainInv, Piece
  <2>3. ConnInv'
    BY <1>0, <1>1, <1>2, <1>4, <1>5 DEF ConnInv
  <2>4. TipInv' /\ AckInv'
    BY <1>0, <1>1, <1>2, <1>5 DEF TipInv, AckInv
  <2> QED
    BY <2>1, <2>2, <2>3, <2>4 DEF IInv
<1>6. CASE /\ hs.type = "resume" /\ CanRewind(out, hs.off)
           /\ out' = Rewind(out, hs.off) /\ due' = TRUE /\ UNCHANGED gone
  <2>1. PICK off \in Nat : off = hs.off
    BY <1>0 DEF TypeOK, WireTypeOK, HsMsgs
  <2>2. /\ out \in Outboxes(Bytes) /\ hist \in Pieces(Bytes) /\ PieceOf(out.buf, hist, out.base)
        /\ out.base + Len(out.buf) = Len(hist) /\ out.base \in Nat /\ Len(hist) \in Nat
        /\ CanRewind(out, off)
    BY <1>0, <1>6, <2>1, WireFacts DEF TypeOK, AgentTypeOK, Outboxes, OutInv, Piece
  <2>3. LET r == Rewind(out, off) IN
        /\ r \in Outboxes(Bytes) /\ r.eof = out.eof /\ r.sent = off
        /\ r.base + Len(r.buf) = Len(hist) /\ PieceOf(r.buf, hist, r.base)
        /\ out.base <= r.base /\ r.base <= off
        /\ r.base = out.base \/ hist[r.base].nl
    BY <2>2, RewindFacts
  <2>4. /\ out' \in Outboxes(Bytes) /\ out'.eof = out.eof /\ out'.sent = off
        /\ out'.base + Len(out'.buf) = Len(hist) /\ PieceOf(out'.buf, hist, out'.base)
        /\ out.base <= out'.base /\ out'.base <= off
        /\ out'.base = out.base \/ hist[out'.base].nl
    BY <1>6, <2>1, <2>3
  <2>5. /\ off <= inb.next /\ off <= Len(hist) /\ inb.next \in Nat /\ out'.base \in Nat
        /\ server = "ready" => off = inb.next /\ hd # "none"
    BY <1>0, <1>6, <2>1, <2>4, WireFacts DEF ConnInv, Outboxes
  <2>6. TypeOK'
    BY <1>0, <1>1, <1>2, <1>6, <2>4
       DEF TypeOK, AgentTypeOK, WireTypeOK, ServerTypeOK, AtMostOne
  <2>7. OutInv'
    BY <1>0, <1>1, <2>4, <2>5 DEF OutInv, Piece
  <2>8. InInv'
    <3>1. out'.base <= inb.next
      BY <2>4, <2>5
    <3> QED
      BY <1>0, <1>1, <3>1 DEF InInv, Piece
  <2>9. HandInv' /\ ChainInv'
    BY <1>0, <1>1 DEF HandInv, ChainInv, Piece
  <2>10. ConnInv'
    BY <1>0, <1>1, <1>2, <1>4, <2>5 DEF ConnInv
  <2>11. SendPoint' = off
    BY <1>1, <2>4 DEF SendPoint
  <2>12. TipInv'
    BY <1>1, <1>3, <1>4, <2>5, <2>11 DEF TipInv
  <2>13. AckInv'
    BY <1>0, <1>1, <1>2, <1>6, <2>1, <2>11 DEF AckInv
  <2> QED
    BY <2>6, <2>7, <2>8, <2>9, <2>10, <2>12, <2>13 DEF IInv
<1> QED
  BY <1>5, <1>6 DEF Welcome

\* A data frame is never past a gap, nor past the end of the stream.
LEMMA RecvData_Step ==
  ASSUME IInv, RecvData
  PROVE  IInv'
<1>0. /\ TypeOK /\ OutInv /\ InInv /\ HandInv /\ ConnInv /\ ChainInv /\ TipInv /\ AckInv
  BY DEF IInv
<1>1. /\ server = "ready" /\ toSrv # <<>> /\ Head(toSrv).type = "data"
      /\ UNCHANGED <<hist, proc, out, hand, due, stale, exitSent, gone, agent, toAgent, hd,
                     notify, start, log, eofSeen, drops, restarts>>
  BY DEF RecvData, agentVars
<1>2. /\ toSrv \in Seq(UpMsgs) /\ Head(toSrv) = toSrv[1] /\ 1 \in 1..Len(toSrv)
      /\ toSrv[1].off \in Nat /\ toSrv[1].data \in Pieces(Bytes) /\ Len(toSrv[1].data) \in Nat
      /\ inb.next \in Nat
  <2>1. 1 \in 1..Len(toSrv) /\ toSrv \in Seq(UpMsgs) /\ Head(toSrv) = toSrv[1]
    BY <1>0, <1>1, EmptySeq, LenProperties DEF TypeOK, WireTypeOK
  <2> QED
    BY <1>0, <2>1, WireFacts
<1>3. hd # "none" =>
        /\ toSrv[1].off = inb.next /\ Len(toSrv[1].data) > 0
        /\ PieceOf(toSrv[1].data, hist, inb.next)
  BY <1>0, <1>1, <1>2 DEF ChainInv, Piece
<1>4. /\ toSrv' = Tail(toSrv) /\ UNCHANGED <<server, acks, hs>>
      /\ inb' = IF hd = "live" THEN Receive(inb, toSrv[1].off, toSrv[1].data) ELSE inb
  <2>1. ~(hd = "live" /\ Gap(inb, toSrv[1].off))
    BY <1>2, <1>3 DEF Gap
  <2> QED
    BY <1>2, <2>1 DEF RecvData
<1>5. hd # "none" => ~inb.eof
  <2>1. hd # "none" => inb.next < Len(hist)
    <3>1. hd # "none" => inb.next + Len(toSrv[1].data) <= Len(hist)
      BY <1>3 DEF PieceOf
    <3> QED
      BY <1>0, <1>2, <1>3, <3>1, WireFacts
  <2> QED
    BY <1>0, <1>2, <2>1, WireFacts DEF InInv
<1>6. toSrv' \in Seq(UpMsgs)
  BY <1>1, <1>2, <1>4, HeadTailProperties
<1>7. OutInv' /\ HandInv'
  BY <1>0, <1>1 DEF OutInv, HandInv, Piece
<1>8. SendPoint' = SendPoint
  BY <1>1 DEF SendPoint
<1>9. CASE hd # "live"
  <2>1. hd = "none"
    BY <1>0, <1>5, <1>9 DEF InInv, TypeOK, ServerTypeOK
  <2>2. inb' = inb
    BY <1>4, <1>9
  <2>3. TypeOK'
    BY <1>0, <1>1, <1>4, <1>6, <2>2
       DEF TypeOK, AgentTypeOK, WireTypeOK, ServerTypeOK, AtMostOne
  <2>4. InInv'
    BY <1>0, <1>1, <2>2 DEF InInv, Piece
  <2>5. ConnInv'
    BY <1>0, <1>1, <1>4, <2>2 DEF ConnInv
  <2>6. ChainInv' /\ TipInv'
    BY <1>1, <2>1 DEF ChainInv, TipInv
  <2>7. AckInv'
    BY <1>0, <1>1, <1>4, <1>8, <2>2 DEF AckInv
  <2> QED
    BY <1>7, <2>3, <2>4, <2>5, <2>6, <2>7 DEF IInv
<1>10. CASE hd = "live"
  <2>1. PICK p \in Pieces(Bytes) : p = toSrv[1].data
    BY <1>2
  <2>2. /\ inb \in Inbufs(Bytes) /\ hist \in Pieces(Bytes) /\ ~inb.eof
        /\ inb.consumed + Len(inb.buf) = inb.next /\ PieceOf(inb.buf, hist, inb.consumed)
        /\ Len(p) > 0 /\ PieceOf(p, hist, inb.next) /\ inb' = Receive(inb, inb.next, p)
    BY <1>0, <1>3, <1>4, <1>5, <1>10, <2>1
       DEF InInv, Piece, TypeOK, AgentTypeOK, ServerTypeOK
  <2>3. LET r == Receive(inb, inb.next, p) IN
        /\ r \in Inbufs(Bytes) /\ r.eof = inb.eof /\ r.consumed = inb.consumed
        /\ r.next = inb.next + Len(p) /\ r.consumed + Len(r.buf) = r.next
        /\ PieceOf(r.buf, hist, r.consumed)
    <3>1. \A x \in Bytes : x.nl \in BOOLEAN
      BY DEF Bytes
    <3>2. PICK r : r = Receive(inb, inb.next, p)
      OBVIOUS
    <3>3. /\ r \in Inbufs(Bytes) /\ r.eof = inb.eof /\ r.consumed = inb.consumed
          /\ r.next = inb.next + Len(p) /\ PieceOf(r.buf, hist, r.consumed)
          /\ ~r.eof => r.consumed + Len(r.buf) = r.next
      <4>1. inb.next \in Nat /\ inb.consumed + Len(inb.buf) <= inb.next
        BY <2>2 DEF Inbufs
      <4> QED
        BY <2>2, <3>1, <3>2, <4>1, ReceiveFacts
    <3> QED
      BY <2>2, <3>2, <3>3
  <2>4. /\ inb' \in Inbufs(Bytes) /\ inb'.eof = inb.eof /\ inb'.consumed = inb.consumed
        /\ inb'.next = inb.next + Len(p) /\ inb'.consumed + Len(inb'.buf) = inb'.next
        /\ PieceOf(inb'.buf, hist, inb'.consumed)
    BY <2>2, <2>3
  <2>5. TypeOK'
    BY <1>0, <1>1, <1>4, <1>6, <2>4
       DEF TypeOK, AgentTypeOK, WireTypeOK, ServerTypeOK, AtMostOne
  <2>6. out.base \in Nat /\ out.base <= inb'.next
    <3>1. Len(p) \in Nat /\ out.base \in Nat /\ out.base <= inb.next
      BY <1>0, LenProperties DEF InInv, TypeOK, AgentTypeOK, Outboxes, Pieces
    <3> QED
      BY <1>2, <2>4, <3>1
  <2>7. InInv'
    BY <1>0, <1>1, <1>10, <2>2, <2>4, <2>6 DEF InInv, Piece
  <2>8. hs.type # "resume"
    <3>1. agent \in {"off", "on"}
      BY <1>0, <1>1 DEF ConnInv, TypeOK, AgentTypeOK
    <3> QED
      BY <1>0, <3>1 DEF ConnInv
  <2>9. ConnInv'
    BY <1>0, <1>1, <1>4, <1>10, <2>8 DEF ConnInv
  <2>10. ChainInv' /\ WireEnd' = WireEnd
    <3>1. inb'.next = toSrv[1].off + Len(toSrv[1].data)
      BY <1>3, <1>10, <2>1, <2>4
    <3> QED
      BY <1>0, <1>1, <1>4, <1>10, <3>1, ChainShifts
  <2>11. TipInv'
    BY <1>0, <1>1, <1>4, <1>8, <2>10 DEF TipInv
  <2>12. AckInv'
    BY <1>0, <1>1, <1>4, <1>8, <2>4 DEF AckInv
  <2> QED
    BY <1>7, <2>5, <2>7, <2>9, <2>10, <2>11, <2>12 DEF IInv
<1> QED
  BY <1>9, <1>10

\* When exit arrives the inbuf has all of stdout.
LEMMA RecvExit_Step ==
  ASSUME IInv, RecvExit
  PROVE  IInv'
<1>0. /\ TypeOK /\ OutInv /\ InInv /\ HandInv /\ ConnInv /\ ChainInv /\ TipInv /\ AckInv
  BY DEF IInv
<1>1. /\ server = "ready" /\ toSrv # <<>> /\ Head(toSrv).type = "exit"
      /\ toSrv' = Tail(toSrv) /\ inb' = (IF hd = "live" THEN CloseIn(inb) ELSE inb)
      /\ UNCHANGED <<hist, proc, out, hand, due, stale, exitSent, gone, agent, hs, server, hd,
                     notify, acks, start, log, eofSeen, drops, restarts>>
  BY DEF RecvExit, agentVars
<1>2. PICK m \in DownMsgs :
        /\ m.type = "forget"
        /\ toAgent' = IF agent = "off" THEN toAgent ELSE Append(toAgent, m)
  BY DEF RecvExit, ToAgent, DownMsgs
<1>3. /\ toSrv \in Seq(UpMsgs) /\ Head(toSrv) = toSrv[1] /\ 1 \in 1..Len(toSrv)
      /\ inb.next \in Nat /\ inb \in Inbufs(Bytes)
  BY <1>0, <1>1, EmptySeq, LenProperties, WireFacts DEF TypeOK, WireTypeOK, ServerTypeOK
<1>4. toAgent \in Seq(DownMsgs) /\ Len(toAgent) \in Nat
  BY <1>0, WireFacts DEF TypeOK, WireTypeOK
<1>5. hd # "none" =>
        /\ toSrv[1].off = inb.next /\ toSrv[1].data = <<>> /\ inb.next = Len(hist)
        /\ proc = "exited"
  BY <1>0, <1>1, <1>3 DEF ChainInv
<1>6. /\ inb' \in Inbufs(Bytes) /\ inb'.next = inb.next /\ inb'.buf = inb.buf
      /\ inb'.consumed = inb.consumed
      /\ inb'.eof = (inb.eof \/ hd = "live")
  BY <1>1, <1>3 DEF CloseIn, Inbufs
<1>7. TypeOK'
  <2>1. toSrv' \in Seq(UpMsgs) /\ toAgent' \in Seq(DownMsgs)
    BY <1>1, <1>2, <1>3, <1>4, HeadTailProperties, AppendProperties
  <2> QED
    BY <1>0, <1>1, <1>6, <2>1
       DEF TypeOK, AgentTypeOK, WireTypeOK, ServerTypeOK, AtMostOne
<1>8. OutInv' /\ HandInv'
  BY <1>0, <1>1 DEF OutInv, HandInv, Piece
<1>9. InInv'
  BY <1>0, <1>1, <1>5, <1>6 DEF InInv, Piece
<1>10. ConnInv'
  <2>1. agent = "off" => toAgent' = toAgent
    BY <1>2
  <2> QED
    BY <1>0, <1>1, <1>6, <2>1 DEF ConnInv
<1>11. SendPoint' = SendPoint
  BY <1>1 DEF SendPoint
<1>12. ChainInv' /\ TipInv'
  <2>1. CASE hd = "none"
    BY <1>1, <2>1 DEF ChainInv, TipInv
  <2>2. CASE hd # "none"
    <3>1. inb'.next = toSrv[1].off + Len(toSrv[1].data)
      <4>1. Len(toSrv[1].data) = 0 /\ inb.next + 0 = inb.next
        BY <1>3, <1>5, <2>2
      <4> QED
        BY <1>5, <1>6, <2>2, <4>1
    <3>2. ChainInv' /\ WireEnd' = WireEnd
      BY <1>0, <1>1, <2>2, <3>1, ChainShifts
    <3>3. TipInv'
      BY <1>0, <1>1, <1>11, <3>2 DEF TipInv
    <3> QED
      BY <3>2, <3>3
  <2> QED
    BY <2>1, <2>2
<1>13. AckInv'
  <2>1. ASSUME NEW i \in 1..Len(toAgent'), toAgent'[i].type = "ack"
        PROVE  i \in 1..Len(toAgent) /\ toAgent'[i] = toAgent[i]
    <3>1. CASE agent = "off"
      BY <1>2, <2>1, <3>1
    <3>2. CASE agent # "off"
      <4>1. /\ Len(toAgent') = Len(toAgent) + 1 /\ toAgent'[Len(toAgent) + 1] = m
            /\ \A j \in 1..Len(toAgent) : toAgent'[j] = toAgent[j]
        BY <1>2, <1>4, <3>2, AppendProperties
      <4> QED
        BY <1>2, <1>4, <2>1, <4>1
    <3> QED
      BY <3>1, <3>2
  <2>2. \A off \in notify' \cup acks' : off <= inb'.consumed
    BY <1>0, <1>1, <1>6 DEF AckInv
  <2>3. ASSUME NEW i \in 1..Len(toAgent'), toAgent'[i].type = "ack"
        PROVE  /\ toAgent'[i].off <= inb.consumed
               /\ agent = "on" /\ (~gone \/ hand # {}) => toAgent'[i].off <= SendPoint
               /\ hs.type = "resume" => toAgent'[i].off <= hs.off
    <3>1. i \in 1..Len(toAgent) /\ toAgent'[i] = toAgent[i]
      BY <2>1, <2>3
    <3> QED
      BY <1>0, <2>3, <3>1 DEF AckInv
  <2> QED
    BY <1>1, <1>6, <1>11, <2>2, <2>3 DEF AckInv
<1> QED
  BY <1>7, <1>8, <1>9, <1>10, <1>12, <1>13 DEF IInv

-----------------------------------------------------------------------------
(* Actions that disturb little *)

\* Stopping the process changes no byte.
LEMMA PumpOverflow_Step ==
  ASSUME ConstantsAssumption, IInv, PumpOverflow
  PROVE  IInv'
<1> USE DEF agentVars, wireVars, serverVars
<1>0. /\ TypeOK /\ OutInv /\ InInv /\ HandInv /\ ConnInv /\ ChainInv /\ TipInv /\ AckInv
  BY DEF IInv
<1>1. AgentTypeOK' /\ WireTypeOK' /\ ServerTypeOK'
  BY <1>0, EmptySeq DEF PumpOverflow, TypeOK, AgentTypeOK, WireTypeOK, ServerTypeOK
<1>2. TypeOK'
  BY <1>0, <1>1 DEF TypeOK, PumpOverflow
<1>3. WireEnd' = WireEnd /\ SendPoint' = SendPoint
  BY DEF WireEnd, SendPoint, PumpOverflow
<1>4. OutInv'
  BY <1>0, <1>3 DEF PumpOverflow, OutInv, TypeOK, AgentTypeOK, WireTypeOK, ServerTypeOK, Piece
<1>5. InInv'
  BY <1>0, <1>3 DEF PumpOverflow, InInv, TypeOK, AgentTypeOK, WireTypeOK, ServerTypeOK, Inbufs, Piece
<1>6. HandInv'
  BY <1>0, <1>3 DEF PumpOverflow, HandInv, TypeOK, AgentTypeOK, WireTypeOK, ServerTypeOK, Piece
<1>7. ConnInv'
  BY <1>0, <1>3 DEF PumpOverflow, ConnInv, TypeOK, AgentTypeOK, WireTypeOK, ServerTypeOK, OutInv
<1>8. ChainInv'
  BY <1>0, <1>3 DEF PumpOverflow, ChainInv, TypeOK, AgentTypeOK, WireTypeOK, ServerTypeOK, Piece
<1>9. TipInv'
  BY <1>0, <1>3 DEF PumpOverflow, TipInv, TypeOK, AgentTypeOK, WireTypeOK, ServerTypeOK, ConnInv
<1>10. AckInv'
  BY <1>0, <1>3 DEF PumpOverflow, AckInv, TypeOK, AgentTypeOK, WireTypeOK, ServerTypeOK, ConnInv
<1> QED
  BY <1>2, <1>4, <1>5, <1>6, <1>7, <1>8, <1>9, <1>10 DEF IInv

\* The exit closes the outbox.
LEMMA PumpEOF_Step ==
  ASSUME ConstantsAssumption, IInv, PumpEOF
  PROVE  IInv'
<1> USE DEF agentVars, wireVars, serverVars
<1>0. /\ TypeOK /\ OutInv /\ InInv /\ HandInv /\ ConnInv /\ ChainInv /\ TipInv /\ AckInv
  BY DEF IInv
<1>1. AgentTypeOK' /\ WireTypeOK' /\ ServerTypeOK'
  BY <1>0, EmptySeq DEF PumpEOF, TypeOK, AgentTypeOK, WireTypeOK, ServerTypeOK, Outboxes, CloseOut
<1>2. TypeOK'
  BY <1>0, <1>1 DEF TypeOK, PumpEOF
<1>3. WireEnd' = WireEnd /\ SendPoint' = SendPoint
  BY DEF WireEnd, SendPoint, PumpEOF, CloseOut
<1>4. OutInv'
  BY <1>0, <1>3 DEF PumpEOF, OutInv, TypeOK, AgentTypeOK, WireTypeOK, ServerTypeOK, CloseOut, Piece, Outboxes
<1>5. InInv'
  BY <1>0, <1>3 DEF PumpEOF, InInv, TypeOK, AgentTypeOK, WireTypeOK, ServerTypeOK, CloseOut, Inbufs, Piece, Outboxes
<1>6. HandInv'
  BY <1>0, <1>3 DEF PumpEOF, HandInv, TypeOK, AgentTypeOK, WireTypeOK, ServerTypeOK, CloseOut, Piece, Outboxes
<1>7. ConnInv'
  BY <1>0, <1>3 DEF PumpEOF, ConnInv, TypeOK, AgentTypeOK, WireTypeOK, ServerTypeOK, CloseOut, OutInv, Outboxes
<1>8. ChainInv'
  BY <1>0, <1>3 DEF PumpEOF, ChainInv, TypeOK, AgentTypeOK, WireTypeOK, ServerTypeOK, CloseOut, Piece, Outboxes
<1>9. TipInv'
  BY <1>0, <1>3 DEF PumpEOF, TipInv, TypeOK, AgentTypeOK, WireTypeOK, ServerTypeOK, CloseOut, ConnInv, Outboxes
<1>10. AckInv'
  BY <1>0, <1>3 DEF PumpEOF, AckInv, TypeOK, AgentTypeOK, WireTypeOK, ServerTypeOK, CloseOut, Outboxes, ConnInv
<1> QED
  BY <1>2, <1>4, <1>5, <1>6, <1>7, <1>8, <1>9, <1>10 DEF IInv

\* What was in flight to the server is gone, and nothing is claimed of it.
LEMMA ServerLoses_Step ==
  ASSUME ConstantsAssumption, IInv, ServerLoses
  PROVE  IInv'
<1> USE DEF agentVars, wireVars, serverVars
<1>0. /\ TypeOK /\ OutInv /\ InInv /\ HandInv /\ ConnInv /\ ChainInv /\ TipInv /\ AckInv
  BY DEF IInv
<1>1. AgentTypeOK' /\ WireTypeOK' /\ ServerTypeOK'
  BY <1>0, EmptySeq DEF ServerLoses, TypeOK, AgentTypeOK, WireTypeOK, ServerTypeOK, HsMsgs, AtMostOne, ServerLets, NoMsg
<1>2. TypeOK'
  BY <1>0, <1>1 DEF TypeOK, ServerLoses
<1>3. SendPoint' = SendPoint
  BY DEF SendPoint, ServerLoses
<1>4. OutInv'
  BY <1>0, <1>3 DEF ServerLoses, OutInv, TypeOK, AgentTypeOK, WireTypeOK, ServerTypeOK, ServerLets, NoMsg, Piece
<1>5. InInv'
  BY <1>0, <1>3 DEF ServerLoses, InInv, TypeOK, AgentTypeOK, WireTypeOK, ServerTypeOK, ServerLets, NoMsg, Inbufs, Piece
<1>6. HandInv'
  BY <1>0, <1>3 DEF ServerLoses, HandInv, TypeOK, AgentTypeOK, WireTypeOK, ServerTypeOK, ServerLets, NoMsg, Piece
<1>7. ConnInv'
  BY <1>0, <1>3 DEF ServerLoses, ConnInv, TypeOK, AgentTypeOK, WireTypeOK, ServerTypeOK, ServerLets, NoMsg, OutInv
<1>8. ChainInv'
  BY <1>0, <1>3 DEF ServerLoses, ChainInv, TypeOK, AgentTypeOK, WireTypeOK, ServerTypeOK, ServerLets, NoMsg, Piece
<1>9. TipInv'
  BY <1>0, <1>3 DEF ServerLoses, TipInv, TypeOK, AgentTypeOK, WireTypeOK, ServerTypeOK, ServerLets, NoMsg, ConnInv
<1>10. AckInv'
  BY <1>0, <1>3 DEF ServerLoses, AckInv, TypeOK, AgentTypeOK, WireTypeOK, ServerTypeOK, ServerLets, NoMsg, ConnInv
<1> QED
  BY <1>2, <1>4, <1>5, <1>6, <1>7, <1>8, <1>9, <1>10 DEF IInv

\* A new server has no handle to make promises about.
LEMMA ServerRestarts_Step ==
  ASSUME ConstantsAssumption, IInv, ServerRestarts
  PROVE  IInv'
<1> USE DEF agentVars, wireVars, serverVars
<1>0. /\ TypeOK /\ OutInv /\ InInv /\ HandInv /\ ConnInv /\ ChainInv /\ TipInv /\ AckInv
  BY DEF IInv
<1>1. AgentTypeOK' /\ WireTypeOK' /\ ServerTypeOK'
  BY <1>0, EmptySeq DEF ServerRestarts, TypeOK, AgentTypeOK, WireTypeOK, ServerTypeOK, HsMsgs, AtMostOne, ServerLets, NoMsg
<1>2. TypeOK'
  BY <1>0, <1>1 DEF TypeOK, ServerRestarts
<1>3. SendPoint' = SendPoint
  BY DEF SendPoint, ServerRestarts
<1>4. OutInv'
  BY <1>0, <1>3 DEF ServerRestarts, OutInv, TypeOK, AgentTypeOK, WireTypeOK, ServerTypeOK, ServerLets, NoMsg, Piece
<1>5. InInv'
  BY <1>0, <1>3 DEF ServerRestarts, InInv, TypeOK, AgentTypeOK, WireTypeOK, ServerTypeOK, ServerLets, NoMsg, Inbufs, Piece
<1>6. HandInv'
  BY <1>0, <1>3 DEF ServerRestarts, HandInv, TypeOK, AgentTypeOK, WireTypeOK, ServerTypeOK, ServerLets, NoMsg, Piece
<1>7. ConnInv'
  BY <1>0, <1>3 DEF ServerRestarts, ConnInv, TypeOK, AgentTypeOK, WireTypeOK, ServerTypeOK, ServerLets, NoMsg, OutInv
<1>8. ChainInv'
  BY <1>0, <1>3 DEF ServerRestarts, ChainInv, TypeOK, AgentTypeOK, WireTypeOK, ServerTypeOK, ServerLets, NoMsg, Piece
<1>9. TipInv'
  BY <1>0, <1>3 DEF ServerRestarts, TipInv, TypeOK, AgentTypeOK, WireTypeOK, ServerTypeOK, ServerLets, NoMsg, ConnInv
<1>10. AckInv'
  BY <1>0, <1>3 DEF ServerRestarts, AckInv, TypeOK, AgentTypeOK, WireTypeOK, ServerTypeOK, ServerLets, NoMsg, ConnInv
<1> QED
  BY <1>2, <1>4, <1>5, <1>6, <1>7, <1>8, <1>9, <1>10 DEF IInv

\* The hello reports where the agent's buffer begins.
LEMMA Dial_Step ==
  ASSUME ConstantsAssumption, IInv, Dial
  PROVE  IInv'
<1> USE DEF agentVars, wireVars, serverVars
<1>0. /\ TypeOK /\ OutInv /\ InInv /\ HandInv /\ ConnInv /\ ChainInv /\ TipInv /\ AckInv
  BY DEF IInv
<1>1. AgentTypeOK' /\ WireTypeOK' /\ ServerTypeOK'
  BY <1>0, EmptySeq DEF Dial, TypeOK, AgentTypeOK, WireTypeOK, ServerTypeOK, HsMsgs, Outboxes, Hello
<1>2. TypeOK'
  BY <1>0, <1>1 DEF TypeOK, Dial
<1>3. WireEnd' = WireEnd /\ SendPoint' = SendPoint
  BY DEF WireEnd, SendPoint, Dial
<1>4. OutInv'
  BY <1>0, <1>3 DEF Dial, OutInv, TypeOK, AgentTypeOK, WireTypeOK, ServerTypeOK, Hello, Piece, Outboxes
<1>5. InInv'
  BY <1>0, <1>3 DEF Dial, InInv, TypeOK, AgentTypeOK, WireTypeOK, ServerTypeOK, Hello, Inbufs, Piece, Outboxes
<1>6. HandInv'
  BY <1>0, <1>3 DEF Dial, HandInv, TypeOK, AgentTypeOK, WireTypeOK, ServerTypeOK, Hello, Piece, Outboxes
<1>7. ConnInv'
  BY <1>0, <1>3 DEF Dial, ConnInv, TypeOK, AgentTypeOK, WireTypeOK, ServerTypeOK, Hello, OutInv, Outboxes
<1>8. ChainInv'
  BY <1>0, <1>3 DEF Dial, ChainInv, TypeOK, AgentTypeOK, WireTypeOK, ServerTypeOK, Hello, Piece, Outboxes
<1>9. TipInv'
  BY <1>0, <1>3 DEF Dial, TipInv, TypeOK, AgentTypeOK, WireTypeOK, ServerTypeOK, Hello, ConnInv, Outboxes
<1>10. AckInv'
  BY <1>0, <1>3 DEF Dial, AckInv, TypeOK, AgentTypeOK, WireTypeOK, ServerTypeOK, Hello, Outboxes, ConnInv
<1> QED
  BY <1>2, <1>4, <1>5, <1>6, <1>7, <1>8, <1>9, <1>10 DEF IInv

\* A handle is done only after its exit.
LEMMA HandleDone_Step ==
  ASSUME ConstantsAssumption, IInv, HandleDone
  PROVE  IInv'
<1> USE DEF agentVars, wireVars, serverVars
<1>0. /\ TypeOK /\ OutInv /\ InInv /\ HandInv /\ ConnInv /\ ChainInv /\ TipInv /\ AckInv
  BY DEF IInv
<1>1. AgentTypeOK' /\ WireTypeOK' /\ ServerTypeOK'
  BY <1>0, EmptySeq DEF HandleDone, TypeOK, AgentTypeOK, WireTypeOK, ServerTypeOK
<1>2. TypeOK'
  BY <1>0, <1>1 DEF TypeOK, HandleDone
<1>3. WireEnd' = WireEnd /\ SendPoint' = SendPoint
  BY DEF WireEnd, SendPoint, HandleDone
<1>4. OutInv'
  BY <1>0, <1>3 DEF HandleDone, OutInv, TypeOK, AgentTypeOK, WireTypeOK, ServerTypeOK, Piece
<1>5. InInv'
  BY <1>0, <1>3 DEF HandleDone, InInv, TypeOK, AgentTypeOK, WireTypeOK, ServerTypeOK, Inbufs, Piece
<1>6. HandInv'
  BY <1>0, <1>3 DEF HandleDone, HandInv, TypeOK, AgentTypeOK, WireTypeOK, ServerTypeOK, Piece
<1>7. ConnInv'
  BY <1>0, <1>3 DEF HandleDone, ConnInv, TypeOK, AgentTypeOK, WireTypeOK, ServerTypeOK, OutInv
<1>8. ChainInv'
  BY <1>0, <1>3 DEF HandleDone, ChainInv, TypeOK, AgentTypeOK, WireTypeOK, ServerTypeOK, Piece
<1>9. TipInv'
  BY <1>0, <1>3 DEF HandleDone, TipInv, TypeOK, AgentTypeOK, WireTypeOK, ServerTypeOK, ConnInv
<1>10. AckInv'
  BY <1>0, <1>3 DEF HandleDone, AckInv, TypeOK, AgentTypeOK, WireTypeOK, ServerTypeOK, ConnInv
<1> QED
  BY <1>2, <1>4, <1>5, <1>6, <1>7, <1>8, <1>9, <1>10 DEF IInv

\* A Read reports an offset it has consumed.
LEMMA ReaderNotify_Step ==
  ASSUME ConstantsAssumption, IInv, ReaderNotify
  PROVE  IInv'
<1> USE DEF agentVars, wireVars, serverVars
<1>0. /\ TypeOK /\ OutInv /\ InInv /\ HandInv /\ ConnInv /\ ChainInv /\ TipInv /\ AckInv
  BY DEF IInv
<1>1. AgentTypeOK' /\ WireTypeOK' /\ ServerTypeOK'
  BY <1>0, EmptySeq DEF ReaderNotify, TypeOK, AgentTypeOK, WireTypeOK, ServerTypeOK, AtMostOne
<1>2. TypeOK'
  BY <1>0, <1>1 DEF TypeOK, ReaderNotify
<1>3. WireEnd' = WireEnd /\ SendPoint' = SendPoint
  BY DEF WireEnd, SendPoint, ReaderNotify
<1>4. OutInv'
  BY <1>0, <1>3 DEF ReaderNotify, OutInv, TypeOK, AgentTypeOK, WireTypeOK, ServerTypeOK, Piece
<1>5. InInv'
  BY <1>0, <1>3 DEF ReaderNotify, InInv, TypeOK, AgentTypeOK, WireTypeOK, ServerTypeOK, Inbufs, Piece
<1>6. HandInv'
  BY <1>0, <1>3 DEF ReaderNotify, HandInv, TypeOK, AgentTypeOK, WireTypeOK, ServerTypeOK, Piece
<1>7. ConnInv'
  BY <1>0, <1>3 DEF ReaderNotify, ConnInv, TypeOK, AgentTypeOK, WireTypeOK, ServerTypeOK, OutInv
<1>8. ChainInv'
  BY <1>0, <1>3 DEF ReaderNotify, ChainInv, TypeOK, AgentTypeOK, WireTypeOK, ServerTypeOK, Piece
<1>9. TipInv'
  BY <1>0, <1>3 DEF ReaderNotify, TipInv, TypeOK, AgentTypeOK, WireTypeOK, ServerTypeOK, ConnInv
<1>10. AckInv'
  BY <1>0, <1>3 DEF ReaderNotify, AckInv, TypeOK, AgentTypeOK, WireTypeOK, ServerTypeOK, ConnInv
<1> QED
  BY <1>2, <1>4, <1>5, <1>6, <1>7, <1>8, <1>9, <1>10 DEF IInv

\* The reader sees EOF only when nothing is buffered.
LEMMA ReaderEOF_Step ==
  ASSUME ConstantsAssumption, IInv, ReaderEOF
  PROVE  IInv'
<1> USE DEF agentVars, wireVars, serverVars
<1>0. /\ TypeOK /\ OutInv /\ InInv /\ HandInv /\ ConnInv /\ ChainInv /\ TipInv /\ AckInv
  BY DEF IInv
<1>1. AgentTypeOK' /\ WireTypeOK' /\ ServerTypeOK'
  BY <1>0, EmptySeq DEF ReaderEOF, TypeOK, AgentTypeOK, WireTypeOK, ServerTypeOK, AtEOF
<1>2. TypeOK'
  BY <1>0, <1>1 DEF TypeOK, ReaderEOF
<1>3. WireEnd' = WireEnd /\ SendPoint' = SendPoint
  BY DEF WireEnd, SendPoint, ReaderEOF
<1>4. OutInv'
  BY <1>0, <1>3 DEF ReaderEOF, OutInv, TypeOK, AgentTypeOK, WireTypeOK, ServerTypeOK, AtEOF, Piece
<1>5. InInv'
  BY <1>0, <1>3 DEF ReaderEOF, InInv, TypeOK, AgentTypeOK, WireTypeOK, ServerTypeOK, AtEOF, Inbufs, Piece
<1>6. HandInv'
  BY <1>0, <1>3 DEF ReaderEOF, HandInv, TypeOK, AgentTypeOK, WireTypeOK, ServerTypeOK, AtEOF, Piece
<1>7. ConnInv'
  BY <1>0, <1>3 DEF ReaderEOF, ConnInv, TypeOK, AgentTypeOK, WireTypeOK, ServerTypeOK, AtEOF, OutInv
<1>8. ChainInv'
  BY <1>0, <1>3 DEF ReaderEOF, ChainInv, TypeOK, AgentTypeOK, WireTypeOK, ServerTypeOK, AtEOF, Piece
<1>9. TipInv'
  BY <1>0, <1>3 DEF ReaderEOF, TipInv, TypeOK, AgentTypeOK, WireTypeOK, ServerTypeOK, AtEOF, ConnInv
<1>10. AckInv'
  BY <1>0, <1>3 DEF ReaderEOF, AckInv, TypeOK, AgentTypeOK, WireTypeOK, ServerTypeOK, AtEOF, ConnInv
<1> QED
  BY <1>2, <1>4, <1>5, <1>6, <1>7, <1>8, <1>9, <1>10 DEF IInv

-----------------------------------------------------------------------------
\* The invariant holds initially.
LEMMA Init_IInv ==
  ASSUME Init
  PROVE  IInv
<1>0. <<>> \in Pieces(Bytes) /\ Len(<<>>) = 0 /\ PieceOf(<<>>, <<>>, 0)
      /\ <<>> \in Seq(UpMsgs) /\ <<>> \in Seq(DownMsgs)
  BY EmptySeq DEF Pieces, PieceOf
<1>1. out = NewOutbox(0) /\ inb = NewInbuf(0)
  BY DEF Init
<1>2. /\ out \in Outboxes(Bytes) /\ out.base = 0 /\ out.sent = 0 /\ out.buf = <<>> /\ ~out.eof
      /\ inb \in Inbufs(Bytes) /\ inb.next = 0 /\ inb.consumed = 0 /\ inb.buf = <<>> /\ ~inb.eof
  BY <1>0, <1>1 DEF NewOutbox, NewInbuf, Outboxes, Inbufs
<1>3. TypeOK
  BY <1>0, <1>2 DEF Init, TypeOK, AgentTypeOK, WireTypeOK, ServerTypeOK, AtMostOne, HsMsgs, NoMsg
<1>4. OutInv /\ InInv
  BY <1>0, <1>2 DEF Init, OutInv, InInv, Piece
<1>5. HandInv /\ ConnInv /\ ChainInv
  BY <1>0, <1>2 DEF Init, HandInv, ConnInv, ChainInv, NoMsg
<1>6. TipInv /\ AckInv
  BY <1>0, <1>2 DEF Init, TipInv, AckInv, WireEnd, SendPoint
<1> QED
  BY <1>3, <1>4, <1>5, <1>6 DEF IInv

-----------------------------------------------------------------------------
(* The theorems *)

\* Every step preserves the invariant.
LEMMA Next_IInv ==
  ASSUME ConstantsAssumption, IInv, [Next]_vars
  PROVE  IInv'
<1>1. CASE UNCHANGED vars
  <2> USE <1>1 DEF vars, agentVars, wireVars, serverVars
  <2>1. TypeOK'
    BY DEF IInv, TypeOK, AgentTypeOK, WireTypeOK, ServerTypeOK
  <2>2. OutInv' /\ InInv' /\ HandInv' /\ ConnInv' /\ ChainInv'
    BY DEF IInv, OutInv, InInv, HandInv, ConnInv, ChainInv, Piece
  <2>3. WireEnd' = WireEnd /\ SendPoint' = SendPoint
    BY DEF WireEnd, SendPoint
  <2>4. TipInv' /\ AckInv'
    BY <2>3 DEF IInv, TipInv, AckInv
  <2> QED
    BY <2>1, <2>2, <2>4 DEF IInv
<1>2. CASE Next
  BY <1>2, PumpWrite_Step, PumpOverflow_Step, PumpEOF_Step, FlushTake_Step, FlushSend_Step,
     FlushFail_Step, FlushEnd_Step, AgentLoses_Step, ServerLoses_Step, ServerRestarts_Step,
     Dial_Step, Attach_Step, Welcome_Step, RecvData_Step, RecvExit_Step, HandleDone_Step,
     ReaderRead_Step, ReaderNotify_Step, ReaderEOF_Step, AckerSend_Step, AgentRecv_Step
     DEF Next
<1> QED
  BY <1>1, <1>2

\* The inductive invariant holds in every behaviour.
THEOREM Invariance == Spec => []IInv
<1>1. Init => IInv
  BY Init_IInv
<1>2. IInv /\ [Next]_vars => IInv'
  BY Next_IInv, ConstantsAssumption
<1> QED
  BY <1>1, <1>2, PTL DEF Spec

\* Every variable keeps its type.
THEOREM TypeCorrect == Spec => []TypeOK
<1>1. IInv => TypeOK
  BY DEF IInv
<1> QED
  BY <1>1, Invariance, PTL

\* The gap error of inbuf.write never closes a connection, and "cannot resume at offset" never
\* ends a process: a frame starts where the inbuf ends, a welcome asks for what the outbox has.
THEOREM ReconnectsAreClean == Spec => []ReconnectIsClean
<1>1. ASSUME IInv PROVE ReconnectIsClean
  <2>1. ResumeIsPossible
    <3> SUFFICES ASSUME agent = "hello", hs.type = "resume"
                 PROVE  CanRewind(out, hs.off)
      BY DEF ResumeIsPossible
    <3>1. out.base <= hs.off /\ hs.off <= Len(hist) /\ out.base + Len(out.buf) = Len(hist)
      BY <1>1 DEF IInv, ConnInv, OutInv
    <3> QED
      BY <3>1 DEF CanRewind, OutEnd
  <2>2. NoGap
    <3> SUFFICES ASSUME server = "ready", hd = "live", toSrv # <<>>
                 PROVE  Head(toSrv).off = inb.next
      BY DEF NoGap
    <3>1. toSrv \in Seq(UpMsgs) /\ 1 \in 1..Len(toSrv) /\ Head(toSrv) = toSrv[1]
      BY <1>1, EmptySeq, LenProperties DEF IInv, TypeOK, WireTypeOK
    <3> QED
      BY <1>1, <3>1 DEF IInv, ChainInv
  <2> QED
    BY <2>1, <2>2 DEF ReconnectIsClean
<1> QED
  BY <1>1, Invariance, PTL

\* A reader that sees EOF has read the whole stdout of an exited process.
THEOREM EOFHolds == Spec => []EOFIsComplete
<1>1. IInv => EOFIsComplete
  <2> SUFFICES ASSUME IInv, eofSeen
               PROVE  proc = "exited" /\ start + Len(log) = Len(hist)
    BY DEF EOFIsComplete
  <2>1. /\ proc = "exited" /\ inb.next = Len(hist) /\ inb.buf = <<>>
        /\ start + Len(log) = inb.consumed /\ inb.consumed + Len(inb.buf) = inb.next
    BY DEF IInv, InInv
  <2>2. inb.consumed \in Nat /\ Len(<<>>) = 0
    BY WireFacts DEF IInv
  <2> QED
    BY <2>1, <2>2
<1> QED
  BY <1>1, Invariance, PTL

\* Outside of a handshake only an ack moves the buffer's start, and it does not pass the reader.
LEMMA Ack_Step ==
  ASSUME ConstantsAssumption, IInv, [Next]_vars, out'.base > out.base, agent # "hello"
  PROVE  out'.base <= inb.consumed
<1>1. /\ out \in Outboxes(Bytes) /\ hist \in Pieces(Bytes) /\ PieceOf(out.buf, hist, out.base)
      /\ out.base + Len(out.buf) = Len(hist) /\ out.base \in Nat
  BY DEF IInv, TypeOK, AgentTypeOK, Outboxes, OutInv, Piece
<1>2. ASSUME out'.base = out.base
      PROVE  FALSE
  BY <1>1, <1>2
<1>3. ASSUME UNCHANGED out
      PROVE  FALSE
  BY <1>2, <1>3
<1>4. CASE \E n \in 1..MaxRead : \E nl \in SUBSET (1..n) : PumpWrite(n, nl)
  BY <1>1, <1>2, <1>4 DEF PumpWrite, WriteOut, Outboxes
<1>5. CASE \E live \in BOOLEAN : FlushTake(live)
  BY <1>1, <1>2, <1>5 DEF FlushTake, MarkSent, Outboxes
<1>6. CASE PumpEOF
  BY <1>1, <1>2, <1>6 DEF PumpEOF, CloseOut, Outboxes
<1>7. CASE FlushFail
  BY <1>1, <1>2, <1>7 DEF FlushFail, Unsend, Outboxes
<1>8. CASE AgentRecv
  <2>1. PICK off : off = Head(toAgent).off /\ out' = Ack(out, off)
                   /\ Head(toAgent).type # "forget" /\ toAgent # <<>>
    BY <1>3, <1>8 DEF AgentRecv
  <2>2. toAgent \in Seq(DownMsgs) /\ 1 \in 1..Len(toAgent) /\ Head(toAgent) = toAgent[1]
    BY <2>1, EmptySeq, LenProperties DEF IInv, TypeOK, WireTypeOK
  <2>3. off \in Nat /\ off <= inb.consumed
    <3>1. toAgent[1].type = "ack" /\ toAgent[1].off \in Nat
      BY <2>1, <2>2, WireFacts DEF IInv
    <3> QED
      BY <2>1, <2>2, <3>1 DEF IInv, AckInv
  <2>4. LET r == Ack(out, off) IN
        r \in Outboxes(Bytes) /\ (r.base = out.base \/ (r.base <= off /\ hist[r.base].nl))
    BY <1>1, <2>3, AckFacts
  <2>5. out'.base \in Nat /\ out'.base <= off
    BY <1>2, <2>1, <2>4 DEF Outboxes
  <2>6. inb.consumed \in Nat
    BY WireFacts DEF IInv
  <2> QED
    BY <2>3, <2>5, <2>6
<1> QED
  BY <1>3, <1>4, <1>5, <1>6, <1>7, <1>8
     DEF Next, vars, agentVars, PumpOverflow, FlushSend, FlushEnd, AgentLoses, ServerLoses,
         ServerRestarts, Dial, Attach, Welcome, RecvData, RecvExit, HandleDone, ReaderRead,
         ReaderNotify, ReaderEOF, AckerSend

\* While connected, the agent drops only bytes the server's reader has consumed.
THEOREM AcksHold == Spec => AcksFollowReader
<1>1. IInv /\ [Next]_vars =>
        [out.base' > out.base /\ agent # "hello" => out.base' <= inb.consumed]_vars
  BY Ack_Step, ConstantsAssumption
<1> QED
  BY <1>1, Invariance, PTL DEF Spec, AcksFollowReader

\* A read takes the next bytes of the stream.
LEMMA Read_Consumes ==
  ASSUME ConstantsAssumption, IInv, NEW n \in 1..MaxRead, ReaderRead(n)
  PROVE  Abs!Consume
<1>1. /\ n <= Len(inb.buf) /\ log' = log \o SubSeq(inb.buf, 1, n)
      /\ UNCHANGED <<hist, start>>
  BY DEF ReaderRead, agentVars
<1>2. /\ hist \in Pieces(Bytes) /\ inb.buf \in Pieces(Bytes) /\ inb.consumed \in Nat /\ n \in Nat /\ n > 0
      /\ Len(hist) \in Nat /\ Len(inb.buf) \in Nat
      /\ PieceOf(inb.buf, hist, inb.consumed) /\ start + Len(log) = inb.consumed
  BY LenProperties
     DEF IInv, TypeOK, AgentTypeOK, ServerTypeOK, Inbufs, Pieces, ConstantsAssumption, InInv,
         Piece
<1>3. PICK c \in Nat : c = inb.consumed
  BY <1>2
<1>4. c + n \in Nat /\ c + n <= Len(hist) /\ (c + n) - c = n
  <2>1. c + Len(inb.buf) <= Len(hist)
    BY <1>2, <1>3 DEF PieceOf
  <2> QED
    BY <1>1, <1>2, <2>1
<1>5. SubSeq(inb.buf, 1, n) = SubSeq(hist, c + 1, c + n)
  <2>1. /\ SubSeq(inb.buf, 1, n) \in Seq(Bytes) /\ Len(SubSeq(inb.buf, 1, n)) = n
        /\ \A i \in 1..n : SubSeq(inb.buf, 1, n)[i] = inb.buf[i]
    BY <1>1, <1>2, SubSeqProperties DEF Pieces
  <2>2. /\ SubSeq(hist, c + 1, c + n) \in Seq(Bytes) /\ Len(SubSeq(hist, c + 1, c + n)) = n
        /\ \A i \in 1..n : SubSeq(hist, c + 1, c + n)[i] = hist[c + i]
    BY <1>2, <1>4, SubSeqProperties DEF Pieces
  <2>3. ASSUME NEW i \in 1..n
        PROVE  inb.buf[i] = hist[c + i]
    <3>1. i \in 1..Len(inb.buf)
      BY <1>1, <1>2
    <3> QED
      BY <1>2, <1>3, <3>1 DEF PieceOf
  <2> QED
    BY <2>1, <2>2, <2>3, SeqEqual
<1>6. c + n \in (c + 1)..Len(hist)
  BY <1>2, <1>4
<1> QED
  BY <1>1, <1>2, <1>3, <1>5, <1>6 DEF Abs!Consume

\* A write adds bytes at the end of the stream.
LEMMA Write_Produces ==
  ASSUME ConstantsAssumption, IInv,
         NEW n \in 1..MaxRead, NEW nl \in SUBSET (1..n), PumpWrite(n, nl)
  PROVE  Abs!Produce
<1>1. hist \in Pieces(Bytes) /\ Len(hist) \in Nat /\ n \in Nat /\ n > 0
  BY LenProperties DEF IInv, TypeOK, AgentTypeOK, ConstantsAssumption, Pieces
<1>2. PICK p \in Pieces(Bytes) : Len(p) = n /\ hist' = hist \o p
  <2> DEFINE q == [i \in 1..n |-> [pos |-> Len(hist) + i, nl |-> i \in nl]]
  <2>1. \A i \in 1..n : q[i] \in Bytes
    BY <1>1 DEF Bytes
  <2>2. q \in Pieces(Bytes) /\ Len(q) = n
    BY <1>1, <2>1, IsASeq DEF Pieces
  <2> QED
    BY <2>2 DEF PumpWrite
<1>3. /\ hist' \in Pieces(Bytes) /\ Len(hist') = Len(hist) + n
      /\ \A i \in 1..Len(hist) : hist'[i] = hist[i]
  <2>1. /\ hist \o p \in Pieces(Bytes) /\ Len(hist \o p) = Len(hist) + Len(p)
        /\ \A i \in 1..(Len(hist) + Len(p)) :
             (hist \o p)[i] = IF i <= Len(hist) THEN hist[i] ELSE p[i - Len(hist)]
    BY <1>1, ConcatProperties DEF Pieces
  <2> QED
    BY <1>1, <1>2, <2>1
<1>4. SubSeq(hist', 1, Len(hist)) = hist
  <2>1. /\ SubSeq(hist', 1, Len(hist)) \in Seq(Bytes)
        /\ Len(SubSeq(hist', 1, Len(hist))) = Len(hist)
        /\ \A i \in 1..Len(hist) : SubSeq(hist', 1, Len(hist))[i] = hist'[i]
    BY <1>1, <1>3, SubSeqProperties DEF Pieces
  <2> QED
    BY <1>1, <1>3, <2>1, SeqEqual DEF Pieces
<1> QED
  BY <1>1, <1>3, <1>4 DEF Abs!Produce, PumpWrite, serverVars

\* A server that adopts the stream begins at a line start.
LEMMA Attach_TakesOver ==
  ASSUME IInv, Attach
  PROVE  Abs!TakeOver \/ UNCHANGED <<hist, start, log>>
<1>1. CASE UNCHANGED <<hd, inb, start, log, eofSeen>>
  BY <1>1 DEF Attach, agentVars
<1>2. CASE start' = hs.off /\ log' = <<>>
  <2>1. hs.off = out.base
    BY DEF Attach, IInv, ConnInv
  <2>2. out.base \in 0..Len(hist) /\ (out.base = 0 \/ hist[out.base].nl)
    <3>1. /\ out.base + Len(out.buf) = Len(hist) /\ out.base \in Nat /\ Len(out.buf) \in Nat
          /\ (out.base = 0 \/ hist[out.base].nl)
      BY LenProperties DEF IInv, OutInv, TypeOK, AgentTypeOK, Outboxes, Pieces
    <3> QED
      BY <3>1
  <2> QED
    BY <1>2, <2>1, <2>2 DEF Attach, agentVars, Abs!TakeOver, Abs!LineStarts
<1> QED
  BY <1>1, <1>2 DEF Attach

\* The stdout direction implements ByteStream: over any number of lost connections and server
\* restarts a reader gets the bytes written, in order, each once and none missing.
THEOREM Refinement == Spec => ReaderGetsStream
<1>1. Init => Abs!Init
  BY DEF Init, Abs!Init
<1>2. IInv /\ [Next]_vars => [Abs!Next]_(Abs!vars)
  <2> SUFFICES ASSUME IInv, [Next]_vars
               PROVE  Abs!Next \/ UNCHANGED <<hist, start, log>>
    BY DEF Abs!vars
  <2>1. ASSUME NEW n \in 1..MaxRead, ReaderRead(n)
        PROVE  Abs!Next
    BY <2>1, ConstantsAssumption, Read_Consumes DEF Abs!Next
  <2>2. ASSUME NEW n \in 1..MaxRead, NEW nl \in SUBSET (1..n), PumpWrite(n, nl)
        PROVE  Abs!Next
    BY <2>2, ConstantsAssumption, Write_Produces DEF Abs!Next
  <2>3. CASE Attach
    BY <2>3, Attach_TakesOver DEF Abs!Next
  <2> QED
    BY <2>1, <2>2, <2>3
       DEF Next, vars, agentVars, serverVars, PumpOverflow, PumpEOF, FlushTake, FlushSend,
           FlushFail, FlushEnd, AgentLoses, ServerLoses, ServerRestarts, Dial, Welcome,
           RecvData, RecvExit, HandleDone, ReaderNotify, ReaderEOF, AckerSend, AgentRecv
<1> QED
  BY <1>1, <1>2, Invariance, PTL DEF Spec, ReaderGetsStream, Abs!Spec
=============================================================================
