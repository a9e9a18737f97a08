-------------------------- MODULE RemoteStdin_proof --------------------------
(***************************************************************************)
(* That the messages a server accepts for a process reach it in order, none *)
(* twice and none glued to the fragment of another's, and that a reconnect *)
(* costs neither end anything, for any limits and any number of broken     *)
(* connections and server restarts.                                        *)
(*                                                                         *)
(* The invariant speaks of a stream h: what the agent's end of the pipe    *)
(* holds, what is in flight and what is buffered are pieces of it, and the *)
(* end of it is what the present server wrote.  No variable holds h: a     *)
(* server that adopts the process starts it again where the inbuf ends.    *)
(***************************************************************************)
EXTENDS RemoteStdin, TLAPS, SequenceTheorems

\* s is the piece of the stream h that begins at offset k.
PieceOf(s, h, k) ==
  /\ k + Len(s) <= Len(h)
  /\ \A i \in 1..Len(s) : s[i] = h[k + i]

\* What may be in a stream: MessagesInOrder and NoGluedLine, said of h.
InOrder(h) ==
  /\ \A i \in 1..Len(h) :
       h[i].pos > 1 => i > 1 /\ h[i - 1].srv = h[i].srv /\ h[i - 1].pos = h[i].pos - 1
  /\ \A i, j \in 1..Len(h) : h[i] = h[j] => i = j
NotGlued(h) ==
  \A i \in 2..Len(h) : h[i].srv # h[i - 1].srv /\ ~h[i - 1].nl => h[i].nl

\* The present server's bytes are those it wrote, at the end of the stream, and whole lines.
Written(h) ==
  /\ \A i \in 1..Len(h) :
       /\ h[i].srv <= restarts
       /\ h[i].srv = restarts => hd # "none" /\ h[i].pos <= wrote
  /\ hd = "none" => wrote = 0
  /\ hd = "live" => Len(h) = 0 \/ h[Len(h)].nl
  /\ wrote > 0 => Len(h) > 0 /\ h[Len(h)].srv = restarts /\ h[Len(h)].pos = wrote

\* The outbox ends where the stream does and still has what the agent has not.
OutInv(h) ==
  hd # "none" =>
    /\ out.base + Len(out.buf) = Len(h) /\ PieceOf(out.buf, h, out.base)
    /\ out.base <= out.sent /\ out.sent <= Len(h) /\ out.base <= inb.next

\* The process was given the beginning of the stream; after its exit the inbuf only counts.
InInv(h) ==
  /\ Len(log) = inb.consumed /\ PieceOf(log, h, 0) /\ PieceOf(inb.buf, h, inb.consumed)
  /\ inb.consumed + Len(inb.buf) <= inb.next /\ inb.next <= Len(h)
  /\ ~inb.eof => inb.consumed + Len(inb.buf) = inb.next
  /\ inb.eof <=> proc = "exited"
  /\ inb.lineEnd <=> inb.next = 0 \/ h[inb.next].nl

\* A frame in hand is the last that was taken, and none of it is acknowledged.
HandInv(h) ==
  \A f \in hand :
    /\ hd # "none" /\ PieceOf(f.data, h, f.off) /\ Len(f.data) > 0
    /\ f.off + Len(f.data) = out.sent /\ out.base <= f.off
    /\ f.live => server = "ready"

\* Where the two ends of a connection can be.
ConnInv ==
  /\ agent = "off" => toAgent = <<>> /\ hs.type \in {"none", "hello"} /\ acks = {}
  /\ agent = "hello" => acks = {} /\ (server = "ready" => hs.type \in {"resume", "kill"})
  /\ agent = "on" => hs.type = "none" /\ server # "wait"
  /\ server = "off" => toSrv = <<>>
  /\ server = "wait" => toAgent = <<>> /\ toSrv = <<>> /\ hs.type \in {"none", "hello"}
  /\ due => server = "ready" /\ hd # "none"
  /\ hs.type = "hello" =>
       server = "wait" /\ hs.off = inb.next /\ hs.lineEnd = inb.lineEnd
  /\ hs.type = "kill" \/ gone =>
       toAgent = <<>> /\ ~due /\ hd # "live" /\ server # "wait" /\ \A f \in hand : ~f.live

\* The frames c continue offset k and one another.
ChainOf(c, k, h) ==
  /\ \A i \in 1..Len(c) :
       /\ c[i].off = IF i = 1 THEN k ELSE c[i - 1].off + Len(c[i - 1].data)
       /\ PieceOf(c[i].data, h, c[i].off) /\ Len(c[i].data) > 0
  /\ \A i, j \in 1..Len(c) : i < j => c[i].off + Len(c[i].data) <= c[j].off
EndOf(c, k) == IF c = <<>> THEN k ELSE c[Len(c)].off + Len(c[Len(c)].data)

\* The offset the server sends next.
SendPoint == IF hand = {} THEN out.sent ELSE (CHOOSE f \in hand : TRUE).off

\* What the server sends next continues what is in flight.
TipInv ==
  server = "ready" =>
    /\ agent # "off" /\ hd # "none" /\ hs.type # "kill" /\ ~gone
         => EndOf(toAgent, inb.next) = SendPoint
    /\ hd = "live" => inb.next <= SendPoint

\* No ack passes what the process was given.
AckInv ==
  /\ \A off \in notify \cup acks : off <= inb.consumed
  /\ \A i \in 1..Len(toSrv) : toSrv[i] <= inb.consumed

IInv(h) ==
  /\ TypeOK /\ InOrder(h) /\ NotGlued(h) /\ Written(h) /\ OutInv(h) /\ InInv(h) /\ HandInv(h)
  /\ ConnInv /\ ChainOf(toAgent, inb.next, h) /\ TipInv /\ AckInv

Inv == \E h \in Pieces(Bytes) : IInv(h)

-----------------------------------------------------------------------------
(* StreamBuffers: what its operators do to the pieces of a stream of any bytes *)

\* A part of a piece is the piece that begins as much later.
LEMMA PiecePart ==
  ASSUME NEW T, NEW s \in Pieces(T), NEW h \in Pieces(T), NEW k \in Nat, PieceOf(s, h, k),
         NEW a \in Nat, NEW b \in Nat, a <= b, b <= Len(s)
  PROVE  /\ SubSeq(s, a + 1, b) \in Pieces(T)
         /\ Len(SubSeq(s, a + 1, b)) = b - a
         /\ PieceOf(SubSeq(s, a + 1, b), h, k + a)
<1>1. /\ SubSeq(s, a + 1, b) \in Pieces(T)
      /\ Len(SubSeq(s, a + 1, b)) = b - a
      /\ \A i \in 1..(b - a) : SubSeq(s, a + 1, b)[i] = s[a + i]
  BY SubSeqProperties DEF Pieces
<1> QED
  BY <1>1 DEF PieceOf

\* Two pieces that meet are one piece.
LEMMA PieceJoin ==
  ASSUME NEW T, NEW s \in Pieces(T), NEW t \in Pieces(T), NEW h \in Pieces(T), NEW k \in Nat,
         PieceOf(s, h, k), PieceOf(t, h, k + Len(s))
  PROVE  /\ s \o t \in Pieces(T) /\ Len(s \o t) = Len(s) + Len(t)
         /\ PieceOf(s \o t, h, k)
<1>1. /\ s \o t \in Pieces(T) /\ Len(s \o t) = Len(s) + Len(t)
      /\ \A i \in 1..(Len(s) + Len(t)) :
           (s \o t)[i] = IF i <= Len(s) THEN s[i] ELSE t[i - Len(s)]
  BY ConcatProperties DEF Pieces
<1> QED
  BY <1>1 DEF PieceOf

\* A piece remains one when the stream grows.
LEMMA PieceGrows ==
  ASSUME NEW T, NEW s \in Pieces(T), NEW h \in Pieces(T), NEW p \in Pieces(T), NEW k \in Nat,
         PieceOf(s, h, k)
  PROVE  PieceOf(s, h \o p, k)
<1>1. /\ h \o p \in Pieces(T) /\ Len(h \o p) = Len(h) + Len(p)
      /\ \A i \in 1..(Len(h) + Len(p)) :
           (h \o p)[i] = IF i <= Len(h) THEN h[i] ELSE p[i - Len(h)]
  BY ConcatProperties DEF Pieces
<1> QED
  BY <1>1 DEF PieceOf

\* What ack does: it moves the start of the buffer to a line start no later than the
\* acknowledged offset and keeps the bytes after it.
LEMMA AckFacts ==
  ASSUME NEW T, NEW o \in Outboxes(T), NEW h \in Pieces(T), PieceOf(o.buf, h, o.base),
         o.base + Len(o.buf) = Len(h), NEW off \in Nat
  PROVE  LET r == Ack(o, off) IN
         /\ r \in Outboxes(T) /\ r.eof = o.eof
         /\ r.base + Len(r.buf) = Len(h) /\ PieceOf(r.buf, h, r.base)
         /\ o.base <= r.base
         /\ r.base = o.base \/ (r.base <= off /\ h[r.base].nl)
         /\ off <= o.sent => r.sent = o.sent
<1>1. CASE off <= o.base \/ off > OutEnd(o)
  BY <1>1 DEF Ack, Outboxes
<1>2. CASE ~(off <= o.base \/ off > OutEnd(o))
  <2>1. o.buf \in Pieces(T) /\ o.base \in Nat /\ o.sent \in Nat /\ o.eof \in BOOLEAN
    BY DEF Outboxes, Pieces
  <2>2. off - o.base \in Nat /\ off - o.base <= Len(o.buf) /\ off - o.base > 0
    BY <1>2, <2>1 DEF OutEnd
  <2>3. PICK cut, rest :
           /\ cut = 0 \/ cut \in LineCut(o.buf, off - o.base)
           /\ rest = SubSeq(o.buf, cut + 1, Len(o.buf))
           /\ Ack(o, off) = [base |-> o.base + cut, buf |-> rest,
                             sent |-> IF o.sent < off THEN off ELSE o.sent,
                             eof |-> o.eof]
    <3>1. CASE LineCut(o.buf, off - o.base) = {}
      BY <1>2, <3>1 DEF Ack
    <3>2. CASE LineCut(o.buf, off - o.base) # {}
      <4>1. (CHOOSE c \in LineCut(o.buf, off - o.base) : TRUE) \in LineCut(o.buf, off - o.base)
        BY <3>2
      <4> QED
        BY <1>2, <3>2, <4>1 DEF Ack
    <3> QED
      BY <3>1, <3>2
  <2>4. cut \in Nat /\ cut <= off - o.base
        /\ (cut = 0 \/ (cut \in 1..Len(o.buf) /\ o.buf[cut].nl))
    BY <2>2, <2>3 DEF LineCut
  <2>5. rest \in Pieces(T) /\ Len(rest) = Len(o.buf) - cut /\ PieceOf(rest, h, o.base + cut)
    <3>1. cut \in Nat /\ Len(o.buf) \in Nat /\ cut <= Len(o.buf)
      BY <2>1, <2>2, <2>4, LenProperties DEF Pieces
    <3>2. /\ SubSeq(o.buf, cut + 1, Len(o.buf)) \in Pieces(T)
          /\ Len(SubSeq(o.buf, cut + 1, Len(o.buf))) = Len(o.buf) - cut
          /\ PieceOf(SubSeq(o.buf, cut + 1, Len(o.buf)), h, o.base + cut)
      BY <2>1, <3>1, PiecePart
    <3>3. rest = SubSeq(o.buf, cut + 1, Len(o.buf))
      BY <2>3
    <3> QED
      BY <3>2, <3>3
  <2>6. /\ Ack(o, off).base = o.base + cut /\ Ack(o, off).buf = rest
        /\ Ack(o, off).sent = IF o.sent < off THEN off ELSE o.sent
        /\ Ack(o, off).eof = o.eof
    <3>1. Ack(o, off) = [base |-> o.base + cut, buf |-> rest,
                         sent |-> IF o.sent < off THEN off ELSE o.sent, eof |-> o.eof]
      BY <2>3, Zenon
    <3> QED
      BY <3>1
  <2>7. Ack(o, off) \in Outboxes(T) /\ Ack(o, off).eof = o.eof
    BY <2>3, <2>4, <2>1, <2>5 DEF Outboxes, Pieces
  <2>8. /\ Ack(o, off).base + Len(Ack(o, off).buf) = Len(h)
        /\ PieceOf(Ack(o, off).buf, h, Ack(o, off).base)
    BY <2>1, <2>4, <2>5, <2>6
  <2>9. /\ o.base <= Ack(o, off).base /\ Ack(o, off).base <= off
        /\ off <= o.sent => Ack(o, off).sent = o.sent
    BY <2>1, <2>2, <2>3, <2>4
  <2>10. Ack(o, off).base = o.base \/ h[Ack(o, off).base].nl
    <3>1. CASE cut = 0
      BY <3>1, <2>1, <2>3
    <3>2. CASE cut # 0
      <4>1. o.buf[cut] = h[o.base + cut] /\ o.buf[cut].nl
        BY <3>2, <2>4 DEF PieceOf
      <4> QED
        BY <4>1, <2>3
    <3> QED
      BY <3>1, <3>2
  <2> QED
    BY <2>7, <2>8, <2>9, <2>10
<1> QED
  BY <1>1, <1>2

\* Write appends to the buffer and changes nothing else.
LEMMA WriteFacts ==
  ASSUME NEW T, NEW o \in Outboxes(T), NEW p \in Pieces(T)
  PROVE  LET r == WriteOut(o, p) IN
         /\ r \in Outboxes(T) /\ r.buf = o.buf \o p
         /\ r.base = o.base /\ r.sent = o.sent /\ r.eof = o.eof
<1>1. o.buf \o p \in Pieces(T)
  BY ConcatProperties DEF Outboxes, Pieces
<1> QED
  BY <1>1 DEF WriteOut, Outboxes

\* next hands out the piece that begins at the send offset, which moves past it.
LEMMA TakeFacts ==
  ASSUME NEW T, NEW o \in Outboxes(T), NEW h \in Pieces(T), PieceOf(o.buf, h, o.base),
         o.base + Len(o.buf) = Len(h), o.base <= o.sent, o.sent <= Len(h),
         NEW max \in Nat \ {0}, ChunkLen(o, max) > 0
  PROVE  LET c == NextChunk(o, max)
             r == MarkSent(o, max)
         IN /\ c \in Pieces(T) /\ Len(c) > 0 /\ PieceOf(c, h, o.sent)
            /\ r \in Outboxes(T) /\ r.base = o.base /\ r.buf = o.buf /\ r.eof = o.eof
            /\ r.sent = o.sent + Len(c) /\ r.sent <= Len(h)
<1>1. o.base \in Nat /\ o.sent \in Nat /\ o.buf \in Pieces(T) /\ Len(o.buf) \in Nat
  BY LenProperties DEF Outboxes, Pieces
<1>2. PICK n \in Nat : n = ChunkLen(o, max)
  BY <1>1 DEF ChunkLen, OutEnd
<1>3. PICK a \in Nat : a = o.sent - o.base
  BY <1>1
<1>4. n > 0 /\ a + n <= Len(o.buf) /\ o.base + a = o.sent
  <2>1. n <= OutEnd(o) - o.sent /\ OutEnd(o) = o.base + Len(o.buf)
    BY <1>1, <1>2 DEF ChunkLen, OutEnd
  <2>2. n > 0 /\ o.base + a = o.sent
    BY <1>1, <1>2, <1>3
  <2> QED
    BY <1>1, <2>1, <2>2
<1>5. /\ SubSeq(o.buf, a + 1, a + n) \in Pieces(T)
      /\ Len(SubSeq(o.buf, a + 1, a + n)) = (a + n) - a
      /\ PieceOf(SubSeq(o.buf, a + 1, a + n), h, o.base + a)
  <2>1. a + n \in Nat /\ a <= a + n
    OBVIOUS
  <2> QED
    BY <1>1, <1>4, <2>1, PiecePart
<1>6. NextChunk(o, max) = SubSeq(o.buf, a + 1, a + n)
  BY <1>2, <1>3 DEF NextChunk
<1>7. NextChunk(o, max) \in Pieces(T) /\ Len(NextChunk(o, max)) = n
      /\ PieceOf(NextChunk(o, max), h, o.sent)
  <2>1. (a + n) - a = n
    OBVIOUS
  <2> QED
    BY <1>4, <1>5, <1>6, <2>1
<1>8. MarkSent(o, max) = [o EXCEPT !.sent = o.sent + n]
  BY <1>2 DEF MarkSent
<1>9. o.sent + n \in Nat /\ o.sent + n <= Len(h)
  <2>1. o.base + (a + n) <= o.base + Len(o.buf) /\ o.base + (a + n) = o.sent + n
    BY <1>1, <1>4
  <2> QED
    BY <1>1, <2>1
<1> QED
  BY <1>1, <1>4, <1>7, <1>8, <1>9 DEF Outboxes

\* unsend only moves the send offset, and only back inside the buffer.
LEMMA UnsendFacts ==
  ASSUME NEW T, NEW o \in Outboxes(T), NEW off \in Nat
  PROVE  LET r == Unsend(o, off) IN
         /\ r \in Outboxes(T) /\ r.base = o.base /\ r.buf = o.buf /\ r.eof = o.eof
         /\ r.sent = IF off >= o.base /\ off < o.sent THEN off ELSE o.sent
BY DEF Unsend, Outboxes

\* rewind acknowledges its offset and resumes there.
LEMMA RewindFacts ==
  ASSUME NEW T, NEW o \in Outboxes(T), NEW h \in Pieces(T), PieceOf(o.buf, h, o.base),
         o.base + Len(o.buf) = Len(h), NEW off \in Nat, CanRewind(o, off)
  PROVE  LET r == Rewind(o, off) IN
         /\ r \in Outboxes(T) /\ r.eof = o.eof /\ r.sent = off
         /\ r.base + Len(r.buf) = Len(h) /\ PieceOf(r.buf, h, r.base)
         /\ o.base <= r.base /\ r.base <= off
         /\ r.base = o.base \/ h[r.base].nl
<1> DEFINE a == Ack(o, off)
<1>1. /\ a \in Outboxes(T) /\ a.eof = o.eof
      /\ a.base + Len(a.buf) = Len(h) /\ PieceOf(a.buf, h, a.base)
      /\ o.base <= a.base
      /\ a.base = o.base \/ (a.base <= off /\ h[a.base].nl)
  BY AckFacts
<1>2. o.base <= off
  BY DEF CanRewind
<1>3. Rewind(o, off) = [a EXCEPT !.sent = off]
  BY DEF Rewind
<1> HIDE DEF a
<1> QED
  BY <1>1, <1>2, <1>3 DEF Outboxes

\* A non-empty frame that continues the inbuf is appended to it whole, unless the reader was
\* told that the stream is over: then it is only counted.
LEMMA ReceiveFacts ==
  ASSUME NEW T, \A x \in T : x.nl \in BOOLEAN,
         NEW b \in Inbufs(T), NEW h \in Pieces(T), NEW p \in Pieces(T),
         b.consumed + Len(b.buf) <= b.next, ~b.eof => b.consumed + Len(b.buf) = b.next,
         PieceOf(b.buf, h, b.consumed), Len(p) > 0, PieceOf(p, h, b.next)
  PROVE  LET r == Receive(b, b.next, p) IN
         /\ r \in Inbufs(T) /\ r.eof = b.eof /\ r.consumed = b.consumed
         /\ r.next = b.next + Len(p) /\ r.lineEnd = p[Len(p)].nl
         /\ r.buf = IF b.eof THEN b.buf ELSE b.buf \o p
         /\ r.consumed + Len(r.buf) <= r.next
         /\ ~r.eof => r.consumed + Len(r.buf) = r.next
         /\ PieceOf(r.buf, h, r.consumed)
<1>1. b.next \in Nat /\ b.consumed \in Nat /\ b.buf \in Pieces(T) /\ Len(b.buf) \in Nat
      /\ Len(p) \in Nat
  BY LenProperties DEF Inbufs, Pieces
<1>2. b.next - b.next = 0 /\ ~(0 >= Len(p)) /\ Len(p) - 0 = Len(p)
  BY <1>1
<1>3. PICK q : q = IF b.eof THEN b.buf ELSE b.buf \o p
  OBVIOUS
<1>4. /\ q \in Pieces(T) /\ PieceOf(q, h, b.consumed)
      /\ Len(q) = IF b.eof THEN Len(b.buf) ELSE Len(b.buf) + Len(p)
  <2>1. CASE b.eof
    BY <1>1, <1>3, <2>1
  <2>2. CASE ~b.eof
    BY <1>1, <1>3, <2>2, PieceJoin
  <2> QED
    BY <2>1, <2>2
<1>5. SubSeq(p, 0 + 1, Len(p)) = p
  BY SubSeqFull DEF Pieces
<1>6. PICK l \in BOOLEAN : l = p[Len(p)].nl
  <2>1. p[Len(p)] \in T
    BY <1>1, ElementOfSeq DEF Pieces
  <2> QED
    BY <2>1
<1>7. Receive(b, b.next, p) = [b EXCEPT !.buf = q, !.next = b.next + Len(p), !.lineEnd = l]
  BY <1>2, <1>3, <1>5, <1>6 DEF Receive
<1>8. PICK r : r = Receive(b, b.next, p)
  OBVIOUS
<1>9. /\ r \in Inbufs(T) /\ r.eof = b.eof /\ r.consumed = b.consumed
      /\ r.next = b.next + Len(p) /\ r.lineEnd = l /\ r.buf = q
  <2>1. q \in Pieces(T) /\ b.next + Len(p) \in Nat
    BY <1>1, <1>4
  <2> QED
    BY <1>7, <1>8, <2>1 DEF Inbufs
<1>10. r.consumed + Len(r.buf) <= r.next /\ (~r.eof => r.consumed + Len(r.buf) = r.next)
  <2>1. Len(r.buf) \in Nat /\ r.next \in Nat /\ b.eof \in BOOLEAN
    BY <1>1, <1>4, <1>9 DEF Inbufs
  <2>2. CASE b.eof
    BY <1>1, <1>4, <1>9, <2>1, <2>2
  <2>3. CASE ~b.eof
    <3>1. Len(r.buf) = Len(b.buf) + Len(p)
      BY <1>4, <1>9, <2>3
    <3>2. b.consumed + Len(b.buf) = b.next
      BY <2>3
    <3>3. r.consumed = b.consumed /\ r.next = b.next + Len(p)
      BY <1>9
    <3> QED
      BY <1>1, <3>1, <3>2, <3>3
  <2> QED
    BY <2>1, <2>2, <2>3
<1> QED
  BY <1>3, <1>4, <1>6, <1>8, <1>9, <1>10

\* A read takes the first n bytes.
LEMMA ReadFacts ==
  ASSUME NEW T, NEW b \in Inbufs(T), NEW h \in Pieces(T),
         b.consumed + Len(b.buf) = b.next, PieceOf(b.buf, h, b.consumed),
         NEW n \in Nat, n <= Len(b.buf)
  PROVE  LET r == ReadIn(b, n) IN
         /\ r \in Inbufs(T) /\ r.eof = b.eof /\ r.next = b.next
         /\ r.consumed = b.consumed + n /\ r.consumed + Len(r.buf) = r.next
         /\ PieceOf(r.buf, h, r.consumed)
<1>1. b.next \in Nat /\ b.consumed \in Nat /\ b.buf \in Pieces(T) /\ Len(b.buf) \in Nat
  BY LenProperties DEF Inbufs, Pieces
<1>2. PICK q : q = SubSeq(b.buf, n + 1, Len(b.buf))
  OBVIOUS
<1>3. q \in Pieces(T) /\ Len(q) = Len(b.buf) - n /\ PieceOf(q, h, b.consumed + n)
  BY <1>1, <1>2, PiecePart
<1>4. ReadIn(b, n) = [b EXCEPT !.buf = q, !.consumed = b.consumed + n]
  BY <1>2 DEF ReadIn
<1>5. LET r == ReadIn(b, n) IN
      /\ r \in Inbufs(T) /\ r.eof = b.eof /\ r.next = b.next
      /\ r.consumed = b.consumed + n /\ r.buf = q
  <2>1. q \in Pieces(T) /\ b.consumed + n \in Nat
    BY <1>1, <1>3
  <2> QED
    BY <1>4, <2>1 DEF Inbufs
<1> QED
  BY <1>1, <1>3, <1>5

-----------------------------------------------------------------------------
(* What is in flight, and the send point *)

\* Everything in flight lies between the end of the inbuf and the end of the chain.
LEMMA ChainSpan ==
  ASSUME NEW c \in Seq(Frames), NEW k \in Nat, NEW h, ChainOf(c, k, h)
  PROVE  /\ \A i \in 1..Len(c) :
              c[i].off \in Nat /\ c[i].data \in Pieces(Bytes) /\ Len(c[i].data) \in Nat
         /\ EndOf(c, k) \in Nat /\ k <= EndOf(c, k) /\ Len(c) \in Nat
         /\ \A i \in 1..Len(c) : c[i].off + Len(c[i].data) <= EndOf(c, k)
<1> DEFINE l == Len(c)
<1>1. l \in Nat /\ (c = <<>> \/ l \in 1..l)
  BY EmptySeq, LenProperties
<1>2. ASSUME NEW i \in 1..l
      PROVE  c[i].off \in Nat /\ c[i].data \in Pieces(Bytes) /\ Len(c[i].data) \in Nat
  <2>1. c[i] \in Frames
    BY ElementOfSeq
  <2> QED
    BY <2>1, LenProperties DEF Frames, Pieces
<1>3. CASE c = <<>>
  <2>1. l = 0
    BY <1>3, EmptySeq
  <2> QED
    BY <1>1, <1>3, <2>1 DEF EndOf
<1>4. CASE c # <<>> /\ l \in 1..l
  <2>1. EndOf(c, k) = c[l].off + Len(c[l].data)
    BY <1>4 DEF EndOf
  <2>2. c[l].off \in Nat /\ Len(c[l].data) \in Nat
    BY <1>2, <1>4
  <2>3. ASSUME NEW i \in 1..l
        PROVE  c[i].off + Len(c[i].data) <= EndOf(c, k)
    <3>1. c[i].off \in Nat /\ Len(c[i].data) \in Nat
      BY <1>2
    <3>2. CASE i = l
      BY <2>1, <2>2, <3>2
    <3>3. CASE i < l
      <4>1. c[i].off + Len(c[i].data) <= c[l].off
        BY <1>4, <3>3 DEF ChainOf
      <4>2. c[l].off <= EndOf(c, k) /\ EndOf(c, k) \in Nat
        BY <2>1, <2>2
      <4>3. c[i].off + Len(c[i].data) \in Nat
        BY <3>1
      <4> QED
        BY <2>2, <4>1, <4>2, <4>3
    <3> QED
      BY <1>1, <3>2, <3>3
  <2>4. 1 \in 1..l /\ c[1].off = k
    BY <1>4 DEF ChainOf
  <2>5. c[1].off + Len(c[1].data) <= EndOf(c, k) /\ Len(c[1].data) \in Nat
    BY <1>2, <2>3, <2>4
  <2>6. EndOf(c, k) \in Nat
    BY <2>1, <2>2
  <2> QED
    BY <1>1, <1>2, <2>3, <2>4, <2>5, <2>6
<1> QED
  BY <1>1, <1>3, <1>4

\* A frame that continues what is in flight extends the chain.
LEMMA ChainExtends ==
  ASSUME NEW c \in Seq(Frames), NEW k \in Nat, NEW h, ChainOf(c, k, h),
         NEW m \in Frames, m.off = EndOf(c, k), PieceOf(m.data, h, m.off), Len(m.data) > 0
  PROVE  /\ Append(c, m) \in Seq(Frames) /\ ChainOf(Append(c, m), k, h)
         /\ EndOf(Append(c, m), k) = m.off + Len(m.data)
<1> DEFINE l == Len(c)
<1>1. PICK d : d = Append(c, m)
  OBVIOUS
<1>2. /\ d \in Seq(Frames) /\ Len(d) = l + 1 /\ l \in Nat
      /\ \A i \in 1..l : d[i] = c[i]
      /\ d[l + 1] = m
  BY <1>1, AppendProperties, LenProperties
<1>3. m.off = IF l = 0 THEN k ELSE c[l].off + Len(c[l].data)
  BY <1>2, EmptySeq DEF EndOf
<1>4. ASSUME NEW i \in 1..(l + 1)
      PROVE  /\ d[i].off = IF i = 1 THEN k ELSE d[i - 1].off + Len(d[i - 1].data)
             /\ PieceOf(d[i].data, h, d[i].off) /\ Len(d[i].data) > 0
  <2>1. CASE i = l + 1
    <3>1. d[i] = m /\ (i # 1 => d[i - 1] = c[l])
      BY <1>2, <2>1
    <3> QED
      BY <1>2, <1>3, <2>1, <3>1
  <2>2. CASE i # l + 1
    <3>1. i \in 1..l
      BY <1>2, <2>2
    <3>2. d[i] = c[i] /\ (i # 1 => d[i - 1] = c[i - 1])
      BY <1>2, <3>1
    <3> QED
      BY <3>1, <3>2 DEF ChainOf
  <2> QED
    BY <2>1, <2>2
<1>5. ASSUME NEW i \in 1..(l + 1), NEW j \in 1..(l + 1), i < j
      PROVE  d[i].off + Len(d[i].data) <= d[j].off
  <2>1. i \in 1..l /\ d[i] = c[i]
    BY <1>2, <1>5
  <2>2. CASE j = l + 1
    BY <1>2, <2>1, <2>2, ChainSpan
  <2>3. CASE j # l + 1
    <3>1. j \in 1..l /\ d[j] = c[j]
      BY <1>2, <2>3
    <3> QED
      BY <1>5, <2>1, <3>1 DEF ChainOf
  <2> QED
    BY <2>2, <2>3
<1>6. ChainOf(d, k, h)
  BY <1>2, <1>4, <1>5 DEF ChainOf
<1>7. EndOf(d, k) = m.off + Len(m.data)
  <2>1. d # <<>> /\ d[Len(d)] = m
    BY <1>2, EmptySeq
  <2> QED
    BY <2>1 DEF EndOf
<1> QED
  BY <1>1, <1>2, <1>6, <1>7

\* When the inbuf takes the first frame, the rest continues it.
LEMMA ChainShifts ==
  ASSUME NEW c \in Seq(Frames), NEW k \in Nat, NEW h, ChainOf(c, k, h), c # <<>>,
         NEW n \in Nat, n = c[1].off + Len(c[1].data)
  PROVE  /\ Tail(c) \in Seq(Frames) /\ ChainOf(Tail(c), n, h)
         /\ EndOf(Tail(c), n) = EndOf(c, k)
<1> DEFINE l == Len(c)
<1>1. PICK d : d = Tail(c)
  OBVIOUS
<1>2. /\ d \in Seq(Frames) /\ l \in Nat /\ l # 0 /\ Len(d) = l - 1
      /\ \A i \in 1..(l - 1) : d[i] = c[i + 1]
  BY <1>1, HeadTailProperties, EmptySeq, LenProperties
<1>3. ASSUME NEW i \in 1..(l - 1)
      PROVE  /\ d[i].off = IF i = 1 THEN n ELSE d[i - 1].off + Len(d[i - 1].data)
             /\ PieceOf(d[i].data, h, d[i].off) /\ Len(d[i].data) > 0
  <2>1. i + 1 \in 1..l /\ d[i] = c[i + 1] /\ (i + 1) - 1 = i /\ i + 1 # 1
    BY <1>2
  <2>2. i # 1 => d[i - 1] = c[i]
    BY <1>2
  <2>3. /\ c[i + 1].off = c[i].off + Len(c[i].data)
        /\ PieceOf(c[i + 1].data, h, c[i + 1].off) /\ Len(c[i + 1].data) > 0
    BY <2>1 DEF ChainOf
  <2>4. d[i].off = IF i = 1 THEN n ELSE d[i - 1].off + Len(d[i - 1].data)
    BY <2>1, <2>2, <2>3
  <2> QED
    BY <2>1, <2>3, <2>4
<1>4. ASSUME NEW i \in 1..(l - 1), NEW j \in 1..(l - 1), i < j
      PROVE  d[i].off + Len(d[i].data) <= d[j].off
  <2>1. i + 1 \in 1..l /\ d[i] = c[i + 1]
    BY <1>2
  <2>2. j + 1 \in 1..l /\ d[j] = c[j + 1]
    BY <1>2
  <2>3. i + 1 < j + 1
    BY <1>2, <1>4
  <2> QED
    BY <2>1, <2>2, <2>3 DEF ChainOf
<1>5. ChainOf(d, n, h)
  BY <1>2, <1>3, <1>4 DEF ChainOf
<1>6. PICK q \in Nat : q + 1 = l
  <2>1. l - 1 \in Nat /\ (l - 1) + 1 = l
    BY <1>2
  <2> QED
    BY <2>1
<1>7. Len(d) = q
  <2>1. l - 1 = q
    BY <1>2, <1>6
  <2> QED
    BY <1>2, <2>1
<1>8. EndOf(c, k) = c[q + 1].off + Len(c[q + 1].data)
  BY <1>6 DEF EndOf
<1>9. EndOf(d, n) = EndOf(c, k)
  <2>1. CASE q = 0
    <3>1. d = <<>>
      BY <1>2, <1>7, <2>1, EmptySeq
    <3> QED
      BY <1>8, <2>1, <3>1 DEF EndOf
  <2>2. CASE q # 0
    <3>1. q \in 1..q /\ q \in 1..(l - 1)
      BY <1>2, <1>7, <2>2
    <3>2. d[q] = c[q + 1]
      BY <1>2, <3>1
    <3>3. d # <<>>
      BY <1>7, <2>2, EmptySeq
    <3> QED
      BY <1>7, <1>8, <3>2, <3>3 DEF EndOf
  <2> QED
    BY <2>1, <2>2
<1> QED
  BY <1>1, <1>2, <1>5, <1>9

\* The chain remains one when the stream grows.
LEMMA ChainGrows ==
  ASSUME NEW c \in Seq(Frames), NEW k \in Nat, NEW h \in Pieces(Bytes),
         NEW p \in Pieces(Bytes), ChainOf(c, k, h)
  PROVE  ChainOf(c, k, h \o p)
<1>1. ASSUME NEW i \in 1..Len(c)
      PROVE  PieceOf(c[i].data, h \o p, c[i].off)
  <2>1. PieceOf(c[i].data, h, c[i].off)
    BY DEF ChainOf
  <2> QED
    BY <2>1, ChainSpan, PieceGrows
<1> QED
  BY <1>1 DEF ChainOf

\* Nothing in flight is a chain.
LEMMA ChainEmpty == \A k, h : ChainOf(<<>>, k, h) /\ EndOf(<<>>, k) = k
<1>1. Len(<<>>) = 0
  BY EmptySeq
<1> QED
  BY <1>1 DEF ChainOf, EndOf

\* The send point is the frame in hand, if there is one, else the send offset.
LEMMA SendPointFacts ==
  ASSUME TypeOK, NEW h \in Pieces(Bytes), OutInv(h), HandInv(h)
  PROVE  /\ hd # "none" => SendPoint \in Nat /\ out.base <= SendPoint /\ SendPoint <= out.sent
         /\ hand = {} => SendPoint = out.sent
         /\ \A f \in hand : hand = {f} /\ SendPoint = f.off
<1>1. out.sent \in Nat /\ out.base \in Nat /\ (hd # "none" => out.base <= out.sent)
  BY DEF TypeOK, Outboxes, OutInv
<1>2. CASE hand = {}
  BY <1>1, <1>2 DEF SendPoint
<1>3. ASSUME NEW f \in hand
      PROVE  /\ SendPoint \in Nat /\ out.base <= SendPoint /\ SendPoint <= out.sent
             /\ hand = {f} /\ SendPoint = f.off
  <2>1. hand = {f}
    BY DEF TypeOK, AtMostOne
  <2>2. (CHOOSE g \in hand : TRUE) = f
    BY <2>1
  <2>3. SendPoint = f.off
    BY <2>1, <2>2 DEF SendPoint
  <2>4. f.off \in Nat /\ Len(f.data) \in Nat
    BY LenProperties DEF TypeOK, Taken, Pieces
  <2>5. f.off + Len(f.data) = out.sent /\ out.base <= f.off
    BY DEF HandInv
  <2> QED
    BY <1>1, <2>1, <2>3, <2>4, <2>5
<1> QED
  BY <1>2, <1>3

-----------------------------------------------------------------------------
(* The end of the stream *)

\* Bytes that continue the last line, or follow a newline, or begin with one, may follow.
LEMMA LineFollows ==
  ASSUME NEW h \in Pieces(Bytes), NEW p \in Pieces(Bytes), InOrder(h), NotGlued(h), Len(p) > 0,
         \A i \in 2..Len(p) : p[i].srv = p[i - 1].srv /\ p[i].pos = p[i - 1].pos + 1,
         p[1].pos > 1 => Len(h) > 0 /\ h[Len(h)].srv = p[1].srv /\ h[Len(h)].pos = p[1].pos - 1,
         \A i, j \in 1..Len(p) : p[i] = p[j] => i = j,
         \A i \in 1..Len(h), j \in 1..Len(p) : h[i] # p[j],
         Len(h) > 0 => h[Len(h)].nl \/ p[1].nl
  PROVE  InOrder(h \o p) /\ NotGlued(h \o p)
<1> DEFINE m == Len(h)
           n == Len(p)
<1>1. PICK g : g = h \o p
  OBVIOUS
<1>2. /\ m \in Nat /\ n \in Nat /\ n > 0 /\ Len(g) = m + n
      /\ \A i \in 1..m : g[i] = h[i]
      /\ \A i \in 1..n : g[m + i] = p[i]
  <2>1. /\ m \in Nat /\ n \in Nat /\ Len(g) = m + n
        /\ \A i \in 1..(m + n) : g[i] = IF i <= m THEN h[i] ELSE p[i - m]
    BY <1>1, ConcatProperties, LenProperties DEF Pieces
  <2>2. \A i \in 1..n : (m + i) - m = i /\ ~(m + i <= m) /\ m + i \in 1..(m + n)
    BY <2>1
  <2> QED
    BY <2>1, <2>2
<1>3. ASSUME NEW i \in 1..(m + n)
      PROVE  (i \in 1..m /\ g[i] = h[i]) \/ \E k \in 1..n : i = m + k /\ g[i] = p[k]
  <2>1. CASE i <= m
    BY <1>2, <2>1
  <2>2. CASE i > m
    <3>1. i - m \in 1..n /\ i = m + (i - m)
      BY <1>2, <2>2
    <3> QED
      BY <1>2, <3>1
  <2> QED
    BY <1>2, <2>1, <2>2
<1>4. ASSUME NEW k \in 1..n
      PROVE  /\ k > 1 => /\ k \in 2..n /\ (m + k) - 1 = m + (k - 1)
                         /\ g[(m + k) - 1] = p[k - 1]
             /\ k = 1 /\ m > 0 => (m + k) - 1 = m /\ g[(m + k) - 1] = h[m]
  <2>1. CASE k > 1
    <3>1. k \in 2..n /\ k - 1 \in 1..n /\ (m + k) - 1 = m + (k - 1)
      BY <1>2, <2>1
    <3> QED
      BY <1>2, <2>1, <3>1
  <2>2. CASE k = 1 /\ m > 0
    <3>1. m \in 1..m /\ (m + k) - 1 = m
      BY <1>2, <2>2
    <3> QED
      BY <1>2, <2>2, <3>1
  <2> QED
    BY <1>2, <2>1, <2>2
<1>5. ASSUME NEW i \in 1..(m + n), g[i].pos > 1
      PROVE  i > 1 /\ g[i - 1].srv = g[i].srv /\ g[i - 1].pos = g[i].pos - 1
  <2>1. CASE i \in 1..m /\ g[i] = h[i]
    <3>1. i > 1 /\ h[i - 1].srv = h[i].srv /\ h[i - 1].pos = h[i].pos - 1
      BY <1>5, <2>1 DEF InOrder
    <3>2. i - 1 \in 1..m
      BY <1>2, <2>1, <3>1
    <3> QED
      BY <1>2, <2>1, <3>1, <3>2
  <2>2. ASSUME NEW k \in 1..n, i = m + k, g[i] = p[k]
        PROVE  i > 1 /\ g[i - 1].srv = g[i].srv /\ g[i - 1].pos = g[i].pos - 1
    <3>1. CASE k > 1
      <4>1. /\ k \in 2..n /\ g[i - 1] = p[k - 1] /\ p[k].srv = p[k - 1].srv
            /\ p[k].pos = p[k - 1].pos + 1
        BY <1>4, <2>2, <3>1
      <4>2. p[k - 1] \in Bytes
        <5>1. k - 1 \in 1..n
          BY <1>2, <3>1
        <5> QED
          BY <5>1, ElementOfSeq DEF Pieces
      <4>3. i > 1
        BY <1>2, <2>2, <3>1
      <4>4. (p[k - 1].pos + 1) - 1 = p[k - 1].pos
        BY <4>2 DEF Bytes
      <4> QED
        BY <2>2, <4>1, <4>3, <4>4
    <3>2. CASE k = 1
      <4>1. m > 0 /\ h[m].srv = p[1].srv /\ h[m].pos = p[1].pos - 1
        BY <1>5, <2>2, <3>2
      <4>2. g[i - 1] = h[m] /\ i > 1
        BY <1>2, <1>4, <2>2, <3>2, <4>1
      <4> QED
        BY <2>2, <3>2, <4>1, <4>2
    <3> QED
      BY <1>2, <3>1, <3>2
  <2> QED
    BY <1>3, <2>1, <2>2
<1>6. ASSUME NEW i \in 1..(m + n), NEW j \in 1..(m + n), g[i] = g[j]
      PROVE  i = j
  <2>1. CASE i \in 1..m /\ g[i] = h[i] /\ j \in 1..m /\ g[j] = h[j]
    BY <1>6, <2>1 DEF InOrder
  <2>2. ASSUME i \in 1..m, g[i] = h[i], NEW k \in 1..n, g[j] = p[k]
        PROVE  FALSE
    BY <1>6, <2>2
  <2>3. ASSUME j \in 1..m, g[j] = h[j], NEW k \in 1..n, g[i] = p[k]
        PROVE  FALSE
    BY <1>6, <2>3
  <2>4. ASSUME NEW k \in 1..n, i = m + k, g[i] = p[k], NEW q \in 1..n, j = m + q, g[j] = p[q]
        PROVE  i = j
    BY <1>6, <2>4
  <2> QED
    BY <1>3, <2>1, <2>2, <2>3, <2>4
<1>7. ASSUME NEW i \in 2..(m + n), g[i].srv # g[i - 1].srv, ~g[i - 1].nl
      PROVE  g[i].nl
  <2>0. i \in 1..(m + n)
    BY <1>2
  <2>1. CASE i \in 1..m /\ g[i] = h[i]
    <3>1. i \in 2..m /\ i - 1 \in 1..m
      BY <1>2, <2>1
    <3>2. g[i - 1] = h[i - 1]
      BY <1>2, <3>1
    <3> QED
      BY <1>7, <2>1, <3>1, <3>2 DEF NotGlued
  <2>2. ASSUME NEW k \in 1..n, i = m + k, g[i] = p[k]
        PROVE  g[i].nl
    <3>1. CASE k > 1
      <4>1. k \in 2..n /\ g[i - 1] = p[k - 1] /\ p[k].srv = p[k - 1].srv
        BY <1>4, <2>2, <3>1
      <4> QED
        BY <1>7, <2>2, <4>1
    <3>2. CASE k = 1
      <4>1. m > 0
        BY <1>2, <2>2, <3>2
      <4>2. g[i - 1] = h[m]
        BY <1>4, <2>2, <3>2, <4>1
      <4> QED
        BY <1>7, <2>2, <3>2, <4>1, <4>2
    <3> QED
      BY <1>2, <3>1, <3>2
  <2> QED
    BY <1>3, <2>0, <2>1, <2>2
<1>8. InOrder(g) /\ NotGlued(g)
  BY <1>2, <1>5, <1>6, <1>7 DEF InOrder, NotGlued
<1> QED
  BY <1>1, <1>8

\* The beginning of a stream is one.
LEMMA Prefix ==
  ASSUME NEW h \in Pieces(Bytes), NEW g \in Pieces(Bytes), PieceOf(g, h, 0)
  PROVE  /\ InOrder(h) => InOrder(g)
         /\ NotGlued(h) => NotGlued(g)
<1>1. Len(g) \in Nat /\ Len(h) \in Nat /\ Len(g) <= Len(h)
  BY LenProperties DEF PieceOf, Pieces
<1>2. \A i \in 1..Len(g) : i \in 1..Len(h) /\ g[i] = h[i] /\ (i > 1 => i - 1 \in 1..Len(g))
  <2>1. \A i \in 1..Len(g) : g[i] = h[0 + i] /\ 0 + i = i
    BY <1>1 DEF PieceOf
  <2> QED
    BY <1>1, <2>1
<1>3. InOrder(h) => InOrder(g)
  BY <1>2 DEF InOrder
<1>4. NotGlued(h) => NotGlued(g)
  <2>1. ASSUME NEW i \in 2..Len(g)
        PROVE  i \in 2..Len(h) /\ g[i] = h[i] /\ g[i - 1] = h[i - 1]
    <3>1. i \in 1..Len(g) /\ i - 1 \in 1..Len(g) /\ i \in 2..Len(h)
      BY <1>1
    <3> QED
      BY <1>2, <3>1
  <2> QED
    BY <2>1 DEF NotGlued
<1> QED
  BY <1>3, <1>4

\* What lies within the first k bytes of a stream is of those.
LEMMA PieceShrinks ==
  ASSUME NEW s \in Pieces(Bytes), NEW h \in Pieces(Bytes), NEW o \in Nat, PieceOf(s, h, o),
         NEW k \in Nat, k <= Len(h), o + Len(s) <= k
  PROVE  PieceOf(s, SubSeq(h, 1, k), o)
<1>1. Len(h) \in Nat /\ Len(s) \in Nat
  BY LenProperties DEF Pieces
<1>2. \A i \in 1..k : h[i] \in Bytes
  BY <1>1, ElementOfSeq DEF Pieces
<1>3. Len(SubSeq(h, 1, k)) = k /\ \A i \in 1..k : SubSeq(h, 1, k)[i] = h[i]
  BY <1>1, <1>2, SubSeqProperties
<1>4. ASSUME NEW i \in 1..Len(s)
      PROVE  s[i] = h[o + i] /\ o + i \in 1..k
  <2>1. s[i] = h[o + i]
    BY DEF PieceOf
  <2> QED
    BY <1>1, <2>1
<1> QED
  BY <1>3, <1>4 DEF PieceOf

\* A server that adopts a process starts the stream again where the inbuf ends, and ends
\* the line that is cut off there.
LEMMA StreamRestarts ==
  ASSUME NEW h \in Pieces(Bytes), IInv(h), hd = "none"
  PROVE  \E g \in Pieces(Bytes), e \in Pieces(Bytes) :
           /\ e = IF inb.lineEnd THEN <<>> ELSE <<Terminator>>
           /\ Len(g) = inb.next + Len(e) /\ PieceOf(e, g, inb.next)
           /\ InOrder(g) /\ NotGlued(g) /\ InInv(g)
           /\ Len(g) = 0 \/ g[Len(g)].nl
           /\ \A i \in 1..Len(g) : g[i].srv <= restarts /\ (g[i].srv = restarts => g[i].pos = 0)
<1>1. /\ inb.next \in Nat /\ inb.consumed \in Nat /\ inb.buf \in Seq(Bytes) /\ log \in Seq(Bytes)
      /\ inb.lineEnd \in BOOLEAN /\ restarts \in Nat
  BY DEF IInv, TypeOK, Inbufs, Pieces
<1>2. /\ Len(log) = inb.consumed /\ PieceOf(log, h, 0) /\ PieceOf(inb.buf, h, inb.consumed)
      /\ inb.consumed + Len(inb.buf) <= inb.next /\ inb.next <= Len(h)
      /\ ~inb.eof => inb.consumed + Len(inb.buf) = inb.next
      /\ inb.eof <=> proc = "exited"
      /\ inb.lineEnd <=> inb.next = 0 \/ h[inb.next].nl
      /\ Len(h) \in Nat /\ Len(inb.buf) \in Nat
  BY <1>1, LenProperties DEF IInv, InInv, Pieces
<1>3. PICK g : g = SubSeq(h, 1, inb.next)
  OBVIOUS
<1>4. g \in Pieces(Bytes) /\ Len(g) = inb.next /\ \A i \in 1..inb.next : g[i] = h[i]
  <2>1. \A i \in 1..inb.next : h[i] \in Bytes
    BY <1>1, <1>2, ElementOfSeq DEF Pieces
  <2> QED
    BY <1>1, <1>3, <2>1, SubSeqProperties DEF Pieces
<1>5. PieceOf(g, h, 0)
  <2>1. \A i \in 1..inb.next : 0 + i = i
    BY <1>1
  <2> QED
    BY <1>1, <1>2, <1>4, <2>1 DEF PieceOf
<1>6. InOrder(g) /\ NotGlued(g)
  BY <1>4, <1>5, Prefix DEF IInv
<1>7. ASSUME NEW i \in 1..inb.next
      PROVE  g[i].srv <= restarts /\ g[i].srv # restarts
  <2>1. i \in 1..Len(h)
    BY <1>1, <1>2
  <2> QED
    BY <1>4, <2>1 DEF IInv, Written
<1>8. PieceOf(log, g, 0) /\ PieceOf(inb.buf, g, inb.consumed)
  <2>1. 0 + Len(log) <= inb.next /\ inb.consumed + Len(inb.buf) <= inb.next
    BY <1>1, <1>2
  <2>2. log \in Pieces(Bytes) /\ inb.buf \in Pieces(Bytes) /\ 0 \in Nat
    BY <1>1 DEF Pieces
  <2>3. PieceOf(log, SubSeq(h, 1, inb.next), 0)
    BY <1>1, <1>2, <2>1, <2>2, PieceShrinks
  <2>4. PieceOf(inb.buf, SubSeq(h, 1, inb.next), inb.consumed)
    BY <1>1, <1>2, <2>1, <2>2, PieceShrinks
  <2> QED
    BY <1>3, <2>3, <2>4
<1>9. inb.next # 0 => g[inb.next] = h[inb.next]
  BY <1>1, <1>4
<1>10. CASE inb.lineEnd
  <2>1. PICK e : e = <<>>
    OBVIOUS
  <2>2. e \in Pieces(Bytes) /\ Len(e) = 0
    BY <2>1, EmptySeq DEF Pieces
  <2>3. Len(g) = inb.next + Len(e) /\ PieceOf(e, g, inb.next)
    BY <1>1, <1>4, <2>2 DEF PieceOf
  <2>4. InInv(g)
    BY <1>2, <1>4, <1>8, <1>9 DEF InInv
  <2>5. Len(g) = 0 \/ g[Len(g)].nl
    BY <1>2, <1>4, <1>9, <1>10
  <2>6. \A i \in 1..Len(g) : g[i].srv <= restarts /\ (g[i].srv = restarts => g[i].pos = 0)
    BY <1>4, <1>7
  <2> QED
    BY <1>4, <1>6, <1>10, <2>1, <2>2, <2>3, <2>4, <2>5, <2>6
<1>11. CASE ~inb.lineEnd
  <2>1. PICK e : e = <<Terminator>>
    OBVIOUS
  <2>2. Terminator \in Bytes /\ Terminator.srv = restarts /\ Terminator.pos = 0 /\ Terminator.nl
    BY <1>1 DEF Terminator, Bytes
  <2>3. e \in Pieces(Bytes) /\ Len(e) = 1 /\ e[1] = Terminator
    BY <2>1, <2>2 DEF Pieces
  <2>4. PICK d : d = g \o e
    OBVIOUS
  <2>5. /\ d \in Pieces(Bytes) /\ Len(d) = inb.next + 1
        /\ \A i \in 1..inb.next : d[i] = g[i]
        /\ d[inb.next + 1] = Terminator
    <3>1. /\ d \in Seq(Bytes) /\ Len(d) = Len(g) + Len(e)
          /\ \A i \in 1..(Len(g) + Len(e)) : d[i] = IF i <= Len(g) THEN g[i] ELSE e[i - Len(g)]
      BY <1>4, <2>3, <2>4, ConcatProperties DEF Pieces
    <3>2. Len(d) = inb.next + 1
      BY <1>4, <2>3, <3>1
    <3>3. \A i \in 1..inb.next : d[i] = g[i]
      <4>1. \A i \in 1..inb.next : i \in 1..(inb.next + 1) /\ i <= inb.next
        BY <1>1
      <4> QED
        BY <1>4, <2>3, <3>1, <4>1
    <3>4. d[inb.next + 1] = e[1]
      <4>1. inb.next + 1 \in 1..(inb.next + 1) /\ ~(inb.next + 1 <= inb.next)
            /\ (inb.next + 1) - inb.next = 1
        BY <1>1
      <4> QED
        BY <1>4, <2>3, <3>1, <4>1
    <3> QED
      BY <2>3, <3>1, <3>2, <3>3, <3>4 DEF Pieces
  <2>6. InOrder(d) /\ NotGlued(d)
    <3>1. e[1] = Terminator /\ ~(e[1].pos > 1) /\ e[1].nl
      BY <2>2, <2>3
    <3>2. \A i, j \in 1..Len(e) : e[i] = e[j] => i = j
      BY <2>3
    <3>3. \A i \in 1..Len(g), j \in 1..Len(e) : g[i] # e[j]
      BY <1>4, <1>7, <2>2, <2>3
    <3>4. /\ Len(e) > 0
          /\ \A i \in 2..Len(e) : e[i].srv = e[i - 1].srv /\ e[i].pos = e[i - 1].pos + 1
      BY <2>3
    <3>5. InOrder(g \o e) /\ NotGlued(g \o e)
      BY <1>4, <1>6, <2>3, <3>1, <3>2, <3>3, <3>4, LineFollows
    <3> QED
      BY <2>4, <3>5
  <2>7. PieceOf(e, d, inb.next)
    <3>1. \A i \in 1..1 : e[i] = d[inb.next + i]
      BY <2>3, <2>5
    <3> QED
      BY <1>1, <2>3, <2>5, <3>1 DEF PieceOf
  <2>8. InInv(d)
    <3>1. PieceOf(log, d, 0) /\ PieceOf(inb.buf, d, inb.consumed)
      BY <1>1, <1>4, <1>8, <2>3, <2>4, PieceGrows DEF Pieces
    <3>2. inb.next <= Len(d) /\ (inb.next # 0 => d[inb.next] = h[inb.next])
      BY <1>1, <1>9, <2>5
    <3> QED
      BY <1>2, <3>1, <3>2 DEF InInv
  <2>9. d[Len(d)].nl
    BY <2>2, <2>5
  <2>10. ASSUME NEW i \in 1..Len(d)
         PROVE  d[i].srv <= restarts /\ (d[i].srv = restarts => d[i].pos = 0)
    <3>1. CASE i \in 1..inb.next
      BY <1>7, <2>5, <3>1
    <3>2. CASE i = inb.next + 1
      BY <1>1, <2>2, <2>5, <3>2
    <3> QED
      BY <1>1, <2>5, <3>1, <3>2
  <2> QED
    BY <1>11, <2>1, <2>3, <2>5, <2>6, <2>7, <2>8, <2>9, <2>10
<1> QED
  BY <1>1, <1>10, <1>11

-----------------------------------------------------------------------------
(* The steps *)

\* A message is added to the stream and to the outbox.
LEMMA WriteLine_Step ==
  ASSUME ConstantsAssumption, NEW h \in Pieces(Bytes), IInv(h), NEW n \in 1..MaxLine, WriteLine(n)
  PROVE  \E g \in Pieces(Bytes) : IInv(g)'
<1> USE DEF serverVars, wireVars, agentVars
<1>1. PICK p : /\ p = [i \in 1..n |-> [srv |-> restarts, pos |-> wrote + i, nl |-> i = n]]
               /\ hd = "live" /\ out' = WriteOut(out, p)
               /\ wrote' = wrote + n /\ due' = (due \/ server = "ready")
  BY DEF WriteLine
<1>2. UNCHANGED <<server, hd, hand, stale, hs, toAgent, toSrv, agent, inb, notify, acks, proc,
                  gone, log, drops, restarts>>
  BY DEF WriteLine
<1>3. restarts \in Nat /\ wrote \in Nat /\ n \in Nat /\ n > 0
  BY DEF IInv, TypeOK, ConstantsAssumption
<1>4. /\ p \in Pieces(Bytes) /\ Len(p) = n
      /\ \A i \in 1..n : p[i].srv = restarts /\ p[i].pos = wrote + i /\ (p[i].nl <=> i = n)
  <2>1. ASSUME NEW i \in 1..n
        PROVE  /\ p[i] \in Bytes
               /\ p[i].srv = restarts /\ p[i].pos = wrote + i /\ (p[i].nl <=> i = n)
    <3>1. p[i] = [srv |-> restarts, pos |-> wrote + i, nl |-> i = n]
      BY <1>1
    <3>2. wrote + i \in Nat /\ (i = n) \in BOOLEAN
      BY <1>3
    <3>3. p[i] \in Bytes
      BY <1>3, <3>1, <3>2 DEF Bytes
    <3>4. p[i].srv = restarts /\ p[i].pos = wrote + i
      BY <3>1
    <3>5. CASE i = n
      <4>1. p[i] = [srv |-> restarts, pos |-> wrote + i, nl |-> TRUE]
        BY <3>1, <3>5
      <4> QED
        BY <3>3, <3>4, <3>5, <4>1
    <3>6. CASE i # n
      <4>1. p[i] = [srv |-> restarts, pos |-> wrote + i, nl |-> FALSE]
        BY <3>1, <3>6
      <4> QED
        BY <3>3, <3>4, <3>6, <4>1
    <3> QED
      BY <3>5, <3>6
  <2>2. p = [i \in 1..n |-> p[i]]
    BY <1>1
  <2>3. [i \in 1..n |-> p[i]] \in Seq(Bytes) /\ Len([i \in 1..n |-> p[i]]) = n
    BY <1>3, <2>1, IsASeq
  <2> QED
    BY <2>1, <2>2, <2>3 DEF Pieces
<1>5. PICK g : g = h \o p
  OBVIOUS
<1>6. /\ g \in Pieces(Bytes) /\ Len(g) = Len(h) + n /\ Len(h) \in Nat
      /\ \A i \in 1..Len(h) : g[i] = h[i]
      /\ \A i \in 1..n : g[Len(h) + i] = p[i]
  <2>0. h \in Seq(Bytes) /\ p \in Seq(Bytes) /\ Len(h) \in Nat
    BY <1>4, LenProperties DEF Pieces
  <2>1. /\ g \in Seq(Bytes) /\ Len(g) = Len(h) + Len(p)
        /\ \A i \in 1..(Len(h) + Len(p)) : g[i] = IF i <= Len(h) THEN h[i] ELSE p[i - Len(h)]
    BY <1>5, <2>0, ConcatProperties
  <2>2. Len(p) = n
    BY <1>4
  <2>3. \A i \in 1..Len(h) : g[i] = h[i]
    BY <1>3, <2>0, <2>1, <2>2
  <2>4. ASSUME NEW i \in 1..n PROVE g[Len(h) + i] = p[i]
    <3>1. (Len(h) + i) - Len(h) = i /\ ~(Len(h) + i <= Len(h))
          /\ Len(h) + i \in 1..(Len(h) + n)
      BY <1>3, <2>0
    <3> QED
      BY <2>1, <2>2, <3>1
  <2> QED
    BY <2>0, <2>1, <2>2, <2>3, <2>4 DEF Pieces
<1>7. ASSUME NEW s \in Pieces(Bytes), NEW k \in Nat, PieceOf(s, h, k)
      PROVE  PieceOf(s, g, k)
  BY <1>4, <1>5, <1>7, PieceGrows
<1>8. /\ out' \in Outboxes(Bytes) /\ out'.buf = out.buf \o p
      /\ out'.base = out.base /\ out'.sent = out.sent /\ out'.eof = out.eof
      /\ out \in Outboxes(Bytes)
  <2>1. out \in Outboxes(Bytes) /\ p \in Pieces(Bytes)
    BY <1>4 DEF IInv, TypeOK
  <2>2. PICK r : r = WriteOut(out, p)
    OBVIOUS
  <2>3. /\ r \in Outboxes(Bytes) /\ r.buf = out.buf \o p
        /\ r.base = out.base /\ r.sent = out.sent /\ r.eof = out.eof
    BY <2>1, <2>2, WriteFacts
  <2> QED
    BY <1>1, <2>1, <2>2, <2>3
<1>9. TypeOK'
  <2>1. wrote' \in Nat /\ due' \in BOOLEAN
    BY <1>1, <1>3 DEF IInv, TypeOK
  <2> QED
    BY <1>2, <1>8, <2>1 DEF IInv, TypeOK
<1>10. ASSUME NEW i \in 1..Len(h)
       PROVE  h[i].srv = restarts => h[i].pos <= wrote /\ h[i].pos \in Nat
  <2>1. h[i] \in Bytes
    BY ElementOfSeq DEF Pieces
  <2> QED
    BY <2>1 DEF IInv, Written, Bytes
<1>11. InOrder(g) /\ NotGlued(g)
  <2>1. \A i \in 2..n : p[i].srv = p[i - 1].srv /\ p[i].pos = p[i - 1].pos + 1
    <3>1. ASSUME NEW i \in 2..n
          PROVE  p[i].srv = p[i - 1].srv /\ p[i].pos = p[i - 1].pos + 1
      <4>1. i \in 1..n /\ i - 1 \in 1..n
        BY <1>3
      <4>2. p[i].pos = wrote + i /\ p[i - 1].pos = wrote + (i - 1)
        BY <1>4, <4>1
      <4>3. wrote + i = (wrote + (i - 1)) + 1
        BY <1>3
      <4> QED
        BY <1>4, <4>1, <4>2, <4>3
    <3> QED
      BY <3>1
  <2>2. 1 \in 1..n /\ p[1].srv = restarts /\ p[1].pos = wrote + 1
    BY <1>3, <1>4
  <2>3. p[1].pos > 1 => Len(h) > 0 /\ h[Len(h)].srv = p[1].srv /\ h[Len(h)].pos = p[1].pos - 1
    BY <1>3, <2>2 DEF IInv, Written
  <2>4. \A i, j \in 1..n : p[i] = p[j] => i = j
    <3>1. ASSUME NEW i \in 1..n, NEW j \in 1..n, p[i] = p[j]
          PROVE  i = j
      <4>1. wrote + i = wrote + j
        BY <1>4, <3>1
      <4> QED
        BY <1>3, <4>1
    <3> QED
      BY <3>1
  <2>5. \A i \in 1..Len(h), j \in 1..n : h[i] # p[j]
    <3>1. ASSUME NEW i \in 1..Len(h), NEW j \in 1..n, h[i] = p[j]
          PROVE  FALSE
      <4>1. p[j].srv = restarts /\ p[j].pos = wrote + j
        BY <1>4
      <4>2. wrote + j <= wrote
        BY <1>10, <3>1, <4>1
      <4> QED
        BY <1>3, <4>2
    <3> QED
      BY <3>1
  <2>6. Len(h) > 0 => h[Len(h)].nl
    BY <1>1 DEF IInv, Written
  <2>7. InOrder(h) /\ NotGlued(h) /\ Len(p) > 0
    BY <1>3, <1>4 DEF IInv
  <2>8. InOrder(h \o p) /\ NotGlued(h \o p)
    BY <1>4, <2>1, <2>3, <2>4, <2>5, <2>6, <2>7, LineFollows
  <2> QED
    BY <1>5, <2>8
<1>12. Written(g)'
  <2>1. ASSUME NEW i \in 1..Len(g)
        PROVE  g[i].srv <= restarts /\ (g[i].srv = restarts => g[i].pos <= wrote')
    <3>1. CASE i \in 1..Len(h)
      <4>1. g[i].srv <= restarts
        BY <1>6, <3>1 DEF IInv, Written
      <4>2. g[i].srv = restarts => g[i].pos <= wrote /\ g[i].pos \in Nat
        BY <1>6, <1>10, <3>1
      <4> QED
        BY <1>1, <1>3, <4>1, <4>2
    <3>2. CASE i \notin 1..Len(h)
      <4>1. i - Len(h) \in 1..n /\ Len(h) + (i - Len(h)) = i
        BY <1>3, <1>6, <3>2
      <4>2. g[i] = p[i - Len(h)]
        BY <1>6, <4>1
      <4>3. g[i].srv = restarts /\ g[i].pos = wrote + (i - Len(h))
        BY <1>4, <4>1, <4>2
      <4> QED
        BY <1>1, <1>3, <4>1, <4>3
    <3> QED
      BY <3>1, <3>2
  <2>2. Len(g) > 0 /\ g[Len(g)] = p[n]
    <3>1. n \in 1..n /\ Len(h) + n > 0
      BY <1>3, <1>6
    <3> QED
      BY <1>6, <3>1
  <2>3. g[Len(g)].nl /\ g[Len(g)].srv = restarts /\ g[Len(g)].pos = wrote'
    <3>1. n \in 1..n
      BY <1>3
    <3>2. p[n].nl /\ p[n].srv = restarts /\ p[n].pos = wrote + n
      BY <1>4, <3>1
    <3> QED
      BY <1>1, <2>2, <3>2
  <2> QED
    BY <1>1, <1>2, <2>1, <2>2, <2>3 DEF Written
<1>13. OutInv(g)'
  <2>1. /\ out.base \in Nat /\ out.sent \in Nat /\ out.buf \in Pieces(Bytes)
        /\ out.base + Len(out.buf) = Len(h) /\ PieceOf(out.buf, h, out.base)
        /\ out.base <= out.sent /\ out.sent <= Len(h) /\ out.base <= inb.next
        /\ Len(out.buf) \in Nat
    BY <1>1, <1>8, LenProperties DEF IInv, OutInv, Outboxes, Pieces
  <2>2. PieceOf(out.buf, g, out.base) /\ PieceOf(p, g, out.base + Len(out.buf))
    <3>1. PieceOf(p, g, Len(h))
      BY <1>4, <1>6 DEF PieceOf
    <3> QED
      BY <1>7, <2>1, <3>1
  <2>3. Len(out.buf \o p) = Len(out.buf) + n /\ PieceOf(out.buf \o p, g, out.base)
    <3>0. /\ out.buf \in Pieces(Bytes) /\ p \in Pieces(Bytes) /\ g \in Pieces(Bytes)
          /\ out.base \in Nat
      BY <1>4, <1>6, <2>1
    <3>1. Len(out.buf \o p) = Len(out.buf) + Len(p) /\ PieceOf(out.buf \o p, g, out.base)
      BY <2>2, <3>0, PieceJoin
    <3> QED
      BY <1>4, <3>1
  <2>4. out.base + (Len(out.buf) + n) = Len(g) /\ out.sent <= Len(g)
    <3>1. Len(g) = Len(h) + n /\ Len(h) \in Nat /\ n \in Nat
      BY <1>3, <1>6
    <3> QED
      BY <2>1, <3>1
  <2> QED
    BY <1>2, <1>8, <2>1, <2>3, <2>4 DEF OutInv
<1>14. InInv(g)'
  <2>1. /\ inb.consumed \in Nat /\ inb.buf \in Pieces(Bytes) /\ log \in Pieces(Bytes)
        /\ inb.next \in Nat
    BY DEF IInv, TypeOK, Inbufs
  <2>2. PieceOf(inb.buf, g, inb.consumed) /\ PieceOf(log, g, 0)
    BY <1>7, <2>1 DEF IInv, InInv
  <2>3. inb.next <= Len(h) /\ (inb.next = 0 \/ inb.next \in 1..Len(h))
    BY <1>6, <2>1 DEF IInv, InInv
  <2>4. inb.next <= Len(g) /\ (inb.next # 0 => g[inb.next] = h[inb.next])
    BY <1>3, <1>6, <2>1, <2>3
  <2> QED
    BY <1>2, <2>2, <2>4 DEF IInv, InInv
<1>15. HandInv(g)'
  <2>1. ASSUME NEW f \in hand PROVE PieceOf(f.data, g, f.off)
    <3>1. f.data \in Pieces(Bytes) /\ f.off \in Nat
      BY DEF IInv, TypeOK, Taken
    <3> QED
      BY <1>7, <3>1 DEF IInv, HandInv
  <2> QED
    BY <1>2, <1>8, <2>1 DEF IInv, HandInv
<1>16. ConnInv'
  BY <1>1, <1>2 DEF IInv, ConnInv
<1>17. ChainOf(toAgent, inb.next, g)'
  <2>1. toAgent \in Seq(Frames) /\ inb.next \in Nat /\ ChainOf(toAgent, inb.next, h)
    BY DEF IInv, TypeOK, Inbufs
  <2>2. ChainOf(toAgent, inb.next, g)
    BY <1>4, <1>5, <2>1, ChainGrows
  <2> QED
    BY <1>2, <2>2
<1>18. TipInv' /\ AckInv'
  <2>1. SendPoint' = SendPoint
    BY <1>2, <1>8 DEF SendPoint
  <2> QED
    BY <1>2, <2>1 DEF IInv, TipInv, AckInv
<1> QED
  BY <1>6, <1>9, <1>11, <1>12, <1>13, <1>14, <1>15, <1>16, <1>17, <1>18 DEF IInv

\* A chunk taken from the outbox is a frame in hand: the send point stays where it was.
LEMMA FlushTake_Step ==
  ASSUME ConstantsAssumption, NEW h \in Pieces(Bytes), IInv(h),
         NEW live \in BOOLEAN, FlushTake(live)
  PROVE  IInv(h)'
<1> USE DEF serverVars, wireVars, agentVars
<1>1. /\ out \in Outboxes(Bytes) /\ MaxChunk \in Nat \ {0} /\ hand = {} /\ hd # "none"
      /\ ChunkLen(out, MaxChunk) > 0 /\ out' = MarkSent(out, MaxChunk)
      /\ hand' = {[off |-> out.sent, data |-> NextChunk(out, MaxChunk), live |-> live]}
      /\ live => due /\ server = "ready"
  BY DEF IInv, TypeOK, ConstantsAssumption, FlushTake
<1>2. UNCHANGED <<server, hd, wrote, due, stale, hs, toAgent, toSrv, agent, inb, notify, acks,
                  proc, gone, log, drops, restarts>>
  BY DEF FlushTake
<1>3. /\ PieceOf(out.buf, h, out.base) /\ out.base + Len(out.buf) = Len(h)
      /\ out.base <= out.sent /\ out.sent <= Len(h)
      /\ out.sent \in Nat /\ out.base \in Nat /\ Len(h) \in Nat
  BY <1>1, LenProperties DEF IInv, OutInv, Outboxes, Pieces
<1>4. PICK c \in Pieces(Bytes) :
        /\ c = NextChunk(out, MaxChunk)
        /\ Len(c) > 0 /\ PieceOf(c, h, out.sent)
        /\ out' \in Outboxes(Bytes) /\ out'.base = out.base /\ out'.buf = out.buf
        /\ out'.eof = out.eof /\ out'.sent = out.sent + Len(c) /\ out'.sent <= Len(h)
  BY <1>1, <1>3, TakeFacts
<1>5. PICK f : f = [off |-> out.sent, data |-> c, live |-> live]
  OBVIOUS
<1>6. hand' = {f}
  BY <1>1, <1>4, <1>5
<1>7. f \in Taken /\ f.off = out.sent /\ f.data = c /\ f.live = live
  BY <1>3, <1>5 DEF Taken
<1>8. TypeOK'
  <2>1. hand' \subseteq Taken /\ AtMostOne(hand')
    BY <1>6, <1>7 DEF AtMostOne
  <2> QED
    BY <1>2, <1>4, <2>1 DEF IInv, TypeOK
<1>9. Written(h)' /\ InInv(h)'
  BY <1>2 DEF IInv, Written, InInv
<1>10. OutInv(h)'
  <2>1. out'.base <= out'.sent
    BY <1>3, <1>4, LenProperties DEF Pieces
  <2> QED
    BY <1>2, <1>4, <2>1 DEF IInv, OutInv
<1>11. HandInv(h)'
  BY <1>1, <1>2, <1>3, <1>4, <1>6, <1>7 DEF IInv, HandInv
<1>12. ConnInv'
  BY <1>1, <1>2, <1>6, <1>7 DEF IInv, ConnInv
<1>13. ChainOf(toAgent, inb.next, h)' /\ AckInv'
  BY <1>2 DEF IInv, AckInv
<1>14. SendPoint' = SendPoint
  <2>1. SendPoint = out.sent
    BY <1>1 DEF SendPoint
  <2>2. (CHOOSE g \in {f} : TRUE) = f
    OBVIOUS
  <2>3. SendPoint' = out.sent
    BY <1>6, <1>7, <2>2 DEF SendPoint
  <2> QED
    BY <2>1, <2>3
<1>15. TipInv'
  BY <1>2, <1>14 DEF IInv, TipInv
<1> QED
  BY <1>8, <1>9, <1>10, <1>11, <1>12, <1>13, <1>15 DEF IInv

\* A frame sent continues what is in flight.
LEMMA FlushSend_Step ==
  ASSUME NEW h \in Pieces(Bytes), IInv(h), FlushSend
  PROVE  IInv(h)'
<1> USE DEF serverVars, wireVars, agentVars
<1>1. PICK f \in hand :
        /\ f.live
        /\ toAgent' = IF agent = "off" THEN toAgent
                      ELSE Append(toAgent, [off |-> f.off, data |-> f.data])
  BY DEF FlushSend
<1>2. hand' = {}
      /\ UNCHANGED <<server, hd, out, wrote, due, stale, hs, toSrv, agent, inb, notify, acks,
                     proc, gone, log, drops, restarts>>
  BY DEF FlushSend
<1>3. /\ f.off \in Nat /\ f.data \in Pieces(Bytes) /\ Len(f.data) \in Nat /\ Len(f.data) > 0
      /\ f.off + Len(f.data) = out.sent /\ PieceOf(f.data, h, f.off) /\ SendPoint = f.off
      /\ server = "ready" /\ hd # "none" /\ hs.type # "kill" /\ ~gone
  BY <1>1, SendPointFacts, LenProperties DEF IInv, TypeOK, Taken, HandInv, ConnInv, Pieces
<1>4. PICK m : m = [off |-> f.off, data |-> f.data]
  OBVIOUS
<1>5. m \in Frames /\ m.off = f.off /\ m.data = f.data
  BY <1>3, <1>4 DEF Frames
<1>6. toAgent \in Seq(Frames) /\ inb.next \in Nat /\ ChainOf(toAgent, inb.next, h)
  BY DEF IInv, TypeOK, Inbufs
<1>7. agent # "off" =>
        /\ toAgent' \in Seq(Frames) /\ ChainOf(toAgent', inb.next, h)
        /\ EndOf(toAgent', inb.next) = out.sent
  <2>1. SUFFICES ASSUME agent # "off"
                 PROVE  /\ toAgent' \in Seq(Frames) /\ ChainOf(toAgent', inb.next, h)
                        /\ EndOf(toAgent', inb.next) = out.sent
    OBVIOUS
  <2>2. toAgent' = Append(toAgent, m)
    BY <1>1, <1>4, <2>1
  <2>3. m.off = EndOf(toAgent, inb.next)
    BY <1>3, <1>5, <2>1 DEF IInv, TipInv
  <2> QED
    BY <1>3, <1>5, <1>6, <2>2, <2>3, ChainExtends
<1>8. TypeOK'
  BY <1>1, <1>2, <1>7 DEF IInv, TypeOK, AtMostOne
<1>9. Written(h)' /\ OutInv(h)' /\ InInv(h)' /\ HandInv(h)'
  BY <1>2 DEF IInv, Written, OutInv, InInv, HandInv
<1>10. ConnInv'
  BY <1>1, <1>2, <1>3 DEF IInv, ConnInv
<1>11. ChainOf(toAgent, inb.next, h)' /\ AckInv'
  BY <1>1, <1>2, <1>6, <1>7 DEF IInv, AckInv
<1>12. SendPoint' = out.sent /\ (hd = "live" => inb.next <= SendPoint')
  <2>1. SendPoint' = out.sent
    BY <1>2 DEF SendPoint
  <2>2. out.sent \in Nat /\ SendPoint <= out.sent /\ SendPoint \in Nat
    BY <1>3, SendPointFacts DEF IInv, TypeOK, Outboxes
  <2>3. hd = "live" => inb.next <= SendPoint
    BY <1>3 DEF IInv, TipInv
  <2> QED
    BY <1>6, <2>1, <2>2, <2>3
<1>13. TipInv'
  BY <1>2, <1>7, <1>12 DEF TipInv
<1> QED
  BY <1>8, <1>9, <1>10, <1>11, <1>13 DEF IInv

\* A chunk that could not be sent is taken back, so the send point stays where it was.
LEMMA FlushFail_Step ==
  ASSUME NEW h \in Pieces(Bytes), IInv(h), FlushFail
  PROVE  IInv(h)'
<1> USE DEF serverVars, wireVars, agentVars
<1>1. PICK f \in hand : out' = Unsend(out, f.off) /\ ~f.live
  BY DEF FlushFail
<1>2. hand' = {} /\ stale' = FALSE
      /\ UNCHANGED <<server, hd, wrote, due, hs, toAgent, toSrv, agent, inb, notify, acks,
                     proc, gone, log, drops, restarts>>
  BY DEF FlushFail
<1>3. /\ f.off \in Nat /\ Len(f.data) \in Nat /\ Len(f.data) > 0 /\ hd # "none"
      /\ f.off + Len(f.data) = out.sent /\ out.base <= f.off /\ SendPoint = f.off
      /\ out \in Outboxes(Bytes) /\ out.sent \in Nat /\ out.base \in Nat /\ Len(h) \in Nat
  BY SendPointFacts, LenProperties DEF IInv, TypeOK, Taken, HandInv, Pieces, Outboxes
<1>4. /\ out' \in Outboxes(Bytes) /\ out'.base = out.base /\ out'.buf = out.buf
      /\ out'.eof = out.eof /\ out'.sent = f.off
  <2>1. f.off >= out.base /\ f.off < out.sent
    BY <1>3
  <2> QED
    BY <1>1, <1>3, <2>1, UnsendFacts
<1>5. TypeOK'
  BY <1>2, <1>4 DEF IInv, TypeOK, AtMostOne
<1>6. OutInv(h)'
  <2>1. out.sent <= Len(h)
    BY <1>3 DEF IInv, OutInv
  <2>2. out'.sent <= Len(h)
    BY <1>3, <1>4, <2>1
  <2> QED
    BY <1>2, <1>3, <1>4, <2>2 DEF IInv, OutInv
<1>7. Written(h)' /\ InInv(h)' /\ HandInv(h)' /\ ConnInv'
  BY <1>2 DEF IInv, Written, InInv, HandInv, ConnInv
<1>8. SendPoint' = SendPoint
  BY <1>2, <1>3, <1>4 DEF SendPoint
<1>9. ChainOf(toAgent, inb.next, h)' /\ TipInv' /\ AckInv'
  BY <1>2, <1>8 DEF IInv, TipInv, AckInv
<1> QED
  BY <1>5, <1>6, <1>7, <1>9 DEF IInv

\* A flush that found nothing to send changes no byte.
LEMMA FlushEnd_Step ==
  ASSUME NEW h \in Pieces(Bytes), IInv(h), FlushEnd
  PROVE  IInv(h)'
<1> USE DEF serverVars, wireVars, agentVars
<1>1. TypeOK'
  BY DEF FlushEnd, IInv, TypeOK, AtMostOne
<1>2. Written(h)' /\ OutInv(h)'
  BY DEF FlushEnd, IInv, TypeOK, Written, OutInv, Outboxes
<1>3. InInv(h)'
  BY DEF FlushEnd, IInv, TypeOK, InInv, Inbufs
<1>4. HandInv(h)'
  BY DEF FlushEnd, IInv, TypeOK, HandInv
<1>5. ConnInv'
  BY DEF FlushEnd, IInv, TypeOK, ConnInv
<1>6. ChainOf(toAgent, inb.next, h)'
  BY ChainEmpty DEF FlushEnd, IInv, TypeOK, Inbufs
<1>7. TipInv'
  BY ChainEmpty DEF FlushEnd, IInv, TypeOK, ConnInv, TipInv, SendPoint, Inbufs
<1>8. AckInv'
  BY EmptySeq DEF FlushEnd, IInv, TypeOK, AckInv, Inbufs
<1> QED
  BY <1>1, <1>2, <1>3, <1>4, <1>5, <1>6, <1>7, <1>8 DEF IInv

\* A flush that held the lost connection has a frame it cannot send.
LEMMA ServerLoses_Step ==
  ASSUME NEW h \in Pieces(Bytes), IInv(h), ServerLoses
  PROVE  IInv(h)'
<1> USE DEF serverVars, wireVars, agentVars
<1>1. /\ server' = "off" /\ due' = FALSE /\ toSrv' = <<>> /\ stale' \in BOOLEAN /\ drops' \in Nat
      /\ hs' = IF hs.type = "hello" THEN NoMsg ELSE hs
      /\ hand' = {[f EXCEPT !.live = FALSE] : f \in hand}
      /\ UNCHANGED <<hd, out, wrote, toAgent, agent, inb, notify, acks, proc, gone, log, restarts>>
  BY DEF ServerLoses, ServerLets, IInv, TypeOK
<1>2. ASSUME NEW g \in hand'
      PROVE  \E f \in hand : /\ g \in Taken /\ g.off = f.off /\ g.data = f.data /\ g.live = FALSE
                             /\ g = [f EXCEPT !.live = FALSE]
  <2>1. PICK f \in hand : g = [f EXCEPT !.live = FALSE]
    BY <1>1
  <2>2. f \in Taken
    BY DEF IInv, TypeOK
  <2> QED
    BY <2>1, <2>2 DEF Taken
<1>3. TypeOK'
  <2>1. hs' \in HsMsgs
    BY <1>1 DEF IInv, TypeOK, HsMsgs, NoMsg
  <2>2. hand' \subseteq Taken
    BY <1>2
  <2>3. AtMostOne(hand')
    BY <1>1, <1>2 DEF IInv, TypeOK, AtMostOne
  <2> QED
    BY <1>1, <2>1, <2>2, <2>3, EmptySeq DEF IInv, TypeOK
<1>4. Written(h)' /\ OutInv(h)' /\ InInv(h)'
  BY <1>1 DEF IInv, Written, OutInv, InInv
<1>5. HandInv(h)'
  <2>1. ASSUME NEW g \in hand'
        PROVE  /\ hd # "none" /\ PieceOf(g.data, h, g.off) /\ Len(g.data) > 0
               /\ g.off + Len(g.data) = out.sent /\ out.base <= g.off /\ ~g.live
    BY <1>2 DEF IInv, HandInv
  <2> QED
    BY <1>1, <2>1 DEF HandInv
<1>6. ConnInv'
  BY <1>1, <1>2 DEF IInv, ConnInv, NoMsg
<1>7. ChainOf(toAgent, inb.next, h)' /\ TipInv' /\ AckInv'
  BY <1>1, EmptySeq DEF IInv, TipInv, AckInv
<1> QED
  BY <1>3, <1>4, <1>5, <1>6, <1>7 DEF IInv

\* A new server has written nothing yet; what is in flight is still of the stream.
LEMMA ServerRestarts_Step ==
  ASSUME NEW h \in Pieces(Bytes), IInv(h), ServerRestarts
  PROVE  IInv(h)'
<1> USE DEF serverVars, wireVars, agentVars
<1>1. /\ server' = "off" /\ hd' = "none" /\ wrote' = 0 /\ hand' = {} /\ restarts' = restarts + 1
      /\ out' = NewOutbox(0) /\ due' = FALSE /\ stale' = FALSE /\ toSrv' = <<>>
      /\ hs' = IF hs.type = "hello" THEN NoMsg ELSE hs
      /\ UNCHANGED <<toAgent, agent, inb, notify, acks, proc, gone, log, drops>>
  BY DEF ServerRestarts, ServerLets
<1>2. NewOutbox(0) \in Outboxes(Bytes)
  BY EmptySeq DEF NewOutbox, Outboxes, Pieces
<1>3. TypeOK'
  <2>1. hs' \in HsMsgs /\ restarts' \in Nat
    BY <1>1 DEF IInv, TypeOK, HsMsgs, NoMsg
  <2> QED
    BY <1>1, <1>2, <2>1, EmptySeq DEF IInv, TypeOK, AtMostOne
<1>4. Written(h)'
  <2>1. ASSUME NEW i \in 1..Len(h)
        PROVE  h[i].srv <= restarts' /\ h[i].srv # restarts'
    <3>1. h[i].srv \in Nat /\ restarts \in Nat
      <4>1. h[i] \in Bytes
        BY ElementOfSeq DEF Pieces
      <4> QED
        BY <4>1 DEF IInv, TypeOK, Bytes
    <3>2. h[i].srv <= restarts
      BY DEF IInv, Written
    <3> QED
      BY <1>1, <3>1, <3>2
  <2> QED
    BY <1>1, <2>1 DEF Written
<1>5. OutInv(h)' /\ InInv(h)' /\ HandInv(h)'
  BY <1>1 DEF IInv, OutInv, InInv, HandInv
<1>6. ConnInv'
  BY <1>1, EmptySeq DEF IInv, ConnInv, NoMsg
<1>7. ChainOf(toAgent, inb.next, h)' /\ TipInv' /\ AckInv'
  BY <1>1, EmptySeq DEF IInv, TipInv, AckInv
<1> QED
  BY <1>3, <1>4, <1>5, <1>6, <1>7 DEF IInv

\* What is in flight to the agent is lost with its end of the connection.
LEMMA AgentLoses_Step ==
  ASSUME NEW h \in Pieces(Bytes), IInv(h), AgentLoses
  PROVE  IInv(h)'
<1> USE DEF serverVars, wireVars, agentVars
<1>1. TypeOK'
  BY EmptySeq DEF AgentLoses, IInv, TypeOK, AtMostOne, HsMsgs, NoMsg
<1>2. Written(h)' /\ OutInv(h)'
  BY EmptySeq DEF AgentLoses, IInv, TypeOK, Written, OutInv, Outboxes
<1>3. InInv(h)'
  BY EmptySeq DEF AgentLoses, IInv, TypeOK, InInv, Inbufs
<1>4. HandInv(h)'
  BY EmptySeq DEF AgentLoses, IInv, TypeOK, HandInv
<1>5. ConnInv'
  BY EmptySeq DEF AgentLoses, IInv, TypeOK, ConnInv, HsMsgs, NoMsg
<1>6. ChainOf(toAgent, inb.next, h)'
  BY ChainEmpty, EmptySeq DEF AgentLoses, IInv, TypeOK, Inbufs
<1>7. TipInv'
  BY ChainEmpty, EmptySeq DEF AgentLoses, IInv, TypeOK, ConnInv, TipInv, SendPoint, Inbufs
<1>8. AckInv'
  BY EmptySeq, EmptySeq DEF AgentLoses, IInv, TypeOK, AckInv, Inbufs
<1> QED
  BY <1>1, <1>2, <1>3, <1>4, <1>5, <1>6, <1>7, <1>8 DEF IInv

\* The hello says where the inbuf ends.
LEMMA Dial_Step ==
  ASSUME NEW h \in Pieces(Bytes), IInv(h), Dial
  PROVE  IInv(h)'
<1> USE DEF serverVars, wireVars, agentVars
<1>1. TypeOK'
  BY EmptySeq DEF Dial, Hello, IInv, TypeOK, AtMostOne, HsMsgs, Inbufs
<1>2. Written(h)' /\ OutInv(h)'
  BY EmptySeq DEF Dial, Hello, IInv, TypeOK, Written, OutInv, Outboxes
<1>3. InInv(h)'
  BY EmptySeq DEF Dial, Hello, IInv, TypeOK, InInv, Inbufs
<1>4. HandInv(h)'
  BY EmptySeq DEF Dial, Hello, IInv, TypeOK, HandInv
<1>5. ConnInv'
  BY EmptySeq DEF Dial, Hello, IInv, TypeOK, ConnInv, HsMsgs
<1>6. ChainOf(toAgent, inb.next, h)'
  BY ChainEmpty, EmptySeq DEF Dial, Hello, IInv, TypeOK, Inbufs
<1>7. TipInv'
  BY ChainEmpty, EmptySeq DEF Dial, Hello, IInv, TypeOK, ConnInv, TipInv, SendPoint, Inbufs
<1>8. AckInv'
  BY EmptySeq, EmptySeq DEF Dial, Hello, IInv, TypeOK, AckInv, Inbufs
<1> QED
  BY <1>1, <1>2, <1>3, <1>4, <1>5, <1>6, <1>7, <1>8 DEF IInv

\* A resume sends again from where the inbuf ends; an adoption starts the stream again there;
\* a process that the server wants no more is sent nothing.
LEMMA Attach_Step ==
  ASSUME NEW h \in Pieces(Bytes), IInv(h), Attach
  PROVE  \E g \in Pieces(Bytes) : IInv(g)'
<1> USE DEF serverVars, wireVars, agentVars
<1>1. /\ server = "wait" /\ hs.type = "hello" /\ hand = {} /\ server' = "ready"
      /\ UNCHANGED <<wrote, hand, stale, toAgent, toSrv, agent, inb, notify, acks, proc, gone,
                     log, drops, restarts>>
  BY DEF Attach
<1>2. /\ toAgent = <<>> /\ toSrv = <<>> /\ ~due /\ ~gone /\ agent \in {"off", "hello"}
      /\ hs.off = inb.next /\ hs.lineEnd = inb.lineEnd /\ acks = {}
  BY <1>1 DEF IInv, TypeOK, ConnInv
<1>3. /\ inb.next \in Nat /\ out \in Outboxes(Bytes) /\ out.base \in Nat /\ out.sent \in Nat
      /\ out.buf \in Pieces(Bytes) /\ restarts \in Nat /\ wrote \in Nat /\ hs \in HsMsgs
      /\ Len(h) \in Nat
  BY LenProperties DEF IInv, TypeOK, Inbufs, Outboxes, Pieces
<1>4. AckInv' /\ InInv(h)'
  BY <1>1 DEF IInv, AckInv, InInv
<1>5. \A g : ChainOf(toAgent, inb.next, g)' /\ EndOf(toAgent, inb.next)' = inb.next
  BY <1>1, <1>2, ChainEmpty
<1>6. \A g : HandInv(g)'
  BY <1>1 DEF HandInv
<1>7. \A a \in {"resume", "kill"} : Answered(a) \in HsMsgs /\ Answered(a).type = a
  BY DEF Answered, NoMsg, HsMsgs
<1>8. NoMsg \in HsMsgs /\ NoMsg.type = "none"
  BY DEF NoMsg, HsMsgs
<1>9. ASSUME out' \in Outboxes(Bytes), due', hd' = "live", out'.sent = inb.next,
             hs' = IF agent = "hello" THEN Answered("resume") ELSE NoMsg
      PROVE  TypeOK' /\ ConnInv' /\ TipInv'
  <2>1. hs' \in HsMsgs /\ hs'.type \in {"none", "resume"}
        /\ (agent = "hello" => hs'.type = "resume") /\ (agent = "off" => hs'.type = "none")
    BY <1>7, <1>8, <1>9
  <2>2. due' \in BOOLEAN
    BY <1>1, <1>2, <1>9 DEF Attach
  <2>3. TypeOK'
    BY <1>1, <1>9, <2>1, <2>2 DEF IInv, TypeOK
  <2>4. ConnInv'
    BY <1>1, <1>2, <1>9, <2>1 DEF IInv, ConnInv
  <2>5. SendPoint' = inb.next
    BY <1>1, <1>9 DEF SendPoint
  <2>6. TipInv'
    BY <1>1, <1>3, <1>5, <2>5 DEF TipInv
  <2> QED
    BY <2>3, <2>4, <2>6
<1>10. CASE hd = "live" /\ CanRewind(out, hs.off)
  <2>1. /\ out' = Rewind(out, inb.next) /\ due' = TRUE /\ hd' = "live"
        /\ hs' = IF agent = "hello" THEN Answered("resume") ELSE NoMsg
    BY <1>2, <1>10 DEF Attach
  <2>2. PieceOf(out.buf, h, out.base) /\ out.base + Len(out.buf) = Len(h)
    BY <1>10 DEF IInv, OutInv
  <2>3. PICK r : r = Rewind(out, inb.next)
    OBVIOUS
  <2>4. /\ r \in Outboxes(Bytes) /\ r.sent = inb.next
        /\ r.base + Len(r.buf) = Len(h) /\ PieceOf(r.buf, h, r.base)
        /\ r.base <= inb.next
    BY <1>2, <1>3, <1>10, <2>2, <2>3, RewindFacts
  <2>5. TypeOK' /\ ConnInv' /\ TipInv'
    BY <1>9, <2>1, <2>3, <2>4
  <2>6. OutInv(h)'
    BY <1>1, <2>1, <2>3, <2>4 DEF IInv, InInv, OutInv
  <2>7. Written(h)'
    BY <1>1, <1>10, <2>1 DEF IInv, Written
  <2>8. InOrder(h) /\ NotGlued(h)
    BY DEF IInv
  <2> QED
    BY <1>4, <1>5, <1>6, <2>5, <2>6, <2>7, <2>8 DEF IInv
<1>11. CASE hd = "none" /\ ~hs.exited
  <2>1. PICK g \in Pieces(Bytes), e \in Pieces(Bytes) :
           /\ e = IF inb.lineEnd THEN <<>> ELSE <<Terminator>>
           /\ Len(g) = inb.next + Len(e) /\ PieceOf(e, g, inb.next)
           /\ InOrder(g) /\ NotGlued(g) /\ InInv(g)
           /\ Len(g) = 0 \/ g[Len(g)].nl
           /\ \A i \in 1..Len(g) : g[i].srv <= restarts /\ (g[i].srv = restarts => g[i].pos = 0)
    BY <1>11, StreamRestarts
  <2>2. /\ out' = IF inb.lineEnd THEN NewOutbox(inb.next)
                  ELSE WriteOut(NewOutbox(inb.next), <<Terminator>>)
        /\ due' = TRUE /\ hd' = "live"
        /\ hs' = IF agent = "hello" THEN Answered("resume") ELSE NoMsg
    BY <1>2, <1>11 DEF Attach
  <2>3. PICK n : n = NewOutbox(inb.next)
    OBVIOUS
  <2>4. /\ n \in Outboxes(Bytes) /\ n.base = inb.next /\ n.sent = inb.next /\ n.buf = <<>>
    BY <1>3, <2>3, EmptySeq DEF NewOutbox, Outboxes, Pieces
  <2>5. /\ out' \in Outboxes(Bytes) /\ out'.base = inb.next /\ out'.sent = inb.next
        /\ out'.buf = e
    <3>1. CASE inb.lineEnd
      BY <2>1, <2>2, <2>3, <2>4, <3>1
    <3>2. CASE ~inb.lineEnd
      <4>1. PICK r : r = WriteOut(n, e)
        OBVIOUS
      <4>2. r \in Outboxes(Bytes) /\ r.buf = n.buf \o e /\ r.base = n.base /\ r.sent = n.sent
        BY <2>1, <2>4, <4>1, WriteFacts
      <4>3. <<>> \o e = e
        BY ConcatEmptySeq DEF Pieces
      <4> QED
        BY <2>1, <2>2, <2>3, <2>4, <3>2, <4>1, <4>2, <4>3
    <3> QED
      BY <3>1, <3>2
  <2>6. TypeOK' /\ ConnInv' /\ TipInv'
    BY <1>9, <2>2, <2>5
  <2>7. Len(e) \in Nat /\ Len(g) \in Nat
    BY LenProperties DEF Pieces
  <2>8. OutInv(g)'
    BY <1>1, <1>3, <2>1, <2>5, <2>7 DEF OutInv
  <2>9. Written(g)'
    <3>1. wrote = 0 /\ wrote' = 0 /\ restarts' = restarts /\ hd' = "live"
      BY <1>1, <1>11, <2>2 DEF IInv, Written
    <3> QED
      BY <2>1, <3>1 DEF Written
  <2>10. InInv(g)'
    BY <1>1, <2>1 DEF InInv
  <2> QED
    BY <1>4, <1>5, <1>6, <2>1, <2>6, <2>8, <2>9, <2>10 DEF IInv
<1>12. CASE ~(hd = "live" /\ CanRewind(out, hs.off)) /\ ~(hd = "none" /\ ~hs.exited)
  <2>1. /\ out' = CloseOut(out) /\ hd' = (IF hd = "live" THEN "done" ELSE hd) /\ due' = due
        /\ hs' = IF agent = "hello" THEN Answered("kill") ELSE NoMsg
    BY <1>12 DEF Attach
  <2>2. /\ out' \in Outboxes(Bytes) /\ out'.base = out.base /\ out'.sent = out.sent
        /\ out'.buf = out.buf
    BY <1>3, <2>1 DEF CloseOut, Outboxes
  <2>3. hd' \in {"none", "done"} /\ (hd' = "none" <=> hd = "none")
    BY <2>1 DEF IInv, TypeOK
  <2>4. hs' \in HsMsgs /\ hs'.type \in {"none", "kill"}
        /\ (agent = "hello" => hs'.type = "kill") /\ (agent = "off" => hs'.type = "none")
    BY <1>7, <1>8, <2>1
  <2>5. TypeOK'
    BY <1>1, <2>1, <2>2, <2>3, <2>4 DEF IInv, TypeOK
  <2>6. ConnInv'
    BY <1>1, <1>2, <2>1, <2>3, <2>4 DEF IInv, ConnInv
  <2>7. TipInv'
    BY <1>1, <1>2, <2>3, <2>4 DEF TipInv
  <2>8. OutInv(h)' /\ Written(h)'
    BY <1>1, <2>2, <2>3 DEF IInv, OutInv, Written
  <2>9. InOrder(h) /\ NotGlued(h)
    BY DEF IInv
  <2> QED
    BY <1>4, <1>5, <1>6, <2>5, <2>6, <2>7, <2>8, <2>9 DEF IInv
<1> QED
  BY <1>10, <1>11, <1>12

\* The agent goes on where the server resumed it, or forgets a process that it was told to stop.
LEMMA Welcome_Step ==
  ASSUME NEW h \in Pieces(Bytes), IInv(h), Welcome
  PROVE  IInv(h)'
<1> USE DEF serverVars, wireVars, agentVars
<1>1. TypeOK'
  BY DEF Welcome, IInv, TypeOK, AtMostOne, HsMsgs, NoMsg
<1>2. Written(h)' /\ OutInv(h)'
  BY DEF Welcome, IInv, TypeOK, Written, OutInv, Outboxes
<1>3. InInv(h)'
  BY DEF Welcome, IInv, TypeOK, InInv, Inbufs
<1>4. HandInv(h)'
  BY DEF Welcome, IInv, TypeOK, HandInv
<1>5. ConnInv'
  BY DEF Welcome, IInv, TypeOK, ConnInv, HsMsgs, NoMsg
<1>6. ChainOf(toAgent, inb.next, h)'
  BY ChainEmpty DEF Welcome, IInv, TypeOK, Inbufs
<1>7. TipInv'
  BY ChainEmpty DEF Welcome, IInv, TypeOK, ConnInv, TipInv, SendPoint, Inbufs
<1>8. AckInv'
  BY EmptySeq DEF Welcome, IInv, TypeOK, AckInv, Inbufs
<1> QED
  BY <1>1, <1>2, <1>3, <1>4, <1>5, <1>6, <1>7, <1>8 DEF IInv

\* A data frame is never past a gap, and what it brings continues the stream.
LEMMA RecvData_Step ==
  ASSUME NEW h \in Pieces(Bytes), IInv(h), RecvData
  PROVE  IInv(h)'
<1> USE DEF serverVars, wireVars, agentVars
<1>1. /\ agent = "on" /\ toAgent # <<>>
      /\ UNCHANGED <<server, hd, out, wrote, hand, due, stale, hs, toSrv, notify, proc, gone, log,
                     drops, restarts>>
  BY DEF RecvData
<1>2. /\ toAgent \in Seq(Frames) /\ Head(toAgent) = toAgent[1] /\ 1 \in 1..Len(toAgent)
      /\ inb.next \in Nat /\ ChainOf(toAgent, inb.next, h) /\ inb \in Inbufs(Bytes)
  BY <1>1, EmptySeq, LenProperties DEF IInv, TypeOK, Inbufs
<1>3. /\ toAgent[1].off = inb.next /\ ~gone
      /\ toAgent[1].data \in Pieces(Bytes) /\ Len(toAgent[1].data) \in Nat
      /\ Len(toAgent[1].data) > 0 /\ PieceOf(toAgent[1].data, h, inb.next)
  <2>1. ~gone
    BY <1>1 DEF IInv, ConnInv
  <2> QED
    BY <1>2, <2>1, ChainSpan DEF ChainOf
<1>4. PICK p \in Pieces(Bytes) : p = toAgent[1].data
  BY <1>3
<1>5. /\ inb' = Receive(inb, inb.next, p) /\ toAgent' = Tail(toAgent)
      /\ UNCHANGED <<agent, acks>>
  <2>1. ~Gap(inb, toAgent[1].off)
    BY <1>2, <1>3 DEF Gap
  <2> QED
    BY <1>2, <1>3, <1>4, <2>1 DEF RecvData
<1>6. PICK r : r = Receive(inb, inb.next, p)
  OBVIOUS
<1>7. /\ r \in Inbufs(Bytes) /\ r.eof = inb.eof /\ r.consumed = inb.consumed
      /\ r.next = inb.next + Len(p) /\ (r.lineEnd <=> p[Len(p)].nl)
      /\ r.consumed + Len(r.buf) <= r.next
      /\ ~r.eof => r.consumed + Len(r.buf) = r.next
      /\ PieceOf(r.buf, h, r.consumed)
  <2>1. \A x \in Bytes : x.nl \in BOOLEAN
    BY DEF Bytes
  <2>2. /\ inb.consumed + Len(inb.buf) <= inb.next
        /\ ~inb.eof => inb.consumed + Len(inb.buf) = inb.next
        /\ PieceOf(inb.buf, h, inb.consumed)
    BY DEF IInv, InInv
  <2> QED
    BY <1>2, <1>3, <1>4, <1>6, <2>1, <2>2, ReceiveFacts
<1>8. /\ Len(p) \in Nat /\ Len(p) > 0 /\ PieceOf(p, h, inb.next) /\ Len(h) \in Nat
  BY <1>3, <1>4, LenProperties DEF Pieces
<1>9. r.next \in Nat /\ r.next > 0 /\ inb.next <= r.next /\ r.next <= Len(h)
      /\ h[r.next] = p[Len(p)]
  BY <1>2, <1>7, <1>8 DEF PieceOf
<1>10. inb' = r
  BY <1>5, <1>6
<1>11. /\ toAgent' \in Seq(Frames) /\ ChainOf(toAgent', r.next, h)
       /\ EndOf(toAgent', r.next) = EndOf(toAgent, inb.next)
  <2>1. r.next = toAgent[1].off + Len(toAgent[1].data)
    BY <1>3, <1>4, <1>7
  <2> QED
    BY <1>1, <1>2, <1>5, <1>9, <2>1, ChainShifts
<1>12. TypeOK'
  BY <1>1, <1>5, <1>7, <1>10, <1>11 DEF IInv, TypeOK
<1>13. Written(h)' /\ HandInv(h)'
  BY <1>1 DEF IInv, Written, HandInv
<1>14. OutInv(h)'
  <2>1. hd # "none" => out.base \in Nat /\ out.base <= inb.next
    BY DEF IInv, TypeOK, Outboxes, OutInv
  <2>2. hd # "none" => out.base <= r.next
    BY <1>2, <1>9, <2>1
  <2> QED
    BY <1>1, <1>10, <2>2 DEF IInv, OutInv
<1>15. InInv(h)'
  BY <1>1, <1>7, <1>9, <1>10 DEF IInv, InInv
<1>16. ConnInv'
  BY <1>1, <1>3, <1>5 DEF IInv, ConnInv
<1>17. ChainOf(toAgent, inb.next, h)'
  BY <1>10, <1>11
<1>18. TipInv'
  <2>1. SendPoint' = SendPoint
    BY <1>1 DEF SendPoint
  <2>2. server = "ready" /\ hd = "live" => r.next <= SendPoint
    <3>1. SUFFICES ASSUME server = "ready", hd = "live" PROVE r.next <= SendPoint
      OBVIOUS
    <3>2. EndOf(toAgent, inb.next) = SendPoint
      BY <1>1, <1>3, <3>1 DEF IInv, TipInv, ConnInv
    <3>3. toAgent[1].off + Len(toAgent[1].data) <= EndOf(toAgent, inb.next)
      BY <1>2, ChainSpan
    <3> QED
      BY <1>3, <1>4, <1>7, <3>2, <3>3
  <2> QED
    BY <1>1, <1>5, <1>10, <1>11, <2>1, <2>2 DEF IInv, TipInv
<1>19. AckInv'
  BY <1>1, <1>5, <1>7, <1>10 DEF IInv, AckInv
<1> QED
  BY <1>12, <1>13, <1>14, <1>15, <1>16, <1>17, <1>18, <1>19 DEF IInv

\* What the pump moves on stays the beginning of the stream.
LEMMA PumpRead_Step ==
  ASSUME ConstantsAssumption, NEW h \in Pieces(Bytes), IInv(h), NEW n \in 1..MaxLine, PumpRead(n)
  PROVE  IInv(h)'
<1> USE DEF serverVars, wireVars, agentVars
<1>1. /\ proc = "running" /\ notify = {} /\ n <= Len(inb.buf) /\ n \in Nat
      /\ log' = log \o SubSeq(inb.buf, 1, n) /\ inb' = ReadIn(inb, n)
      /\ notify' = {inb.consumed + n}
      /\ UNCHANGED <<server, hd, out, wrote, hand, due, stale, hs, toAgent, toSrv, agent, acks,
                     proc, gone, drops, restarts>>
  BY DEF PumpRead, ConstantsAssumption
<1>2. /\ inb \in Inbufs(Bytes) /\ log \in Pieces(Bytes) /\ inb.buf \in Pieces(Bytes)
      /\ inb.consumed \in Nat /\ inb.next \in Nat /\ Len(inb.buf) \in Nat /\ Len(log) \in Nat
  BY LenProperties DEF IInv, TypeOK, Inbufs, Pieces
<1>3. /\ ~inb.eof /\ inb.consumed + Len(inb.buf) = inb.next /\ inb.next <= Len(h)
      /\ PieceOf(inb.buf, h, inb.consumed) /\ PieceOf(log, h, 0) /\ Len(log) = inb.consumed
      /\ inb.lineEnd <=> inb.next = 0 \/ h[inb.next].nl
  BY <1>1 DEF IInv, InInv
<1>4. /\ inb' \in Inbufs(Bytes) /\ inb'.eof = inb.eof /\ inb'.next = inb.next
      /\ inb'.consumed = inb.consumed + n /\ inb'.consumed + Len(inb'.buf) = inb'.next
      /\ PieceOf(inb'.buf, h, inb'.consumed) /\ inb'.lineEnd = inb.lineEnd
  <2>1. PICK r : r = ReadIn(inb, n)
    OBVIOUS
  <2>2. /\ r \in Inbufs(Bytes) /\ r.eof = inb.eof /\ r.next = inb.next
        /\ r.consumed = inb.consumed + n /\ r.consumed + Len(r.buf) = r.next
        /\ PieceOf(r.buf, h, r.consumed)
    BY <1>1, <1>2, <1>3, <2>1, ReadFacts
  <2>3. r.lineEnd = inb.lineEnd
    BY <1>2, <2>1 DEF ReadIn, Inbufs
  <2> QED
    BY <1>1, <2>1, <2>2, <2>3
<1>5. PICK c : c = SubSeq(inb.buf, 1, n)
  OBVIOUS
<1>6. c \in Pieces(Bytes) /\ Len(c) = n /\ PieceOf(c, h, inb.consumed)
  <2>1. PICK z \in Nat : z = 0
    OBVIOUS
  <2>2. /\ SubSeq(inb.buf, z + 1, n) \in Pieces(Bytes)
        /\ Len(SubSeq(inb.buf, z + 1, n)) = n - z
        /\ PieceOf(SubSeq(inb.buf, z + 1, n), h, inb.consumed + z)
    <3>1. z <= n
      BY <1>1, <2>1
    <3> QED
      BY <1>1, <1>2, <1>3, <3>1, PiecePart
  <2>3. z + 1 = 1 /\ n - z = n /\ inb.consumed + z = inb.consumed
    BY <1>1, <1>2, <2>1
  <2> QED
    BY <1>5, <2>2, <2>3
<1>7. /\ log' \in Pieces(Bytes) /\ Len(log') = Len(log) + n /\ PieceOf(log', h, 0)
  <2>1. PICK z \in Nat : z = 0
    OBVIOUS
  <2>2. z + Len(log) = inb.consumed
    BY <1>2, <1>3, <2>1
  <2>3. /\ log \o c \in Pieces(Bytes) /\ Len(log \o c) = Len(log) + Len(c)
        /\ PieceOf(log \o c, h, z)
    BY <1>2, <1>3, <1>6, <2>1, <2>2, PieceJoin
  <2> QED
    BY <1>1, <1>5, <1>6, <2>1, <2>3
<1>8. TypeOK'
  <2>1. notify' \subseteq Nat /\ AtMostOne(notify')
    BY <1>1, <1>2 DEF AtMostOne
  <2> QED
    BY <1>1, <1>4, <1>7, <2>1 DEF IInv, TypeOK
<1>9. InInv(h)'
  BY <1>1, <1>2, <1>3, <1>4, <1>7 DEF InInv, IInv
<1>10. Written(h)' /\ OutInv(h)' /\ HandInv(h)' /\ ConnInv'
  BY <1>1, <1>4 DEF IInv, Written, OutInv, HandInv, ConnInv
<1>11. ChainOf(toAgent, inb.next, h)' /\ TipInv'
  BY <1>1, <1>4 DEF IInv, TipInv, SendPoint
<1>12. AckInv'
  <2>1. \A off \in Nat : off <= inb.consumed => off <= inb'.consumed
    BY <1>1, <1>2, <1>4
  <2>2. \A i \in 1..Len(toSrv) : toSrv[i] \in Nat
    BY ElementOfSeq DEF IInv, TypeOK
  <2>3. acks \subseteq Nat /\ inb'.consumed <= inb'.consumed
    BY <1>4 DEF IInv, TypeOK, Inbufs
  <2> QED
    BY <1>1, <1>4, <2>1, <2>2, <2>3 DEF IInv, AckInv
<1> QED
  BY <1>8, <1>9, <1>10, <1>11, <1>12 DEF IInv

\* An ack is due on the connection that is current.
LEMMA PumpNotify_Step ==
  ASSUME NEW h \in Pieces(Bytes), IInv(h), PumpNotify
  PROVE  IInv(h)'
<1> USE DEF serverVars, wireVars, agentVars
<1>1. TypeOK'
  BY DEF PumpNotify, IInv, TypeOK, AtMostOne
<1>2. Written(h)' /\ OutInv(h)'
  BY DEF PumpNotify, IInv, TypeOK, Written, OutInv, Outboxes
<1>3. InInv(h)'
  BY DEF PumpNotify, IInv, TypeOK, InInv, Inbufs
<1>4. HandInv(h)'
  BY DEF PumpNotify, IInv, TypeOK, HandInv
<1>5. ConnInv'
  BY DEF PumpNotify, IInv, TypeOK, ConnInv
<1>6. ChainOf(toAgent, inb.next, h)'
  BY ChainEmpty DEF PumpNotify, IInv, TypeOK, Inbufs
<1>7. TipInv'
  BY ChainEmpty DEF PumpNotify, IInv, TypeOK, ConnInv, TipInv, SendPoint, Inbufs
<1>8. AckInv'
  BY EmptySeq DEF PumpNotify, IInv, TypeOK, AckInv, Inbufs
<1> QED
  BY <1>1, <1>2, <1>3, <1>4, <1>5, <1>6, <1>7, <1>8 DEF IInv

\* A pending ack is on its way.
LEMMA AckerSend_Step ==
  ASSUME NEW h \in Pieces(Bytes), IInv(h), AckerSend
  PROVE  IInv(h)'
<1> USE DEF serverVars, wireVars, agentVars
<1>1. PICK off \in acks : toSrv' = IF server = "off" THEN toSrv ELSE Append(toSrv, off)
  BY DEF AckerSend
<1>2. /\ agent = "on" /\ acks' = {}
      /\ UNCHANGED <<server, hd, out, wrote, hand, due, stale, hs, toAgent, agent, inb, notify,
                     proc, gone, log, drops, restarts>>
  BY DEF AckerSend
<1>3. off \in Nat /\ off <= inb.consumed /\ toSrv \in Seq(Nat) /\ Len(toSrv) \in Nat
  BY LenProperties DEF IInv, TypeOK, AckInv
<1>4. server # "off" =>
        /\ toSrv' \in Seq(Nat) /\ Len(toSrv') = Len(toSrv) + 1
        /\ \A i \in 1..Len(toSrv) : toSrv'[i] = toSrv[i]
        /\ toSrv'[Len(toSrv) + 1] = off
  BY <1>1, <1>3, AppendProperties
<1>5. TypeOK'
  BY <1>1, <1>2, <1>3, <1>4 DEF IInv, TypeOK, AtMostOne
<1>6. Written(h)' /\ OutInv(h)' /\ InInv(h)' /\ HandInv(h)'
  BY <1>2 DEF IInv, Written, OutInv, InInv, HandInv
<1>7. ConnInv'
  BY <1>1, <1>2 DEF IInv, ConnInv
<1>8. ChainOf(toAgent, inb.next, h)' /\ TipInv'
  BY <1>2 DEF IInv, TipInv, SendPoint
<1>9. AckInv'
  <2>1. CASE server = "off"
    BY <1>1, <1>2, <2>1 DEF IInv, AckInv
  <2>2. CASE server # "off"
    <3>1. ASSUME NEW i \in 1..(Len(toSrv) + 1)
          PROVE  toSrv'[i] <= inb.consumed
      <4>1. CASE i = Len(toSrv) + 1
        BY <1>3, <1>4, <2>2, <4>1
      <4>2. CASE i # Len(toSrv) + 1
        <5>1. i \in 1..Len(toSrv)
          BY <1>3, <4>2
        <5> QED
          BY <1>4, <2>2, <5>1 DEF IInv, AckInv
      <4> QED
        BY <4>1, <4>2
    <3> QED
      BY <1>2, <1>4, <2>2, <3>1 DEF IInv, AckInv
  <2> QED
    BY <2>1, <2>2
<1> QED
  BY <1>5, <1>6, <1>7, <1>8, <1>9 DEF IInv

\* An ack trims what the process was given, and does not move the send point.
LEMMA RecvAck_Step ==
  ASSUME NEW h \in Pieces(Bytes), IInv(h), RecvAck
  PROVE  IInv(h)'
<1> USE DEF serverVars, wireVars, agentVars
<1>1. /\ server = "ready" /\ toSrv # <<>> /\ toSrv' = Tail(toSrv)
      /\ UNCHANGED <<server, hd, wrote, hand, due, stale, hs, toAgent, agent, inb, notify, acks,
                     proc, gone, log, drops, restarts>>
  BY DEF RecvAck
<1>2. /\ toSrv \in Seq(Nat) /\ Len(toSrv) \in Nat /\ 1 \in 1..Len(toSrv)
      /\ Head(toSrv) = toSrv[1]
  BY <1>1, EmptySeq, LenProperties DEF IInv, TypeOK
<1>3. /\ toSrv' \in Seq(Nat) /\ Len(toSrv') = Len(toSrv) - 1
      /\ \A i \in 1..Len(toSrv') : i + 1 \in 1..Len(toSrv) /\ toSrv'[i] = toSrv[i + 1]
  BY <1>1, <1>2, HeadTailProperties
<1>4. AckInv'
  BY <1>1, <1>3 DEF IInv, AckInv
<1>5. /\ Written(h)' /\ InInv(h)' /\ ChainOf(toAgent, inb.next, h)'
  BY <1>1 DEF IInv, Written, InInv
<1>6. ConnInv'
  BY <1>1 DEF IInv, ConnInv
<1>7. CASE hd # "live"
  <2>1. out' = out
    BY <1>7 DEF RecvAck
  <2>2. TypeOK'
    BY <1>1, <1>3, <2>1 DEF IInv, TypeOK
  <2>3. OutInv(h)' /\ HandInv(h)' /\ TipInv'
    BY <1>1, <2>1 DEF IInv, OutInv, HandInv, TipInv, SendPoint
  <2> QED
    BY <1>4, <1>5, <1>6, <2>2, <2>3 DEF IInv
<1>8. CASE hd = "live"
  <2>1. PICK off : off = Head(toSrv) /\ out' = Ack(out, off)
    BY <1>8 DEF RecvAck
  <2>2. off \in Nat /\ off <= inb.consumed
    BY <1>2, <2>1, ElementOfSeq DEF IInv, AckInv
  <2>3. /\ out \in Outboxes(Bytes) /\ PieceOf(out.buf, h, out.base)
        /\ out.base + Len(out.buf) = Len(h) /\ out.base \in Nat /\ out.sent \in Nat
        /\ SendPoint \in Nat /\ SendPoint <= out.sent /\ out.base <= SendPoint
        /\ Len(h) \in Nat /\ inb.next <= SendPoint /\ out.sent <= Len(h)
        /\ inb.next \in Nat /\ inb.consumed \in Nat /\ Len(inb.buf) \in Nat
        /\ inb.consumed + Len(inb.buf) <= inb.next /\ out.base <= inb.next
    BY <1>1, <1>8, SendPointFacts, LenProperties
       DEF IInv, TypeOK, Outboxes, Inbufs, Pieces, OutInv, InInv, TipInv
  <2>4. off <= inb.next /\ off <= SendPoint /\ off <= out.sent
    BY <2>2, <2>3
  <2>5. PICK r : r = Ack(out, off)
    OBVIOUS
  <2>6. /\ r \in Outboxes(Bytes) /\ r.eof = out.eof
        /\ r.base + Len(r.buf) = Len(h) /\ PieceOf(r.buf, h, r.base)
        /\ r.base = out.base \/ r.base <= off
        /\ r.sent = out.sent
    BY <2>2, <2>3, <2>4, <2>5, AckFacts
  <2>7. r.base \in Nat /\ r.base <= SendPoint /\ r.base <= out.sent /\ r.base <= inb.next
    <3>1. r.base \in Nat
      BY <2>6 DEF Outboxes
    <3> QED
      BY <2>2, <2>3, <2>4, <2>6, <3>1
  <2>8. out' = r
    BY <2>1, <2>5
  <2>9. TypeOK'
    BY <1>1, <1>3, <2>6, <2>8 DEF IInv, TypeOK
  <2>10. OutInv(h)'
    BY <1>1, <2>3, <2>6, <2>7, <2>8 DEF OutInv
  <2>11. HandInv(h)'
    <3>1. ASSUME NEW f \in hand PROVE r.base <= f.off
      BY <2>7, <3>1, SendPointFacts DEF IInv
    <3> QED
      BY <1>1, <2>6, <2>8, <3>1 DEF IInv, HandInv
  <2>12. TipInv'
    <3>1. SendPoint' = SendPoint
      BY <1>1, <2>6, <2>8 DEF SendPoint
    <3> QED
      BY <1>1, <3>1 DEF IInv, TipInv
  <2> QED
    BY <1>4, <1>5, <1>6, <2>9, <2>10, <2>11, <2>12 DEF IInv
<1> QED
  BY <1>7, <1>8

\* From its exit on a process is given nothing.
LEMMA ProcExit_Step ==
  ASSUME NEW h \in Pieces(Bytes), IInv(h), ProcExit
  PROVE  IInv(h)'
<1> USE DEF serverVars, wireVars, agentVars
<1>1. TypeOK'
  BY DEF ProcExit, IInv, TypeOK, AtMostOne, Inbufs, CloseIn
<1>2. Written(h)' /\ OutInv(h)'
  BY DEF ProcExit, IInv, TypeOK, Written, OutInv, Outboxes, Inbufs, CloseIn
<1>3. InInv(h)'
  BY DEF ProcExit, IInv, TypeOK, InInv, Inbufs, CloseIn
<1>4. HandInv(h)'
  BY DEF ProcExit, IInv, TypeOK, HandInv
<1>5. ConnInv'
  BY DEF ProcExit, IInv, TypeOK, ConnInv, CloseIn, Inbufs
<1>6. ChainOf(toAgent, inb.next, h)'
  BY ChainEmpty DEF ProcExit, IInv, TypeOK, Inbufs, CloseIn
<1>7. TipInv'
  BY ChainEmpty DEF ProcExit, IInv, TypeOK, ConnInv, TipInv, SendPoint, Inbufs, CloseIn
<1>8. AckInv'
  BY EmptySeq DEF ProcExit, IInv, TypeOK, AckInv, Inbufs, CloseIn
<1> QED
  BY <1>1, <1>2, <1>3, <1>4, <1>5, <1>6, <1>7, <1>8 DEF IInv

\* A handle that is finished keeps what it buffered.
LEMMA HandleDone_Step ==
  ASSUME NEW h \in Pieces(Bytes), IInv(h), HandleDone
  PROVE  IInv(h)'
<1> USE DEF serverVars, wireVars, agentVars
<1>1. TypeOK'
  BY DEF HandleDone, CloseOut, IInv, TypeOK, AtMostOne, Outboxes
<1>2. Written(h)' /\ OutInv(h)'
  BY DEF HandleDone, CloseOut, IInv, TypeOK, Written, OutInv, Outboxes
<1>3. InInv(h)'
  BY DEF HandleDone, CloseOut, IInv, TypeOK, InInv, Inbufs
<1>4. HandInv(h)'
  BY DEF HandleDone, CloseOut, IInv, TypeOK, HandInv, Outboxes
<1>5. ConnInv'
  BY DEF HandleDone, CloseOut, IInv, TypeOK, ConnInv
<1>6. ChainOf(toAgent, inb.next, h)'
  BY ChainEmpty DEF HandleDone, CloseOut, IInv, TypeOK, Inbufs
<1>7. TipInv'
  BY ChainEmpty DEF HandleDone, CloseOut, IInv, TypeOK, ConnInv, TipInv, SendPoint, Inbufs,
                    Outboxes
<1>8. AckInv'
  BY EmptySeq DEF HandleDone, CloseOut, IInv, TypeOK, AckInv, Inbufs
<1> QED
  BY <1>1, <1>2, <1>3, <1>4, <1>5, <1>6, <1>7, <1>8 DEF IInv

-----------------------------------------------------------------------------
(* The invariant, and what it says *)

\* The stream is empty at first.
LEMMA Init_Inv == Init => Inv
<1> SUFFICES ASSUME Init PROVE Inv
  OBVIOUS
<1>1. <<>> \in Seq(Bytes) /\ <<>> \in Seq(Frames) /\ <<>> \in Seq(Nat) /\ Len(<<>>) = 0
  BY EmptySeq
<1>2. PICK h : h = <<>>
  OBVIOUS
<1>3. h \in Pieces(Bytes) /\ Len(h) = 0
  BY <1>1, <1>2 DEF Pieces
<1>4. TypeOK
  BY <1>1 DEF Init, TypeOK, AtMostOne, Outboxes, Inbufs, Pieces, HsMsgs, NoMsg, NewOutbox,
              NewInbuf
<1>5. /\ out.base = 0 /\ out.buf = <<>> /\ out.sent = 0 /\ inb.next = 0 /\ inb.consumed = 0
      /\ inb.buf = <<>> /\ ~inb.eof /\ inb.lineEnd
  BY DEF Init, NewOutbox, NewInbuf
<1>6. InOrder(h) /\ NotGlued(h)
  BY <1>3 DEF InOrder, NotGlued
<1>7. Written(h)
  BY <1>3 DEF Init, Written
<1>8. PieceOf(<<>>, h, 0)
  BY <1>1, <1>3 DEF PieceOf
<1>9. OutInv(h) /\ InInv(h) /\ HandInv(h)
  BY <1>1, <1>3, <1>5, <1>8 DEF Init, OutInv, InInv, HandInv
<1>10. ConnInv
  BY <1>1 DEF Init, ConnInv, NoMsg
<1>11. ChainOf(toAgent, inb.next, h) /\ EndOf(toAgent, inb.next) = inb.next
  BY ChainEmpty DEF Init
<1>12. TipInv /\ AckInv
  BY <1>1, <1>5, <1>11 DEF Init, TipInv, AckInv, SendPoint
<1> QED
  BY <1>3, <1>4, <1>6, <1>7, <1>9, <1>10, <1>11, <1>12 DEF IInv, Inv

\* Whatever the stream is, every step leaves one that the invariant holds of.
LEMMA Next_Inv == ConstantsAssumption /\ Inv /\ [Next]_vars => Inv'
<1> SUFFICES ASSUME ConstantsAssumption, NEW h \in Pieces(Bytes), IInv(h), [Next]_vars
             PROVE  \E g \in Pieces(Bytes) : IInv(g)'
  BY DEF Inv
<1>1. CASE UNCHANGED vars
  <2>1. IInv(h)'
    BY <1>1 DEF vars, serverVars, wireVars, agentVars, IInv, TypeOK, Written, OutInv, InInv,
                HandInv, ConnInv, TipInv, SendPoint, AckInv
  <2> QED
    BY <2>1
<1>2. ASSUME NEW n \in 1..MaxLine, WriteLine(n) PROVE \E g \in Pieces(Bytes) : IInv(g)'
  BY <1>2, WriteLine_Step
<1>3. ASSUME NEW live \in BOOLEAN, FlushTake(live) PROVE \E g \in Pieces(Bytes) : IInv(g)'
  BY <1>3, FlushTake_Step
<1>4. CASE FlushSend
  BY <1>4, FlushSend_Step
<1>5. CASE FlushFail
  BY <1>5, FlushFail_Step
<1>6. CASE FlushEnd
  BY <1>6, FlushEnd_Step
<1>7. CASE ServerLoses
  BY <1>7, ServerLoses_Step
<1>8. CASE ServerRestarts
  BY <1>8, ServerRestarts_Step
<1>9. CASE AgentLoses
  BY <1>9, AgentLoses_Step
<1>10. CASE Dial
  BY <1>10, Dial_Step
<1>11. CASE Attach
  BY <1>11, Attach_Step
<1>12. CASE Welcome
  BY <1>12, Welcome_Step
<1>13. CASE RecvData
  BY <1>13, RecvData_Step
<1>14. ASSUME NEW n \in 1..MaxLine, PumpRead(n) PROVE \E g \in Pieces(Bytes) : IInv(g)'
  BY <1>14, PumpRead_Step
<1>15. CASE PumpNotify
  BY <1>15, PumpNotify_Step
<1>16. CASE AckerSend
  BY <1>16, AckerSend_Step
<1>17. CASE RecvAck
  BY <1>17, RecvAck_Step
<1>18. CASE ProcExit
  BY <1>18, ProcExit_Step
<1>19. CASE HandleDone
  BY <1>19, HandleDone_Step
<1> QED
  BY <1>1, <1>2, <1>3, <1>4, <1>5, <1>6, <1>7, <1>8, <1>9, <1>10, <1>11, <1>12, <1>13, <1>14,
     <1>15, <1>16, <1>17, <1>18, <1>19 DEF Next

\* At any time what the agent holds, what is in flight and what the server buffered are
\* pieces of one stream, which goes on where the agent's end of it ends.
THEOREM Invariant == Spec => []Inv
<1>1. ConstantsAssumption
  BY ConstantsAssumption
<1> QED
  BY <1>1, Init_Inv, Next_Inv, PTL DEF Spec

\* Both halves of the agent's end, together, are the beginning of the stream.
LEMMA GivenIsPrefix ==
  ASSUME NEW h \in Pieces(Bytes), IInv(h)
  PROVE  Given \in Pieces(Bytes) /\ PieceOf(Given, h, 0)
<1>1. /\ log \in Pieces(Bytes) /\ inb.buf \in Pieces(Bytes) /\ Len(log) \in Nat
      /\ PieceOf(log, h, 0) /\ PieceOf(inb.buf, h, inb.consumed) /\ Len(log) = inb.consumed
      /\ inb.consumed \in Nat
  BY LenProperties DEF IInv, TypeOK, Inbufs, Pieces, InInv
<1>2. PieceOf(inb.buf, h, 0 + Len(log)) /\ 0 \in Nat
  BY <1>1
<1> QED
  BY <1>1, <1>2, PieceJoin DEF Given

\* Each server's messages reach the process in order and none of them twice
\* (remote/hub.go, agent.go), however often the connection broke or the server restarted.
THEOREM MessagesComeInOrder == Spec => []MessagesInOrder
<1>1. ASSUME Inv PROVE MessagesInOrder
  <2>1. PICK h \in Pieces(Bytes) : IInv(h)
    BY <1>1 DEF Inv
  <2>2. InOrder(Given)
    BY <2>1, GivenIsPrefix, Prefix DEF IInv
  <2> QED
    BY <2>2 DEF InOrder, MessagesInOrder
<1> QED
  BY <1>1, Invariant, PTL

\* The first byte of a message of a restarted server never follows an older one's unfinished
\* line: the newline that attach writes (remote/hub.go) comes between.
THEOREM NoLineIsGlued == Spec => []NoGluedLine
<1>1. ASSUME Inv PROVE NoGluedLine
  <2>1. PICK h \in Pieces(Bytes) : IInv(h)
    BY <1>1 DEF Inv
  <2>2. NotGlued(Given)
    BY <2>1, GivenIsPrefix, Prefix DEF IInv
  <2> QED
    BY <2>2 DEF NotGlued, NoGluedLine
<1> QED
  BY <1>1, Invariant, PTL

\* The errors that attach and the agent's inbuf have for a resume that is not possible, and
\* for a gap (remote/hub.go, buffer.go), are never met.
THEOREM ReconnectsAreClean == Spec => []ReconnectIsClean
<1>1. ASSUME Inv PROVE ReconnectIsClean
  <2>1. PICK h \in Pieces(Bytes) : IInv(h)
    BY <1>1 DEF Inv
  <2>2. ResumeIsPossible
    <3> SUFFICES ASSUME server = "wait", hs.type = "hello", hd = "live"
                 PROVE  CanRewind(out, hs.off)
      BY DEF ResumeIsPossible
    <3>1. hs.off = inb.next
      BY <2>1 DEF IInv, ConnInv
    <3>2. out.base <= inb.next /\ out.base + Len(out.buf) = Len(h) /\ inb.next <= Len(h)
      BY <2>1 DEF IInv, OutInv, InInv
    <3> QED
      BY <3>1, <3>2 DEF CanRewind, OutEnd
  <2>3. NoGap
    <3> SUFFICES ASSUME toAgent # <<>> PROVE Head(toAgent).off = inb.next
      BY DEF NoGap
    <3>1. toAgent \in Seq(Frames) /\ Head(toAgent) = toAgent[1] /\ 1 \in 1..Len(toAgent)
      BY <2>1, EmptySeq, LenProperties DEF IInv, TypeOK
    <3> QED
      BY <2>1, <3>1 DEF IInv, ChainOf
  <2> QED
    BY <2>2, <2>3 DEF ReconnectIsClean
<1> QED
  BY <1>1, Invariant, PTL
=============================================================================
