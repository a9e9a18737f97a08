--------------------------- MODULE StreamBuffers ---------------------------
(***************************************************************************)
(* The two halves of one direction of a remote stream, as values.          *)
(*                                                                         *)
(* outbox  the sending half: what was written and not yet acknowledged.    *)
(* inbuf   the receiving half: what arrived and was not yet read.          *)
(*                                                                         *)
(* Offsets are absolute positions in the stream; offset k is the number of *)
(* bytes before it.  A byte is a record whose field nl says that it is a   *)
(* newline; nothing else about its value matters to this code.             *)
(* Both structures are guarded by a mutex, so one operator is one critical *)
(* section.                                                                *)
(***************************************************************************)
EXTENDS Naturals, Sequences

\* The shape of the two halves, for bytes of the set T.
Pieces(T) == Seq(T)
Outboxes(T) == [base : Nat, buf : Pieces(T), sent : Nat, eof : BOOLEAN]
Inbufs(T) == [next : Nat, buf : Pieces(T), eof : BOOLEAN, consumed : Nat, lineEnd : BOOLEAN]

\* Mutant: an adopted stream's outbox begins at 0.
NewOutboxAtZero(from) == [base |-> 0, buf |-> <<>>, sent |-> 0, eof |-> FALSE]

NewOutbox(from) == [base |-> from, buf |-> <<>>, sent |-> from, eof |-> FALSE]

OutEnd(o) == o.base + Len(o.buf)

\* Write succeeds only before closeWrite and within the backlog limit.
Fits(o, p, limit) == ~o.eof /\ Len(o.buf) + Len(p) <= limit
WriteOut(o, p) == [o EXCEPT !.buf = @ \o p]
CloseOut(o) == [o EXCEPT !.eof = TRUE]

\* next: the unsent bytes, at most max of them, which it marks sent.
ChunkLen(o, max) == LET n == OutEnd(o) - o.sent IN IF n > max THEN max ELSE n
NextChunk(o, max) ==
  SubSeq(o.buf, o.sent - o.base + 1, o.sent - o.base + ChunkLen(o, max))
MarkSent(o, max) == [o EXCEPT !.sent = @ + ChunkLen(o, max)]

Drained(o) == o.eof /\ o.sent = OutEnd(o)

\* The position after the last newline among the first n buffered bytes,
\* as a set with at most one element.
LineCut(buf, n) ==
  {c \in 1..n : buf[c].nl /\ \A j \in (c + 1)..n : ~buf[j].nl}

\* ack trims whole lines only.
Ack(o, off) ==
  IF off <= o.base \/ off > OutEnd(o)
    THEN o
    ELSE LET cuts == LineCut(o.buf, off - o.base)
             cut  == IF cuts = {} THEN 0 ELSE CHOOSE c \in cuts : TRUE
         IN  [base |-> o.base + cut,
              buf  |-> SubSeq(o.buf, cut + 1, Len(o.buf)),
              sent |-> IF o.sent < off THEN off ELSE o.sent,
              eof  |-> o.eof]

\* Mutant: a chunk that could not be written stays marked as sent.
UnsendNothing(o, off) == o

Unsend(o, off) ==
  IF off >= o.base /\ off < o.sent THEN [o EXCEPT !.sent = off] ELSE o

\* rewind fails outside the buffer; otherwise it acknowledges off and resumes there.
CanRewind(o, off) == o.base <= off /\ off <= OutEnd(o)
\* Mutant: the position to send from is not moved back.
RewindForgets(o, off) == Ack(o, off)

Rewind(o, off) == [Ack(o, off) EXCEPT !.sent = off]

NewInbuf(from) ==
  [next |-> from, buf |-> <<>>, eof |-> FALSE, consumed |-> from, lineEnd |-> TRUE]

Gap(b, off) == off > b.next

\* write, past its gap check: the part of p we already hold is dropped, and so is
\* everything once the reader was told the stream is over.
Receive(b, off, p) ==
  LET skip == b.next - off IN
  IF skip >= Len(p)
    THEN b
    ELSE [b EXCEPT !.buf = IF b.eof THEN @ ELSE @ \o SubSeq(p, skip + 1, Len(p)),
                   !.next = @ + (Len(p) - skip),
                   !.lineEnd = p[Len(p)].nl]

CloseIn(b) == [b EXCEPT !.eof = TRUE]

\* Mutant: a read loses what it does not return.
ReadInLosesRest(b, n) == [b EXCEPT !.buf = <<>>, !.consumed = @ + n]

\* One Read that returns n bytes.
ReadIn(b, n) == [b EXCEPT !.buf = SubSeq(@, n + 1, Len(@)), !.consumed = @ + n]

\* Mutant: EOF is reported with bytes still buffered.
AtEOFEarly(b) == b.eof

AtEOF(b) == b.buf = <<>> /\ b.eof
=============================================================================
