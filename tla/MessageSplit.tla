---------------------------- MODULE MessageSplit ----------------------------
(***************************************************************************)
(* splitMessage of discord/output.go: a text that is longer than a Discord *)
(* message is cut into chunks, at the end of a line where there is one;    *)
(* a code block that a cut falls into is closed and opened again.  One     *)
(* step is one round of the loop.  A text is a sequence of characters; all *)
(* but the backtick and the newline are alike.                             *)
(***************************************************************************)
EXTENDS Integers, Sequences, SequencesExt

CONSTANTS
  Limit,      \* discordMaxMessageLen, a number greater than that of a fence
  Texts       \* bound: the messages to split

VARIABLES
  s,          \* what is left of the message
  text,       \* the message
  chunks,     \* what it was split into so far
  returned    \* the loop has ended

vars == <<s, text, chunks, returned>>

Fence == <<"tick", "tick", "tick">>

\* strings.Count(t, "```").
Fences(t) ==
  FoldLeft(LAMBDA c, x : IF x # "tick" THEN [c EXCEPT !.run = 0]
                         ELSE IF c.run = 2 THEN [n |-> c.n + 1, run |-> 0]
                         ELSE [c EXCEPT !.run = @ + 1],
           [n |-> 0, run |-> 0], t).n

\* Where to cut: at the last newline that leaves room for a closing fence, else there.
Cut ==
  LET search == Limit - 4
      newlines == {i \in 1..search : s[i] = "nl"}
  IN IF newlines \subseteq {1} THEN search ELSE (CHOOSE i \in newlines : \A j \in newlines : j <= i) - 1

endsInCodeBlock == Fences(SubSeq(s, 1, Cut)) % 2 # 0

\* What follows the cut, without the newline it fell on.
After ==
  LET rest == SubSeq(s, Cut + 1, Len(s))
  IN IF rest # <<>> /\ Head(rest) = "nl" THEN Tail(rest) ELSE rest

Init == text \in Texts /\ s = text /\ chunks = <<>> /\ returned = FALSE

\* The rest fits.
LastChunk ==
  /\ ~returned /\ Len(s) <= Limit
  /\ chunks' = Append(chunks, s) /\ returned' = TRUE
  /\ UNCHANGED <<s, text>>

\* It does not: it is cut, and inside of a code block a fence is added to both parts.
NextChunk ==
  /\ ~returned /\ Len(s) > Limit
  /\ chunks' = Append(chunks, SubSeq(s, 1, Cut) \o
                             (IF endsInCodeBlock THEN <<"nl">> \o Fence ELSE <<>>))
  /\ s' = (IF endsInCodeBlock THEN Append(Fence, "nl") ELSE <<>>) \o After
  /\ UNCHANGED <<text, returned>>

Next == LastChunk \/ NextChunk

Spec == Init /\ [][Next]_vars

\* splitMessage "splits a message into chunks that fit within Discord's 2000-char limit"
\* (output.go:47-49): every chunk has something of the message, so that it comes to an end.
EveryChunkTakes == Len(chunks) <= Len(text)
=============================================================================
