----------------------------- MODULE ByteStream -----------------------------
(***************************************************************************)
(* What one direction of a remote stream promises its reader: the reader   *)
(* gets the bytes that were written, in order, each once and none missing. *)
(* A reader that takes over from a lost one starts again at the beginning  *)
(* of some line.                                                           *)
(***************************************************************************)
EXTENDS Naturals, Sequences

VARIABLES
  hist,   \* every byte written
  start,  \* the offset the present reader started at
  log     \* what the present reader has read

vars == <<hist, start, log>>

LineStarts == {k \in 0..Len(hist) : k = 0 \/ hist[k].nl}

Init == hist = <<>> /\ start = 0 /\ log = <<>>

Produce ==
  /\ Len(hist') > Len(hist)
  /\ SubSeq(hist', 1, Len(hist)) = hist
  /\ UNCHANGED <<start, log>>

Consume ==
  /\ \E k \in (start + Len(log) + 1)..Len(hist) :
       log' = log \o SubSeq(hist, start + Len(log) + 1, k)
  /\ UNCHANGED <<hist, start>>

TakeOver ==
  /\ start' \in LineStarts
  /\ log' = <<>>
  /\ UNCHANGED hist

Next == Produce \/ Consume \/ TakeOver

Spec == Init /\ [][Next]_vars
=============================================================================
