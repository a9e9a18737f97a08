---------------------------- MODULE BlockBuffer ----------------------------
(***************************************************************************)
(* The text of an agent on its way into one Discord channel:               *)
(* acp/helpers/line_buffer.go collects fragments into lines,               *)
(* acp/helpers/block_buffer.go lines into code blocks and tables, and the  *)
(* output functions of discord/discord.go post or edit messages.           *)
(*                                                                         *)
(* A text is a sequence of tokens [k, n]: a word ("text"), the end of a    *)
(* line ("nl"), three backticks ("fence") or a pipe ("bar").  n tells the  *)
(* tokens of the agent apart; 0 is a token the buffers add.                *)
(*                                                                         *)
(* A buffer is a value, and each method an operator on what it works with: *)
(* the buffer w, the messages shown in the channel, fails, which output of *)
(* this call Discord refuses (0: none), whether it has refused one (err),  *)
(* and whether that one had more to show than empty lines (lost).          *)
(***************************************************************************)
EXTENDS Integers, Sequences, FiniteSets, SequencesExt

Newline == [k |-> "nl", n |-> 0]

\* text: LineBuffer.buffer; cur, out: currentLine, hasOutput; timer: timerRunning;
\* held: codeBuffer, not empty exactly in a code block; rows: tableLines, not empty exactly in
\* a table; last: the message lastMsgID names, 0 for none.
NewBlockBuffer ==
  [text |-> <<>>, cur |-> <<>>, out |-> FALSE, timer |-> FALSE,
   held |-> <<>>, rows |-> <<>>, last |-> 0]

StartsWith(line, k) == line # <<>> /\ line[1].k = k
isCodeFence(line) == StartsWith(line, "fence")
isTableRow(line) == StartsWith(line, "bar")

-----------------------------------------------------------------------------
(* Discord *)

\* The fences a text begins its lines with, and the language after each opening one.
Fences(s) == {i \in DOMAIN s : s[i].k = "fence" /\ (i = 1 \/ s[i - 1].k = "nl")}
Opening(s) == {f \in Fences(s) : Cardinality({g \in Fences(s) : g <= f}) % 2 = 1}
Languages(s) == {i \in DOMAIN s : \E f \in Opening(s) : f < i /\ \A j \in f..i : s[j].k # "nl"}

stripCodeBlockLanguage(s) ==
  LET languages == Languages(s) IN
  FoldLeftDomain(LAMBDA kept, i : IF i \in languages THEN kept ELSE Append(kept, s[i]), <<>>, s)

\* Discord refuses a message or an edit.
Refuse(s, message) ==
  [s EXCEPT !.fails = 0, !.err = TRUE, !.lost = \E i \in DOMAIN message : message[i].k # "nl"]

\* A message is posted, or refused, as every empty one is.
ChannelMessageSend(s, message) ==
  IF s.fails = 1 \/ message = <<>> THEN Refuse(s, message)
  ELSE [s EXCEPT !.fails = IF @ = 0 THEN 0 ELSE @ - 1, !.shown = Append(@, message)]

\* The last message the buffer posted is edited, or that is refused.
ChannelMessageEdit(s, message) ==
  IF s.fails = 1 THEN Refuse(s, message)
  ELSE [s EXCEPT !.fails = IF @ = 0 THEN 0 ELSE @ - 1, !.shown[s.w.last] = message]

\* The output function of a channel's buffer.
Output(s, line, update) ==
  LET message == stripCodeBlockLanguage(line)
      t == ChannelMessageSend(s, message) IN
  IF update /\ s.w.last # 0 THEN ChannelMessageEdit(s, message)
  ELSE IF t.err THEN t ELSE [t EXCEPT !.w.last = Len(t.shown)]

-----------------------------------------------------------------------------
(* BlockBuffer *)

\* The end of a table: its rows are one message, and gone if that fails.
outputTable(s) ==
  IF s.w.rows = <<>> THEN s
  ELSE [ChannelMessageSend(s, FlattenSeq(s.w.rows)) EXCEPT !.w.rows = <<>>]

\* The code block is one message, and gone if that fails.
outputBlock(s, content) == [Output(s, Front(content), FALSE) EXCEPT !.w.held = <<>>]

\* A block without its last line.
WithoutLastLine(content) ==
  LET ends == {i \in DOMAIN Front(content) : content[i].k = "nl"}
  IN SubSeq(content, 1, IF ends = {} THEN 0 ELSE CHOOSE i \in ends : \A j \in ends : j <= i)

\* A line inside a code block.
handleCodeLine(s, line, update) ==
  LET content == (IF update THEN WithoutLastLine(s.w.held) ELSE s.w.held) \o Append(line, Newline)
  IN IF isCodeFence(line) THEN outputBlock(s, content) ELSE [s EXCEPT !.w.held = content]

\* A line outside of blocks and tables.
handleNewLine(s, line, update) ==
  CASE isCodeFence(line) -> [s EXCEPT !.w.held = Append(line, Newline)]
    [] isTableRow(line) -> [s EXCEPT !.w.rows = <<line>>]
    [] OTHER -> Output(s, line, update)

handleLine(s, line, update) ==
  IF s.w.held # <<>> THEN handleCodeLine(s, line, update)
  ELSE IF s.w.rows # <<>> /\ isTableRow(line)
  THEN [s EXCEPT !.w.rows = Append(IF update THEN Front(@) ELSE @, line)]
  ELSE LET t == outputTable(s) IN IF t.err THEN t ELSE handleNewLine(t, line, update)

-----------------------------------------------------------------------------
(* LineBuffer *)

\* One token: the end of a line puts the line out.  After an error the rest of the content
\* stays in the buffer, behind what is out of the line already.
TakeToken(s, token) ==
  IF s.err \/ token.k # "nl" THEN [s EXCEPT !.w.text = Append(@, token)]
  ELSE LET t == handleLine(s, s.w.cur \o s.w.text, s.w.out) IN
       IF t.err THEN [t EXCEPT !.w.text = t.w.cur]
       ELSE [t EXCEPT !.w.text = <<>>, !.w.cur = <<>>, !.w.out = FALSE]

\* Write and processBuffer: they start over with the whole content of the buffer.
Write(s, fragment) ==
  LET t == FoldLeft(TakeToken, [s EXCEPT !.w.text = <<>>], s.w.text \o fragment)
  IN IF t.err THEN t ELSE [t EXCEPT !.w.timer = t.w.text # <<>>]

\* Mutant: the rest of a line that was shown is taken for all of it.
timerFlushForgets(s) ==
  LET t == handleLine([s EXCEPT !.w.timer = FALSE], s.w.text, s.w.out) IN
  IF s.w.text = <<>> THEN [s EXCEPT !.w.timer = FALSE]
  ELSE IF t.err THEN t
  ELSE [t EXCEPT !.w.cur = <<>>, !.w.out = TRUE, !.w.text = <<>>]
\* The timer of a line that is not complete: it is shown, and later updated.
timerFlush(s) ==
  LET w == s.w
      t == handleLine([s EXCEPT !.w.timer = FALSE], w.cur \o w.text, w.out) IN
  IF w.text = <<>> THEN [s EXCEPT !.w.timer = FALSE]
  ELSE IF t.err THEN t
  ELSE [t EXCEPT !.w.cur = w.cur \o w.text, !.w.out = TRUE, !.w.text = <<>>]

\* LineBuffer.Flush: a line that is out already stays the current one.
FlushLine(s) ==
  LET t == handleLine(s, s.w.cur \o s.w.text, s.w.out) IN
  IF s.w.text = <<>> \/ t.err THEN [(IF s.w.text = <<>> THEN s ELSE t) EXCEPT !.w.timer = FALSE]
  ELSE [t EXCEPT !.w.cur = <<>>, !.w.out = FALSE, !.w.text = <<>>, !.w.timer = FALSE]

\* BlockBuffer.Flush: the line, and then the block or table it may have ended in.
Flush(s) ==
  LET t == FlushLine(s) IN
  IF t.err THEN t
  ELSE IF t.w.held # <<>> THEN outputBlock(t, t.w.held)
  ELSE outputTable(t)
=============================================================================
