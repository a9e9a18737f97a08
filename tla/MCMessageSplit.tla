--------------------------- MODULE MCMessageSplit ---------------------------
\* Instance of MessageSplit for TLC: a paragraph, and code blocks of short and of long lines.
EXTENDS MessageSplit

Line(n) == [i \in 1..n |-> "x"]
Lines(n, m) == Line(n) \o <<"nl">> \o Line(m)
Block(body) == Fence \o <<"nl">> \o body \o <<"nl">> \o Fence

MCTexts == {Line(30), Lines(8, 20), Block(Lines(3, 3)), Block(Lines(3, 9))}
=============================================================================
