-------------------------- MODULE MCDiscordChannel --------------------------
\* Instance of DiscordChannel for TLC: fragments that break inside and at the end of a line;
\* much text in one conversation, or two conversations and two messages with little of it.
EXTENDS DiscordChannel, TLC

MCFragments == {<<"text">>, <<"nl">>, <<"fence">>, <<"bar">>, <<"nl", "text">>}

MCScopes ==
  {[convs |-> 1, posts |-> 1, tokens |-> 5, tools |-> 0, refusals |-> 0],
   [convs |-> 1, posts |-> 1, tokens |-> 4, tools |-> 1, refusals |-> 0],
   [convs |-> 1, posts |-> 1, tokens |-> 4, tools |-> 0, refusals |-> 1],
   [convs |-> 2, posts |-> 2, tokens |-> 2, tools |-> 0, refusals |-> 0]}

Symmetry == Permutations(Goroutines)
=============================================================================
