---------------------------- MODULE MCPersister ----------------------------
(* Persister with a past and a new conversation and the smallest values that tell apart   *)
(* what the queries and the totals depend on.                                  *)
EXTENDS Persister

MCOpts == {[agent |-> "gemini", dir |-> "d", project |-> "x"]}

MCPast == [agent |-> "claude", dir |-> "d", project |-> "p"]

\* Two models in one report: which of them gives the cost and the window is open.
MCReport == <<[model |-> "m", cost |-> 0,
               usage |-> [x |-> [tokens |-> 1, window |-> 8, cost |-> 1],
                          y |-> [tokens |-> 2, window |-> 9, cost |-> 0]]]>>

MCUpdates == {[variant |-> "agent_message_chunk", meta |-> MCReport],
              [variant |-> "usage_update", size |-> 7, used |-> 3, cost |-> 2],
              [variant |-> "tool_call", call |-> "t", title |-> "read", skill |-> ""]}

MCResponses == {[meta |-> <<>>, tokens |-> 4],
                [meta |-> <<[model |-> "n", cost |-> 3, usage |-> [x |-> [tokens |-> 6,
                   window |-> 9, cost |-> 0]]]>>, tokens |-> 0]}

MCNames == <<"", "d", "p", "x">>
=============================================================================
