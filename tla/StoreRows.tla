----------------------------- MODULE StoreRows -----------------------------
(***************************************************************************)
(* The rows both stores of package db keep: sessions, log entries and      *)
(* projects, and the telemetry (types.StatusInfo) written to them.         *)
(*                                                                         *)
(* Strings are model values or short names, "" where the code has an empty *)
(* string.  The token counters of a session (input, output, cache) are one *)
(* number, tokens; used and window are the two of the context window.      *)
(* sdk_version, pid, node, sandbox, source and git_commit are left out:    *)
(* the persister writes a constant or copies them once.  A time is a       *)
(* number: Ticks of them make a day, and 0 stands for NULL.                *)
(***************************************************************************)
EXTENDS Integers, Sequences, FiniteSets

Ticks == 10                        \* instants of one day
DaysPerMonth == 2

DayOf(t) == t \div Ticks
MonthOf(t) == DayOf(t) \div DaysPerMonth

NoUsage == [tokens |-> 0, used |-> 0, window |-> 0, cost |-> 0, count |-> 0]

\* types.StatusInfo, as far as the persister fills it.
NoInfo == [status |-> "", model |-> "", usage |-> NoUsage]

\* A session row as InsertSession leaves it.
NewSession(id, opts, at) ==
  [id |-> id, acp |-> "", agent |-> opts.agent, dir |-> opts.dir, project |-> opts.project,
   status |-> "pending", err |-> "", model |-> "", usage |-> NoUsage, dur |-> 0,
   created |-> at, finished |-> 0]

\* The columns UpdateSession and FinishSession both set.
WithInfo(row, info) ==
  [row EXCEPT !.status = info.status, !.model = info.model, !.usage = info.usage]

\* A project row: env is the array of entries, fields the columns of validProjectFields.
ProjectFields == {"agent", "dir"}
NewProject(name) == [name |-> name, env |-> <<>>, fields |-> [f \in ProjectFields |-> ""]]

\* An update of the agent: its variant, and of a tool call the id, the title and the
\* skill it was given.  A prompt is its text.
Variants == {"agent_message_chunk", "agent_thought_chunk", "tool_call", "tool_call_update",
             "plan", "usage_update"}

ClassifyEvent(update) == IF update.variant \in Variants THEN update.variant ELSE "unknown"

\* The log entry of an update: its event type and its payload.
MarshalEvent(update) == [type |-> ClassifyEvent(update), payload |-> update]

Open(row) == row.status \in {"running", "pending"}

\* The last moment a session was used.
Used(row) == IF row.finished > row.created THEN row.finished ELSE row.created
=============================================================================
