---------------------------- MODULE SessionRows ----------------------------
(***************************************************************************)
(* The session and log tables of db/store.go as one value, and what        *)
(* persistence/persister.go writes to them for a router event.             *)
(*                                                                         *)
(* A row's columns are its status, the ACP session and whether finished_at *)
(* is set; telemetry and the persister's cache of it are left out.  The    *)
(* writes of one event (a log entry, then the status) are one step: each   *)
(* is an UPDATE or INSERT by the conversation's id, and no write of        *)
(* another event depends on what came between them.                        *)
(***************************************************************************)
EXTENDS Naturals

\* status, acp: columns of the session row, "none" without one.  finished: rows with
\* finished_at.  refused: conversations of which the foreign key refused a log entry.
EmptyRows(Convs) ==
  [status |-> [c \in Convs |-> "none"], acp |-> [c \in Convs |-> 0],
   finished |-> {}, refused |-> {}]

HasRow(db, c) == db.status[c] # "none"

InsertSession(db, c) == [db EXCEPT !.status[c] = "pending"]

\* An UPDATE of a row that is not there changes nothing.
SetACPSessionID(db, c, s) == IF HasRow(db, c) THEN [db EXCEPT !.acp[c] = s] ELSE db

\* A log entry needs its session row.
InsertLog(db, c) == IF HasRow(db, c) THEN db ELSE [db EXCEPT !.refused = @ \cup {c}]

\* beginTurn and endTurn write the status without asking whether the row is finished.
UpdateSession(db, c) == IF HasRow(db, c) THEN [db EXCEPT !.status[c] = "running"] ELSE db

FinishSession(db, c, status) ==
  IF HasRow(db, c) THEN [db EXCEPT !.status[c] = status, !.finished = @ \cup {c}] ELSE db

\* A prompt and its response.
RecordTurn(db, c) == UpdateSession(InsertLog(db, c), c)
=============================================================================
