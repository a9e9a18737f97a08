--------------------------- MODULE Persister_proof ---------------------------
(***************************************************************************)
(* That both stores hold the same rows whatever the persister writes, and  *)
(* that the row of a conversation counts its turns and is open while it is *)
(* live, for any number of conversations, updates, prompts, restarts and   *)
(* adoptions.                                                              *)
(***************************************************************************)
EXTENDS Persister, SequenceTheorems, FiniteSetTheorems, TLAPS

RowFields == {"id", "acp", "agent", "dir", "project", "status", "err", "model", "usage", "dur",
              "created", "finished"}
UsageFields == {"tokens", "used", "window", "cost", "count"}

UsageOK(usage) == DOMAIN usage = UsageFields
RowOK(row, c) == DOMAIN row = RowFields /\ row.id = c /\ UsageOK(row.usage)
ProjectOK(p, name) ==
  DOMAIN p = {"name", "env", "fields"} /\ p.name = name /\ DOMAIN p.fields = ProjectFields
InfoOK(info) == DOMAIN info = {"status", "model", "usage"} /\ UsageOK(info.usage)

\* The maps m hold what the tables db hold; sessions are numbered in the order they were
\* created, log entries too.
Agree(db, m) ==
  /\ DOMAIN db = {"session", "project", "log", "nextLog"}
  /\ DOMAIN m = {"sessions", "logs", "projects", "logSeq"}
  /\ db.session = Mem!Values(m.sessions) /\ db.project = Mem!Values(m.projects)
  /\ db.log = ToSet(m.logs) /\ db.nextLog = m.logSeq + 1
  /\ Cardinality(db.session) \in Nat /\ DOMAIN m.sessions = 1..Cardinality(db.session)
  /\ \A c \in DOMAIN m.sessions : RowOK(m.sessions[c], c)
  /\ m.logSeq \in Nat /\ Len(m.logs) = m.logSeq /\ m.logs \in Seq(ToSet(m.logs))
  /\ \A i \in 1..m.logSeq : m.logs[i].id = i
  /\ m.projects = [name \in DOMAIN m.projects |-> m.projects[name]]
  /\ \A name \in DOMAIN m.projects : ProjectOK(m.projects[name], name)

\* Rows as the stores leave them.
Reopened(row) == [row EXCEPT !.status = "pending", !.err = "", !.finished = 0]
Finished(row, info, err, now) == [WithInfo(row, info) EXCEPT !.err = err, !.finished = now]
Lasted(row, d) == [row EXCEPT !.dur = @ + d]
Completed(row, now) ==
  IF Open(row) THEN [row EXCEPT !.status = "complete", !.finished = now] ELSE row

\* r takes the place of the row of c.
RowSet(db, m, c, r, db2, m2) ==
  /\ db2 = [db EXCEPT !.session = {IF x.id = c THEN r ELSE x : x \in @}]
  /\ m2 = [m EXCEPT !.sessions[c] = r]

\* r is the next row.
RowNew(db, m, c, r, db2, m2) ==
  /\ c = Cardinality(db.session) + 1
  /\ db2 = [db EXCEPT !.session = @ \cup {r}]
  /\ m2 = [m EXCEPT !.sessions = Mem!Put(@, c, r)]

\* p takes the place of the project of that name, or is added.
ProjectSet(db, m, name, p, db2, m2) ==
  /\ db2 = [db EXCEPT !.project = IF \E x \in @ : x.name = name
                                 THEN {IF x.name = name THEN p ELSE x : x \in @}
                                 ELSE @ \cup {p}]
  /\ m2 = [m EXCEPT !.projects = Mem!Put(@, name, p)]

-----------------------------------------------------------------------------
(* The two stores *)

\* There are as many rows as there are numbers given to them.
LEMMA CountRows ==
  ASSUME NEW n \in Nat, NEW f, DOMAIN f = 1..n, \A i \in 1..n : f[i].id = i,
         NEW S, S = {f[i] : i \in DOMAIN f}
  PROVE  Cardinality(S) = n
<1> DEFINE g == [i \in 1..n |-> f[i]]
<1>1. g \in Bijection(1..n, S)
  BY DEF Bijection, Injection, Surjection, IsInjective
<1>2. ExistsBijection(1..n, S)
  BY <1>1 DEF ExistsBijection
<1> QED BY <1>2, FS_CountingElements

\* What a lookup finds.
LEMMA Lookups ==
  ASSUME NEW db, NEW m, Agree(db, m), NEW c
  PROVE  /\ PG!HasSession(db, c) <=> c \in DOMAIN m.sessions
         /\ c \in DOMAIN m.sessions =>
              /\ PG!Session(db, c) = m.sessions[c]
              /\ {r \in db.session : r.id = c} = {m.sessions[c]}
<1>0. /\ db.session = {m.sessions[d] : d \in DOMAIN m.sessions}
      /\ \A d \in DOMAIN m.sessions : m.sessions[d].id = d
  BY DEF Agree, RowOK, Mem!Values
<1>1. \A r \in db.session : \E d \in DOMAIN m.sessions : r = m.sessions[d] /\ r.id = d
  BY <1>0
<1>2. \A d \in DOMAIN m.sessions : m.sessions[d] \in db.session /\ m.sessions[d].id = d
  BY <1>0
<1>3. PG!HasSession(db, c) <=> c \in DOMAIN m.sessions
  BY <1>1, <1>2 DEF PG!HasSession
<1>4. ASSUME c \in DOMAIN m.sessions
      PROVE  {r \in db.session : r.id = c} = {m.sessions[c]}
  BY <1>1, <1>2, <1>4
<1>5. ASSUME c \in DOMAIN m.sessions
      PROVE  PG!Session(db, c) = m.sessions[c]
  BY <1>1, <1>2, <1>5 DEF PG!Session
<1> QED BY <1>3, <1>4, <1>5

\* An UPDATE of the row of c and the same change of the map.
LEMMA RowChanged ==
  ASSUME NEW db, NEW m, Agree(db, m), NEW c \in DOMAIN m.sessions, NEW r, RowOK(r, c),
         NEW db2, NEW m2, RowSet(db, m, c, r, db2, m2)
  PROVE  Agree(db2, m2) /\ m2.sessions = [m.sessions EXCEPT ![c] = r]
<1>1. /\ DOMAIN db2 = DOMAIN db /\ DOMAIN m2 = DOMAIN m
      /\ m2.sessions = [m.sessions EXCEPT ![c] = r]
      /\ m2.logs = m.logs /\ m2.projects = m.projects /\ m2.logSeq = m.logSeq
      /\ db2.log = db.log /\ db2.project = db.project /\ db2.nextLog = db.nextLog
      /\ db2.session = {IF x.id = c THEN r ELSE x : x \in db.session}
  BY DEF Agree, RowSet
<1>2. /\ DOMAIN m2.sessions = 1..Cardinality(db.session) /\ Cardinality(db.session) \in Nat
      /\ \A d \in DOMAIN m2.sessions : RowOK(m2.sessions[d], d) /\ m2.sessions[d].id = d
  BY <1>1 DEF Agree, RowOK
<1>3. db2.session = Mem!Values(m2.sessions)
  BY <1>1, <1>2 DEF Mem!Values, RowOK, Agree
<1>4. Cardinality(db2.session) = Cardinality(db.session)
  <2> DEFINE f == m2.sessions
             n == Cardinality(db.session)
  <2>1. n \in Nat /\ DOMAIN f = 1..n /\ \A i \in 1..n : f[i].id = i
    BY <1>2
  <2>2. db2.session = {f[i] : i \in DOMAIN f}
    BY <1>3 DEF Mem!Values
  <2> HIDE DEF f, n
  <2>3. Cardinality(db2.session) = n
    BY <2>1, <2>2, CountRows
  <2> QED BY <2>3 DEF n
<1> QED BY <1>1, <1>2, <1>3, <1>4 DEF Agree

\* ReopenSession in both.
LEMMA ReopenAgrees ==
  ASSUME NEW db, NEW m, Agree(db, m), NEW c \in DOMAIN m.sessions
  PROVE  /\ Agree(PG!ReopenSession(db, c), Mem!ReopenSession(m, c))
         /\ Mem!ReopenSession(m, c).sessions = [m.sessions EXCEPT ![c] = Reopened(@)]
<1> DEFINE r == Reopened(m.sessions[c])
<1>1. RowOK(r, c)
  BY DEF Agree, RowOK, RowFields, Reopened
<1>2. PG!ReopenSession(db, c)
        = [db EXCEPT !.session = {IF x.id = c THEN r ELSE x : x \in @}]
  <2>1. \A x \in db.session : x.id = c => x = m.sessions[c]
    BY Lookups
  <2> QED BY <2>1 DEF PG!ReopenSession, PG!UpdateRow, PG!UpdateWhere, Reopened
<1>3. Mem!ReopenSession(m, c) = [m EXCEPT !.sessions[c] = r]
  BY DEF Mem!ReopenSession, Mem!ChangeSession, Reopened
<1> HIDE DEF r
<1>4. /\ Agree(PG!ReopenSession(db, c), Mem!ReopenSession(m, c))
      /\ Mem!ReopenSession(m, c).sessions = [m.sessions EXCEPT ![c] = r]
  <2>1. RowSet(db, m, c, r, PG!ReopenSession(db, c),
               Mem!ReopenSession(m, c))
    BY <1>2, <1>3 DEF RowSet
  <2> QED BY <1>1, <2>1, RowChanged
<1> QED BY <1>4 DEF r

\* SetACPSessionID in both.
LEMMA SetACPAgrees ==
  ASSUME NEW db, NEW m, Agree(db, m), NEW c \in DOMAIN m.sessions, NEW acp
  PROVE  /\ Agree(PG!SetACPSessionID(db, c, acp), Mem!SetACPSessionID(m, c, acp))
         /\ Mem!SetACPSessionID(m, c, acp).sessions
              = [m.sessions EXCEPT ![c] = [@ EXCEPT !.acp = acp]]
<1> DEFINE r == [m.sessions[c] EXCEPT !.acp = acp]
<1>1. RowOK(r, c)
  BY DEF Agree, RowOK, RowFields
<1>2. PG!SetACPSessionID(db, c, acp)
        = [db EXCEPT !.session = {IF x.id = c THEN r ELSE x : x \in @}]
  <2>1. \A x \in db.session : x.id = c => x = m.sessions[c]
    BY Lookups
  <2> QED BY <2>1 DEF PG!SetACPSessionID, PG!UpdateRow, PG!UpdateWhere
<1>3. Mem!SetACPSessionID(m, c, acp) = [m EXCEPT !.sessions[c] = r]
  BY DEF Mem!SetACPSessionID, Mem!ChangeSession
<1> HIDE DEF r
<1>4. /\ Agree(PG!SetACPSessionID(db, c, acp), Mem!SetACPSessionID(m, c, acp))
      /\ Mem!SetACPSessionID(m, c, acp).sessions = [m.sessions EXCEPT ![c] = r]
  <2>1. RowSet(db, m, c, r, PG!SetACPSessionID(db, c, acp),
               Mem!SetACPSessionID(m, c, acp))
    BY <1>2, <1>3 DEF RowSet
  <2> QED BY <1>1, <2>1, RowChanged
<1> QED BY <1>4 DEF r

\* UpdateSession in both.
LEMMA UpdateAgrees ==
  ASSUME NEW db, NEW m, Agree(db, m), NEW c \in DOMAIN m.sessions, NEW info, InfoOK(info)
  PROVE  /\ Agree(PG!UpdateSession(db, c, info), Mem!UpdateSession(m, c, info))
         /\ Mem!UpdateSession(m, c, info).sessions
              = [m.sessions EXCEPT ![c] = WithInfo(@, info)]
<1> DEFINE r == WithInfo(m.sessions[c], info)
<1>1. RowOK(r, c)
  BY DEF Agree, RowOK, RowFields, WithInfo, InfoOK
<1>2. PG!UpdateSession(db, c, info)
        = [db EXCEPT !.session = {IF x.id = c THEN r ELSE x : x \in @}]
  <2>1. \A x \in db.session : x.id = c => x = m.sessions[c]
    BY Lookups
  <2> QED BY <2>1 DEF PG!UpdateSession, PG!UpdateRow, PG!UpdateWhere,
                     PG!WithInfo, WithInfo
<1>3. Mem!UpdateSession(m, c, info) = [m EXCEPT !.sessions[c] = r]
  BY DEF Mem!UpdateSession, Mem!ChangeSession, Mem!WithInfo, WithInfo
<1> HIDE DEF r
<1>4. /\ Agree(PG!UpdateSession(db, c, info), Mem!UpdateSession(m, c, info))
      /\ Mem!UpdateSession(m, c, info).sessions = [m.sessions EXCEPT ![c] = r]
  <2>1. RowSet(db, m, c, r, PG!UpdateSession(db, c, info),
               Mem!UpdateSession(m, c, info))
    BY <1>2, <1>3 DEF RowSet
  <2> QED BY <1>1, <2>1, RowChanged
<1> QED BY <1>4 DEF r

\* FinishSession in both.
LEMMA FinishAgrees ==
  ASSUME NEW db, NEW m, Agree(db, m), NEW c \in DOMAIN m.sessions, NEW info, InfoOK(info),
         NEW err, NEW now
  PROVE  /\ Agree(PG!FinishSession(db, c, info, err, now),
                  Mem!FinishSession(m, c, info, err, now))
         /\ Mem!FinishSession(m, c, info, err, now).sessions
              = [m.sessions EXCEPT ![c] = Finished(@, info, err, now)]
<1> DEFINE r == Finished(m.sessions[c], info, err, now)
<1>1. RowOK(r, c)
  BY DEF Agree, RowOK, RowFields, Finished, WithInfo, InfoOK
<1>2. PG!FinishSession(db, c, info, err, now)
        = [db EXCEPT !.session = {IF x.id = c THEN r ELSE x : x \in @}]
  <2>1. \A x \in db.session : x.id = c => x = m.sessions[c]
    BY Lookups
  <2> QED BY <2>1 DEF PG!FinishSession, PG!UpdateRow, PG!UpdateWhere,
                     PG!WithInfo, WithInfo, Finished
<1>3. Mem!FinishSession(m, c, info, err, now) = [m EXCEPT !.sessions[c] = r]
  BY DEF Mem!FinishSession, Mem!ChangeSession, Mem!WithInfo, WithInfo, Finished
<1> HIDE DEF r
<1>4. /\ Agree(PG!FinishSession(db, c, info, err, now),
               Mem!FinishSession(m, c, info, err, now))
      /\ Mem!FinishSession(m, c, info, err, now).sessions = [m.sessions EXCEPT ![c] = r]
  <2>1. RowSet(db, m, c, r, PG!FinishSession(db, c, info, err, now),
               Mem!FinishSession(m, c, info, err, now))
    BY <1>2, <1>3 DEF RowSet
  <2> QED BY <1>1, <2>1, RowChanged
<1> QED BY <1>4 DEF r

\* AddPromptDuration in both.
LEMMA DurationAgrees ==
  ASSUME NEW db, NEW m, Agree(db, m), NEW c \in DOMAIN m.sessions, NEW d
  PROVE  /\ Agree(PG!AddPromptDuration(db, c, d), Mem!AddPromptDuration(m, c, d))
         /\ Mem!AddPromptDuration(m, c, d).sessions
              = [m.sessions EXCEPT ![c] = Lasted(@, d)]
<1> DEFINE r == Lasted(m.sessions[c], d)
<1>1. RowOK(r, c)
  BY DEF Agree, RowOK, RowFields, Lasted
<1>2. PG!AddPromptDuration(db, c, d)
        = [db EXCEPT !.session = {IF x.id = c THEN r ELSE x : x \in @}]
  <2>1. \A x \in db.session : x.id = c => x = m.sessions[c]
    BY Lookups
  <2> QED BY <2>1 DEF PG!AddPromptDuration, PG!UpdateRow, PG!UpdateWhere, Lasted
<1>3. Mem!AddPromptDuration(m, c, d) = [m EXCEPT !.sessions[c] = r]
  BY DEF Mem!AddPromptDuration, Mem!ChangeSession, Lasted
<1> HIDE DEF r
<1>4. /\ Agree(PG!AddPromptDuration(db, c, d), Mem!AddPromptDuration(m, c, d))
      /\ Mem!AddPromptDuration(m, c, d).sessions = [m.sessions EXCEPT ![c] = r]
  <2>1. RowSet(db, m, c, r, PG!AddPromptDuration(db, c, d),
               Mem!AddPromptDuration(m, c, d))
    BY <1>2, <1>3 DEF RowSet
  <2> QED BY <1>1, <2>1, RowChanged
<1> QED BY <1>4 DEF r

\* InsertLog in both: the next number, at the end.
LEMMA LogAgrees ==
  ASSUME NEW db, NEW m, Agree(db, m), NEW c \in DOMAIN m.sessions, NEW type, NEW payload,
         NEW now
  PROVE  /\ Agree(PG!InsertLog(db, c, type, payload, now),
                  Mem!InsertLog(m, c, type, payload, now))
         /\ Mem!InsertLog(m, c, type, payload, now).sessions = m.sessions
<1> DEFINE e == [id |-> m.logSeq + 1, session |-> c, type |-> type, payload |-> payload,
                 at |-> now]
           db2 == PG!InsertLog(db, c, type, payload, now)
           m2 == Mem!InsertLog(m, c, type, payload, now)
<1>1. db2 = [db EXCEPT !.nextLog = @ + 1, !.log = @ \cup {e}]
  BY Lookups DEF PG!InsertLog, Agree
<1>2. m2 = [m EXCEPT !.logSeq = @ + 1, !.logs = Append(@, e)]
  BY DEF Mem!InsertLog
<1>3. e.id = m.logSeq + 1
  OBVIOUS
<1> HIDE DEF e, db2, m2
<1>4. /\ DOMAIN db2 = DOMAIN db /\ DOMAIN m2 = DOMAIN m
      /\ m2.sessions = m.sessions /\ m2.projects = m.projects
      /\ db2.session = db.session /\ db2.project = db.project
      /\ m2.logSeq = m.logSeq + 1 /\ db2.nextLog = db.nextLog + 1
      /\ m2.logs = Append(m.logs, e) /\ db2.log = db.log \cup {e}
  BY <1>1, <1>2 DEF Agree
<1>5. /\ m.logs \in Seq(ToSet(m.logs) \cup {e}) /\ ToSet(m.logs) \subseteq ToSet(m.logs) \cup {e}
      /\ m.logSeq \in Nat /\ Len(m.logs) = m.logSeq /\ DOMAIN m.logs = 1..m.logSeq
  <2>1. m.logs \in Seq(ToSet(m.logs)) /\ m.logSeq \in Nat /\ Len(m.logs) = m.logSeq
    BY DEF Agree
  <2> QED BY <2>1
<1>6. /\ Len(m2.logs) = m.logSeq + 1 /\ DOMAIN m2.logs = 1..(m.logSeq + 1)
      /\ \A i \in 1..m.logSeq : m2.logs[i] = m.logs[i]
      /\ m2.logs[m.logSeq + 1] = e
      /\ m2.logs \in Seq(ToSet(m.logs) \cup {e})
  BY <1>4, <1>5, AppendProperties
<1>7. ToSet(m2.logs) = ToSet(m.logs) \cup {e}
  <2>1. DOMAIN m2.logs = DOMAIN m.logs \cup {m.logSeq + 1}
    BY <1>5, <1>6
  <2>2. /\ \A i \in DOMAIN m.logs : m2.logs[i] = m.logs[i]
        /\ m2.logs[m.logSeq + 1] = e
    BY <1>5, <1>6
  <2> QED BY <2>1, <2>2 DEF ToSet
<1>8. \A i \in 1..m2.logSeq : m2.logs[i].id = i
  BY <1>3, <1>4, <1>5, <1>6 DEF Agree
<1>9. m2.logs \in Seq(ToSet(m2.logs)) /\ Len(m2.logs) = m2.logSeq /\ m2.logSeq \in Nat
  BY <1>4, <1>5, <1>6, <1>7
<1>10. db2.log = ToSet(m2.logs)
  BY <1>4, <1>7 DEF Agree
<1>11. Agree(db2, m2)
  BY <1>4, <1>8, <1>9, <1>10 DEF Agree
<1> QED BY <1>4, <1>11 DEF db2, m2

\* CompleteRunningSessions in both.
LEMMA CompleteAgrees ==
  ASSUME NEW db, NEW m, Agree(db, m), NEW now
  PROVE  /\ Agree(PG!CompleteRunningSessions(db, now), Mem!CompleteRunningSessions(m, now))
         /\ Mem!CompleteRunningSessions(m, now).sessions
              = [c \in DOMAIN m.sessions |-> Completed(m.sessions[c], now)]
<1> DEFINE db2 == PG!CompleteRunningSessions(db, now)
           m2 == Mem!CompleteRunningSessions(m, now)
           n == Cardinality(db.session)
<1>1. db2 = [db EXCEPT !.session = {Completed(x, now) : x \in @}]
  BY DEF PG!CompleteRunningSessions, PG!UpdateWhere, PG!Open, Open, Completed
<1>2. m2 = [m EXCEPT !.sessions = [c \in DOMAIN @ |-> Completed(@[c], now)]]
  BY DEF Mem!CompleteRunningSessions, Mem!Open, Open, Completed
<1>3. /\ DOMAIN db2 = DOMAIN db /\ DOMAIN m2 = DOMAIN m
      /\ m2.sessions = [c \in DOMAIN m.sessions |-> Completed(m.sessions[c], now)]
      /\ m2.logs = m.logs /\ m2.projects = m.projects /\ m2.logSeq = m.logSeq
      /\ db2.log = db.log /\ db2.project = db.project /\ db2.nextLog = db.nextLog
      /\ db2.session = {Completed(x, now) : x \in db.session}
  BY <1>1, <1>2 DEF Agree
<1> HIDE DEF db2, m2
<1>4. /\ n \in Nat /\ DOMAIN m2.sessions = 1..n
      /\ \A c \in 1..n : RowOK(m2.sessions[c], c) /\ m2.sessions[c].id = c
  <2>1. n \in Nat /\ DOMAIN m.sessions = 1..n /\ \A c \in 1..n : RowOK(m.sessions[c], c)
    BY DEF Agree
  <2>2. \A row, c : RowOK(row, c) => RowOK(Completed(row, now), c)
    BY DEF RowOK, RowFields, Completed
  <2>3. DOMAIN m2.sessions = 1..n /\ \A c \in 1..n : RowOK(m2.sessions[c], c)
    BY <1>3, <2>1, <2>2
  <2> QED BY <2>1, <2>3 DEF RowOK
<1>5. db2.session = Mem!Values(m2.sessions)
  <2>1. db.session = {m.sessions[c] : c \in DOMAIN m.sessions}
    BY DEF Agree, Mem!Values
  <2> QED BY <1>3, <2>1 DEF Mem!Values
<1>6. Cardinality(db2.session) = n
  <2> DEFINE f == m2.sessions
  <2>1. DOMAIN f = 1..n /\ (\A c \in 1..n : f[c].id = c)
        /\ db2.session = {f[c] : c \in DOMAIN f}
    BY <1>4, <1>5 DEF Mem!Values
  <2> HIDE DEF f
  <2> QED BY <1>4, <2>1, CountRows
<1>7. Agree(db2, m2)
  BY <1>3, <1>4, <1>5, <1>6 DEF Agree
<1> QED BY <1>3, <1>7 DEF db2, m2

\* The next number goes to a new row.
LEMMA RowAdded ==
  ASSUME NEW db, NEW m, Agree(db, m), NEW c, NEW r, RowOK(r, c), NEW db2, NEW m2,
         RowNew(db, m, c, r, db2, m2)
  PROVE  Agree(db2, m2) /\ m2.sessions = Mem!Put(m.sessions, c, r)
<1> DEFINE n == Cardinality(db.session)
<1>1. /\ DOMAIN db2 = DOMAIN db /\ DOMAIN m2 = DOMAIN m
      /\ m2.sessions = Mem!Put(m.sessions, c, r)
      /\ m2.logs = m.logs /\ m2.projects = m.projects /\ m2.logSeq = m.logSeq
      /\ db2.log = db.log /\ db2.project = db.project /\ db2.nextLog = db.nextLog
      /\ db2.session = db.session \cup {r} /\ c = n + 1
  BY DEF Agree, RowNew
<1>2. n \in Nat /\ DOMAIN m.sessions = 1..n /\ \A d \in 1..n : RowOK(m.sessions[d], d)
  BY DEF Agree
<1>3. DOMAIN m2.sessions = 1..(n + 1) /\ n + 1 \in Nat
  BY <1>1, <1>2 DEF Mem!Put
<1>4. /\ \A d \in 1..n : m2.sessions[d] = m.sessions[d] /\ m2.sessions[c] = r
      /\ m2.sessions[n + 1] = r
  BY <1>1, <1>2 DEF Mem!Put
<1>5. \A d \in 1..(n + 1) : RowOK(m2.sessions[d], d) /\ m2.sessions[d].id = d
  BY <1>1, <1>2, <1>4 DEF RowOK
<1>6. db2.session = Mem!Values(m2.sessions)
  <2>1. db.session = {m.sessions[d] : d \in 1..n} /\ 1..(n + 1) = 1..n \cup {n + 1}
    <3>1. db.session = {m.sessions[d] : d \in DOMAIN m.sessions}
      BY DEF Agree, Mem!Values
    <3> HIDE DEF n
    <3> QED BY <1>2, <3>1
  <2>2. db2.session = {m.sessions[d] : d \in 1..n} \cup {r}
    BY <1>1, <2>1
  <2> HIDE DEF n
  <2> QED BY <1>3, <1>4, <2>1, <2>2 DEF Mem!Values
<1>7. Cardinality(db2.session) = n + 1
  <2> DEFINE f == m2.sessions
             k == n + 1
  <2>1. k \in Nat /\ DOMAIN f = 1..k /\ (\A d \in 1..k : f[d].id = d)
        /\ db2.session = {f[d] : d \in DOMAIN f}
    BY <1>3, <1>5, <1>6 DEF Mem!Values
  <2> HIDE DEF f, k
  <2>2. Cardinality(db2.session) = k
    BY <2>1, CountRows
  <2> QED BY <2>2 DEF k
<1> HIDE DEF n
<1>8. Agree(db2, m2)
  BY <1>1, <1>3, <1>5, <1>6, <1>7 DEF Agree
<1> QED BY <1>1, <1>8

\* An UPSERT of the row of a project and the entry for it in the map.
LEMMA ProjectPut ==
  ASSUME NEW db, NEW m, Agree(db, m), NEW name, NEW p, ProjectOK(p, name),
         NEW db2, NEW m2, ProjectSet(db, m, name, p, db2, m2)
  PROVE  Agree(db2, m2) /\ m2.sessions = m.sessions /\ db2.session = db.session
<1>1. /\ DOMAIN db2 = DOMAIN db /\ DOMAIN m2 = DOMAIN m
      /\ m2.projects = Mem!Put(m.projects, name, p)
      /\ m2.logs = m.logs /\ m2.sessions = m.sessions /\ m2.logSeq = m.logSeq
      /\ db2.log = db.log /\ db2.session = db.session /\ db2.nextLog = db.nextLog
      /\ db2.project = IF \E x \in db.project : x.name = name
                       THEN {IF x.name = name THEN p ELSE x : x \in db.project}
                       ELSE db.project \cup {p}
  BY DEF Agree, ProjectSet
<1>2. /\ \A k \in DOMAIN m.projects : ProjectOK(m.projects[k], k) /\ m.projects[k].name = k
      /\ p.name = name /\ db.project = Mem!Values(m.projects)
  BY DEF Agree, ProjectOK
<1>3. /\ DOMAIN m2.projects = DOMAIN m.projects \cup {name} /\ m2.projects[name] = p
      /\ \A k \in DOMAIN m.projects : k # name => m2.projects[k] = m.projects[k]
  BY <1>1 DEF Mem!Put
<1>4. \A k \in DOMAIN m2.projects : ProjectOK(m2.projects[k], k)
  BY <1>2, <1>3
<1>5. db2.project = Mem!Values(m2.projects)
  <2>1. CASE name \in DOMAIN m.projects
    <3>1. m.projects[name] \in db.project /\ m.projects[name].name = name
      BY <1>2, <2>1 DEF Mem!Values
    <3>2. db2.project = {IF x.name = name THEN p ELSE x : x \in db.project}
      BY <1>1, <3>1
    <3> QED BY <1>2, <1>3, <2>1, <3>2 DEF Mem!Values
  <2>2. CASE name \notin DOMAIN m.projects
    <3>1. ~ \E x \in db.project : x.name = name
      BY <1>2, <2>2 DEF Mem!Values
    <3>2. db2.project = db.project \cup {p}
      BY <1>1, <3>1
    <3> QED BY <1>2, <1>3, <2>2, <3>2 DEF Mem!Values
  <2> QED BY <2>1, <2>2
<1>6. m2.projects = [k \in DOMAIN m2.projects |-> m2.projects[k]]
  BY <1>1 DEF Mem!Put
<1> QED BY <1>1, <1>4, <1>5, <1>6 DEF Agree

\* InsertSession in both: the project, its directory filled in when it is empty, and the row.
LEMMA InsertAgrees ==
  ASSUME NEW db, NEW m, Agree(db, m), NEW c, c = Cardinality(db.session) + 1,
         NEW opts, NEW at
  PROVE  /\ Agree(PG!InsertSession(db, c, opts, at), Mem!InsertSession(m, c, opts, at))
         /\ Mem!InsertSession(m, c, opts, at).sessions
              = Mem!Put(m.sessions, c, NewSession(c, opts, at))
<1> DEFINE name == opts.project
           new == [NewProject(name) EXCEPT !.fields["dir"] = opts.dir]
           Filled(x) == IF x.fields["dir"] = "" THEN [x EXCEPT !.fields["dir"] = opts.dir] ELSE x
           p == IF name \in DOMAIN m.projects THEN Filled(m.projects[name]) ELSE new
           r == NewSession(c, opts, at)
           db1 == [db EXCEPT !.project = IF \E x \in @ : x.name = name
                                         THEN {IF x.name = name THEN p ELSE x : x \in @}
                                         ELSE @ \cup {p}]
           m1 == [m EXCEPT !.projects = Mem!Put(@, name, p)]
           db2 == PG!InsertSession(db, c, opts, at)
           m2 == Mem!InsertSession(m, c, opts, at)
<1>1. ProjectOK(p, name)
  <2>1. ProjectOK(new, name)
    BY DEF ProjectOK, NewProject, ProjectFields
  <2>2. \A x : ProjectOK(x, name) => ProjectOK(Filled(x), name)
    BY DEF ProjectOK
  <2>3. name \in DOMAIN m.projects => ProjectOK(m.projects[name], name)
    BY DEF Agree
  <2> QED BY <2>1, <2>2, <2>3
<1>2. Agree(db1, m1) /\ m1.sessions = m.sessions /\ db1.session = db.session
  <2>1. ProjectSet(db, m, name, p, db1, m1)
    BY DEF ProjectSet
  <2> HIDE DEF p, db1, m1, name
  <2> QED BY <1>1, <2>1, ProjectPut
<1>3. RowOK(r, c)
  BY DEF RowOK, RowFields, UsageOK, UsageFields, NewSession, NoUsage
<1>4. db2 = [db1 EXCEPT !.session = @ \cup {r}]
  <2>1. ~PG!HasSession(db, c)
    <3>1. c \notin DOMAIN m.sessions
      BY DEF Agree
    <3> QED BY <3>1, Lookups
  <2>2. PG!UpsertProject(db, name, new, Filled) = db1
    <3>1. \A x \in db.project : x.name = name => /\ name \in DOMAIN m.projects
                                                 /\ x = m.projects[name]
      BY DEF Agree, Mem!Values, ProjectOK
    <3>2. CASE \E x \in db.project : x.name = name
      <4>1. p = Filled(m.projects[name])
        BY <3>1, <3>2
      <4>2. {IF x.name = name THEN Filled(x) ELSE x : x \in db.project}
              = {IF x.name = name THEN p ELSE x : x \in db.project}
        BY <3>1, <4>1
      <4> QED BY <3>2, <4>2 DEF PG!UpsertProject, PG!UpdateWhere
    <3>3. CASE ~ \E x \in db.project : x.name = name
      <4>1. name \notin DOMAIN m.projects
        BY <3>3 DEF Agree, Mem!Values, ProjectOK
      <4> QED BY <3>3, <4>1 DEF PG!UpsertProject
    <3> QED BY <3>2, <3>3
  <2>3. db2 = IF PG!HasSession(db, c) THEN PG!UpsertProject(db, name, new, Filled)
              ELSE [PG!UpsertProject(db, name, new, Filled) EXCEPT !.session = @ \cup {r}]
    BY DEF PG!InsertSession, PG!NewSession, NewSession, PG!NoUsage, NoUsage, PG!NewProject,
           NewProject, PG!ProjectFields, ProjectFields
  <2> HIDE DEF db2, db1, r
  <2> QED BY <2>1, <2>2, <2>3
<1>5. m2 = [m1 EXCEPT !.sessions = Mem!Put(@, c, r)]
  <2> DEFINE projects == IF name \notin DOMAIN m.projects THEN Mem!Put(m.projects, name, new)
                         ELSE IF m.projects[name].fields["dir"] = ""
                              THEN [m.projects EXCEPT ![name].fields["dir"] = opts.dir]
                              ELSE m.projects
  <2>1. projects = Mem!Put(m.projects, name, p)
    <3>1. CASE name \notin DOMAIN m.projects
      BY <3>1
    <3>2. CASE name \in DOMAIN m.projects /\ m.projects[name].fields["dir"] = ""
      <4>1. p = [m.projects[name] EXCEPT !.fields["dir"] = opts.dir]
        BY <3>2
      <4>2. projects = [m.projects EXCEPT ![name] = p]
        BY <3>2, <4>1
      <4> HIDE DEF p, projects
      <4> QED BY <3>2, <4>2 DEF Mem!Put
    <3>3. CASE name \in DOMAIN m.projects /\ m.projects[name].fields["dir"] # ""
      <4>1. p = m.projects[name] /\ projects = m.projects
        BY <3>3
      <4>2. m.projects = [k \in DOMAIN m.projects |-> m.projects[k]]
        BY DEF Agree
      <4> HIDE DEF p, projects
      <4> QED BY <3>3, <4>1, <4>2 DEF Mem!Put
    <3> QED BY <3>1, <3>2, <3>3
  <2>2. m2 = [m EXCEPT !.projects = projects, !.sessions = Mem!Put(@, c, r)]
    BY DEF Mem!InsertSession, Mem!NewSession, NewSession, Mem!NoUsage, NoUsage,
           Mem!NewProject, NewProject, Mem!ProjectFields, ProjectFields
  <2> HIDE DEF m2, projects, p, r
  <2> QED BY <2>1, <2>2 DEF Agree
<1>6. Agree(db2, m2) /\ m2.sessions = Mem!Put(m1.sessions, c, r)
  <2>1. RowNew(db1, m1, c, r, db2, m2)
    <3>1. c = Cardinality(db1.session) + 1
      BY <1>2
    <3> HIDE DEF db1, m1, db2, m2, r
    <3> QED BY <1>4, <1>5, <3>1 DEF RowNew
  <2> HIDE DEF db1, m1, db2, m2, r
  <2> QED BY <1>2, <1>3, <2>1, RowAdded
<1> HIDE DEF m1, db1
<1> QED BY <1>2, <1>6

\* The stores are created empty.
LEMMA EmptyAgrees == Agree(PG!EmptyTables, Mem!EmptyStore)
<1>1. Cardinality({}) = 0
  BY FS_EmptySet
<1>2. 1..0 = {} /\ Mem!Values(Mem!None) = {} /\ DOMAIN Mem!None = {} /\ ToSet(<<>>) = {}
  BY DEF Mem!Values, Mem!None, ToSet
<1>3. Mem!None = [k \in DOMAIN Mem!None |-> Mem!None[k]]
  BY DEF Mem!None
<1>4. <<>> \in Seq({}) /\ Len(<<>>) = 0
  BY EmptySeq
<1> QED BY <1>1, <1>2, <1>3, <1>4 DEF Agree, PG!EmptyTables, Mem!EmptyStore

\* What is stored of a project.
LEMMA ProjectRows ==
  ASSUME NEW db, NEW m, Agree(db, m), NEW name
  PROVE  /\ name \in DOMAIN m.projects <=> \E x \in db.project : x.name = name
         /\ \A x \in db.project : x.name = name => x = m.projects[name]
         /\ name \in DOMAIN m.projects => ProjectOK(m.projects[name], name)
<1>1. /\ db.project = {m.projects[k] : k \in DOMAIN m.projects}
      /\ \A k \in DOMAIN m.projects : ProjectOK(m.projects[k], k) /\ m.projects[k].name = k
  BY DEF Agree, Mem!Values, ProjectOK
<1> QED BY <1>1

\* What an edit of a project leaves of it, one that was not there first made with defaults.
LEMMA DefaultOK ==
  ASSUME NEW name PROVE ProjectOK(NewProject(name), name)
BY DEF ProjectOK, NewProject, ProjectFields

\* GetProject in both: the project is made with defaults when it is not there.
LEMMA GetAgrees ==
  ASSUME NEW db, NEW m, Agree(db, m), NEW name
  PROVE  /\ Agree(PG!GetProject(db, name), Mem!GetProject(m, name))
         /\ Mem!GetProject(m, name).sessions = m.sessions
         /\ PG!GetProject(db, name).session = db.session
<1> DEFINE Changed(x) == x
           p == Changed(IF name \in DOMAIN m.projects THEN m.projects[name]
                        ELSE NewProject(name))
           db2 == PG!GetProject(db, name)
           m2 == Mem!GetProject(m, name)
<1>1. ProjectOK(p, name)
  <2>1. \A x : ProjectOK(x, name) => ProjectOK(Changed(x), name)
    BY DEF ProjectOK, ProjectFields
  <2> QED BY <2>1, DefaultOK, ProjectRows
<1>2. db2 = [db EXCEPT !.project = IF \E x \in @ : x.name = name
                                   THEN {IF x.name = name THEN p ELSE x : x \in @}
                                   ELSE @ \cup {p}]
  <2>1. CASE \E x \in db.project : x.name = name
    <3>1. \A x \in db.project : x.name = name => Changed(x) = p
      <4>1. name \in DOMAIN m.projects
        BY <2>1, ProjectRows
      <4>2. \A x \in db.project : x.name = name => x = m.projects[name]
        BY ProjectRows
      <4> QED BY <4>1, <4>2
    <3>2. {IF x.name = name THEN Changed(x) ELSE x : x \in db.project}
            = {IF x.name = name THEN p ELSE x : x \in db.project}
      BY <3>1
    <3> QED BY <2>1, <3>2 DEF PG!GetProject, PG!UpsertProject, PG!UpdateWhere
  <2>2. CASE ~ \E x \in db.project : x.name = name
    <3>1. name \notin DOMAIN m.projects
      BY <2>2, ProjectRows
    <3>2. p = NewProject(name)
      BY <3>1 DEF NewProject
    <3> HIDE DEF p
    <3> QED BY <2>2, <3>2 DEF PG!GetProject, PG!UpsertProject, PG!NewProject, NewProject,
                              PG!ProjectFields, ProjectFields
  <2> QED BY <2>1, <2>2
<1>3. m2 = [m EXCEPT !.projects = Mem!Put(@, name, p)]
  BY DEF Mem!GetProject, Mem!ChangeProject, Mem!Lookup, Mem!NewProject, NewProject,
         Mem!ProjectFields, ProjectFields
<1>4. ProjectSet(db, m, name, p, db2, m2)
  BY <1>2, <1>3 DEF ProjectSet
<1> HIDE DEF p, db2, m2
<1>5. Agree(db2, m2) /\ m2.sessions = m.sessions /\ db2.session = db.session
  BY <1>1, <1>4, ProjectPut
<1> QED BY <1>5 DEF db2, m2

\* SetProjectEnv in both.
LEMMA EnvAgrees ==
  ASSUME NEW db, NEW m, Agree(db, m), NEW name, NEW entries
  PROVE  /\ Agree(PG!SetProjectEnv(db, name, entries), Mem!SetProjectEnv(m, name, entries))
         /\ Mem!SetProjectEnv(m, name, entries).sessions = m.sessions
         /\ PG!SetProjectEnv(db, name, entries).session = db.session
<1> DEFINE Changed(x) == [x EXCEPT !.env = entries]
           p == Changed(IF name \in DOMAIN m.projects THEN m.projects[name]
                        ELSE NewProject(name))
           db2 == PG!SetProjectEnv(db, name, entries)
           m2 == Mem!SetProjectEnv(m, name, entries)
<1>1. ProjectOK(p, name)
  <2>1. \A x : ProjectOK(x, name) => ProjectOK(Changed(x), name)
    BY DEF ProjectOK, ProjectFields
  <2> QED BY <2>1, DefaultOK, ProjectRows
<1>2. db2 = [db EXCEPT !.project = IF \E x \in @ : x.name = name
                                   THEN {IF x.name = name THEN p ELSE x : x \in @}
                                   ELSE @ \cup {p}]
  <2>1. CASE \E x \in db.project : x.name = name
    <3>1. \A x \in db.project : x.name = name => Changed(x) = p
      <4>1. name \in DOMAIN m.projects
        BY <2>1, ProjectRows
      <4>2. \A x \in db.project : x.name = name => x = m.projects[name]
        BY ProjectRows
      <4> QED BY <4>1, <4>2
    <3>2. {IF x.name = name THEN Changed(x) ELSE x : x \in db.project}
            = {IF x.name = name THEN p ELSE x : x \in db.project}
      BY <3>1
    <3> QED BY <2>1, <3>2 DEF PG!SetProjectEnv, PG!UpsertProject, PG!UpdateWhere
  <2>2. CASE ~ \E x \in db.project : x.name = name
    <3>1. name \notin DOMAIN m.projects
      BY <2>2, ProjectRows
    <3>2. p = [NewProject(name) EXCEPT !.env = entries]
      BY <3>1 DEF NewProject
    <3> HIDE DEF p
    <3> QED BY <2>2, <3>2 DEF PG!SetProjectEnv, PG!UpsertProject, PG!NewProject, NewProject,
                              PG!ProjectFields, ProjectFields
  <2> QED BY <2>1, <2>2
<1>3. m2 = [m EXCEPT !.projects = Mem!Put(@, name, p)]
  BY DEF Mem!SetProjectEnv, Mem!ChangeProject, Mem!Lookup, Mem!NewProject, NewProject,
         Mem!ProjectFields, ProjectFields
<1>4. ProjectSet(db, m, name, p, db2, m2)
  BY <1>2, <1>3 DEF ProjectSet
<1> HIDE DEF p, db2, m2
<1>5. Agree(db2, m2) /\ m2.sessions = m.sessions /\ db2.session = db.session
  BY <1>1, <1>4, ProjectPut
<1> QED BY <1>5 DEF db2, m2

\* AppendProjectEnv in both.
LEMMA AppendAgrees ==
  ASSUME NEW db, NEW m, Agree(db, m), NEW name, NEW entry
  PROVE  /\ Agree(PG!AppendProjectEnv(db, name, entry), Mem!AppendProjectEnv(m, name, entry))
         /\ Mem!AppendProjectEnv(m, name, entry).sessions = m.sessions
         /\ PG!AppendProjectEnv(db, name, entry).session = db.session
<1> DEFINE Changed(x) == [x EXCEPT !.env = Append(@, entry)]
           p == Changed(IF name \in DOMAIN m.projects THEN m.projects[name]
                        ELSE NewProject(name))
           db2 == PG!AppendProjectEnv(db, name, entry)
           m2 == Mem!AppendProjectEnv(m, name, entry)
<1>1. ProjectOK(p, name)
  <2>1. \A x : ProjectOK(x, name) => ProjectOK(Changed(x), name)
    BY DEF ProjectOK, ProjectFields
  <2> QED BY <2>1, DefaultOK, ProjectRows
<1>2. db2 = [db EXCEPT !.project = IF \E x \in @ : x.name = name
                                   THEN {IF x.name = name THEN p ELSE x : x \in @}
                                   ELSE @ \cup {p}]
  <2>1. CASE \E x \in db.project : x.name = name
    <3>1. \A x \in db.project : x.name = name => Changed(x) = p
      <4>1. name \in DOMAIN m.projects
        BY <2>1, ProjectRows
      <4>2. \A x \in db.project : x.name = name => x = m.projects[name]
        BY ProjectRows
      <4> QED BY <4>1, <4>2
    <3>2. {IF x.name = name THEN Changed(x) ELSE x : x \in db.project}
            = {IF x.name = name THEN p ELSE x : x \in db.project}
      BY <3>1
    <3> QED BY <2>1, <3>2 DEF PG!AppendProjectEnv, PG!UpsertProject, PG!UpdateWhere
  <2>2. CASE ~ \E x \in db.project : x.name = name
    <3>1. name \notin DOMAIN m.projects
      BY <2>2, ProjectRows
    <3>2. p = [NewProject(name) EXCEPT !.env = <<entry>>]
      BY <3>1 DEF NewProject
    <3> HIDE DEF p
    <3> QED BY <2>2, <3>2 DEF PG!AppendProjectEnv, PG!UpsertProject, PG!NewProject, NewProject,
                              PG!ProjectFields, ProjectFields
  <2> QED BY <2>1, <2>2
<1>3. m2 = [m EXCEPT !.projects = Mem!Put(@, name, p)]
  BY DEF Mem!AppendProjectEnv, Mem!ChangeProject, Mem!Lookup, Mem!NewProject, NewProject,
         Mem!ProjectFields, ProjectFields
<1>4. ProjectSet(db, m, name, p, db2, m2)
  BY <1>2, <1>3 DEF ProjectSet
<1> HIDE DEF p, db2, m2
<1>5. Agree(db2, m2) /\ m2.sessions = m.sessions /\ db2.session = db.session
  BY <1>1, <1>4, ProjectPut
<1> QED BY <1>5 DEF db2, m2

\* SetProjectField in both.
LEMMA FieldAgrees ==
  ASSUME NEW db, NEW m, Agree(db, m), NEW name,
         NEW field \in ProjectFields, NEW value
  PROVE  /\ Agree(PG!SetProjectField(db, name, field, value),
                  Mem!SetProjectField(m, name, field, value))
         /\ Mem!SetProjectField(m, name, field, value).sessions = m.sessions
         /\ PG!SetProjectField(db, name, field, value).session = db.session
<1> DEFINE Changed(x) == [x EXCEPT !.fields[field] = value]
           p == Changed(IF name \in DOMAIN m.projects THEN m.projects[name]
                        ELSE NewProject(name))
           db2 == PG!SetProjectField(db, name, field, value)
           m2 == Mem!SetProjectField(m, name, field, value)
<1>1. ProjectOK(p, name)
  <2>1. \A x : ProjectOK(x, name) => ProjectOK(Changed(x), name)
    BY DEF ProjectOK, ProjectFields
  <2> QED BY <2>1, DefaultOK, ProjectRows
<1>2. db2 = [db EXCEPT !.project = IF \E x \in @ : x.name = name
                                   THEN {IF x.name = name THEN p ELSE x : x \in @}
                                   ELSE @ \cup {p}]
  <2>1. CASE \E x \in db.project : x.name = name
    <3>1. \A x \in db.project : x.name = name => Changed(x) = p
      <4>1. name \in DOMAIN m.projects
        BY <2>1, ProjectRows
      <4>2. \A x \in db.project : x.name = name => x = m.projects[name]
        BY ProjectRows
      <4> QED BY <4>1, <4>2
    <3>2. {IF x.name = name THEN Changed(x) ELSE x : x \in db.project}
            = {IF x.name = name THEN p ELSE x : x \in db.project}
      BY <3>1
    <3> QED BY <2>1, <3>2 DEF PG!SetProjectField, PG!UpsertProject, PG!UpdateWhere,
                                   PG!ProjectFields, ProjectFields
  <2>2. CASE ~ \E x \in db.project : x.name = name
    <3>1. name \notin DOMAIN m.projects
      BY <2>2, ProjectRows
    <3>2. p = [NewProject(name) EXCEPT !.fields[field] = value]
      BY <3>1 DEF NewProject
    <3> HIDE DEF p
    <3> QED BY <2>2, <3>2 DEF PG!SetProjectField, PG!UpsertProject, PG!NewProject, NewProject,
                              PG!ProjectFields, ProjectFields
  <2> QED BY <2>1, <2>2
<1>3. m2 = [m EXCEPT !.projects = Mem!Put(@, name, p)]
  BY DEF Mem!SetProjectField, Mem!ChangeProject, Mem!Lookup, Mem!NewProject, NewProject,
         Mem!ProjectFields, ProjectFields
<1>4. ProjectSet(db, m, name, p, db2, m2)
  BY <1>2, <1>3 DEF ProjectSet
<1> HIDE DEF p, db2, m2
<1>5. Agree(db2, m2) /\ m2.sessions = m.sessions /\ db2.session = db.session
  BY <1>1, <1>4, ProjectPut
<1> QED BY <1>5 DEF db2, m2

\* ClearProjectEnv in both, which makes no project.
LEMMA ClearAgrees ==
  ASSUME NEW db, NEW m, Agree(db, m), NEW name
  PROVE  /\ Agree(PG!ClearProjectEnv(db, name), Mem!ClearProjectEnv(m, name))
         /\ Mem!ClearProjectEnv(m, name).sessions = m.sessions
         /\ PG!ClearProjectEnv(db, name).session = db.session
<1> DEFINE db2 == PG!ClearProjectEnv(db, name)
           m2 == Mem!ClearProjectEnv(m, name)
           p == [m.projects[name] EXCEPT !.env = <<>>]
<1>1. db2 = [db EXCEPT !.project =
               {IF x.name = name THEN [x EXCEPT !.env = <<>>] ELSE x : x \in @}]
  BY DEF PG!ClearProjectEnv, PG!UpdateWhere
<1>2. CASE name \in DOMAIN m.projects
  <2>1. ProjectOK(p, name)
    BY <1>2, ProjectRows DEF ProjectOK
  <2>2. {IF x.name = name THEN [x EXCEPT !.env = <<>>] ELSE x : x \in db.project}
          = {IF x.name = name THEN p ELSE x : x \in db.project}
    BY ProjectRows
  <2>3. \E x \in db.project : x.name = name
    BY <1>2, ProjectRows
  <2>4. m2 = [m EXCEPT !.projects = Mem!Put(@, name, p)]
    <3>1. [m.projects EXCEPT ![name].env = <<>>] = Mem!Put(m.projects, name, p)
      BY <1>2 DEF Mem!Put
    <3>2. m2 = [m EXCEPT !.projects = [@ EXCEPT ![name].env = <<>>]]
      BY <1>2 DEF Mem!ClearProjectEnv
    <3> QED BY <3>1, <3>2
  <2>5. ProjectSet(db, m, name, p, db2, m2)
    <3> HIDE DEF db2, m2, p
    <3> QED BY <1>1, <2>2, <2>3, <2>4 DEF ProjectSet
  <2> HIDE DEF p, db2, m2
  <2>6. Agree(db2, m2) /\ m2.sessions = m.sessions /\ db2.session = db.session
    BY <2>1, <2>5, ProjectPut
  <2> QED BY <2>6 DEF db2, m2
<1>3. CASE name \notin DOMAIN m.projects
  <2>1. {IF x.name = name THEN [x EXCEPT !.env = <<>>] ELSE x : x \in db.project} = db.project
    BY <1>3, ProjectRows
  <2>2. m2 = m
    BY <1>3 DEF Mem!ClearProjectEnv
  <2> HIDE DEF db2, m2
  <2>3. /\ DOMAIN db2 = DOMAIN db /\ db2.session = db.session /\ db2.project = db.project
        /\ db2.log = db.log /\ db2.nextLog = db.nextLog
    BY <1>1, <2>1 DEF Agree
  <2>4. Agree(db2, m2)
    BY <2>2, <2>3 DEF Agree
  <2> QED BY <2>2, <2>3, <2>4 DEF db2, m2
<1> QED BY <1>2, <1>3

-----------------------------------------------------------------------------
(* The invariant *)

StateOK(st) ==
  /\ DOMAIN st = {"tracked", "info", "lastModel", "start"} /\ st.tracked = TRUE
  /\ InfoOK(st.info)

Row(c) == mem.sessions[c]
Known(c) == c \in DOMAIN mem.sessions

\* What goroutine g may still have to do, in this order.
Queued(s, g) ==
  \/ s = <<>>
  \/ /\ s = <<s[1]>>
     /\ \/ g = "open" /\ s[1].op = "track"
        \/ g = "loop" /\ s[1].op = "update"
        \/ g = "send" /\ s[1].op \in {"prompt", "update"}
        \/ g = "close" /\ s[1].op = "finish"
  \/ /\ s = <<s[1], s[2]>>
     /\ \/ g = "open" /\ s[1].op = "reopen" /\ s[2].op = "track"
        \/ g = "loop" /\ s[1].op = "duration" /\ s[2].op = "update"

\* A write of telemetry carries it.
Formed(w) == w.op \in {"track", "update", "finish"} => InfoOK(w.info)

\* What is so of every conversation.
ShapeOf(c) ==
  /\ track[c] = Untracked \/ StateOK(track[c])
  /\ DOMAIN doing[c] = Goroutines
  /\ \A g \in Goroutines :
       Queued(doing[c][g], g) /\ \A i \in DOMAIN doing[c][g] : Formed(doing[c][g][i])
  /\ c \in away => c \notin live /\ Quiet(c) /\ ~track[c].tracked
  /\ c \in agents \cup live => Known(c)
  /\ ~Known(c) => Quiet(c) /\ ~track[c].tracked /\ answered[c] = 0
  /\ ~Idle(c, "open") => c \in live

Shape ==
  /\ DOMAIN track = Convs /\ DOMAIN doing = Convs /\ DOMAIN answered = Convs
  /\ live \subseteq Convs /\ away \subseteq agents /\ agents \subseteq Convs

\* Goroutine g has something to write, not only a prompt to tell of.
Writing(c, g) == ~Idle(c, g) /\ doing[c][g][1].op # "prompt"

\* A write on its way has all answers, and says what the conversation has become.
Fits(c, w) ==
  /\ w.op \in {"track", "update", "finish"} => w.info.usage.count = answered[c]
  /\ w.op = "update" => w.info.status = "running" /\ track[c].tracked
  /\ w.op = "finish" => c \notin live /\ w.info.status \in {"complete", "error"}

\* What is so of a conversation whose writes did not pass each other.
Right(c) ==
  /\ \A g, h \in Goroutines : Writing(c, g) /\ Writing(c, h) => g = h
  /\ track[c].tracked =>
       c \in live /\ Idle(c, "open") /\ track[c].info.usage.count = answered[c]
  /\ \A g \in Goroutines : \A i \in DOMAIN doing[c][g] : Fits(c, doing[c][g][i])
  /\ Known(c) /\ Idle(c, "loop") => Row(c).usage.count = answered[c]
  /\ Known(c) /\ Idle(c, "close") /\ (Idle(c, "open") \/ doing[c]["open"][1].op = "track") =>
       (Open(Row(c)) <=> c \in live)

Good(c) == ShapeOf(c) /\ (c \notin upset => Right(c))

IInv == Agree(pg, mem) /\ Shape /\ \A c \in Convs : Good(c)

\* A step does not touch what is so of d, but for columns of its row nobody counts by.
Stays(d) ==
  /\ track'[d] = track[d] /\ doing'[d] = doing[d] /\ answered'[d] = answered[d]
  /\ d \in live' <=> d \in live
  /\ d \in away' <=> d \in away
  /\ d \in agents' => d \in agents
  /\ d \in upset => d \in upset'
  /\ Known(d)' <=> Known(d)
  /\ Known(d) => Row(d)'.usage = Row(d).usage /\ Row(d)'.status = Row(d).status

\* Sequences of one and of two.
LEMMA Tuples ==
  ASSUME NEW a, NEW b
  PROVE  /\ <<a>> # <<>> /\ Head(<<a>>) = a /\ Tail(<<a>>) = <<>> /\ DOMAIN <<a>> = {1}
         /\ <<a, b>> # <<>> /\ Head(<<a, b>>) = a /\ Tail(<<a, b>>) = <<b>>
         /\ DOMAIN <<a, b>> = {1, 2}
         /\ Append(<<>>, a) = <<a>> /\ Append(<<a>>, b) = <<a, b>> /\ DOMAIN <<>> = {}
<1>1. /\ <<a>> \in Seq({a, b}) /\ Len(<<a>>) = 1
      /\ <<a, b>> \in Seq({a, b}) /\ Len(<<a, b>>) = 2
  OBVIOUS
<1>2. /\ Append(<<a>>, b) \in Seq({a, b}) /\ Len(Append(<<a>>, b)) = 2
      /\ Append(<<a>>, b)[1] = a /\ Append(<<a>>, b)[2] = b
  BY <1>1, AppendProperties
<1>3. \A i \in 1..2 : Append(<<a>>, b)[i] = <<a, b>>[i]
  BY <1>2
<1>4. Append(<<a>>, b) = <<a, b>>
  BY <1>1, <1>2, <1>3, SeqEqual
<1> QED BY <1>4

\* What a goroutine writes next, and what is left after it.
LEMMA NextWrite ==
  ASSUME NEW s, NEW g, Queued(s, g), s # <<>>
  PROVE  /\ Head(s) = s[1] /\ 1 \in DOMAIN s
         /\ s[1].op \in {"prompt", "track", "update", "finish"} =>
              DOMAIN s = {1} /\ Tail(s) = <<>>
         /\ s[1].op \in {"reopen", "duration"} =>
              DOMAIN s = {1, 2} /\ Tail(s) = <<s[2]>>
         /\ s[1].op \in {"track", "reopen"} <=> g = "open"
         /\ s[1].op = "finish" <=> g = "close"
         /\ s[1].op = "duration" => g = "loop" /\ s[2].op = "update"
         /\ s[1].op = "reopen" => s[2].op = "track"
         /\ s[1].op = "prompt" => g = "send"
         /\ s[1].op = "update" => g \in {"loop", "send"}
<1>1. CASE s = <<s[1]>>
  <2>1. Head(s) = s[1] /\ DOMAIN s = {1} /\ Tail(s) = <<>> /\ s # <<s[1], s[2]>>
    BY <1>1, Tuples
  <2> QED BY <2>1 DEF Queued
<1>2. CASE s = <<s[1], s[2]>>
  <2> DEFINE a == s[1]
             b == s[2]
  <2>1. s = <<a, b>>
    BY <1>2
  <2> HIDE DEF a, b
  <2>2. Head(s) = a /\ DOMAIN s = {1, 2} /\ Tail(s) = <<b>> /\ \A x : s # <<x>>
    BY <2>1
  <2>3. Head(s) = s[1] /\ DOMAIN s = {1, 2} /\ Tail(s) = <<s[2]>> /\ s # <<s[1]>>
    BY <2>2 DEF a, b
  <2> QED BY <2>3 DEF Queued
<1> QED BY <1>1, <1>2 DEF Queued

\* A conversation a step does not touch.
LEMMA Untouched ==
  ASSUME NEW d \in Convs, Good(d), Stays(d)
  PROVE  Good(d)'
<1>1. ShapeOf(d)'
  BY DEF Good, Stays, ShapeOf, Quiet, Idle
<1>2. ASSUME d \notin upset'
      PROVE  Right(d)'
  <2>1. Right(d)
    BY <1>2 DEF Good, Stays
  <2>2. \A g \in Goroutines : (Idle(d, g)' <=> Idle(d, g)) /\ (Writing(d, g)' <=> Writing(d, g))
    BY DEF Stays, Idle, Writing
  <2>3. \A w : Fits(d, w) => Fits(d, w)'
    BY DEF Stays, Fits
  <2>4. Known(d) => (Open(Row(d))' <=> Open(Row(d)))
    BY DEF Stays, Open
  <2>5. /\ track'[d] = track[d] /\ doing'[d] = doing[d] /\ answered'[d] = answered[d]
        /\ (d \in live' <=> d \in live) /\ (Known(d)' <=> Known(d))
        /\ Known(d) => Row(d)'.usage = Row(d).usage
    BY DEF Stays
  <2> QED BY <2>1, <2>2, <2>3, <2>4, <2>5 DEF Right, Goroutines
<1> QED BY <1>1, <1>2 DEF Good

\* The rows after one of them was changed.
LEMMA Rows ==
  ASSUME NEW c, NEW r, Known(c), mem'.sessions = [mem.sessions EXCEPT ![c] = r]
  PROVE  /\ \A d : Known(d)' <=> Known(d)
         /\ Row(c)' = r /\ \A d : d # c /\ Known(d) => Row(d)' = Row(d)
BY DEF Known, Row

\* UpdateSession.
LEMMA WriteUpdateKeeps ==
  ASSUME IInv, NEW c \in Convs, NEW g \in Goroutines, WriteUpdate(c, g)
  PROVE  IInv'
<1> DEFINE w == Head(doing[c][g])
<1>1. Agree(pg, mem) /\ Shape /\ Good(c) /\ ShapeOf(c) /\ \A d \in Convs : Good(d)
  BY DEF IInv, Good
<1>2. /\ Doing(c, g, "update") /\ DoNext(c, g, Tail(doing[c][g]))
      /\ pg' = PG!UpdateSession(pg, c, w.info) /\ mem' = Mem!UpdateSession(mem, c, w.info)
      /\ track' = track /\ live' = live /\ agents' = agents /\ away' = away
      /\ answered' = answered /\ upset' = upset
  BY DEF WriteUpdate, Rest
<1>3. doing[c][g] # <<>> /\ Queued(doing[c][g], g) /\ w.op = "update"
  BY <1>1, <1>2 DEF Doing, ShapeOf
<1>4. /\ w = doing[c][g][1] /\ DOMAIN doing[c][g] = {1} /\ g \in {"loop", "send"}
      /\ Tail(doing[c][g]) = <<>>
  BY <1>3, NextWrite
<1>5. InfoOK(w.info) /\ Known(c) /\ c \notin away
  BY <1>1, <1>3, <1>4 DEF ShapeOf, Formed, Quiet, Idle
<1>6. /\ Agree(pg, mem)' /\ \A d : Known(d)' <=> Known(d)
      /\ Row(c)' = WithInfo(Row(c), w.info) /\ \A d : d # c /\ Known(d) => Row(d)' = Row(d)
  <2>1. /\ Agree(pg', mem')
        /\ mem'.sessions = [mem.sessions EXCEPT ![c] = WithInfo(Row(c), w.info)]
    BY <1>1, <1>2, <1>5, UpdateAgrees DEF Known, Row
  <2> QED BY <1>5, <2>1, Rows
<1>7. /\ DOMAIN doing' = Convs /\ DOMAIN doing'[c] = Goroutines
      /\ doing'[c][g] = <<>> /\ \A h \in Goroutines \ {g} : doing'[c][h] = doing[c][h]
      /\ \A d \in Convs \ {c} : doing'[d] = doing[d]
  BY <1>1, <1>2, <1>4 DEF DoNext, Shape, ShapeOf
<1>8. Shape' /\ \A d \in Convs \ {c} : Stays(d)
  BY <1>1, <1>2, <1>6, <1>7 DEF Shape, Stays
<1>9. ShapeOf(c)'
  <2>1. \A h \in Goroutines : /\ Queued(doing'[c][h], h)
                             /\ \A i \in DOMAIN doing'[c][h] : Formed(doing'[c][h][i])
    <3>1. Queued(doing'[c][g], g) /\ DOMAIN doing'[c][g] = {}
      BY <1>7 DEF Queued
    <3> QED BY <1>1, <1>7, <3>1 DEF ShapeOf
  <2>2. ~Idle(c, "open")' => ~Idle(c, "open")
    BY <1>7 DEF Idle, Goroutines
  <2> QED BY <1>1, <1>2, <1>5, <1>6, <1>7, <2>1, <2>2 DEF ShapeOf
<1>10. ASSUME c \notin upset'
       PROVE  Right(c)'
  <2>1. Right(c)
    BY <1>1, <1>2, <1>10 DEF Good
  <2>2. Writing(c, g) /\ Fits(c, w)
    BY <1>3, <1>4, <2>1 DEF Writing, Idle, Right
  <2>3. /\ w.info.usage.count = answered[c] /\ w.info.status = "running"
        /\ c \in live /\ Idle(c, "open")
    BY <1>3, <2>1, <2>2 DEF Fits, Right
  <2>4. Row(c)'.usage = w.info.usage /\ Row(c)'.status = "running" /\ Open(Row(c))'
    BY <1>1, <1>5, <1>6, <2>3 DEF WithInfo, Open, Agree, RowOK, RowFields, Known, Row
  <2>5. \A h \in Goroutines : ~Writing(c, h)'
    BY <1>7, <2>1, <2>2 DEF Right, Writing, Idle
  <2>6. \A h \in Goroutines : \A i \in DOMAIN doing'[c][h] : Fits(c, doing[c][h][i])'
    BY <1>2, <1>7, <2>1 DEF Right, Fits
  <2>7. Idle(c, "open")'
    BY <1>4, <1>7, <2>3 DEF Idle, Goroutines
  <2> QED BY <1>2, <1>6, <2>1, <2>3, <2>4, <2>5, <2>6, <2>7 DEF Right, Idle
<1> QED BY <1>1, <1>6, <1>8, <1>9, <1>10, Untouched DEF IInv, Good

\* AddPromptDuration, with the totals still to be written.
LEMMA WriteDurationKeeps ==
  ASSUME IInv, NEW c \in Convs, NEW g \in Goroutines, WriteDuration(c, g)
  PROVE  IInv'
<1> DEFINE w == Head(doing[c][g])
           next == doing[c][g][2]
<1>1. Agree(pg, mem) /\ Shape /\ Good(c) /\ ShapeOf(c) /\ \A d \in Convs : Good(d)
  BY DEF IInv, Good
<1>2. /\ Doing(c, g, "duration") /\ DoNext(c, g, Tail(doing[c][g]))
      /\ pg' = PG!AddPromptDuration(pg, c, w.d) /\ mem' = Mem!AddPromptDuration(mem, c, w.d)
      /\ track' = track /\ live' = live /\ agents' = agents /\ away' = away
      /\ answered' = answered /\ upset' = upset
  BY DEF WriteDuration, Rest
<1>3. doing[c][g] # <<>> /\ Queued(doing[c][g], g) /\ w.op = "duration"
  BY <1>1, <1>2 DEF Doing, ShapeOf
<1>4. /\ w = doing[c][g][1] /\ DOMAIN doing[c][g] = {1, 2} /\ g = "loop"
      /\ Tail(doing[c][g]) = <<next>> /\ next.op = "update"
  BY <1>3, NextWrite
<1>5. Formed(next) /\ Known(c) /\ c \notin away
  BY <1>1, <1>3, <1>4 DEF ShapeOf, Quiet, Idle
<1>6. /\ Agree(pg, mem)' /\ \A d : Known(d)' <=> Known(d)
      /\ Row(c)' = Lasted(Row(c), w.d) /\ \A d : d # c /\ Known(d) => Row(d)' = Row(d)
  <2>1. /\ Agree(pg', mem')
        /\ mem'.sessions = [mem.sessions EXCEPT ![c] = Lasted(Row(c), w.d)]
    BY <1>1, <1>2, <1>5, DurationAgrees DEF Known, Row
  <2> QED BY <1>5, <2>1, Rows
<1>7. /\ DOMAIN doing' = Convs /\ DOMAIN doing'[c] = Goroutines
      /\ doing'[c][g] = <<next>> /\ \A h \in Goroutines \ {g} : doing'[c][h] = doing[c][h]
      /\ \A d \in Convs \ {c} : doing'[d] = doing[d]
  BY <1>1, <1>2, <1>4 DEF DoNext, Shape, ShapeOf
<1> HIDE DEF next, w
<1>8. Shape' /\ \A d \in Convs \ {c} : Stays(d)
  BY <1>1, <1>2, <1>6, <1>7 DEF Shape, Stays
<1>9. doing'[c][g] # <<>> /\ DOMAIN doing'[c][g] = {1} /\ doing'[c][g][1] = next
  BY <1>7, Tuples
<1>10. ShapeOf(c)'
  <2>1. \A h \in Goroutines : /\ Queued(doing'[c][h], h)
                             /\ \A i \in DOMAIN doing'[c][h] : Formed(doing'[c][h][i])
    <3>1. Queued(doing'[c][g], g) /\ \A i \in DOMAIN doing'[c][g] : Formed(doing'[c][g][i])
      BY <1>4, <1>5, <1>7, <1>9 DEF Queued
    <3> QED BY <1>1, <1>7, <3>1 DEF ShapeOf
  <2>2. ~Idle(c, "open")' => ~Idle(c, "open")
    BY <1>4, <1>7 DEF Idle, Goroutines
  <2> QED BY <1>1, <1>2, <1>5, <1>6, <1>7, <2>1, <2>2 DEF ShapeOf
<1>11. ASSUME c \notin upset'
       PROVE  Right(c)'
  <2>1. Right(c)
    BY <1>1, <1>2, <1>11 DEF Good
  <2>2. Writing(c, g) /\ Fits(c, next)
    <3>1. next = doing[c][g][2]
      BY DEF next
    <3> QED BY <1>3, <1>4, <2>1, <3>1 DEF Writing, Idle, Right
  <2>3. Row(c)'.usage = Row(c).usage /\ Row(c)'.status = Row(c).status
    BY <1>1, <1>5, <1>6 DEF Lasted, Agree, RowOK, RowFields, Known, Row
  <2>4. (\A h \in Goroutines : Writing(c, h)' <=> Writing(c, h)) /\ (Open(Row(c))' <=> Open(Row(c)))
    BY <1>4, <1>7, <1>9, <2>2, <2>3 DEF Writing, Idle, Open
  <2>5. \A h \in Goroutines : \A i \in DOMAIN doing'[c][h] : Fits(c, doing[c][h][i])'
    BY <1>2, <1>7, <1>9, <2>1, <2>2 DEF Right, Fits
  <2>6. /\ ~Idle(c, "loop")' /\ doing'[c]["open"] = doing[c]["open"]
        /\ doing'[c]["close"] = doing[c]["close"]
    BY <1>4, <1>7, <1>9 DEF Idle, Goroutines
  <2> QED BY <1>2, <1>6, <2>1, <2>3, <2>4, <2>5, <2>6 DEF Right, Idle
<1> QED BY <1>1, <1>6, <1>8, <1>10, <1>11, Untouched DEF IInv, Good

\* FinishSession.
LEMMA WriteFinishKeeps ==
  ASSUME IInv, NEW c \in Convs, NEW g \in Goroutines, WriteFinish(c, g)
  PROVE  IInv'
<1> DEFINE w == Head(doing[c][g])
<1>1. Agree(pg, mem) /\ Shape /\ Good(c) /\ ShapeOf(c) /\ \A d \in Convs : Good(d)
  BY DEF IInv, Good
<1>2. /\ Doing(c, g, "finish") /\ DoNext(c, g, Tail(doing[c][g]))
      /\ pg' = PG!FinishSession(pg, c, w.info, w.err, Now)
      /\ mem' = Mem!FinishSession(mem, c, w.info, w.err, Now)
      /\ track' = track /\ live' = live /\ agents' = agents /\ away' = away
      /\ answered' = answered /\ upset' = upset
  BY DEF WriteFinish, Rest
<1>3. doing[c][g] # <<>> /\ Queued(doing[c][g], g) /\ w.op = "finish"
  BY <1>1, <1>2 DEF Doing, ShapeOf
<1>4. /\ w = doing[c][g][1] /\ DOMAIN doing[c][g] = {1} /\ g = "close"
      /\ Tail(doing[c][g]) = <<>>
  BY <1>3, NextWrite
<1>5. InfoOK(w.info) /\ Known(c) /\ c \notin away
  BY <1>1, <1>3, <1>4 DEF ShapeOf, Formed, Quiet, Idle
<1>6. /\ Agree(pg, mem)' /\ \A d : Known(d)' <=> Known(d)
      /\ Row(c)' = Finished(Row(c), w.info, w.err, Now)
      /\ \A d : d # c /\ Known(d) => Row(d)' = Row(d)
  <2>1. /\ Agree(pg', mem')
        /\ mem'.sessions = [mem.sessions EXCEPT ![c] = Finished(Row(c), w.info, w.err, Now)]
    BY <1>1, <1>2, <1>5, FinishAgrees DEF Known, Row
  <2> QED BY <1>5, <2>1, Rows
<1>7. /\ DOMAIN doing' = Convs /\ DOMAIN doing'[c] = Goroutines
      /\ doing'[c][g] = <<>> /\ \A h \in Goroutines \ {g} : doing'[c][h] = doing[c][h]
      /\ \A d \in Convs \ {c} : doing'[d] = doing[d]
  BY <1>1, <1>2, <1>4 DEF DoNext, Shape, ShapeOf
<1>8. Shape' /\ \A d \in Convs \ {c} : Stays(d)
  BY <1>1, <1>2, <1>6, <1>7 DEF Shape, Stays
<1>9. ShapeOf(c)'
  <2>1. \A h \in Goroutines : /\ Queued(doing'[c][h], h)
                             /\ \A i \in DOMAIN doing'[c][h] : Formed(doing'[c][h][i])
    <3>1. Queued(doing'[c][g], g) /\ DOMAIN doing'[c][g] = {}
      BY <1>7 DEF Queued
    <3> QED BY <1>1, <1>7, <3>1 DEF ShapeOf
  <2>2. ~Idle(c, "open")' => ~Idle(c, "open")
    BY <1>7 DEF Idle, Goroutines
  <2> QED BY <1>1, <1>2, <1>5, <1>6, <1>7, <2>1, <2>2 DEF ShapeOf
<1>10. ASSUME c \notin upset'
       PROVE  Right(c)'
  <2>1. Right(c)
    BY <1>1, <1>2, <1>10 DEF Good
  <2>2. Writing(c, g) /\ Fits(c, w)
    BY <1>3, <1>4, <2>1 DEF Writing, Idle, Right
  <2>3. /\ w.info.usage.count = answered[c] /\ w.info.status \in {"complete", "error"}
        /\ c \notin live /\ ~track[c].tracked
    BY <1>3, <2>1, <2>2 DEF Fits, Right
  <2>4. Row(c)'.usage = w.info.usage /\ ~Open(Row(c))'
    <3>1. Row(c)'.usage = w.info.usage /\ Row(c)'.status = w.info.status
      BY <1>1, <1>5, <1>6 DEF Finished, WithInfo, Agree, RowOK, RowFields, Known, Row
    <3> QED BY <2>3, <3>1 DEF Open
  <2>5. \A h \in Goroutines : ~Writing(c, h)'
    BY <1>7, <2>1, <2>2 DEF Right, Writing, Idle
  <2>6. \A h \in Goroutines : \A i \in DOMAIN doing'[c][h] : Fits(c, doing[c][h][i])'
    <3>1. DOMAIN doing'[c][g] = {}
      BY <1>7
    <3>2. \A v : Fits(c, v) => Fits(c, v)'
      BY <1>2 DEF Fits
    <3> QED BY <1>7, <2>1, <3>1, <3>2 DEF Right
  <2> QED BY <1>2, <1>6, <2>1, <2>3, <2>4, <2>5, <2>6 DEF Right, Idle
<1> QED BY <1>1, <1>6, <1>8, <1>9, <1>10, Untouched DEF IInv, Good

\* ReopenSession, with the totals still to be tracked.
LEMMA WriteReopenKeeps ==
  ASSUME IInv, NEW c \in Convs, NEW g \in Goroutines, WriteReopen(c, g)
  PROVE  IInv'
<1> DEFINE w == Head(doing[c][g])
           next == doing[c][g][2]
<1>1. Agree(pg, mem) /\ Shape /\ Good(c) /\ ShapeOf(c) /\ \A d \in Convs : Good(d)
  BY DEF IInv, Good
<1>2. /\ Doing(c, g, "reopen") /\ DoNext(c, g, Tail(doing[c][g]))
      /\ pg' = PG!ReopenSession(pg, c) /\ mem' = Mem!ReopenSession(mem, c)
      /\ track' = track /\ live' = live /\ agents' = agents /\ away' = away
      /\ answered' = answered /\ upset' = upset
  BY DEF WriteReopen, Rest
<1>3. doing[c][g] # <<>> /\ Queued(doing[c][g], g) /\ w.op = "reopen"
  BY <1>1, <1>2 DEF Doing, ShapeOf
<1>4. /\ w = doing[c][g][1] /\ DOMAIN doing[c][g] = {1, 2} /\ g = "open"
      /\ Tail(doing[c][g]) = <<next>> /\ next.op = "track"
  BY <1>3, NextWrite
<1>5. Formed(next) /\ Known(c) /\ c \notin away
  BY <1>1, <1>3, <1>4 DEF ShapeOf, Quiet, Idle
<1>6. /\ Agree(pg, mem)' /\ \A d : Known(d)' <=> Known(d)
      /\ Row(c)' = Reopened(Row(c)) /\ \A d : d # c /\ Known(d) => Row(d)' = Row(d)
  <2>1. /\ Agree(pg', mem')
        /\ mem'.sessions = [mem.sessions EXCEPT ![c] = Reopened(Row(c))]
    BY <1>1, <1>2, <1>5, ReopenAgrees DEF Known, Row
  <2> QED BY <1>5, <2>1, Rows
<1>7. /\ DOMAIN doing' = Convs /\ DOMAIN doing'[c] = Goroutines
      /\ doing'[c][g] = <<next>> /\ \A h \in Goroutines \ {g} : doing'[c][h] = doing[c][h]
      /\ \A d \in Convs \ {c} : doing'[d] = doing[d]
  BY <1>1, <1>2, <1>4 DEF DoNext, Shape, ShapeOf
<1> HIDE DEF next, w
<1>8. Shape' /\ \A d \in Convs \ {c} : Stays(d)
  BY <1>1, <1>2, <1>6, <1>7 DEF Shape, Stays
<1>9. doing'[c][g] # <<>> /\ DOMAIN doing'[c][g] = {1} /\ doing'[c][g][1] = next
  BY <1>7, Tuples
<1>10. ShapeOf(c)'
  <2>1. \A h \in Goroutines : /\ Queued(doing'[c][h], h)
                             /\ \A i \in DOMAIN doing'[c][h] : Formed(doing'[c][h][i])
    <3>1. Queued(doing'[c][g], g) /\ \A i \in DOMAIN doing'[c][g] : Formed(doing'[c][g][i])
      BY <1>4, <1>5, <1>7, <1>9 DEF Queued
    <3> QED BY <1>1, <1>7, <3>1 DEF ShapeOf
  <2>2. ~Idle(c, "open")' => ~Idle(c, "open")
    BY <1>4, <1>7 DEF Idle, Goroutines
  <2> QED BY <1>1, <1>2, <1>5, <1>6, <1>7, <2>1, <2>2 DEF ShapeOf
<1>11. ASSUME c \notin upset'
       PROVE  Right(c)'
  <2>1. Right(c)
    BY <1>1, <1>2, <1>11 DEF Good
  <2>2. Writing(c, g) /\ Fits(c, next)
    <3>1. next = doing[c][g][2]
      BY DEF next
    <3> QED BY <1>3, <1>4, <2>1, <3>1 DEF Writing, Idle, Right
  <2>3. Row(c)'.usage = Row(c).usage /\ Open(Row(c))' /\ c \in live
    BY <1>1, <1>3, <1>4, <1>5, <1>6
       DEF Reopened, Agree, RowOK, RowFields, Known, Row, Open, ShapeOf, Idle
  <2>4. \A h \in Goroutines : Writing(c, h)' <=> Writing(c, h)
    BY <1>4, <1>7, <1>9, <2>2 DEF Writing, Idle
  <2>5. \A h \in Goroutines : \A i \in DOMAIN doing'[c][h] : Fits(c, doing[c][h][i])'
    BY <1>2, <1>7, <1>9, <2>1, <2>2 DEF Right, Fits
  <2>6. /\ ~Idle(c, "open")' /\ ~Idle(c, "open") /\ doing'[c]["loop"] = doing[c]["loop"]
    BY <1>3, <1>4, <1>7, <1>9 DEF Idle, Goroutines
  <2> QED BY <1>2, <1>6, <2>1, <2>3, <2>4, <2>5, <2>6 DEF Right, Idle
<1> QED BY <1>1, <1>6, <1>8, <1>10, <1>11, Untouched DEF IInv, Good

\* The tracking of an adopted conversation: it is registered.
LEMMA TrackKeeps ==
  ASSUME IInv, NEW c \in Convs, NEW g \in Goroutines, Track(c, g)
  PROVE  IInv'
<1> DEFINE w == Head(doing[c][g])
<1>1. Agree(pg, mem) /\ Shape /\ Good(c) /\ ShapeOf(c) /\ \A d \in Convs : Good(d)
  BY DEF IInv, Good
<1>2. /\ Doing(c, g, "track") /\ DoNext(c, g, Tail(doing[c][g]))
      /\ track' = [track EXCEPT ![c] = NewState(w.info)] /\ pg' = pg /\ mem' = mem
      /\ live' = live /\ agents' = agents /\ away' = away /\ answered' = answered
      /\ upset' = upset
  BY DEF Track, Rest, stores
<1>3. doing[c][g] # <<>> /\ Queued(doing[c][g], g) /\ w.op = "track"
  BY <1>1, <1>2 DEF Doing, ShapeOf
<1>4. /\ w = doing[c][g][1] /\ DOMAIN doing[c][g] = {1} /\ g = "open"
      /\ Tail(doing[c][g]) = <<>>
  BY <1>3, NextWrite
<1>5. InfoOK(w.info) /\ Known(c) /\ c \notin away /\ c \in live
  BY <1>1, <1>3, <1>4 DEF ShapeOf, Formed, Quiet, Idle
<1>6. Agree(pg, mem)' /\ (\A d : Known(d)' <=> Known(d)) /\ \A d : Row(d)' = Row(d)
  BY <1>1, <1>2 DEF Known, Row
<1>7. /\ DOMAIN doing' = Convs /\ DOMAIN doing'[c] = Goroutines
      /\ doing'[c][g] = <<>> /\ \A h \in Goroutines \ {g} : doing'[c][h] = doing[c][h]
      /\ \A d \in Convs \ {c} : doing'[d] = doing[d]
  BY <1>1, <1>2, <1>4 DEF DoNext, Shape, ShapeOf
<1>8. Shape' /\ (\A d \in Convs \ {c} : Stays(d)) /\ track'[c] = NewState(w.info)
  BY <1>1, <1>2, <1>6, <1>7 DEF Shape, Stays
<1>9. StateOK(track'[c]) /\ track'[c].tracked /\ track'[c].info = w.info
  BY <1>5, <1>8 DEF StateOK, NewState
<1>10. ShapeOf(c)'
  <2>1. \A h \in Goroutines : /\ Queued(doing'[c][h], h)
                             /\ \A i \in DOMAIN doing'[c][h] : Formed(doing'[c][h][i])
    <3>1. Queued(doing'[c][g], g) /\ DOMAIN doing'[c][g] = {}
      BY <1>7 DEF Queued
    <3> QED BY <1>1, <1>7, <3>1 DEF ShapeOf
  <2> QED BY <1>1, <1>2, <1>5, <1>6, <1>7, <1>9, <2>1 DEF ShapeOf
<1>11. ASSUME c \notin upset'
       PROVE  Right(c)'
  <2>1. Right(c)
    BY <1>1, <1>2, <1>11 DEF Good
  <2>2. Writing(c, g) /\ Fits(c, w)
    BY <1>3, <1>4, <2>1 DEF Writing, Idle, Right
  <2>3. w.info.usage.count = answered[c]
    BY <1>3, <2>2 DEF Fits
  <2>4. \A h \in Goroutines : ~Writing(c, h)'
    BY <1>7, <2>1, <2>2 DEF Right, Writing, Idle
  <2>5. \A h \in Goroutines : \A i \in DOMAIN doing'[c][h] : Fits(c, doing[c][h][i])'
    BY <1>2, <1>7, <1>9, <2>1 DEF Right, Fits
  <2>6. /\ Idle(c, "open")' /\ doing'[c]["loop"] = doing[c]["loop"]
        /\ doing'[c]["close"] = doing[c]["close"] /\ doing[c]["open"][1].op = "track"
    BY <1>3, <1>4, <1>7 DEF Idle, Goroutines
  <2>7. Open(Row(c))' <=> Open(Row(c))
    BY <1>6 DEF Open
  <2> QED BY <1>2, <1>5, <1>6, <1>9, <2>1, <2>3, <2>4, <2>5, <2>6, <2>7 DEF Right, Idle
<1> QED BY <1>1, <1>6, <1>8, <1>10, <1>11, Untouched DEF IInv, Good

\* What is stored of a session, without its ACP session id.
LEMMA StoredInfo ==
  ASSUME IInv, NEW c \in Convs, Known(c)
  PROVE  InfoOK(stored(c)) /\ stored(c).usage = Row(c).usage
<1> DEFINE r == PG!Columns(Row(c))
<1>1. Agree(pg, mem) /\ RowOK(Row(c), c)
  BY DEF IInv, Agree, Known, Row
<1>2. {s \in pg.session : s.id = c} = {Row(c)}
  BY <1>1, Lookups DEF Known, Row
<1>3. PG!GetSession(pg, c) = {r}
  BY <1>2 DEF PG!GetSession
<1>4. r.usage = Row(c).usage
  BY <1>1 DEF PG!Columns, RowOK, RowFields
<1> HIDE DEF r
<1>5. stored(c) = [NoInfo EXCEPT !.model = r.model, !.usage = r.usage]
  <2>1. {r} # {} /\ (CHOOSE x \in {r} : TRUE) = r
    OBVIOUS
  <2> QED BY <1>3, <2>1 DEF stored
<1> QED BY <1>1, <1>4, <1>5 DEF InfoOK, NoInfo, RowOK

\* The usage of a report counts no turn.
LEMMA ExtractOK ==
  ASSUME NEW meta, NEW u \in extractUsageFromMeta(meta)
  PROVE  UsageOK(u)
<1>1. \A tokens, x, w : UsageOK([NoUsage EXCEPT !.tokens = tokens, !.cost = x, !.window = w])
  BY DEF UsageOK, UsageFields, NoUsage
<1>2. UsageOK(NoUsage)
  BY DEF UsageOK, UsageFields, NoUsage
<1> DEFINE Usage(tokens, x, w) ==
             [NoUsage EXCEPT !.tokens = tokens, !.cost = x, !.window = w]
<1>3. CASE meta = <<>>
  BY <1>2, <1>3 DEF extractUsageFromMeta
<1>4. CASE meta # <<>>
  <2> DEFINE use == meta[1].usage
             OneOf(S) == IF S \subseteq {0} THEN {0} ELSE S \ {0}
             costs == IF meta[1].cost # 0 THEN {meta[1].cost}
                      ELSE OneOf({use[k].cost : k \in DOMAIN use})
             windows == OneOf({use[k].window : k \in DOMAIN use})
             tokens == AllTokens(use)
  <2>1. u \in UNION {{Usage(tokens, x, w) : x \in costs} : w \in windows}
    BY <1>4 DEF extractUsageFromMeta
  <2> HIDE DEF Usage, costs, windows, tokens
  <2>2. PICK x, w : u = Usage(tokens, x, w)
    BY <2>1
  <2> QED BY <1>1, <2>2 DEF Usage
<1> QED BY <1>3, <1>4

\* The context carried over leaves the count alone.
LEMMA CarryOK ==
  ASSUME NEW prev, NEW next, UsageOK(next)
  PROVE  UsageOK(carryContext(prev, next)) /\ carryContext(prev, next).count = next.count
<1> DEFINE used == IF next.used = 0 THEN prev.used ELSE next.used
           window == IF next.window = 0 THEN prev.window ELSE next.window
<1>1. carryContext(prev, next) = [next EXCEPT !.used = used, !.window = window]
  BY DEF carryContext, UsageOK, UsageFields
<1> HIDE DEF used, window
<1> QED BY <1>1 DEF UsageOK, UsageFields

\* An update of the agent counts no turn.
LEMMA ObservedKeeps ==
  ASSUME NEW st, StateOK(st), NEW update, NEW after \in Observed(st, update)
  PROVE  StateOK(after) /\ after.info.usage.count = st.info.usage.count
<1> DEFINE prev == st.info.usage
           model == modelFromMeta(update.meta)
           named == IF model # "" THEN [st EXCEPT !.lastModel = model] ELSE st
<1>1. StateOK(named) /\ named.info = st.info
  BY DEF StateOK
<1> HIDE DEF model, named
<1>2. CASE update.variant = "agent_message_chunk"
  <2>1. PICK u \in extractUsageFromMeta(update.meta) :
          after = IF u.tokens > 0
                  THEN [named EXCEPT !.info.usage =
                          carryContext(prev, [u EXCEPT !.count = prev.count])]
                  ELSE named
    BY <1>2 DEF Observed, named, model
  <2> DEFINE v == [u EXCEPT !.count = prev.count]
             usage == carryContext(prev, v)
  <2>2. UsageOK(v) /\ v.count = prev.count
    BY ExtractOK DEF UsageOK, UsageFields
  <2> HIDE DEF v
  <2>3. UsageOK(usage) /\ usage.count = prev.count
    BY <2>2, CarryOK
  <2>4. after = named \/ after = [named EXCEPT !.info.usage = usage]
    BY <2>1 DEF v
  <2> HIDE DEF usage
  <2> QED BY <1>1, <2>3, <2>4 DEF StateOK, InfoOK
<1>3. CASE update.variant = "usage_update"
  <2>1. after = [st EXCEPT !.info.usage.window = update.size, !.info.usage.used = update.used,
                           !.info.usage.cost = IF update.cost = 0 THEN @ ELSE update.cost]
    BY <1>3 DEF Observed
  <2> QED BY <2>1 DEF StateOK, InfoOK, UsageOK, UsageFields
<1>4. CASE update.variant \notin {"agent_message_chunk", "usage_update"}
  BY <1>4 DEF Observed
<1> QED BY <1>2, <1>3, <1>4

\* Nor does what the end of a turn makes of the usage, the turn already counted.
LEMMA AnsweredKeeps ==
  ASSUME NEW st, StateOK(st), NEW resp, NEW usage \in Answered(st, resp)
  PROVE  UsageOK(usage) /\ usage.count = st.info.usage.count
<1> DEFINE prev == st.info.usage
<1>1. UsageOK(prev)
  BY DEF StateOK, InfoOK
<1>2. PICK u \in extractUsageFromMeta(resp.meta) :
        usage = IF u.tokens > 0 THEN carryContext(prev, [u EXCEPT !.count = prev.count])
                ELSE IF resp.tokens > 0 THEN [prev EXCEPT !.tokens = resp.tokens]
                ELSE prev
  BY DEF Answered
<1> DEFINE v == [u EXCEPT !.count = prev.count]
<1>3. UsageOK(v) /\ v.count = prev.count
  BY ExtractOK DEF UsageOK, UsageFields
<1>4. usage \in {carryContext(prev, v), [prev EXCEPT !.tokens = resp.tokens], prev}
  BY <1>2
<1> HIDE DEF v, prev
<1>5. UsageOK(carryContext(prev, v)) /\ carryContext(prev, v).count = prev.count
  BY <1>3, CarryOK
<1>6. /\ UsageOK([prev EXCEPT !.tokens = resp.tokens])
      /\ [prev EXCEPT !.tokens = resp.tokens].count = prev.count
  BY <1>1 DEF UsageOK, UsageFields
<1> QED BY <1>1, <1>4, <1>5, <1>6 DEF prev

\* NewSessionResponse: a column nobody counts by.
LEMMA SessionReadyKeeps ==
  ASSUME IInv, NEW c \in Convs, NEW acp, SessionReady(c, acp)
  PROVE  IInv'
<1>1. Agree(pg, mem) /\ Shape /\ Good(c) /\ ShapeOf(c) /\ \A d \in Convs : Good(d)
  BY DEF IInv, Good
<1>2. /\ c \in agents /\ pg' = PG!SetACPSessionID(pg, c, acp)
      /\ mem' = Mem!SetACPSessionID(mem, c, acp)
      /\ track' = track /\ doing' = doing /\ live' = live /\ agents' = agents /\ away' = away
      /\ answered' = answered /\ upset' = upset
  BY DEF SessionReady
<1>3. Known(c)
  BY <1>1, <1>2 DEF ShapeOf
<1> DEFINE r == [Row(c) EXCEPT !.acp = acp]
<1>4. Agree(pg', mem') /\ mem'.sessions = [mem.sessions EXCEPT ![c] = r]
  BY <1>1, <1>2, <1>3, SetACPAgrees DEF Known, Row
<1>5. r.usage = Row(c).usage /\ r.status = Row(c).status
  BY <1>1, <1>3 DEF Agree, RowOK, RowFields, Known, Row
<1> HIDE DEF r
<1>6. /\ \A d : Known(d)' <=> Known(d)
      /\ Row(c)' = r /\ \A d : d # c /\ Known(d) => Row(d)' = Row(d)
  BY <1>3, <1>4, Rows
<1>7. Shape' /\ \A d \in Convs : Stays(d)
  BY <1>1, <1>2, <1>5, <1>6 DEF Shape, Stays
<1> QED BY <1>1, <1>4, <1>7, Untouched DEF IInv

\* A tracked conversation has a state.
LEMMA Tracked ==
  ASSUME NEW c, ShapeOf(c)
  PROVE  track[c].tracked <=> StateOK(track[c])
BY DEF ShapeOf, StateOK, Untracked

\* SessionNotification: the log grows, and no turn is counted.
LEMMA UpdateKeeps ==
  ASSUME IInv, NEW c \in Convs, NEW update, Update(c, update)
  PROVE  IInv'
<1>1. Agree(pg, mem) /\ Shape /\ Good(c) /\ ShapeOf(c) /\ \A d \in Convs : Good(d)
  BY DEF IInv, Good
<1> DEFINE e == MarshalEvent(update)
<1>2. /\ c \in agents \ away /\ pg' = PG!InsertLog(pg, c, e.type, e.payload, Now)
      /\ mem' = Mem!InsertLog(mem, c, e.type, e.payload, Now)
      /\ doing' = doing /\ live' = live /\ agents' = agents /\ away' = away
      /\ answered' = answered /\ upset' = upset
      /\ IF track[c].tracked
         THEN \E st \in Observed(track[c], update) : track' = [track EXCEPT ![c] = st]
         ELSE track' = track
  BY DEF Update
<1>3. Known(c) /\ c \in DOMAIN track
  BY <1>1, <1>2 DEF ShapeOf, Shape
<1>4. Agree(pg', mem') /\ mem'.sessions = mem.sessions
  BY <1>1, <1>2, <1>3, LogAgrees DEF Known
<1>5. (\A d : Known(d)' <=> Known(d)) /\ \A d : Row(d)' = Row(d)
  BY <1>4 DEF Known, Row
<1>6. /\ DOMAIN track' = DOMAIN track /\ \A d \in Convs \ {c} : track'[d] = track[d]
      /\ track[c].tracked =>
           StateOK(track'[c]) /\ track'[c].info.usage.count = track[c].info.usage.count
      /\ ~track[c].tracked => track'[c] = track[c]
  <2>1. CASE track[c].tracked
    <3>1. PICK st \in Observed(track[c], update) : track' = [track EXCEPT ![c] = st]
      BY <1>2, <2>1
    <3>2. StateOK(st) /\ st.info.usage.count = track[c].info.usage.count
      BY <1>1, <2>1, <3>1, Tracked, ObservedKeeps
    <3> QED BY <1>3, <2>1, <3>1, <3>2
  <2>2. CASE ~track[c].tracked
    BY <1>2, <2>2
  <2> QED BY <2>1, <2>2
<1>7. Shape' /\ \A d \in Convs \ {c} : Stays(d)
  BY <1>1, <1>2, <1>5, <1>6 DEF Shape, Stays
<1>8. (track'[c].tracked <=> track[c].tracked) /\ (track'[c] = Untracked \/ StateOK(track'[c]))
  BY <1>1, <1>6 DEF ShapeOf, StateOK
<1>9. ShapeOf(c)'
  BY <1>1, <1>2, <1>5, <1>8 DEF ShapeOf, Quiet, Idle
<1>10. ASSUME c \notin upset'
       PROVE  Right(c)'
  <2>1. Right(c)
    BY <1>1, <1>2, <1>10 DEF Good
  <2>2. \A v : Fits(c, v) => Fits(c, v)'
    BY <1>2, <1>8 DEF Fits
  <2>3. \A h \in Goroutines : (Idle(c, h)' <=> Idle(c, h)) /\ (Writing(c, h)' <=> Writing(c, h))
    BY <1>2 DEF Idle, Writing
  <2>4. Open(Row(c))' <=> Open(Row(c))
    BY <1>5 DEF Open
  <2> QED BY <1>2, <1>5, <1>6, <1>8, <2>1, <2>2, <2>3, <2>4 DEF Right, Goroutines
<1> QED BY <1>1, <1>4, <1>7, <1>9, <1>10, Untouched DEF IInv, Good

\* A sender who has yet to tell of a prompt.
LEMMA SendLooksKeeps ==
  ASSUME IInv, NEW c \in Convs, SendLooks(c)
  PROVE  IInv'
<1> DEFINE w == [op |-> "prompt"]
<1>1. Agree(pg, mem) /\ Shape /\ Good(c) /\ ShapeOf(c) /\ \A d \in Convs : Good(d)
  BY DEF IInv, Good
<1>2. /\ c \in live /\ Idle(c, "send") /\ DoNext(c, "send", <<w>>) /\ pg' = pg /\ mem' = mem
      /\ track' = track /\ live' = live /\ agents' = agents /\ away' = away
      /\ answered' = answered /\ upset' = upset
  BY DEF SendLooks, stores
<1>3. Known(c) /\ c \notin away
  BY <1>1, <1>2 DEF ShapeOf
<1>4. Agree(pg', mem') /\ (\A d : Known(d)' <=> Known(d)) /\ \A d : Row(d)' = Row(d)
  BY <1>1, <1>2 DEF Known, Row
<1>5. w.op = "prompt"
  OBVIOUS
<1> HIDE DEF w
<1>6. /\ DOMAIN doing' = Convs /\ DOMAIN doing'[c] = Goroutines /\ doing'[c]["send"] = <<w>>
      /\ \A h \in Goroutines \ {"send"} : doing'[c][h] = doing[c][h]
      /\ \A d \in Convs \ {c} : doing'[d] = doing[d]
  BY <1>1, <1>2 DEF DoNext, Shape, ShapeOf, Goroutines
<1>7. /\ doing'[c]["send"][1] = w /\ doing'[c]["send"] # <<>>
      /\ DOMAIN doing'[c]["send"] = {1}
  BY <1>6, Tuples
<1>8. Shape' /\ \A d \in Convs \ {c} : Stays(d)
  BY <1>1, <1>2, <1>4, <1>6 DEF Shape, Stays
<1>9. ShapeOf(c)'
  <2>1. \A h \in Goroutines : /\ Queued(doing'[c][h], h)
                             /\ \A i \in DOMAIN doing'[c][h] : Formed(doing'[c][h][i])
    <3>1. Queued(doing'[c]["send"], "send")
      BY <1>5, <1>6, <1>7 DEF Queued
    <3>2. Formed(w)
      BY <1>5 DEF Formed
    <3> QED BY <1>1, <1>6, <1>7, <3>1, <3>2 DEF ShapeOf
  <2> QED BY <1>1, <1>2, <1>3, <1>4, <1>6, <2>1 DEF ShapeOf
<1>10. ASSUME c \notin upset'
       PROVE  Right(c)'
  <2>1. Right(c)
    BY <1>1, <1>2, <1>10 DEF Good
  <2>2. (\A v : Fits(c, v) => Fits(c, v)') /\ Fits(c, w)'
    BY <1>2, <1>5 DEF Fits
  <2>3. \A h \in Goroutines : Writing(c, h)' => Writing(c, h)
    BY <1>5, <1>6, <1>7 DEF Idle, Writing
  <2>4. /\ doing'[c]["open"] = doing[c]["open"] /\ doing'[c]["loop"] = doing[c]["loop"]
        /\ doing'[c]["close"] = doing[c]["close"] /\ (Open(Row(c))' <=> Open(Row(c)))
    BY <1>4, <1>6 DEF Open, Goroutines
  <2>5. \A h \in Goroutines : \A i \in DOMAIN doing'[c][h] : Fits(c, doing[c][h][i])'
    BY <1>6, <1>7, <2>1, <2>2 DEF Right
  <2> QED BY <1>2, <1>4, <2>1, <2>3, <2>4, <2>5 DEF Right, Idle
<1> QED BY <1>1, <1>4, <1>8, <1>9, <1>10, Untouched DEF IInv, Good

\* The state kept for a conversation, or a new one.
LEMMA StateOrNew ==
  ASSUME NEW c, ShapeOf(c), NEW st,
         st = IF track[c].tracked THEN track[c] ELSE NewState(NoInfo)
  PROVE  StateOK(st)
<1>1. StateOK(NewState(NoInfo))
  BY DEF StateOK, NewState, NoInfo, InfoOK, UsageOK, UsageFields, NoUsage
<1> QED BY <1>1, Tracked

\* Nothing of c is on its way but what goroutine g does.
LEMMA NotPassed ==
  ASSUME NEW c, NEW g \in Goroutines, ~Passes(c, g)
  PROVE  \A h \in Goroutines \ {g} : doing[c][h] = <<>>
BY DEF Passes, Idle

\* PromptRequest.
LEMMA PromptKeeps ==
  ASSUME IInv, NEW c \in Convs, Prompt(c)
  PROVE  IInv'
<1> DEFINE st == IF track[c].tracked THEN track[c] ELSE NewState(NoInfo)
           begun == [st EXCEPT !.info.status = "running", !.info.model = st.lastModel,
                               !.start = Now]
           w == [op |-> "update", info |-> begun.info]
           payload == [text |-> "prompt"]
<1>1. Agree(pg, mem) /\ Shape /\ Good(c) /\ ShapeOf(c) /\ \A d \in Convs : Good(d)
  BY DEF IInv, Good
<1>2. /\ doing[c]["send"] = <<[op |-> "prompt"]>>
      /\ pg' = PG!InsertLog(pg, c, "prompt", payload, Now)
      /\ mem' = Mem!InsertLog(mem, c, "prompt", payload, Now)
      /\ track' = [track EXCEPT ![c] = begun] /\ DoNext(c, "send", <<w>>)
      /\ MarkUpset(c, Passes(c, "send") \/ ~track[c].tracked)
      /\ live' = live /\ agents' = agents /\ away' = away /\ answered' = answered
  BY DEF Prompt
<1>3. StateOK(st)
  BY <1>1, StateOrNew
<1>4. /\ StateOK(begun) /\ begun.info.usage = st.info.usage /\ begun.info.status = "running"
      /\ begun.tracked
  <2> HIDE DEF st
  <2> QED BY <1>3 DEF StateOK, InfoOK
<1>5. w.op = "update" /\ w.info = begun.info /\ InfoOK(w.info)
  BY <1>4 DEF StateOK
<1>6. track[c].tracked => begun.info.usage = track[c].info.usage
  BY <1>4
<1> HIDE DEF w, begun, st, payload
<1>7. Known(c) /\ c \notin away
  <2>1. ~Idle(c, "send")
    BY <1>2, Tuples DEF Idle
  <2> QED BY <1>1, <2>1 DEF ShapeOf, Quiet, Goroutines
<1>8. Agree(pg', mem') /\ mem'.sessions = mem.sessions
  BY <1>1, <1>2, <1>7, LogAgrees DEF Known
<1>9. (\A d : Known(d)' <=> Known(d)) /\ \A d : Row(d)' = Row(d)
  BY <1>8 DEF Known, Row
<1>10. /\ DOMAIN doing' = Convs /\ DOMAIN doing'[c] = Goroutines /\ doing'[c]["send"] = <<w>>
       /\ \A h \in Goroutines \ {"send"} : doing'[c][h] = doing[c][h]
       /\ \A d \in Convs \ {c} : doing'[d] = doing[d]
  BY <1>1, <1>2 DEF DoNext, Shape, ShapeOf, Goroutines
<1>11. /\ doing'[c]["send"][1] = w /\ doing'[c]["send"] # <<>>
       /\ DOMAIN doing'[c]["send"] = {1}
  BY <1>10, Tuples
<1>12. /\ DOMAIN track' = DOMAIN track /\ \A d \in Convs \ {c} : track'[d] = track[d]
       /\ track'[c] = begun /\ upset \subseteq upset'
  BY <1>1, <1>2 DEF Shape, MarkUpset
<1>13. Shape' /\ \A d \in Convs \ {c} : Stays(d)
  BY <1>1, <1>2, <1>9, <1>10, <1>12 DEF Shape, Stays
<1>14. ShapeOf(c)'
  <2>1. \A h \in Goroutines : /\ Queued(doing'[c][h], h)
                             /\ \A i \in DOMAIN doing'[c][h] : Formed(doing'[c][h][i])
    <3>1. Queued(doing'[c]["send"], "send")
      BY <1>5, <1>10, <1>11 DEF Queued
    <3>2. Formed(w)
      BY <1>5 DEF Formed
    <3> QED BY <1>1, <1>10, <1>11, <3>1, <3>2 DEF ShapeOf
  <2>2. Idle(c, "open")' <=> Idle(c, "open")
    BY <1>10 DEF Idle, Goroutines
  <2> QED BY <1>1, <1>2, <1>4, <1>7, <1>9, <1>10, <1>12, <2>1, <2>2 DEF ShapeOf
<1>15. ASSUME c \notin upset'
       PROVE  Right(c)'
  <2>1. c \notin upset /\ ~Passes(c, "send") /\ track[c].tracked
    BY <1>2, <1>15 DEF MarkUpset
  <2>2. Right(c) /\ \A h \in Goroutines \ {"send"} : doing[c][h] = <<>>
    BY <1>1, <2>1, NotPassed DEF Good, Goroutines
  <2>3. c \in live /\ begun.info.usage.count = answered[c]
    BY <1>6, <2>1, <2>2 DEF Right
  <2>4. \A h \in Goroutines \ {"send"} : Idle(c, h)' /\ ~Writing(c, h)' /\ Idle(c, h)
    BY <1>10, <2>2 DEF Idle, Writing
  <2>5. \A v : v = w => Fits(c, v)'
    BY <1>2, <1>4, <1>5, <1>12, <2>3 DEF Fits
  <2>6. \A h \in Goroutines : \A i \in DOMAIN doing'[c][h] : Fits(c, doing[c][h][i])'
    <3>1. \A h \in Goroutines \ {"send"} : DOMAIN doing'[c][h] = {}
      BY <1>10, <2>2
    <3> QED BY <1>10, <1>11, <2>5, <3>1
  <2>7. /\ Idle(c, "open")' /\ Idle(c, "open") /\ Idle(c, "loop") /\ Idle(c, "close")
        /\ (Open(Row(c))' <=> Open(Row(c)))
    BY <1>9, <2>4 DEF Open, Goroutines
  <2> QED BY <1>2, <1>9, <1>12, <2>2, <2>3, <2>4, <2>6, <2>7 DEF Right
<1> QED BY <1>1, <1>8, <1>13, <1>14, <1>15, Untouched DEF IInv, Good

\* What Response leaves on the receive loop of c.
LEMMA ResponseOps ==
  ASSUME NEW w, NEW ops, NEW took, w.op = "update",
         ops = Append(IF took > 0 THEN <<[op |-> "duration", d |-> took]>> ELSE <<>>, w)
  PROVE  /\ Queued(ops, "loop") /\ ops # <<>>
         /\ \A i \in DOMAIN ops : ops[i] = w \/ ops[i].op = "duration"
<1> DEFINE d == [op |-> "duration", d |-> took]
<1>1. CASE took > 0
  <2>1. ops = <<d, w>>
    BY <1>1, Tuples
  <2>2. d.op = "duration"
    OBVIOUS
  <2> HIDE DEF d
  <2>3. ops[1] = d /\ ops[2] = w /\ DOMAIN ops = {1, 2} /\ ops # <<>>
    BY <2>1
  <2> QED BY <2>1, <2>2, <2>3 DEF Queued
<1>2. CASE ~(took > 0)
  <2>1. ops = <<w>>
    BY <1>2, Tuples
  <2>2. ops[1] = w /\ DOMAIN ops = {1} /\ ops # <<>>
    BY <2>1, Tuples
  <2> QED BY <2>1, <2>2 DEF Queued
<1> QED BY <1>1, <1>2

\* PromptResponse: one more answer, counted in what is kept and in what is to be written.
LEMMA ResponseKeeps ==
  ASSUME IInv, NEW c \in Convs, NEW resp, Response(c, resp)
  PROVE  IInv'
<1> DEFINE old == IF track[c].tracked THEN track[c] ELSE NewState(NoInfo)
           st == [old EXCEPT !.info.usage.count = @ + 1,
                             !.lastModel = IF @ = "" THEN modelFromMeta(resp.meta) ELSE @]
           took == IF st.start = 0 THEN 0 ELSE Now - st.start
           added == IF took > 0 THEN <<[op |-> "duration", d |-> took]>> ELSE <<>>
           Ended(usage) == [st EXCEPT !.info.usage = usage, !.info.status = "running",
                                      !.info.model = st.lastModel, !.start = 0]
           payload == [none |-> ""]
<1>1. Agree(pg, mem) /\ Shape /\ Good(c) /\ ShapeOf(c) /\ \A d \in Convs : Good(d)
  BY DEF IInv, Good
<1>2. /\ c \in agents \ away /\ Idle(c, "loop")
      /\ pg' = PG!InsertLog(pg, c, "prompt_finished", payload, Now)
      /\ mem' = Mem!InsertLog(mem, c, "prompt_finished", payload, Now)
      /\ answered' = [answered EXCEPT ![c] = @ + 1]
      /\ MarkUpset(c, Passes(c, "loop") \/ ~track[c].tracked)
      /\ live' = live /\ agents' = agents /\ away' = away
  BY DEF Response
<1>3. PICK usage \in Answered(st, resp) :
        /\ track' = [track EXCEPT ![c] = Ended(usage)]
        /\ DoNext(c, "loop", Append(added, [op |-> "update", info |-> Ended(usage).info]))
  BY DEF Response
<1> DEFINE ended == Ended(usage)
           w == [op |-> "update", info |-> ended.info]
           ops == Append(added, w)
<1>4. StateOK(old)
  BY <1>1, StateOrNew
<1>5. StateOK(st) /\ st.info.usage.count = old.info.usage.count + 1
  <2> HIDE DEF old
  <2> QED BY <1>4 DEF StateOK, InfoOK, UsageOK, UsageFields
<1>6. UsageOK(usage) /\ usage.count = st.info.usage.count
  <2> HIDE DEF st
  <2> QED BY <1>3, <1>5, AnsweredKeeps
<1>7. /\ StateOK(ended) /\ ended.info.usage = usage /\ ended.info.status = "running"
      /\ ended.tracked
  <2> HIDE DEF st
  <2> QED BY <1>5, <1>6 DEF StateOK, InfoOK
<1>8. w.op = "update" /\ w.info = ended.info /\ InfoOK(w.info)
  BY <1>7 DEF StateOK
<1>9. track[c].tracked => ended.info.usage.count = track[c].info.usage.count + 1
  BY <1>5, <1>6, <1>7
<1>10. track' = [track EXCEPT ![c] = ended] /\ DoNext(c, "loop", ops)
  BY <1>3
<1>11. /\ Queued(ops, "loop") /\ ops # <<>>
       /\ \A i \in DOMAIN ops : ops[i] = w \/ ops[i].op = "duration"
  <2> HIDE DEF w, took
  <2> QED BY <1>8, ResponseOps
<1> HIDE DEF w, ended, ops, st, old, payload
<1>12. Known(c)
  BY <1>1, <1>2 DEF ShapeOf
<1>13. Agree(pg', mem') /\ mem'.sessions = mem.sessions
  BY <1>1, <1>2, <1>12, LogAgrees DEF Known
<1>14. (\A d : Known(d)' <=> Known(d)) /\ \A d : Row(d)' = Row(d)
  BY <1>13 DEF Known, Row
<1>15. /\ DOMAIN doing' = Convs /\ DOMAIN doing'[c] = Goroutines /\ doing'[c]["loop"] = ops
       /\ \A h \in Goroutines \ {"loop"} : doing'[c][h] = doing[c][h]
       /\ \A d \in Convs \ {c} : doing'[d] = doing[d]
  BY <1>1, <1>10 DEF DoNext, Shape, ShapeOf, Goroutines
<1>16. /\ DOMAIN track' = DOMAIN track /\ \A d \in Convs \ {c} : track'[d] = track[d]
       /\ track'[c] = ended /\ upset \subseteq upset'
       /\ DOMAIN answered' = DOMAIN answered /\ answered'[c] = answered[c] + 1
       /\ \A d \in Convs \ {c} : answered'[d] = answered[d]
  BY <1>1, <1>2, <1>10 DEF Shape, MarkUpset
<1>17. Shape' /\ \A d \in Convs \ {c} : Stays(d)
  BY <1>1, <1>2, <1>14, <1>15, <1>16 DEF Shape, Stays
<1>18. ShapeOf(c)'
  <2>1. \A h \in Goroutines : /\ Queued(doing'[c][h], h)
                             /\ \A i \in DOMAIN doing'[c][h] : Formed(doing'[c][h][i])
    <3>1. \A i \in DOMAIN ops : Formed(ops[i])
      BY <1>8, <1>11 DEF Formed
    <3> QED BY <1>1, <1>11, <1>15, <3>1 DEF ShapeOf
  <2>2. Idle(c, "open")' <=> Idle(c, "open")
    BY <1>15 DEF Idle, Goroutines
  <2> QED BY <1>1, <1>2, <1>7, <1>12, <1>14, <1>15, <1>16, <2>1, <2>2 DEF ShapeOf
<1>19. ASSUME c \notin upset'
       PROVE  Right(c)'
  <2>1. c \notin upset /\ ~Passes(c, "loop") /\ track[c].tracked
    BY <1>2, <1>19 DEF MarkUpset
  <2>2. Right(c) /\ \A h \in Goroutines \ {"loop"} : doing[c][h] = <<>>
    BY <1>1, <2>1, NotPassed DEF Good, Goroutines
  <2>3. c \in live /\ ended.info.usage.count = answered'[c]
    BY <1>9, <1>16, <2>1, <2>2 DEF Right
  <2>4. \A h \in Goroutines \ {"loop"} : Idle(c, h)' /\ ~Writing(c, h)' /\ Idle(c, h)
    BY <1>15, <2>2 DEF Idle, Writing
  <2>5. \A i \in DOMAIN ops : \A v : v = ops[i] => Fits(c, v)'
    BY <1>2, <1>7, <1>8, <1>11, <1>16, <2>3 DEF Fits
  <2>6. \A h \in Goroutines : \A i \in DOMAIN doing'[c][h] : Fits(c, doing[c][h][i])'
    <3>1. \A h \in Goroutines \ {"loop"} : DOMAIN doing'[c][h] = {}
      BY <1>15, <2>2
    <3> QED BY <1>15, <2>5, <3>1
  <2>7. /\ Idle(c, "open")' /\ Idle(c, "open") /\ ~Idle(c, "loop")' /\ Idle(c, "close")
        /\ (Open(Row(c))' <=> Open(Row(c)))
    BY <1>11, <1>14, <1>15, <2>4 DEF Open, Goroutines, Idle
  <2> QED BY <1>2, <1>14, <1>16, <2>2, <2>3, <2>4, <2>6, <2>7 DEF Right
<1> QED BY <1>1, <1>13, <1>17, <1>18, <1>19, Untouched DEF IInv, Good

\* What a close and the end on a remote host have in common: finish up to its last write.
LEMMA FinishKeeps ==
  ASSUME IInv, NEW c \in Convs, NEW err, Finish(c, err), Known(c), Idle(c, "open"),
         pg' = pg, mem' = mem, answered' = answered,
         live' = live \ {c}, away' = away \ {c}, agents' \in {agents, agents \ {c}},
         c \in away => agents' = agents \ {c}
  PROVE  IInv'
<1> DEFINE info == IF track[c].tracked THEN track[c].info ELSE stored(c)
           status == IF err # "" THEN "error" ELSE "complete"
           w == [op |-> "finish", info |-> [info EXCEPT !.status = status], err |-> err]
<1>1. Agree(pg, mem) /\ Shape /\ Good(c) /\ ShapeOf(c) /\ \A d \in Convs : Good(d)
  BY DEF IInv, Good
<1>2. /\ track' = [track EXCEPT ![c] = Untracked] /\ DoNext(c, "close", <<w>>)
      /\ MarkUpset(c, Passes(c, "close"))
  BY DEF Finish
<1>3. InfoOK(info) /\ (~track[c].tracked => info.usage = Row(c).usage)
  <2>1. track[c].tracked => InfoOK(track[c].info)
    BY <1>1, Tracked DEF StateOK
  <2> QED BY <2>1, StoredInfo
<1>4. /\ w.op = "finish" /\ InfoOK(w.info) /\ w.info.usage = info.usage
      /\ w.info.status \in {"complete", "error"}
  <2> HIDE DEF info
  <2> QED BY <1>3 DEF InfoOK
<1>5. track[c].tracked => info = track[c].info
  OBVIOUS
<1> HIDE DEF w, info
<1>6. (\A d : Known(d)' <=> Known(d)) /\ (\A d : Row(d)' = Row(d)) /\ Agree(pg', mem')
  BY <1>1 DEF Known, Row
<1>7. /\ DOMAIN doing' = Convs /\ DOMAIN doing'[c] = Goroutines /\ doing'[c]["close"] = <<w>>
      /\ \A h \in Goroutines \ {"close"} : doing'[c][h] = doing[c][h]
      /\ \A d \in Convs \ {c} : doing'[d] = doing[d]
  BY <1>1, <1>2 DEF DoNext, Shape, ShapeOf, Goroutines
<1>8. /\ doing'[c]["close"][1] = w /\ doing'[c]["close"] # <<>>
      /\ DOMAIN doing'[c]["close"] = {1}
  BY <1>7, Tuples
<1>9. /\ DOMAIN track' = DOMAIN track /\ \A d \in Convs \ {c} : track'[d] = track[d]
      /\ track'[c] = Untracked /\ ~track'[c].tracked /\ upset \subseteq upset'
  BY <1>1, <1>2 DEF Shape, MarkUpset, Untracked
<1>10. Shape' /\ \A d \in Convs \ {c} : Stays(d)
  BY <1>1, <1>6, <1>7, <1>9 DEF Shape, Stays
<1>11. ShapeOf(c)'
  <2>1. \A h \in Goroutines : /\ Queued(doing'[c][h], h)
                             /\ \A i \in DOMAIN doing'[c][h] : Formed(doing'[c][h][i])
    <3>1. Queued(doing'[c]["close"], "close")
      BY <1>4, <1>7, <1>8 DEF Queued
    <3>2. Formed(w)
      BY <1>4 DEF Formed
    <3> QED BY <1>1, <1>7, <1>8, <3>1, <3>2 DEF ShapeOf
  <2>2. Idle(c, "open")'
    BY <1>7 DEF Idle, Goroutines
  <2> QED BY <1>6, <1>7, <1>9, <2>1, <2>2 DEF ShapeOf
<1>12. ASSUME c \notin upset'
       PROVE  Right(c)'
  <2>1. c \notin upset /\ ~Passes(c, "close")
    BY <1>2, <1>12 DEF MarkUpset
  <2>2. Right(c) /\ \A h \in Goroutines \ {"close"} : doing[c][h] = <<>>
    BY <1>1, <2>1, NotPassed DEF Good, Goroutines
  <2>3. Row(c).usage.count = answered[c]
    BY <2>2 DEF Right, Idle, Goroutines
  <2>4. info.usage.count = answered[c]
    BY <1>3, <1>5, <2>2, <2>3 DEF Right
  <2>5. \A h \in Goroutines \ {"close"} : Idle(c, h)' /\ ~Writing(c, h)'
    BY <1>7, <2>2 DEF Idle, Writing
  <2>6. \A v : v = w => Fits(c, v)'
    BY <1>4, <2>4 DEF Fits
  <2>7. \A h \in Goroutines : \A i \in DOMAIN doing'[c][h] : Fits(c, doing[c][h][i])'
    <3>1. \A h \in Goroutines \ {"close"} : DOMAIN doing'[c][h] = {}
      BY <1>7, <2>2
    <3> QED BY <1>7, <1>8, <2>6, <3>1
  <2>8. ~Idle(c, "close")'
    BY <1>8 DEF Idle
  <2> QED BY <1>6, <1>9, <2>3, <2>5, <2>7, <2>8 DEF Right
<1> QED BY <1>1, <1>6, <1>10, <1>11, <1>12, Untouched DEF IInv, Good

\* ConversationClosed.
LEMMA CloseKeeps ==
  ASSUME IInv, NEW c \in Convs, NEW err, Close(c, err)
  PROVE  IInv'
<1>1. Shape /\ ShapeOf(c)
  BY DEF IInv, Good
<1>2. /\ c \in live /\ Idle(c, "open") /\ live' = live \ {c} /\ Finish(c, err)
      /\ pg' = pg /\ mem' = mem /\ agents' = agents /\ away' = away /\ answered' = answered
  BY DEF Close, stores
<1>3. Known(c) /\ c \notin away /\ away' = away \ {c}
  BY <1>1, <1>2 DEF ShapeOf
<1> QED BY <1>2, <1>3, FinishKeeps

\* Router.Finalize.
LEMMA FinalizeKeeps ==
  ASSUME IInv, NEW c \in Convs, Finalize(c)
  PROVE  IInv'
<1>1. Shape /\ ShapeOf(c)
  BY DEF IInv, Good
<1>2. /\ c \in away /\ Finish(c, "") /\ agents' = agents \ {c} /\ away' = away \ {c}
      /\ pg' = pg /\ mem' = mem /\ live' = live /\ answered' = answered
  BY DEF Finalize, stores
<1>3. Known(c) /\ Idle(c, "open") /\ live' = live \ {c}
  BY <1>1, <1>2 DEF ShapeOf, Shape, Quiet, Goroutines
<1> QED BY <1>2, <1>3, FinishKeeps

\* ConversationAdopted.
LEMMA AdoptKeeps ==
  ASSUME IInv, NEW c \in Convs, Adopt(c)
  PROVE  IInv'
<1> DEFINE v == [op |-> "reopen"]
           w == [op |-> "track", info |-> [stored(c) EXCEPT !.status = "pending"]]
           ops == <<v, w>>
<1>1. Agree(pg, mem) /\ Shape /\ Good(c) /\ ShapeOf(c) /\ \A d \in Convs : Good(d)
  BY DEF IInv, Good
<1>2. /\ c \in away /\ live' = live \cup {c} /\ away' = away \ {c} /\ DoNext(c, "open", ops)
      /\ pg' = pg /\ mem' = mem /\ track' = track /\ agents' = agents
      /\ answered' = answered /\ upset' = upset
  BY DEF Adopt, stores
<1>3. Known(c) /\ Quiet(c) /\ ~track[c].tracked
  BY <1>1, <1>2 DEF ShapeOf, Shape
<1>4. InfoOK(stored(c)) /\ stored(c).usage = Row(c).usage
  BY <1>3, StoredInfo
<1>5. /\ v.op = "reopen" /\ w.op = "track" /\ InfoOK(w.info) /\ w.info.usage = Row(c).usage
  BY <1>4 DEF InfoOK
<1> HIDE DEF v, w
<1>6. ops[1] = v /\ ops[2] = w /\ DOMAIN ops = {1, 2} /\ ops # <<>> /\ ops = <<ops[1], ops[2]>>
  OBVIOUS
<1> HIDE DEF ops
<1>7. (\A d : Known(d)' <=> Known(d)) /\ (\A d : Row(d)' = Row(d)) /\ Agree(pg', mem')
  BY <1>1, <1>2 DEF Known, Row
<1>8. /\ DOMAIN doing' = Convs /\ DOMAIN doing'[c] = Goroutines /\ doing'[c]["open"] = ops
      /\ \A h \in Goroutines \ {"open"} : doing'[c][h] = <<>> /\ doing[c][h] = <<>>
      /\ \A d \in Convs \ {c} : doing'[d] = doing[d]
  BY <1>1, <1>2, <1>3 DEF DoNext, Shape, ShapeOf, Goroutines, Quiet, Idle
<1>9. Shape' /\ \A d \in Convs \ {c} : Stays(d)
  BY <1>1, <1>2, <1>7, <1>8 DEF Shape, Stays
<1>10. ShapeOf(c)'
  <2>1. \A h \in Goroutines : /\ Queued(doing'[c][h], h)
                             /\ \A i \in DOMAIN doing'[c][h] : Formed(doing'[c][h][i])
    <3>1. Queued(ops, "open") /\ \A h \in Goroutines : Queued(<<>>, h)
      BY <1>5, <1>6 DEF Queued
    <3>2. Formed(v) /\ Formed(w)
      BY <1>5 DEF Formed
    <3> QED BY <1>6, <1>8, <3>1, <3>2
  <2> QED BY <1>1, <1>2, <1>3, <1>7, <1>8, <2>1 DEF ShapeOf
<1>11. ASSUME c \notin upset'
       PROVE  Right(c)'
  <2>1. Right(c)
    BY <1>1, <1>2, <1>11 DEF Good
  <2>2. Row(c).usage.count = answered[c]
    BY <1>3, <2>1 DEF Right, Quiet, Goroutines
  <2>3. \A x : x = v \/ x = w => Fits(c, x)'
    BY <1>2, <1>5, <2>2 DEF Fits
  <2>4. \A h \in Goroutines : \A i \in DOMAIN doing'[c][h] : Fits(c, doing[c][h][i])'
    BY <1>6, <1>8, <2>3
  <2>5. \A h \in Goroutines \ {"open"} : ~Writing(c, h)'
    BY <1>8 DEF Writing, Idle
  <2>6. ~Idle(c, "open")' /\ doing'[c]["open"][1].op # "track"
    BY <1>5, <1>6, <1>8 DEF Idle
  <2> QED BY <1>2, <1>3, <1>7, <2>2, <2>4, <2>5, <2>6 DEF Right
<1> QED BY <1>1, <1>7, <1>9, <1>10, <1>11, Untouched DEF IInv, Good

\* The process of a conversation that was closed is stopped.
LEMMA StopKeeps ==
  ASSUME IInv, NEW c \in Convs, Stop(c)
  PROVE  IInv'
<1>1. Agree(pg, mem) /\ Shape /\ \A d \in Convs : Good(d)
  BY DEF IInv
<1>2. /\ c \notin away /\ agents' = agents \ {c} /\ pg' = pg /\ mem' = mem /\ track' = track
      /\ doing' = doing /\ live' = live /\ away' = away /\ answered' = answered
      /\ upset' = upset
  BY DEF Stop, stores
<1>3. (\A d : Known(d)' <=> Known(d)) /\ (\A d : Row(d)' = Row(d)) /\ Agree(pg', mem')
  BY <1>1, <1>2 DEF Known, Row
<1>4. Shape' /\ \A d \in Convs : Stays(d)
  BY <1>1, <1>2, <1>3 DEF Shape, Stays
<1> QED BY <1>1, <1>3, <1>4, Untouched DEF IInv

\* A day ends.
LEMMA NextDayKeeps ==
  ASSUME IInv, NextDay \/ UNCHANGED vars
  PROVE  IInv'
<1>1. Agree(pg, mem) /\ Shape /\ \A d \in Convs : Good(d)
  BY DEF IInv
<1>2. /\ agents' = agents /\ pg' = pg /\ mem' = mem /\ track' = track /\ doing' = doing
      /\ live' = live /\ away' = away /\ answered' = answered /\ upset' = upset
  BY DEF NextDay, stores, vars
<1>3. (\A d : Known(d)' <=> Known(d)) /\ (\A d : Row(d)' = Row(d)) /\ Agree(pg', mem')
  BY <1>1, <1>2 DEF Known, Row
<1>4. Shape' /\ \A d \in Convs : Stays(d)
  BY <1>1, <1>2, <1>3 DEF Shape, Stays
<1> QED BY <1>1, <1>3, <1>4, Untouched DEF IInv

\* The project pages change no session.
LEMMA EditKeeps ==
  ASSUME IInv, NEW name, Edit(name)
  PROVE  IInv'
<1>1. Agree(pg, mem) /\ Shape /\ \A d \in Convs : Good(d)
  BY DEF IInv
<1>2. /\ agents' = agents /\ track' = track /\ doing' = doing
      /\ live' = live /\ away' = away /\ answered' = answered /\ upset' = upset
  BY DEF Edit
<1>3. Agree(pg', mem') /\ mem'.sessions = mem.sessions
  <2>1. CASE \E field \in ProjectFields, value \in {"x"} :
               /\ pg' = PG!SetProjectField(pg, name, field, value)
               /\ mem' = Mem!SetProjectField(mem, name, field, value)
    BY <1>1, <2>1, FieldAgrees
  <2>2. CASE /\ pg' = PG!AppendProjectEnv(pg, name, "E=1")
             /\ mem' = Mem!AppendProjectEnv(mem, name, "E=1")
    BY <1>1, <2>2, AppendAgrees
  <2>3. CASE /\ pg' = PG!ClearProjectEnv(pg, name)
             /\ mem' = Mem!ClearProjectEnv(mem, name)
    BY <1>1, <2>3, ClearAgrees
  <2>4. CASE /\ pg' = PG!SetProjectEnv(pg, name, <<"E=2", "F=1">>)
             /\ mem' = Mem!SetProjectEnv(mem, name, <<"E=2", "F=1">>)
    BY <1>1, <2>4, EnvAgrees
  <2>5. CASE /\ pg' = PG!GetProject(pg, name)
             /\ mem' = Mem!GetProject(mem, name)
    BY <1>1, <2>5, GetAgrees
  <2> QED BY <2>1, <2>2, <2>3, <2>4, <2>5 DEF Edit
<1>4. (\A d : Known(d)' <=> Known(d)) /\ (\A d : Row(d)' = Row(d))
  BY <1>3 DEF Known, Row
<1>5. Shape' /\ \A d \in Convs : Stays(d)
  BY <1>1, <1>2, <1>4 DEF Shape, Stays
<1> QED BY <1>1, <1>3, <1>5, Untouched DEF IInv

\* ConversationCreated: a row that is open and counts nothing.
LEMMA CreateKeeps ==
  ASSUME IInv, NEW c \in Convs, NEW opts, Create(c, opts)
  PROVE  IInv'
<1> DEFINE info == [NoInfo EXCEPT !.status = "pending"]
           r == NewSession(c, opts, CreatedAt)
<1>1. Agree(pg, mem) /\ Shape /\ Good(c) /\ ShapeOf(c) /\ \A d \in Convs : Good(d)
  BY DEF IInv, Good
<1>2. /\ c = Cardinality(pg.session) + 1
      /\ pg' = PG!InsertSession(pg, c, opts, CreatedAt)
      /\ mem' = Mem!InsertSession(mem, c, opts, CreatedAt)
      /\ track' = [track EXCEPT ![c] = NewState(info)]
      /\ live' = live \cup {c} /\ agents' = agents \cup {c} /\ doing' = doing /\ away' = away
      /\ answered' = answered /\ upset' = upset
  BY DEF Create, Sessions
<1>3. /\ StateOK(NewState(info)) /\ NewState(info).info.usage.count = 0
      /\ NewState(info).tracked
  BY DEF StateOK, NewState, NoInfo, InfoOK, UsageOK, UsageFields, NoUsage
<1>4. r.usage.count = 0 /\ Open(r)
  BY DEF NewSession, NoUsage, Open
<1> HIDE DEF info, r
<1>5. Agree(pg', mem') /\ mem'.sessions = Mem!Put(mem.sessions, c, r)
  BY <1>1, <1>2, InsertAgrees DEF r
<1>6. ~Known(c)
  BY <1>1, <1>2 DEF Known, Agree
<1>7. /\ Known(c)' /\ Row(c)' = r
      /\ \A d : d # c => (Known(d)' <=> Known(d)) /\ (Known(d) => Row(d)' = Row(d))
  BY <1>5 DEF Known, Row, Mem!Put
<1>8. /\ DOMAIN track' = DOMAIN track /\ track'[c] = NewState(info)
      /\ \A d \in Convs \ {c} : track'[d] = track[d]
  BY <1>1, <1>2 DEF Shape
<1>9. Shape' /\ \A d \in Convs \ {c} : Stays(d)
  BY <1>1, <1>2, <1>7, <1>8 DEF Shape, Stays
<1>10. Quiet(c) /\ Quiet(c)' /\ answered[c] = 0 /\ c \notin away
  BY <1>1, <1>2, <1>6 DEF ShapeOf, Shape, Quiet, Idle
<1>11. ShapeOf(c)'
  BY <1>1, <1>2, <1>3, <1>7, <1>8, <1>10 DEF ShapeOf
<1>12. Right(c)'
  <2>1. \A h \in Goroutines : Idle(c, h)' /\ doing'[c][h] = <<>>
    BY <1>10 DEF Quiet, Idle
  <2>2. \A h \in Goroutines : ~Writing(c, h)' /\ DOMAIN doing'[c][h] = {}
    BY <2>1 DEF Writing
  <2> QED BY <1>2, <1>3, <1>4, <1>7, <1>8, <1>10, <2>1, <2>2 DEF Right, Goroutines
<1> QED BY <1>1, <1>5, <1>9, <1>11, <1>12, Untouched DEF IInv, Good

\* A restart: no row stays open, and what was counted and written stays so.
LEMMA RestartKeeps ==
  ASSUME IInv, NEW survivors, Restart(survivors)
  PROVE  IInv'
<1>1. Agree(pg, mem) /\ Shape /\ \A d \in Convs : Good(d)
  BY DEF IInv
<1>2. /\ survivors \subseteq agents /\ agents' = survivors /\ away' = survivors /\ live' = {}
      /\ track' = [d \in Convs |-> Untracked]
      /\ doing' = [d \in Convs |-> [g \in Goroutines |-> <<>>]]
      /\ upset' = upset \cup {d \in Convs : ~Quiet(d)}
      /\ pg' = PG!CompleteRunningSessions(pg, Now)
      /\ mem' = Mem!CompleteRunningSessions(mem, Now)
      /\ answered' = answered
  BY DEF Restart
<1>3. /\ Agree(pg', mem')
      /\ mem'.sessions = [d \in DOMAIN mem.sessions |-> Completed(mem.sessions[d], Now)]
  BY <1>1, <1>2, CompleteAgrees
<1>4. /\ \A d : Known(d)' <=> Known(d)
      /\ \A d : Known(d) => Row(d)' = Completed(Row(d), Now)
  BY <1>3 DEF Known, Row
<1>5. \A d : Known(d) => Row(d)'.usage = Row(d).usage /\ ~Open(Row(d))'
  <2>1. \A d : Known(d) => RowOK(Row(d), d)
    BY <1>1 DEF Agree, Known, Row
  <2>2. \A row, d : RowOK(row, d) =>
          Completed(row, Now).usage = row.usage /\ ~Open(Completed(row, Now))
    BY DEF Completed, Open, RowOK, RowFields
  <2> QED BY <1>4, <2>1, <2>2 DEF Open
<1>6. Shape'
  BY <1>1, <1>2 DEF Shape
<1>7. ASSUME NEW d \in Convs
      PROVE  Good(d)'
  <2>1. Good(d) /\ ShapeOf(d)
    BY <1>1, <1>7 DEF Good
  <2>2. /\ track'[d] = Untracked /\ ~track'[d].tracked /\ DOMAIN doing'[d] = Goroutines
        /\ \A g \in Goroutines : doing'[d][g] = <<>> /\ DOMAIN doing'[d][g] = {}
    BY <1>2, <1>7 DEF Untracked
  <2>3. \A g \in Goroutines : Idle(d, g)' /\ ~Writing(d, g)' /\ Queued(doing'[d][g], g)
    BY <2>2 DEF Idle, Writing, Queued
  <2>4. ShapeOf(d)'
    BY <1>2, <1>4, <2>1, <2>2, <2>3 DEF ShapeOf, Quiet, Goroutines
  <2>5. ASSUME d \notin upset'
        PROVE  Right(d)'
    <3>1. Right(d) /\ Quiet(d)
      BY <1>2, <1>7, <2>1, <2>5 DEF Good
    <3>2. Known(d) => Row(d).usage.count = answered[d]
      BY <3>1 DEF Right, Quiet, Goroutines
    <3>3. Known(d)' => Row(d)'.usage.count = answered'[d] /\ ~Open(Row(d))'
      BY <1>2, <1>4, <1>5, <3>2
    <3> QED BY <1>2, <2>2, <2>3, <3>3 DEF Right
  <2> QED BY <2>4, <2>5 DEF Good
<1> QED BY <1>3, <1>6, <1>7 DEF IInv

\* The stores of the first start hold one session that ended with one turn.
LEMMA InitInv == Init => IInv
<1> SUFFICES ASSUME Init
             PROVE  IInv
  OBVIOUS
<1> DEFINE db == PG!InsertSession(PG!EmptyTables, 1, Past, 0)
           m == Mem!InsertSession(Mem!EmptyStore, 1, Past, 0)
           r == NewSession(1, Past, 0)
           s == Finished(r, PastInfo, "", Now)
<1>1. /\ pg = PG!FinishSession(db, 1, PastInfo, "", Now)
      /\ mem = Mem!FinishSession(m, 1, PastInfo, "", Now)
      /\ track = [c \in Convs |-> Untracked]
      /\ doing = [c \in Convs |-> [g \in Goroutines |-> <<>>]]
      /\ live = {} /\ agents = {} /\ away = {}
      /\ answered = [c \in Convs |-> IF c = 1 THEN 1 ELSE 0] /\ upset = {}
  BY DEF Init
<1>2. Agree(db, m) /\ m.sessions = Mem!Put(Mem!None, 1, r)
  <2>1. 1 = Cardinality(PG!EmptyTables.session) + 1
    <3>1. PG!EmptyTables.session = {} /\ Cardinality({}) = 0
      BY FS_EmptySet DEF PG!EmptyTables
    <3> QED BY <3>1
  <2>2. Mem!EmptyStore.sessions = Mem!None
    BY DEF Mem!EmptyStore
  <2> QED BY <2>1, <2>2, EmptyAgrees, InsertAgrees
<1>3. DOMAIN m.sessions = {1} /\ m.sessions[1] = r
  BY <1>2 DEF Mem!Put, Mem!None
<1>4. InfoOK(PastInfo) /\ PastInfo.usage.count = 1 /\ PastInfo.status = "complete"
  BY DEF InfoOK, PastInfo, UsageOK, UsageFields, NoUsage
<1>5. Agree(pg, mem) /\ mem.sessions = [m.sessions EXCEPT ![1] = s]
  <2> HIDE DEF db, m, r
  <2>1. m.sessions[1] = r /\ 1 \in DOMAIN m.sessions
    BY <1>3
  <2> DEFINE one == 1
             none == ""
             now == Now
  <2>2. one \in DOMAIN m.sessions
    BY <2>1
  <2> HIDE DEF one, none, now, s
  <2>3. /\ Agree(PG!FinishSession(db, one, PastInfo, none, now),
                 Mem!FinishSession(m, one, PastInfo, none, now))
        /\ Mem!FinishSession(m, one, PastInfo, none, now).sessions
             = [m.sessions EXCEPT ![one] = Finished(@, PastInfo, none, now)]
    BY <1>2, <1>4, <2>2, FinishAgrees
  <2> QED BY <1>1, <2>1, <2>3 DEF one, none, now, s
<1>6. s.usage.count = 1 /\ ~Open(s)
  BY <1>4 DEF Finished, WithInfo, NewSession, Open
<1>7. DOMAIN mem.sessions = {1} /\ mem.sessions[1] = s
  <2> HIDE DEF s, m, r
  <2> QED BY <1>3, <1>5
<1> HIDE DEF db, m, r, s
<1>8. Shape
  BY <1>1 DEF Shape
<1>9. ASSUME NEW c \in Convs
      PROVE  Good(c)
  <2>1. /\ track[c] = Untracked /\ ~track[c].tracked
        /\ doing[c] = [g \in Goroutines |-> <<>>] /\ DOMAIN doing[c] = Goroutines
        /\ \A g \in Goroutines : doing[c][g] = <<>> /\ DOMAIN doing[c][g] = {}
        /\ answered[c] = IF c = 1 THEN 1 ELSE 0
    <3>1. track[c] = Untracked /\ ~Untracked.tracked
      BY <1>1, <1>9 DEF Untracked
    <3>2. doing[c] = [g \in Goroutines |-> <<>>]
      BY <1>1, <1>9
    <3>3. answered[c] = IF c = 1 THEN 1 ELSE 0
      BY <1>1, <1>9
    <3> QED BY <3>1, <3>2, <3>3
  <2>2. \A g \in Goroutines : Idle(c, g) /\ ~Writing(c, g) /\ Queued(doing[c][g], g)
    BY <2>1 DEF Idle, Writing, Queued
  <2>3. ShapeOf(c)
    BY <1>1, <1>7, <2>1, <2>2 DEF ShapeOf, Quiet, Known, Goroutines
  <2>4. Known(c) => Row(c).usage.count = answered[c] /\ ~Open(Row(c))
    BY <1>6, <1>7, <2>1 DEF Known, Row
  <2>5. Right(c)
    BY <1>1, <2>1, <2>2, <2>4 DEF Right
  <2> QED BY <2>3, <2>5 DEF Good
<1> QED BY <1>5, <1>8, <1>9 DEF IInv

-----------------------------------------------------------------------------
(* The theorems *)

\* Every step keeps the invariant.
LEMMA NextInv == IInv /\ [Next]_vars => IInv'
<1> SUFFICES ASSUME IInv, [Next]_vars
             PROVE  IInv'
  OBVIOUS
<1>1. ASSUME NEW c \in Convs, NEW opts \in Opts, Create(c, opts) PROVE IInv'
  BY <1>1, CreateKeeps
<1>2. ASSUME NEW c \in Convs, SessionReady(c, "s") PROVE IInv'
  BY <1>2, SessionReadyKeeps
<1>3. ASSUME NEW c \in Convs, NEW u \in Updates, Update(c, u) PROVE IInv'
  BY <1>3, UpdateKeeps
<1>4. ASSUME NEW c \in Convs, SendLooks(c) PROVE IInv'
  BY <1>4, SendLooksKeeps
<1>5. ASSUME NEW c \in Convs, Prompt(c) PROVE IInv'
  BY <1>5, PromptKeeps
<1>6. ASSUME NEW c \in Convs, NEW r \in Responses, Response(c, r) PROVE IInv'
  BY <1>6, ResponseKeeps
<1>7. ASSUME NEW c \in Convs, NEW err \in {"", "exited"}, Close(c, err) PROVE IInv'
  BY <1>7, CloseKeeps
<1>8. ASSUME NEW c \in Convs, Stop(c) \/ Adopt(c) \/ Finalize(c) PROVE IInv'
  BY <1>8, StopKeeps, AdoptKeeps, FinalizeKeeps
<1>9. ASSUME NEW c \in Convs, NEW g \in Goroutines,
             WriteUpdate(c, g) \/ WriteDuration(c, g) \/ WriteFinish(c, g)
               \/ WriteReopen(c, g) \/ Track(c, g)
      PROVE  IInv'
  BY <1>9, WriteUpdateKeeps, WriteDurationKeeps, WriteFinishKeeps, WriteReopenKeeps,
     TrackKeeps
<1>10. ASSUME NEW S \in SUBSET agents, Restart(S) PROVE IInv'
  BY <1>10, RestartKeeps
<1>11. ASSUME NEW name \in ProjectNames, Edit(name) PROVE IInv'
  BY <1>11, EditKeeps
<1>12. CASE NextDay \/ UNCHANGED vars
  BY <1>12, NextDayKeeps
<1> QED BY <1>1, <1>2, <1>3, <1>4, <1>5, <1>6, <1>7, <1>8, <1>9, <1>10, <1>11, <1>12 DEF Next

\* The invariant of the persister over its two stores.
THEOREM Invariant == Spec => []IInv
BY InitInv, NextInv, PTL DEF Spec

\* Both stores hold the same rows whatever is written to them, and in whatever order
\* (persister.go, store.go, store_projects.go, memstore.go).
THEOREM TablesAgree == Spec => []SameTables
<1>1. IInv => SameTables
  BY DEF IInv, Agree, SameTables
<1> QED BY <1>1, Invariant, PTL

\* A lookup of a row - a session, a log entry, a project made on demand, the agents - finds
\* the same in both stores (store.go, memstore.go).
THEOREM LookupsAgree == Spec => []SameLookups
<1>1. IInv => SameLookups
  <2> SUFFICES ASSUME IInv PROVE SameLookups
    OBVIOUS
  <2>1. Agree(pg, mem)
    BY DEF IInv
  <2>2. ASSUME NEW c \in Convs
        PROVE  PG!GetSession(pg, c) = {PG!Columns(r) : r \in Mem!GetSession(mem, c)}
    <3>1. CASE c \in DOMAIN mem.sessions
      <4>1. /\ {s \in pg.session : s.id = c} = {mem.sessions[c]}
            /\ Mem!GetSession(mem, c) = {mem.sessions[c]}
        BY <2>1, <3>1, Lookups DEF Mem!GetSession
      <4> QED BY <4>1 DEF PG!GetSession
    <3>2. CASE c \notin DOMAIN mem.sessions
      <4>1. {s \in pg.session : s.id = c} = {} /\ Mem!GetSession(mem, c) = {}
        BY <2>1, <3>2, Lookups DEF PG!HasSession, Mem!GetSession
      <4> QED BY <4>1 DEF PG!GetSession
    <3> QED BY <3>1, <3>2
  <2>3. \A n \in 1..(mem.logSeq + 1) : PG!GetLog(pg, n) = Mem!GetLog(mem, n)
    BY <2>1 DEF Agree, PG!GetLog, Mem!GetLog, ToSet
  <2>4. ASSUME NEW name \in ProjectNames
        PROVE  PG!ProjectRow(pg, name) = Mem!ProjectRow(mem, name)
    <3>1. Agree(PG!GetProject(pg, name), Mem!GetProject(mem, name))
      BY <2>1, GetAgrees
    <3>2. name \in DOMAIN Mem!GetProject(mem, name).projects
      BY <2>1 DEF Agree, Mem!GetProject, Mem!ChangeProject, Mem!Put
    <3>3. \A p \in PG!GetProject(pg, name).project :
            p.name = name => p = Mem!GetProject(mem, name).projects[name]
      BY <3>1 DEF Agree, ProjectOK, Mem!Values
    <3>4. /\ Mem!GetProject(mem, name).projects[name] \in PG!GetProject(pg, name).project
          /\ Mem!GetProject(mem, name).projects[name].name = name
      BY <3>1, <3>2 DEF Agree, ProjectOK, Mem!Values
    <3> QED BY <3>3, <3>4 DEF PG!ProjectRow, Mem!ProjectRow
  <2>5. PG!GetDistinctAgents(pg) = Mem!GetDistinctAgents(mem)
    BY <2>1 DEF Agree, PG!GetDistinctAgents, Mem!GetDistinctAgents
  <2> QED BY <2>2, <2>3, <2>4, <2>5 DEF SameLookups
<1> QED BY <1>1, Invariant, PTL

\* The stored row of a conversation counts every answer the server handled, once nothing is
\* on its way and unless its writes passed each other (persister.go:113-155).
THEOREM EveryTurnCounts == Spec => []TurnsCounted
<1>1. IInv => TurnsCounted
  <2> SUFFICES ASSUME IInv, NEW c \in Convs \ upset, Quiet(c), PG!HasSession(pg, c)
               PROVE  PG!Session(pg, c).usage.count = answered[c]
    BY DEF TurnsCounted
  <2>1. Agree(pg, mem) /\ Right(c)
    BY DEF IInv, Good
  <2>2. Known(c) /\ PG!Session(pg, c) = Row(c)
    BY <2>1, Lookups DEF Known, Row
  <2>3. Idle(c, "loop")
    BY DEF Quiet, Goroutines
  <2> QED BY <2>1, <2>2, <2>3 DEF Right
<1> QED BY <1>1, Invariant, PTL

\* A row is open exactly while its conversation is registered, under the same condition
\* (store.go:97-121).
THEOREM OpenRowsAreLive == Spec => []OpenIsLive
<1>1. IInv => OpenIsLive
  <2> SUFFICES ASSUME IInv, NEW c \in Convs \ upset, Quiet(c), PG!HasSession(pg, c)
               PROVE  Open(PG!Session(pg, c)) <=> c \in live
    BY DEF OpenIsLive
  <2>1. Agree(pg, mem) /\ Right(c)
    BY DEF IInv, Good
  <2>2. Known(c) /\ PG!Session(pg, c) = Row(c)
    BY <2>1, Lookups DEF Known, Row
  <2>3. Idle(c, "open") /\ Idle(c, "close")
    BY DEF Quiet, Goroutines
  <2> QED BY <2>1, <2>2, <2>3 DEF Right
<1> QED BY <1>1, Invariant, PTL
=============================================================================
