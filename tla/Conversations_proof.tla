------------------------ MODULE Conversations_proof ------------------------
(***************************************************************************)
(* What Conversations promises of the end of a conversation and of its     *)
(* rows, for any number of restarts, prompts, updates and closes.          *)
(***************************************************************************)
EXTENDS Conversations, SequenceTheorems, TLAPS

Fields == {"at", "conv", "ch"}
Columns == {"status", "acp", "finished", "refused"}

\* A value of the tables.
Table(d) ==
  /\ DOMAIN d = Columns
  /\ d.status = [c \in Convs |-> d.status[c]] /\ d.acp = [c \in Convs |-> d.acp[c]]

Shape ==
  /\ act = [a \in Actors |-> act[a]] /\ \A a \in Actors : DOMAIN act[a] = Fields
  /\ Table(db)
  /\ ends \in [Convs -> Nat]
  /\ restarts \in 0..MaxRestarts /\ conv = restarts + 1
  /\ live \in BOOLEAN

\* a is on its way to tell subscribers of the end of c.
Ending(a, c) ==
  \/ a \in Closers /\ At(a, "event") /\ act[a].conv = c
  \/ /\ a = "restart" /\ act[a].ch = c
     /\ act[a].at \in {"announce", "ask", "look", "wait", "woken", "replace"}

\* c is live, or has yet to be.
Fresh(c) == c > conv \/ (c = conv /\ (live \/ Unborn))

\* A conversation leaves the router once, with whoever tells of its end.
Endings ==
  /\ Unborn => ~live /\ conv = 1
  /\ \A c \in Convs : Fresh(c) => ends[c] = 0 /\ c \notin db.finished
  /\ \A a \in Actors, c \in Convs : Ending(a, c) => ~Fresh(c) /\ ends[c] = 0
  /\ \A a, b \in Actors, c \in Convs : Ending(a, c) /\ Ending(b, c) => a = b
  /\ EndsOnce

\* What is on the way between the router and the agent: a session/new, and its answer, names
\* the conversation it is for.
Said == {x \in [m : Methods \cup {"update", "none"}, ok : BOOLEAN, sid : Nat] :
           x.m = "new" => x.sid # 0}

Traffic ==
  /\ \A q \in asked : q.m \in Methods /\ (q.m = "new" => q.conv \in Nat \ {0})
  /\ fromAgent \in Seq(Said) /\ msg \in Said
  /\ act["restart"].at \in {"announce", "ask"} => act["restart"].conv \in Nat \ {0}

\* Before its row is there, nobody but Create and Router.Close knows of the conversation.
Unannounced == Unborn \/ At("create", "announce")

Rows ==
  /\ Unannounced => /\ asked = {} /\ fromAgent = <<>> /\ opened = {} /\ At("loop", "idle")
                    /\ At("user", "idle") /\ At("restart", "idle")
                    /\ \A c \in Convs : ~HasRow(db, c)
  /\ ~Unannounced => HasRow(db, 1)
  /\ RowIsFirst

\* The user waits on c, or was woken by it.
Awaits(c) == act["user"].at \in {"wait", "woken"} /\ act["user"].ch = c

\* Who was woken by a channel finds a session on the row; below, whose session it is.
Recorded ==
  At("user", "send") /\ act["user"].ch # 0 => db.acp[act["user"].ch] # 0

\* A channel that nobody has taken is not closed, and one that a waiter sees closed was closed
\* after the session was recorded, or by an error, which stays.
Channels ==
  /\ ready \in {0, conv}
  /\ \A c \in opened : c \in Convs /\ c <= conv /\ c # ready
  /\ act["loop"].at \in {"deliver", "ready"} /\ act["loop"].ch # 0
       => act["loop"].ch \in Convs /\ act["loop"].ch <= conv /\ act["loop"].ch # ready
  /\ At("loop", "deliver") /\ act["loop"].ch # 0
       => act["loop"].conv = act["loop"].ch /\ msg.m = "new"
  /\ \A c \in Convs :
       Awaits(c) =>
         /\ HasRow(db, c)
         /\ At("loop", "ready") /\ act["loop"].ch = c => db.acp[c] # 0
         /\ c \in opened => handshakeErr \/ db.acp[c] # 0
  /\ act["user"].at \in {"wait", "woken", "send"} => act["user"].ch \in Convs \cup {0}
  /\ At("user", "wait") \/ At("user", "woken") => act["user"].ch <= conv
  /\ At("user", "woken") => act["user"].ch = 0 \/ act["user"].ch \in opened
  /\ Recorded

IInv == Shape /\ Endings /\ Traffic /\ Rows /\ Channels

-----------------------------------------------------------------------------
(* What the helpers do *)

\* An actor is at a place, with what it holds; the others stay where they are.
Moved(a, where, c, ch) ==
  /\ act' = [b \in Actors |-> act'[b]] /\ \A b \in Actors : DOMAIN act'[b] = Fields
  /\ act'[a].at = where /\ act'[a].conv = c /\ act'[a].ch = ch
  /\ \A b \in Actors : b # a => act'[b] = act[b]

\* The actors, by name.
LEMMA Names ==
  /\ "create" \in Actors /\ "loop" \in Actors /\ "user" \in Actors /\ "restart" \in Actors
  /\ "stop" \in Actors /\ "watch" \in Actors /\ "down" \in Actors
  /\ Closers \subseteq Actors /\ "create" \in Closers
  /\ "loop" \notin Closers /\ "user" \notin Closers /\ "restart" \notin Closers
  BY DEF Actors, Closers

\* An actor that moves keeps what it holds.
LEMMA Moves ==
  ASSUME Shape, NEW a \in Actors, NEW where, Goto(a, where)
  PROVE  Moved(a, where, act[a].conv, act[a].ch)
  BY DEF Shape, Goto, Moved, Fields

\* An actor moves with a conversation and a channel.
LEMMA Holds ==
  ASSUME Shape, NEW a \in Actors, NEW where, NEW c, NEW ch, Holding(a, where, c, ch)
  PROVE  Moved(a, where, c, ch)
<1>1. act'[a] = [at |-> where, conv |-> c, ch |-> ch]
  BY DEF Shape, Holding
<1>2. DOMAIN act'[a] = Fields /\ act'[a].at = where /\ act'[a].conv = c /\ act'[a].ch = ch
  BY <1>1 DEF Fields
<1> QED
  BY <1>2 DEF Shape, Holding, Moved

\* There is a first conversation.
LEMMA First == 1 \in Convs
  BY ConversationsAssumption DEF Convs

\* A write keeps the rows, the recorded sessions, and the ends; it refuses no entry of a
\* conversation that has its row.
Kept(d, e) ==
  /\ Table(e) /\ e.finished = d.finished
  /\ \A c \in Convs : HasRow(d, c) => HasRow(e, c)
  /\ \A c \in Convs : d.acp[c] # 0 => e.acp[c] # 0
  /\ HasRow(d, 1) /\ 1 \notin d.refused => 1 \notin e.refused

\* InsertSession gives a conversation its row, and disturbs no other.
LEMMA InsertSessionKeeps ==
  ASSUME NEW d, Table(d), NEW c
  PROVE  /\ Kept(d, InsertSession(d, c))
         /\ InsertSession(d, c).refused = d.refused
         /\ c \in Convs => HasRow(InsertSession(d, c), c)
  BY DEF Table, Columns, InsertSession, Kept, HasRow

\* A log entry of a conversation that has its row changes nothing here.
LEMMA InsertLogKeeps ==
  ASSUME NEW d, Table(d), NEW c
  PROVE  /\ Kept(d, InsertLog(d, c)) /\ InsertLog(d, c).status = d.status
         /\ HasRow(d, c) => InsertLog(d, c) = d
  BY DEF Table, Columns, InsertLog, Kept, HasRow

\* An update makes no row and refuses nothing.
LEMMA UpdateSessionKeeps ==
  ASSUME NEW d, Table(d), NEW c
  PROVE  Kept(d, UpdateSession(d, c)) /\ UpdateSession(d, c).refused = d.refused
  BY DEF Table, Columns, UpdateSession, Kept, HasRow

\* A row that is there shows the ACP session once it is set.
LEMMA SetACPSessionIDKeeps ==
  ASSUME NEW d, Table(d), NEW c, NEW s, s # 0
  PROVE  /\ Kept(d, SetACPSessionID(d, c, s))
         /\ c \in Convs /\ HasRow(d, c) => SetACPSessionID(d, c, s).acp[c] # 0
  BY DEF Table, Columns, SetACPSessionID, Kept, HasRow

\* A turn writes a log entry, then the row.
LEMMA RecordTurnKeeps ==
  ASSUME NEW d, Table(d), NEW c
  PROVE  Kept(d, RecordTurn(d, c))
<1> DEFINE l == InsertLog(d, c)
<1>1. Kept(d, l) /\ Table(l) /\ l.status = d.status
  BY InsertLogKeeps DEF Kept
<1>2. Kept(l, UpdateSession(l, c)) /\ UpdateSession(l, c).refused = l.refused
  BY <1>1, UpdateSessionKeeps
<1>3. RecordTurn(d, c) = UpdateSession(l, c)
  BY DEF RecordTurn
<1> HIDE DEF l
<1> QED
  BY <1>1, <1>2, <1>3 DEF Kept

\* The end of a conversation is the end of its row only, and adds none.
Finished(d, e, c) ==
  /\ Table(e) /\ e.finished \subseteq d.finished \cup {c}
  /\ \A x \in Convs : HasRow(d, x) <=> HasRow(e, x)
  /\ e.acp = d.acp /\ e.refused = d.refused

\* FinishSession finishes its own row only.
LEMMA FinishSessionKeeps ==
  ASSUME NEW d, Table(d), NEW c, NEW status, status # "none"
  PROVE  Finished(d, FinishSession(d, c, status), c)
  BY DEF Table, Columns, FinishSession, Finished, HasRow

\* One more end is told.
LEMMA Counts ==
  ASSUME ends \in [Convs -> Nat], NEW k, ends' = [ends EXCEPT ![k] = @ + 1]
  PROVE  /\ ends' \in [Convs -> Nat]
         /\ \A x \in Convs : ends'[x] = IF x = k THEN ends[x] + 1 ELSE ends[x]
<1>1. ends' = [x \in Convs |-> IF x = k THEN ends[x] + 1 ELSE ends[x]]
  OBVIOUS
<1>2. \A x \in Convs : ends[x] + 1 \in Nat
  OBVIOUS
<1> QED
  BY <1>1, <1>2


\* No step breaks it.
LEMMA NextInv == IInv /\ [Next]_vars => IInv'
<1> SUFFICES ASSUME IInv, [Next]_vars PROVE IInv'
  OBVIOUS
<1> USE DEF IInv, sessVars, procVars, histVars, bounds
<1>1. ASSUME CreateStart PROVE IInv'
  <2>1. Moved("create", "started", act["create"].conv, act["create"].ch)
    BY <1>1, Moves, Names DEF CreateStart
  <2>2. Shape'
    BY <1>1, <2>1, Names DEF CreateStart, Moved, Shape
  <2>3. Endings'
    BY <1>1, <2>1, Names
    DEF CreateStart, Moved, At, Shape, Endings, Ending, Unborn, Fresh, EndsOnce
  <2>4. Traffic'
    BY <1>1, <2>1, Names DEF CreateStart, Moved, At, Shape, Traffic
  <2>5. Rows'
    BY <1>1, <2>1, Names
    DEF CreateStart, Moved, At, Shape, Rows, Unannounced, Unborn, RowIsFirst
  <2>6. Channels'
    BY <1>1, <2>1, Names DEF CreateStart, Moved, At, Shape, Channels, Awaits, Recorded
  <2> QED
    BY <2>2, <2>3, <2>4, <2>5, <2>6 DEF IInv
<1>2. ASSUME CreateRegister PROVE IInv'
  <2>1. Moved("create", "announce", act["create"].conv, act["create"].ch)
    BY <1>2, Moves, Names DEF CreateRegister
  <2>2. Shape'
    BY <1>2, <2>1, Names DEF CreateRegister, Moved, Shape
  <2>3. Endings'
    BY <1>2, <2>1, Names
    DEF CreateRegister, Moved, At, Shape, Endings, Ending, Unborn, Fresh, EndsOnce
  <2>4. Traffic'
    BY <1>2, <2>1, Names DEF CreateRegister, Moved, At, Shape, Traffic
  <2>5. Rows'
    BY <1>2, <2>1, Names
    DEF CreateRegister, Moved, At, Shape, Rows, Unannounced, Unborn, RowIsFirst
  <2>6. Channels'
    <3>1. /\ opened = {} /\ conv = 1 /\ ready' = 1
          /\ act["loop"].at = "idle" /\ act["user"].at = "idle"
          /\ UNCHANGED <<conv, opened, msg, db, handshakeErr>>
      BY <1>2, Names DEF CreateRegister, At, Endings, Rows, Unannounced, Unborn
    <3> QED
      BY <2>1, <3>1, Names DEF Moved, At, Channels, Awaits, Recorded
  <2> QED
    BY <2>2, <2>3, <2>4, <2>5, <2>6 DEF IInv
<1>3. ASSUME CreateStillborn PROVE IInv'
  <2>1. Moved("create", "announce", act["create"].conv, act["create"].ch)
    BY <1>3, Moves, Names DEF CreateStillborn
  <2>2. Shape'
    BY <1>3, <2>1, Names DEF CreateStillborn, Moved, Shape
  <2>3. Endings'
    BY <1>3, <2>1, Names
    DEF CreateStillborn, Moved, At, Shape, Endings, Ending, Unborn, Fresh, EndsOnce
  <2>4. Traffic'
    BY <1>3, <2>1, Names DEF CreateStillborn, Moved, At, Shape, Traffic
  <2>5. Rows'
    BY <1>3, <2>1, Names
    DEF CreateStillborn, Moved, At, Shape, Rows, Unannounced, Unborn, RowIsFirst
  <2>6. Channels'
    BY <1>3, <2>1, Names
    DEF CreateStillborn, Moved, At, Shape, Channels, Awaits, Recorded
  <2> QED
    BY <2>2, <2>3, <2>4, <2>5, <2>6 DEF IInv
<1>4. ASSUME CreateAnnounce PROVE IInv'
  <2>1. CASE proc = "none"
    <3>1. Moved("create", "delete", 1, 0)
      BY <1>4, <2>1, Holds, Names DEF CreateAnnounce
    <3>2. Kept(db, db')
      <4>1. db' = InsertSession(db, 1)
        BY <1>4, <2>1, InsertSessionKeeps, InsertLogKeeps, First DEF CreateAnnounce, Shape, Kept
      <4> QED
        BY <4>1, InsertSessionKeeps DEF Shape
    <3>3. Shape'
      BY <1>4, <2>1, <3>1, <3>2, Names DEF CreateAnnounce, Moved, Kept, Shape
    <3>4. Endings'
      BY <1>4, <2>1, <3>1, <3>2, Names
      DEF CreateAnnounce, Moved, Kept, At, Shape, Endings, Ending, Unborn, Fresh, EndsOnce
    <3>5. Traffic'
      BY <1>4, <2>1, <3>1, <3>2, Names DEF CreateAnnounce, Moved, Kept, At, Shape, Traffic
    <3>6. Rows'
      <4>1. db' = InsertSession(db, 1)
        BY <1>4, <2>1, InsertSessionKeeps, InsertLogKeeps, First DEF CreateAnnounce, Shape, Kept
      <4>2. HasRow(db', 1) /\ db'.refused = db.refused
        BY <4>1, InsertSessionKeeps, First DEF Shape
      <4>3. ~Unannounced'
        BY <3>1 DEF Moved, Unannounced, Unborn, At
      <4> QED
        BY <4>2, <4>3 DEF Rows, RowIsFirst
    <3>7. Channels'
      BY <1>4, <2>1, <3>1, <3>2, Names
      DEF CreateAnnounce, Moved, Kept, At, Shape, Channels, Awaits, Recorded
    <3> QED
      BY <3>3, <3>4, <3>5, <3>6, <3>7 DEF IInv
  <2>2. CASE proc # "none"
    <3>1. Moved("create", "ask", act["create"].conv, act["create"].ch)
      BY <1>4, <2>2, Moves, Names DEF CreateAnnounce
    <3>2. Kept(db, db')
      <4>1. db' = InsertSession(db, 1)
        BY <1>4, <2>2, InsertSessionKeeps, InsertLogKeeps, First DEF CreateAnnounce, Shape, Kept
      <4> QED
        BY <4>1, InsertSessionKeeps DEF Shape
    <3>3. Shape'
      BY <1>4, <2>2, <3>1, <3>2, Names DEF CreateAnnounce, Moved, Kept, Shape
    <3>4. Endings'
      BY <1>4, <2>2, <3>1, <3>2, Names
      DEF CreateAnnounce, Moved, Kept, At, Shape, Endings, Ending, Unborn, Fresh, EndsOnce
    <3>5. Traffic'
      BY <1>4, <2>2, <3>1, <3>2, Names DEF CreateAnnounce, Moved, Kept, At, Shape, Traffic
    <3>6. Rows'
      <4>1. db' = InsertSession(db, 1)
        BY <1>4, <2>2, InsertSessionKeeps, InsertLogKeeps, First DEF CreateAnnounce, Shape, Kept
      <4>2. HasRow(db', 1) /\ db'.refused = db.refused
        BY <4>1, InsertSessionKeeps, First DEF Shape
      <4>3. ~Unannounced'
        BY <3>1 DEF Moved, Unannounced, Unborn, At
      <4> QED
        BY <4>2, <4>3 DEF Rows, RowIsFirst
    <3>7. Channels'
      BY <1>4, <2>2, <3>1, <3>2, Names
      DEF CreateAnnounce, Moved, Kept, At, Shape, Channels, Awaits, Recorded
    <3> QED
      BY <3>3, <3>4, <3>5, <3>6, <3>7 DEF IInv
  <2> QED
    BY <1>4, <2>1, <2>2 DEF CreateAnnounce
<1>5. ASSUME CreateAsk PROVE IInv'
  <2>1. CASE CanSend
    <3>1. /\ act' = [b \in Actors |-> act'[b]] /\ \A b \in Actors : DOMAIN act'[b] = Fields
          /\ act'["create"].at = "over" /\ act'["watch"].at = "watch"
          /\ \A b \in Actors \ {"create", "watch"} : act'[b] = act[b]
      BY <1>5, <2>1, Names DEF CreateAsk, Shape, Fields
    <3>2. Shape'
      BY <1>5, <2>1, <3>1, Names DEF CreateAsk, Shape
    <3>3. Endings'
      BY <1>5, <2>1, <3>1, Names
      DEF CreateAsk, At, Shape, Endings, Ending, Unborn, Fresh, EndsOnce
    <3>4. Traffic'
      BY <1>5, <2>1, <3>1, Names DEF CreateAsk, Ask, Request, Methods, At, Traffic
    <3>5. Rows'
      BY <1>5, <2>1, <3>1, Names DEF CreateAsk, At, Shape, Rows, Unannounced, Unborn, RowIsFirst
    <3>6. Channels'
      BY <1>5, <2>1, <3>1, Names DEF CreateAsk, At, Shape, Channels, Awaits, Recorded
    <3> QED
      BY <3>2, <3>3, <3>4, <3>5, <3>6 DEF IInv
  <2>2. CASE ~CanSend
    <3>1. Moved("create", "abort", act["create"].conv, act["create"].ch)
      BY <1>5, <2>2, Moves, Names DEF CreateAsk
    <3>2. Shape'
      BY <1>5, <2>2, <3>1, Names DEF CreateAsk, Moved, Shape
    <3>3. Endings'
      BY <1>5, <2>2, <3>1, Names
      DEF CreateAsk, Moved, At, Shape, Endings, Ending, Unborn, Fresh, EndsOnce
    <3>4. Traffic'
      BY <1>5, <2>2, <3>1, Names DEF CreateAsk, Ask, Request, Methods, Moved, At, Traffic
    <3>5. Rows'
      BY <1>5, <2>2, <3>1, Names
      DEF CreateAsk, Moved, At, Shape, Rows, Unannounced, Unborn, RowIsFirst
    <3>6. Channels'
      BY <1>5, <2>2, <3>1, Names
      DEF CreateAsk, Moved, At, Shape, Channels, Awaits, Recorded
    <3> QED
      BY <3>2, <3>3, <3>4, <3>5, <3>6 DEF IInv
  <2> QED
    BY <1>5, <2>1, <2>2 DEF CreateAsk
<1>6. ASSUME CreateAbort PROVE IInv'
  <2>1. Moved("create", "failed", act["create"].conv, act["create"].ch)
    BY <1>6, Moves, Names DEF CreateAbort
  <2>2. Shape'
    BY <1>6, <2>1, Names DEF CreateAbort, Moved, Shape
  <2>3. Endings'
    BY <1>6, <2>1, Names
    DEF CreateAbort, Moved, At, Shape, Endings, Ending, Unborn, Fresh, EndsOnce
  <2>4. Traffic'
    BY <1>6, <2>1, Names DEF CreateAbort, Moved, At, Shape, Traffic
  <2>5. Rows'
    BY <1>6, <2>1, Names
    DEF CreateAbort, Moved, At, Shape, Rows, Unannounced, Unborn, RowIsFirst
  <2>6. Channels'
    BY <1>6, <2>1, Names DEF CreateAbort, Moved, At, Shape, Channels, Awaits, Recorded
  <2> QED
    BY <2>2, <2>3, <2>4, <2>5, <2>6 DEF IInv
<1>7. ASSUME NEW q \in asked, NEW ok \in BOOLEAN, Answer(q, ok) PROVE IInv'
  <2>1. act' = act
    BY <1>7 DEF Answer
  <2>2. Shape'
    BY <1>7, <2>1, Names DEF Answer, Shape
  <2>3. Endings'
    BY <1>7, <2>1, Names DEF Answer, At, Shape, Endings, Ending, Unborn, Fresh, EndsOnce
  <2>4. Traffic'
    <3> DEFINE answer == [m |-> q.m, ok |-> ok, sid |-> IF q.m = "new" THEN q.conv ELSE 0]
    <3>1. answer \in Said
      BY DEF Traffic, Said
    <3>2. fromAgent' = Append(fromAgent, answer) /\ asked' \subseteq asked /\ UNCHANGED <<act, msg>>
      BY <1>7 DEF Answer
    <3> HIDE DEF answer
    <3>3. fromAgent' \in Seq(Said)
      BY <3>1, <3>2, AppendProperties DEF Traffic
    <3> QED
      BY <3>2, <3>3 DEF Traffic
  <2>5. Rows'
    BY <1>7, <2>1, Names DEF Answer, At, Shape, Rows, Unannounced, Unborn, RowIsFirst
  <2>6. Channels'
    BY <1>7, <2>1, Names DEF Answer, At, Shape, Channels, Awaits, Recorded
  <2> QED
    BY <2>2, <2>3, <2>4, <2>5, <2>6 DEF IInv
<1>8. ASSUME Update PROVE IInv'
  <2>1. act' = act
    BY <1>8 DEF Update
  <2>2. Shape'
    BY <1>8, <2>1, Names DEF Update, Shape
  <2>3. Endings'
    BY <1>8, <2>1, Names DEF Update, At, Shape, Endings, Ending, Unborn, Fresh, EndsOnce
  <2>4. Traffic'
    <3> DEFINE update == [m |-> "update", ok |-> TRUE, sid |-> 0]
    <3>1. update \in Said
      BY DEF Said
    <3>2. fromAgent' = Append(fromAgent, update) /\ UNCHANGED <<asked, act, msg>>
      BY <1>8 DEF Update
    <3> HIDE DEF update
    <3>3. fromAgent' \in Seq(Said)
      BY <3>1, <3>2, AppendProperties DEF Traffic
    <3> QED
      BY <3>2, <3>3 DEF Traffic
  <2>5. Rows'
    BY <1>8, <2>1, Names DEF Update, At, Shape, Rows, Unannounced, Unborn, RowIsFirst
  <2>6. Channels'
    BY <1>8, <2>1, Names DEF Update, At, Shape, Channels, Awaits, Recorded
  <2> QED
    BY <2>2, <2>3, <2>4, <2>5, <2>6 DEF IInv
<1>9. ASSUME Exit PROVE IInv'
  <2>1. act' = act
    BY <1>9 DEF Exit
  <2>2. Shape'
    BY <1>9, <2>1, Names DEF Exit, Shape
  <2>3. Endings'
    BY <1>9, <2>1, Names DEF Exit, At, Shape, Endings, Ending, Unborn, Fresh, EndsOnce
  <2>4. Traffic'
    BY <1>9, <2>1, Names DEF Exit, At, Shape, Traffic
  <2>5. Rows'
    BY <1>9, <2>1, Names DEF Exit, At, Shape, Rows, Unannounced, Unborn, RowIsFirst
  <2>6. Channels'
    BY <1>9, <2>1, Names DEF Exit, At, Shape, Channels, Awaits, Recorded
  <2> QED
    BY <2>2, <2>3, <2>4, <2>5, <2>6 DEF IInv
<1>10. ASSUME Reap PROVE IInv'
  <2>1. act' = act
    BY <1>10 DEF Reap
  <2>2. Shape'
    BY <1>10, <2>1, Names DEF Reap, Shape
  <2>3. Endings'
    BY <1>10, <2>1, Names DEF Reap, At, Shape, Endings, Ending, Unborn, Fresh, EndsOnce
  <2>4. Traffic'
    BY <1>10, <2>1, Names DEF Reap, At, Shape, Traffic
  <2>5. Rows'
    BY <1>10, <2>1, Names DEF Reap, At, Shape, Rows, Unannounced, Unborn, RowIsFirst
  <2>6. Channels'
    BY <1>10, <2>1, Names DEF Reap, At, Shape, Channels, Awaits, Recorded
  <2> QED
    BY <2>2, <2>3, <2>4, <2>5, <2>6 DEF IInv
<1>11. ASSUME LoopInit PROVE IInv'
  <2>1. act' = act
    BY <1>11 DEF LoopInit, Take
  <2>2. Shape'
    BY <1>11, <2>1, Names DEF LoopInit, Take, Shape
  <2>3. Endings'
    BY <1>11, <2>1, Names
    DEF LoopInit, Take, At, Shape, Endings, Ending, Unborn, Fresh, EndsOnce
  <2>4. Traffic'
    <3>1. fromAgent' \in Seq(Said) /\ UNCHANGED <<act, msg>>
      BY <1>11, HeadTailProperties DEF LoopInit, Take, Traffic
    <3>2. asked' \subseteq asked \cup {Request("new", 1, 0)}
      BY <1>11 DEF LoopInit, Ask
    <3> QED
      BY <3>1, <3>2 DEF Traffic, Request, Methods
  <2>5. Rows'
    BY <1>11, <2>1, Names DEF LoopInit, Take, At, Shape, Rows, Unannounced, Unborn, RowIsFirst
  <2>6. Channels'
    BY <1>11, <2>1, Names DEF LoopInit, Take, At, Shape, Channels, Awaits, Recorded
  <2> QED
    BY <2>2, <2>3, <2>4, <2>5, <2>6 DEF IInv
<1>12. ASSUME LoopSession PROVE IInv'
  <2>1. Moved("loop", "deliver", conv, ready)
    BY <1>12, Holds, Names DEF LoopSession, Take
  <2>2. Shape'
    BY <1>12, <2>1, Names DEF LoopSession, Take, Moved, Shape
  <2>3. Endings'
    <3>1. UNCHANGED <<live, conv, ends, db>>
      BY <1>12 DEF LoopSession
    <3> QED
      BY <2>1, <3>1, Names DEF Moved, At, Shape, Endings, Ending, Unborn, Fresh, EndsOnce
  <2>4. Traffic'
    BY <1>12, <2>1, Names DEF LoopSession, Take, Moved, At, Shape, Traffic
  <2>5. Rows'
    BY <1>12, <2>1, Names
    DEF LoopSession, Take, Moved, At, Shape, Rows, Unannounced, Unborn, RowIsFirst
  <2>6. Channels'
    <3>1. /\ ready' = 0 /\ msg'.m = "new"
          /\ UNCHANGED <<conv, opened, handshakeErr, db>>
      BY <1>12 DEF LoopSession
    <3>2. conv \in Convs /\ conv \in Nat /\ 0 \notin Convs
      BY ConversationsAssumption DEF Shape, Convs
    <3>3. ready \in {0, conv}
      BY DEF Channels
    <3>10. \A c \in opened' : c \in Convs /\ c <= conv' /\ c # ready'
      BY <3>1, <3>2, <3>3 DEF Channels
    <3>11. (act["loop"].at \in {"deliver", "ready"} /\ act["loop"].ch # 0
              => act["loop"].ch \in Convs /\ act["loop"].ch <= conv /\ act["loop"].ch # ready)'
      BY <3>1, <3>2, <3>3, <2>1, Names DEF Moved, Channels
    <3>12. (At("loop", "deliver") /\ act["loop"].ch # 0
              => act["loop"].conv = act["loop"].ch /\ msg.m = "new")'
      BY <3>1, <3>2, <3>3, <2>1, Names DEF Moved, Channels, At
    <3>13. ASSUME NEW c \in Convs, Awaits(c)'
           PROVE  (/\ HasRow(db, c)
                   /\ At("loop", "ready") /\ act["loop"].ch = c => db.acp[c] # 0
                   /\ c \in opened => handshakeErr \/ db.acp[c] # 0)'
      BY <3>1, <3>13, <2>1, Names DEF Moved, Channels, At, Awaits, HasRow
    <3>14. (/\ act["user"].at \in {"wait", "woken", "send"} => act["user"].ch \in Convs \cup {0}
            /\ At("user", "wait") \/ At("user", "woken") => act["user"].ch <= conv
            /\ At("user", "woken") => act["user"].ch = 0 \/ act["user"].ch \in opened)'
      BY <3>1, <3>2, <3>3, <2>1, Names DEF Moved, Channels, At
    <3>15. Recorded'
      BY <3>1, <3>2, <3>3, <2>1, Names DEF Moved, Channels, At, Recorded
    <3> QED
      BY <3>1, <3>2, <3>3, <3>10, <3>11, <3>12, <3>13, <3>14, <3>15 DEF Channels
  <2> QED
    BY <2>2, <2>3, <2>4, <2>5, <2>6 DEF IInv
<1>13. ASSUME LoopError PROVE IInv'
  <2>1. act' = act
    BY <1>13 DEF LoopError, Take
  <2>2. Shape'
    BY <1>13, <2>1, Names DEF LoopError, Take, Shape
  <2>3. Endings'
    BY <1>13, <2>1, Names
    DEF LoopError, Take, At, Shape, Endings, Ending, Unborn, Fresh, EndsOnce
  <2>4. Traffic'
    BY <1>13, <2>1, Names DEF LoopError, Take, At, Shape, Traffic
  <2>5. Rows'
    BY <1>13, <2>1, Names DEF LoopError, Take, At, Shape, Rows, Unannounced, Unborn, RowIsFirst
  <2>6. Channels'
    <3>1. /\ ready' = 0 /\ opened' = opened \cup ({ready} \ {0})
          /\ handshakeErr' = (handshakeErr \/ ready # 0) /\ UNCHANGED <<conv, act, msg, db>>
      BY <1>13 DEF LoopError
    <3>2. conv \in Convs /\ conv \in Nat /\ 0 \notin Convs
      BY ConversationsAssumption DEF Shape, Convs
    <3>3. ready \in {0, conv}
      BY DEF Channels
    <3>10. \A c \in opened' : c \in Convs /\ c <= conv' /\ c # ready'
      BY <3>1, <3>2, <3>3 DEF Channels
    <3>11. (act["loop"].at \in {"deliver", "ready"} /\ act["loop"].ch # 0
              => act["loop"].ch \in Convs /\ act["loop"].ch <= conv /\ act["loop"].ch # ready)'
      BY <3>1, <3>2, <3>3 DEF Channels
    <3>12. (At("loop", "deliver") /\ act["loop"].ch # 0
              => act["loop"].conv = act["loop"].ch /\ msg.m = "new")'
      BY <3>1, <3>2, <3>3 DEF Channels, At
    <3>13. ASSUME NEW c \in Convs, Awaits(c)'
           PROVE  (/\ HasRow(db, c)
                   /\ At("loop", "ready") /\ act["loop"].ch = c => db.acp[c] # 0
                   /\ c \in opened => handshakeErr \/ db.acp[c] # 0)'
      BY <3>1, <3>2, <3>3, <3>13 DEF Channels, At, Awaits, HasRow
    <3>14. (/\ act["user"].at \in {"wait", "woken", "send"} => act["user"].ch \in Convs \cup {0}
            /\ At("user", "wait") \/ At("user", "woken") => act["user"].ch <= conv
            /\ At("user", "woken") => act["user"].ch = 0 \/ act["user"].ch \in opened)'
      BY <3>1, <3>2, <3>3 DEF Channels, At
    <3>15. Recorded'
      BY <3>1, <3>2, <3>3 DEF Channels, At, Recorded
    <3> QED
      BY <3>1, <3>2, <3>3, <3>10, <3>11, <3>12, <3>13, <3>14, <3>15 DEF Channels
  <2> QED
    BY <2>2, <2>3, <2>4, <2>5, <2>6 DEF IInv
<1>14. ASSUME LoopOther PROVE IInv'
  <2>1. Moved("loop", "deliver", conv, 0)
    BY <1>14, Holds, Names DEF LoopOther, Take
  <2>2. Shape'
    BY <1>14, <2>1, Names DEF LoopOther, Take, Moved, Shape
  <2>3. Endings'
    <3>1. UNCHANGED <<live, conv, ends, db>>
      BY <1>14 DEF LoopOther
    <3> QED
      BY <2>1, <3>1, Names DEF Moved, At, Shape, Endings, Ending, Unborn, Fresh, EndsOnce
  <2>4. Traffic'
    BY <1>14, <2>1, Names DEF LoopOther, Take, Moved, At, Shape, Traffic
  <2>5. Rows'
    BY <1>14, <2>1, Names
    DEF LoopOther, Take, Moved, At, Shape, Rows, Unannounced, Unborn, RowIsFirst
  <2>6. Channels'
    BY <1>14, <2>1, Names
    DEF LoopOther, Take, Moved, At, Shape, Channels, Awaits, Recorded
  <2> QED
    BY <2>2, <2>3, <2>4, <2>5, <2>6 DEF IInv
<1>15. ASSUME LoopDeliver PROVE IInv'
  <2>1. CASE msg.m = "new"
    <3>1. Moved("loop", "ready", act["loop"].conv, act["loop"].ch)
      BY <1>15, <2>1, Moves, Names DEF LoopDeliver
    <3>2. Kept(db, db')
      BY <1>15, <2>1, SetACPSessionIDKeeps, InsertLogKeeps, RecordTurnKeeps
      DEF LoopDeliver, Shape, Traffic, Said
    <3>3. Shape'
      BY <1>15, <2>1, <3>1, <3>2, Names DEF LoopDeliver, Moved, Kept, Shape
    <3>4. Endings'
      BY <1>15, <2>1, <3>1, <3>2, Names
      DEF LoopDeliver, Moved, Kept, At, Shape, Endings, Ending, Unborn, Fresh, EndsOnce
    <3>5. Traffic'
      BY <1>15, <2>1, <3>1, <3>2, Names DEF LoopDeliver, Moved, Kept, At, Shape, Traffic
    <3>6. Rows'
      <4>1. ~Unannounced /\ ~Unannounced'
        BY <1>15, <2>1, <3>1, Names
        DEF LoopDeliver, Moved, Rows, Unannounced, Unborn, At
      <4> QED
        BY <3>2, <4>1, First DEF Kept, Rows, RowIsFirst
    <3>7. Channels'
      <4>1. /\ db' = SetACPSessionID(db, act["loop"].conv, msg.sid) /\ act["loop"].at = "deliver"
            /\ UNCHANGED <<conv, ready, opened, handshakeErr, msg>>
        BY <1>15, <2>1 DEF LoopDeliver, At
      <4>2. msg.sid # 0
        BY <1>15, <2>1 DEF Traffic, Said
      <4>3. act["loop"].conv \in Convs /\ HasRow(db, act["loop"].conv)
              => db'.acp[act["loop"].conv] # 0
        BY <4>1, <4>2, SetACPSessionIDKeeps DEF Shape
      <4>4. ready \in {0, conv}
        BY DEF Channels
      <4>10. \A c \in opened' : c \in Convs /\ c <= conv' /\ c # ready'
        BY <4>1, <4>4 DEF Channels
      <4>11. (act["loop"].at \in {"deliver", "ready"} /\ act["loop"].ch # 0
                => act["loop"].ch \in Convs /\ act["loop"].ch <= conv /\ act["loop"].ch # ready)'
        BY <4>1, <4>4, <3>1, Names DEF Moved, Channels
      <4>12. (At("loop", "deliver") /\ act["loop"].ch # 0
                => act["loop"].conv = act["loop"].ch /\ msg.m = "new")'
        BY <4>1, <4>4, <3>1, Names DEF Moved, Channels, At
      <4>13. ASSUME NEW c \in Convs, Awaits(c)'
             PROVE  (/\ HasRow(db, c)
                     /\ At("loop", "ready") /\ act["loop"].ch = c => db.acp[c] # 0
                     /\ c \in opened => handshakeErr \/ db.acp[c] # 0)'
        <5>1. Awaits(c) /\ HasRow(db, c)
          BY <4>13, <3>1, Names DEF Moved, Channels, Awaits
        <5>2. HasRow(db', c) /\ (db.acp[c] # 0 => db'.acp[c] # 0)
          BY <5>1, <3>2 DEF Kept
        <5>3. act["loop"].ch = c => db'.acp[c] # 0
          <6>1. ASSUME act["loop"].ch = c PROVE act["loop"].conv = c
            BY <6>1, <4>1, ConversationsAssumption DEF Channels, At, Convs
          <6> QED
            BY <6>1, <5>1, <4>3
        <5> QED
          BY <4>1, <5>1, <5>2, <5>3, <3>1, Names DEF Moved, Channels, At
      <4>14. (/\ act["user"].at \in {"wait", "woken", "send"} => act["user"].ch \in Convs \cup {0}
              /\ At("user", "wait") \/ At("user", "woken") => act["user"].ch <= conv
              /\ At("user", "woken") => act["user"].ch = 0 \/ act["user"].ch \in opened)'
        BY <4>1, <4>4, <3>1, Names DEF Moved, Channels, At
      <4>15. Recorded'
        BY <4>1, <4>4, <3>1, <3>2, Names DEF Moved, Kept, Channels, At, Recorded
      <4> QED
        BY <4>1, <4>4, <4>10, <4>11, <4>12, <4>13, <4>14, <4>15 DEF Channels
    <3> QED
      BY <3>3, <3>4, <3>5, <3>6, <3>7 DEF IInv
  <2>2. CASE msg.m # "new"
    <3>1. Moved("loop", "idle", act["loop"].conv, act["loop"].ch)
      BY <1>15, <2>2, Moves, Names DEF LoopDeliver
    <3>2. Kept(db, db')
      BY <1>15, <2>2, SetACPSessionIDKeeps, InsertLogKeeps, RecordTurnKeeps
      DEF LoopDeliver, Shape, Traffic, Said
    <3>3. Shape'
      BY <1>15, <2>2, <3>1, <3>2, Names DEF LoopDeliver, Moved, Kept, Shape
    <3>4. Endings'
      BY <1>15, <2>2, <3>1, <3>2, Names
      DEF LoopDeliver, Moved, Kept, At, Shape, Endings, Ending, Unborn, Fresh, EndsOnce
    <3>5. Traffic'
      BY <1>15, <2>2, <3>1, <3>2, Names DEF LoopDeliver, Moved, Kept, At, Shape, Traffic
    <3>6. Rows'
      <4>1. ~Unannounced /\ ~Unannounced'
        BY <1>15, <2>2, <3>1, Names
        DEF LoopDeliver, Moved, Rows, Unannounced, Unborn, At
      <4> QED
        BY <3>2, <4>1, First DEF Kept, Rows, RowIsFirst
    <3>7. Channels'
      BY <1>15, <2>2, <3>1, <3>2, Names
      DEF LoopDeliver, Moved, Kept, At, Shape, Channels, Awaits, Recorded
    <3> QED
      BY <3>3, <3>4, <3>5, <3>6, <3>7 DEF IInv
  <2> QED
    BY <1>15, <2>1, <2>2 DEF LoopDeliver
<1>16. ASSUME LoopReady PROVE IInv'
  <2>1. Moved("loop", "idle", act["loop"].conv, act["loop"].ch)
    BY <1>16, Moves, Names DEF LoopReady
  <2>2. Shape'
    BY <1>16, <2>1, Names DEF LoopReady, Moved, Shape
  <2>3. Endings'
    BY <1>16, <2>1, Names
    DEF LoopReady, Moved, At, Shape, Endings, Ending, Unborn, Fresh, EndsOnce
  <2>4. Traffic'
    BY <1>16, <2>1, Names DEF LoopReady, Moved, At, Shape, Traffic
  <2>5. Rows'
    BY <1>16, <2>1, Names DEF LoopReady, Moved, At, Shape, Rows, Unannounced, Unborn, RowIsFirst
  <2>6. Channels'
    BY <1>16, <2>1, Names DEF LoopReady, Moved, At, Shape, Channels, Awaits, Recorded
  <2> QED
    BY <2>2, <2>3, <2>4, <2>5, <2>6 DEF IInv
<1>17. ASSUME NEW c \in Convs, UserWaits(c) PROVE IInv'
  <2>1. CASE ready = 0
    <3>1. Moved("user", "woken", c, ready)
      BY <1>17, <2>1, Holds, Names DEF UserWaits
    <3>2. Shape'
      BY <1>17, <2>1, <3>1, Names DEF UserWaits, Moved, Shape
    <3>3. Endings'
      BY <1>17, <2>1, <3>1, Names
      DEF UserWaits, Moved, At, Shape, Endings, Ending, Unborn, Fresh, EndsOnce
    <3>4. Traffic'
      BY <1>17, <2>1, <3>1, Names DEF UserWaits, Moved, At, Shape, Traffic
    <3>5. Rows'
      <4>1. ~Unannounced /\ ~Unannounced'
        BY <1>17, <2>1, <3>1, Names
        DEF UserWaits, Moved, Rows, Unannounced, Unborn, At, Known
      <4>2. UNCHANGED db
        BY <1>17, <2>1 DEF UserWaits
      <4> QED
        BY <4>1, <4>2 DEF Rows, RowIsFirst
    <3>6. Channels'
      <4>1. /\ conv = c /\ HasRow(db, c) /\ c \in Nat /\ 0 \notin Convs
            /\ UNCHANGED <<conv, ready, opened, handshakeErr, msg, db>>
        BY <1>17, <2>1 DEF UserWaits, Known, Registered, Convs
      <4> QED
        BY <1>17, <2>1, <3>1, <4>1, Names DEF Moved, At, Channels, Awaits, Recorded
    <3> QED
      BY <3>2, <3>3, <3>4, <3>5, <3>6 DEF IInv
  <2>2. CASE ready # 0
    <3>1. Moved("user", "wait", c, ready)
      BY <1>17, <2>2, Holds, Names DEF UserWaits
    <3>2. Shape'
      BY <1>17, <2>2, <3>1, Names DEF UserWaits, Moved, Shape
    <3>3. Endings'
      BY <1>17, <2>2, <3>1, Names
      DEF UserWaits, Moved, At, Shape, Endings, Ending, Unborn, Fresh, EndsOnce
    <3>4. Traffic'
      BY <1>17, <2>2, <3>1, Names DEF UserWaits, Moved, At, Shape, Traffic
    <3>5. Rows'
      <4>1. ~Unannounced /\ ~Unannounced'
        BY <1>17, <2>2, <3>1, Names
        DEF UserWaits, Moved, Rows, Unannounced, Unborn, At, Known
      <4>2. UNCHANGED db
        BY <1>17, <2>2 DEF UserWaits
      <4> QED
        BY <4>1, <4>2 DEF Rows, RowIsFirst
    <3>6. Channels'
      <4>1. /\ conv = c /\ HasRow(db, c) /\ c \in Nat /\ 0 \notin Convs
            /\ UNCHANGED <<conv, ready, opened, handshakeErr, msg, db>>
        BY <1>17, <2>2 DEF UserWaits, Known, Registered, Convs
      <4> QED
        BY <1>17, <2>2, <3>1, <4>1, Names DEF Moved, At, Channels, Awaits, Recorded
    <3> QED
      BY <3>2, <3>3, <3>4, <3>5, <3>6 DEF IInv
  <2> QED
    BY <1>17, <2>1, <2>2 DEF UserWaits
<1>18. ASSUME NEW c \in Convs, Restart(c) PROVE IInv'
  <2>1. Moved("restart", "announce", conv + 1, conv)
    BY <1>18, Holds, Names DEF Restart, Registered
  <2>2. Shape'
    BY <1>18, <2>1, Names, ConversationsAssumption DEF Restart, Moved, Shape
  <2>3. Endings'
    <3>1. live /\ ~Unborn /\ Fresh(conv) /\ conv \in Convs /\ conv \in Nat
      BY <1>18, ConversationsAssumption DEF Restart, Registered, Endings, Fresh, Shape, Convs
    <3>2. conv' = conv + 1 /\ UNCHANGED <<live, ends, db>>
      BY <1>18 DEF Restart
    <3>3. ~Unborn'
      BY <2>1, <3>1, Names DEF Moved, Unborn
    <3>4. \A x \in Convs : Fresh(x)' => Fresh(x) /\ x # conv
      BY <3>1, <3>2, <3>3 DEF Fresh, Convs
    <3>5. \A b \in Actors, x \in Convs :
           Ending(b, x)' => Ending(b, x) \/ (b = "restart" /\ x = conv)
      BY <2>1, Names DEF Moved, Ending, At
    <3>6. \A b \in Actors : ~Ending(b, conv)
      BY <3>1 DEF Endings
    <3>7. \A x \in Convs : Fresh(x) => ends[x] = 0 /\ x \notin db.finished
      BY DEF Endings
    <3>8. \A b \in Actors, x \in Convs : Ending(b, x)' => ~Fresh(x)' /\ ends'[x] = 0
      BY <3>1, <3>2, <3>4, <3>5, <3>7 DEF Endings
    <3>9. \A b, d \in Actors, x \in Convs : Ending(b, x)' /\ Ending(d, x)' => b = d
      BY <3>5, <3>6 DEF Endings
    <3> QED
      BY <3>2, <3>3, <3>4, <3>7, <3>8, <3>9 DEF Endings, EndsOnce
  <2>4. Traffic'
    BY <1>18, <2>1, Names DEF Restart, Registered, Moved, At, Shape, Traffic
  <2>5. Rows'
    <3>1. ~Unannounced /\ ~Unannounced'
      BY <1>18, <2>1, Names
      DEF Restart, Moved, Rows, Unannounced, Unborn, At, Known, Registered, Endings, Shape
    <3>2. UNCHANGED db
      BY <1>18 DEF Restart
    <3> QED
      BY <3>1, <3>2 DEF Rows, RowIsFirst
  <2>6. Channels'
    <3>1. /\ conv' = conv + 1 /\ ready' = conv + 1 /\ conv \in Nat
          /\ UNCHANGED <<opened, handshakeErr, msg, db>>
      BY <1>18 DEF Restart, Shape
    <3>2. \A c1 \in Convs : c1 \in Nat
      BY DEF Convs
    <3> QED
      BY <2>1, <3>1, <3>2, Names DEF Moved, At, Channels, Awaits, Recorded
  <2> QED
    BY <2>2, <2>3, <2>4, <2>5, <2>6 DEF IInv
<1>19. ASSUME NEW c \in Convs, Stop(c) PROVE IInv'
  <2>1. Moved("stop", "delete", c, 0)
    BY <1>19, Holds, Names DEF Stop
  <2>2. Shape'
    BY <1>19, <2>1, Names DEF Stop, Moved, Shape
  <2>3. Endings'
    BY <1>19, <2>1, Names DEF Stop, Moved, At, Shape, Endings, Ending, Unborn, Fresh, EndsOnce
  <2>4. Traffic'
    BY <1>19, <2>1, Names DEF Stop, Moved, At, Shape, Traffic
  <2>5. Rows'
    BY <1>19, <2>1, Names DEF Stop, Moved, At, Shape, Rows, Unannounced, Unborn, RowIsFirst
  <2>6. Channels'
    BY <1>19, <2>1, Names DEF Stop, Moved, At, Shape, Channels, Awaits, Recorded
  <2> QED
    BY <2>2, <2>3, <2>4, <2>5, <2>6 DEF IInv
<1>20. ASSUME UserWakes PROVE IInv'
  <2>1. CASE Wakes("user")
    <3>1. Moved("user", "woken", act["user"].conv, act["user"].ch)
      BY <1>20, <2>1, Moves, Names DEF UserWakes, Wakes
    <3>2. Shape'
      BY <1>20, <2>1, <3>1, Names DEF UserWakes, Wakes, Moved, Shape
    <3>3. Endings'
      BY <1>20, <2>1, <3>1, Names
      DEF UserWakes, Wakes, Moved, At, Shape, Endings, Ending, Unborn, Fresh, EndsOnce
    <3>4. Traffic'
      BY <1>20, <2>1, <3>1, Names DEF UserWakes, Wakes, Moved, At, Shape, Traffic
    <3>5. Rows'
      BY <1>20, <2>1, <3>1, Names
      DEF UserWakes, Wakes, Moved, At, Shape, Rows, Unannounced, Unborn, RowIsFirst
    <3>6. Channels'
      BY <1>20, <2>1, <3>1, Names
      DEF UserWakes, Wakes, Moved, At, Shape, Channels, Awaits, Recorded
    <3> QED
      BY <3>2, <3>3, <3>4, <3>5, <3>6 DEF IInv
  <2>2. CASE GivesUp("user")
    <3>1. Moved("user", "idle", act["user"].conv, act["user"].ch)
      BY <1>20, <2>2, Moves, Names DEF UserWakes, GivesUp
    <3>2. Shape'
      BY <1>20, <2>2, <3>1, Names DEF UserWakes, GivesUp, Moved, Shape
    <3>3. Endings'
      BY <1>20, <2>2, <3>1, Names
      DEF UserWakes, GivesUp, Moved, At, Shape, Endings, Ending, Unborn, Fresh, EndsOnce
    <3>4. Traffic'
      BY <1>20, <2>2, <3>1, Names DEF UserWakes, GivesUp, Moved, At, Shape, Traffic
    <3>5. Rows'
      BY <1>20, <2>2, <3>1, Names
      DEF UserWakes, GivesUp, Moved, At, Shape, Rows, Unannounced, Unborn, RowIsFirst
    <3>6. Channels'
      BY <1>20, <2>2, <3>1, Names
      DEF UserWakes, GivesUp, Moved, At, Shape, Channels, Awaits, Recorded
    <3> QED
      BY <3>2, <3>3, <3>4, <3>5, <3>6 DEF IInv
  <2> QED
    BY <1>20, <2>1, <2>2 DEF UserWakes, GivesUp, Wakes
<1>21. ASSUME UserReady PROVE IInv'
  <2>1. CASE handshakeErr
    <3>1. Moved("user", "idle", act["user"].conv, act["user"].ch)
      BY <1>21, <2>1, Moves, Names DEF UserReady
    <3>2. Shape'
      BY <1>21, <2>1, <3>1, Names DEF UserReady, Moved, Shape
    <3>3. Endings'
      BY <1>21, <2>1, <3>1, Names
      DEF UserReady, Moved, At, Shape, Endings, Ending, Unborn, Fresh, EndsOnce
    <3>4. Traffic'
      BY <1>21, <2>1, <3>1, Names DEF UserReady, Moved, At, Shape, Traffic
    <3>5. Rows'
      BY <1>21, <2>1, <3>1, Names
      DEF UserReady, Moved, At, Shape, Rows, Unannounced, Unborn, RowIsFirst
    <3>6. Channels'
      BY <1>21, <2>1, <3>1, Names
      DEF UserReady, Moved, At, Shape, Channels, Awaits, Recorded
    <3> QED
      BY <3>2, <3>3, <3>4, <3>5, <3>6 DEF IInv
  <2>2. CASE ~handshakeErr
    <3>1. Moved("user", "send", conv, act["user"].ch)
      BY <1>21, <2>2, Holds, Names DEF UserReady
    <3>2. Shape'
      BY <1>21, <2>2, <3>1, Names DEF UserReady, Moved, Shape
    <3>3. Endings'
      BY <1>21, <2>2, <3>1, Names
      DEF UserReady, Moved, At, Shape, Endings, Ending, Unborn, Fresh, EndsOnce
    <3>4. Traffic'
      BY <1>21, <2>2, <3>1, Names DEF UserReady, Moved, At, Shape, Traffic
    <3>5. Rows'
      BY <1>21, <2>2, <3>1, Names
      DEF UserReady, Moved, At, Shape, Rows, Unannounced, Unborn, RowIsFirst
    <3>6. Channels'
      BY <1>21, <2>2, <3>1, Names
      DEF UserReady, Moved, At, Shape, Channels, Awaits, Recorded
    <3> QED
      BY <3>2, <3>3, <3>4, <3>5, <3>6 DEF IInv
  <2> QED
    BY <1>21, <2>1, <2>2 DEF UserReady
<1>22. ASSUME UserSends PROVE IInv'
  <2>1. CASE Registered(act["user"].conv)
    <3>1. Moved("user", "echo", act["user"].conv, act["user"].ch)
      BY <1>22, <2>1, Moves, Names DEF UserSends
    <3>2. Shape'
      BY <1>22, <2>1, <3>1, Names DEF UserSends, Moved, Shape
    <3>3. Endings'
      BY <1>22, <2>1, <3>1, Names
      DEF UserSends, Moved, At, Shape, Endings, Ending, Unborn, Fresh, EndsOnce
    <3>4. Traffic'
      BY <1>22, <2>1, <3>1, Names DEF UserSends, Moved, At, Shape, Traffic
    <3>5. Rows'
      BY <1>22, <2>1, <3>1, Names
      DEF UserSends, Moved, At, Shape, Rows, Unannounced, Unborn, RowIsFirst
    <3>6. Channels'
      BY <1>22, <2>1, <3>1, Names
      DEF UserSends, Moved, At, Shape, Channels, Awaits, Recorded
    <3> QED
      BY <3>2, <3>3, <3>4, <3>5, <3>6 DEF IInv
  <2>2. CASE ~Registered(act["user"].conv)
    <3>1. Moved("user", "idle", act["user"].conv, act["user"].ch)
      BY <1>22, <2>2, Moves, Names DEF UserSends
    <3>2. Shape'
      BY <1>22, <2>2, <3>1, Names DEF UserSends, Moved, Shape
    <3>3. Endings'
      BY <1>22, <2>2, <3>1, Names
      DEF UserSends, Moved, At, Shape, Endings, Ending, Unborn, Fresh, EndsOnce
    <3>4. Traffic'
      BY <1>22, <2>2, <3>1, Names DEF UserSends, Moved, At, Shape, Traffic
    <3>5. Rows'
      BY <1>22, <2>2, <3>1, Names
      DEF UserSends, Moved, At, Shape, Rows, Unannounced, Unborn, RowIsFirst
    <3>6. Channels'
      BY <1>22, <2>2, <3>1, Names
      DEF UserSends, Moved, At, Shape, Channels, Awaits, Recorded
    <3> QED
      BY <3>2, <3>3, <3>4, <3>5, <3>6 DEF IInv
  <2> QED
    BY <1>22, <2>1, <2>2 DEF UserSends
<1>23. ASSUME UserEchoes PROVE IInv'
  <2>1. Moved("user", "ask", act["user"].conv, act["user"].ch)
    BY <1>23, Moves, Names DEF UserEchoes
  <2>2. Kept(db, db')
    BY <1>23, RecordTurnKeeps DEF UserEchoes, Shape, Traffic, Said
  <2>3. Shape'
    BY <1>23, <2>1, <2>2, Names DEF UserEchoes, Moved, Kept, Shape
  <2>4. Endings'
    BY <1>23, <2>1, <2>2, Names
    DEF UserEchoes, Moved, Kept, At, Shape, Endings, Ending, Unborn, Fresh, EndsOnce
  <2>5. Traffic'
    BY <1>23, <2>1, <2>2, Names DEF UserEchoes, Moved, Kept, At, Shape, Traffic
  <2>6. Rows'
    <3>1. ~Unannounced /\ ~Unannounced'
      BY <1>23, <2>1, Names
      DEF UserEchoes, Moved, Rows, Unannounced, Unborn, At
    <3> QED
      BY <2>2, <3>1, First DEF Kept, Rows, RowIsFirst
  <2>7. Channels'
    BY <1>23, <2>1, <2>2, Names
    DEF UserEchoes, Moved, Kept, At, Shape, Channels, Awaits, Recorded
  <2> QED
    BY <2>3, <2>4, <2>5, <2>6, <2>7 DEF IInv
<1>24. ASSUME UserAsks PROVE IInv'
  <2>1. Moved("user", "idle", act["user"].conv, act["user"].ch)
    BY <1>24, Moves, Names DEF UserAsks
  <2>2. Shape'
    BY <1>24, <2>1, Names DEF UserAsks, Moved, Shape
  <2>3. Endings'
    BY <1>24, <2>1, Names
    DEF UserAsks, Moved, At, Shape, Endings, Ending, Unborn, Fresh, EndsOnce
  <2>4. Traffic'
    BY <1>24, <2>1, Names DEF UserAsks, Ask, Request, Methods, Moved, At, Traffic
  <2>5. Rows'
    BY <1>24, <2>1, Names DEF UserAsks, Moved, At, Shape, Rows, Unannounced, Unborn, RowIsFirst
  <2>6. Channels'
    BY <1>24, <2>1, Names DEF UserAsks, Moved, At, Shape, Channels, Awaits, Recorded
  <2> QED
    BY <2>2, <2>3, <2>4, <2>5, <2>6 DEF IInv
<1>25. ASSUME RestartAnnounce PROVE IInv'
  <2>1. Moved("restart", "ask", act["restart"].conv, act["restart"].ch)
    BY <1>25, Moves, Names DEF RestartAnnounce
  <2>2. Kept(db, db')
    BY <1>25, InsertSessionKeeps DEF RestartAnnounce, Shape, Traffic, Said
  <2>3. Shape'
    BY <1>25, <2>1, <2>2, Names DEF RestartAnnounce, Moved, Kept, Shape
  <2>4. Endings'
    BY <1>25, <2>1, <2>2, Names
    DEF RestartAnnounce, Moved, Kept, At, Shape, Endings, Ending, Unborn, Fresh, EndsOnce
  <2>5. Traffic'
    BY <1>25, <2>1, <2>2, Names DEF RestartAnnounce, Moved, Kept, At, Shape, Traffic
  <2>6. Rows'
    <3>1. ~Unannounced /\ ~Unannounced'
      BY <1>25, <2>1, Names
      DEF RestartAnnounce, Moved, Rows, Unannounced, Unborn, At
    <3> QED
      BY <2>2, <3>1, First DEF Kept, Rows, RowIsFirst
  <2>7. Channels'
    BY <1>25, <2>1, <2>2, Names
    DEF RestartAnnounce, Moved, Kept, At, Shape, Channels, Awaits, Recorded
  <2> QED
    BY <2>3, <2>4, <2>5, <2>6, <2>7 DEF IInv
<1>26. ASSUME RestartAsk PROVE IInv'
  <2>1. CASE CanSend
    <3>1. Moved("restart", "look", act["restart"].conv, act["restart"].ch)
      BY <1>26, <2>1, Moves, Names DEF RestartAsk
    <3>2. Shape'
      BY <1>26, <2>1, <3>1, Names DEF RestartAsk, Moved, Shape
    <3>3. Endings'
      BY <1>26, <2>1, <3>1, Names
      DEF RestartAsk, Moved, At, Shape, Endings, Ending, Unborn, Fresh, EndsOnce
    <3>4. Traffic'
      BY <1>26, <2>1, <3>1, Names DEF RestartAsk, Ask, Request, Methods, Moved, At, Traffic
    <3>5. Rows'
      BY <1>26, <2>1, <3>1, Names
      DEF RestartAsk, Moved, At, Shape, Rows, Unannounced, Unborn, RowIsFirst
    <3>6. Channels'
      BY <1>26, <2>1, <3>1, Names
      DEF RestartAsk, Moved, At, Shape, Channels, Awaits, Recorded
    <3> QED
      BY <3>2, <3>3, <3>4, <3>5, <3>6 DEF IInv
  <2>2. CASE ~CanSend
    <3>1. Moved("restart", "idle", act["restart"].conv, act["restart"].ch)
      BY <1>26, <2>2, Moves, Names DEF RestartAsk
    <3>2. Shape'
      BY <1>26, <2>2, <3>1, Names DEF RestartAsk, Moved, Shape
    <3>3. Endings'
      BY <1>26, <2>2, <3>1, Names
      DEF RestartAsk, Moved, At, Shape, Endings, Ending, Unborn, Fresh, EndsOnce
    <3>4. Traffic'
      BY <1>26, <2>2, <3>1, Names DEF RestartAsk, Ask, Request, Methods, Moved, At, Traffic
    <3>5. Rows'
      BY <1>26, <2>2, <3>1, Names
      DEF RestartAsk, Moved, At, Shape, Rows, Unannounced, Unborn, RowIsFirst
    <3>6. Channels'
      BY <1>26, <2>2, <3>1, Names
      DEF RestartAsk, Moved, At, Shape, Channels, Awaits, Recorded
    <3> QED
      BY <3>2, <3>3, <3>4, <3>5, <3>6 DEF IInv
  <2> QED
    BY <1>26, <2>1, <2>2 DEF RestartAsk
<1>27. ASSUME RestartLooks PROVE IInv'
  <2>1. CASE ~Registered(act["restart"].conv)
    <3>1. Moved("restart", "idle", act["restart"].conv, act["restart"].ch)
      BY <1>27, <2>1, Moves, Names DEF RestartLooks
    <3>2. Shape'
      BY <1>27, <2>1, <3>1, Names DEF RestartLooks, Moved, Shape
    <3>3. Endings'
      BY <1>27, <2>1, <3>1, Names
      DEF RestartLooks, Moved, At, Shape, Endings, Ending, Unborn, Fresh, EndsOnce
    <3>4. Traffic'
      BY <1>27, <2>1, <3>1, Names DEF RestartLooks, Moved, At, Shape, Traffic
    <3>5. Rows'
      BY <1>27, <2>1, <3>1, Names
      DEF RestartLooks, Moved, At, Shape, Rows, Unannounced, Unborn, RowIsFirst
    <3>6. Channels'
      BY <1>27, <2>1, <3>1, Names
      DEF RestartLooks, Moved, At, Shape, Channels, Awaits, Recorded
    <3> QED
      BY <3>2, <3>3, <3>4, <3>5, <3>6 DEF IInv
  <2>2. CASE Registered(act["restart"].conv) /\ ready = 0
    <3>1. Moved("restart", "woken", act["restart"].conv, act["restart"].ch)
      BY <1>27, <2>2, Moves, Names DEF RestartLooks
    <3>2. Shape'
      BY <1>27, <2>2, <3>1, Names DEF RestartLooks, Moved, Shape
    <3>3. Endings'
      BY <1>27, <2>2, <3>1, Names
      DEF RestartLooks, Moved, At, Shape, Endings, Ending, Unborn, Fresh, EndsOnce
    <3>4. Traffic'
      BY <1>27, <2>2, <3>1, Names DEF RestartLooks, Moved, At, Shape, Traffic
    <3>5. Rows'
      BY <1>27, <2>2, <3>1, Names
      DEF RestartLooks, Moved, At, Shape, Rows, Unannounced, Unborn, RowIsFirst
    <3>6. Channels'
      BY <1>27, <2>2, <3>1, Names
      DEF RestartLooks, Moved, At, Shape, Channels, Awaits, Recorded
    <3> QED
      BY <3>2, <3>3, <3>4, <3>5, <3>6 DEF IInv
  <2>3. CASE Registered(act["restart"].conv) /\ ready # 0
    <3>1. Moved("restart", "wait", act["restart"].conv, act["restart"].ch)
      BY <1>27, <2>3, Moves, Names DEF RestartLooks
    <3>2. Shape'
      BY <1>27, <2>3, <3>1, Names DEF RestartLooks, Moved, Shape
    <3>3. Endings'
      BY <1>27, <2>3, <3>1, Names
      DEF RestartLooks, Moved, At, Shape, Endings, Ending, Unborn, Fresh, EndsOnce
    <3>4. Traffic'
      BY <1>27, <2>3, <3>1, Names DEF RestartLooks, Moved, At, Shape, Traffic
    <3>5. Rows'
      BY <1>27, <2>3, <3>1, Names
      DEF RestartLooks, Moved, At, Shape, Rows, Unannounced, Unborn, RowIsFirst
    <3>6. Channels'
      BY <1>27, <2>3, <3>1, Names
      DEF RestartLooks, Moved, At, Shape, Channels, Awaits, Recorded
    <3> QED
      BY <3>2, <3>3, <3>4, <3>5, <3>6 DEF IInv
  <2> QED
    BY <1>27, <2>1, <2>2, <2>3 DEF RestartLooks
<1>28. ASSUME RestartWakes PROVE IInv'
  <2>1. CASE Goto("restart", "woken")
    <3>1. Moved("restart", "woken", act["restart"].conv, act["restart"].ch)
      BY <1>28, <2>1, Moves, Names DEF RestartWakes
    <3>2. Shape'
      BY <1>28, <2>1, <3>1, Names DEF RestartWakes, Moved, Shape
    <3>3. Endings'
      BY <1>28, <2>1, <3>1, Names
      DEF RestartWakes, Moved, At, Shape, Endings, Ending, Unborn, Fresh, EndsOnce
    <3>4. Traffic'
      BY <1>28, <2>1, <3>1, Names DEF RestartWakes, Moved, At, Shape, Traffic
    <3>5. Rows'
      BY <1>28, <2>1, <3>1, Names
      DEF RestartWakes, Moved, At, Shape, Rows, Unannounced, Unborn, RowIsFirst
    <3>6. Channels'
      BY <1>28, <2>1, <3>1, Names
      DEF RestartWakes, Moved, At, Shape, Channels, Awaits, Recorded
    <3> QED
      BY <3>2, <3>3, <3>4, <3>5, <3>6 DEF IInv
  <2>2. CASE GivesUp("restart")
    <3>1. Moved("restart", "idle", act["restart"].conv, act["restart"].ch)
      BY <1>28, <2>2, Moves, Names DEF RestartWakes, GivesUp
    <3>2. Shape'
      BY <1>28, <2>2, <3>1, Names DEF RestartWakes, GivesUp, Moved, Shape
    <3>3. Endings'
      BY <1>28, <2>2, <3>1, Names
      DEF RestartWakes, GivesUp, Moved, At, Shape, Endings, Ending, Unborn, Fresh, EndsOnce
    <3>4. Traffic'
      BY <1>28, <2>2, <3>1, Names DEF RestartWakes, GivesUp, Moved, At, Shape, Traffic
    <3>5. Rows'
      BY <1>28, <2>2, <3>1, Names
      DEF RestartWakes, GivesUp, Moved, At, Shape, Rows, Unannounced, Unborn, RowIsFirst
    <3>6. Channels'
      BY <1>28, <2>2, <3>1, Names
      DEF RestartWakes, GivesUp, Moved, At, Shape, Channels, Awaits, Recorded
    <3> QED
      BY <3>2, <3>3, <3>4, <3>5, <3>6 DEF IInv
  <2> QED
    BY <1>28, <2>1, <2>2 DEF RestartWakes, GivesUp, Wakes
<1>29. ASSUME RestartReady PROVE IInv'
  <2>1. CASE handshakeErr
    <3>1. Moved("restart", "idle", act["restart"].conv, act["restart"].ch)
      BY <1>29, <2>1, Moves, Names DEF RestartReady
    <3>2. Shape'
      BY <1>29, <2>1, <3>1, Names DEF RestartReady, Moved, Shape
    <3>3. Endings'
      BY <1>29, <2>1, <3>1, Names
      DEF RestartReady, Moved, At, Shape, Endings, Ending, Unborn, Fresh, EndsOnce
    <3>4. Traffic'
      BY <1>29, <2>1, <3>1, Names DEF RestartReady, Moved, At, Shape, Traffic
    <3>5. Rows'
      BY <1>29, <2>1, <3>1, Names
      DEF RestartReady, Moved, At, Shape, Rows, Unannounced, Unborn, RowIsFirst
    <3>6. Channels'
      BY <1>29, <2>1, <3>1, Names
      DEF RestartReady, Moved, At, Shape, Channels, Awaits, Recorded
    <3> QED
      BY <3>2, <3>3, <3>4, <3>5, <3>6 DEF IInv
  <2>2. CASE ~handshakeErr
    <3>1. Moved("restart", "replace", act["restart"].conv, act["restart"].ch)
      BY <1>29, <2>2, Moves, Names DEF RestartReady
    <3>2. Shape'
      BY <1>29, <2>2, <3>1, Names DEF RestartReady, Moved, Shape
    <3>3. Endings'
      BY <1>29, <2>2, <3>1, Names
      DEF RestartReady, Moved, At, Shape, Endings, Ending, Unborn, Fresh, EndsOnce
    <3>4. Traffic'
      BY <1>29, <2>2, <3>1, Names DEF RestartReady, Moved, At, Shape, Traffic
    <3>5. Rows'
      BY <1>29, <2>2, <3>1, Names
      DEF RestartReady, Moved, At, Shape, Rows, Unannounced, Unborn, RowIsFirst
    <3>6. Channels'
      BY <1>29, <2>2, <3>1, Names
      DEF RestartReady, Moved, At, Shape, Channels, Awaits, Recorded
    <3> QED
      BY <3>2, <3>3, <3>4, <3>5, <3>6 DEF IInv
  <2> QED
    BY <1>29, <2>1, <2>2 DEF RestartReady
<1>30. ASSUME RestartReplaces PROVE IInv'
  <2>1. Moved("restart", "idle", act["restart"].conv, act["restart"].ch)
    BY <1>30, Moves, Names DEF RestartReplaces
  <2>2. Finished(db, db', act["restart"].ch)
    BY <1>30, FinishSessionKeeps DEF RestartReplaces, Shape
  <2>3. Shape'
    <3>1. ends' \in [Convs -> Nat]
      BY <1>30, Counts DEF RestartReplaces, Shape
    <3>2. UNCHANGED <<restarts, conv, live>>
      BY <1>30 DEF RestartReplaces
    <3> QED
      BY <2>1, <2>2, <3>1, <3>2 DEF Moved, Finished, Shape
  <2>4. Endings'
    <3> DEFINE c == act["restart"].ch
    <3>1. Ending("restart", c) /\ "restart" \in Actors
      BY <1>30, Names DEF RestartReplaces, Ending, At
    <3>2. /\ UNCHANGED <<live, conv>>
          /\ \A x \in Convs : ends'[x] = IF x = c THEN ends[x] + 1 ELSE ends[x]
      BY <1>30, Counts DEF RestartReplaces, Shape
    <3>3. \A b \in Actors, x \in Convs : Ending(b, x)' => Ending(b, x) /\ b # "restart"
      BY <1>30, <2>1, Names DEF RestartReplaces, Moved, Ending, At
    <3>4. Unborn' <=> Unborn
      BY <1>30, <2>1, Names DEF RestartReplaces, Moved, Unborn, At
    <3>5. \A x \in Convs : Fresh(x)' <=> Fresh(x)
      BY <3>2, <3>4 DEF Fresh
    <3> HIDE DEF c
    <3>6. \A x \in Convs : Fresh(x) => x # c
      BY <3>1 DEF Endings
    <3>7. \A b \in Actors, x \in Convs : Ending(b, x)' => x # c
      BY <3>1, <3>3 DEF Endings
    <3>8. \A x \in Convs : Fresh(x)' => ends'[x] = 0 /\ x \notin db'.finished
      BY <2>2, <3>2, <3>5, <3>6 DEF Endings, Finished, c
    <3>9. \A b \in Actors, x \in Convs : Ending(b, x)' => ~Fresh(x)' /\ ends'[x] = 0
      BY <3>2, <3>3, <3>5, <3>7 DEF Endings
    <3>10. \A x \in Convs : ends'[x] <= 1
      BY <3>1, <3>2 DEF Endings, EndsOnce, Shape
    <3> QED
      BY <3>2, <3>3, <3>4, <3>8, <3>9, <3>10 DEF Endings, EndsOnce
  <2>5. Traffic'
    BY <1>30, <2>1, <2>2, Names DEF RestartReplaces, Moved, Finished, At, Shape, Traffic
  <2>6. Rows'
    <3>1. ~Unannounced /\ ~Unannounced'
      BY <1>30, <2>1, Names
      DEF RestartReplaces, Moved, Rows, Unannounced, Unborn, At
    <3> QED
      BY <2>2, <3>1, First DEF Finished, Rows, RowIsFirst
  <2>7. Channels'
    BY <1>30, <2>1, <2>2, Names
    DEF RestartReplaces, Moved, Finished, At, Shape, Channels, Awaits, Recorded
  <2> QED
    BY <2>3, <2>4, <2>5, <2>6, <2>7 DEF IInv
<1>31. ASSUME WatchSees PROVE IInv'
  <2>1. CASE Holding("watch", "delete", conv, 0)
    <3>1. Moved("watch", "delete", conv, 0)
      BY <1>31, <2>1, Holds, Names DEF WatchSees
    <3>2. Shape'
      BY <1>31, <2>1, <3>1, Names DEF WatchSees, Moved, Shape
    <3>3. Endings'
      BY <1>31, <2>1, <3>1, Names
      DEF WatchSees, Moved, At, Shape, Endings, Ending, Unborn, Fresh, EndsOnce
    <3>4. Traffic'
      BY <1>31, <2>1, <3>1, Names DEF WatchSees, Moved, At, Shape, Traffic
    <3>5. Rows'
      BY <1>31, <2>1, <3>1, Names
      DEF WatchSees, Moved, At, Shape, Rows, Unannounced, Unborn, RowIsFirst
    <3>6. Channels'
      BY <1>31, <2>1, <3>1, Names
      DEF WatchSees, Moved, At, Shape, Channels, Awaits, Recorded
    <3> QED
      BY <3>2, <3>3, <3>4, <3>5, <3>6 DEF IInv
  <2>2. CASE Goto("watch", "over")
    <3>1. Moved("watch", "over", act["watch"].conv, act["watch"].ch)
      BY <1>31, <2>2, Moves, Names DEF WatchSees
    <3>2. Shape'
      BY <1>31, <2>2, <3>1, Names DEF WatchSees, Moved, Shape
    <3>3. Endings'
      BY <1>31, <2>2, <3>1, Names
      DEF WatchSees, Moved, At, Shape, Endings, Ending, Unborn, Fresh, EndsOnce
    <3>4. Traffic'
      BY <1>31, <2>2, <3>1, Names DEF WatchSees, Moved, At, Shape, Traffic
    <3>5. Rows'
      BY <1>31, <2>2, <3>1, Names
      DEF WatchSees, Moved, At, Shape, Rows, Unannounced, Unborn, RowIsFirst
    <3>6. Channels'
      BY <1>31, <2>2, <3>1, Names
      DEF WatchSees, Moved, At, Shape, Channels, Awaits, Recorded
    <3> QED
      BY <3>2, <3>3, <3>4, <3>5, <3>6 DEF IInv
  <2> QED
    BY <1>31, <2>1, <2>2 DEF WatchSees
<1>32. ASSUME DownBegins PROVE IInv'
  <2>1. CASE proc = "running"
    <3>1. Moved("down", "closing", act["down"].conv, act["down"].ch)
      BY <1>32, <2>1, Moves, Names DEF DownBegins
    <3>2. Shape'
      BY <1>32, <2>1, <3>1, Names DEF DownBegins, Moved, Shape
    <3>3. Endings'
      BY <1>32, <2>1, <3>1, Names
      DEF DownBegins, Moved, At, Shape, Endings, Ending, Unborn, Fresh, EndsOnce
    <3>4. Traffic'
      BY <1>32, <2>1, <3>1, Names DEF DownBegins, Moved, At, Shape, Traffic
    <3>5. Rows'
      BY <1>32, <2>1, <3>1, Names
      DEF DownBegins, Moved, At, Shape, Rows, Unannounced, Unborn, RowIsFirst
    <3>6. Channels'
      BY <1>32, <2>1, <3>1, Names
      DEF DownBegins, Moved, At, Shape, Channels, Awaits, Recorded
    <3> QED
      BY <3>2, <3>3, <3>4, <3>5, <3>6 DEF IInv
  <2>2. CASE proc # "running"
    <3>1. Moved("down", "snapshot", act["down"].conv, act["down"].ch)
      BY <1>32, <2>2, Moves, Names DEF DownBegins
    <3>2. Shape'
      BY <1>32, <2>2, <3>1, Names DEF DownBegins, Moved, Shape
    <3>3. Endings'
      BY <1>32, <2>2, <3>1, Names
      DEF DownBegins, Moved, At, Shape, Endings, Ending, Unborn, Fresh, EndsOnce
    <3>4. Traffic'
      BY <1>32, <2>2, <3>1, Names DEF DownBegins, Moved, At, Shape, Traffic
    <3>5. Rows'
      BY <1>32, <2>2, <3>1, Names
      DEF DownBegins, Moved, At, Shape, Rows, Unannounced, Unborn, RowIsFirst
    <3>6. Channels'
      BY <1>32, <2>2, <3>1, Names
      DEF DownBegins, Moved, At, Shape, Channels, Awaits, Recorded
    <3> QED
      BY <3>2, <3>3, <3>4, <3>5, <3>6 DEF IInv
  <2> QED
    BY <1>32, <2>1, <2>2 DEF DownBegins
<1>33. ASSUME DownSnapshot PROVE IInv'
  <2>1. CASE live
    <3>1. Moved("down", "delete", conv, 0)
      BY <1>33, <2>1, Holds, Names DEF DownSnapshot
    <3>2. Shape'
      BY <1>33, <2>1, <3>1, Names DEF DownSnapshot, Moved, Shape
    <3>3. Endings'
      BY <1>33, <2>1, <3>1, Names
      DEF DownSnapshot, Moved, At, Shape, Endings, Ending, Unborn, Fresh, EndsOnce
    <3>4. Traffic'
      BY <1>33, <2>1, <3>1, Names DEF DownSnapshot, Moved, At, Shape, Traffic
    <3>5. Rows'
      BY <1>33, <2>1, <3>1, Names
      DEF DownSnapshot, Moved, At, Shape, Rows, Unannounced, Unborn, RowIsFirst
    <3>6. Channels'
      BY <1>33, <2>1, <3>1, Names
      DEF DownSnapshot, Moved, At, Shape, Channels, Awaits, Recorded
    <3> QED
      BY <3>2, <3>3, <3>4, <3>5, <3>6 DEF IInv
  <2>2. CASE ~live
    <3>1. Moved("down", "cancel", act["down"].conv, act["down"].ch)
      BY <1>33, <2>2, Moves, Names DEF DownSnapshot
    <3>2. Shape'
      BY <1>33, <2>2, <3>1, Names DEF DownSnapshot, Moved, Shape
    <3>3. Endings'
      BY <1>33, <2>2, <3>1, Names
      DEF DownSnapshot, Moved, At, Shape, Endings, Ending, Unborn, Fresh, EndsOnce
    <3>4. Traffic'
      BY <1>33, <2>2, <3>1, Names DEF DownSnapshot, Moved, At, Shape, Traffic
    <3>5. Rows'
      BY <1>33, <2>2, <3>1, Names
      DEF DownSnapshot, Moved, At, Shape, Rows, Unannounced, Unborn, RowIsFirst
    <3>6. Channels'
      BY <1>33, <2>2, <3>1, Names
      DEF DownSnapshot, Moved, At, Shape, Channels, Awaits, Recorded
    <3> QED
      BY <3>2, <3>3, <3>4, <3>5, <3>6 DEF IInv
  <2> QED
    BY <1>33, <2>1, <2>2 DEF DownSnapshot
<1>34. ASSUME DownCancels PROVE IInv'
  <2>1. Moved("down", "over", act["down"].conv, act["down"].ch)
    BY <1>34, Moves, Names DEF DownCancels
  <2>2. Shape'
    BY <1>34, <2>1, Names DEF DownCancels, Moved, Shape
  <2>3. Endings'
    BY <1>34, <2>1, Names
    DEF DownCancels, Moved, At, Shape, Endings, Ending, Unborn, Fresh, EndsOnce
  <2>4. Traffic'
    BY <1>34, <2>1, Names DEF DownCancels, Moved, At, Shape, Traffic
  <2>5. Rows'
    BY <1>34, <2>1, Names
    DEF DownCancels, Moved, At, Shape, Rows, Unannounced, Unborn, RowIsFirst
  <2>6. Channels'
    BY <1>34, <2>1, Names DEF DownCancels, Moved, At, Shape, Channels, Awaits, Recorded
  <2> QED
    BY <2>2, <2>3, <2>4, <2>5, <2>6 DEF IInv
<1>35. ASSUME NEW a \in Closers, CloseDeletes(a) PROVE IInv'
  <2>1. CASE Registered(act[a].conv)
    <3>1. Moved(a, "event", act[a].conv, act[a].ch)
      BY <1>35, <2>1, Moves, Names DEF CloseDeletes, Registered
    <3>2. Shape'
      BY <1>35, <2>1, <3>1, Names DEF CloseDeletes, Registered, Moved, Shape
    <3>3. Endings'
      <4>1. a \in Actors /\ live /\ ~live' /\ conv = act[a].conv /\ UNCHANGED <<conv, ends, db>>
        BY <1>35, <2>1, Names DEF CloseDeletes, Registered
      <4>2. ~Unborn /\ Fresh(conv)
        BY <4>1 DEF Endings, Fresh
      <4>3. ~Unborn'
        BY <1>35, <2>1, <3>1, <4>2, Names DEF Moved, Unborn
      <4>4. \A x \in Convs : Fresh(x)' => Fresh(x) /\ x # conv
        BY <4>1, <4>3, ConversationsAssumption DEF Fresh, Convs, Shape
      <4>5. \A b \in Actors, x \in Convs : Ending(b, x)' => Ending(b, x) \/ (b = a /\ x = conv)
        BY <3>1, <4>1, Names DEF Moved, Ending, At
      <4>6. conv \in Convs
        BY ConversationsAssumption DEF Shape, Convs
      <4>7. \A b \in Actors : ~Ending(b, conv)
        BY <4>2, <4>6 DEF Endings
      <4>8. \A b \in Actors, x \in Convs : Ending(b, x)' => ~Fresh(x)' /\ ends'[x] = 0
        BY <4>1, <4>2, <4>4, <4>5, <4>6 DEF Endings
      <4>9. \A b, d \in Actors, x \in Convs : Ending(b, x)' /\ Ending(d, x)' => b = d
        BY <4>5, <4>7 DEF Endings
      <4> QED
        BY <4>1, <4>3, <4>4, <4>8, <4>9 DEF Endings, EndsOnce
    <3>4. Traffic'
      BY <1>35, <2>1, <3>1, Names DEF CloseDeletes, Registered, Moved, At, Shape, Traffic
    <3>5. Rows'
      BY <1>35, <2>1, <3>1, Names
      DEF CloseDeletes, Registered, Moved, At, Shape, Rows, Unannounced, Unborn, RowIsFirst
    <3>6. Channels'
      BY <1>35, <2>1, <3>1, Names
      DEF CloseDeletes, Registered, Moved, At, Shape, Channels, Awaits, Recorded
    <3> QED
      BY <3>2, <3>3, <3>4, <3>5, <3>6 DEF IInv
  <2>2. CASE ~Registered(act[a].conv)
    <3>1. Moved(a, Over(a), act[a].conv, act[a].ch)
      BY <1>35, <2>2, Moves, Names DEF CloseDeletes, Registered, Over
    <3>2. Shape'
      BY <1>35, <2>2, <3>1, Names DEF CloseDeletes, Registered, Over, Moved, Shape
    <3>3. Endings'
      BY <1>35, <2>2, <3>1, Names
      DEF CloseDeletes, Registered, Over, Moved, At, Shape, Endings, Ending, Unborn, Fresh,
          EndsOnce
    <3>4. Traffic'
      BY <1>35, <2>2, <3>1, Names DEF CloseDeletes, Registered, Over, Moved, At, Shape, Traffic
    <3>5. Rows'
      BY <1>35, <2>2, <3>1, Names
      DEF CloseDeletes, Registered, Over, Moved, At, Shape, Rows, Unannounced, Unborn,
          RowIsFirst
    <3>6. Channels'
      BY <1>35, <2>2, <3>1, Names
      DEF CloseDeletes, Registered, Over, Moved, At, Shape, Channels, Awaits, Recorded
    <3> QED
      BY <3>2, <3>3, <3>4, <3>5, <3>6 DEF IInv
  <2> QED
    BY <1>35, <2>1, <2>2 DEF CloseDeletes
<1>36. ASSUME NEW a \in Closers, CloseTells(a) PROVE IInv'
  <2>1. Moved(a, "kill", act[a].conv, act[a].ch)
    BY <1>36, Moves, Names DEF CloseTells
  <2>2. Finished(db, db', act[a].conv)
    BY <1>36, FinishSessionKeeps DEF CloseTells, Shape
  <2>3. Shape'
    <3>1. ends' \in [Convs -> Nat]
      BY <1>36, Counts DEF CloseTells, Shape
    <3>2. UNCHANGED <<restarts, conv, live>>
      BY <1>36 DEF CloseTells
    <3> QED
      BY <2>1, <2>2, <3>1, <3>2 DEF Moved, Finished, Shape
  <2>4. Endings'
    <3> DEFINE c == act[a].conv
    <3>1. Ending(a, c) /\ a \in Actors
      BY <1>36, Names DEF CloseTells, Ending, At
    <3>2. /\ UNCHANGED <<live, conv>>
          /\ \A x \in Convs : ends'[x] = IF x = c THEN ends[x] + 1 ELSE ends[x]
      BY <1>36, Counts DEF CloseTells, Shape
    <3>3. \A b \in Actors, x \in Convs : Ending(b, x)' => Ending(b, x) /\ b # a
      BY <1>36, <2>1, Names DEF CloseTells, Moved, Ending, At
    <3>4. Unborn' <=> Unborn
      BY <1>36, <2>1, Names DEF CloseTells, Moved, Unborn, At
    <3>5. \A x \in Convs : Fresh(x)' <=> Fresh(x)
      BY <3>2, <3>4 DEF Fresh
    <3> HIDE DEF c
    <3>6. \A x \in Convs : Fresh(x) => x # c
      BY <3>1 DEF Endings
    <3>7. \A b \in Actors, x \in Convs : Ending(b, x)' => x # c
      BY <3>1, <3>3 DEF Endings
    <3>8. \A x \in Convs : Fresh(x)' => ends'[x] = 0 /\ x \notin db'.finished
      BY <2>2, <3>2, <3>5, <3>6 DEF Endings, Finished, c
    <3>9. \A b \in Actors, x \in Convs : Ending(b, x)' => ~Fresh(x)' /\ ends'[x] = 0
      BY <3>2, <3>3, <3>5, <3>7 DEF Endings
    <3>10. \A x \in Convs : ends'[x] <= 1
      BY <3>1, <3>2 DEF Endings, EndsOnce, Shape
    <3> QED
      BY <3>2, <3>3, <3>4, <3>8, <3>9, <3>10 DEF Endings, EndsOnce
  <2>5. Traffic'
    BY <1>36, <2>1, <2>2, Names DEF CloseTells, Moved, Finished, At, Shape, Traffic
  <2>6. Rows'
    <3>1. Unannounced' <=> Unannounced
      BY <1>36, <2>1, Names DEF CloseTells, Moved, Unannounced, Unborn, At
    <3>2. UNCHANGED <<asked, fromAgent, opened, act["loop"], act["user"], act["restart"]>>
      BY <1>36, <2>1, Names DEF CloseTells, Moved
    <3> QED
      BY <2>2, <3>1, <3>2, First DEF Finished, Rows, RowIsFirst, At
  <2>7. Channels'
    BY <1>36, <2>1, <2>2, Names
    DEF CloseTells, Moved, Finished, At, Shape, Channels, Awaits, Recorded
  <2> QED
    BY <2>3, <2>4, <2>5, <2>6, <2>7 DEF IInv
<1>37. ASSUME NEW a \in Closers, CloseKills(a) PROVE IInv'
  <2>1. Moved(a, "clean", act[a].conv, act[a].ch)
    BY <1>37, Moves, Names DEF CloseKills
  <2>2. Shape'
    BY <1>37, <2>1, Names DEF CloseKills, Moved, Shape
  <2>3. Endings'
    BY <1>37, <2>1, Names
    DEF CloseKills, Moved, At, Shape, Endings, Ending, Unborn, Fresh, EndsOnce
  <2>4. Traffic'
    BY <1>37, <2>1, Names DEF CloseKills, Moved, At, Shape, Traffic
  <2>5. Rows'
    BY <1>37, <2>1, Names
    DEF CloseKills, Moved, At, Shape, Rows, Unannounced, Unborn, RowIsFirst
  <2>6. Channels'
    BY <1>37, <2>1, Names DEF CloseKills, Moved, At, Shape, Channels, Awaits, Recorded
  <2> QED
    BY <2>2, <2>3, <2>4, <2>5, <2>6 DEF IInv
<1>38. ASSUME NEW a \in Closers, CloseCleans(a) PROVE IInv'
  <2>1. Moved(a, Over(a), act[a].conv, act[a].ch)
    BY <1>38, Moves, Names DEF CloseCleans, Over
  <2>2. Shape'
    BY <1>38, <2>1, Names DEF CloseCleans, Over, Moved, Shape
  <2>3. Endings'
    BY <1>38, <2>1, Names
    DEF CloseCleans, Over, Moved, At, Shape, Endings, Ending, Unborn, Fresh, EndsOnce
  <2>4. Traffic'
    BY <1>38, <2>1, Names DEF CloseCleans, Over, Moved, At, Shape, Traffic
  <2>5. Rows'
    BY <1>38, <2>1, Names
    DEF CloseCleans, Over, Moved, At, Shape, Rows, Unannounced, Unborn, RowIsFirst
  <2>6. Channels'
    BY <1>38, <2>1, Names
    DEF CloseCleans, Over, Moved, At, Shape, Channels, Awaits, Recorded
  <2> QED
    BY <2>2, <2>3, <2>4, <2>5, <2>6 DEF IInv
<1>39. CASE UNCHANGED vars
  BY <1>39, Names
  DEF vars, sessVars, procVars, histVars, bounds, IInv, At, Shape, Endings, Ending, Unborn,
      Fresh, EndsOnce, Traffic, Rows, Unannounced, RowIsFirst, Channels, Awaits,
      Recorded
<1> QED
  BY <1>1, <1>2, <1>3, <1>4, <1>5, <1>6, <1>7, <1>8, <1>9, <1>10, <1>11, <1>12, <1>13, <1>14,
  <1>15, <1>16, <1>17, <1>18, <1>19, <1>20, <1>21, <1>22, <1>23, <1>24, <1>25, <1>26, <1>27,
  <1>28, <1>29, <1>30, <1>31, <1>32, <1>33, <1>34, <1>35, <1>36, <1>37, <1>38, <1>39 DEF Next

\* It holds where the session is not yet created.
LEMMA InitInv == Init => IInv
<1> SUFFICES ASSUME Init PROVE IInv
  OBVIOUS
<1> USE DEF Init
<1>1. \A a \in Actors : act[a] = Idle
  OBVIOUS
<1>2. \A c \in Convs : db.status[c] = "none" /\ db.acp[c] = 0
  BY DEF EmptyRows
<1>3. Shape
  <2>1. Table(db)
    BY DEF Table, Columns, EmptyRows
  <2>2. act = [a \in Actors |-> act[a]] /\ \A a \in Actors : DOMAIN act[a] = Fields
    BY <1>1 DEF Idle, Fields
  <2>3. ends \in [Convs -> Nat] /\ restarts \in 0..MaxRestarts /\ conv = restarts + 1
    BY ConversationsAssumption
  <2>4. live \in BOOLEAN
    OBVIOUS
  <2> HIDE DEF Init
  <2> QED
    BY <2>1, <2>2, <2>3, <2>4 DEF Shape
<1>4. Endings
  BY <1>1, Names, First DEF Endings, Ending, At, Idle, Unborn, Fresh, EndsOnce, EmptyRows
<1>5. Traffic
  <2>1. fromAgent \in Seq(Said) /\ msg \in Said
    BY EmptySeq DEF Said, NoMsg
  <2> QED
    BY <1>1, <2>1, Names DEF Traffic, Idle
<1>6. Rows
  BY <1>1, <1>2, Names DEF Rows, Unannounced, Unborn, At, Idle, HasRow, RowIsFirst, EmptyRows
<1>7. Channels
  BY <1>1, Names DEF Channels, Awaits, At, Idle, Recorded
<1> QED
  BY <1>3, <1>4, <1>5, <1>6, <1>7 DEF IInv

\* A conversation leaves the router with one of those who end it, its row comes before all that
\* is known of it, and a closed channel means a recorded session, in every reachable state.
THEOREM Invariant == Spec => []IInv
  BY InitInv, NextInv, PTL DEF Spec

\* Subscribers hear of the end of a conversation at most once, whoever ends it: the exit of its
\* process, CloseConversation, Close, Create's failure or a restart (router.go).
THEOREM ConversationsEndOnce == Spec => []EndsOnce
<1>1. IInv => EndsOnce
  BY DEF IInv, Endings
<1> QED
  BY Invariant, <1>1, PTL

\* The store does not show the conversation that the router has live as finished.
THEOREM LiveStaysUnfinished == Spec => []LiveIsUnfinished
<1>1. IInv => LiveIsUnfinished
  BY ConversationsAssumption DEF IInv, Shape, Endings, Fresh, Convs, LiveIsUnfinished
<1> QED
  BY Invariant, <1>1, PTL

-----------------------------------------------------------------------------
(* Whose session a row shows *)

\* What the agent has said, if every answer of a handshake is of conversation c.
Own(c) == {x \in Said : (x.m = "new" => x.sid = c) /\ (x.m = "init" => c = 1)}

\* Create has yet to ask for the handshake.
Early == {"idle", "started", "announce", "ask"}

\* Unless a Restart overtook a handshake, every handshake request and answer on the way, and
\* the answer that the loop delivers, is of the conversation it will be taken for.
Loyal ==
  ~hasty =>
    /\ \A q \in asked : (q.m = "new" => q.conv = conv) /\ (q.m = "init" => conv = 1)
    /\ fromAgent \in Seq(Own(conv))
    /\ act["create"].at \in Early => conv = 1
    /\ act["restart"].at \in {"announce", "ask"} => act["restart"].conv = conv
    /\ At("loop", "deliver") /\ msg.m = "new" => msg.sid = act["loop"].conv
    /\ \A c \in Convs : db.acp[c] \in {0, c}

\* The actors are nowhere where Loyal asks for more than before.
Settled ==
  /\ act'["create"].at \in Early => act["create"].at \in Early
  /\ act'["restart"].at \in {"announce", "ask"} =>
       act["restart"].at \in {"announce", "ask"} /\ act'["restart"].conv = act["restart"].conv
  /\ act'["loop"].at = "deliver" => act'["loop"] = act["loop"]

\* A step that asks, says and records nothing, and rolls no conversation.
Quiet ==
  /\ UNCHANGED <<conv, asked, fromAgent, msg, hasty>>
  /\ \A c \in Convs : db'.acp[c] = db.acp[c]
  /\ Settled

\* Loyal is kept by every quiet step.
LEMMA QuietKeeps == Loyal /\ Quiet => Loyal'
  BY DEF Loyal, Quiet, Settled, Own, At

\* An actor that moves leaves the others settled.
LEMMA MovedSettles ==
  ASSUME NEW a \in Actors, NEW where, NEW c, NEW ch, Moved(a, where, c, ch),
         a = "create" => where \notin Early \/ act[a].at \in Early,
         a = "restart" => \/ where \notin {"announce", "ask"}
                          \/ act[a].at \in {"announce", "ask"} /\ c = act[a].conv,
         a = "loop" => where # "deliver"
  PROVE  Settled
  BY Names DEF Moved, Settled

\* Only the answer of session/new changes the session of a row.
LEMMA SessionKept ==
  ASSUME NEW d, Table(d), NEW c, NEW status
  PROVE  \A x \in Convs : /\ InsertSession(d, c).acp[x] = d.acp[x]
                          /\ InsertLog(d, c).acp[x] = d.acp[x]
                          /\ RecordTurn(d, c).acp[x] = d.acp[x]
                          /\ FinishSession(d, c, status).acp[x] = d.acp[x]
<1> DEFINE l == InsertLog(d, c)
<1>1. InsertSession(d, c).acp = d.acp /\ l.acp = d.acp /\ FinishSession(d, c, status).acp = d.acp
  BY DEF Table, Columns, InsertSession, InsertLog, FinishSession
<1>2. Table(l)
  BY InsertLogKeeps DEF Kept
<1>3. RecordTurn(d, c) = UpdateSession(l, c)
  BY DEF RecordTurn
<1> HIDE DEF l
<1>4. UpdateSession(l, c).acp = l.acp
  BY <1>2 DEF Table, Columns, UpdateSession
<1> QED
  BY <1>1, <1>3, <1>4 DEF l

\* The steps of Create before it asks, and of the process, are quiet.
LEMMA CreateIsQuiet ==
  ASSUME Shape, CreateStart \/ CreateRegister \/ CreateStillborn \/ CreateAnnounce \/ CreateAbort
  PROVE  Quiet
<1>1. CASE CreateStart
  BY <1>1, Moves, MovedSettles, Names DEF CreateStart, At, Early, Quiet, sessVars, histVars
<1>2. CASE CreateRegister
  BY <1>2, Moves, MovedSettles, Names DEF CreateRegister, At, Early, Quiet, procVars, histVars
<1>3. CASE CreateStillborn
  BY <1>3, Moves, MovedSettles, Names DEF CreateStillborn, At, Early, Quiet, procVars, histVars
<1>4. CASE CreateAnnounce
  <2>1. UNCHANGED <<conv, asked, fromAgent, msg, hasty>>
    BY <1>4 DEF CreateAnnounce, sessVars, procVars, histVars
  <2> DEFINE d == InsertSession(db, 1)
  <2>2. Table(db) /\ Table(d)
    BY InsertSessionKeeps DEF Shape, Kept
  <2>3. (db' = d \/ db' = InsertLog(d, 1)) /\ \A c \in Convs : d.acp[c] = db.acp[c]
    BY <1>4, <2>2, SessionKept DEF CreateAnnounce
  <2> HIDE DEF d
  <2>4. \A c \in Convs : db'.acp[c] = db.acp[c]
    BY <2>2, <2>3, SessionKept
  <2>5. Settled
    BY <1>4, Moves, Holds, MovedSettles, Names DEF CreateAnnounce, At, Early
  <2> QED
    BY <2>1, <2>4, <2>5 DEF Quiet
<1>5. CASE CreateAbort
  BY <1>5, Moves, MovedSettles, Names DEF CreateAbort, At, Early, Quiet, procVars, histVars
<1> QED
  BY <1>1, <1>2, <1>3, <1>4, <1>5

\* The steps of WaitReady and of Send before the request are quiet.
LEMMA UserIsQuiet ==
  ASSUME Shape, \/ \E c \in Convs : UserWaits(c)
                \/ UserWakes \/ UserReady \/ UserSends \/ UserEchoes
  PROVE  Quiet
<1>1. /\ UNCHANGED <<conv, asked, fromAgent, msg, hasty>>
      /\ db' = db \/ \E c : db' = RecordTurn(db, c)
  BY DEF UserWaits, UserWakes, UserReady, UserSends, UserEchoes, sessVars, procVars, histVars
<1>2. \A c \in Convs : db'.acp[c] = db.acp[c]
  BY <1>1, SessionKept DEF Shape
<1>3. \E where, c, ch : Moved("user", where, c, ch)
  BY Moves, Holds, Names
  DEF UserWaits, UserWakes, Wakes, GivesUp, UserReady, UserSends, UserEchoes
<1>4. Settled
  BY <1>3, MovedSettles, Names
<1> QED
  BY <1>1, <1>2, <1>4 DEF Quiet

\* The steps of Restart that ask and roll nothing are quiet.
LEMMA RestartIsQuiet ==
  ASSUME Shape, \/ RestartAnnounce \/ RestartLooks \/ RestartWakes \/ RestartReady
                \/ RestartReplaces
  PROVE  Quiet
<1>1. /\ UNCHANGED <<conv, asked, fromAgent, msg, hasty>>
      /\ db' = db \/ \E c, st : db' = InsertSession(db, c) \/ db' = FinishSession(db, c, st)
  BY DEF RestartAnnounce, RestartLooks, RestartWakes, RestartReady, RestartReplaces,
         sessVars, procVars, histVars
<1>2. \A c \in Convs : db'.acp[c] = db.acp[c]
  BY <1>1, SessionKept DEF Shape
<1>3. Settled
  <2>1. CASE RestartAnnounce
    BY <2>1, Moves, MovedSettles, Names DEF RestartAnnounce, At
  <2>2. CASE RestartLooks \/ RestartWakes \/ RestartReady \/ RestartReplaces
    <3>1. \E where \in {"idle", "woken", "wait", "replace"} :
            Moved("restart", where, act["restart"].conv, act["restart"].ch)
      BY <2>2, Moves, Names
      DEF RestartLooks, RestartWakes, Wakes, GivesUp, RestartReady, RestartReplaces
    <3> QED
      BY <3>1, MovedSettles, Names
  <2> QED
    BY <2>1, <2>2
<1> QED
  BY <1>1, <1>2, <1>3 DEF Quiet

\* The steps of those who close are quiet.
LEMMA CloseIsQuiet ==
  ASSUME Shape, \/ \E c \in Convs : Stop(c)
                \/ WatchSees \/ DownBegins \/ DownSnapshot \/ DownCancels
                \/ \E a \in Closers :
                     CloseDeletes(a) \/ CloseTells(a) \/ CloseKills(a) \/ CloseCleans(a)
  PROVE  Quiet
<1>1. /\ UNCHANGED <<conv, asked, fromAgent, msg, hasty>>
      /\ db' = db \/ \E c, st : db' = FinishSession(db, c, st)
  BY DEF Stop, WatchSees, DownBegins, DownSnapshot, DownCancels, CloseDeletes, CloseTells,
         CloseKills, CloseCleans, sessVars, procVars, histVars
<1>2. \A c \in Convs : db'.acp[c] = db.acp[c]
  BY <1>1, SessionKept DEF Shape
<1>3. ASSUME NEW a \in Closers, NEW where, NEW c, NEW ch, Moved(a, where, c, ch),
             where \notin Early
      PROVE  Settled
  BY <1>3, MovedSettles, Names
<1>4. Settled
  <2>1. ASSUME NEW c \in Convs, Stop(c) PROVE Settled
    <3>1. Moved("stop", "delete", c, 0)
      BY <2>1, Holds, Names DEF Stop
    <3> QED
      BY <1>3, <3>1 DEF Closers, Early
  <2>2. CASE WatchSees
    <3>1. \/ Moved("watch", "delete", conv, 0)
          \/ Moved("watch", "over", act["watch"].conv, act["watch"].ch)
      BY <2>2, Holds, Moves, Names DEF WatchSees
    <3> QED
      BY <1>3, <3>1 DEF Closers, Early
  <2>3. CASE DownBegins \/ DownSnapshot \/ DownCancels
    <3>1. \/ Moved("down", "delete", conv, 0)
          \/ \E where \in {"closing", "snapshot", "cancel", "over"} :
               Moved("down", where, act["down"].conv, act["down"].ch)
      BY <2>3, Holds, Moves, Names DEF DownBegins, DownSnapshot, DownCancels
    <3> QED
      BY <1>3, <3>1 DEF Closers, Early
  <2>4. ASSUME NEW a \in Closers,
               CloseDeletes(a) \/ CloseTells(a) \/ CloseKills(a) \/ CloseCleans(a)
        PROVE  Settled
    <3>1. \E where \in {"over", "cancel", "event", "kill", "clean"} :
            Moved(a, where, act[a].conv, act[a].ch)
      BY <2>4, Moves, Names DEF CloseDeletes, CloseTells, CloseKills, CloseCleans, Over
    <3> QED
      BY <1>3, <3>1 DEF Early
  <2> QED
    BY <2>1, <2>2, <2>3, <2>4
<1> QED
  BY <1>1, <1>2, <1>4 DEF Quiet

\* A request for its own conversation leaves the requests loyal.
LEMMA AskKeeps ==
  ASSUME NEW q, Ask(q),
         \A x \in asked : (x.m = "new" => x.conv = conv) /\ (x.m = "init" => conv = 1),
         (q.m = "new" => q.conv = conv) /\ (q.m = "init" => conv = 1)
  PROVE  \A x \in asked' : (x.m = "new" => x.conv = conv) /\ (x.m = "init" => conv = 1)
  BY DEF Ask

\* The steps that ask: Create, Send and Restart.
LEMMA AskersAreLoyal ==
  ASSUME Shape, Loyal, CreateAsk \/ UserAsks \/ RestartAsk
  PROVE  Loyal'
<1>1. UNCHANGED <<conv, fromAgent, msg, hasty, db>>
  BY DEF CreateAsk, UserAsks, RestartAsk, sessVars, procVars, histVars
<1>2. Settled
  <2>1. CASE CreateAsk
    BY <2>1, Names DEF CreateAsk, Goto, Shape, At, Settled, Early
  <2>2. CASE UserAsks
    BY <2>2, Moves, MovedSettles, Names DEF UserAsks
  <2>3. CASE RestartAsk
    BY <2>3, Moves, MovedSettles, Names DEF RestartAsk
  <2> QED
    BY <2>1, <2>2, <2>3
<1> SUFFICES ASSUME ~hasty PROVE Loyal'
  BY <1>1 DEF Loyal
<1>3. \A q \in asked' : (q.m = "new" => q.conv = conv) /\ (q.m = "init" => conv = 1)
  <2>1. CASE CreateAsk
    BY <2>1, AskKeeps DEF CreateAsk, Request, Loyal, At, Early
  <2>2. CASE UserAsks
    BY <2>2, AskKeeps DEF UserAsks, Request, Loyal
  <2>3. CASE RestartAsk
    BY <2>3, AskKeeps DEF RestartAsk, Request, Loyal, At
  <2> QED
    BY <2>1, <2>2, <2>3
<1> QED
  BY <1>1, <1>2, <1>3 DEF Loyal, Settled, Own, At

\* The agent answers for the conversation it was asked for; it says nothing else of a handshake.
LEMMA AgentIsLoyal ==
  ASSUME Shape, Traffic, Loyal,
         (\E q \in asked, ok \in BOOLEAN : Answer(q, ok)) \/ Update \/ Exit \/ Reap
  PROVE  Loyal'
<1>1. UNCHANGED <<conv, act, msg, hasty, db>> /\ asked' \subseteq asked
  BY DEF Answer, Update, Exit, Reap, sessVars, histVars
<1> SUFFICES ASSUME ~hasty PROVE fromAgent' \in Seq(Own(conv))
  BY <1>1 DEF Loyal, Own, At
<1>2. fromAgent \in Seq(Own(conv))
  BY DEF Loyal
<1>3. ASSUME NEW q \in asked, NEW ok \in BOOLEAN, Answer(q, ok)
      PROVE  fromAgent' \in Seq(Own(conv))
  <2> DEFINE answer == [m |-> q.m, ok |-> ok, sid |-> IF q.m = "new" THEN q.conv ELSE 0]
  <2>1. answer \in Own(conv)
    BY DEF Traffic, Said, Own, Loyal
  <2>2. fromAgent' = Append(fromAgent, answer)
    BY <1>3 DEF Answer
  <2> HIDE DEF answer
  <2> QED
    BY <1>2, <2>1, <2>2, AppendProperties
<1>4. CASE Update
  <2> DEFINE said == [m |-> "update", ok |-> TRUE, sid |-> 0]
  <2>1. said \in Own(conv)
    BY DEF Said, Own
  <2>2. fromAgent' = Append(fromAgent, said)
    BY <1>4 DEF Update
  <2> HIDE DEF said
  <2> QED
    BY <1>2, <2>1, <2>2, AppendProperties
<1>5. CASE Exit
  BY <1>2, <1>5 DEF Exit
<1>6. CASE Reap
  <2>1. PICK k \in 0..Len(fromAgent) : fromAgent' = SubSeq(fromAgent, 1, k)
    BY <1>6 DEF Reap
  <2>2. \A i \in 1..k : fromAgent[i] \in Own(conv)
    BY <1>2, ElementOfSeq, LenProperties
  <2> QED
    BY <1>2, <2>1, <2>2, SubSeqProperties, LenProperties
<1> QED
  BY <1>3, <1>4, <1>5, <1>6

\* The loop takes an answer for the conversation it is of, and records it so.
LEMMA LoopIsLoyal ==
  ASSUME Shape, Loyal,
         LoopInit \/ LoopSession \/ LoopError \/ LoopOther \/ LoopDeliver \/ LoopReady
  PROVE  Loyal'
<1>1. UNCHANGED <<conv, hasty>> /\ \A a \in Actors : a # "loop" => act'[a] = act[a]
  BY Moves, Holds, Names
  DEF LoopInit, LoopSession, LoopError, LoopOther, LoopDeliver, LoopReady, Take, Moved,
      sessVars, procVars, histVars
<1> SUFFICES ASSUME ~hasty
             PROVE  /\ \A q \in asked' :
                         (q.m = "new" => q.conv = conv) /\ (q.m = "init" => conv = 1)
                    /\ fromAgent' \in Seq(Own(conv))
                    /\ act'["loop"].at = "deliver" /\ msg'.m = "new"
                         => msg'.sid = act'["loop"].conv
                    /\ \A c \in Convs : db'.acp[c] \in {0, c}
  BY <1>1, Names DEF Loyal, Own, At
<1>2. fromAgent \in Seq(Own(conv))
  BY DEF Loyal
<1>3. ASSUME Take PROVE Head(fromAgent) \in Own(conv) /\ fromAgent' \in Seq(Own(conv))
  BY <1>2, <1>3, HeadTailProperties DEF Take
<1>4. CASE LoopInit
  <2>1. conv = 1
    BY <1>3, <1>4 DEF LoopInit, Own
  <2>2. \A q \in asked' : (q.m = "new" => q.conv = conv) /\ (q.m = "init" => conv = 1)
    BY <1>4, <2>1, AskKeeps DEF LoopInit, Request, Loyal
  <2> QED
    BY <1>3, <1>4, <2>2 DEF LoopInit, Loyal, At
<1>5. CASE LoopSession
  <2>1. Head(fromAgent).sid = conv /\ msg' = Head(fromAgent)
    BY <1>3, <1>5 DEF LoopSession, Own
  <2>2. act'["loop"].conv = conv
    BY <1>5, Holds, Names DEF LoopSession, Moved
  <2> QED
    BY <1>3, <1>5, <2>1, <2>2 DEF LoopSession, Loyal
<1>6. CASE LoopError
  BY <1>3, <1>6 DEF LoopError, Loyal, At
<1>7. CASE LoopOther
  <2>1. msg'.m # "new"
    BY <1>7 DEF LoopOther
  <2> QED
    BY <1>3, <1>7, <2>1 DEF LoopOther, Loyal
<1>8. CASE LoopDeliver
  <2>1. act'["loop"].at # "deliver" /\ UNCHANGED <<asked, fromAgent>>
    BY <1>8, Moves, Names DEF LoopDeliver, Moved, procVars
  <2>2. CASE msg.m = "new"
    <3>1. /\ db' = SetACPSessionID(db, act["loop"].conv, msg.sid)
          /\ msg.sid = act["loop"].conv
      BY <1>8, <2>2 DEF LoopDeliver, Loyal
    <3>2. \A c \in Convs : db'.acp[c] \in {db.acp[c], c}
      BY <3>1 DEF SetACPSessionID, Shape, Table, Columns
    <3> QED
      BY <1>2, <2>1, <3>2 DEF Loyal
  <2>3. CASE msg.m # "new"
    <3>1. \A c \in Convs : db'.acp[c] = db.acp[c]
      BY <1>8, <2>3, SessionKept DEF LoopDeliver, Shape
    <3> QED
      BY <1>2, <2>1, <3>1 DEF Loyal
  <2> QED
    BY <2>2, <2>3
<1>9. CASE LoopReady
  <2>1. act'["loop"].at # "deliver" /\ UNCHANGED <<asked, fromAgent, db>>
    BY <1>9, Moves, Names DEF LoopReady, Moved, procVars
  <2> QED
    BY <1>2, <2>1 DEF Loyal
<1> QED
  BY <1>4, <1>5, <1>6, <1>7, <1>8, <1>9

\* A Restart that overtakes no handshake leaves nothing on the way that the fresh conversation
\* could be given: its row comes after Create's, and with it after Create has asked.
LEMMA RestartIsLoyal ==
  ASSUME IInv, Loyal, NEW c \in Convs, Restart(c)
  PROVE  Loyal'
<1>1. /\ conv' = conv + 1 /\ UNCHANGED <<asked, fromAgent, msg, db>>
      /\ hasty' = (hasty \/ Shaking)
  BY DEF Restart, procVars
<1>2. Moved("restart", "announce", conv + 1, conv)
  BY Holds, Names DEF Restart, IInv
<1>3. act["create"].at \notin Early
  BY DEF Restart, Known, IInv, Rows, Unannounced, Unborn, At, Early
<1> SUFFICES ASSUME ~hasty, ~Shaking PROVE Loyal'
  BY <1>1 DEF Loyal
<1>4. fromAgent \in Seq(Own(conv + 1))
  <2>1. fromAgent \in Seq(Said)
    BY DEF IInv, Traffic
  <2>2. \A i \in 1..Len(fromAgent) : fromAgent[i] \in Own(conv + 1)
    BY <2>1, ElementOfSeq, LenProperties DEF Shaking, Own
  <2>3. Len(fromAgent) \in Nat /\ fromAgent \in [1..Len(fromAgent) -> Said]
    BY <2>1, LenProperties
  <2>4. fromAgent \in [1..Len(fromAgent) -> Own(conv + 1)]
    BY <2>2, <2>3
  <2> QED
    BY <2>3, <2>4, SeqDef
<1>5. \A q \in asked : q.m # "new" /\ q.m # "init"
  BY DEF Shaking
<1> QED
  BY <1>1, <1>2, <1>3, <1>4, <1>5, Names DEF Loyal, Moved, Own, At

\* No step sends the answer of a handshake astray.
LEMMA LoyalStep == IInv /\ Loyal /\ [Next]_vars => Loyal'
<1> SUFFICES ASSUME IInv, Loyal, [Next]_vars PROVE Loyal'
  OBVIOUS
<1>1. CASE CreateStart \/ CreateRegister \/ CreateStillborn \/ CreateAnnounce \/ CreateAbort
  BY <1>1, CreateIsQuiet, QuietKeeps DEF IInv
<1>2. CASE \/ \E c \in Convs : UserWaits(c)
           \/ UserWakes \/ UserReady \/ UserSends \/ UserEchoes
  BY <1>2, UserIsQuiet, QuietKeeps DEF IInv
<1>3. CASE RestartAnnounce \/ RestartLooks \/ RestartWakes \/ RestartReady \/ RestartReplaces
  BY <1>3, RestartIsQuiet, QuietKeeps DEF IInv
<1>4. CASE \/ \E c \in Convs : Stop(c)
           \/ WatchSees \/ DownBegins \/ DownSnapshot \/ DownCancels
           \/ \E a \in Closers :
                CloseDeletes(a) \/ CloseTells(a) \/ CloseKills(a) \/ CloseCleans(a)
  BY <1>4, CloseIsQuiet, QuietKeeps DEF IInv
<1>5. CASE CreateAsk \/ UserAsks \/ RestartAsk
  BY <1>5, AskersAreLoyal DEF IInv
<1>6. CASE (\E q \in asked, ok \in BOOLEAN : Answer(q, ok)) \/ Update \/ Exit \/ Reap
  BY <1>6, AgentIsLoyal DEF IInv
<1>7. CASE LoopInit \/ LoopSession \/ LoopError \/ LoopOther \/ LoopDeliver \/ LoopReady
  BY <1>7, LoopIsLoyal DEF IInv
<1>8. CASE \E c \in Convs : Restart(c)
  BY <1>8, RestartIsLoyal
<1>9. CASE UNCHANGED vars
  BY <1>9 DEF vars, sessVars, procVars, histVars, Loyal, Own, At
<1> QED
  BY <1>1, <1>2, <1>3, <1>4, <1>5, <1>6, <1>7, <1>8, <1>9 DEF Next

\* An answer of the handshake reaches the row of the conversation it was asked for, unless a
\* Restart overtook a handshake (router.go, onMessage; commands.go lets anybody restart).
THEOREM SessionsAreLoyal == Spec => []Loyal
<1>1. Init => Loyal
  <2> SUFFICES ASSUME Init PROVE Loyal
    OBVIOUS
  <2>1. /\ asked = {} /\ fromAgent = <<>> /\ conv = 1
        /\ act["restart"] = Idle /\ act["loop"] = Idle
    BY Names DEF Init
  <2>2. \A c \in Convs : db.acp[c] = 0
    BY DEF Init, EmptyRows
  <2> QED
    BY <2>1, <2>2, EmptySeq DEF Loyal, At, Idle
<1> QED
  BY Invariant, <1>1, LoyalStep, PTL DEF Spec

\* The store keeps up with the router: whoever was woken by a ready channel finds the ACP session
\* recorded, and that of its own conversation unless a Restart overtook a handshake; and no log
\* entry of the created conversation was refused for want of its row.
THEOREM TheStoreKeepsUp == Spec => []StoreKeepsUp
<1>1. IInv /\ Loyal => StoreKeepsUp
  BY DEF IInv, Rows, Channels, Recorded, Loyal, At, ReadyIsRecorded, StoreKeepsUp
<1> QED
  BY Invariant, SessionsAreLoyal, <1>1, PTL

-----------------------------------------------------------------------------
(* The refinement of ConversationLife *)

\* Nothing that ConversationLife shows has changed.
Same == (live' <=> live) /\ UNCHANGED <<conv, ends>> /\ (Unborn' <=> Unborn)

\* Such a step is a stutter of ConversationLife.
LEMMA SameStutters == Same => UNCHANGED Life!vars
  BY DEF Same, Life!vars, Phase, Registered

\* An actor other than Create does not register the session.
LEMMA OthersKeepUnborn ==
  ASSUME Shape, NEW a \in Actors, a # "create",
         \/ act' = act
         \/ \E where : Goto(a, where)
         \/ \E where, c, ch : Holding(a, where, c, ch)
  PROVE  Unborn' <=> Unborn
<1>1. act'["create"] = act["create"]
  BY Names DEF Shape, Goto, Holding
<1> QED
  BY <1>1 DEF Unborn

\* Once it is past the registration, Create does not return to it.
LEMMA CloserKeepsUnborn ==
  ASSUME Shape, NEW a \in Closers, NEW where,
         act[a].at \notin {"idle", "started"}, where \notin {"idle", "started"}, Goto(a, where)
  PROVE  Unborn' <=> Unborn
<1>1. Moved(a, where, act[a].conv, act[a].ch)
  BY Moves, Names
<1> QED
  BY <1>1, Names DEF Moved, Unborn

\* What CreateStart and CreateAnnounce do is not seen.
LEMMA CreateStutters ==
  ASSUME IInv, CreateStart \/ CreateAnnounce \/ CreateAbort
  PROVE  Same
<1>1. CASE CreateStart
  <2>1. Moved("create", "started", act["create"].conv, act["create"].ch)
    BY <1>1, Moves, Names DEF CreateStart, IInv
  <2> QED
    BY <1>1, <2>1 DEF CreateStart, sessVars, histVars, Moved, At, Same, Unborn
<1>2. CASE CreateAnnounce
  <2>1. act'["create"].at \in {"delete", "ask"}
    BY <1>2, Moves, Holds, Names DEF CreateAnnounce, IInv, Moved
  <2> QED
    BY <1>2, <2>1 DEF CreateAnnounce, sessVars, histVars, At, Same, Unborn
<1>3. CASE CreateAbort
  <2>1. Moved("create", "failed", act["create"].conv, act["create"].ch)
    BY <1>3, Moves, Names DEF CreateAbort, IInv
  <2> QED
    BY <1>3, <2>1 DEF CreateAbort, histVars, Moved, At, Same, Unborn
<1> QED
  BY <1>1, <1>2, <1>3

\* Neither the agent, nor the receive loop, nor a user is seen.
LEMMA TurnsStutter ==
  ASSUME IInv,
         \/ \E q \in asked, ok \in BOOLEAN : Answer(q, ok)
         \/ Update \/ Exit \/ Reap
         \/ LoopInit \/ LoopSession \/ LoopError \/ LoopOther \/ LoopDeliver \/ LoopReady
         \/ \E c \in Convs : UserWaits(c)
         \/ UserWakes \/ UserReady \/ UserSends \/ UserEchoes \/ UserAsks
  PROVE  Same
<1> USE DEF Same, sessVars, histVars
<1>1. ASSUME NEW q \in asked, NEW ok \in BOOLEAN, Answer(q, ok) PROVE Same
  BY <1>1 DEF Answer, Unborn
<1>2. CASE Update \/ Exit \/ Reap
  BY <1>2 DEF Update, Exit, Reap, Unborn
<1>3. CASE LoopInit \/ LoopError
  BY <1>3 DEF LoopInit, LoopError, Take, Unborn
<1>4. CASE LoopSession \/ LoopOther \/ LoopDeliver \/ LoopReady
  <2>1. Unborn' <=> Unborn
    <3>1. (\E where : Goto("loop", where)) \/ \E where, c, ch : Holding("loop", where, c, ch)
      BY <1>4 DEF LoopSession, LoopOther, LoopDeliver, LoopReady
    <3> QED
      BY <3>1, OthersKeepUnborn, Names DEF IInv
  <2> QED
    BY <1>4, <2>1 DEF LoopSession, LoopOther, LoopDeliver, LoopReady
<1>5. ASSUME \/ \E c \in Convs : UserWaits(c)
             \/ UserWakes \/ UserReady \/ UserSends \/ UserEchoes \/ UserAsks
      PROVE  Same
  <2>1. Unborn' <=> Unborn
    <3>1. (\E where : Goto("user", where)) \/ \E where, c, ch : Holding("user", where, c, ch)
      BY <1>5 DEF UserWaits, UserWakes, Wakes, GivesUp, UserReady, UserSends, UserEchoes, UserAsks
    <3> QED
      BY <3>1, OthersKeepUnborn, Names DEF IInv
  <2> QED
    BY <1>5, <2>1 DEF UserWaits, UserWakes, UserReady, UserSends, UserEchoes, UserAsks
<1> QED
  BY <1>1, <1>2, <1>3, <1>4, <1>5

\* Of a restart only the roll to the next conversation and the end of the old one are seen.
LEMMA RestartStutters ==
  ASSUME IInv, RestartAnnounce \/ RestartAsk \/ RestartLooks \/ RestartWakes \/ RestartReady
  PROVE  Same
<1>1. \E where : Goto("restart", where)
  BY DEF RestartAnnounce, RestartAsk, RestartLooks, RestartWakes, RestartReady, GivesUp
<1>2. Unborn' <=> Unborn
  BY <1>1, OthersKeepUnborn, Names DEF IInv
<1> QED
  BY <1>2 DEF Same, sessVars, histVars, RestartAnnounce, RestartAsk, RestartLooks, RestartWakes,
              RestartReady

\* Of a close only the guarded delete and ConversationClosed are seen.
LEMMA CloseStutters ==
  ASSUME IInv,
         \/ \E c \in Convs : Stop(c)
         \/ WatchSees \/ DownBegins \/ DownSnapshot \/ DownCancels
         \/ \E a \in Closers : CloseKills(a) \/ CloseCleans(a)
  PROVE  Same
<1> USE DEF Same, sessVars, histVars
<1>1. ASSUME NEW c \in Convs, Stop(c) PROVE Same
  <2>1. Unborn' <=> Unborn
    BY <1>1, OthersKeepUnborn, Names DEF IInv, Stop
  <2> QED
    BY <1>1, <2>1 DEF Stop
<1>2. CASE WatchSees
  <2>1. Unborn' <=> Unborn
    BY <1>2, OthersKeepUnborn, Names DEF IInv, WatchSees
  <2> QED
    BY <1>2, <2>1 DEF WatchSees
<1>3. CASE DownBegins \/ DownSnapshot \/ DownCancels
  <2>1. (\E where : Goto("down", where)) \/ \E where, c, ch : Holding("down", where, c, ch)
    BY <1>3 DEF DownBegins, DownSnapshot, DownCancels
  <2>2. Unborn' <=> Unborn
    BY <2>1, OthersKeepUnborn, Names DEF IInv
  <2> QED
    BY <1>3, <2>2 DEF DownBegins, DownSnapshot, DownCancels
<1>4. ASSUME NEW a \in Closers, CloseKills(a) PROVE Same
  <2>1. Unborn' <=> Unborn
    BY <1>4, CloserKeepsUnborn DEF IInv, CloseKills, At
  <2> QED
    BY <1>4, <2>1 DEF CloseKills
<1>5. ASSUME NEW a \in Closers, CloseCleans(a) PROVE Same
  <2>1. Unborn' <=> Unborn
    BY <1>5, CloserKeepsUnborn DEF IInv, CloseCleans, At, Over
  <2> QED
    BY <1>5, <2>1 DEF CloseCleans
<1> QED
  BY <1>1, <1>2, <1>3, <1>4, <1>5

\* Create registers the session: the first conversation begins.
LEMMA RegisterBegins ==
  ASSUME IInv, CreateRegister \/ CreateStillborn
  PROVE  Life!Register(1)
<1>1. Moved("create", "announce", act["create"].conv, act["create"].ch)
  BY Moves, Names DEF CreateRegister, CreateStillborn, IInv
<1>2. Unborn /\ ~Unborn' /\ live' /\ ~live /\ conv = 1 /\ UNCHANGED <<conv, ends>>
  BY <1>1 DEF CreateRegister, CreateStillborn, histVars, At, Unborn, Moved, IInv, Endings
<1>3. \A c \in Convs : Phase(c) = "new" /\ Phase(c)' = IF c = 1 THEN "live" ELSE "new"
  BY <1>2, ConversationsAssumption DEF Phase, Registered, Convs
<1> QED
  BY <1>2, <1>3, First DEF Life!Register

\* The initialize of a process that is gone cannot be sent: the session is taken back.
LEMMA AskMayLeave ==
  ASSUME IInv, CreateAsk
  PROVE  Same \/ (1 \in Convs /\ Life!Leave(1))
<1>1. ~Unborn
  BY DEF CreateAsk, At, Unborn
<1>2. act'["create"].at \in {"over", "abort"}
  <2>1. CASE CanSend
    <3>1. act' = [act EXCEPT !["create"].at = "over", !["watch"].at = "watch"]
      BY <2>1 DEF CreateAsk
    <3>2. act = [b \in Actors |-> act[b]] /\ DOMAIN act["create"] = Fields
      BY Names DEF IInv, Shape
    <3> QED
      BY <3>1, <3>2, Names DEF Fields
  <2>2. CASE ~CanSend
    BY <2>2, Moves, Names DEF CreateAsk, IInv, Moved
  <2> QED
    BY <2>1, <2>2
<1>3. ~Unborn' /\ UNCHANGED <<conv, ends>>
  BY <1>2 DEF CreateAsk, histVars, Unborn
<1>4. CASE CanSend \/ ~live \/ conv # 1
  BY <1>1, <1>3, <1>4 DEF Same, CreateAsk
<1>5. CASE ~CanSend /\ live /\ conv = 1
  <2>1. ~live'
    BY <1>5 DEF CreateAsk
  <2>2. \A c \in Convs : Phase(c)' = IF c = 1 THEN "left" ELSE Phase(c)
    BY <1>1, <1>3, <1>5, <2>1, ConversationsAssumption DEF Phase, Registered, Convs
  <2>3. Phase(1) = "live"
    BY <1>5 DEF Phase, Registered
  <2> QED
    BY <1>3, <2>2, <2>3, First DEF Life!Leave
<1> QED
  BY <1>4, <1>5

\* A restart rolls the session to the next conversation.
LEMMA RestartRolls ==
  ASSUME IInv, NEW c \in Convs, Restart(c)
  PROVE  conv \in Convs /\ conv + 1 \in Convs /\ Life!Replace(conv, conv + 1)
<1>1. /\ conv \in Convs /\ conv + 1 \in Convs /\ conv' = conv + 1
      /\ live /\ live' /\ UNCHANGED ends
  BY ConversationsAssumption DEF Restart, Registered, histVars, Convs, IInv, Shape
<1>2. ~Unborn /\ ~Unborn'
  BY <1>1, OthersKeepUnborn, Names DEF Restart, IInv, Endings
<1>3. \A x \in Convs :
        Phase(x)' = IF x = conv + 1 THEN "live" ELSE IF x = conv THEN "left" ELSE Phase(x)
  BY <1>1, <1>2, ConversationsAssumption DEF Phase, Registered, Convs
<1>4. Phase(conv) = "live" /\ Phase(conv + 1) = "new"
  BY <1>1, ConversationsAssumption DEF Phase, Registered, Convs
<1> QED
  BY <1>1, <1>3, <1>4 DEF Life!Replace

\* Who removes the session makes its conversation leave; who comes later does nothing.
LEMMA DeleteLeaves ==
  ASSUME IInv, NEW a \in Closers, CloseDeletes(a)
  PROVE  Same \/ (conv \in Convs /\ Life!Leave(conv))
<1>1. (Unborn' <=> Unborn) /\ UNCHANGED <<conv, ends>>
  BY CloserKeepsUnborn DEF CloseDeletes, At, Over, histVars, IInv
<1>2. CASE ~Registered(act[a].conv)
  BY <1>1, <1>2 DEF Same, CloseDeletes, Registered
<1>3. CASE Registered(act[a].conv)
  <2>1. live /\ ~live' /\ ~Unborn
    BY <1>3 DEF CloseDeletes, Registered, IInv, Endings
  <2>2. conv \in Convs /\ conv \in Nat
    BY ConversationsAssumption DEF IInv, Shape, Convs
  <2>3. \A c \in Convs : Phase(c)' = IF c = conv THEN "left" ELSE Phase(c)
    BY <1>1, <2>1, <2>2 DEF Phase, Registered
  <2>4. Phase(conv) = "live"
    BY <2>1 DEF Phase, Registered
  <2> QED
    BY <1>1, <2>2, <2>3, <2>4 DEF Life!Leave
<1> QED
  BY <1>2, <1>3

\* Who tells of the end of a conversation is the only one, and tells of one that has left.
LEMMA EndIsTold ==
  ASSUME IInv, NEW a \in Actors, NEW c \in Convs, Ending(a, c), UNCHANGED <<live, conv>>,
         Unborn' <=> Unborn, ends' = [ends EXCEPT ![c] = @ + 1]
  PROVE  Life!Tell(c)
<1>1. ~Fresh(c) /\ ends[c] = 0
  BY DEF IInv, Endings
<1>2. Phase(c) = "left"
  BY <1>1 DEF Phase, Registered, Fresh
<1>3. \A x \in Convs : Phase(x)' = Phase(x)
  BY DEF Phase, Registered
<1>4. ends' = [ends EXCEPT ![c] = 1]
  BY <1>1
<1> QED
  BY <1>1, <1>2, <1>3, <1>4 DEF Life!Tell

\* The router, with whatever is called in whatever order, implements ConversationLife.
THEOREM Refinement == Spec => EachLivesOnce
<1>1. Init => Life!Init
  <2> SUFFICES ASSUME Init PROVE Life!Init
    OBVIOUS
  <2>1. Unborn /\ ~live /\ conv = 1 /\ ends = [c \in Convs |-> 0]
    BY Names DEF Init, Unborn, Idle
  <2>2. \A c \in Convs : Phase(c) = "new"
    BY <2>1, ConversationsAssumption DEF Phase, Registered, Convs
  <2> QED
    BY <2>1, <2>2 DEF Life!Init
<1>2. IInv /\ [Next]_vars => [Life!Next]_(Life!vars)
  <2> SUFFICES ASSUME IInv, [Next]_vars
               PROVE  Life!Next \/ UNCHANGED Life!vars
    OBVIOUS
  <2>1. CASE CreateRegister \/ CreateStillborn
    BY <2>1, RegisterBegins, First DEF Life!Next
  <2>2. CASE CreateAsk
    BY <2>2, AskMayLeave, SameStutters DEF Life!Next
  <2>3. ASSUME NEW c \in Convs, Restart(c)
        PROVE  Life!Next
    BY <2>3, RestartRolls DEF Life!Next
  <2>4. CASE RestartReplaces
    <3> DEFINE c == act["restart"].ch
    <3>1. Ending("restart", c) /\ UNCHANGED <<live, conv>> /\ ends' = [ends EXCEPT ![c] = @ + 1]
      BY <2>4 DEF RestartReplaces, sessVars, At, Ending
    <3>2. Unborn' <=> Unborn
      BY <2>4, OthersKeepUnborn, Names DEF RestartReplaces, IInv
    <3>3. c \in Convs \/ ends' = ends
      BY <3>1 DEF IInv, Shape
    <3> HIDE DEF c
    <3>4. CASE c \in Convs
      BY <3>1, <3>2, <3>4, EndIsTold, Names DEF Life!Next
    <3>5. CASE ends' = ends
      BY <3>1, <3>2, <3>5, SameStutters DEF Same
    <3> QED
      BY <3>3, <3>4, <3>5
  <2>5. ASSUME NEW a \in Closers, CloseDeletes(a)
        PROVE  Life!Next \/ UNCHANGED Life!vars
    BY <2>5, DeleteLeaves, SameStutters DEF Life!Next
  <2>6. ASSUME NEW a \in Closers, CloseTells(a)
        PROVE  Life!Next \/ UNCHANGED Life!vars
    <3> DEFINE c == act[a].conv
    <3>1. Ending(a, c) /\ UNCHANGED <<live, conv>> /\ ends' = [ends EXCEPT ![c] = @ + 1]
      BY <2>6 DEF CloseTells, sessVars, At, Ending
    <3>2. Unborn' <=> Unborn
      BY <2>6, CloserKeepsUnborn DEF CloseTells, At, IInv
    <3>3. c \in Convs \/ ends' = ends
      BY <3>1 DEF IInv, Shape
    <3> HIDE DEF c
    <3>4. CASE c \in Convs
      BY <3>1, <3>2, <3>4, EndIsTold, Names DEF Life!Next
    <3>5. CASE ends' = ends
      BY <3>1, <3>2, <3>5, SameStutters DEF Same
    <3> QED
      BY <3>3, <3>4, <3>5
  <2>7. CASE UNCHANGED vars
    BY <2>7, SameStutters DEF vars, sessVars, histVars, Same, Unborn
  <2> QED
    BY <2>1, <2>2, <2>3, <2>4, <2>5, <2>6, <2>7, SameStutters, CreateStutters, TurnsStutter,
       RestartStutters, CloseStutters
    DEF Next
<1> QED
  BY <1>1, <1>2, Invariant, PTL DEF Spec, EachLivesOnce, Life!Spec
=============================================================================
