----------------------------- MODULE TasksProofs -----------------------------
(***************************************************************************)
(* Theorems of module Tasks for every set of peers and of tasks, any       *)
(* number of updates, and a relay that forgets or does not.                *)
(***************************************************************************)
EXTENDS Tasks, SequenceTheorems, TLAPS

Calls == [msg : Messages, answer : Answers \union {None}]

LEMMA MessageTyped ==
  ASSUME NEW k \in {"task", "update"}, NEW a \in Peers, NEW b \in Peers, NEW t \in TaskIds,
         NEW n \in 0..MaxUpdates, NEW s \in Reported
  PROVE  Message(k, a, b, t, n, s) \in Messages
  BY DEF Message, Messages

\* A row that is there keeps its fields, a new one has them.
LEMMA RecordTyped ==
  ASSUME NEW old \in Rows \union {None}, NEW new \in Rows
  PROVE  Record(old, new) \in Rows
  <1>1. CASE old = None
    BY <1>1 DEF Record
  <1>2. CASE old # None
    <2>1. old \in Rows /\ new.status \in Statuses
      BY <1>2 DEF Rows
    <2>2. [old EXCEPT !.status = new.status] \in Rows
      BY <2>1 DEF Rows
    <2>. QED
      BY <1>2, <2>2 DEF Record
  <1>. QED
    BY <1>1, <1>2

LEMMA ReceivedTyped ==
  ASSUME NEW m \in Messages
  PROVE  Received(m) \in Rows /\ Received(m).status \in Reported
  BY DEF Received, NewRow, Messages, Rows, Statuses, Reported

LEMMA TasksOfTyped ==
  ASSUME NEW s \in Seq(Messages)
  PROVE  TasksOf(s) \subseteq TaskIds
  <1>1. \A i \in DOMAIN s : s[i] \in Messages
    BY ElementOfSeq, LenProperties
  <1>. QED
    BY <1>1 DEF TasksOf, Messages

LEMMA InitTyped == Init => TypeOK
  BY EmptySeq DEF Init, TypeOK, NoRows, Reported

\* A step of the peer that delegates or reports.
LEMMA CallsTyped ==
  ASSUME TypeOK, NEW a \in Peers, NEW b \in Peers, NEW t \in TaskIds, NEW s \in Reported,
         Delegate(a, b, t) \/ Update(a, t, s)
  PROVE  TypeOK'
  <1>1. CASE Delegate(a, b, t)
    <2>1. NewRow("delegated", b, TRUE, "pending") \in Rows
      BY DEF NewRow, Rows, Statuses, Reported
    <2>2. Message("task", a, b, t, 0, "pending") \in Messages
      BY MessageTyped, TasksAssumption DEF Reported
    <2>3. row' \in [Peers -> [TaskIds -> Rows \union {None}]]
      BY <1>1, <2>1 DEF Delegate, TypeOK
    <2>4. calls' \subseteq Calls
      BY <1>1, <2>2 DEF Delegate, TypeOK, Calls
    <2>. QED
      BY <1>1, <2>3, <2>4 DEF Delegate, TypeOK, Calls, relayVars, history
  <1>2. CASE Update(a, t, s)
    <2>1. row[a][t] \in Rows /\ row[a][t].peer \in Peers
      BY <1>2 DEF Update, TypeOK, Rows
    <2>2. [row[a][t] EXCEPT !.status = s] \in Rows
      BY <2>1 DEF Rows, Statuses
    <2>3. updates[t] \in Nat /\ updates[t] + 1 \in 0..MaxUpdates
      BY <1>2, TasksAssumption DEF Update, TypeOK
    <2>4. Message("update", a, row[a][t].peer, t, updates[t] + 1, s) \in Messages
      BY <2>1, <2>3, MessageTyped
    <2>5. row' = [row EXCEPT ![a] = [row[a] EXCEPT ![t] = [row[a][t] EXCEPT !.status = s]]]
      BY <1>2 DEF Update
    <2>6. row' \in [Peers -> [TaskIds -> Rows \union {None}]]
      BY <2>2, <2>5 DEF TypeOK
    <2>7. calls' \subseteq Calls
      BY <1>2, <2>4 DEF Update, TypeOK, Calls
    <2>8. own' \in [TaskIds -> Reported] /\ updates' \in [TaskIds -> Nat] /\ upset' \subseteq TaskIds
      BY <1>2, <2>3 DEF Update, TypeOK, Upset
    <2>. QED
      BY <1>2, <2>6, <2>7, <2>8 DEF Update, TypeOK, Calls, relayVars
  <1>. QED
    BY <1>1, <1>2

LEMMA ReachesTyped ==
  ASSUME TypeOK, NEW m \in Messages, NEW x, Reaches(m, x)
  PROVE  spent' \subseteq Messages /\ stored' \subseteq Messages
         /\ inbox' \in [Peers -> Seq(Messages)]
  <1>1. m.to \in Peers
    BY DEF Messages
  <1>2. Append(inbox[m.to], m) \in Seq(Messages)
    BY <1>1, AppendProperties DEF TypeOK
  <1>. QED
    BY <1>1, <1>2 DEF Reaches, TypeOK, relayVars

\* A step of a call or of the outbox.
LEMMA PostTyped ==
  ASSUME TypeOK, NEW c \in calls, Post(c)
  PROVE  TypeOK'
  <1>1. c \in Calls /\ c.msg \in Messages
    BY DEF TypeOK, Calls
  <1>2. PICK x \in Answers :
          /\ calls' = (calls \ {c}) \union {[c EXCEPT !.answer = x]}
          /\ \/ \E y : Reaches(c.msg, y)
             \/ UNCHANGED <<relayVars, stored>>
    BY DEF Post
  <1>3. calls' \subseteq Calls
    BY <1>1, <1>2 DEF TypeOK, Calls
  <1>4. spent' \subseteq Messages /\ stored' \subseteq Messages
        /\ inbox' \in [Peers -> Seq(Messages)]
    BY <1>1, <1>2, ReachesTyped DEF TypeOK, relayVars
  <1>. QED
    BY <1>3, <1>4 DEF Post, TypeOK, Calls

LEMMA ReturnTyped ==
  ASSUME TypeOK, NEW c \in calls, Return(c)
  PROVE  TypeOK'
  <1>1. c.msg \in Messages /\ c.msg.from \in Peers /\ c.msg.to \in Peers /\ c.msg.task \in TaskIds
    BY DEF TypeOK, Messages
  <1>2. NewRow("delegated", c.msg.to, TRUE, "failed") \in Rows
    BY <1>1 DEF NewRow, Rows, Statuses
  <1>3. Record(row[c.msg.from][c.msg.task], NewRow("delegated", c.msg.to, TRUE, "failed")) \in Rows
    BY <1>1, <1>2, RecordTyped DEF TypeOK
  <1>4. row' \in [Peers -> [TaskIds -> Rows \union {None}]]
    BY <1>1, <1>3 DEF Return, TypeOK
  <1>5. outbox' \subseteq Messages /\ upset' \subseteq TaskIds /\ calls' \subseteq calls
    BY <1>1 DEF Return, TypeOK, Upset
  <1>. QED
    BY <1>4, <1>5 DEF Return, TypeOK, relayVars

LEMMA OutboxTyped ==
  ASSUME TypeOK,
         \/ \E c \in calls : Die(c)
         \/ \E m \in outbox : Retry(m) \/ GiveUp(m)
  PROVE  TypeOK'
  <1>1. ASSUME NEW c \in calls, Die(c) PROVE TypeOK'
    <2>1. c.msg.task \in TaskIds
      BY DEF TypeOK, Messages
    <2>. QED
      BY <1>1, <2>1 DEF Die, TypeOK, Upset, relayVars
  <1>2. ASSUME NEW m \in outbox, Retry(m) PROVE TypeOK'
    <2>1. m \in Messages /\ m.task \in TaskIds
      BY DEF TypeOK, Messages
    <2>2. spent' \subseteq Messages /\ stored' \subseteq Messages
          /\ inbox' \in [Peers -> Seq(Messages)]
      BY <1>2, <2>1, ReachesTyped DEF Retry
    <2>3. outbox' \subseteq outbox /\ upset' \subseteq TaskIds
      BY <1>2, <2>1 DEF Retry, Upset, TypeOK
    <2>. QED
      BY <1>2, <2>2, <2>3 DEF Retry, TypeOK
  <1>3. ASSUME NEW m \in outbox, GiveUp(m) PROVE TypeOK'
    <2>1. m.task \in TaskIds
      BY DEF TypeOK, Messages
    <2>. QED
      BY <1>3, <2>1 DEF GiveUp, TypeOK, Upset, relayVars
  <1>. QED
    BY <1>1, <1>2, <1>3

\* A step of a daemon or of the relay.
LEMMA DaemonTyped ==
  ASSUME TypeOK, NEW p \in Peers, Poll(p) \/ Drop(p) \/ Handle(p)
  PROVE  TypeOK'
  <1>. DEFINE both == inbox[p] \o got[p]
  <1>0. <<>> \in Seq(Messages)
    BY EmptySeq
  <1>1. inbox[p] \in Seq(Messages) /\ got[p] \in Seq(Messages)
    BY DEF TypeOK
  <1>2. got[p] \o inbox[p] \in Seq(Messages) /\ both \in Seq(Messages)
    BY <1>1, ConcatProperties
  <1>. HIDE DEF both
  <1>3. CASE Poll(p)
    BY <1>0, <1>2, <1>3 DEF Poll, TypeOK, history
  <1>4. CASE Drop(p)
    <2>1. TasksOf(both) \subseteq TaskIds /\ TasksOf(got[p]) \subseteq TaskIds
      BY <1>1, <1>2, TasksOfTyped
    <2>2. /\ inbox' = inbox \/ inbox' = [inbox EXCEPT ![p] = <<>>]
          /\ upset' = upset \union TasksOf(both) \/ upset' = upset \union TasksOf(got[p])
          /\ got' = [got EXCEPT ![p] = <<>>] /\ stops' = stops + 1
      BY <1>4 DEF Drop, both
    <2>3. inbox' \in [Peers -> Seq(Messages)] /\ got' \in [Peers -> Seq(Messages)]
      BY <1>0, <2>2 DEF TypeOK
    <2>4. upset' \subseteq TaskIds /\ stops' \in Nat
      BY <2>1, <2>2 DEF TypeOK
    <2>. QED
      BY <1>4, <2>3, <2>4 DEF Drop, TypeOK
  <1>5. CASE Handle(p)
    <2>1. Head(got[p]) \in Messages /\ Tail(got[p]) \in Seq(Messages)
      BY <1>1, <1>5, HeadTailProperties DEF Handle
    <2>2. Head(got[p]).task \in TaskIds
      BY <2>1 DEF Messages
    <2>3. Record(row[p][Head(got[p]).task], Received(Head(got[p]))) \in Rows
      BY <2>1, <2>2, RecordTyped, ReceivedTyped DEF TypeOK
    <2>4. row' \in [Peers -> [TaskIds -> Rows \union {None}]]
      BY <1>5, <2>2, <2>3 DEF Handle, TypeOK
    <2>5. got' \in [Peers -> Seq(Messages)]
      BY <1>5, <2>1 DEF Handle, TypeOK
    <2>. QED
      BY <1>5, <2>4, <2>5 DEF Handle, TypeOK, relayVars, history
  <1>. QED
    BY <1>3, <1>4, <1>5

LEMMA RestartTyped == TypeOK /\ RelayRestart => TypeOK'
  <1>. SUFFICES ASSUME TypeOK, RelayRestart PROVE TypeOK'
    OBVIOUS
  <1>1. \A p \in Peers : TasksOf(inbox[p]) \subseteq TaskIds
    BY TasksOfTyped DEF TypeOK
  <1>2. Waiting \subseteq TaskIds
    BY <1>1 DEF Waiting
  <1>3. Again \subseteq TaskIds
    BY DEF Again, TypeOK, Messages
  <1>4. upset' \subseteq TaskIds /\ forgot' \subseteq TaskIds
    BY <1>2, <1>3 DEF RelayRestart, TypeOK
  <1>5. inbox' \in [Peers -> Seq(Messages)]
    BY EmptySeq DEF RelayRestart
  <1>. QED
    BY <1>4, <1>5 DEF RelayRestart, TypeOK

LEMMA StepTyped == TypeOK /\ [Next]_vars => TypeOK'
  <1>. SUFFICES ASSUME TypeOK, [Next]_vars PROVE TypeOK'
    OBVIOUS
  <1>1. CASE UNCHANGED vars
    BY <1>1 DEF vars, relayVars, history, TypeOK
  <1>2. CASE Next
    <2>1. ASSUME NEW a \in Peers, NEW b \in Peers, NEW t \in TaskIds, NEW s \in Reported,
                 Delegate(a, b, t) \/ Update(a, t, s)
          PROVE  TypeOK'
      BY <2>1, CallsTyped
    <2>2. "done" \in Reported
      BY DEF Reported
    <2>. QED
      BY <1>2, <2>1, <2>2, PostTyped, ReturnTyped, OutboxTyped, DaemonTyped, RestartTyped,
         TasksAssumption DEF Next
  <1>. QED
    BY <1>1, <1>2

\* Every reachable state has the expected shape.
THEOREM TypeCorrect == Spec => []TypeOK
  BY InitTyped, StepTyped, PTL DEF Spec

-----------------------------------------------------------------------------
(* What a failed task may not leave behind.                                *)

\* The messages of a task that an inbox took or a retry may still bring there.
About(t) == {m \in stored \union outbox : m.task = t}

Failed(p, t) == Delegated(p, t) /\ row[p][t].status = "failed"

\* What the relay has put into a peer's inbox.
StoredFor(p) == {m \in stored : m.to = p}

\* Between its record and the end of its call a task is nobody else's: its
\* message is the only thing there is.
Alone(c) ==
  c.msg.kind = "task" /\ c.answer \in {None, "client"} =>
    /\ About(c.msg.task) = {}
    /\ \A d \in calls : d.msg.task = c.msg.task => d = c

\* What is anywhere on the way back to a peer was stored, every message has a
\* row that it began with, and nobody is assigned a task without a message.
Causes ==
  /\ \A p \in Peers : \A i \in DOMAIN got[p] : got[p][i] \in StoredFor(p)
  /\ \A p \in Peers : \A i \in DOMAIN inbox[p] : inbox[p][i] \in StoredFor(p)
  /\ \A m \in stored \union outbox : \E p \in Peers : row[p][m.task] # None
  /\ \A c \in calls : \E p \in Peers : row[p][c.msg.task] # None
  /\ \A p \in Peers, t \in TaskIds : Assigned(p, t) => \E m \in stored : m.task = t
  /\ \A c \in calls : Alone(c)
  /\ \A p \in Peers, t \in TaskIds :
       Failed(p, t) => About(t) = {} /\ \A c \in calls : c.msg.task # t

LEMMA InitCauses == Init => Causes
  BY DEF Init, Causes, NoRows, Failed, Delegated, Assigned, About

\* clade_task: the task is new, and so is everything about it.
LEMMA DelegateCauses ==
  ASSUME TypeOK, Causes, NEW d \in Peers, NEW a \in Peers, NEW t \in TaskIds, Delegate(d, a, t)
  PROVE  Causes'
  <1>. DEFINE new == [msg |-> Message("task", d, a, t, 0, "pending"), answer |-> None]
              made == NewRow("delegated", a, TRUE, "pending")
  <1>1. new.msg.task = t /\ new.answer = None
    BY DEF Message
  <1>2. made.direction = "delegated" /\ made.status = "pending" /\ made # None
    <2>1. made \in Rows
      BY DEF NewRow, Rows, Statuses, Reported
    <2>2. made # None
      BY <2>1, NoneAssumption
    <2>3. made.direction = "delegated" /\ made.status = "pending"
      BY DEF NewRow
    <2>. QED
      BY <2>2, <2>3
  <1>3. /\ calls' = calls \union {new} /\ row' = [row EXCEPT ![d][t] = made]
        /\ outbox' = outbox /\ stored' = stored /\ inbox' = inbox /\ got' = got
        /\ \A p \in Peers : row[p][t] = None
    BY DEF Delegate, relayVars, history
  <1>. HIDE DEF new, made
  <1>4. row'[d][t] = made /\ \A p \in Peers, u \in TaskIds :
          p # d \/ u # t => row'[p][u] = row[p][u]
    BY <1>3 DEF TypeOK
  <1>5. About(t) = {} /\ \A c \in calls : c.msg.task # t
    BY <1>3 DEF Causes, About
  <1>6. \A u : About(u)' = About(u)
    BY <1>3 DEF About
  <1>7. \A c \in calls' : Alone(c)'
    BY <1>1, <1>3, <1>5, <1>6 DEF Causes, Alone
  <1>8. \A p \in Peers, u \in TaskIds :
          /\ Assigned(p, u)' => Assigned(p, u)
          /\ Failed(p, u)' => Failed(p, u) /\ u # t
    BY <1>2, <1>3, <1>4 DEF Assigned, Failed, Delegated
  <1>9. \A p \in Peers, u \in TaskIds :
          Failed(p, u)' => About(u)' = {} /\ \A c \in calls' : c.msg.task # u
    BY <1>1, <1>3, <1>6, <1>8 DEF Causes
  <1>10. \A p \in Peers, u \in TaskIds : row[p][u] # None => row'[p][u] # None
    BY <1>2, <1>4
  <1>11. (stored \union outbox) \union {c.msg : c \in calls} \subseteq Messages
    BY DEF TypeOK
  <1>12. \A m \in stored' \union outbox' : \E p \in Peers : row'[p][m.task] # None
    BY <1>3, <1>10, <1>11 DEF Causes, Messages
  <1>13. \A c \in calls' : \E p \in Peers : row'[p][c.msg.task] # None
    BY <1>1, <1>2, <1>3, <1>4, <1>10, <1>11 DEF Causes, Messages
  <1>. QED
    BY <1>3, <1>7, <1>8, <1>9, <1>12, <1>13 DEF Causes, StoredFor

\* clade_task_update: only somebody who got the task's message may report on it.
LEMMA UpdateCauses ==
  ASSUME TypeOK, Causes, NEW a \in Peers, NEW t \in TaskIds, NEW s \in Reported, Update(a, t, s)
  PROVE  Causes'
  <1>. DEFINE new == [msg |-> Message("update", a, row[a][t].peer, t, updates[t] + 1, s),
                      answer |-> None]
              mine == [row[a][t] EXCEPT !.status = s]
  <1>1. new.msg.task = t /\ new.msg.kind = "update"
    BY DEF Message
  <1>2. row[a][t] \in Rows /\ row[a][t].direction = "assigned"
    BY DEF Update, TypeOK
  <1>3. mine \in Rows /\ mine.direction = "assigned"
    BY <1>2 DEF Rows, Statuses
  <1>4. mine # None
    BY <1>3, NoneAssumption
  <1>5. /\ calls' = calls \union {new} /\ row' = [row EXCEPT ![a][t].status = s]
        /\ outbox' = outbox /\ stored' = stored /\ inbox' = inbox /\ got' = got
        /\ row[a][t] # None
    BY DEF Update, relayVars
  <1>6. row' = [row EXCEPT ![a] = [row[a] EXCEPT ![t] = mine]]
    BY <1>5
  <1>. HIDE DEF new, mine
  <1>7. row'[a][t] = mine /\ \A p \in Peers, u \in TaskIds :
          p # a \/ u # t => row'[p][u] = row[p][u]
    BY <1>6 DEF TypeOK
  <1>8. Assigned(a, t) /\ About(t) # {}
    BY <1>2, <1>5 DEF Causes, About, Assigned
  <1>9. \A u : About(u)' = About(u)
    BY <1>5 DEF About
  <1>10. \A c \in calls' : Alone(c)'
    <2>1. ASSUME NEW c \in calls PROVE Alone(c)'
      BY <1>1, <1>5, <1>8, <1>9, <2>1 DEF Causes, Alone
    <2>2. ASSUME NEW c, c.msg.kind = "update" PROVE Alone(c)'
      BY <2>2 DEF Alone
    <2>. QED
      BY <1>1, <1>5, <2>1, <2>2
  <1>11. \A p \in Peers, u \in TaskIds :
          /\ Assigned(p, u)' => Assigned(p, u)
          /\ Failed(p, u)' => Failed(p, u) /\ u # t
    <2>1. \A p \in Peers, u \in TaskIds : Assigned(p, u)' => Assigned(p, u)
      BY <1>7, <1>8 DEF Assigned
    <2>2. \A p \in Peers : ~Failed(p, t)
      BY <1>8 DEF Causes
    <2>3. ASSUME NEW p \in Peers, NEW u \in TaskIds, Failed(p, u)'
          PROVE  Failed(p, u) /\ u # t
      BY <1>3, <1>7, <2>2, <2>3 DEF Failed, Delegated
    <2>. QED
      BY <2>1, <2>3
  <1>12. \A p \in Peers, u \in TaskIds :
          Failed(p, u)' => About(u)' = {} /\ \A c \in calls' : c.msg.task # u
    BY <1>1, <1>5, <1>9, <1>11 DEF Causes
  <1>13. \A p \in Peers, u \in TaskIds : row[p][u] # None => row'[p][u] # None
    BY <1>4, <1>7
  <1>14. (stored \union outbox) \union {c.msg : c \in calls} \subseteq Messages
    BY DEF TypeOK
  <1>15. \A m \in stored' \union outbox' : \E p \in Peers : row'[p][m.task] # None
    BY <1>5, <1>13, <1>14 DEF Causes, Messages
  <1>16. \A c \in calls' : \E p \in Peers : row'[p][c.msg.task] # None
    BY <1>1, <1>4, <1>5, <1>7, <1>13, <1>14 DEF Causes, Messages
  <1>. QED
    BY <1>5, <1>10, <1>11, <1>12, <1>15, <1>16 DEF Causes, StoredFor

\* The relay takes nothing but the message that was posted, and puts it where
\* Causes can see it.
LEMMA ReachesKeeps ==
  ASSUME TypeOK, Causes, NEW m \in Messages, NEW x, Reaches(m, x)
  PROVE  /\ stored' = stored \/ stored' = stored \union {m}
         /\ x = "client" => stored' = stored
         /\ \A p \in Peers : \A i \in DOMAIN inbox'[p] : inbox'[p][i] \in StoredFor(p)'
  <1>1. m.to \in Peers /\ inbox[m.to] \in Seq(Messages)
    BY DEF Messages, TypeOK
  <1>2. CASE UNCHANGED <<inbox, stored>>
    BY <1>2 DEF Causes, StoredFor
  <1>3. CASE /\ x = "ok" /\ stored' = stored \union {m}
             /\ inbox' = [inbox EXCEPT ![m.to] = Append(inbox[m.to], m)]
    <2>1. \A i \in DOMAIN Append(inbox[m.to], m) :
            /\ Append(inbox[m.to], m)[i] \in stored \union {m}
            /\ Append(inbox[m.to], m)[i].to = m.to
      BY <1>1, AppendProperties, LenProperties DEF Causes, StoredFor
    <2>2. \A p \in Peers : inbox'[p] = IF p = m.to THEN Append(inbox[m.to], m) ELSE inbox[p]
      BY <1>1, <1>3 DEF TypeOK
    <2>3. \A p \in Peers : \A i \in DOMAIN inbox'[p] : inbox'[p][i] \in StoredFor(p)'
      BY <1>3, <2>1, <2>2 DEF Causes, StoredFor
    <2>. QED
      BY <1>3, <2>3
  <1>. QED
    BY <1>2, <1>3 DEF Reaches, relayVars

\* A post tells the relay about its own task only.
LEMMA PostCauses ==
  ASSUME TypeOK, Causes, NEW c \in calls, Post(c)
  PROVE  Causes'
  <1>1. c \in Calls /\ c.msg \in Messages /\ c.answer = None
    BY DEF TypeOK, Calls, Post
  <1>2. PICK x \in Answers :
          /\ calls' = (calls \ {c}) \union {[c EXCEPT !.answer = x]}
          /\ \/ x \notin {"net", "reset"} /\ Reaches(c.msg, x)
             \/ x \in {"net", "reset"} /\ \E y \in {"ok", "server"} : Reaches(c.msg, y)
             \/ x \in {"net", "reset"} /\ UNCHANGED <<relayVars, stored>>
    BY DEF Post
  <1>. DEFINE new == [c EXCEPT !.answer = x]
  <1>3. new.msg = c.msg /\ new.answer = x /\ calls' = (calls \ {c}) \union {new}
    BY <1>1, <1>2 DEF Calls
  <1>4. /\ stored' = stored \/ stored' = stored \union {c.msg}
        /\ x = "client" => stored' = stored
        /\ \A p \in Peers : \A i \in DOMAIN inbox'[p] : inbox'[p][i] \in StoredFor(p)'
    BY <1>1, <1>2, ReachesKeeps DEF relayVars, Causes, StoredFor
  <1>. HIDE DEF new
  <1>5. outbox' = outbox /\ row' = row /\ got' = got
    BY DEF Post
  <1>6. \A u : About(u)' = About(u) \/ u = c.msg.task
    BY <1>4, <1>5 DEF About
  <1>7. x = "client" => About(c.msg.task)' = About(c.msg.task)
    BY <1>4, <1>5 DEF About
  <1>8. x # None
    BY NoneAssumption
  <1>9. ASSUME NEW d \in calls' PROVE Alone(d)'
    <2>1. CASE d = new
      <3>. SUFFICES ASSUME c.msg.kind = "task", x \in {None, "client"}
                    PROVE  /\ About(c.msg.task)' = {}
                           /\ \A e \in calls' : e.msg.task = c.msg.task => e = new
        BY <1>3, <2>1 DEF Alone
      <3>1. About(c.msg.task) = {} /\ \A e \in calls : e.msg.task = c.msg.task => e = c
        BY <1>1 DEF Causes, Alone
      <3>. QED
        BY <1>3, <1>7, <1>8, <3>1
    <2>2. CASE d # new
      <3>. SUFFICES ASSUME d.msg.kind = "task", d.answer \in {None, "client"}
                    PROVE  /\ About(d.msg.task)' = {}
                           /\ \A e \in calls' : e.msg.task = d.msg.task => e = d
        BY DEF Alone
      <3>1. d \in calls /\ d # c
        BY <1>3, <1>9, <2>2
      <3>2. About(d.msg.task) = {} /\ \A e \in calls : e.msg.task = d.msg.task => e = d
        BY <3>1 DEF Causes, Alone
      <3>3. d.msg.task # c.msg.task
        BY <3>1, <3>2
      <3>. QED
        BY <1>3, <1>6, <3>2, <3>3
    <2>. QED
      BY <2>1, <2>2
  <1>10. \A p \in Peers, u \in TaskIds :
          Failed(p, u)' => About(u)' = {} /\ \A d \in calls' : d.msg.task # u
    BY <1>3, <1>5, <1>6 DEF Causes, Failed, Delegated
  <1>11. \A d \in calls' : \E p \in Peers : row'[p][d.msg.task] # None
    BY <1>3, <1>5 DEF Causes
  <1>12. \A m \in stored' \union outbox' : \E p \in Peers : row'[p][m.task] # None
    BY <1>4, <1>5 DEF Causes
  <1>13. \A p \in Peers : \A i \in DOMAIN got'[p] : got'[p][i] \in StoredFor(p)'
    BY <1>4, <1>5 DEF Causes, StoredFor
  <1>14. \A p \in Peers, u \in TaskIds : Assigned(p, u)' => \E m \in stored' : m.task = u
    BY <1>4, <1>5 DEF Causes, Assigned
  <1>. QED
    BY <1>4, <1>9, <1>10, <1>11, <1>12, <1>13, <1>14 DEF Causes

\* The end of a call: the message goes into the outbox, or the task is given up.
LEMMA ReturnCauses ==
  ASSUME TypeOK, Causes, NEW c \in calls, Return(c)
  PROVE  Causes'
  <1>. DEFINE m == c.msg
              old == row[m.from][m.task]
              new == Record(old, NewRow("delegated", m.to, TRUE, "failed"))
  <1>1. /\ m \in Messages /\ m.from \in Peers /\ m.to \in Peers /\ m.task \in TaskIds
        /\ old \in Rows \union {None}
    BY DEF TypeOK, Messages
  <1>2. NewRow("delegated", m.to, TRUE, "failed") \in Rows
    BY <1>1 DEF NewRow, Rows, Statuses
  <1>3. new \in Rows
    BY <1>1, <1>2, RecordTyped
  <1>4. new # None
    BY <1>3, NoneAssumption
  <1>5. new.direction = "assigned" => old # None /\ old.direction = "assigned"
    <2>1. CASE old = None
      BY <2>1 DEF Record, NewRow
    <2>2. CASE old # None
      BY <1>1, <2>2 DEF Record, Rows
    <2>. QED
      BY <2>1, <2>2
  <1>6. /\ stored' = stored /\ inbox' = inbox /\ got' = got /\ calls' = calls \ {c}
        /\ outbox' = IF Queues(c.answer) THEN outbox \union {m} ELSE outbox
        /\ row' = IF m.kind = "task" /\ IsError(c.answer)
                  THEN [row EXCEPT ![m.from][m.task] = new] ELSE row
    BY DEF Return, relayVars
  <1>. HIDE DEF m, old, new
  <1>7. Alone(c) /\ \A d \in calls : Alone(d)
    BY DEF Causes
  <1>8. ASSUME NEW d \in calls' PROVE Alone(d)'
    <2>. SUFFICES ASSUME d.msg.kind = "task", d.answer \in {None, "client"}
                  PROVE  /\ About(d.msg.task)' = {}
                         /\ \A e \in calls' : e.msg.task = d.msg.task => e = d
      BY DEF Alone
    <2>1. d \in calls /\ d # c
      BY <1>6, <1>8
    <2>2. About(d.msg.task) = {} /\ \A e \in calls : e.msg.task = d.msg.task => e = d
      BY <2>1 DEF Causes, Alone
    <2>3. d.msg.task # m.task
      BY <2>1, <2>2 DEF m
    <2>4. About(d.msg.task)' = {}
      BY <1>6, <2>2, <2>3 DEF About
    <2>. QED
      BY <1>6, <2>2, <2>4
  <1>9. \A p \in Peers, u \in TaskIds :
          /\ row[p][u] # None => row'[p][u] # None
          /\ Assigned(p, u)' => Assigned(p, u)
    <2>1. CASE row' = row
      BY <2>1 DEF Assigned
    <2>2. CASE row' = [row EXCEPT ![m.from][m.task] = new]
      <3>1. \A p \in Peers, u \in TaskIds :
              row'[p][u] = IF p = m.from /\ u = m.task THEN new ELSE row[p][u]
        BY <1>1, <2>2 DEF TypeOK
      <3>. QED
        BY <1>4, <1>5, <3>1 DEF Assigned, old
    <2>. QED
      BY <1>6, <2>1, <2>2
  <1>10. ASSUME NEW p \in Peers, NEW u \in TaskIds, Failed(p, u)'
         PROVE  About(u)' = {} /\ \A d \in calls' : d.msg.task # u
    <2>1. CASE Failed(p, u)
      <3>1. u # m.task /\ About(u) = {} /\ \A d \in calls : d.msg.task # u
        BY <2>1 DEF Causes, m
      <3>. QED
        BY <1>6, <3>1 DEF About
    <2>2. CASE ~Failed(p, u)
      <3>1. row'[p][u] # row[p][u]
        BY <1>10, <2>2 DEF Failed, Delegated
      <3>2. u = m.task /\ m.kind = "task" /\ IsError(c.answer)
        BY <1>1, <1>6, <3>1 DEF TypeOK
      <3>3. c.answer = "client" /\ outbox' = outbox
        BY <1>6, <3>2 DEF IsError, Queues
      <3>4. About(u) = {} /\ \A d \in calls : d.msg.task = u => d = c
        BY <1>7, <3>2, <3>3 DEF Alone, m
      <3>. QED
        BY <1>6, <3>3, <3>4 DEF About
    <2>. QED
      BY <2>1, <2>2
  <1>11. \A d \in stored \union outbox \union {m} :
           \E p \in Peers : row[p][d.task] # None /\ d.task \in TaskIds
    <2>1. \A d \in stored \union outbox \union {m} : d.task \in TaskIds
      BY <1>1 DEF TypeOK, Messages
    <2>. QED
      BY <2>1 DEF Causes, m
  <1>12. \A d \in stored' \union outbox' : \E p \in Peers : row'[p][d.task] # None
    BY <1>6, <1>9, <1>11
  <1>13. \A d \in calls' : \E p \in Peers : row'[p][d.msg.task] # None
    <2>1. \A d \in calls : d.msg.task \in TaskIds
      BY DEF TypeOK, Messages
    <2>. QED
      BY <1>6, <1>9, <2>1 DEF Causes
  <1>. QED
    BY <1>6, <1>8, <1>9, <1>10, <1>12, <1>13 DEF Causes, StoredFor

\* Where nothing new is stored, queued, begun or recorded, nothing needs a new
\* cause.
LEMMA LessCauses ==
  ASSUME Causes, row' = row, calls' \subseteq calls, stored \subseteq stored',
         stored' \union outbox' \subseteq stored \union outbox,
         \A p \in Peers : \A i \in DOMAIN got'[p] : got'[p][i] \in StoredFor(p)',
         \A p \in Peers : \A i \in DOMAIN inbox'[p] : inbox'[p][i] \in StoredFor(p)'
  PROVE  Causes'
  <1>1. \A u : About(u)' \subseteq About(u)
    BY DEF About
  <1>2. \A c \in calls' : Alone(c)'
    BY <1>1 DEF Causes, Alone
  <1>3. \A p \in Peers, u \in TaskIds :
          Failed(p, u)' => About(u)' = {} /\ \A c \in calls' : c.msg.task # u
    BY <1>1 DEF Causes, Failed, Delegated
  <1>. QED
    BY <1>2, <1>3 DEF Causes, Assigned

LEMMA OutboxCauses ==
  ASSUME TypeOK, Causes,
         \/ \E c \in calls : Die(c)
         \/ \E m \in outbox : Retry(m) \/ GiveUp(m)
  PROVE  Causes'
  <1>1. ASSUME NEW c \in calls, Die(c) PROVE Causes'
    BY <1>1, LessCauses DEF Die, Causes, relayVars, StoredFor
  <1>2. ASSUME NEW m \in outbox, GiveUp(m) PROVE Causes'
    BY <1>2, LessCauses DEF GiveUp, Causes, relayVars, StoredFor
  <1>3. ASSUME NEW m \in outbox, Retry(m) PROVE Causes'
    <2>1. m \in Messages
      BY DEF TypeOK
    <2>2. /\ stored' = stored \/ stored' = stored \union {m}
          /\ \A p \in Peers : \A i \in DOMAIN inbox'[p] : inbox'[p][i] \in StoredFor(p)'
      BY <1>3, <2>1, ReachesKeeps DEF Retry
    <2>3. outbox' \subseteq outbox /\ row' = row /\ calls' = calls /\ got' = got
      BY <1>3 DEF Retry
    <2>4. \A p \in Peers : \A i \in DOMAIN got'[p] : got'[p][i] \in StoredFor(p)'
      BY <2>2, <2>3 DEF Causes, StoredFor
    <2>. QED
      BY <2>2, <2>3, <2>4, LessCauses
  <1>. QED
    BY <1>1, <1>2, <1>3

LEMMA ConcatElements ==
  ASSUME NEW s \in Seq(Messages), NEW u \in Seq(Messages), NEW S,
         \A i \in DOMAIN s : s[i] \in S, \A i \in DOMAIN u : u[i] \in S
  PROVE  \A i \in DOMAIN (s \o u) : (s \o u)[i] \in S
  <1>1. Len(s) \in Nat /\ Len(u) \in Nat /\ DOMAIN s = 1..Len(s) /\ DOMAIN u = 1..Len(u)
    BY LenProperties
  <1>2. s \o u \in Seq(Messages) /\ Len(s \o u) = Len(s) + Len(u)
    BY ConcatProperties
  <1>3. DOMAIN (s \o u) = 1..(Len(s) + Len(u))
    BY <1>2, LenProperties
  <1>. SUFFICES ASSUME NEW i \in 1..(Len(s) + Len(u)) PROVE (s \o u)[i] \in S
    BY <1>3
  <1>4. (s \o u)[i] = IF i <= Len(s) THEN s[i] ELSE u[i - Len(s)]
    BY <1>1, ConcatProperties
  <1>5. CASE i <= Len(s)
    BY <1>1, <1>4, <1>5
  <1>6. CASE ~(i <= Len(s))
    <2>1. i - Len(s) \in DOMAIN u
      BY <1>1, <1>6
    <2>. QED
      BY <1>4, <1>6, <2>1
  <1>. QED
    BY <1>5, <1>6

LEMMA DaemonCauses ==
  ASSUME TypeOK, Causes, NEW p \in Peers, Poll(p) \/ Drop(p) \/ Handle(p)
  PROVE  Causes'
  <1>1. inbox[p] \in Seq(Messages) /\ got[p] \in Seq(Messages)
    BY DEF TypeOK
  <1>2. \A i \in DOMAIN (got[p] \o inbox[p]) : (got[p] \o inbox[p])[i] \in StoredFor(p)
    BY <1>1, ConcatElements DEF Causes, StoredFor
  <1>e. DOMAIN <<>> = {}
    BY LenProperties, EmptySeq
  <1>s. stored' = stored => \A q \in Peers : StoredFor(q)' = StoredFor(q)
    BY DEF StoredFor
  <1>3. CASE Poll(p)
    <2>d. /\ got' = [got EXCEPT ![p] = got[p] \o inbox[p]]
          /\ inbox' = [inbox EXCEPT ![p] = <<>>] /\ stored' = stored
      BY <1>3 DEF Poll, history
    <2>1. /\ \A q \in Peers : \A i \in DOMAIN got'[q] : got'[q][i] \in StoredFor(q)'
          /\ \A q \in Peers : \A i \in DOMAIN inbox'[q] : inbox'[q][i] \in StoredFor(q)'
      BY <1>2, <1>e, <1>s, <2>d DEF Causes, TypeOK
    <2>. QED
      BY <1>3, <2>1, LessCauses DEF Poll, history, StoredFor
  <1>4. CASE Drop(p)
    <2>d. /\ got' = [got EXCEPT ![p] = <<>>]
          /\ inbox' = inbox \/ inbox' = [inbox EXCEPT ![p] = <<>>]
          /\ stored' = stored
      BY <1>4 DEF Drop
    <2>1. \A q \in Peers : \A i \in DOMAIN got'[q] : got'[q][i] \in StoredFor(q)'
      BY <1>e, <1>s, <2>d DEF Causes, TypeOK
    <2>2. \A q \in Peers : inbox'[q] = inbox[q] \/ inbox'[q] = <<>>
      BY <2>d DEF TypeOK
    <2>3. \A q \in Peers : \A i \in DOMAIN inbox'[q] : inbox'[q][i] \in StoredFor(q)'
      BY <1>e, <1>s, <2>d, <2>2 DEF Causes
    <2>. QED
      BY <1>4, <2>1, <2>3, LessCauses DEF Drop, StoredFor
  <1>5. CASE Handle(p)
    <2>. DEFINE m == Head(got[p])
                old == row[p][m.task]
                new == Record(old, Received(m))
    <2>1. m \in Messages /\ m \in stored /\ m.task \in TaskIds
      <3>1. m = got[p][1] /\ 1 \in DOMAIN got[p]
        BY <1>1, <1>5, HeadTailProperties, LenProperties, EmptySeq DEF Handle
      <3>2. m \in Messages /\ m \in stored
        BY <1>1, <3>1, ElementOfSeq, LenProperties DEF Causes, StoredFor
      <3>. QED
        BY <3>2 DEF Messages
    <2>2. /\ row' = [row EXCEPT ![p][m.task] = new] /\ got' = [got EXCEPT ![p] = Tail(got[p])]
          /\ calls' = calls /\ outbox' = outbox /\ stored' = stored /\ inbox' = inbox
      BY <1>5 DEF Handle, relayVars, history
    <2>3. Received(m) \in Rows /\ Received(m).status \in Reported
      BY <2>1, ReceivedTyped
    <2>4. old \in Rows \union {None}
      BY <2>1 DEF TypeOK
    <2>5. new \in Rows
      BY <2>3, <2>4, RecordTyped
    <2>6. new.status # "failed"
      <3>1. new.status = Received(m).status
        BY <2>3, <2>4 DEF Record, Rows
      <3>. QED
        BY <2>3, <3>1 DEF Reported
    <2>7. new # None
      BY <2>5, NoneAssumption
    <2>. HIDE DEF old, new
    <2>8. \A q \in Peers, u \in TaskIds :
            row'[q][u] = IF q = p /\ u = m.task THEN new ELSE row[q][u]
      BY <2>1, <2>2 DEF TypeOK
    <2>. HIDE DEF m
    <2>9. \A i \in DOMAIN Tail(got[p]) : Tail(got[p])[i] \in StoredFor(p)
      BY <1>1, <1>5, HeadTailProperties, LenProperties DEF Handle, Causes, StoredFor
    <2>10. \A q \in Peers : \A i \in DOMAIN got'[q] : got'[q][i] \in StoredFor(q)'
      BY <2>2, <2>9 DEF Causes, TypeOK, StoredFor
    <2>11. \A u : About(u)' = About(u)
      BY <2>2 DEF About
    <2>12. \A c \in calls' : Alone(c)'
      BY <2>2, <2>11 DEF Alone, Causes
    <2>13. \A q \in Peers, u \in TaskIds : Assigned(q, u)' => \E d \in stored : d.task = u
      BY <2>1, <2>8 DEF Assigned, Causes
    <2>14. \A q \in Peers, u \in TaskIds : Failed(q, u)' => Failed(q, u)
      BY <2>6, <2>8 DEF Failed, Delegated
    <2>15. \A q \in Peers, u \in TaskIds : row[q][u] # None => row'[q][u] # None
      BY <2>7, <2>8
    <2>16. (stored \union outbox) \union {c.msg : c \in calls} \subseteq Messages
      BY DEF TypeOK
    <2>17. /\ \A d \in stored \union outbox : \E q \in Peers : row'[q][d.task] # None
           /\ \A c \in calls : \E q \in Peers : row'[q][c.msg.task] # None
      BY <2>15, <2>16 DEF Causes, Messages
    <2>. QED
      BY <2>2, <2>10, <2>11, <2>12, <2>13, <2>14, <2>17 DEF Causes, StoredFor
  <1>. QED
    BY <1>3, <1>4, <1>5

LEMMA StepCauses == TypeOK /\ Causes /\ [Next]_vars => Causes'
  <1>. SUFFICES ASSUME TypeOK, Causes, [Next]_vars PROVE Causes'
    OBVIOUS
  <1>1. CASE UNCHANGED vars
    BY <1>1, LessCauses DEF vars, relayVars, history, Causes, StoredFor
  <1>2. CASE RelayRestart
    <2>1. \A p \in Peers : DOMAIN inbox'[p] = {}
      BY <1>2, LenProperties, EmptySeq DEF RelayRestart
    <2>. QED
      BY <1>2, <2>1, LessCauses DEF RelayRestart, Causes, StoredFor
  <1>3. CASE Next /\ ~RelayRestart
    BY <1>3, DelegateCauses, UpdateCauses, PostCauses, ReturnCauses, OutboxCauses, DaemonCauses,
       TasksAssumption DEF Next
  <1>. QED
    BY <1>1, <1>2, <1>3

\* main.py, clade_task: a task marked failed for its delegator is at nobody's, and
\* no inbox and no retry has its message.
THEOREM FailedNeverArrivesHolds == Spec => []FailedNeverArrives
  <1>1. Causes => FailedNeverArrives
    BY DEF Causes, Failed, FailedNeverArrives, About
  <1>2. TypeOK /\ Causes /\ [Next]_vars => (TypeOK /\ Causes)'
    BY StepTyped, StepCauses
  <1>3. Init => TypeOK /\ Causes
    BY InitTyped, InitCauses
  <1>. QED
    BY <1>1, <1>2, <1>3, PTL DEF Spec

-----------------------------------------------------------------------------
(* The two rows of a task.                                                 *)

\* What a retry, a call or an inbox may still bring to its receiver.
Posted == outbox \union {c.msg : c \in calls}
Sent == stored \union Posted

\* A message has the row it was made from at its sender, and goes to the peer
\* that row names.
Backed(m) ==
  /\ m.from # m.to
  /\ row[m.from][m.task] # None /\ row[m.from][m.task].peer = m.to
  /\ m.kind = "task" => m.n = 0 /\ m.status = "pending" /\ Delegated(m.from, m.task)
  /\ m.kind = "update" => Assigned(m.from, m.task)

OneDelegator ==
  \A p, q \in Peers, t \in TaskIds : Delegated(p, t) /\ Delegated(q, t) => p = q

Mirrored == OneDelegator /\ RowsMirror /\ \A m \in Sent : Backed(m)

\* The row of p names a delegator, whose row names p.
Named(p, t) ==
  LET d == row[p][t].peer IN Delegated(d, t) /\ row[d][t].peer = p

\* A row stays what it is, but for its status.
RowsStay ==
  \A p \in Peers, t \in TaskIds :
    row[p][t] # None =>
      /\ row'[p][t] # None
      /\ row'[p][t].direction = row[p][t].direction
      /\ row'[p][t].peer = row[p][t].peer
      /\ row'[p][t].hasBrief = row[p][t].hasBrief

NoNewRow == \A p \in Peers, t \in TaskIds : row'[p][t] # None => row[p][t] # None

\* A row that is there and is recorded again: everything but the status stays.
LEMMA RecordStays ==
  ASSUME NEW old \in Rows, NEW new \in Rows
  PROVE  /\ Record(old, new) # None
         /\ Record(old, new).direction = old.direction
         /\ Record(old, new).peer = old.peer
         /\ Record(old, new).hasBrief = old.hasBrief
         /\ Record(old, new).status = new.status
  <1>1. old # None
    BY NoneAssumption
  <1>2. Record(old, new) = [old EXCEPT !.status = new.status]
    BY <1>1 DEF Record
  <1>. QED
    BY <1>2, RecordTyped, NoneAssumption DEF Rows

LEMMA BackedStays ==
  ASSUME RowsStay, NEW m \in Messages, Backed(m)
  PROVE  Backed(m)'
  <1>1. m.from \in Peers /\ m.task \in TaskIds
    BY DEF Messages
  <1>2. RowsStay
    OBVIOUS
  <1>. QED
    BY <1>1, <1>2 DEF Backed, RowsStay, Delegated, Assigned

LEMMA SentTyped == TypeOK => Sent \subseteq Messages
  BY DEF TypeOK, Sent, Posted

\* Where no row is new the rows mirror each other as before.
LEMMA MirrorStays ==
  ASSUME TypeOK, Mirrored, RowsStay, NoNewRow, \A m \in Sent' : m \in Sent \/ Backed(m)'
  PROVE  Mirrored'
  <1>1. \A p \in Peers, t \in TaskIds :
          /\ Delegated(p, t)' <=> Delegated(p, t)
          /\ Assigned(p, t)' <=> Assigned(p, t)
          /\ row[p][t] # None => row'[p][t].peer = row[p][t].peer
          /\ row'[p][t] # None => row[p][t] # None /\ row'[p][t].hasBrief = row[p][t].hasBrief
    BY DEF RowsStay, NoNewRow, Delegated, Assigned
  <1>2. OneDelegator'
    BY <1>1 DEF Mirrored, OneDelegator
  <1>3. ASSUME NEW p \in Peers, NEW t \in TaskIds, Assigned(p, t)'
        PROVE  Named(p, t)'
    <2>1. PICK d : d = row[p][t].peer
      OBVIOUS
    <2>2. Assigned(p, t) /\ row'[p][t].peer = d
      BY <1>1, <1>3, <2>1 DEF Assigned
    <2>3. d \in Peers
      BY <2>1, <2>2 DEF TypeOK, Rows, Assigned
    <2>4. Delegated(d, t) /\ row[d][t].peer = p
      BY <2>1, <2>2 DEF Mirrored, RowsMirror
    <2>. QED
      BY <1>1, <2>2, <2>3, <2>4 DEF Delegated, Named
  <1>4. RowsMirror'
    BY <1>1, <1>3 DEF RowsMirror, Mirrored, Named
  <1>5. \A m \in Sent' : Backed(m)'
    BY BackedStays, SentTyped DEF Mirrored
  <1>. QED
    BY <1>2, <1>4, <1>5 DEF Mirrored

\* A call is about to post its message.
LEMMA CallPosts ==
  ASSUME NEW msg, calls' = calls \union {[msg |-> msg, answer |-> None]},
         outbox' = outbox, stored' = stored
  PROVE  Sent' = Sent \union {msg} /\ Posted' = Posted \union {msg}
  <1>1. PICK call : call = [msg |-> msg, answer |-> None]
    OBVIOUS
  <1>2. calls' = calls \union {call} /\ call.msg = msg
    BY <1>1
  <1>. QED
    BY <1>2 DEF Sent, Posted

\* What neither delegates nor reports.
OtherStep ==
  \/ \E c \in calls : Post(c) \/ Return(c) \/ Die(c)
  \/ \E m \in outbox : Retry(m) \/ GiveUp(m)
  \/ \E p \in Peers : Poll(p) \/ Drop(p) \/ Handle(p)
  \/ RelayRestart \/ UNCHANGED vars

LEMMA NextSplit ==
  ASSUME [Next]_vars
  PROVE  \/ OtherStep
         \/ \E d, a \in Peers, t \in TaskIds : d # a /\ Delegate(d, a, t)
         \/ \E a \in Peers, t \in TaskIds, s \in Reported : Update(a, t, s)
  BY TasksAssumption DEF Next, OtherStep

\* What is sent is sent anew by clade_task and clade_task_update alone.
LEMMA NothingNewSent ==
  ASSUME TypeOK, OtherStep
  PROVE  Sent' \subseteq Sent /\ Posted' \subseteq Posted /\ updates' = updates /\ own' = own
  <1>1. ASSUME NEW m, NEW x, Reaches(m, x), m \in Posted PROVE stored' \subseteq Sent
    BY <1>1 DEF Reaches, Sent, relayVars
  <1>2. ASSUME NEW c \in calls, Post(c) PROVE Sent' \subseteq Sent /\ Posted' \subseteq Posted
    <2>1. PICK x \in Answers :
            /\ calls' = (calls \ {c}) \union {[c EXCEPT !.answer = x]}
            /\ \/ x \notin {"net", "reset"} /\ Reaches(c.msg, x)
               \/ x \in {"net", "reset"} /\ \E y \in {"ok", "server"} : Reaches(c.msg, y)
               \/ x \in {"net", "reset"} /\ UNCHANGED <<relayVars, stored>>
      BY <1>2 DEF Post
    <2>2. [c EXCEPT !.answer = x].msg = c.msg
      BY DEF TypeOK
    <2>3. {d.msg : d \in calls'} \subseteq {d.msg : d \in calls} /\ c.msg \in Posted
      BY <2>1, <2>2 DEF Posted
    <2>4. stored' \subseteq Sent
      BY <1>1, <2>1, <2>3 DEF Sent
    <2>. QED
      BY <1>2, <2>3, <2>4 DEF Post, Sent, Posted
  <1>3. ASSUME NEW c \in calls, Die(c) \/ Return(c) PROVE Sent' \subseteq Sent /\ Posted' \subseteq Posted
    <2>1. PICK m : m = c.msg
      OBVIOUS
    <2>2. calls' \subseteq calls /\ stored' = stored /\ outbox' \subseteq outbox \union {m}
      BY <1>3, <2>1 DEF Die, Return
    <2>3. {d.msg : d \in calls'} \subseteq {d.msg : d \in calls} /\ m \in {d.msg : d \in calls}
      BY <2>1, <2>2
    <2>. QED
      BY <2>2, <2>3 DEF Sent, Posted
  <1>4. ASSUME NEW m \in outbox, GiveUp(m) PROVE Sent' \subseteq Sent /\ Posted' \subseteq Posted
    BY <1>4 DEF GiveUp, Sent, Posted
  <1>5. ASSUME NEW m \in outbox, Retry(m) PROVE Sent' \subseteq Sent /\ Posted' \subseteq Posted
    <2>1. stored' \subseteq Sent
      BY <1>1, <1>5 DEF Retry, Posted
    <2>2. outbox' \subseteq outbox
      BY <1>5 DEF Retry
    <2>. QED
      BY <1>5, <2>1, <2>2 DEF Retry, Sent, Posted
  <1>6. ASSUME \/ UNCHANGED vars \/ RelayRestart
               \/ \E p \in Peers : Poll(p) \/ Drop(p) \/ Handle(p)
        PROVE  Sent' \subseteq Sent /\ Posted' \subseteq Posted
    <2>1. calls' = calls /\ outbox' = outbox /\ stored' \subseteq stored
      BY <1>6 DEF vars, history, RelayRestart, Poll, Drop, Handle
    <2>. QED
      BY <2>1 DEF Sent, Posted
  <1>7. Sent' \subseteq Sent /\ Posted' \subseteq Posted
    BY <1>2, <1>3, <1>4, <1>5, <1>6 DEF OtherStep
  <1>8. updates' = updates /\ own' = own
    BY DEF OtherStep, Post, Return, Die, Retry, GiveUp, Poll, Drop, Handle, RelayRestart, vars, history
  <1>. QED
    BY <1>7, <1>8

LEMMA InitMirrored == Init => Mirrored
  BY DEF Init, Mirrored, OneDelegator, RowsMirror, Sent, Posted, Delegated, Assigned, NoRows

\* clade_task: the row of the delegator is the first one there is of the task.
LEMMA DelegateMirrored ==
  ASSUME TypeOK, Mirrored, NEW d \in Peers, NEW a \in Peers, NEW t \in TaskIds, d # a,
         Delegate(d, a, t)
  PROVE  Mirrored' /\ RowsStay
  <1>1. PICK msg : msg = Message("task", d, a, t, 0, "pending")
    OBVIOUS
  <1>2. PICK made : made = NewRow("delegated", a, TRUE, "pending")
    OBVIOUS
  <1>3. /\ made.direction = "delegated" /\ made.peer = a /\ made.hasBrief = TRUE
        /\ made # None
    <2>1. made \in Rows
      BY <1>2 DEF NewRow, Rows, Statuses, Reported
    <2>. QED
      BY <1>2, <2>1, NoneAssumption DEF NewRow
  <1>4. /\ msg.kind = "task" /\ msg.from = d /\ msg.to = a /\ msg.task = t
        /\ msg.n = 0 /\ msg.status = "pending"
    BY <1>1 DEF Message
  <1>5. /\ calls' = calls \union {[msg |-> msg, answer |-> None]}
        /\ row' = [row EXCEPT ![d][t] = made] /\ outbox' = outbox /\ stored' = stored
        /\ \A p \in Peers : row[p][t] = None
    BY <1>1, <1>2 DEF Delegate, relayVars, history
  <1>6. \A p \in Peers, u \in TaskIds :
          row'[p][u] = IF p = d /\ u = t THEN made ELSE row[p][u]
    BY <1>5 DEF TypeOK
  <1>7. RowsStay
    BY <1>5, <1>6 DEF RowsStay
  <1>8. \A p \in Peers, u \in TaskIds :
          /\ Assigned(p, u)' => Assigned(p, u) /\ u # t /\ row'[p][u] = row[p][u]
          /\ Delegated(p, u)' => IF u = t THEN p = d ELSE Delegated(p, u)
    BY <1>3, <1>5, <1>6 DEF Assigned, Delegated
  <1>9. OneDelegator'
    BY <1>8 DEF OneDelegator, Mirrored
  <1>10. ASSUME NEW p \in Peers, NEW u \in TaskIds, Assigned(p, u)'
         PROVE  Named(p, u)'
    <2>1. PICK e : e = row[p][u].peer
      OBVIOUS
    <2>2. Assigned(p, u) /\ row'[p][u].peer = e /\ u # t
      BY <1>8, <1>10, <2>1
    <2>3. e \in Peers
      BY <2>1, <2>2 DEF TypeOK, Rows, Assigned
    <2>4. Delegated(e, u) /\ row[e][u].peer = p
      BY <2>1, <2>2 DEF Mirrored, RowsMirror
    <2>. QED
      BY <1>6, <2>2, <2>3, <2>4 DEF Delegated, Named
  <1>11. RowsMirror'
    BY <1>3, <1>6, <1>10 DEF RowsMirror, Mirrored, Named
  <1>12. Backed(msg)'
    BY <1>3, <1>4, <1>6 DEF Backed, Delegated
  <1>13. Sent' = Sent \union {msg}
    <2>1. PICK call : call = [msg |-> msg, answer |-> None]
      OBVIOUS
    <2>2. calls' = calls \union {call} /\ call.msg = msg
      BY <1>5, <2>1
    <2>. QED
      BY <1>5, <2>2 DEF Sent, Posted
  <1>14. \A m \in Sent' : Backed(m)'
    BY <1>7, <1>12, <1>13, BackedStays, SentTyped DEF Mirrored
  <1>. QED
    BY <1>7, <1>9, <1>11, <1>14 DEF Mirrored

\* clade_task_update: its message goes where the row says.
LEMMA UpdateMirrored ==
  ASSUME TypeOK, Mirrored, NEW a \in Peers, NEW t \in TaskIds, NEW s \in Reported, Update(a, t, s)
  PROVE  Mirrored' /\ RowsStay
  <1>1. PICK msg : msg = Message("update", a, row[a][t].peer, t, updates[t] + 1, s)
    OBVIOUS
  <1>2. msg.kind = "update" /\ msg.from = a /\ msg.to = row[a][t].peer /\ msg.task = t
    BY <1>1 DEF Message
  <1>3. /\ calls' = calls \union {[msg |-> msg, answer |-> None]}
        /\ row' = [row EXCEPT ![a][t].status = s] /\ outbox' = outbox /\ stored' = stored
        /\ Assigned(a, t)
    BY <1>1 DEF Update, relayVars, Assigned
  <1>4. row[a][t] \in Rows
    BY <1>3 DEF TypeOK, Assigned
  <1>5. PICK mine : mine = [row[a][t] EXCEPT !.status = s]
    OBVIOUS
  <1>6. /\ mine.direction = row[a][t].direction /\ mine.peer = row[a][t].peer
        /\ mine.hasBrief = row[a][t].hasBrief /\ mine # None
    <2>1. mine \in Rows
      BY <1>4, <1>5 DEF Rows, Statuses
    <2>. QED
      BY <1>4, <1>5, <2>1, NoneAssumption DEF Rows
  <1>7. \A p \in Peers, u \in TaskIds :
          row'[p][u] = IF p = a /\ u = t THEN mine ELSE row[p][u]
    BY <1>3, <1>5 DEF TypeOK
  <1>8. RowsStay /\ NoNewRow
    BY <1>3, <1>6, <1>7 DEF RowsStay, NoNewRow, Assigned
  <1>9. Backed(msg)'
    <2>1. PICK d : d = row[a][t].peer
      OBVIOUS
    <2>2. d \in Peers
      BY <1>4, <2>1 DEF Rows
    <2>3. Delegated(d, t) /\ row[d][t].peer = a
      BY <1>3, <2>1 DEF Mirrored, RowsMirror
    <2>4. d # a
      BY <1>3, <2>3 DEF Delegated, Assigned
    <2>. QED
      BY <1>2, <1>3, <1>6, <1>7, <2>1, <2>4 DEF Backed, Assigned
  <1>10. Sent' = Sent \union {msg}
    <2>1. PICK call : call = [msg |-> msg, answer |-> None]
      OBVIOUS
    <2>2. calls' = calls \union {call} /\ call.msg = msg
      BY <1>3, <2>1
    <2>. QED
      BY <1>3, <2>2 DEF Sent, Posted
  <1>. QED
    BY <1>8, <1>9, <1>10, MirrorStays

\* The row of a task that is given up was there before.
LEMMA ReturnMirrored ==
  ASSUME TypeOK, Mirrored, NEW c \in calls, Return(c)
  PROVE  RowsStay /\ NoNewRow
  <1>1. PICK m : m = c.msg
    OBVIOUS
  <1>2. m \in Messages /\ m.from \in Peers /\ m.to \in Peers /\ m.task \in TaskIds /\ m \in Sent
    BY <1>1 DEF TypeOK, Messages, Sent, Posted
  <1>3. PICK new : new = NewRow("delegated", m.to, TRUE, "failed")
    OBVIOUS
  <1>4. new \in Rows
    BY <1>2, <1>3 DEF NewRow, Rows, Statuses
  <1>5. row[m.from][m.task] # None /\ row[m.from][m.task] \in Rows
    BY <1>2 DEF Mirrored, Backed, TypeOK
  <1>6. \/ row' = row
        \/ row' = [row EXCEPT ![m.from][m.task] = Record(row[m.from][m.task], new)]
    BY <1>1, <1>3 DEF Return
  <1>7. \A p \in Peers, u \in TaskIds :
          \/ row'[p][u] = row[p][u]
          \/ row[p][u] \in Rows /\ row[p][u] # None /\ row'[p][u] = Record(row[p][u], new)
    <2>1. CASE row' = row
      BY <2>1
    <2>2. CASE row' = [row EXCEPT ![m.from][m.task] = Record(row[m.from][m.task], new)]
      BY <1>2, <1>5, <2>2 DEF TypeOK
    <2>. QED
      BY <1>6, <2>1, <2>2
  <1>. QED
    BY <1>4, <1>7, RecordStays DEF RowsStay, NoNewRow

\* handle_inbound_task_message: the row of a task message mirrors its delegator's;
\* an update finds the delegator's row.
LEMMA HandleMirrored ==
  ASSUME TypeOK, Causes, Mirrored, NEW p \in Peers, Handle(p)
  PROVE  Mirrored' /\ RowsStay
  <1>1. PICK m : m = Head(got[p])
    OBVIOUS
  <1>2. m \in Messages /\ m \in stored /\ m.to = p
    <2>1. got[p] \in Seq(Messages) /\ got[p] # <<>>
      BY DEF TypeOK, Handle
    <2>2. m = got[p][1] /\ 1 \in DOMAIN got[p]
      BY <1>1, <2>1, HeadTailProperties, LenProperties, EmptySeq
    <2>. QED
      BY <2>1, <2>2, ElementOfSeq, LenProperties DEF Causes, StoredFor
  <1>3. m.from \in Peers /\ m.task \in TaskIds /\ Backed(m) /\ m.kind \in {"task", "update"}
    BY <1>2 DEF Mirrored, Sent, Messages
  <1>4. /\ row' = [row EXCEPT ![p][m.task] = Record(row[p][m.task], Received(m))]
        /\ calls' = calls /\ outbox' = outbox /\ stored' = stored
    BY <1>1 DEF Handle, history
  <1>5. Received(m) \in Rows
    BY <1>2, ReceivedTyped
  <1>6. Sent' = Sent
    BY <1>4 DEF Sent, Posted
  <1>7. CASE row[p][m.task] # None
    <2>1. row[p][m.task] \in Rows
      BY <1>3, <1>7 DEF TypeOK
    <2>2. \A q \in Peers, u \in TaskIds :
            \/ row'[q][u] = row[q][u]
            \/ row[q][u] \in Rows /\ row[q][u] # None /\ row'[q][u] = Record(row[q][u], Received(m))
      BY <1>3, <1>4, <1>7, <2>1 DEF TypeOK
    <2>3. RowsStay /\ NoNewRow
      BY <1>5, <2>2, RecordStays DEF RowsStay, NoNewRow
    <2>. QED
      BY <1>6, <2>3, MirrorStays
  <1>8. CASE row[p][m.task] = None
    <2>1. m.kind = "task"
      <3>1. SUFFICES ASSUME m.kind = "update" PROVE FALSE
        BY <1>3
      <3>2. Assigned(m.from, m.task) /\ row[m.from][m.task].peer = p
        BY <1>2, <1>3, <3>1 DEF Backed
      <3>3. Delegated(p, m.task)
        BY <1>3, <3>2 DEF Mirrored, RowsMirror
      <3>. QED
        BY <1>8, <3>3 DEF Delegated
    <2>2. PICK made : made = Received(m)
      OBVIOUS
    <2>3. made.direction = "assigned" /\ made.peer = m.from /\ made.hasBrief = TRUE /\ made # None
      BY <1>5, <2>1, <2>2, NoneAssumption DEF Received, NewRow
    <2>4. \A q \in Peers, u \in TaskIds :
            row'[q][u] = IF q = p /\ u = m.task THEN made ELSE row[q][u]
      BY <1>3, <1>4, <1>8, <2>2 DEF TypeOK, Record
    <2>5. RowsStay
      BY <1>8, <2>4 DEF RowsStay
    <2>6. \A q \in Peers, u \in TaskIds :
            /\ Delegated(q, u)' <=> Delegated(q, u)
            /\ Delegated(q, u) => row'[q][u] = row[q][u]
            /\ Assigned(q, u)' => Assigned(q, u) \/ (q = p /\ u = m.task)
      BY <1>8, <2>3, <2>4 DEF Delegated, Assigned
    <2>7. OneDelegator'
      BY <2>6 DEF OneDelegator, Mirrored
    <2>8. ASSUME NEW q \in Peers, NEW u \in TaskIds, Assigned(q, u)'
          PROVE  Named(q, u)'
      <3>1. CASE q = p /\ u = m.task
        <4>1. Delegated(m.from, u) /\ row[m.from][u].peer = p
          BY <1>2, <1>3, <2>1, <3>1 DEF Backed
        <4>. QED
          BY <1>3, <2>3, <2>4, <2>6, <3>1, <4>1 DEF Named, Delegated
      <3>2. CASE ~(q = p /\ u = m.task)
        <4>1. Assigned(q, u) /\ row'[q][u] = row[q][u]
          BY <2>4, <2>6, <2>8, <3>2
        <4>2. PICK e : e = row[q][u].peer
          OBVIOUS
        <4>3. e \in Peers
          BY <4>1, <4>2 DEF TypeOK, Rows, Assigned
        <4>4. Delegated(e, u) /\ row[e][u].peer = q
          BY <4>1, <4>2 DEF Mirrored, RowsMirror
        <4>. QED
          BY <2>6, <4>1, <4>2, <4>3, <4>4 DEF Named
      <3>. QED
        BY <3>1, <3>2
    <2>9. RowsMirror'
      BY <2>3, <2>4, <2>8 DEF RowsMirror, Mirrored, Named
    <2>10. \A d \in Sent' : Backed(d)'
      BY <1>6, <2>5, BackedStays, SentTyped DEF Mirrored
    <2>. QED
      BY <2>5, <2>7, <2>9, <2>10 DEF Mirrored
  <1>. QED
    BY <1>7, <1>8

LEMMA StepMirrored ==
  ASSUME TypeOK, Causes, Mirrored, [Next]_vars
  PROVE  Mirrored' /\ RowsStay
  <1>1. CASE OtherStep
    <2>1. Sent' \subseteq Sent
      BY <1>1, NothingNewSent
    <2>2. row' = row => RowsStay /\ NoNewRow
      BY DEF RowsStay, NoNewRow
    <2>3. CASE RowsStay /\ NoNewRow
      BY <2>1, <2>3, MirrorStays
    <2>. QED
      BY <1>1, <2>2, <2>3, ReturnMirrored, HandleMirrored
         DEF OtherStep, Post, Die, Retry, GiveUp, Poll, Drop, RelayRestart, vars
  <1>. QED
    BY <1>1, NextSplit, DelegateMirrored, UpdateMirrored

-----------------------------------------------------------------------------
(* The messages of a task are numbered.                                    *)

\* A task starts with its message, and each report has a number of its own; the
\* highest number goes with what its assignee set last.
Numbered ==
  /\ \A m, c \in Sent : m.task = c.task /\ m.n = c.n => m = c
  /\ \A m \in Sent :
       /\ m.n <= updates[m.task]
       /\ m.kind = "task" <=> m.n = 0
       /\ m.n = updates[m.task] => m.status = own[m.task]
  /\ \A t \in TaskIds : (\A p \in Peers : row[p][t] = None) => updates[t] = 0 /\ own[t] = "pending"

LEMMA InitNumbered == Init => Numbered
  BY DEF Init, Numbered, Sent, Posted

LEMMA StepNumbered ==
  ASSUME TypeOK, Causes, Mirrored, Numbered, [Next]_vars
  PROVE  Numbered'
  <1>1. RowsStay
    BY StepMirrored
  <1>2. CASE Sent' \subseteq Sent /\ updates' = updates /\ own' = own
    BY <1>1, <1>2 DEF Numbered, RowsStay
  <1>3. ASSUME NEW d \in Peers, NEW a \in Peers, NEW t \in TaskIds, Delegate(d, a, t)
        PROVE  Numbered'
    <2>1. PICK msg : msg = Message("task", d, a, t, 0, "pending")
      OBVIOUS
    <2>2. msg.kind = "task" /\ msg.task = t /\ msg.n = 0 /\ msg.status = "pending"
      BY <2>1 DEF Message
    <2>3. /\ calls' = calls \union {[msg |-> msg, answer |-> None]}
          /\ outbox' = outbox /\ stored' = stored /\ updates' = updates /\ own' = own
          /\ \A p \in Peers : row[p][t] = None
      BY <1>3, <2>1 DEF Delegate, history
    <2>4. Sent' = Sent \union {msg}
      BY <2>3, CallPosts
    <2>5. updates[t] = 0 /\ own[t] = "pending"
      BY <2>3 DEF Numbered
    <2>6. \A m \in Sent : m.task # t
      BY <2>3, SentTyped DEF Mirrored, Backed, Messages
    <2>. QED
      BY <1>1, <2>2, <2>3, <2>4, <2>5, <2>6 DEF Numbered, RowsStay
  <1>4. ASSUME NEW a \in Peers, NEW t \in TaskIds, NEW s \in Reported, Update(a, t, s)
        PROVE  Numbered'
    <2>1. PICK msg : msg = Message("update", a, row[a][t].peer, t, updates[t] + 1, s)
      OBVIOUS
    <2>2. msg.kind = "update" /\ msg.task = t /\ msg.n = updates[t] + 1 /\ msg.status = s
      BY <2>1 DEF Message
    <2>3. /\ calls' = calls \union {[msg |-> msg, answer |-> None]}
          /\ outbox' = outbox /\ stored' = stored
          /\ updates' = [updates EXCEPT ![t] = updates[t] + 1] /\ own' = [own EXCEPT ![t] = s]
          /\ row[a][t] # None
      BY <1>4, <2>1 DEF Update
    <2>4. Sent' = Sent \union {msg}
      BY <2>3, CallPosts
    <2>5. \A u \in TaskIds :
            /\ updates[u] \in Nat /\ updates'[u] = IF u = t THEN updates[t] + 1 ELSE updates[u]
            /\ own'[u] = IF u = t THEN s ELSE own[u]
      BY <2>3 DEF TypeOK
    <2>6. \A m \in Sent : m.task \in TaskIds /\ m.n \in Nat /\ m.n <= updates[m.task]
      BY SentTyped DEF Numbered, Messages
    <2>7. \A m, c \in Sent' : m.task = c.task /\ m.n = c.n => m = c
      BY <2>2, <2>4, <2>5, <2>6 DEF Numbered
    <2>8. \A m \in Sent' :
            /\ m.n <= updates'[m.task]
            /\ m.kind = "task" <=> m.n = 0
            /\ m.n = updates'[m.task] => m.status = own'[m.task]
      BY <2>2, <2>4, <2>5, <2>6 DEF Numbered
    <2>9. \A u \in TaskIds : (\A p \in Peers : row'[p][u] = None) => updates'[u] = 0 /\ own'[u] = "pending"
      BY <1>1, <2>3, <2>5 DEF Numbered, RowsStay
    <2>. QED
      BY <2>7, <2>8, <2>9 DEF Numbered
  <1>. QED
    BY <1>2, <1>3, <1>4, NothingNewSent, NextSplit

-----------------------------------------------------------------------------
(* Nobody but the assignee changes an assigned row.                        *)

\* The messages the relay has taken and has not forgotten: none of them gets into
\* an inbox again.
Kept == {m \in stored : m.task \notin forgot}

Occurs(m, s) == \E i \in DOMAIN s : s[i] = m
AtMostOnce(m, s) == \A i, j \in DOMAIN s : s[i] = m /\ s[j] = m => i = j

\* Messages that wait at the relay or at the daemon of p.
Waits(p, m) == Occurs(m, got[p]) \/ Occurs(m, inbox[p])

WaitsOnce(p, m) ==
  /\ AtMostOnce(m, got[p]) /\ AtMostOnce(m, inbox[p])
  /\ ~(Occurs(m, got[p]) /\ Occurs(m, inbox[p]))

\* A kept message that may be posted again is recognised.
Recognised == Kept \intersect Posted \subseteq spent

\* A kept message is handled once, and a task's own before its row is there.
HandledFirst ==
  \A p \in Peers, m \in Kept :
    WaitsOnce(p, m) /\ (m.kind = "task" /\ Waits(p, m) => ~Assigned(p, m.task))

Owned ==
  /\ \A p \in Peers, t \in TaskIds :
       Assigned(p, t) => \E m \in stored : m.kind = "task" /\ m.task = t
  /\ \A t \in TaskIds : own[t] = "pending" \/ \E p \in Peers : Assigned(p, t)
  /\ OwnWork /\ Recognised /\ HandledFirst

LEMMA InitOwned == Init => Owned
  BY DEF Init, Owned, OwnWork, Recognised, HandledFirst, Kept, Assigned, NoRows

\* The same rows are assigned, and all but forgotten ones in the same state.
SameAssigned ==
  \A p \in Peers, t \in TaskIds :
    /\ Assigned(p, t)' <=> Assigned(p, t)
    /\ Assigned(p, t) => row'[p][t].status = row[p][t].status \/ t \in forgot'

\* A step that records nothing for an assignee, and moves messages to nowhere.
LEMMA OwnedStays ==
  ASSUME TypeOK, Owned, SameAssigned, own' = own, stored' = stored, forgot \subseteq forgot',
         stored \intersect Posted' \subseteq Posted,
         \A m \in Kept' : m \in Posted' /\ m \in spent => m \in spent',
         \A p \in Peers, m \in Kept :
           WaitsOnce(p, m) => WaitsOnce(p, m)' /\ (Waits(p, m)' => Waits(p, m))
  PROVE  Owned'
  <1>1. Kept' \subseteq Kept
    BY DEF Kept
  <1>2. Recognised'
    BY <1>1 DEF Owned, Recognised, Kept
  <1>3. HandledFirst'
    <2>. SUFFICES ASSUME NEW p \in Peers, NEW m \in Kept'
                  PROVE  WaitsOnce(p, m)' /\ (m.kind = "task" /\ Waits(p, m)' => ~Assigned(p, m.task)')
      BY DEF HandledFirst
    <2>1. m \in Kept /\ WaitsOnce(p, m) /\ (m.kind = "task" /\ Waits(p, m) => ~Assigned(p, m.task))
      BY <1>1 DEF Owned, HandledFirst
    <2>2. m.task \in TaskIds
      BY <2>1 DEF Kept, TypeOK, Messages
    <2>. QED
      BY <2>1, <2>2 DEF SameAssigned
  <1>4. OwnWork'
    BY DEF Owned, OwnWork, SameAssigned
  <1>5. /\ \A p \in Peers, t \in TaskIds :
             Assigned(p, t)' => \E m \in stored' : m.kind = "task" /\ m.task = t
        /\ \A t \in TaskIds : own'[t] = "pending" \/ \E p \in Peers : Assigned(p, t)'
    BY DEF Owned, SameAssigned
  <1>. QED
    BY <1>2, <1>3, <1>4, <1>5 DEF Owned

LEMMA SameWaiting ==
  ASSUME got' = got, inbox' = inbox
  PROVE  \A p, m : (WaitsOnce(p, m)' <=> WaitsOnce(p, m)) /\ (Waits(p, m)' <=> Waits(p, m))
  BY DEF WaitsOnce, Waits, Occurs, AtMostOnce

\* clade_task: nothing of the task is anywhere yet.
LEMMA DelegateOwned ==
  ASSUME TypeOK, Causes, Owned, NEW d \in Peers, NEW a \in Peers, NEW t \in TaskIds,
         Delegate(d, a, t)
  PROVE  Owned'
  <1>1. PICK call :
          /\ call = [msg |-> Message("task", d, a, t, 0, "pending"), answer |-> None]
          /\ calls' = calls \union {call}
    BY DEF Delegate
  <1>2. call.msg.task = t
    BY <1>1 DEF Message
  <1>3. /\ row' = [row EXCEPT ![d][t] = NewRow("delegated", a, TRUE, "pending")]
        /\ outbox' = outbox /\ stored' = stored /\ spent' = spent /\ own' = own
        /\ forgot' = forgot /\ got' = got /\ inbox' = inbox
        /\ \A p \in Peers : row[p][t] = None
    BY DEF Delegate, relayVars, history
  <1>4. SameAssigned
    <2>0. PICK made : made = NewRow("delegated", a, TRUE, "pending")
      OBVIOUS
    <2>1. \A p \in Peers, u \in TaskIds :
            row'[p][u] = IF p = d /\ u = t THEN made ELSE row[p][u]
      BY <1>3, <2>0 DEF TypeOK
    <2>2. made.direction = "delegated"
      BY <2>0 DEF NewRow
    <2>3. \A p \in Peers : row[p][t] = None
      BY <1>3
    <2>. QED
      BY <2>1, <2>2, <2>3 DEF SameAssigned, Assigned
  <1>5. call.msg \notin stored
    BY <1>2, <1>3 DEF Causes
  <1>6. stored \intersect Posted' \subseteq Posted
    BY <1>1, <1>3, <1>5 DEF Posted
  <1>. QED
    BY <1>3, <1>4, <1>6, OwnedStays, SameWaiting

\* clade_task_update: the row and what the assignee set last change together.
LEMMA UpdateOwned ==
  ASSUME TypeOK, Mirrored, Numbered, Owned, NEW a \in Peers, NEW t \in TaskIds,
         NEW s \in Reported, Update(a, t, s)
  PROVE  Owned'
  <1>1. PICK call :
          /\ call = [msg |-> Message("update", a, row[a][t].peer, t, updates[t] + 1, s),
                     answer |-> None]
          /\ calls' = calls \union {call}
    BY DEF Update
  <1>2. call.msg \notin stored
    <2>1. call.msg.task = t /\ call.msg.n = updates[t] + 1 /\ updates[t] \in Nat
      BY <1>1 DEF Message, TypeOK
    <2>. QED
      BY <2>1 DEF Numbered, Sent
  <1>3. /\ row' = [row EXCEPT ![a] = [row[a] EXCEPT ![t] = [row[a][t] EXCEPT !.status = s]]]
        /\ outbox' = outbox /\ stored' = stored /\ spent' = spent
        /\ own' = [own EXCEPT ![t] = s]
        /\ forgot' = forgot /\ got' = got /\ inbox' = inbox
        /\ Assigned(a, t)
    BY DEF Update, relayVars, Assigned
  <1>4. PICK mine : mine = [row[a][t] EXCEPT !.status = s]
    OBVIOUS
  <1>5. mine.direction = "assigned" /\ mine.status = s /\ mine # None
    <2>1. row[a][t] \in Rows /\ row[a][t].direction = "assigned"
      BY <1>3 DEF TypeOK, Assigned
    <2>2. mine \in Rows
      BY <1>4, <2>1 DEF Rows, Statuses
    <2>. QED
      BY <1>4, <2>1, <2>2, NoneAssumption DEF Rows
  <1>6. \A p \in Peers, u \in TaskIds :
          row'[p][u] = IF p = a /\ u = t THEN mine ELSE row[p][u]
    BY <1>3, <1>4 DEF TypeOK
  <1>7. \A p \in Peers, u \in TaskIds : Assigned(p, u)' <=> Assigned(p, u)
    BY <1>3, <1>5, <1>6 DEF Assigned
  <1>8. \A u \in TaskIds : own'[u] = IF u = t THEN s ELSE own[u]
    BY <1>3 DEF TypeOK
  <1>9. ASSUME NEW p \in Peers, Assigned(p, t) PROVE p = a
    <2>1. PICK d, e : d = row[p][t].peer /\ e = row[a][t].peer
      OBVIOUS
    <2>2. d \in Peers /\ e \in Peers
      BY <1>3, <1>9, <2>1 DEF TypeOK, Rows, Assigned
    <2>3. Delegated(d, t) /\ row[d][t].peer = p /\ Delegated(e, t) /\ row[e][t].peer = a
      BY <1>3, <1>9, <2>1 DEF Mirrored, RowsMirror
    <2>. QED
      BY <2>2, <2>3 DEF Mirrored, OneDelegator
  <1>10. OwnWork'
    BY <1>3, <1>5, <1>6, <1>7, <1>8, <1>9 DEF Owned, OwnWork
  <1>11. Kept' = Kept /\ Kept \intersect Posted' \subseteq Posted
    BY <1>1, <1>2, <1>3 DEF Kept, Posted
  <1>12. Recognised'
    BY <1>3, <1>11 DEF Owned, Recognised
  <1>13. HandledFirst'
    <2>1. \A m \in Kept : m.task \in TaskIds
      BY DEF Kept, TypeOK, Messages
    <2>. QED
      BY <1>3, <1>7, <1>11, <2>1, SameWaiting DEF Owned, HandledFirst
  <1>14. \A u \in TaskIds : own'[u] = "pending" \/ \E p \in Peers : Assigned(p, u)'
    BY <1>3, <1>7, <1>8 DEF Owned
  <1>. QED
    BY <1>3, <1>7, <1>10, <1>12, <1>13, <1>14 DEF Owned

\* A task is delegated once, with one message.
LEMMA OneTaskMessage ==
  ASSUME Numbered, NEW m \in Sent, NEW c \in Sent,
         m.kind = "task", c.kind = "task", m.task = c.task
  PROVE  m = c
  BY DEF Numbered

\* What the relay takes is new to it: it recognises what may be posted again.
LEMMA ReachesOwned ==
  ASSUME TypeOK, Causes, Mirrored, Numbered, Owned, NEW m \in Messages,
         NEW x, Reaches(m, x), m \in Posted, Posted' \subseteq Posted, row' = row, got' = got, own' = own, forgot' = forgot
  PROVE  Owned'
  <1>1. SameAssigned
    BY DEF SameAssigned, Assigned
  <1>2. CASE inbox' = inbox /\ stored' = stored /\ spent \subseteq spent'
    BY <1>1, <1>2, OwnedStays, SameWaiting
  <1>3. CASE /\ m \notin spent /\ spent' = spent \union {m} /\ stored' = stored \union {m}
             /\ inbox' = [inbox EXCEPT ![m.to] = Append(inbox[m.to], m)]
    <2>1. Kept' \subseteq Kept \union {m}
      BY <1>3 DEF Kept
    <2>2. m \notin Kept
      BY <1>3 DEF Owned, Recognised
    <2>3. Recognised'
      BY <1>3, <2>1 DEF Owned, Recognised
    <2>4. m \in Kept' => m \notin stored
      BY <2>2 DEF Kept
    <2>5. m.to \in Peers /\ inbox[m.to] \in Seq(Messages)
      BY DEF TypeOK, Messages
    <2>6. \A p \in Peers : inbox'[p] = IF p = m.to THEN Append(inbox[m.to], m) ELSE inbox[p]
      BY <1>3, <2>5 DEF TypeOK
    <2>7. /\ Len(inbox[m.to]) \in Nat /\ DOMAIN inbox[m.to] = 1..Len(inbox[m.to])
          /\ DOMAIN Append(inbox[m.to], m) = 1..(Len(inbox[m.to]) + 1)
          /\ \A i \in 1..Len(inbox[m.to]) : Append(inbox[m.to], m)[i] = inbox[m.to][i]
          /\ Append(inbox[m.to], m)[Len(inbox[m.to]) + 1] = m
      BY <2>5, AppendProperties, LenProperties
    <2>8. ASSUME NEW p \in Peers, NEW k \in Kept'
          PROVE  WaitsOnce(p, k)' /\ (k.kind = "task" /\ Waits(p, k)' => ~Assigned(p, k.task)')
      <3>1. Assigned(p, k.task)' <=> Assigned(p, k.task)
        BY DEF Assigned
      <3>2. CASE k # m
        <4>1. k \in Kept
          BY <2>1, <3>2
        <4>2. WaitsOnce(p, k) /\ (k.kind = "task" /\ Waits(p, k) => ~Assigned(p, k.task))
          BY <4>1 DEF Owned, HandledFirst
        <4>3. CASE p # m.to
          <5>1. got'[p] = got[p] /\ inbox'[p] = inbox[p]
            BY <2>6, <4>3
          <5>. QED
            BY <3>1, <4>2, <5>1 DEF WaitsOnce, Waits, Occurs, AtMostOnce
        <4>4. CASE p = m.to
          <5>0. PICK n, s, u : n = Len(inbox[p]) /\ s = inbox[p] /\ u = inbox'[p]
            OBVIOUS
          <5>1. /\ n \in Nat /\ s = inbox[p] /\ u = inbox'[p] /\ DOMAIN s = 1..n
                /\ DOMAIN u = 1..(n + 1) /\ u[n + 1] = m /\ \A i \in 1..n : u[i] = s[i]
            BY <2>6, <2>7, <4>4, <5>0
          <5>2. \A i \in DOMAIN u : u[i] = k => i \in DOMAIN s /\ s[i] = k
            BY <3>2, <5>1
          <5>3. Occurs(k, u) => Occurs(k, s)
            BY <5>2 DEF Occurs
          <5>4. AtMostOnce(k, s) => AtMostOnce(k, u)
            BY <5>2 DEF AtMostOnce
          <5>5. got'[p] = got[p]
            OBVIOUS
          <5>6. WaitsOnce(p, k)'
            BY <4>2, <5>1, <5>3, <5>4, <5>5 DEF WaitsOnce, Occurs, AtMostOnce
          <5>7. Waits(p, k)' => Waits(p, k)
            BY <5>1, <5>3, <5>5 DEF Waits, Occurs
          <5>. QED
            BY <3>1, <4>2, <5>6, <5>7
        <4>. QED
          BY <4>3, <4>4
      <3>3. CASE k = m
        <4>1. m \notin stored /\ m.task \in TaskIds
          BY <2>4, <3>3 DEF Kept, Messages
        <4>2. ~Occurs(m, got[p]) /\ ~Occurs(m, inbox[p])
          BY <4>1 DEF Causes, StoredFor, Occurs
        <4>3. m.kind = "task" => ~Assigned(p, m.task)
          <5>1. SUFFICES ASSUME m.kind = "task", Assigned(p, m.task) PROVE FALSE
            OBVIOUS
          <5>2. PICK c \in stored : c.kind = "task" /\ c.task = m.task
            BY <4>1, <5>1 DEF Owned
          <5>. QED
            BY <4>1, <5>1, <5>2, OneTaskMessage DEF Sent
        <4>4. CASE p # m.to
          <5>1. got'[p] = got[p] /\ inbox'[p] = inbox[p]
            BY <2>6, <4>4
          <5>. QED
            BY <3>1, <3>3, <4>2, <4>3, <5>1 DEF WaitsOnce, Waits, Occurs, AtMostOnce
        <4>5. CASE p = m.to
          <5>0. PICK n, s, u : n = Len(inbox[p]) /\ s = inbox[p] /\ u = inbox'[p]
            OBVIOUS
          <5>1. /\ n \in Nat /\ s = inbox[p] /\ u = inbox'[p] /\ DOMAIN s = 1..n
                /\ DOMAIN u = 1..(n + 1) /\ u[n + 1] = m /\ \A i \in 1..n : u[i] = s[i]
            BY <2>6, <2>7, <4>5, <5>0
          <5>2. ASSUME NEW i \in DOMAIN u, u[i] = m PROVE i = n + 1
            <6>1. i \in 1..n => i \in DOMAIN s /\ s[i] = m
              BY <5>1, <5>2
            <6>2. i \notin 1..n
              BY <4>2, <5>1, <6>1 DEF Occurs
            <6>. QED
              BY <5>1, <5>2, <6>2
          <5>3. AtMostOnce(m, u)
            BY <5>2 DEF AtMostOnce
          <5>4. WaitsOnce(p, m)'
            BY <4>2, <5>1, <5>3 DEF WaitsOnce, Occurs, AtMostOnce
          <5>. QED
            BY <3>1, <3>3, <4>3, <5>4
        <4>. QED
          BY <4>4, <4>5
      <3>. QED
        BY <3>2, <3>3
    <2>9. HandledFirst'
      BY <2>8 DEF HandledFirst
    <2>10. OwnWork'
      BY <1>1 DEF Owned, OwnWork, SameAssigned
    <2>11. /\ \A p \in Peers, t \in TaskIds :
                Assigned(p, t)' => \E c \in stored' : c.kind = "task" /\ c.task = t
           /\ \A t \in TaskIds : own'[t] = "pending" \/ \E p \in Peers : Assigned(p, t)'
      BY <1>1, <1>3 DEF Owned, SameAssigned
    <2>. QED
      BY <2>3, <2>9, <2>10, <2>11 DEF Owned
  <1>4. \/ UNCHANGED <<relayVars, stored>>
        \/ spent' = spent \union {m} /\ UNCHANGED <<inbox, stored>>
        \/ /\ m \notin spent /\ spent' = spent \union {m} /\ stored' = stored \union {m}
           /\ inbox' = [inbox EXCEPT ![m.to] = Append(inbox[m.to], m)]
    BY DEF Reaches, Replayed
  <1>. QED
    BY <1>2, <1>3, <1>4 DEF relayVars

\* The relay, the outbox and the calls.  A row that is marked failed is its
\* delegator's.
LEMMA PostingOwned ==
  ASSUME TypeOK, Causes, Mirrored, Numbered, Owned,
         \/ \E c \in calls : Post(c) \/ Return(c) \/ Die(c)
         \/ \E m \in outbox : Retry(m) \/ GiveUp(m)
  PROVE  Owned'
  <1>0. Posted \subseteq Messages /\ (row' = row => SameAssigned)
    BY DEF TypeOK, Posted, SameAssigned, Assigned
  <1>1. ASSUME relayVars' = relayVars, stored' = stored, got' = got, own' = own, forgot' = forgot,
               Posted' \subseteq Posted, SameAssigned
        PROVE  Owned'
    BY <1>1, OwnedStays, SameWaiting DEF relayVars
  <1>2. ASSUME NEW c \in calls, Post(c) PROVE Owned'
    <2>1. PICK x \in Answers :
            /\ calls' = (calls \ {c}) \union {[c EXCEPT !.answer = x]}
            /\ \/ x \notin {"net", "reset"} /\ Reaches(c.msg, x)
               \/ x \in {"net", "reset"} /\ \E y \in {"ok", "server"} : Reaches(c.msg, y)
               \/ x \in {"net", "reset"} /\ UNCHANGED <<relayVars, stored>>
      BY <1>2 DEF Post
    <2>2. [c EXCEPT !.answer = x].msg = c.msg
      BY DEF TypeOK
    <2>3. {d.msg : d \in calls'} \subseteq {d.msg : d \in calls} /\ c.msg \in Posted
      BY <2>1, <2>2 DEF Posted
    <2>4. Posted' \subseteq Posted
      BY <1>2, <2>3 DEF Post, Posted
    <2>5. row' = row /\ got' = got /\ own' = own /\ forgot' = forgot
      BY <1>2 DEF Post
    <2>. QED
      BY <1>0, <1>1, <2>1, <2>3, <2>4, <2>5, ReachesOwned
  <1>3. ASSUME NEW c \in calls, Die(c) PROVE Owned'
    <2>1. Posted' \subseteq Posted /\ row' = row
      BY <1>3 DEF Die, Posted
    <2>. QED
      BY <1>0, <1>1, <1>3, <2>1 DEF Die
  <1>4. ASSUME NEW m \in outbox, GiveUp(m) PROVE Owned'
    <2>1. Posted' \subseteq Posted /\ row' = row
      BY <1>4 DEF GiveUp, Posted
    <2>. QED
      BY <1>0, <1>1, <1>4, <2>1 DEF GiveUp
  <1>5. ASSUME NEW m \in outbox, Retry(m) PROVE Owned'
    <2>1. Posted' \subseteq Posted /\ m \in Posted
      BY <1>5 DEF Retry, Posted
    <2>2. PICK x \in {"ok", "server"} : Reaches(m, x)
      BY <1>5 DEF Retry
    <2>3. row' = row /\ got' = got /\ own' = own /\ forgot' = forgot
      BY <1>5 DEF Retry
    <2>. QED
      BY <1>0, <2>1, <2>2, <2>3, ReachesOwned
  <1>6. ASSUME NEW c \in calls, Return(c) PROVE Owned'
    <2>1. PICK m : m = c.msg
      OBVIOUS
    <2>2. /\ m \in Messages /\ m.from \in Peers /\ m.to \in Peers /\ m.task \in TaskIds
          /\ m \in Sent /\ m \in Posted
      BY <2>1 DEF TypeOK, Messages, Sent, Posted
    <2>3. PICK new : new = Record(row[m.from][m.task], NewRow("delegated", m.to, TRUE, "failed"))
      OBVIOUS
    <2>4. row' = row \/ (m.kind = "task" /\ row' = [row EXCEPT ![m.from][m.task] = new])
      BY <1>6, <2>1, <2>3 DEF Return
    <2>5. SameAssigned
      <3>1. CASE row' = row
        BY <1>0, <3>1
      <3>2. CASE m.kind = "task" /\ row' = [row EXCEPT ![m.from][m.task] = new]
        <4>1. Delegated(m.from, m.task) /\ row[m.from][m.task] \in Rows
          BY <2>2, <3>2 DEF Mirrored, Backed, TypeOK, Delegated
        <4>2. NewRow("delegated", m.to, TRUE, "failed") \in Rows
          BY <2>2 DEF NewRow, Rows, Statuses
        <4>3. new.direction = "delegated"
          BY <2>3, <4>1, <4>2, RecordStays DEF Delegated
        <4>4. \A p \in Peers, u \in TaskIds :
                row'[p][u] = IF p = m.from /\ u = m.task THEN new ELSE row[p][u]
          BY <2>2, <3>2 DEF TypeOK
        <4>. QED
          BY <4>1, <4>3, <4>4 DEF SameAssigned, Assigned, Delegated
      <3>. QED
        BY <2>4, <3>1, <3>2
    <2>6. calls' \subseteq calls /\ outbox' \subseteq outbox \union {m}
      BY <1>6, <2>1 DEF Return
    <2>7. {d.msg : d \in calls'} \subseteq {d.msg : d \in calls}
      BY <2>6
    <2>8. Posted' \subseteq Posted
      BY <2>2, <2>6, <2>7 DEF Posted
    <2>. QED
      BY <1>1, <1>6, <2>5, <2>8 DEF Return
  <1>. QED
    BY <1>2, <1>3, <1>4, <1>5, <1>6

\* A daemon takes its inbox behind what it has already.
LEMMA ConcatOccurs ==
  ASSUME NEW s \in Seq(Messages), NEW u \in Seq(Messages), NEW m
  PROVE  /\ Occurs(m, s \o u) => Occurs(m, s) \/ Occurs(m, u)
         /\ AtMostOnce(m, s) /\ AtMostOnce(m, u) /\ ~(Occurs(m, s) /\ Occurs(m, u))
              => AtMostOnce(m, s \o u)
  <1>1. PICK a, b, w : a = Len(s) /\ b = Len(u) /\ w = s \o u
    OBVIOUS
  <1>2. /\ a \in Nat /\ b \in Nat /\ DOMAIN s = 1..a /\ DOMAIN u = 1..b /\ DOMAIN w = 1..(a + b)
    BY <1>1, LenProperties, ConcatProperties
  <1>3. \A i \in 1..(a + b) : w[i] = IF i <= a THEN s[i] ELSE u[i - a]
    BY <1>1, ConcatProperties
  <1>4. \A i \in DOMAIN w : w[i] = m =>
          IF i <= a THEN i \in DOMAIN s /\ s[i] = m ELSE i - a \in DOMAIN u /\ u[i - a] = m
    BY <1>2, <1>3
  <1>5. Occurs(m, w) => Occurs(m, s) \/ Occurs(m, u)
    BY <1>4 DEF Occurs
  <1>6. ASSUME AtMostOnce(m, s), AtMostOnce(m, u), ~(Occurs(m, s) /\ Occurs(m, u)),
               NEW i \in DOMAIN w, NEW j \in DOMAIN w, w[i] = m, w[j] = m
        PROVE  i = j
    <2>1. (i <= a /\ j <= a) \/ (~(i <= a) /\ ~(j <= a))
      BY <1>4, <1>6 DEF Occurs
    <2>2. CASE i <= a /\ j <= a
      BY <1>4, <1>6, <2>2 DEF AtMostOnce
    <2>3. CASE ~(i <= a) /\ ~(j <= a)
      <3>1. i - a = j - a
        BY <1>4, <1>6, <2>3 DEF AtMostOnce
      <3>. QED
        BY <1>2, <3>1
    <2>. QED
      BY <2>1, <2>2, <2>3
  <1>. QED
    BY <1>1, <1>5, <1>6 DEF AtMostOnce

\* What is handled first is gone if it was there once.
LEMMA TailOccurs ==
  ASSUME NEW s \in Seq(Messages), s # <<>>, NEW m
  PROVE  /\ Occurs(m, Tail(s)) => Occurs(m, s)
         /\ AtMostOnce(m, s) => AtMostOnce(m, Tail(s))
         /\ AtMostOnce(Head(s), s) => ~Occurs(Head(s), Tail(s))
         /\ Occurs(Head(s), s)
  <1>1. PICK a, w : a = Len(s) /\ w = Tail(s)
    OBVIOUS
  <1>2. /\ a \in Nat /\ a # 0 /\ DOMAIN s = 1..a /\ DOMAIN w = 1..(a - 1) /\ Head(s) = s[1]
        /\ \A i \in 1..(a - 1) : w[i] = s[i + 1]
    BY <1>1, LenProperties, HeadTailProperties, EmptySeq
  <1>3. \A i \in DOMAIN w : i \in Int /\ i # 0 /\ i + 1 \in DOMAIN s /\ w[i] = s[i + 1]
    BY <1>2
  <1>4. 1 \in DOMAIN s
    BY <1>2
  <1>5. AtMostOnce(m, s) => AtMostOnce(m, w)
    <2>. SUFFICES ASSUME AtMostOnce(m, s), NEW i \in DOMAIN w, NEW j \in DOMAIN w,
                         w[i] = m, w[j] = m
                  PROVE  i = j
      BY DEF AtMostOnce
    <2>1. i + 1 = j + 1
      BY <1>3 DEF AtMostOnce
    <2>. QED
      BY <1>3, <2>1
  <1>6. ASSUME AtMostOnce(Head(s), s) PROVE ~Occurs(Head(s), w)
    <2>. SUFFICES ASSUME NEW i \in DOMAIN w, w[i] = Head(s) PROVE FALSE
      BY DEF Occurs
    <2>1. i + 1 = 1
      BY <1>2, <1>3, <1>4, <1>6 DEF AtMostOnce
    <2>. QED
      BY <1>3, <2>1
  <1>7. Occurs(m, w) => Occurs(m, s)
    BY <1>3 DEF Occurs
  <1>. QED
    BY <1>1, <1>2, <1>4, <1>5, <1>6, <1>7 DEF Occurs

LEMMA NothingWaits == \A m : ~Occurs(m, <<>>) /\ AtMostOnce(m, <<>>)
  <1>1. DOMAIN <<>> = {}
    BY LenProperties, EmptySeq
  <1>. QED
    BY <1>1 DEF Occurs, AtMostOnce

\* poll_loop and what it may lose: nothing is handled, nothing is recorded.
LEMMA PollOwned ==
  ASSUME TypeOK, Owned, NEW p \in Peers, Poll(p) \/ Drop(p)
  PROVE  Owned'
  <1>1. /\ row' = row /\ own' = own /\ stored' = stored /\ forgot' = forgot /\ spent' = spent
        /\ calls' = calls /\ outbox' = outbox
    BY DEF Poll, Drop, history
  <1>2. SameAssigned /\ Posted' = Posted
    BY <1>1 DEF SameAssigned, Assigned, Posted
  <1>3. got[p] \in Seq(Messages) /\ inbox[p] \in Seq(Messages)
    BY DEF TypeOK
  <1>4. /\ \A q \in Peers : q # p => got'[q] = got[q] /\ inbox'[q] = inbox[q]
        /\ \/ got'[p] = got[p] \o inbox[p] /\ inbox'[p] = <<>>
           \/ got'[p] = <<>> /\ inbox'[p] = <<>>
           \/ got'[p] = <<>> /\ inbox'[p] = inbox[p]
    BY DEF Poll, Drop, TypeOK
  <1>5. ASSUME NEW q \in Peers, NEW m \in Kept, WaitsOnce(q, m)
        PROVE  WaitsOnce(q, m)' /\ (Waits(q, m)' => Waits(q, m))
    <2>1. CASE q # p
      <3>1. got'[q] = got[q] /\ inbox'[q] = inbox[q]
        BY <1>4, <2>1
      <3>. QED
        BY <1>5, <3>1 DEF WaitsOnce, Waits, Occurs, AtMostOnce
    <2>2. CASE q = p
      <3>1. PICK g, b, g1, b1 : g = got[p] /\ b = inbox[p] /\ g1 = got'[p] /\ b1 = inbox'[p]
        OBVIOUS
      <3>2. AtMostOnce(m, g) /\ AtMostOnce(m, b) /\ ~(Occurs(m, g) /\ Occurs(m, b))
        BY <1>5, <2>2, <3>1 DEF WaitsOnce
      <3>3. \/ g1 = g \o b /\ b1 = <<>>
            \/ g1 = <<>> /\ b1 = <<>>
            \/ g1 = <<>> /\ b1 = b
        BY <1>4, <3>1
      <3>4. /\ AtMostOnce(m, g1) /\ AtMostOnce(m, b1) /\ ~(Occurs(m, g1) /\ Occurs(m, b1))
            /\ Occurs(m, g1) \/ Occurs(m, b1) => Occurs(m, g) \/ Occurs(m, b)
        BY <1>3, <3>1, <3>2, <3>3, ConcatOccurs, NothingWaits
      <3>5. WaitsOnce(p, m)' <=>
              AtMostOnce(m, g1) /\ AtMostOnce(m, b1) /\ ~(Occurs(m, g1) /\ Occurs(m, b1))
        BY <3>1 DEF WaitsOnce, AtMostOnce, Occurs
      <3>6. Waits(p, m)' <=> Occurs(m, g1) \/ Occurs(m, b1)
        BY <3>1 DEF Waits, Occurs
      <3>. QED
        BY <2>2, <3>1, <3>4, <3>5, <3>6 DEF Waits
    <2>. QED
      BY <2>1, <2>2
  <1>. QED
    BY <1>1, <1>2, <1>5, OwnedStays

\* handle_inbound_task_message: the task message makes the row; what is handled
\* later is an update for the delegator, or a message the relay has forgotten.
LEMMA HandleOwned ==
  ASSUME TypeOK, Causes, Mirrored, Numbered, Owned, NEW p \in Peers, Handle(p)
  PROVE  Owned'
  <1>1. PICK m, t : m = Head(got[p]) /\ t = m.task
    OBVIOUS
  <1>2. got[p] \in Seq(Messages) /\ got[p] # <<>>
    BY DEF TypeOK, Handle
  <1>3. m \in Messages /\ m \in stored /\ m.to = p /\ Occurs(m, got[p])
    <2>1. Occurs(m, got[p])
      BY <1>1, <1>2, TailOccurs
    <2>2. m \in stored /\ m.to = p
      BY <2>1 DEF Occurs, Causes, StoredFor
    <2>. QED
      BY <2>1, <2>2 DEF TypeOK
  <1>4. /\ m.from \in Peers /\ t \in TaskIds /\ Backed(m) /\ m.kind \in {"task", "update"}
        /\ m \in Sent
    BY <1>1, <1>3 DEF Mirrored, Sent, Messages
  <1>5. /\ row' = [row EXCEPT ![p][t] = Record(row[p][t], Received(m))]
        /\ got' = [got EXCEPT ![p] = Tail(got[p])] /\ inbox' = inbox
        /\ calls' = calls /\ outbox' = outbox /\ stored' = stored /\ spent' = spent
        /\ own' = own /\ forgot' = forgot
    BY <1>1 DEF Handle, history, relayVars
  <1>6. Received(m) \in Rows
    BY <1>3, ReceivedTyped
  <1>7. Posted' = Posted /\ Kept' = Kept
    BY <1>5 DEF Posted, Kept
  <1>8. ASSUME NEW q \in Peers, NEW k \in Kept, WaitsOnce(q, k)
        PROVE  WaitsOnce(q, k)' /\ (Waits(q, k)' => Waits(q, k) /\ ~(q = p /\ k = m))
    <2>1. CASE q # p
      <3>1. got'[q] = got[q] /\ inbox'[q] = inbox[q]
        BY <1>5, <2>1 DEF TypeOK
      <3>. QED
        BY <1>8, <2>1, <3>1 DEF WaitsOnce, Waits, Occurs, AtMostOnce
    <2>2. CASE q = p
      <3>1. PICK g, b, w : g = got[p] /\ b = inbox[p] /\ w = Tail(g)
        OBVIOUS
      <3>2. AtMostOnce(k, g) /\ AtMostOnce(k, b) /\ ~(Occurs(k, g) /\ Occurs(k, b))
        BY <1>8, <2>2, <3>1 DEF WaitsOnce
      <3>3. got'[p] = w /\ inbox'[p] = b
        BY <1>5, <3>1 DEF TypeOK
      <3>4. (Occurs(k, w) => Occurs(k, g)) /\ AtMostOnce(k, w)
        BY <1>2, <3>1, <3>2, TailOccurs
      <3>5. k = m => Occurs(k, g) /\ ~Occurs(k, w)
        BY <1>1, <1>2, <1>3, <3>1, <3>2, TailOccurs
      <3>6. WaitsOnce(p, k)' <=> AtMostOnce(k, w) /\ AtMostOnce(k, b) /\ ~(Occurs(k, w) /\ Occurs(k, b))
        BY <3>3 DEF WaitsOnce, AtMostOnce, Occurs
      <3>7. Waits(p, k)' <=> Occurs(k, w) \/ Occurs(k, b)
        BY <3>3 DEF Waits, Occurs
      <3>. QED
        BY <2>2, <3>1, <3>2, <3>4, <3>5, <3>6, <3>7 DEF Waits
    <2>. QED
      BY <2>1, <2>2
  <1>9. CASE row[p][t] # None
    <2>1. row[p][t] \in Rows
      BY <1>4, <1>9 DEF TypeOK
    <2>2. PICK new : new = Record(row[p][t], Received(m))
      OBVIOUS
    <2>3. new # None /\ new.direction = row[p][t].direction
      BY <1>6, <2>1, <2>2, RecordStays
    <2>4. \A q \in Peers, u \in TaskIds :
            row'[q][u] = IF q = p /\ u = t THEN new ELSE row[q][u]
      BY <1>4, <1>5, <2>2 DEF TypeOK
    <2>5. Assigned(p, t) => t \in forgot
      <3>. SUFFICES ASSUME Assigned(p, t), t \notin forgot PROVE FALSE
        OBVIOUS
      <3>1. m.kind = "task"
        <4>. SUFFICES ASSUME m.kind = "update" PROVE FALSE
          BY <1>4
        <4>1. Assigned(m.from, t) /\ row[m.from][t].peer = p
          BY <1>1, <1>3, <1>4 DEF Backed
        <4>2. Delegated(p, t)
          BY <1>4, <4>1 DEF Mirrored, RowsMirror
        <4>. QED
          BY <4>2 DEF Delegated, Assigned
      <3>2. m \in Kept /\ Waits(p, m)
        BY <1>1, <1>3, <3>1 DEF Kept, Waits
      <3>. QED
        BY <1>1, <3>1, <3>2 DEF Owned, HandledFirst
    <2>6. SameAssigned
      BY <1>5, <1>9, <2>3, <2>4, <2>5 DEF SameAssigned, Assigned
    <2>. QED
      BY <1>5, <1>7, <1>8, <2>6, OwnedStays
  <1>10. CASE row[p][t] = None
    <2>1. m.kind = "task"
      <3>. SUFFICES ASSUME m.kind = "update" PROVE FALSE
        BY <1>4
      <3>1. Assigned(m.from, t) /\ row[m.from][t].peer = p
        BY <1>1, <1>3, <1>4 DEF Backed
      <3>2. Delegated(p, t)
        BY <1>4, <3>1 DEF Mirrored, RowsMirror
      <3>. QED
        BY <1>10, <3>2 DEF Delegated
    <2>2. PICK new : new = Received(m)
      OBVIOUS
    <2>3. new.direction = "assigned" /\ new.status = "pending" /\ new # None
      BY <1>6, <2>1, <2>2, NoneAssumption DEF Received, NewRow
    <2>4. \A q \in Peers, u \in TaskIds :
            row'[q][u] = IF q = p /\ u = t THEN new ELSE row[q][u]
      BY <1>4, <1>5, <1>10, <2>2 DEF TypeOK, Record
    <2>5. \A q \in Peers, u \in TaskIds :
            Assigned(q, u)' <=> Assigned(q, u) \/ (q = p /\ u = t)
      BY <2>3, <2>4 DEF Assigned
    <2>6. ASSUME NEW q \in Peers, Assigned(q, t) PROVE FALSE
      <3>1. PICK d : d = row[q][t].peer
        OBVIOUS
      <3>2. d \in Peers
        BY <1>4, <2>6, <3>1 DEF TypeOK, Rows, Assigned
      <3>3. Delegated(d, t) /\ row[d][t].peer = q
        BY <1>4, <2>6, <3>1 DEF Mirrored, RowsMirror
      <3>4. Delegated(m.from, t) /\ row[m.from][t].peer = p
        BY <1>1, <1>3, <1>4, <2>1 DEF Backed
      <3>5. q = p
        BY <1>4, <3>2, <3>3, <3>4 DEF Mirrored, OneDelegator
      <3>. QED
        BY <1>10, <2>6, <3>5 DEF Assigned
    <2>7. own[t] = "pending"
      BY <1>4, <2>6 DEF Owned
    <2>8. ASSUME NEW q \in Peers, NEW u \in TaskIds, Assigned(q, u)', u \notin forgot'
          PROVE  row'[q][u].status = own'[u]
      <3>1. CASE q = p /\ u = t
        BY <1>5, <2>3, <2>4, <2>7, <3>1
      <3>2. CASE ~(q = p /\ u = t)
        <4>1. Assigned(q, u) /\ row'[q][u] = row[q][u] /\ u \notin forgot
          BY <1>5, <2>4, <2>5, <2>8, <3>2
        <4>. QED
          BY <1>5, <4>1 DEF Owned, OwnWork
      <3>. QED
        BY <3>1, <3>2
    <2>9. OwnWork'
      BY <2>8 DEF OwnWork
    <2>10. Recognised'
      BY <1>5, <1>7 DEF Owned, Recognised
    <2>11. ASSUME NEW q \in Peers, NEW k \in Kept, k.kind = "task", Waits(q, k)'
           PROVE  ~Assigned(q, k.task)'
      <3>1. WaitsOnce(q, k) /\ (Waits(q, k) => ~Assigned(q, k.task))
        BY <2>11 DEF Owned, HandledFirst
      <3>2. Waits(q, k) /\ ~(q = p /\ k = m)
        BY <1>8, <2>11, <3>1
      <3>3. k.task \in TaskIds /\ k \in Sent /\ k.kind = "task"
        BY <2>11 DEF Kept, TypeOK, Messages, Sent
      <3>4. ~(q = p /\ k.task = t)
        BY <1>1, <1>4, <2>1, <3>2, <3>3, OneTaskMessage
      <3>. QED
        BY <2>5, <3>1, <3>2, <3>3, <3>4
    <2>12. HandledFirst'
      BY <1>7, <1>8, <2>11 DEF HandledFirst, Owned
    <2>13. \A q \in Peers, u \in TaskIds :
             Assigned(q, u)' => \E k \in stored' : k.kind = "task" /\ k.task = u
      BY <1>1, <1>3, <1>5, <2>1, <2>5 DEF Owned
    <2>14. \A u \in TaskIds : own'[u] = "pending" \/ \E q \in Peers : Assigned(q, u)'
      BY <1>5, <2>5 DEF Owned
    <2>. QED
      BY <2>9, <2>10, <2>12, <2>13, <2>14 DEF Owned
  <1>. QED
    BY <1>9, <1>10

\* The relay restarts: what may be posted again is not kept any more.
LEMMA RestartOwned == TypeOK /\ Owned /\ RelayRestart => Owned'
  <1>. SUFFICES ASSUME TypeOK, Owned, RelayRestart PROVE Owned'
    OBVIOUS
  <1>1. /\ row' = row /\ own' = own /\ stored' = stored /\ got' = got
        /\ calls' = calls /\ outbox' = outbox /\ forgot' = forgot \union Again
        /\ inbox' = [p \in Peers |-> <<>>]
    BY DEF RelayRestart
  <1>2. SameAssigned /\ Posted' = Posted
    BY <1>1 DEF SameAssigned, Assigned, Posted
  <1>3. \A m \in Kept' : m \in Posted /\ m \in spent => FALSE
    BY <1>1 DEF Kept, Again, Posted
  <1>4. ASSUME NEW p \in Peers, NEW m \in Kept, WaitsOnce(p, m)
        PROVE  WaitsOnce(p, m)' /\ (Waits(p, m)' => Waits(p, m))
    <2>1. got'[p] = got[p] /\ inbox'[p] = <<>>
      BY <1>1
    <2>2. ~Occurs(m, inbox'[p]) /\ AtMostOnce(m, inbox'[p])
      BY <2>1, NothingWaits
    <2>. QED
      BY <1>4, <2>1, <2>2 DEF WaitsOnce, Waits, Occurs, AtMostOnce
  <1>. QED
    BY <1>1, <1>2, <1>3, <1>4, OwnedStays

LEMMA StepOwned ==
  ASSUME TypeOK, Causes, Mirrored, Numbered, Owned, [Next]_vars
  PROVE  Owned'
  <1>1. CASE UNCHANGED vars
    <2>1. /\ row' = row /\ own' = own /\ stored' = stored /\ got' = got /\ inbox' = inbox
          /\ calls' = calls /\ outbox' = outbox /\ forgot' = forgot /\ spent' = spent
      BY <1>1 DEF vars, relayVars, history
    <2>2. SameAssigned /\ Posted' = Posted
      BY <2>1 DEF SameAssigned, Assigned, Posted
    <2>. QED
      BY <2>1, <2>2, OwnedStays, SameWaiting
  <1>2. CASE Next
    BY <1>2, DelegateOwned, UpdateOwned, PostingOwned, PollOwned, HandleOwned, RestartOwned,
       TasksAssumption DEF Next
  <1>. QED
    BY <1>1, <1>2

\* What the theorems below rest on.
IInv == TypeOK /\ Causes /\ Mirrored /\ Numbered /\ Owned

LEMMA InitIInv == Init => IInv
  BY InitTyped, InitCauses, InitMirrored, InitNumbered, InitOwned DEF IInv

LEMMA StepIInv == IInv /\ [Next]_vars => IInv'
  BY StepTyped, StepCauses, StepMirrored, StepNumbered, StepOwned DEF IInv

\* main.py, clade_task and clade_task_update: an assigned row is backed by its
\* delegator's row and shows what its assignee set last, whatever is posted again.
THEOREM AssignedRowsStandHolds == Spec => []AssignedRowsStand
  <1>1. IInv => AssignedRowsStand
    BY DEF IInv, Mirrored, Owned, AssignedRowsStand
  <1>. QED
    BY <1>1, InitIInv, StepIInv, PTL DEF Spec

-----------------------------------------------------------------------------
(* Both sides come to the same status.                                     *)

In(a, b, s) == \E i, j \in DOMAIN s : s[i] = a /\ s[j] = b /\ i < j

\* The daemon of p will handle a before it handles b.
Before(p, a, b) ==
  \/ In(a, b, got[p]) \/ In(a, b, inbox[p])
  \/ Occurs(a, got[p]) /\ Occurs(b, inbox[p])

Latest(m) == \A c \in stored : c.task = m.task => c.n <= m.n

\* Of a task none of whose messages was lost or overtaken, every message is there,
\* and all but the newest have been taken by the relay.
Complete ==
  /\ \A p \in Peers, t \in TaskIds \ upset :
       Delegated(p, t) => \A n \in 0..updates[t] : \E m \in Sent : m.task = t /\ m.n = n
  /\ \A m \in Sent : m.task \notin upset /\ m.n < updates[m.task] => m \in stored

\* Its reports wait in the order they were made in.
InOrder ==
  \A a, b \in stored :
    a.task = b.task /\ a.task \notin upset /\ 0 < a.n /\ a.n < b.n /\ Waits(a.to, a)
      => Before(a.to, a, b)

\* What waits no longer has been recorded, and nothing else has.
UpToDate ==
  /\ \A m \in stored : m.task \notin upset /\ ~Waits(m.to, m) =>
       IF m.kind = "task" THEN row[m.to][m.task] # None
       ELSE Latest(m) => row[m.to][m.task].status = m.status
  /\ \A p \in Peers, t \in TaskIds :
       /\ Delegated(p, t) /\ t \notin upset /\ (\A m \in stored : m.task = t => m.n = 0)
       => row[p][t].status = "pending"

Agreeing == forgot \subseteq upset /\ Complete /\ InOrder /\ UpToDate

LEMMA InitAgreeing == Init => Agreeing
  BY DEF Init, Agreeing, Complete, InOrder, UpToDate, Delegated, NoRows, Sent, Posted

\* A report goes to the delegator.
LEMMA ReportGoesHome ==
  ASSUME TypeOK, Mirrored, NEW m \in Sent, m.kind = "update"
  PROVE  m.to \in Peers /\ m.task \in TaskIds /\ Delegated(m.to, m.task)
  <1>1. m \in Messages /\ Backed(m)
    BY SentTyped DEF Mirrored
  <1>2. m.from \in Peers /\ m.to \in Peers /\ m.task \in TaskIds
    BY <1>1 DEF Messages
  <1>. QED
    BY <1>1, <1>2 DEF Backed, Mirrored, RowsMirror

\* A step that takes nothing from an inbox to be recorded, and loses nothing of a
\* task that it does not upset.
LEMMA AgreeingStays ==
  ASSUME TypeOK, Mirrored, Agreeing, RowsStay,
         stored' = stored, updates' = updates, upset \subseteq upset', forgot' \subseteq forgot \union upset',
         Sent' \subseteq Sent, \A m \in Sent : m.task \notin upset' => m \in Sent',
         \A p \in Peers, t \in TaskIds \ upset' :
           Delegated(p, t)' => Delegated(p, t) /\ row'[p][t].status = row[p][t].status,
         \A m \in stored : m.task \notin upset' => (Waits(m.to, m)' <=> Waits(m.to, m)),
         \A a, b \in stored :
           a.task = b.task /\ a.task \notin upset' /\ Before(a.to, a, b) => Before(a.to, a, b)'
  PROVE  Agreeing'
  <1>0. /\ stored \subseteq Sent
        /\ \A m \in Sent : m.task \in TaskIds /\ m.to \in Peers /\ m.kind \in {"task", "update"}
    BY SentTyped DEF Sent, Messages
  <1>1. Complete'
    <2>1. \A m \in Sent' : m.task \notin upset' /\ m.n < updates'[m.task] => m \in stored'
      BY DEF Agreeing, Complete
    <2>2. ASSUME NEW p \in Peers, NEW t \in TaskIds \ upset', Delegated(p, t)', NEW n \in 0..updates'[t]
          PROVE  \E m \in Sent' : m.task = t /\ m.n = n
      <3>1. t \notin upset /\ Delegated(p, t) /\ n \in 0..updates[t]
        BY <2>2
      <3>2. PICK m \in Sent : m.task = t /\ m.n = n
        BY <3>1 DEF Agreeing, Complete
      <3>. QED
        BY <2>2, <3>2
    <2>. QED
      BY <2>1, <2>2 DEF Complete
  <1>2. InOrder'
    BY <1>0 DEF Agreeing, InOrder
  <1>3. ASSUME NEW m \in stored, m.task \notin upset', ~Waits(m.to, m)'
        PROVE  /\ m.kind = "task" => row'[m.to][m.task] # None
               /\ m.kind # "task" /\ Latest(m)' => row'[m.to][m.task].status = m.status
    <2>1. m.task \notin upset /\ ~Waits(m.to, m) /\ (Latest(m)' <=> Latest(m))
      BY <1>3 DEF Latest
    <2>2. CASE m.kind = "task"
      <3>1. row[m.to][m.task] # None
        BY <2>1, <2>2 DEF Agreeing, UpToDate
      <3>. QED
        BY <1>0, <2>2, <3>1 DEF RowsStay
    <2>3. CASE m.kind = "update" /\ Latest(m)
      <3>1. row[m.to][m.task].status = m.status
        BY <2>1, <2>3 DEF Agreeing, UpToDate
      <3>2. Delegated(m.to, m.task)
        BY <1>0, <2>3, ReportGoesHome
      <3>3. Delegated(m.to, m.task)'
        BY <1>0, <3>2 DEF RowsStay, Delegated
      <3>. QED
        BY <1>0, <1>3, <2>3, <3>1, <3>3
    <2>. QED
      BY <1>0, <2>1, <2>2, <2>3
  <1>4. UpToDate'
    BY <1>3 DEF Agreeing, UpToDate
  <1>. QED
    BY <1>1, <1>2, <1>4 DEF Agreeing

\* Where the queues stay the same.
LEMMA SameOrder ==
  ASSUME got' = got, inbox' = inbox
  PROVE  \A p, a, b : Before(p, a, b)' <=> Before(p, a, b)
  BY DEF Before, In, Occurs

\* What the relay takes waits behind everything else its receiver has.
LEMMA AppendWaits ==
  ASSUME TypeOK, NEW m \in Messages, got' = got,
         inbox' = [inbox EXCEPT ![m.to] = Append(inbox[m.to], m)],
         NEW p \in Peers, NEW a, NEW b
  PROVE  /\ Waits(p, a) => Waits(p, a)'
         /\ a # m /\ Waits(p, a)' => Waits(p, a)
         /\ Before(p, a, b) => Before(p, a, b)'
         /\ p = m.to => Waits(p, m)' /\ (Waits(p, a) => Before(p, a, m)')
  <1>1. m.to \in Peers /\ inbox[m.to] \in Seq(Messages)
    BY DEF TypeOK, Messages
  <1>2. CASE p # m.to
    <2>1. got'[p] = got[p] /\ inbox'[p] = inbox[p]
      BY <1>2 DEF TypeOK
    <2>. QED
      BY <1>2, <2>1 DEF Waits, Before, Occurs, In
  <1>3. CASE p = m.to
    <2>1. PICK n, g, s, u : n = Len(inbox[p]) /\ g = got[p] /\ s = inbox[p] /\ u = Append(s, m)
      OBVIOUS
    <2>2. got'[p] = g /\ inbox'[p] = u /\ got[p] = g /\ inbox[p] = s
      BY <1>1, <1>3, <2>1 DEF TypeOK
    <2>3. /\ n \in Nat /\ DOMAIN s = 1..n /\ DOMAIN u = 1..(n + 1) /\ u[n + 1] = m
          /\ \A i \in 1..n : u[i] = s[i]
      BY <1>1, <1>3, <2>1, AppendProperties, LenProperties
    <2>4. \A i \in DOMAIN s : i \in DOMAIN u /\ i < n + 1 /\ u[i] = s[i]
      BY <2>3
    <2>5. \A i \in DOMAIN u : i \in DOMAIN s \/ u[i] = m
      BY <2>3
    <2>6. n + 1 \in DOMAIN u /\ u[n + 1] = m
      BY <2>3
    <2>7. /\ Occurs(a, s) => Occurs(a, u)
          /\ a # m /\ Occurs(a, u) => Occurs(a, s)
          /\ Occurs(b, s) => Occurs(b, u)
          /\ In(a, b, s) => In(a, b, u)
          /\ Occurs(m, u)
          /\ Occurs(a, s) => In(a, m, u)
      <3>1. In(a, b, s) => In(a, b, u)
        BY <2>4 DEF In
      <3>2. Occurs(a, s) => In(a, m, u)
        BY <2>4, <2>6 DEF In, Occurs
      <3>3. a # m /\ Occurs(a, u) => Occurs(a, s)
        BY <2>4, <2>5 DEF Occurs
      <3>. QED
        BY <2>4, <2>6, <3>1, <3>2, <3>3 DEF Occurs
    <2>8. /\ \A k : Waits(p, k) <=> Occurs(k, g) \/ Occurs(k, s)
          /\ \A k : Waits(p, k)' <=> Occurs(k, g) \/ Occurs(k, u)
      BY <2>2 DEF Waits, Occurs
    <2>9. /\ \A k, l : Before(p, k, l) <=> In(k, l, g) \/ In(k, l, s) \/ (Occurs(k, g) /\ Occurs(l, s))
          /\ \A k, l : Before(p, k, l)' <=> In(k, l, g) \/ In(k, l, u) \/ (Occurs(k, g) /\ Occurs(l, u))
      BY <2>2 DEF Before, Occurs, In
    <2>. QED
      BY <2>7, <2>8, <2>9
  <1>. QED
    BY <1>2, <1>3

\* The relay takes a message: of a task without upsets it is the newest one.
LEMMA StoreAgrees ==
  ASSUME IInv, Agreeing, NEW m \in Posted, m \notin spent,
         stored' = stored \union {m}, got' = got, row' = row, updates' = updates,
         inbox' = [inbox EXCEPT ![m.to] = Append(inbox[m.to], m)],
         upset \subseteq upset', forgot' = forgot, Sent' = Sent
  PROVE  Agreeing'
  <1>0. /\ TypeOK /\ Mirrored /\ Numbered
        /\ stored \subseteq Sent /\ m \in Sent /\ m \in Messages /\ stored' \subseteq Sent
        /\ \A k \in Sent : k \in Messages /\ k.task \in TaskIds /\ k.to \in Peers
                           /\ k.kind \in {"task", "update"} /\ k.n \in Nat
    BY SentTyped DEF IInv, Sent, Messages
  <1>1. m.task \notin upset => m \notin stored
    BY DEF Agreeing, IInv, Owned, Recognised, Kept
  <1>2. Complete'
    <2>1. \A k \in Sent' : k.task \notin upset' /\ k.n < updates'[k.task] => k \in stored'
      BY DEF Agreeing, Complete
    <2>2. \A p \in Peers, t \in TaskIds \ upset' :
            Delegated(p, t)' => \A n \in 0..updates'[t] : \E k \in Sent' : k.task = t /\ k.n = n
      BY DEF Agreeing, Complete, Delegated
    <2>. QED
      BY <2>1, <2>2 DEF Complete
  <1>3. ASSUME NEW a \in stored', NEW b \in stored', a.task = b.task, a.task \notin upset',
               0 < a.n, a.n < b.n, Waits(a.to, a)'
        PROVE  Before(a.to, a, b)'
    <2>1. a.to \in Peers /\ a \in Sent /\ b \in Sent /\ a.n \in Nat /\ b.n \in Nat
          /\ a.task \in TaskIds /\ a.task \notin upset
      BY <1>0, <1>3
    <2>2. a # m
      <3>. SUFFICES ASSUME a = m PROVE FALSE
        OBVIOUS
      <3>1. b.n <= updates[b.task] /\ updates[b.task] \in Nat
        BY <1>0, <1>3, <2>1 DEF Numbered, TypeOK
      <3>2. m.n < updates[m.task]
        BY <1>3, <2>1, <3>1
      <3>3. m \in stored
        BY <1>0, <1>3, <3>2 DEF Agreeing, Complete
      <3>. QED
        BY <1>1, <1>3, <2>1, <3>3
    <2>3. a \in stored /\ Waits(a.to, a)
      BY <1>0, <1>3, <2>1, <2>2, AppendWaits
    <2>4. CASE b # m
      <3>1. Before(a.to, a, b)
        BY <1>3, <2>1, <2>3, <2>4 DEF Agreeing, InOrder
      <3>. QED
        BY <1>0, <2>1, <3>1, AppendWaits
    <2>5. CASE b = m
      <3>1. a.kind = "update" /\ b.kind = "update"
        BY <1>0, <1>3, <2>1 DEF Numbered
      <3>2. a.to = m.to
        BY <1>0, <1>3, <2>1, <2>5, <3>1, ReportGoesHome DEF Mirrored, OneDelegator
      <3>. QED
        BY <1>0, <2>1, <2>3, <2>5, <3>2, AppendWaits
    <2>. QED
      BY <2>4, <2>5
  <1>4. InOrder'
    BY <1>3 DEF InOrder
  <1>5. ASSUME NEW k \in stored', k.task \notin upset', ~Waits(k.to, k)'
        PROVE  /\ k.kind = "task" => row'[k.to][k.task] # None
               /\ k.kind # "task" /\ Latest(k)' => row'[k.to][k.task].status = k.status
    <2>1. k.to \in Peers
      BY <1>0
    <2>2. k # m
      BY <1>0, <1>5, <2>1, AppendWaits
    <2>3. k \in stored /\ ~Waits(k.to, k) /\ k.task \notin upset
      BY <1>0, <1>5, <2>1, <2>2, AppendWaits
    <2>4. Latest(k)' => Latest(k)
      BY DEF Latest
    <2>. QED
      BY <2>3, <2>4 DEF Agreeing, UpToDate
  <1>6. UpToDate'
    BY <1>5 DEF Agreeing, UpToDate, Delegated
  <1>. QED
    BY <1>2, <1>4, <1>6 DEF Agreeing

\* A post either changes no inbox or has its message taken.
LEMMA ReachesAgrees ==
  ASSUME IInv, Agreeing, NEW m \in Posted, NEW x, Reaches(m, x), got' = got, row' = row,
         updates' = updates, upset \subseteq upset', forgot' = forgot, Sent' = Sent
  PROVE  Agreeing'
  <1>1. \/ stored' = stored /\ inbox' = inbox
        \/ /\ m \notin spent /\ stored' = stored \union {m}
           /\ inbox' = [inbox EXCEPT ![m.to] = Append(inbox[m.to], m)]
    BY DEF Reaches, Replayed, relayVars
  <1>2. CASE stored' = stored /\ inbox' = inbox
    <2>1. RowsStay /\ \A p \in Peers, t \in TaskIds : Delegated(p, t)' => Delegated(p, t)
      BY DEF RowsStay, Delegated
    <2>2. \A p, a, b : (Waits(p, a)' <=> Waits(p, a)) /\ (Before(p, a, b)' <=> Before(p, a, b))
      BY <1>2, SameWaiting, SameOrder
    <2>. QED
      BY <1>2, <2>1, <2>2, AgreeingStays DEF IInv
  <1>. QED
    BY <1>1, <1>2, StoreAgrees

\* The relay, the outbox and the calls: what they give up upsets its task.
LEMMA PostingAgrees ==
  ASSUME IInv, Agreeing,
         \/ \E c \in calls : Post(c) \/ Return(c) \/ Die(c)
         \/ \E m \in outbox : Retry(m) \/ GiveUp(m)
  PROVE  Agreeing'
  <1>1. ASSUME NEW c \in calls, Post(c) PROVE Agreeing'
    <2>1. PICK x \in Answers :
            /\ calls' = (calls \ {c}) \union {[c EXCEPT !.answer = x]}
            /\ \/ x \notin {"net", "reset"} /\ Reaches(c.msg, x)
               \/ x \in {"net", "reset"} /\ \E y \in {"ok", "server"} : Reaches(c.msg, y)
               \/ x \in {"net", "reset"} /\ UNCHANGED <<relayVars, stored>>
      BY <1>1 DEF Post
    <2>2. [c EXCEPT !.answer = x].msg = c.msg
      BY DEF TypeOK, IInv
    <2>3. {d.msg : d \in calls'} = {d.msg : d \in calls} /\ c.msg \in Posted
      BY <2>1, <2>2 DEF Posted
    <2>4. /\ outbox' = outbox /\ got' = got /\ row' = row /\ updates' = updates
          /\ upset' = upset /\ forgot' = forgot
      BY <1>1 DEF Post
    <2>5. Posted' = Posted
      BY <2>3, <2>4 DEF Posted
    <2>6. CASE UNCHANGED <<relayVars, stored>>
      <3>1. Reaches(c.msg, "client")
        BY <2>6 DEF Reaches
      <3>2. Sent' = Sent
        BY <2>5, <2>6 DEF Sent
      <3>. QED
        BY <2>3, <2>4, <3>1, <3>2, ReachesAgrees
    <2>7. ASSUME NEW y, Reaches(c.msg, y) PROVE Agreeing'
      <3>1. stored' = stored \/ stored' = stored \union {c.msg}
        BY <2>7 DEF Reaches
      <3>2. Sent' = Sent
        BY <2>3, <2>5, <3>1 DEF Sent
      <3>. QED
        BY <2>3, <2>4, <2>7, <3>2, ReachesAgrees
    <2>. QED
      BY <2>1, <2>6, <2>7
  <1>2. ASSUME NEW m \in outbox, Retry(m) PROVE Agreeing'
    <2>1. PICK x \in {"ok", "server"} :
            /\ Reaches(m, x)
            /\ outbox' \in IF x = "ok" THEN {outbox, outbox \ {m}} ELSE {outbox}
            /\ Upset(m.task, x = "server")
      BY <1>2 DEF Retry
    <2>2. /\ calls' = calls /\ got' = got /\ row' = row /\ updates' = updates
          /\ upset \subseteq upset' /\ forgot' = forgot
      BY <1>2, <2>1 DEF Retry, Upset
    <2>3. stored' = stored \/ stored' = stored \union {m}
      BY <2>1 DEF Reaches
    <2>4. x = "ok" => m \in stored'
      BY <2>1 DEF Reaches
    <2>5. outbox' = outbox \/ (outbox' = outbox \ {m} /\ m \in stored')
      BY <2>1, <2>4
    <2>6. Sent' = Sent
      BY <2>2, <2>3, <2>5 DEF Sent, Posted
    <2>. QED
      BY <2>1, <2>2, <2>6, ReachesAgrees DEF Posted
  <1>3. ASSUME NEW m \in Posted, RowsStay, Posted' \subseteq Posted, Posted \ {m} \subseteq Posted',
               m \in Posted' \/ m \in stored \/ m.task \in upset',
               \A p \in Peers, t \in TaskIds \ upset' :
                 Delegated(p, t)' => Delegated(p, t) /\ row'[p][t].status = row[p][t].status,
               stored' = stored, inbox' = inbox, got' = got, updates' = updates, forgot' = forgot,
               upset \subseteq upset'
        PROVE  Agreeing'
    <2>1. \A p, a, b : (Waits(p, a)' <=> Waits(p, a)) /\ (Before(p, a, b)' <=> Before(p, a, b))
      BY <1>3, SameWaiting, SameOrder
    <2>2. Sent' \subseteq Sent /\ \A k \in Sent : k.task \notin upset' => k \in Sent'
      BY <1>3 DEF Sent
    <2>. QED
      BY <1>3, <2>1, <2>2, AgreeingStays DEF IInv
  <1>4. ASSUME NEW m \in outbox, GiveUp(m) PROVE Agreeing'
    <2>1. /\ outbox' = outbox \ {m} /\ calls' = calls /\ stored' = stored /\ row' = row
          /\ inbox' = inbox /\ got' = got /\ updates' = updates /\ forgot' = forgot
          /\ upset \subseteq upset' /\ (m \in stored \/ m.task \in upset')
      BY <1>4 DEF GiveUp, Upset, relayVars
    <2>2. m \in Posted /\ Posted' \subseteq Posted /\ Posted \ {m} \subseteq Posted'
      BY <2>1 DEF Posted
    <2>3. RowsStay /\ \A p \in Peers, t \in TaskIds : Delegated(p, t)' => Delegated(p, t)
      BY <2>1 DEF RowsStay, Delegated
    <2>. QED
      BY <1>3, <2>1, <2>2, <2>3
  <1>5. ASSUME NEW c \in calls, Die(c) PROVE Agreeing'
    <2>0. PICK m : m = c.msg
      OBVIOUS
    <2>1. /\ outbox' = outbox /\ calls' = calls \ {c} /\ stored' = stored /\ row' = row
          /\ inbox' = inbox /\ got' = got /\ updates' = updates /\ forgot' = forgot
          /\ upset \subseteq upset' /\ (m \in stored \/ m.task \in upset')
      BY <1>5, <2>0 DEF Die, Upset, relayVars
    <2>2. m \in Posted /\ Posted' \subseteq Posted /\ Posted \ {m} \subseteq Posted'
      BY <2>0, <2>1 DEF Posted
    <2>3. RowsStay /\ \A p \in Peers, t \in TaskIds : Delegated(p, t)' => Delegated(p, t)
      BY <2>1 DEF RowsStay, Delegated
    <2>. QED
      BY <1>3, <2>1, <2>2, <2>3
  <1>6. ASSUME NEW c \in calls, Return(c) PROVE Agreeing'
    <2>0. PICK m : m = c.msg
      OBVIOUS
    <2>1. /\ calls' = calls \ {c} /\ stored' = stored
          /\ outbox' = IF Queues(c.answer) THEN outbox \union {m} ELSE outbox
          /\ inbox' = inbox /\ got' = got /\ updates' = updates /\ forgot' = forgot
          /\ Upset(m.task, m \notin stored /\ (m \in spent \/ ~Queues(c.answer)))
      BY <1>6, <2>0 DEF Return, relayVars
    <2>2. upset \subseteq upset' /\ (m \notin stored /\ ~Queues(c.answer) => m.task \in upset')
      BY <2>1 DEF Upset
    <2>3. m \in Posted /\ Posted' \subseteq Posted /\ Posted \ {m} \subseteq Posted'
      BY <2>0, <2>1 DEF Posted
    <2>4. m \in Posted' \/ m \in stored \/ m.task \in upset'
      BY <2>1, <2>2 DEF Posted
    <2>5. RowsStay /\ NoNewRow
      BY <1>6, ReturnMirrored DEF IInv
    <2>6. m.from \in Peers /\ m.task \in TaskIds /\ m.to \in Peers
      BY <2>0 DEF IInv, TypeOK, Messages
    <2>7. ASSUME NEW p \in Peers, NEW t \in TaskIds \ upset', Delegated(p, t)'
          PROVE  Delegated(p, t) /\ row'[p][t].status = row[p][t].status
      <3>1. Delegated(p, t)
        BY <2>5, <2>7 DEF RowsStay, NoNewRow, Delegated
      <3>2. row'[p][t] = row[p][t]
        <4>. SUFFICES ASSUME row'[p][t] # row[p][t] PROVE FALSE
          OBVIOUS
        <4>1. m.kind = "task" /\ IsError(c.answer) /\ t = m.task
          BY <1>6, <2>0, <2>6 DEF Return, IInv, TypeOK
        <4>2. c.answer = "client" /\ ~Queues(c.answer)
          BY <4>1 DEF IsError, Queues
        <4>3. m \notin stored
          <5>1. c.answer \in {None, "client"} /\ Alone(c)
            BY <4>2 DEF IInv, Causes
          <5>. QED
            BY <2>0, <4>1, <5>1 DEF Alone, About
        <4>. QED
          BY <2>2, <2>7, <4>1, <4>2, <4>3
      <3>. QED
        BY <3>1, <3>2
    <2>. QED
      BY <1>3, <2>1, <2>2, <2>3, <2>4, <2>5, <2>7
  <1>. QED
    BY <1>1, <1>2, <1>4, <1>5, <1>6

\* clade_task: a task begins with its message under way and a pending row.
LEMMA DelegateAgrees ==
  ASSUME IInv, Agreeing, NEW d \in Peers, NEW a \in Peers, NEW t \in TaskIds, Delegate(d, a, t)
  PROVE  Agreeing'
  <1>1. PICK msg : msg = Message("task", d, a, t, 0, "pending")
    OBVIOUS
  <1>2. PICK made : made = NewRow("delegated", a, TRUE, "pending")
    OBVIOUS
  <1>3. msg.task = t /\ msg.n = 0 /\ made.direction = "delegated" /\ made.status = "pending"
    BY <1>1, <1>2 DEF Message, NewRow
  <1>4. /\ calls' = calls \union {[msg |-> msg, answer |-> None]}
        /\ row' = [row EXCEPT ![d][t] = made] /\ outbox' = outbox /\ stored' = stored
        /\ got' = got /\ inbox' = inbox /\ updates' = updates /\ upset' = upset /\ forgot' = forgot
        /\ \A p \in Peers : row[p][t] = None
    BY <1>1, <1>2 DEF Delegate, relayVars, history
  <1>5. Sent' = Sent \union {msg}
    BY <1>4, CallPosts
  <1>6. \A p \in Peers, u \in TaskIds :
          row'[p][u] = IF p = d /\ u = t THEN made ELSE row[p][u]
    BY <1>4 DEF IInv, TypeOK
  <1>7. updates[t] = 0
    BY <1>4 DEF IInv, Numbered
  <1>8. \A m \in Sent : m \in Messages /\ m.task \in TaskIds /\ m.to \in Peers /\ m.task # t
    BY <1>4, SentTyped DEF IInv, Mirrored, Backed, Messages
  <1>9. Complete'
    <2>1. ASSUME NEW p \in Peers, NEW u \in TaskIds \ upset', Delegated(p, u)', NEW n \in 0..updates'[u]
          PROVE  \E m \in Sent' : m.task = u /\ m.n = n
      <3>1. CASE u = t
        <4>1. n = 0
          BY <1>4, <1>7, <2>1, <3>1
        <4>. QED
          BY <1>3, <1>5, <3>1, <4>1
      <3>2. CASE u # t
        <4>1. Delegated(p, u) /\ u \notin upset /\ n \in 0..updates[u]
          BY <1>4, <1>6, <2>1, <3>2 DEF Delegated
        <4>. QED
          BY <1>5, <4>1 DEF Agreeing, Complete
      <3>. QED
        BY <3>1, <3>2
    <2>2. \A m \in Sent' : m.task \notin upset' /\ m.n < updates'[m.task] => m \in stored'
      BY <1>3, <1>4, <1>5, <1>7 DEF Agreeing, Complete
    <2>. QED
      BY <2>1, <2>2 DEF Complete
  <1>10. \A p, k, l : (Waits(p, k)' <=> Waits(p, k)) /\ (Before(p, k, l)' <=> Before(p, k, l))
    BY <1>4, SameWaiting, SameOrder
  <1>11. InOrder'
    BY <1>4, <1>10 DEF Agreeing, InOrder
  <1>12. \A m \in stored : m.task \in TaskIds /\ m.to \in Peers /\ m.task # t /\ (Latest(m)' <=> Latest(m))
    BY <1>4, <1>8 DEF Sent, Latest
  <1>13. \A m \in stored' : m.task \notin upset' /\ ~Waits(m.to, m)' =>
           IF m.kind = "task" THEN row'[m.to][m.task] # None
           ELSE Latest(m)' => row'[m.to][m.task].status = m.status
    <2>. SUFFICES ASSUME NEW m \in stored, m.task \notin upset, ~Waits(m.to, m)
                  PROVE  IF m.kind = "task" THEN row'[m.to][m.task] # None
                         ELSE Latest(m)' => row'[m.to][m.task].status = m.status
      BY <1>4, <1>10
    <2>1. row'[m.to][m.task] = row[m.to][m.task] /\ (Latest(m)' <=> Latest(m))
      BY <1>6, <1>12
    <2>2. IF m.kind = "task" THEN row[m.to][m.task] # None
          ELSE Latest(m) => row[m.to][m.task].status = m.status
      BY DEF Agreeing, UpToDate
    <2>. QED
      BY <2>1, <2>2
  <1>14. \A p \in Peers, u \in TaskIds :
           /\ Delegated(p, u)' /\ u \notin upset' /\ (\A m \in stored' : m.task = u => m.n = 0)
           => row'[p][u].status = "pending"
    BY <1>3, <1>4, <1>6 DEF Agreeing, UpToDate, Delegated
  <1>15. UpToDate'
    BY <1>13, <1>14 DEF UpToDate
  <1>. QED
    BY <1>4, <1>9, <1>11, <1>15 DEF Agreeing

\* clade_task_update: a report that overtakes another upsets its task.
LEMMA UpdateAgrees ==
  ASSUME IInv, Agreeing, NEW a \in Peers, NEW t \in TaskIds, NEW s \in Reported, Update(a, t, s)
  PROVE  Agreeing'
  <1>1. PICK msg : msg = Message("update", a, row[a][t].peer, t, updates[t] + 1, s)
    OBVIOUS
  <1>2. msg.task = t /\ msg.n = updates[t] + 1
    BY <1>1 DEF Message
  <1>3. /\ calls' = calls \union {[msg |-> msg, answer |-> None]}
        /\ row' = [row EXCEPT ![a] = [row[a] EXCEPT ![t] = [row[a][t] EXCEPT !.status = s]]]
        /\ outbox' = outbox /\ stored' = stored /\ got' = got /\ inbox' = inbox
        /\ updates' = [updates EXCEPT ![t] = updates[t] + 1] /\ forgot' = forgot
        /\ Upset(t, Unsettled(t) # {}) /\ Assigned(a, t)
    BY <1>1 DEF Update, relayVars, Assigned
  <1>4. upset \subseteq upset' /\ (t \notin upset' => Unsettled(t) = {})
    BY <1>3 DEF Upset
  <1>5. Sent' = Sent \union {msg}
    BY <1>3, CallPosts
  <1>6. \A m \in Sent : /\ m.task \in TaskIds /\ m.to \in Peers /\ m.n \in Nat
                        /\ m.kind \in {"task", "update"}
    BY SentTyped DEF IInv, Messages
  <1>7. \A u \in TaskIds :
          updates[u] \in Nat /\ updates'[u] = IF u = t THEN updates[t] + 1 ELSE updates[u]
    BY <1>3 DEF IInv, TypeOK
  <1>8. RowsStay
    BY UpdateMirrored DEF IInv
  <1>9. \A p \in Peers, u \in TaskIds :
          /\ Delegated(p, u)' => Delegated(p, u)
          /\ Delegated(p, u) => row'[p][u] = row[p][u]
    <2>1. \A p \in Peers, u \in TaskIds : (p = a /\ u = t) \/ row'[p][u] = row[p][u]
      BY <1>3 DEF IInv, TypeOK
    <2>2. ~Delegated(a, t) /\ ~Delegated(a, t)'
      BY <1>3, <1>8 DEF Delegated, Assigned, RowsStay
    <2>. QED
      BY <2>1, <2>2 DEF Delegated
  <1>10. \A m \in Sent : m.task = t /\ t \notin upset' => m \in stored
    BY <1>4 DEF Unsettled, Sent, Posted
  <1>11. Complete'
    <2>1. ASSUME NEW p \in Peers, NEW u \in TaskIds \ upset', Delegated(p, u)', NEW n \in 0..updates'[u]
          PROVE  \E m \in Sent' : m.task = u /\ m.n = n
      <3>1. u \notin upset /\ Delegated(p, u)
        BY <1>4, <1>9, <2>1
      <3>2. CASE n \in 0..updates[u]
        BY <1>5, <3>1, <3>2 DEF Agreeing, Complete
      <3>3. CASE n \notin 0..updates[u]
        <4>1. u = t /\ n = updates[t] + 1
          BY <1>7, <2>1, <3>3
        <4>. QED
          BY <1>2, <1>5, <4>1
      <3>. QED
        BY <3>2, <3>3
    <2>2. ASSUME NEW m \in Sent', m.task \notin upset', m.n < updates'[m.task] PROVE m \in stored
      <3>1. m # msg
        BY <1>2, <1>7, <2>2
      <3>2. m \in Sent
        BY <1>5, <2>2, <3>1
      <3>3. CASE m.task = t
        BY <1>10, <2>2, <3>2, <3>3
      <3>4. CASE m.task # t
        BY <1>4, <1>6, <1>7, <2>2, <3>2, <3>4 DEF Agreeing, Complete
      <3>. QED
        BY <3>3, <3>4
    <2>. QED
      BY <1>3, <2>1, <2>2 DEF Complete
  <1>12. \A p, k, l : (Waits(p, k)' <=> Waits(p, k)) /\ (Before(p, k, l)' <=> Before(p, k, l))
    BY <1>3, SameWaiting, SameOrder
  <1>13. InOrder'
    BY <1>3, <1>4, <1>12 DEF Agreeing, InOrder
  <1>14. ASSUME NEW m \in stored, m.task \notin upset', ~Waits(m.to, m)'
         PROVE  /\ m.kind = "task" => row'[m.to][m.task] # None
                /\ m.kind # "task" /\ Latest(m)' => row'[m.to][m.task].status = m.status
    <2>1. m \in Sent /\ m.task \notin upset /\ ~Waits(m.to, m) /\ (Latest(m)' <=> Latest(m))
      BY <1>3, <1>4, <1>12, <1>14 DEF Sent, Latest
    <2>2. CASE m.kind = "task"
      <3>1. row[m.to][m.task] # None
        BY <2>1, <2>2 DEF Agreeing, UpToDate
      <3>. QED
        BY <1>6, <1>8, <2>1, <2>2, <3>1 DEF RowsStay
    <2>3. CASE m.kind = "update"
      <3>1. Latest(m) => row[m.to][m.task].status = m.status
        BY <2>1, <2>3 DEF Agreeing, UpToDate
      <3>2. Delegated(m.to, m.task)
        BY <2>1, <2>3, ReportGoesHome DEF IInv
      <3>. QED
        BY <1>6, <1>9, <2>1, <2>3, <3>1, <3>2
    <2>. QED
      BY <1>6, <2>1, <2>2, <2>3
  <1>15. \A p \in Peers, u \in TaskIds :
           /\ Delegated(p, u)' /\ u \notin upset' /\ (\A m \in stored' : m.task = u => m.n = 0)
           => row'[p][u].status = "pending"
    <2>. SUFFICES ASSUME NEW p \in Peers, NEW u \in TaskIds, Delegated(p, u)', u \notin upset',
                         \A m \in stored : m.task = u => m.n = 0
                  PROVE  row'[p][u].status = "pending"
      BY <1>3
    <2>1. Delegated(p, u) /\ row'[p][u] = row[p][u] /\ u \notin upset
      BY <1>4, <1>9
    <2>. QED
      BY <2>1 DEF Agreeing, UpToDate
  <1>16. UpToDate'
    BY <1>3, <1>14, <1>15 DEF UpToDate
  <1>. QED
    BY <1>3, <1>4, <1>11, <1>13, <1>16 DEF Agreeing

\* Taking one sequence behind another keeps the order of each.
LEMMA ConcatOrder ==
  ASSUME NEW s \in Seq(Messages), NEW u \in Seq(Messages), NEW a, NEW b
  PROVE  /\ Occurs(a, s) \/ Occurs(a, u) => Occurs(a, s \o u)
         /\ In(a, b, s) \/ In(a, b, u) \/ (Occurs(a, s) /\ Occurs(b, u)) => In(a, b, s \o u)
  <1>1. PICK k, l, w : k = Len(s) /\ l = Len(u) /\ w = s \o u
    OBVIOUS
  <1>2. /\ k \in Nat /\ l \in Nat /\ DOMAIN s = 1..k /\ DOMAIN u = 1..l /\ DOMAIN w = 1..(k + l)
    BY <1>1, LenProperties, ConcatProperties
  <1>3. \A i \in 1..(k + l) : w[i] = IF i <= k THEN s[i] ELSE u[i - k]
    BY <1>1, ConcatProperties
  <1>4. \A i \in DOMAIN s : i \in DOMAIN w /\ w[i] = s[i] /\ i <= k /\ i \in Int
    BY <1>2, <1>3
  <1>5. \A i \in DOMAIN u : i + k \in DOMAIN w /\ w[i + k] = u[i] /\ k < i + k /\ i \in Int
    <2>. SUFFICES ASSUME NEW i \in DOMAIN u
                  PROVE  i + k \in DOMAIN w /\ w[i + k] = u[i] /\ k < i + k /\ i \in Int
      OBVIOUS
    <2>1. i \in Int /\ i + k \in 1..(k + l) /\ ~(i + k <= k) /\ (i + k) - k = i
      BY <1>2
    <2>. QED
      BY <1>2, <1>3, <2>1
  <1>6. Occurs(a, s) \/ Occurs(a, u) => Occurs(a, w)
    BY <1>4, <1>5 DEF Occurs
  <1>7. In(a, b, s) => In(a, b, w)
    BY <1>4 DEF In
  <1>8. In(a, b, u) => In(a, b, w)
    <2>. SUFFICES ASSUME NEW i \in DOMAIN u, NEW j \in DOMAIN u, u[i] = a, u[j] = b, i < j
                  PROVE  In(a, b, w)
      BY DEF In
    <2>1. i + k < j + k
      BY <1>2, <1>5
    <2>. QED
      BY <1>5, <2>1 DEF In
  <1>9. Occurs(a, s) /\ Occurs(b, u) => In(a, b, w)
    <2>. SUFFICES ASSUME NEW i \in DOMAIN s, NEW j \in DOMAIN u, s[i] = a, u[j] = b
                  PROVE  In(a, b, w)
      BY DEF Occurs
    <2>1. i < j + k
      BY <1>2, <1>4, <1>5
    <2>. QED
      BY <1>4, <1>5, <2>1 DEF In
  <1>. QED
    BY <1>1, <1>6, <1>7, <1>8, <1>9

\* Taking the first one keeps the order of the others.
LEMMA TailOrder ==
  ASSUME NEW s \in Seq(Messages), s # <<>>, NEW a, NEW b, a # Head(s)
  PROVE  /\ Occurs(a, s) => Occurs(a, Tail(s))
         /\ In(a, b, s) => In(a, b, Tail(s))
  <1>1. PICK k, w : k = Len(s) /\ w = Tail(s)
    OBVIOUS
  <1>2. /\ k \in Nat /\ k # 0 /\ DOMAIN s = 1..k /\ DOMAIN w = 1..(k - 1) /\ Head(s) = s[1]
        /\ \A i \in 1..(k - 1) : w[i] = s[i + 1]
    BY <1>1, LenProperties, HeadTailProperties, EmptySeq
  <1>3. \A i \in DOMAIN s : i \in Int /\ (i # 1 => i - 1 \in DOMAIN w /\ w[i - 1] = s[i])
    <2>. SUFFICES ASSUME NEW i \in 1..k, i # 1 PROVE i - 1 \in 1..(k - 1) /\ w[i - 1] = s[i]
      BY <1>2
    <2>1. i - 1 \in 1..(k - 1) /\ (i - 1) + 1 = i
      BY <1>2
    <2>. QED
      BY <1>2, <2>1
  <1>4. Occurs(a, s) => Occurs(a, w)
    BY <1>2, <1>3 DEF Occurs
  <1>5. In(a, b, s) => In(a, b, w)
    <2>. SUFFICES ASSUME NEW i \in DOMAIN s, NEW j \in DOMAIN s, s[i] = a, s[j] = b, i < j
                  PROVE  In(a, b, w)
      BY DEF In
    <2>1. i # 1 /\ j # 1 /\ i - 1 < j - 1
      BY <1>2, <1>3
    <2>. QED
      BY <1>3, <2>1 DEF In
  <1>. QED
    BY <1>1, <1>4, <1>5

LEMMA NothingInOrder == \A a, b : ~In(a, b, <<>>)
  <1>1. DOMAIN <<>> = {}
    BY LenProperties, EmptySeq
  <1>. QED
    BY <1>1 DEF In

\* poll_loop takes all that waits, in its order; what gets lost upsets its task.
LEMMA PollAgrees ==
  ASSUME IInv, Agreeing, NEW p \in Peers, Poll(p) \/ Drop(p)
  PROVE  Agreeing'
  <1>0. TypeOK /\ got[p] \in Seq(Messages) /\ inbox[p] \in Seq(Messages)
    BY DEF IInv, TypeOK
  <1>1. /\ row' = row /\ stored' = stored /\ forgot' = forgot /\ updates' = updates
        /\ calls' = calls /\ outbox' = outbox /\ upset \subseteq upset'
    BY DEF Poll, Drop, history
  <1>2. RowsStay /\ Sent' = Sent /\ \A q \in Peers, t \in TaskIds : Delegated(q, t)' => Delegated(q, t)
    BY <1>1 DEF RowsStay, Sent, Posted, Delegated
  <1>3. \A q \in Peers : q # p => got'[q] = got[q] /\ inbox'[q] = inbox[q]
    BY DEF Poll, Drop, TypeOK, IInv
  <1>4. PICK g, b, g1, b1 : g = got[p] /\ b = inbox[p] /\ g1 = got'[p] /\ b1 = inbox'[p]
    OBVIOUS
  <1>5. \/ g1 = g \o b /\ b1 = <<>>
        \/ g1 = <<>> /\ b1 = <<>> /\ TasksOf(b \o g) \subseteq upset'
        \/ g1 = <<>> /\ b1 = b /\ TasksOf(g) \subseteq upset'
    BY <1>0, <1>4 DEF Poll, Drop, TypeOK, IInv
  <1>6. \A m : m.task \notin TasksOf(g) => ~Occurs(m, g)
    BY DEF TasksOf, Occurs
  <1>7. \A m : m.task \notin TasksOf(b \o g) => ~Occurs(m, g) /\ ~Occurs(m, b)
    <2>1. \A m : Occurs(m, g) \/ Occurs(m, b) => Occurs(m, b \o g)
      BY <1>0, <1>4, ConcatOrder
    <2>. QED
      BY <2>1 DEF TasksOf, Occurs
  <1>8. ASSUME NEW a, NEW c, a.task \notin upset', c.task = a.task
        PROVE  /\ Occurs(a, g1) \/ Occurs(a, b1) <=> Occurs(a, g) \/ Occurs(a, b)
               /\ In(a, c, g) \/ In(a, c, b) \/ (Occurs(a, g) /\ Occurs(c, b))
                    => In(a, c, g1) \/ In(a, c, b1)
    <2>0. \A s : In(a, c, s) => Occurs(a, s)
      BY DEF In, Occurs
    <2>1. CASE g1 = g \o b /\ b1 = <<>>
      BY <1>0, <1>4, <2>1, ConcatOccurs, ConcatOrder, NothingWaits
    <2>2. CASE g1 = <<>> /\ b1 = <<>> /\ TasksOf(b \o g) \subseteq upset'
      BY <1>7, <1>8, <2>0, <2>2, NothingWaits
    <2>3. CASE g1 = <<>> /\ b1 = b /\ TasksOf(g) \subseteq upset'
      BY <1>6, <1>8, <2>0, <2>3, NothingWaits
    <2>. QED
      BY <1>5, <2>1, <2>2, <2>3
  <1>9. \A q \in Peers : q # p => \A a, c :
          (Waits(q, a)' <=> Waits(q, a)) /\ (Before(q, a, c)' <=> Before(q, a, c))
    BY <1>3 DEF Waits, Before, Occurs, In
  <1>10. \A a, c : a.task \notin upset' /\ c.task = a.task =>
           (Waits(p, a)' <=> Waits(p, a)) /\ (Before(p, a, c) => Before(p, a, c)')
    <2>1. /\ \A k : Waits(p, k) <=> Occurs(k, g) \/ Occurs(k, b)
          /\ \A k : Waits(p, k)' <=> Occurs(k, g1) \/ Occurs(k, b1)
      BY <1>4 DEF Waits, Occurs
    <2>2. /\ \A k, l : Before(p, k, l) <=> In(k, l, g) \/ In(k, l, b) \/ (Occurs(k, g) /\ Occurs(l, b))
          /\ \A k, l : In(k, l, g1) \/ In(k, l, b1) => Before(p, k, l)'
      BY <1>4 DEF Before, Occurs, In
    <2>. QED
      BY <1>8, <2>1, <2>2
  <1>11. \A m \in stored : m.to \in Peers
    BY DEF IInv, TypeOK, Messages
  <1>12. /\ \A m \in stored : m.task \notin upset' => (Waits(m.to, m)' <=> Waits(m.to, m))
         /\ \A a, c \in stored :
              a.task = c.task /\ a.task \notin upset' /\ Before(a.to, a, c) => Before(a.to, a, c)'
    BY <1>9, <1>10, <1>11
  <1>. QED
    BY <1>1, <1>2, <1>12, AgreeingStays DEF IInv

\* The relay restarts: what waited for its receiver there upsets its task.
LEMMA RestartAgrees ==
  ASSUME IInv, Agreeing, RelayRestart
  PROVE  Agreeing'
  <1>1. /\ row' = row /\ stored' = stored /\ updates' = updates /\ got' = got
        /\ calls' = calls /\ outbox' = outbox /\ inbox' = [q \in Peers |-> <<>>]
        /\ forgot' = forgot \union Again /\ upset' = upset \union Again \union Waiting
    BY DEF RelayRestart
  <1>2. RowsStay /\ Sent' = Sent /\ \A q \in Peers, t \in TaskIds : Delegated(q, t)' => Delegated(q, t)
    BY <1>1 DEF RowsStay, Sent, Posted, Delegated
  <1>3. ASSUME NEW q \in Peers, NEW a, NEW c, a.task \notin upset', c.task = a.task
        PROVE  (Waits(q, a)' <=> Waits(q, a)) /\ (Before(q, a, c) => Before(q, a, c)')
    <2>1. got'[q] = got[q] /\ inbox'[q] = <<>>
      BY <1>1
    <2>2. ~Occurs(a, inbox[q]) /\ ~Occurs(c, inbox[q]) /\ ~Occurs(a, inbox'[q])
      <3>1. a.task \notin TasksOf(inbox[q])
        BY <1>1, <1>3 DEF Waiting
      <3>. QED
        BY <1>3, <2>1, <3>1, NothingWaits DEF TasksOf, Occurs
    <2>3. In(a, c, inbox[q]) => Occurs(a, inbox[q])
      BY DEF In, Occurs
    <2>4. (Waits(q, a) <=> Occurs(a, got[q])) /\ (Waits(q, a)' <=> Occurs(a, got[q]))
      BY <2>1, <2>2 DEF Waits, Occurs
    <2>5. Before(q, a, c) => In(a, c, got[q])
      BY <2>2, <2>3 DEF Before
    <2>6. In(a, c, got[q]) => Before(q, a, c)'
      BY <2>1 DEF Before, In
    <2>. QED
      BY <2>4, <2>5, <2>6
  <1>4. \A m \in stored : m.to \in Peers
    BY DEF IInv, TypeOK, Messages
  <1>. QED
    BY <1>1, <1>2, <1>3, <1>4, AgreeingStays DEF IInv

\* handle_inbound_task_message: a report that is not the newest leaves the newest
\* one behind it.
LEMMA HandleAgrees ==
  ASSUME IInv, Agreeing, NEW p \in Peers, Handle(p)
  PROVE  Agreeing'
  <1>1. PICK m, t, g : m = Head(g) /\ t = m.task /\ g = got[p]
    OBVIOUS
  <1>2. g \in Seq(Messages) /\ g # <<>> /\ got \in [Peers -> Seq(Messages)]
    BY <1>1 DEF IInv, TypeOK, Handle
  <1>3. m \in stored /\ m.to = p /\ Occurs(m, g)
    <2>1. Occurs(m, g)
      BY <1>1, <1>2, TailOccurs
    <2>. QED
      BY <1>1, <2>1 DEF IInv, Causes, StoredFor, Occurs
  <1>4. /\ \A k \in stored : k \in Sent /\ k \in Messages /\ k.to \in Peers /\ k.task \in TaskIds
                            /\ k.from \in Peers /\ k.kind \in {"task", "update"} /\ k.n \in Nat
        /\ \A k \in stored : Backed(k)
    BY SentTyped DEF IInv, Messages, Sent, Mirrored
  <1>5. /\ row' = [row EXCEPT ![p][t] = Record(row[p][t], Received(m))]
        /\ got' = [got EXCEPT ![p] = Tail(g)] /\ inbox' = inbox
        /\ calls' = calls /\ outbox' = outbox /\ stored' = stored /\ updates' = updates
        /\ upset' = upset /\ forgot' = forgot
    BY <1>1 DEF Handle, history, relayVars
  <1>6. RowsStay
    BY HandleMirrored DEF IInv
  <1>7. Sent' = Sent
    BY <1>5 DEF Sent, Posted
  <1>8. \A q \in Peers, u \in TaskIds : ~(q = p /\ u = t) => row'[q][u] = row[q][u]
    BY <1>1, <1>3, <1>4, <1>5 DEF IInv, TypeOK
  <1>9. row'[p][t].status = Received(m).status /\ row'[p][t] # None
    <2>1. row'[p][t] = Record(row[p][t], Received(m)) /\ row[p][t] \in Rows \union {None}
      BY <1>1, <1>3, <1>4, <1>5 DEF IInv, TypeOK
    <2>2. Received(m) \in Rows
      BY <1>3, <1>4, ReceivedTyped
    <2>3. CASE row[p][t] = None
      BY <2>1, <2>2, <2>3, NoneAssumption DEF Record
    <2>4. CASE row[p][t] # None
      BY <2>1, <2>2, <2>4, RecordStays
    <2>. QED
      BY <2>3, <2>4
  <1>10. \A k \in stored : k.task \notin upset => WaitsOnce(p, k)
    BY DEF IInv, Owned, HandledFirst, Kept, Agreeing
  <1>11. /\ \A q \in Peers : q # p => got'[q] = got[q] /\ inbox'[q] = inbox[q]
         /\ got'[p] = Tail(g) /\ inbox'[p] = inbox[p]
    BY <1>2, <1>5
  <1>12. \A q \in Peers : q # p => \A a, c :
           (Waits(q, a)' <=> Waits(q, a)) /\ (Before(q, a, c)' <=> Before(q, a, c))
    BY <1>11 DEF Waits, Before, Occurs, In
  <1>13. ASSUME NEW a \in stored, NEW c
         PROVE  /\ Waits(p, a)' => Waits(p, a) /\ (a.task \notin upset => a # m)
                /\ a # m /\ Waits(p, a) => Waits(p, a)'
                /\ a # m /\ Before(p, a, c) => Before(p, a, c)'
    <2>1. PICK b, w : b = inbox[p] /\ w = Tail(g)
      OBVIOUS
    <2>2. /\ Occurs(a, w) => Occurs(a, g)
          /\ a # m /\ Occurs(a, g) => Occurs(a, w)
          /\ a # m /\ In(a, c, g) => In(a, c, w)
      BY <1>1, <1>2, <2>1, TailOccurs, TailOrder
    <2>3. /\ Waits(p, a) <=> Occurs(a, g) \/ Occurs(a, b)
          /\ Waits(p, a)' <=> Occurs(a, w) \/ Occurs(a, b)
      BY <1>1, <1>11, <2>1 DEF Waits, Occurs
    <2>4. /\ Before(p, a, c) <=> In(a, c, g) \/ In(a, c, b) \/ (Occurs(a, g) /\ Occurs(c, b))
          /\ Before(p, a, c)' <=> In(a, c, w) \/ In(a, c, b) \/ (Occurs(a, w) /\ Occurs(c, b))
      BY <1>1, <1>11, <2>1 DEF Before, Occurs, In
    <2>5. a = m /\ a.task \notin upset => ~Occurs(a, w) /\ ~Occurs(a, b)
      <3>. SUFFICES ASSUME a = m, a.task \notin upset PROVE ~Occurs(a, w) /\ ~Occurs(a, b)
        OBVIOUS
      <3>1. AtMostOnce(m, g) /\ ~(Occurs(m, g) /\ Occurs(m, b))
        BY <1>1, <1>10, <2>1 DEF WaitsOnce
      <3>. QED
        BY <1>1, <1>2, <1>3, <2>1, <3>1, TailOccurs
    <2>. QED
      BY <2>2, <2>3, <2>4, <2>5
  <1>14. Complete'
    <2>1. \A k \in Sent' : k.task \notin upset' /\ k.n < updates'[k.task] => k \in stored'
      BY <1>5, <1>7 DEF Agreeing, Complete
    <2>2. ASSUME NEW q \in Peers, NEW u \in TaskIds \ upset', Delegated(q, u)'
          PROVE  Delegated(q, u)
      <3>1. CASE row[q][u] # None
        BY <1>6, <2>2, <3>1 DEF RowsStay, Delegated
      <3>2. CASE row[q][u] = None
        <4>1. q = p /\ u = t
          BY <1>8, <2>2, <3>2 DEF Delegated
        <4>2. m.kind = "task"
          <5>. SUFFICES ASSUME m.kind = "update" PROVE FALSE
            BY <1>3, <1>4
          <5>1. Delegated(p, t)
            BY <1>1, <1>3, <1>4, ReportGoesHome DEF IInv
          <5>. QED
            BY <3>2, <4>1, <5>1 DEF Delegated
        <4>3. row'[p][t] = Received(m)
          BY <1>1, <1>3, <1>4, <1>5, <3>2, <4>1 DEF Record, IInv, TypeOK
        <4>. QED
          BY <2>2, <4>1, <4>2, <4>3 DEF Received, NewRow, Delegated
      <3>. QED
        BY <3>1, <3>2
    <2>. QED
      BY <1>5, <1>7, <2>1, <2>2 DEF Agreeing, Complete
  <1>15. ASSUME NEW a \in stored, NEW c \in stored, a.task = c.task, a.task \notin upset,
                0 < a.n, a.n < c.n, Waits(a.to, a)'
         PROVE  Before(a.to, a, c)'
    <2>1. a.to \in Peers
      BY <1>4
    <2>2. Waits(a.to, a)
      BY <1>12, <1>13, <1>15, <2>1
    <2>3. Before(a.to, a, c)
      BY <1>15, <2>2 DEF Agreeing, InOrder
    <2>. QED
      BY <1>12, <1>13, <1>15, <2>1, <2>3
  <1>16. InOrder'
    BY <1>5, <1>15 DEF InOrder
  <1>17. ASSUME NEW q \in Peers, NEW u \in TaskIds, Delegated(q, u)
         PROVE  row'[q][u] = row[q][u] \/ (q = p /\ u = t /\ m.kind = "update")
    <2>. SUFFICES ASSUME q = p, u = t, m.kind = "task" PROVE FALSE
      BY <1>3, <1>4, <1>8
    <2>1. Delegated(m.from, t) /\ m.from # p
      BY <1>1, <1>3, <1>4 DEF Backed
    <2>. QED
      BY <1>3, <1>4, <1>17, <2>1 DEF IInv, Mirrored, OneDelegator
  <1>18. ASSUME NEW k \in stored, k.task \notin upset, ~Waits(k.to, k)'
         PROVE  /\ k.kind = "task" => row'[k.to][k.task] # None
                /\ k.kind # "task" /\ Latest(k)' => row'[k.to][k.task].status = k.status
    <2>1. Latest(k)' <=> Latest(k)
      BY <1>5 DEF Latest
    <2>2. CASE k = m
      <3>1. k.kind # "task" => row'[k.to][k.task].status = k.status
        BY <1>1, <1>3, <1>9, <2>2 DEF Received, NewRow
      <3>. QED
        BY <1>1, <1>3, <1>9, <2>2, <3>1
    <2>3. CASE k # m
      <3>1. ~Waits(k.to, k)
        BY <1>4, <1>12, <1>13, <1>18, <2>3
      <3>2. k.kind = "task" => row'[k.to][k.task] # None
        BY <1>4, <1>6, <1>18, <3>1 DEF Agreeing, UpToDate, RowsStay
      <3>3. ASSUME k.kind = "update", Latest(k) PROVE row'[k.to][k.task].status = k.status
        <4>1. row[k.to][k.task].status = k.status /\ Delegated(k.to, k.task)
          BY <1>4, <1>18, <3>1, <3>3, ReportGoesHome DEF Agreeing, UpToDate, IInv
        <4>2. CASE k.to = p /\ k.task = t /\ m.kind = "update"
          <5>1. m.n <= k.n /\ m.n # k.n /\ m.n # 0 /\ m.n \in Nat /\ k.n \in Nat
            BY <1>1, <1>3, <1>4, <2>3, <3>3, <4>2 DEF Latest, IInv, Numbered
          <5>2. 0 < m.n /\ m.n < k.n
            BY <5>1
          <5>3. Waits(p, m)
            BY <1>1, <1>3 DEF Waits
          <5>4. Before(p, m, k)
            BY <1>1, <1>3, <1>18, <4>2, <5>2, <5>3 DEF Agreeing, InOrder
          <5>5. Waits(p, k)
            BY <5>4 DEF Before, In, Waits, Occurs
          <5>. QED
            BY <3>1, <4>2, <5>5
        <4>. QED
          BY <1>4, <1>17, <4>1, <4>2
      <3>. QED
        BY <1>4, <2>1, <3>2, <3>3
    <2>. QED
      BY <2>2, <2>3
  <1>19. ASSUME NEW q \in Peers, NEW u \in TaskIds, Delegated(q, u)', u \notin upset',
                \A k \in stored : k.task = u => k.n = 0
         PROVE  row'[q][u].status = "pending"
    <2>1. ~(u = t /\ m.kind = "update")
      BY <1>1, <1>3, <1>4, <1>19 DEF IInv, Numbered
    <2>2. Delegated(q, u)
      <3>1. CASE row[q][u] # None
        BY <1>6, <1>19, <3>1 DEF RowsStay, Delegated
      <3>2. CASE row[q][u] = None
        <4>1. q = p /\ u = t /\ m.kind = "task"
          BY <1>3, <1>4, <1>8, <1>19, <2>1, <3>2 DEF Delegated
        <4>2. row'[p][t] = Received(m)
          BY <1>1, <1>3, <1>4, <1>5, <3>2, <4>1 DEF Record, IInv, TypeOK
        <4>. QED
          BY <1>19, <4>1, <4>2 DEF Received, NewRow, Delegated
      <3>. QED
        BY <3>1, <3>2
    <2>3. row'[q][u] = row[q][u]
      BY <1>17, <2>1, <2>2
    <2>. QED
      BY <1>5, <1>19, <2>2, <2>3 DEF Agreeing, UpToDate
  <1>20. UpToDate'
    BY <1>5, <1>18, <1>19 DEF UpToDate
  <1>. QED
    BY <1>5, <1>14, <1>16, <1>20 DEF Agreeing

LEMMA StepAgreeing ==
  ASSUME IInv, Agreeing, [Next]_vars
  PROVE  Agreeing'
  <1>1. CASE UNCHANGED vars
    <2>1. /\ row' = row /\ stored' = stored /\ updates' = updates /\ got' = got /\ inbox' = inbox
          /\ calls' = calls /\ outbox' = outbox /\ upset' = upset /\ forgot' = forgot
      BY <1>1 DEF vars, relayVars, history
    <2>2. RowsStay /\ Sent' = Sent /\ \A q \in Peers, t \in TaskIds : Delegated(q, t)' => Delegated(q, t)
      BY <2>1 DEF RowsStay, Sent, Posted, Delegated
    <2>3. \A p, a, b : (Waits(p, a)' <=> Waits(p, a)) /\ (Before(p, a, b)' <=> Before(p, a, b))
      BY <2>1, SameWaiting, SameOrder
    <2>. QED
      BY <2>1, <2>2, <2>3, AgreeingStays DEF IInv
  <1>2. CASE Next
    BY <1>2, DelegateAgrees, UpdateAgrees, PostingAgrees, PollAgrees, RestartAgrees, HandleAgrees,
       TasksAssumption DEF Next
  <1>. QED
    BY <1>1, <1>2

\* With nothing under way the newest report is recorded on both sides.
LEMMA QuietIfAgreeing ==
  ASSUME IInv, Agreeing, NEW p \in Peers, NEW q \in Peers, NEW t \in TaskIds,
         Delegated(p, t), row[p][t].peer = q, ~InMotion(t), t \notin upset
  PROVE  Assigned(q, t) /\ row[p][t].status = row[q][t].status
  <1>1. /\ updates[t] \in Nat
        /\ \A m \in Sent : m \in Messages /\ m.to \in Peers /\ m.from \in Peers
                          /\ m.kind \in {"task", "update"} /\ m.n \in Nat /\ Backed(m)
    <2>1. updates[t] \in Nat
      BY DEF IInv, TypeOK
    <2>2. Sent \subseteq Messages
      BY SentTyped DEF IInv
    <2>3. \A m \in Sent : Backed(m)
      BY DEF IInv, Mirrored
    <2>. QED
      BY <2>1, <2>2, <2>3 DEF Messages
  <1>2. \A m \in Sent : m.task = t => m \in stored /\ ~Waits(m.to, m)
    <2>. SUFFICES ASSUME NEW m \in Sent, m.task = t PROVE m \in stored /\ ~Waits(m.to, m)
      OBVIOUS
    <2>1. m \in stored
      BY DEF InMotion, Sent, Posted
    <2>2. m.task \notin TasksOf(inbox[m.to]) \union TasksOf(got[m.to])
      BY <1>1 DEF InMotion
    <2>. QED
      BY <2>1, <2>2 DEF TasksOf, Waits, Occurs
  <1>3. PICK first \in Sent : first.task = t /\ first.n = 0
    BY <1>1 DEF Agreeing, Complete
  <1>4. PICK last \in Sent : last.task = t /\ last.n = updates[t]
    BY <1>1 DEF Agreeing, Complete
  <1>5. first.kind = "task" /\ Delegated(first.from, t) /\ row[first.from][t].peer = first.to
        /\ first.from # first.to
    BY <1>1, <1>3 DEF IInv, Numbered, Backed
  <1>6. first.from = p /\ first.to = q /\ p # q
    BY <1>1, <1>5 DEF IInv, Mirrored, OneDelegator
  <1>7. row[q][t] # None
    BY <1>2, <1>3, <1>5, <1>6 DEF Agreeing, UpToDate
  <1>8. Assigned(q, t)
    <2>1. ~Delegated(q, t)
      BY <1>6 DEF IInv, Mirrored, OneDelegator
    <2>. QED
      BY <1>7, <2>1 DEF IInv, TypeOK, Rows, Assigned, Delegated
  <1>9. row[q][t].status = own[t]
    BY <1>8 DEF IInv, Owned, OwnWork, Agreeing
  <1>10. last.status = own[t]
    BY <1>4 DEF IInv, Numbered
  <1>11. CASE updates[t] = 0
    <2>1. \A m \in stored : m.task = t => m.n = 0
      BY <1>1, <1>11 DEF IInv, Numbered, Sent
    <2>2. row[p][t].status = "pending"
      BY <2>1 DEF Agreeing, UpToDate
    <2>3. last = first /\ first.status = "pending"
      BY <1>1, <1>3, <1>4, <1>5, <1>11 DEF IInv, Numbered, Backed
    <2>. QED
      BY <1>8, <1>9, <1>10, <2>2, <2>3
  <1>12. CASE updates[t] # 0
    <2>1. last.kind = "update"
      BY <1>1, <1>4, <1>12 DEF IInv, Numbered
    <2>2. last.to = p
      <3>1. Delegated(last.to, t) /\ last.to \in Peers
        BY <1>4, <2>1, ReportGoesHome DEF IInv
      <3>. QED
        BY <3>1 DEF IInv, Mirrored, OneDelegator
    <2>3. Latest(last)
      BY <1>4 DEF Latest, IInv, Numbered, Sent
    <2>4. row[p][t].status = last.status
      BY <1>2, <1>4, <2>1, <2>2, <2>3 DEF Agreeing, UpToDate
    <2>. QED
      BY <1>8, <1>9, <1>10, <2>4
  <1>. QED
    BY <1>11, <1>12

\* main.py, clade_task and clade_task_update: when nothing about a task is under way
\* and no message of it was lost or overtaken, both sides show the same status,
\* however often messages were posted again.
THEOREM QuietAgreementHolds == Spec => []QuietAgreement
  <1>1. IInv /\ Agreeing => QuietAgreement
    BY QuietIfAgreeing DEF QuietAgreement
  <1>2. IInv /\ Agreeing /\ [Next]_vars => (IInv /\ Agreeing)'
    BY StepIInv, StepAgreeing
  <1>3. Init => IInv /\ Agreeing
    BY InitIInv, InitAgreeing
  <1>. QED
    BY <1>1, <1>2, <1>3, PTL DEF Spec
=============================================================================
