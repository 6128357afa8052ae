-------------------------------- MODULE Tasks --------------------------------
(***************************************************************************)
(* Delegated tasks: clade_task and clade_task_update of agent/main.py and  *)
(* the handler of the messages they send, which the daemon of the other    *)
(* peer runs.  Both sides keep a row for each task in their own database,  *)
(* and nothing but these messages keeps the two rows together.  A message  *)
(* is posted once by its call; when the relay is not reached, is too busy  *)
(* or does not answer, it becomes a row of the outbox and is posted again, *)
(* by any later call or by the daemon.                                     *)
(*                                                                         *)
(* The relay and the outbox are those of Relay and Outbox seen from        *)
(* outside: the relay takes an envelope once, spends its nonce before it   *)
(* looks at the inbox and hands on what it keeps in order; a row of the    *)
(* outbox is posted until it is delivered or dead.  deadline and result    *)
(* are left out.                                                           *)
(*                                                                         *)
(* A definition named Faulty_... is not part of Next: it is a plausible    *)
(* bug in the definition below it, kept to show that the properties notice *)
(* the difference.                                                         *)
(***************************************************************************)
EXTENDS Naturals, Sequences, FiniteSets

CONSTANTS
  Peers,          \* agents with a daemon each
  Delegators,     \* those of them that call clade_task
  TaskIds,        \* the uuids of the tasks that are delegated
  None,           \* no row, no answer
  MaxUpdates,     \* bound: clade_task_update calls about one task
  MaxStops,       \* bound: ends of daemons in the middle of a batch, restarts of the relay
  RelayForgets    \* the relay keeps everything in memory and may restart

ASSUME TasksAssumption ==
  /\ IsFiniteSet(Peers) /\ None \notin Peers /\ Delegators \subseteq Peers
  /\ MaxUpdates \in Nat /\ MaxStops \in Nat /\ RelayForgets \in BOOLEAN

\* _TASK_VALID_STATUSES, without two that differ in name only.  "failed" is
\* left to clade_task, which sets it when it gives up.
Reported == {"pending", "in_progress", "done"}
Statuses == Reported \union {"failed"}

Messages ==
  [kind : {"task", "update"}, from : Peers, to : Peers, task : TaskIds,
   n : 0..MaxUpdates, status : Reported]
Rows == [direction : {"delegated", "assigned"}, peer : Peers, hasBrief : BOOLEAN,
         status : Statuses]

\* What a post can end with.
Answers == {"ok", "client", "server", "net", "reset"}

ASSUME NoneAssumption == None \notin Rows \union Answers

VARIABLES
  row,     \* the tasks table of each peer: per task None or a row
  calls,   \* tool calls that are about to post, or whose post has an answer
  outbox,  \* messages in the senders' outboxes, neither delivered nor dead
  spent,   \* relay: messages whose nonce it remembers
  inbox,   \* relay: messages for each peer
  got,     \* per peer: messages its daemon has polled and not handled yet
  stops,   \* number of ends of daemons and restarts of the relay
  stored,  \* history: messages the relay has put into an inbox
  own,     \* history: the status each task's assignee set last
  updates, \* history: number of updates of each task
  upset,   \* history: tasks of which a message was lost, overtaken or forgotten
  forgot   \* history: tasks of which the relay forgot a nonce that may be posted again

relayVars == <<spent, inbox>>
history == <<stored, own, updates, upset, forgot>>
vars == <<row, calls, outbox, relayVars, got, stops, history>>

NoRows == [t \in TaskIds |-> None]

Init ==
  /\ row = [p \in Peers |-> NoRows]
  /\ calls = {} /\ outbox = {} /\ spent = {} /\ stops = 0
  /\ inbox = [p \in Peers |-> <<>>] /\ got = [p \in Peers |-> <<>>]
  /\ stored = {} /\ upset = {} /\ forgot = {}
  /\ own = [t \in TaskIds |-> "pending"] /\ updates = [t \in TaskIds |-> 0]

-----------------------------------------------------------------------------
\* Faulty: direction and peer change places.
Faulty_NewRow(direction, peer, hasBrief, status) ==
  [direction |-> peer, peer |-> direction, hasBrief |-> hasBrief, status |-> status]

\* A row of the table.  A row that was made for an update has no brief.
NewRow(direction, peer, hasBrief, status) ==
  [direction |-> direction, peer |-> peer, hasBrief |-> hasBrief, status |-> status]

\* Faulty: a row that is there is left alone.
Faulty_Ignored(old, new) == IF old = None THEN new ELSE old

\* _task_record: only the status of a task that is there is changed.
Record(old, new) == IF old = None THEN new ELSE [old EXCEPT !.status = new.status]

Message(kind, from, to, t, n, status) ==
  [kind |-> kind, from |-> from, to |-> to, task |-> t, n |-> n, status |-> status]

\* Messages under way that no inbox has taken, of one task.
Unsettled(t) ==
  {m \in outbox \union {c.msg : c \in calls} : m.task = t /\ m \notin stored}

Upset(t, condition) == upset' = IF condition THEN upset \union {t} ELSE upset

\* clade_task up to the first await of _do_send: the row is there before the
\* message is.
Delegate(d, a, t) ==
  /\ \A p \in Peers : row[p][t] = None
  /\ row' = [row EXCEPT ![d][t] = NewRow("delegated", a, TRUE, "pending")]
  /\ calls' = calls \union {[msg |-> Message("task", d, a, t, 0, "pending"), answer |-> None]}
  /\ UNCHANGED <<outbox, relayVars, got, stops, history>>

\* clade_task_update up to the first await: only for a task assigned to me, and
\* my own row first.
Update(a, t, s) ==
  /\ row[a][t] # None /\ row[a][t].direction = "assigned"
  /\ updates[t] < MaxUpdates
  /\ updates' = [updates EXCEPT ![t] = @ + 1]
  /\ own' = [own EXCEPT ![t] = s]
  /\ row' = [row EXCEPT ![a][t].status = s]
  /\ Upset(t, Unsettled(t) # {})
  /\ calls' = calls \union
       {[msg |-> Message("update", a, row[a][t].peer, t, updates[t] + 1, s), answer |-> None]}
  /\ UNCHANGED <<outbox, relayVars, got, stops, stored, forgot>>

-----------------------------------------------------------------------------
\* Faulty: nonces are not remembered.
Faulty_Replayed(m) == FALSE
Replayed(m) == m \in spent

\* One post of m reaches the relay, which answers x.
Reaches(m, x) ==
  \/ /\ x = "client" /\ UNCHANGED <<relayVars, stored>>    \* bad bearer or timestamp, replay
  \/ /\ x = "server" /\ ~Replayed(m)                       \* 503 Inbox full
     /\ spent' = spent \union {m} /\ UNCHANGED <<inbox, stored>>
  \/ /\ x = "ok" /\ ~Replayed(m)
     /\ spent' = spent \union {m} /\ stored' = stored \union {m}
     /\ inbox' = [inbox EXCEPT ![m.to] = Append(@, m)]

\* The first post of a message.  "net" is a ConnectError or a timeout, "reset"
\* any other exception; either may hide what the relay did.
Post(c) ==
  /\ c \in calls /\ c.answer = None
  /\ \E x \in Answers :
       /\ calls' = (calls \ {c}) \union {[c EXCEPT !.answer = x]}
       /\ \/ x \notin {"net", "reset"} /\ Reaches(c.msg, x)
          \/ x \in {"net", "reset"} /\ \E y \in {"ok", "server"} : Reaches(c.msg, y)
          \/ x \in {"net", "reset"} /\ UNCHANGED <<relayVars, stored>>
  /\ UNCHANGED <<row, outbox, got, stops, own, updates, upset, forgot>>

\* Faulty: a relay that did not answer counts as an error.
Faulty_IsError(x) == x \in {"client", "net"}

\* _do_send puts into the outbox what may still arrive; "error" is what makes
\* clade_task give the task up.
Queues(x) == x \in {"server", "net"}
IsError(x) == x = "client"

\* The rest of the call.
Return(c) ==
  LET m == c.msg IN
  /\ c \in calls /\ c.answer # None
  /\ calls' = calls \ {c}
  /\ outbox' = IF Queues(c.answer) THEN outbox \union {m} ELSE outbox
  /\ row' = IF m.kind = "task" /\ IsError(c.answer)
            THEN [row EXCEPT ![m.from][m.task] =
                    Record(@, NewRow("delegated", m.to, TRUE, "failed"))]
            ELSE row
  /\ Upset(m.task, m \notin stored /\ (m \in spent \/ ~Queues(c.answer)))
  /\ UNCHANGED <<relayVars, got, stops, stored, own, updates, forgot>>

\* The process of a call ends in the middle of it.
Die(c) ==
  /\ c \in calls
  /\ calls' = calls \ {c}
  /\ Upset(c.msg.task, c.msg \notin stored)
  /\ UNCHANGED <<row, outbox, relayVars, got, stops, stored, own, updates, forgot>>

\* flush_once posts a row again; its response may be lost as well.
Retry(m) ==
  /\ m \in outbox
  /\ \E x \in {"ok", "server"} :
       /\ Reaches(m, x)
       /\ outbox' \in IF x = "ok" THEN {outbox, outbox \ {m}} ELSE {outbox}
       /\ Upset(m.task, x = "server")
  /\ UNCHANGED <<row, calls, got, stops, own, updates, forgot>>

\* The last of MAX_ATTEMPTS has failed: dead.
GiveUp(m) ==
  /\ m \in outbox
  /\ outbox' = outbox \ {m}
  /\ Upset(m.task, m \notin stored)
  /\ UNCHANGED <<row, calls, relayVars, got, stops, stored, own, updates, forgot>>

-----------------------------------------------------------------------------
\* poll_loop, or clade_inbox without a daemon: all that waits is taken.
Poll(p) ==
  /\ inbox[p] # <<>>
  /\ got' = [got EXCEPT ![p] = @ \o inbox[p]]
  /\ inbox' = [inbox EXCEPT ![p] = <<>>]
  /\ UNCHANGED <<row, calls, outbox, spent, stops, history>>

TasksOf(msgs) == {msgs[i].task : i \in DOMAIN msgs}

\* The same, and the response is lost or the daemon has to stop before it has
\* dealt with it.
Drop(p) ==
  /\ stops < MaxStops
  /\ inbox[p] \o got[p] # <<>>
  /\ stops' = stops + 1
  /\ \/ inbox' = [inbox EXCEPT ![p] = <<>>] /\ upset' = upset \union TasksOf(inbox[p] \o got[p])
     \/ UNCHANGED inbox /\ upset' = upset \union TasksOf(got[p])
  /\ got' = [got EXCEPT ![p] = <<>>]
  /\ UNCHANGED <<row, calls, outbox, spent, stored, own, updates, forgot>>

\* Faulty: the status of an update is not read.
Faulty_Received(m) ==
  IF m.kind = "task"
  THEN NewRow("assigned", m.from, TRUE, "pending")
  ELSE NewRow("delegated", m.from, FALSE, "in_progress")

\* What a message makes of the row at its receiver.
Received(m) ==
  IF m.kind = "task"
  THEN NewRow("assigned", m.from, TRUE, "pending")
  ELSE NewRow("delegated", m.from, FALSE, m.status)

\* handle_inbound_task_message: task messages wait for no semaphore and are
\* dealt with in the order of the inbox.
Handle(p) ==
  /\ got[p] # <<>>
  /\ LET m == Head(got[p]) IN
     row' = [row EXCEPT ![p][m.task] = Record(@, Received(m))]
  /\ got' = [got EXCEPT ![p] = Tail(@)]
  /\ UNCHANGED <<calls, outbox, relayVars, stops, history>>

\* Tasks of which the relay has taken a message that may be posted again, and of
\* which one waits.
Again == {m.task : m \in spent \intersect (outbox \union {c.msg : c \in calls})}
Waiting == UNION {TasksOf(inbox[p]) : p \in Peers}

\* A relay without Redis restarts: nonces and inboxes are gone.  Without any such
\* task nobody notices.
RelayRestart ==
  /\ RelayForgets /\ stops < MaxStops /\ Again \union Waiting # {}
  /\ stops' = stops + 1
  /\ spent' = {}
  /\ inbox' = [p \in Peers |-> <<>>]
  /\ forgot' = forgot \union Again
  /\ upset' = upset \union Again \union Waiting
  /\ UNCHANGED <<row, calls, outbox, got, stored, own, updates>>

Next ==
  \/ \E d \in Delegators, a \in Peers, t \in TaskIds : d # a /\ Delegate(d, a, t)
  \/ \E a \in Peers, t \in TaskIds, s \in Reported : Update(a, t, s)
  \/ \E c \in calls : Post(c) \/ Return(c) \/ Die(c)
  \/ \E m \in outbox : Retry(m) \/ GiveUp(m)
  \/ \E p \in Peers : Poll(p) \/ Drop(p) \/ Handle(p)
  \/ RelayRestart

Spec == Init /\ [][Next]_vars

\* Calls go on, the outbox is flushed, daemons poll and handle.  Nobody has to
\* delegate or to report.
FairSpec ==
  /\ Spec
  /\ WF_vars(\E c \in calls : Post(c)) /\ WF_vars(\E c \in calls : Return(c))
  /\ WF_vars(\E m \in outbox : Retry(m) \/ GiveUp(m))
  /\ \A p \in Peers : WF_vars(Poll(p)) /\ WF_vars(Handle(p))

-----------------------------------------------------------------------------
\* Properties

\* The shape of the state.
TypeOK ==
  /\ row \in [Peers -> [TaskIds -> Rows \union {None}]]
  /\ calls \subseteq [msg : Messages, answer : Answers \union {None}]
  /\ outbox \union spent \union stored \subseteq Messages
  /\ inbox \in [Peers -> Seq(Messages)] /\ got \in [Peers -> Seq(Messages)]
  /\ stops \in Nat /\ own \in [TaskIds -> Reported] /\ updates \in [TaskIds -> Nat]
  /\ upset \subseteq TaskIds /\ forgot \subseteq TaskIds

Assigned(p, t) == row[p][t] # None /\ row[p][t].direction = "assigned"
Delegated(p, t) == row[p][t] # None /\ row[p][t].direction = "delegated"

\* main.py, clade_task: a task its delegator has marked failed, and been told the
\* error of, is not worked on: its message never reached an inbox, and it is not
\* among those that are tried again.
FailedNeverArrives ==
  \A p \in Peers, t \in TaskIds :
    Delegated(p, t) /\ row[p][t].status = "failed"
      => \A m \in stored \union outbox : m.task # t

\* main.py, "both sides keep their copy": whoever has a task assigned finds at its
\* delegator the row that names it as the assignee, and no update ever makes up a
\* row, which would have neither brief nor deadline.
RowsMirror ==
  \A p \in Peers, t \in TaskIds :
    /\ Assigned(p, t) => LET d == row[p][t].peer IN Delegated(d, t) /\ row[d][t].peer = p
    /\ row[p][t] # None => row[p][t].hasBrief

\* main.py, _task_record: the assignee's row shows the status it set last itself.
\* A task message that is posted again does not take finished work back to
\* pending, unless the relay has forgotten that it took it before.
OwnWork ==
  \A p \in Peers, t \in TaskIds :
    Assigned(p, t) => row[p][t].status = own[t] \/ t \in forgot

\* main.py, clade_task and clade_task_update: an assigned row is backed by its
\* delegator's row and is nobody's but its assignee's to change, whatever is
\* posted again.
AssignedRowsStand == RowsMirror /\ OwnWork

InMotion(t) ==
  \/ \E c \in calls : c.msg.task = t
  \/ \E p \in Peers : t \in TasksOf(inbox[p]) \union TasksOf(got[p])
  \/ \E m \in outbox : m.task = t /\ m \notin stored

\* main.py, clade_task and clade_task_update: when nothing about a task is under
\* way, and no message of it was lost or begun while an earlier one was still
\* undelivered, both sides show the same status, however often responses were
\* lost and messages posted again.
QuietAgreement ==
  \A p, q \in Peers, t \in TaskIds :
    Delegated(p, t) /\ row[p][t].peer = q /\ ~InMotion(t) /\ t \notin upset
      => Assigned(q, t) /\ row[p][t].status = row[q][t].status

\* The same as a promise: a status the assignee reports is the delegator's before
\* long, unless the assignee reports another one or a message is lost or overtaken.
StatusArrives ==
  \A p \in Peers, t \in TaskIds, s \in Reported :
    (Delegated(p, t) /\ own[t] = s /\ updates[t] > 0)
      ~> (own[t] # s \/ t \in upset \/ (Delegated(p, t) /\ row[p][t].status = s))

-----------------------------------------------------------------------------
\* What does not hold, see README.

\* QuietAgreement for all tasks whose messages have all been handled.
LastWordCounts ==
  \A p, q \in Peers, t \in TaskIds :
    /\ Delegated(p, t) /\ row[p][t].peer = q /\ ~InMotion(t)
    /\ Cardinality({m \in stored : m.task = t}) = updates[t] + 1
    /\ stops = 0
    => row[p][t].status = own[t]

\* A delegated task that is pending is known to its assignee, or on its way.
PendingIsKnown ==
  \A p, q \in Peers, t \in TaskIds :
    Delegated(p, t) /\ row[p][t].peer = q /\ row[p][t].status = "pending" /\ stops = 0
      => Assigned(q, t) \/ InMotion(t)
=============================================================================
