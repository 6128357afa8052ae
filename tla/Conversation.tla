---------------------------- MODULE Conversation ----------------------------
(***************************************************************************)
(* Peers that ask each other within one thread: the tool call that asks or *)
(* sends (_do_ask, _do_send), the relay's wait for the reply, the daemon   *)
(* that lets claude answer, the cancel of whoever gives up, and the table  *)
(* thread_history, which a peer's tools and daemon share and from which    *)
(* claude gets its context.  Relay and Daemon model the parts; here they   *)
(* are seen from outside and put together: the relay accepts an envelope   *)
(* once or not at all and hands an inbox out whole, the daemon's semaphore *)
(* lets tasks in by order of arrival.                                      *)
(*                                                                         *)
(* The claude that answers an ask has the same tools and may ask in turn:  *)
(* such a message has the ask it serves as its parent.  Its calls die with *)
(* it, and nobody cancels what they have asked for.                        *)
(*                                                                         *)
(* A definition named Faulty_... is not part of Next: it is a plausible    *)
(* bug in the definition below it, kept to show that the properties notice *)
(* the difference.                                                         *)
(***************************************************************************)
EXTENDS Naturals, FiniteSets, SequencesExt

CONSTANTS
  Peers,        \* agents with a daemon each
  Messages,     \* the asks and sends that may be made, see MessagesAssumption
  None,         \* no parent
  Concurrency,  \* CLAUDE_CONCURRENCY of every daemon
  HistoryLimit, \* how many rows load_thread_history reads
  MaxFaults     \* bound: requests and responses that fail, calls and daemons that end

ASSUME MessagesAssumption ==
  /\ IsFiniteSet(Messages) /\ None \notin Messages
  /\ \A m \in Messages :
       /\ m.id \in Nat /\ m.kind \in {"ask", "send"}
       /\ m.from \in Peers /\ m.to \in Peers \ {m.from}
       /\ m.parent # None =>
            \E a \in Messages : a.id = m.parent /\ a.id < m.id /\ a.kind = "ask" /\ a.to = m.from
  /\ \A m, n \in Messages : m.id = n.id => m = n

ASSUME LimitsAssumption ==
  Concurrency \in Nat \ {0} /\ HistoryLimit \in Nat \ {0} /\ MaxFaults \in Nat

VARIABLES
  call,     \* per message: the tool call that makes it
  post,     \* per message: the request at the relay; an ask's is open until it is answered
  inbox,    \* per peer: asks, sends and cancels at the relay, or polled and without a turn yet
  line,     \* per peer: tasks that wait for the semaphore
  work,     \* per message: where its task is
  table,    \* per peer: the rows of thread_history in the order they were written
  known,    \* history, per message: what its sender knew was exchanged before; once
            \* claude has the ask, as much of it as claude was not given
  told,     \* history: asks whose cancel the relay took after the ask
  lost,     \* history: messages handed to a daemon that did not get to them
  faults    \* number of faults

requestVars == <<call, post>>
taskVars == <<line, work>>
threadVars == <<table, known>>
vars == <<requestVars, inbox, taskVars, threadVars, told, lost, faults>>

Calls == {"none", "waiting", "giving up", "ok", "queued", "error", "gone"}
InProgress == {"waiting", "giving up"}
Posts == {"none", "under way", "outbox", "open", "answered", "closed"}
Asks == {m \in Messages : m.kind = "ask"}

Carry(m) == [kind |-> m.kind, of |-> m]
Cancel(m) == [kind |-> "cancel", of |-> m]
Row(kind, m) == [kind |-> kind, of |-> m]
Smaller(m, n) == IF m <= n THEN m ELSE n
Put(p, msg) == inbox' = [inbox EXCEPT ![p] = Append(@, msg)]

Init ==
  /\ call = [m \in Messages |-> "none"] /\ post = [m \in Messages |-> "none"]
  /\ inbox = [p \in Peers |-> <<>>]
  /\ line = [p \in Peers |-> <<>>] /\ work = [m \in Messages |-> "none"]
  /\ table = [p \in Peers |-> <<>>]
  /\ known = [m \in Messages |-> {}] /\ told = {} /\ lost = {} /\ faults = 0

Fault == faults < MaxFaults /\ faults' = faults + 1

\* record_thread_message: a message, or the reply to it, in the table of p.
Recorded(p, kind, m) == table' = [table EXCEPT ![p] = Append(@, Row(kind, m))]

\* The calls of a claude that answers one of the asks, without which it ends.
CallsFor(asks) ==
  {m \in Messages : call[m] \in InProgress /\ \E a \in asks : a.id = m.parent}
Hangup(asks) == call' = [m \in Messages |-> IF m \in CallsFor(asks) THEN "gone" ELSE call[m]]

-----------------------------------------------------------------------------
(* The tool call                                                           *)

\* What the sender has exchanged with the peer and knows it has.
Exchanged(m) ==
  LET Done == {x \in Messages : x.from = m.from /\ x.to = m.to /\ call[x] = "ok"}
  IN  {Row(x.kind, x) : x \in Done} \union {Row("reply", x) : x \in Done \intersect Asks}

\* The claude of a person makes the call, or the one that answers the parent.
Begin(m) ==
  /\ call[m] = "none"
  /\ m.parent # None => \E a \in Messages : a.id = m.parent /\ work[a] = "claude"
  /\ call' = [call EXCEPT ![m] = "waiting"] /\ post' = [post EXCEPT ![m] = "under way"]
  /\ Recorded(m.from, m.kind, m)
  /\ known' = [known EXCEPT ![m] = Exchanged(m)]
  /\ UNCHANGED <<inbox, taskVars, told, lost, faults>>

\* The call, if somebody still waits for it, ends or goes on as s.
Resumes(m, s) == call' = [call EXCEPT ![m] = IF @ = "waiting" THEN s ELSE @]

\* The relay accepts it; an ask waits for its reply.
PostTaken(m) ==
  /\ post[m] = "under way"
  /\ Put(m.to, Carry(m))
  /\ IF m.kind = "ask"
     THEN post' = [post EXCEPT ![m] = "open"] /\ UNCHANGED call
     ELSE post' = [post EXCEPT ![m] = "closed"] /\ Resumes(m, "ok")
  /\ UNCHANGED <<taskVars, threadVars, told, lost, faults>>

\* The relay refuses it, or cannot be reached.  A send goes into the outbox or is
\* reported, an ask is reported, after a cancel if no answer came.
PostFails(m) ==
  /\ post[m] = "under way" /\ Fault
  /\ \/ /\ m.kind = "ask" /\ post' = [post EXCEPT ![m] = "closed"]
        /\ \E s \in {"error", "giving up"} : Resumes(m, s)
     \/ /\ m.kind = "send" /\ post' = [post EXCEPT ![m] = "closed"] /\ Resumes(m, "error")
     \/ /\ m.kind = "send" /\ call[m] = "waiting"
        /\ post' = [post EXCEPT ![m] = "outbox"] /\ Resumes(m, "queued")
  /\ UNCHANGED <<inbox, taskVars, threadVars, told, lost>>

\* A later flush of the outbox gets it through, or gives it up: see Outbox.
Flushed(m) ==
  /\ post[m] = "outbox"
  /\ post' = [post EXCEPT ![m] = "closed"]
  /\ Put(m.to, Carry(m)) \/ UNCHANGED inbox
  /\ UNCHANGED <<call, taskVars, threadVars, told, lost, faults>>

\* wait_for ends, at the latest just after a reply came: 504.
RelayTimesOut(m) ==
  /\ m.kind = "ask" /\ post[m] \in {"open", "answered"}
  /\ post' = [post EXCEPT ![m] = "closed"]
  /\ Resumes(m, "giving up")
  /\ UNCHANGED <<inbox, taskVars, threadVars, told, lost, faults>>

\* The client's own timer ends an ask whose request or response is slow or lost.
ClientTimesOut(m) ==
  /\ m.kind = "ask" /\ call[m] = "waiting" /\ Fault
  /\ call' = [call EXCEPT ![m] = "giving up"]
  /\ UNCHANGED <<post, inbox, taskVars, threadVars, told, lost>>

\* The reply comes through: it is verified, recorded and returned.
Answered(m) ==
  /\ post[m] = "answered"
  /\ post' = [post EXCEPT ![m] = "closed"]
  /\ Resumes(m, "ok")
  /\ IF call[m] = "waiting" THEN Recorded(m.from, "reply", m) ELSE UNCHANGED table
  /\ UNCHANGED <<inbox, taskVars, known, told, lost, faults>>

\* _send_cancel, once and for what it is worth.
SendCancel(m) ==
  /\ call[m] = "giving up"
  /\ call' = [call EXCEPT ![m] = "error"]
  /\ \/ /\ Put(m.to, Cancel(m)) /\ UNCHANGED faults
        /\ told' = IF post[m] = "under way" THEN told ELSE told \union {m}
     \/ Fault /\ UNCHANGED <<inbox, told>>
  /\ UNCHANGED <<post, taskVars, threadVars, lost>>

\* An exception nobody catches, or the caller is interrupted or ends.
Abort(m) ==
  /\ call[m] \in InProgress /\ Fault
  /\ call' = [call EXCEPT ![m] = "gone"]
  /\ UNCHANGED <<post, inbox, taskVars, threadVars, told, lost>>

-----------------------------------------------------------------------------
(* The daemon                                                              *)

Of(msgs) == {msgs[i].of : i \in DOMAIN msgs}

\* The first n messages are lost with the response to a poll, or with a daemon that
\* has polled them; tasks that wait may be lost as well.
Lose(p, n, tasks) ==
  /\ lost' = lost \union Of(SubSeq(inbox[p], 1, n)) \union tasks
  /\ inbox' = [inbox EXCEPT ![p] = SubSeq(@, n + 1, Len(@))]

PollLost(p) ==
  /\ Fault
  /\ \E n \in 1..Len(inbox[p]) : Lose(p, n, {})
  /\ UNCHANGED <<requestVars, taskVars, threadVars, told>>

Computing(p) == {m \in Messages : m.to = p /\ work[m] \in {"claude", "replying"}}

\* Faulty: one more than there are permits.
Faulty_PermitFree(p) == Cardinality(Computing(p)) <= Concurrency

PermitFree(p) == Cardinality(Computing(p)) < Concurrency

Open(p) == line[p] = <<>> /\ PermitFree(p)

\* Faulty: the first rows of the thread.
Faulty_LastRows(rows) == SubSeq(rows, 1, Smaller(HistoryLimit, Len(rows)))

\* load_thread_history: the last rows of the thread.
LastRows(rows) == SubSeq(rows, 1 + Len(rows) - Smaller(HistoryLimit, Len(rows)), Len(rows))

\* process_message: the message is recorded; for an ask the thread is read, the ask
\* being its last row, and claude begins.
Enter(m) ==
  /\ Recorded(m.to, m.kind, m)
  /\ work' = [work EXCEPT ![m] = IF m.kind = "ask" THEN "claude" ELSE "done"]
  /\ known' = [known EXCEPT ![m] = @ \ Range(LastRows(table'[m.to]))]

\* The oldest message is dealt with: its task gets a permit, or waits for one.
Turn(p) ==
  /\ inbox[p] # <<>> /\ Head(inbox[p]).kind # "cancel"
  /\ inbox' = [inbox EXCEPT ![p] = Tail(@)]
  /\ LET m == Head(inbox[p]).of IN
     IF Open(p)
     THEN Enter(m) /\ UNCHANGED line
     ELSE /\ line' = [line EXCEPT ![p] = Append(@, m)]
          /\ work' = [work EXCEPT ![m] = "queued"]
          /\ UNCHANGED threadVars
  /\ UNCHANGED <<requestVars, told, lost, faults>>

\* A permit is free for the task that has waited longest.
Admit(p) ==
  /\ line[p] # <<>> /\ PermitFree(p)
  /\ line' = [line EXCEPT ![p] = Tail(@)]
  /\ Enter(Head(line[p]))
  /\ UNCHANGED <<requestVars, inbox, told, lost, faults>>

\* Faulty: a task that waits for the semaphore is not found.
Faulty_Cancellable(m) == work[m] \in {"claude", "replying"}

\* _inflight_by_corr: from the moment the ask was received until its task ends.
Cancellable(m) == work[m] \in {"queued", "claude", "replying"}

\* A task that ends while it waits for the semaphore leaves the line.
Leaves(p, m) ==
  IF m \in Range(line[p])
  THEN \E i \in DOMAIN line[p] :
         line[p][i] = m /\ line' = [line EXCEPT ![p] = RemoveAt(@, i)]
  ELSE UNCHANGED line

\* A cancel: the task ends where it is, its claude is terminated.
HandleCancel(p) ==
  /\ inbox[p] # <<>> /\ Head(inbox[p]).kind = "cancel"
  /\ inbox' = [inbox EXCEPT ![p] = Tail(@)]
  /\ LET m == Head(inbox[p]).of IN
     IF Cancellable(m)
     THEN /\ work' = [work EXCEPT ![m] = "done"]
          /\ Leaves(p, m)
          /\ Hangup({m})
     ELSE UNCHANGED <<work, line, call>>
  /\ UNCHANGED <<post, threadVars, told, lost, faults>>

\* claude has its answer, or CLAUDE_TIMEOUT_S ends it, with the calls it has under
\* way.  The reply is recorded before it is posted.
ClaudeEnds(m) ==
  /\ work[m] = "claude"
  /\ work' = [work EXCEPT ![m] = "replying"]
  /\ Recorded(m.to, "reply", m)
  /\ Hangup({m})
  /\ UNCHANGED <<post, inbox, line, known, told, lost, faults>>

\* The reply resolves the ask if it is still open and gets that far.
PostReply(m) ==
  /\ work[m] = "replying"
  /\ work' = [work EXCEPT ![m] = "done"]
  /\ IF post[m] = "open"
     THEN \/ post' = [post EXCEPT ![m] = "answered"] /\ UNCHANGED faults
          \/ Fault /\ UNCHANGED post
     ELSE UNCHANGED <<post, faults>>
  /\ UNCHANGED <<call, inbox, line, threadVars, told, lost>>

\* A daemon stops, its tasks and their claudes with it, and is started again.
Restart(p) ==
  /\ Fault
  /\ \E n \in 0..Len(inbox[p]) : Lose(p, n, Range(line[p]))
  /\ Hangup({m \in Asks : m.to = p /\ work[m] = "claude"})
  /\ work' = [m \in Messages |-> IF m.to = p /\ work[m] # "none" THEN "done" ELSE work[m]]
  /\ line' = [line EXCEPT ![p] = <<>>]
  /\ UNCHANGED <<post, threadVars, told>>

Next ==
  \/ \E m \in Messages :
       \/ Begin(m) \/ PostTaken(m) \/ PostFails(m) \/ Flushed(m) \/ RelayTimesOut(m)
       \/ ClientTimesOut(m) \/ Answered(m) \/ SendCancel(m) \/ Abort(m)
       \/ ClaudeEnds(m) \/ PostReply(m)
  \/ \E p \in Peers : PollLost(p) \/ Turn(p) \/ Admit(p) \/ HandleCancel(p) \/ Restart(p)

Spec == Init /\ [][Next]_vars

\* Requests reach the relay or fail, its timer fires, whoever gives up says so,
\* and daemons poll and run their tasks.  Claude need neither answer nor be timed
\* out, no permit need come free, and nobody has to ask.
FairSpec ==
  /\ Spec
  /\ \A m \in Messages :
       WF_vars(PostTaken(m) \/ PostFails(m) \/ RelayTimesOut(m) \/ SendCancel(m))
  /\ \A p \in Peers : WF_vars(Turn(p) \/ HandleCancel(p))

-----------------------------------------------------------------------------
(* Properties                                                              *)

Rows == {Row(k, m) : k \in {"ask", "send", "reply"}, m \in Messages}

\* The shape of the state, and the limit on what computes at one daemon.
TypeOK ==
  /\ call \in [Messages -> Calls] /\ post \in [Messages -> Posts]
  /\ \A p \in Peers :
       /\ Range(inbox[p]) \subseteq {Carry(m) : m \in Messages} \union {Cancel(m) : m \in Asks}
       /\ Range(line[p]) \subseteq {m \in Messages : m.to = p /\ work[m] = "queued"}
       /\ table[p] \in Seq(Rows)
       /\ Cardinality(Computing(p)) <= Concurrency
  /\ work \in [Messages -> {"none", "queued", "claude", "replying", "done"}]
  /\ \A m \in Messages : known[m] \subseteq Rows
  /\ told \subseteq Asks /\ lost \subseteq Messages /\ faults \in 0..MaxFaults

thread == [p \in Peers |-> Range(table[p])]

\* main.py and daemon.py, record_thread_message: what a peer has received its
\* sender has recorded too; that goes for a reply although tool and daemon write it
\* to different databases at different times.
ThreadsMirror ==
  \A p \in Peers : \A r \in thread[p] :
    r \in thread[IF r.kind = "reply" THEN r.of.to ELSE r.of.from]

\* At least HistoryLimit rows before the row of m, in the table of m.to.
OutOfReach(r, m) ==
  \E i, j \in DOMAIN table[m.to] :
    table[m.to][i] = r /\ table[m.to][j] = Row("ask", m) /\ j - i >= HistoryLimit

\* daemon.py, process_message (a2a-protocol.md, "Thread persistence"): of what its
\* asker has exchanged with this peer before - every answer the asker got, with its
\* question, and every send the relay has taken - the claude that answers an ask is
\* not given what a daemon lost, and what the limit of load_thread_history cuts off,
\* HistoryLimit rows having been written since; and it is given all the rest.
ContextIsShared ==
  \A m \in Asks :
    Row("ask", m) \in thread[m.to] =>
      \A r \in known[m] : r.of \in lost \/ OutOfReach(r, m)

\* What is said in a thread is the same for both ends of it, as far as they look back.
ThreadsAgree == ThreadsMirror /\ ContextIsShared

\* main.py, _send_cancel ("da peer otpusti claude --print resurs"): work on an ask
\* ends once the relay has taken its cancel, were claude never to end by itself
\* or the ask still waiting for others that never end.
AbandonedWorkStops == \A m \in told : m \in lost \/ work[m] \in {"none", "done"}

\* main.py, _do_ask: every call ends, also when peers wait for each other in a
\* circle and no claude ever answers.
CallsEnd == \A m \in Messages : call[m] \notin InProgress

\* Nobody waits, and nobody works, for ever in vain.  No message is begun, given up
\* or taken on twice, so that all this comes to be and stays.
WaitingEnds == <>[](AbandonedWorkStops /\ CallsEnd)
=============================================================================
