------------------------------- MODULE Daemon -------------------------------
(***************************************************************************)
(* One life of a peer's daemon (agent/daemon.py) from the first poll of    *)
(* its inbox to the end of its shutdown: poll_loop drains the inbox and    *)
(* makes a task of every message, _process_with_limit lets a few tasks at  *)
(* a time into process_message, which answers an ask with the output of a  *)
(* claude --print process, and a cancel message ends such a task early.    *)
(* All tasks are coroutines of one asyncio loop; a step is what one of     *)
(* them does between two suspensions.  What the loop does by callbacks at  *)
(* once - end a task that was cancelled, take a finished task out of the   *)
(* registry - is part of the step that causes it.  The semaphore is that   *)
(* of Python 3.13, which pyproject.toml asks for.                          *)
(* The lock around the daemon's life is the subject of module DaemonLock;  *)
(* the scribe, whose claude processes run beside these, is left out.       *)
(*                                                                         *)
(* A definition whose comment starts with "Faulty:" is not part of Next.   *)
(* It is a plausible bug in the definition below it, kept to show that the *)
(* properties notice the difference.                                       *)
(***************************************************************************)
EXTENDS Naturals, Sequences, FiniteSets, Functions

CONSTANTS
  Peers,             \* the daemon's correspondents
  Corrs,             \* correlation ids
  Ids,               \* msg_id of the messages
  Messages,          \* what the peers may send, see MessagesAssumption
  None,              \* absent value
  Concurrency,       \* CLAUDE_CONCURRENCY
  BatchMax,          \* max_items of GET /inbox
  MayStop,           \* whether the daemon may be told to stop
  ConnectionsReset   \* whether a connection may break in the middle of a poll

(***************************************************************************)
(* corr is the correlation id of an ask and the target of a cancel.  A     *)
(* message is tagged when its payload has _task or _task_update; the tools *)
(* of agent/main.py tag sends only.  What poll_loop rejects - an unknown   *)
(* sender, an HMAC that does not verify - leaves no trace in this state    *)
(* and is left out.                                                        *)
(***************************************************************************)
Envelopes ==
  [id : Ids, kind : {"send", "ask", "cancel"}, from : Peers,
   corr : Corrs \cup {None}, tagged : BOOLEAN]

ASSUME MessagesAssumption ==
  /\ Messages \subseteq Envelopes
  /\ \A m \in Messages : m.kind = "ask" => m.corr # None /\ ~m.tagged
  /\ \A a, b \in Messages :
       /\ a.id = b.id => a = b
       /\ a.kind = "ask" /\ b.kind = "ask" /\ a.corr = b.corr => a = b

ASSUME NoneAssumption == None \notin Messages /\ None \notin Corrs

ASSUME LimitsAssumption ==
  /\ Concurrency \in Nat \ {0} /\ BatchMax \in Nat \ {0}
  /\ {MayStop, ConnectionsReset} \subseteq BOOLEAN

VARIABLES
  inbox,       \* the relay's queue for this peer
  posted,      \* messages that the relay has taken
  response,    \* what the relay handed out for the poll under way, or None
  life,        \* of poll_loop and _run_all
  shutdown,    \* SHUTDOWN_EVENT
  ready,       \* what the loop runs next: tasks new, or woken by the semaphore
  st,          \* where each message's task is
  waiters,     \* _claude_semaphore: tasks it has not woken, oldest first
  holding,     \* _claude_semaphore: tasks that have a permit, resumed or not
  registry,    \* _inflight_by_corr
  proc,        \* the claude --print process of each ask
  outcome,     \* how each task ended
  dispatched,  \* history: messages in the order their tasks were created
  handled      \* history: messages in the order process_message took them

pollVars == <<inbox, posted, response, dispatched>>
taskVars == <<st, ready, waiters, holding, registry>>
lifeVars == <<life, shutdown>>
vars == <<pollVars, taskVars, lifeVars, proc, outcome, handled>>

TaskStates == {"none", "ready", "queued", "claude", "terminating",
               "cancelling", "replying", "done"}

Init ==
  /\ inbox = <<>>
  /\ posted = {}
  /\ response = None
  /\ life = "up"
  /\ shutdown = FALSE
  /\ ready = <<>>
  /\ st = [m \in Messages |-> "none"]
  /\ waiters = <<>>
  /\ holding = {}
  /\ registry = [c \in Corrs |-> None]
  /\ proc = [m \in Messages |-> "none"]
  /\ outcome = [m \in Messages |-> "none"]
  /\ dispatched = <<>>
  /\ handled = <<>>

Unfinished == {m \in Messages : st[m] \notin {"none", "done"}}

\* Woken by the semaphore and not yet resumed.
Woken == {m \in holding : st[m] = "queued"}

\* s without the tasks of F; the others keep their order.
Without(s, F) ==
  LET kept[i \in 0..Len(s)] ==
        IF i = 0 THEN <<>>
        ELSE IF s[i] \in F THEN kept[i - 1] ELSE Append(kept[i - 1], s[i])
  IN kept[Len(s)]

\* Faulty: a permit comes back from every task, also from those that went round.
PassOvercounts(F, permits, rest) ==
  LET w == Without(waiters, F)
      k == Cardinality({i \in DOMAIN w :
                          i + Cardinality(permits) <= Concurrency + Cardinality(F)})
  IN /\ holding' = (permits \ F) \cup {w[i] : i \in 1..k}
     /\ waiters' = SubSeq(w, k + 1, Len(w))
     /\ ready' = Without(rest, F) \o SubSeq(w, 1, k)
     /\ registry' = [c \in Corrs |-> IF registry[c] \in F THEN None ELSE registry[c]]

\* The tasks of F end, while those of permits have the semaphore and rest waits
\* to run: free permits go to the oldest waiters, which the loop runs in turn.
Pass(F, permits, rest) ==
  LET w == Without(waiters, F)
      k == Cardinality({i \in DOMAIN w : i + Cardinality(permits \ F) <= Concurrency})
  IN /\ holding' = (permits \ F) \cup {w[i] : i \in 1..k}
     /\ waiters' = SubSeq(w, k + 1, Len(w))
     /\ ready' = Without(rest, F) \o SubSeq(w, 1, k)
     /\ registry' = [c \in Corrs |-> IF registry[c] \in F THEN None ELSE registry[c]]

EndWith(F, told) ==
  /\ st' = [m \in Messages |-> IF m \in F THEN "done" ELSE st[m]]
  /\ outcome' = [m \in Messages |-> IF m \in F THEN told ELSE outcome[m]]

-----------------------------------------------------------------------------
(* poll_loop                                                               *)

Post(m) ==
  /\ m \notin posted
  /\ posted' = posted \cup {m}
  /\ inbox' = Append(inbox, m)
  /\ UNCHANGED <<response, dispatched, taskVars, lifeVars, proc, outcome, handled>>

\* The relay hands out, and forgets, what the next poll asks for.
PollDrains ==
  /\ life = "up" /\ ~shutdown /\ response = None
  /\ inbox # <<>>
  /\ LET n == IF Len(inbox) < BatchMax THEN Len(inbox) ELSE BatchMax
     IN /\ response' = SubSeq(inbox, 1, n)
        /\ inbox' = SubSeq(inbox, n + 1, Len(inbox))
  /\ UNCHANGED <<posted, dispatched, taskVars, lifeVars, proc, outcome, handled>>

\* Every message of the batch gets a task and, if it is an ask, an entry in the
\* registry, before any of the tasks runs.
PollReceives ==
  /\ response # None
  /\ LET asks == {m \in Range(response) : m.kind = "ask"}
     IN registry' = [c \in Corrs |->
                       IF \E m \in asks : m.corr = c
                       THEN CHOOSE m \in asks : m.corr = c ELSE registry[c]]
  /\ ready' = ready \o response
  /\ dispatched' = dispatched \o response
  /\ st' = [m \in Messages |-> IF m \in Range(response) THEN "ready" ELSE st[m]]
  /\ response' = None
  /\ UNCHANGED <<inbox, posted, waiters, holding, lifeVars, proc, outcome, handled>>

\* The response does not arrive within the timeout.
PollTimesOut ==
  /\ response # None
  /\ response' = None
  /\ UNCHANGED <<inbox, posted, dispatched, taskVars, lifeVars, proc, outcome, handled>>

\* Any other transport error ends poll_loop and with it _run_all.
PollRaises ==
  /\ ConnectionsReset /\ life = "up"
  /\ life' = "draining"
  /\ response' = None
  /\ UNCHANGED <<inbox, posted, dispatched, shutdown, taskVars,
                 proc, outcome, handled>>

-----------------------------------------------------------------------------
(* _process_with_limit and process_message                                 *)

\* Cancel messages and everything tagged go round the semaphore.
Bypass(m) == m.kind = "cancel" \/ m.tagged

Acquired(m) == IF Bypass(m) THEN holding ELSE holding \cup {m}

\* The semaphore lets a newcomer in only if nobody waits for it.
Open == waiters = <<>> /\ Woken = {} /\ Cardinality(holding) < Concurrency

\* m enters process_message, at its first step or when the semaphore let it.
Turn(m) ==
  /\ ready # <<>> /\ m = Head(ready)
  /\ Bypass(m) \/ m \in holding \/ Open
  /\ handled' = Append(handled, m)

\* Faulty: the latest comer is the next to be let in.
QueueInFront(m) ==
  /\ ready # <<>> /\ m = Head(ready)
  /\ ~Bypass(m) /\ m \notin holding /\ ~Open
  /\ ready' = Tail(ready)
  /\ waiters' = <<m>> \o waiters
  /\ st' = [st EXCEPT ![m] = "queued"]
  /\ UNCHANGED <<holding, registry, pollVars, lifeVars, proc, outcome, handled>>

\* Otherwise it waits, behind those that wait already.
Queue(m) ==
  /\ ready # <<>> /\ m = Head(ready)
  /\ ~Bypass(m) /\ m \notin holding /\ ~Open
  /\ ready' = Tail(ready)
  /\ waiters' = Append(waiters, m)
  /\ st' = [st EXCEPT ![m] = "queued"]
  /\ UNCHANGED <<holding, registry, pollVars, lifeVars, proc, outcome, handled>>

LogSend(m) ==
  /\ m.kind = "send"
  /\ Turn(m)
  /\ EndWith({m}, "logged")
  /\ Pass({m}, Acquired(m), Tail(ready))
  /\ UNCHANGED <<pollVars, lifeVars, proc>>

BeginAsk(m) ==
  /\ m.kind = "ask"
  /\ Turn(m)
  /\ st' = [st EXCEPT ![m] = "claude"]
  /\ proc' = [proc EXCEPT ![m] = "live"]
  /\ Pass({}, Acquired(m), Tail(ready))
  /\ UNCHANGED <<pollVars, lifeVars, outcome>>

\* task.cancel() for the tasks of C, in a step that also ends those of F.  A
\* task that computes an answer first terminates its claude process; a task
\* that already waits for one to die gives up waiting.
CancelTasks(C, F, rest) ==
  LET stopping == {t \in C : st[t] = "claude" /\ proc[t] # "exited"}
      ended == C \ stopping
  IN /\ st' = [m \in Messages |-> IF m \in ended \cup F THEN "done"
                                  ELSE IF m \in stopping THEN "cancelling" ELSE st[m]]
     /\ proc' = [m \in Messages |-> IF m \in stopping THEN "signalled" ELSE proc[m]]
     /\ outcome' = [m \in Messages |-> IF m \in ended THEN "cancelled"
                                       ELSE IF m \in F THEN "logged" ELSE outcome[m]]
     /\ Pass(ended \cup F, holding, rest)

\* The task a cancel message finds, unless it is another peer's ask.
Target(m) == IF m.corr # None THEN registry[m.corr] ELSE None

\* Faulty: whoever knows the correlation id may cancel.
OwnTargetAnyone(m) == Target(m) # None

OwnTarget(m) == Target(m) # None /\ Target(m).from = m.from

\* Faulty: the CancelledError is not caught, the process goes on.
CancelMatchedOrphans(m) ==
  /\ m.kind = "cancel"
  /\ OwnTarget(m)
  /\ Turn(m)
  /\ EndWith({Target(m), m}, "cancelled")
  /\ Pass({Target(m), m}, holding, Tail(ready))
  /\ UNCHANGED <<pollVars, lifeVars, proc>>

CancelMatched(m) ==
  /\ m.kind = "cancel"
  /\ OwnTarget(m)
  /\ Turn(m)
  /\ CancelTasks({Target(m)}, {m}, Tail(ready))
  /\ UNCHANGED <<pollVars, lifeVars>>

CancelIgnored(m) ==
  /\ m.kind = "cancel"
  /\ ~OwnTarget(m)
  /\ Turn(m)
  /\ EndWith({m}, "logged")
  /\ Pass({m}, holding, Tail(ready))
  /\ UNCHANGED <<pollVars, lifeVars, proc>>

-----------------------------------------------------------------------------
(* call_claude and send_reply                                              *)

\* The process ends by itself, by the SIGTERM if it heeds it, or by the
\* SIGKILL.
ClaudeExits(m) ==
  /\ proc[m] \in {"live", "signalled", "killed"}
  /\ proc' = [proc EXCEPT ![m] = "exited"]
  /\ UNCHANGED <<pollVars, taskVars, lifeVars, outcome, handled>>

Answered(m) ==
  /\ st[m] = "claude" /\ proc[m] = "exited"
  /\ st' = [st EXCEPT ![m] = "replying"]
  /\ UNCHANGED <<ready, waiters, holding, registry, pollVars, lifeVars, proc,
                 outcome, handled>>

\* CLAUDE_TIMEOUT_S have passed.
TimesOut(m) ==
  /\ st[m] = "claude" /\ proc[m] = "live"
  /\ st' = [st EXCEPT ![m] = "terminating"]
  /\ proc' = [proc EXCEPT ![m] = "signalled"]
  /\ UNCHANGED <<ready, waiters, holding, registry, pollVars, lifeVars,
                 outcome, handled>>

\* A timeout expires just as the process ends: terminate() or kill() raises
\* ProcessLookupError.
TimesOutLate(m) ==
  /\ st[m] \in {"claude", "terminating"} /\ proc[m] = "exited"
  /\ EndWith({m}, "failed")
  /\ Pass({m}, holding, ready)
  /\ UNCHANGED <<pollVars, lifeVars, proc, handled>>

\* The process ended on the SIGTERM, or is killed five seconds later; the
\* asker is told about the timeout.
Terminated(m) ==
  /\ st[m] = "terminating"
  /\ proc' = [proc EXCEPT ![m] = IF @ = "signalled" THEN "killed" ELSE @]
  /\ st' = [st EXCEPT ![m] = "replying"]
  /\ UNCHANGED <<ready, waiters, holding, registry, pollVars, lifeVars,
                 outcome, handled>>

\* Faulty: the wait for the process has no timeout.
CancelledWaits(m) ==
  /\ st[m] = "cancelling" /\ proc[m] = "exited"
  /\ EndWith({m}, "cancelled")
  /\ Pass({m}, holding, ready)
  /\ UNCHANGED <<pollVars, lifeVars, proc, handled>>

\* The same after a cancel, after three seconds; nobody is told.
Cancelled(m) ==
  /\ st[m] = "cancelling"
  /\ proc' = [proc EXCEPT ![m] = IF @ = "signalled" THEN "killed" ELSE @]
  /\ EndWith({m}, "cancelled")
  /\ Pass({m}, holding, ready)
  /\ UNCHANGED <<pollVars, lifeVars, handled>>

Reply(m, told) ==
  /\ st[m] = "replying"
  /\ EndWith({m}, told)
  /\ Pass({m}, holding, ready)
  /\ UNCHANGED <<pollVars, lifeVars, proc, handled>>

-----------------------------------------------------------------------------
(* Shutdown                                                                *)

Sigterm ==
  /\ MayStop /\ ~shutdown
  /\ shutdown' = TRUE
  /\ UNCHANGED <<pollVars, taskVars, life, proc, outcome, handled>>

\* poll_loop has seen the event; a poll under way comes to its end first.
PollEnds ==
  /\ life = "up" /\ shutdown /\ response = None
  /\ life' = "draining"
  /\ UNCHANGED <<pollVars, taskVars, shutdown, proc, outcome, handled>>

\* After ten seconds the tasks that are left are cancelled.
DrainTimesOut ==
  /\ life = "draining" /\ Unfinished # {}
  /\ life' = "cancelling"
  /\ CancelTasks(Unfinished, {}, ready)
  /\ UNCHANGED <<pollVars, shutdown, handled>>

GoDown ==
  /\ life \in {"draining", "cancelling"} /\ Unfinished = {}
  /\ life' = "down"
  /\ UNCHANGED <<pollVars, taskVars, shutdown, proc, outcome, handled>>

-----------------------------------------------------------------------------
TaskStep(m) ==
  \/ Queue(m) \/ LogSend(m) \/ BeginAsk(m)
  \/ CancelMatched(m) \/ CancelIgnored(m)
  \/ Answered(m) \/ TimesOut(m) \/ TimesOutLate(m)
  \/ Terminated(m) \/ Cancelled(m)
  \/ \E told \in {"replied", "unanswered"} : Reply(m, told)

Next ==
  \/ \E m \in Messages : Post(m) \/ TaskStep(m) \/ ClaudeExits(m)
  \/ PollDrains \/ PollReceives \/ PollTimesOut \/ PollRaises
  \/ Sigterm \/ PollEnds \/ DrainTimesOut \/ GoDown

Spec == Init /\ [][Next]_vars

\* The loop runs every task that can go on, and every wait has a timeout.
FairSpec ==
  /\ Spec
  /\ \A m \in Messages : WF_vars(TaskStep(m))
  /\ WF_vars(PollReceives \/ PollTimesOut) /\ WF_vars(PollEnds) /\ WF_vars(GoDown)

-----------------------------------------------------------------------------
(* Properties                                                              *)

\* The state is of the expected shape; the semaphore never lets in more tasks
\* than it has permits (_process_with_limit).
TypeOK ==
  /\ inbox \in Seq(Messages) /\ posted \subseteq Messages
  /\ response = None \/ response \in Seq(Messages)
  /\ life \in {"up", "draining", "cancelling", "down"}
  /\ shutdown \in BOOLEAN
  /\ st \in [Messages -> TaskStates]
  /\ ready \in Seq(Messages) /\ waiters \in Seq(Messages)
  /\ holding \subseteq Messages /\ Cardinality(holding) <= Concurrency
  /\ registry \in [Corrs -> Messages \cup {None}]
  /\ proc \in [Messages -> {"none", "live", "signalled", "killed", "exited"}]
  /\ outcome \in [Messages -> {"none", "logged", "replied", "unanswered",
                              "failed", "cancelled"}]
  /\ dispatched \in Seq(Messages) /\ handled \in Seq(Messages)

LiveAsks == {m \in Messages : proc[m] = "live"}

\* However asks end - answered, timed out, cancelled while queued, let in,
\* running or dying - no more than CLAUDE_CONCURRENCY of them compute at a
\* time (daemon.py:49).
ClaudeLimit == Cardinality(LiveAsks) <= Concurrency

\* No task ends, by whatever cancel, timeout or shutdown, before its claude
\* process has at least been told to (call_claude).
NoStraySpawn == \A m \in Messages : st[m] = "done" => proc[m] # "live"

\* Every claude process is some unfinished task's, and few enough run at a time.
ClaudesAccounted == ClaudeLimit /\ NoStraySpawn

\* While the daemon is not told to stop, an ask is cancelled only by the peer
\* that sent it (process_message, the check on orig_sender).
CancelByOwner ==
  life \in {"up", "draining"} =>
    \A m \in Messages :
      m.kind = "ask" /\ outcome[m] = "cancelled" =>
        \E c \in Range(handled) : c.kind = "cancel" /\ c.corr = m.corr /\ c.from = m.from

Before(a, b, s) == \E i, j \in DOMAIN s : i < j /\ s[i] = a /\ s[j] = b

\* A cancel that its asker's inbox delivers after the ask leaves nothing of
\* it: once it is handled the ask is over or about to be, were it still
\* unstarted, queued, let in, computing, timing out or replying.
CancelStops ==
  \A m, c \in Messages :
    /\ m.kind = "ask" /\ c.kind = "cancel" /\ c.corr = m.corr /\ c.from = m.from
    /\ Before(m, c, dispatched)
    /\ c \in Range(handled)
    => st[m] \in {"cancelling", "done"}

\* A cancel hits the ask it names, for good and at every stage of it, and hits
\* no other one (process_message, call_claude).
CancelsHit == CancelByOwner /\ CancelStops

\* Asks and sends are taken in the order they arrived, except those cancelled
\* while they waited and those that go round the semaphore.
HandledInOrder ==
  \A a, b \in Messages :
    /\ ~Bypass(a) /\ ~Bypass(b)
    /\ Before(a, b, dispatched)
    /\ b \in Range(handled)
    => a \in Range(handled) \/ st[a] = "done"

\* The daemon gets through its work, and through its own end: every message it has
\* made a task for is dealt with, whatever claude does and however many wait; told
\* to stop it stops, also when claude ignores its SIGTERM ("Cisto se iskljucuje",
\* daemon.py:12).  Nothing here happens twice, so that it all ends for good.
EverythingEnds == <>[](Unfinished = {} /\ (shutdown => life = "down"))

\* Claimed by the comment at daemon.py:571: a cancelled ask does not leave
\* its claude process to run on; one that ignores the SIGTERM is killed.
StubbornAreKilled == \A m \in Messages : st[m] = "done" => proc[m] # "signalled"

\* Claimed by the docstring at daemon.py:5: every send that the daemon has
\* taken from the relay is logged.
SendsLogged ==
  life = "down" =>
    \A m \in Range(dispatched) : m.kind = "send" => outcome[m] = "logged"

\* Claimed by README.md:389 and the log line at daemon.py:1213: the daemon
\* always runs, and retries when the relay cannot be reached.
StopsOnlyWhenTold == life # "up" => shutdown

=============================================================================
