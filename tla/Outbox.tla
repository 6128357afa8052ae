------------------------------- MODULE Outbox -------------------------------
(***************************************************************************)
(* The SQLite outbox of agent/outbox.py and everybody who writes to it:    *)
(* the tool calls of the MCP servers (agent/main.py), which flush it and   *)
(* then post a message of their own, and the daemon's outbox_monitor_loop. *)
(* All of them share one database file, but the tool calls of one server   *)
(* are coroutines of one event loop, while the daemon, and every claude    *)
(* --print with its own MCP server, is a process of its own.               *)
(*                                                                         *)
(* The relay is the one of module Relay seen from outside: it spends the   *)
(* nonce of an envelope before it looks at the inbox, refuses an envelope  *)
(* whose nonce it knows and what is older than TS_SKEW_MS, and may forget  *)
(* nonces, all of them when it keeps them in memory and restarts.  What it *)
(* has taken is counted; a restart that also empties the inboxes is the    *)
(* matter of modules Relay and Tasks.  Time is abstracted: a row           *)
(* becomes due some time after it was scheduled, an envelope grows old     *)
(* some time after it was queued.  The order of the rows of one batch,     *)
(* ORDER BY next_retry_ms, is left open.                                   *)
(*                                                                         *)
(* A definition whose comment starts with "Faulty:" is not part of Next.   *)
(* It is a plausible bug in the definition below it, kept to show that the *)
(* properties notice the difference.                                       *)
(***************************************************************************)
EXTENDS Naturals, FiniteSets

CONSTANTS
  Messages,          \* envelopes; each is sent by one clade_message/clade_reply call
  Replies,           \* those that are posted to /reply
  Checks,            \* clade_outbox_status calls, which only flush
  Monitors,          \* the daemon's outbox_monitor_loop ({} without a daemon)
  Process,           \* the operating system process of each of these
  None,              \* absent value
  MaxAttempts,       \* MAX_ATTEMPTS
  BatchMax,          \* LIMIT of pending_rows
  Parallelism,       \* tool calls and monitors that may be at work at once
  RelayBusy,         \* whether the relay answers 503 (inbox full, back-pressure)
  ResponsesLost,     \* whether a response may be lost after the relay acted
  ConnectionsReset,  \* whether a connection may break in the middle of a request
  MaxCrashes,        \* bound on crashes of a process
  MaxForgets         \* bound on how often the relay forgets one nonce

Calls == Messages \cup Checks
Flushers == Calls \cup Monitors
Processes == {Process[f] : f \in Flushers}

ASSUME CallsAssumption ==
  /\ Replies \subseteq Messages
  /\ Messages \cap Checks = {} /\ Calls \cap Monitors = {}
  /\ None \notin Messages
  /\ IsFiniteSet(Flushers)

ASSUME LimitsAssumption ==
  /\ MaxAttempts \in Nat \ {0} /\ BatchMax \in Nat \ {0}
  /\ Parallelism \in Nat /\ MaxCrashes \in Nat /\ MaxForgets \in Nat
  /\ {RelayBusy, ResponsesLost, ConnectionsReset} \subseteq BOOLEAN

VARIABLES
  row,       \* outbox.delivered of each message's row: pending 0, delivered 1, dead 2
  attempts,  \* outbox.attempts
  due,       \* outbox.next_retry_ms <= now
  rounds,    \* history: how often each row became due
  old,       \* messages whose timestamp_ms left the relay's window
  spent,     \* relay: messages whose nonce it knows
  forgotten, \* history: how often the relay has forgotten each nonce
  copies,    \* history: copies of each message that the relay has taken
  outcome,   \* what the tool call told the sender about each message
  pc,        \* where each tool call or monitor is
  batch,     \* rows it read and has not tried yet
  cur,       \* the row it is posting
  resp,      \* the response it got
  readAttempts,  \* mark_failed: the attempts column as it was read
  crashes

rowVars == <<row, attempts, due, rounds>>
relayVars == <<spent, forgotten, copies>>
callVars == <<pc, batch, cur, resp, readAttempts>>
vars == <<rowVars, relayVars, callVars, old, outcome, crashes>>

Control == {"idle", "flush", "posted", "update", "send", "sent", "stopped", "done"}

(***************************************************************************)
(* ok: 200.  client: 4xx.  server: 5xx.  net: httpx.ConnectError or        *)
(* TimeoutException.  reset: any other transport error, such as ReadError  *)
(* or RemoteProtocolError.                                                 *)
(***************************************************************************)
Responses == {"ok", "client", "server", "net", "reset"}

Init ==
  /\ row = [m \in Messages |-> "none"]
  /\ attempts = [m \in Messages |-> 0]
  /\ due = [m \in Messages |-> FALSE]
  /\ rounds = [m \in Messages |-> 0]
  /\ old = {}
  /\ spent = {}
  /\ forgotten = [m \in Messages |-> 0]
  /\ copies = [m \in Messages |-> 0]
  /\ outcome = [m \in Messages |-> "none"]
  /\ pc = [f \in Flushers |-> "idle"]
  /\ batch = [f \in Flushers |-> {}]
  /\ cur = [f \in Flushers |-> None]
  /\ resp = [f \in Flushers |-> None]
  /\ readAttempts = [f \in Flushers |-> 0]
  /\ crashes = 0

-----------------------------------------------------------------------------
(* The relay, and the network between it and an agent                      *)

\* The relay is not reached, or it acts on m and its response may get lost.
Exchange(f, m) ==
  \/ /\ resp' \in {[resp EXCEPT ![f] = x] :
                     x \in IF ConnectionsReset THEN {"net", "reset"} ELSE {"net"}}
     /\ UNCHANGED relayVars
  \/ \E answer \in {"ok", "client", "server"} :
       /\ \/ /\ answer = "client"          \* 400 Timestamp, 400 Replay detected
             /\ m \in spent \cup old
             /\ UNCHANGED relayVars
          \/ /\ answer = "ok"
             /\ m \notin spent \cup old
             /\ spent' = spent \cup {m}
             /\ copies' = [copies EXCEPT ![m] = @ + 1]
             /\ UNCHANGED forgotten
          \/ /\ \/ answer = "server" /\ RelayBusy        \* 503 Inbox full
                \/ answer = "client" /\ m \in Replies    \* 404, 409
             /\ m \notin spent \cup old
             /\ spent' = spent \cup {m}
             /\ UNCHANGED <<forgotten, copies>>
       /\ resp' \in {[resp EXCEPT ![f] = x] :
                       x \in {answer}
                             \cup (IF ResponsesLost THEN {"net"} ELSE {})
                             \cup (IF ConnectionsReset THEN {"reset"} ELSE {})}

\* A relay that keeps its nonces in memory restarts and knows none of them;
\* or a nonce expires NONCE_TTL_S after it was spent, while its envelope,
\* stamped by a clock that is ahead, is still within the window.
RelayForgets ==
  /\ spent # {}
  /\ \E gone \in {spent} \cup {{m} : m \in spent} :
       /\ \A m \in gone : forgotten[m] < MaxForgets
       /\ spent' = spent \ gone
       /\ forgotten' = [m \in Messages |->
                          IF m \in gone THEN forgotten[m] + 1 ELSE forgotten[m]]
  /\ UNCHANGED <<rowVars, copies, callVars, old, outcome, crashes>>

-----------------------------------------------------------------------------
(* outbox.py                                                               *)

\* Coroutines of one process do not run while one of them is between the
\* SELECT and the UPDATE of mark_failed; other processes do.
HasProcess(f) ==
  \A g \in Flushers : pc[g] = "update" /\ Process[g] = Process[f] => g = f

Ready == {m \in Messages : row[m] = "pending" /\ due[m]}

\* pending_rows
PendingRows ==
  {B \in SUBSET Ready :
     \/ Cardinality(B) = BatchMax
     \/ B = Ready /\ Cardinality(B) < BatchMax}

Enqueue(m) ==
  /\ row' = [row EXCEPT ![m] = "pending"]
  /\ attempts' = [attempts EXCEPT ![m] = 1]
  /\ due' = [due EXCEPT ![m] = FALSE]
  /\ UNCHANGED rounds

MarkDelivered(m) ==
  /\ row' = [row EXCEPT ![m] = "delivered"]
  /\ UNCHANGED <<attempts, due, rounds>>

\* Faulty: gives up one attempt early.
MarkFailedEarly(m, read) ==
  IF read >= MaxAttempts - 1
  THEN /\ row' = [row EXCEPT ![m] = "dead"]
       /\ UNCHANGED <<attempts, due, rounds>>
  ELSE /\ attempts' = [attempts EXCEPT ![m] = @ + 1]
       /\ due' = [due EXCEPT ![m] = FALSE]
       /\ UNCHANGED <<row, rounds>>

\* Faulty: gives up one attempt late.
MarkFailedLate(m, read) ==
  IF read > MaxAttempts
  THEN /\ row' = [row EXCEPT ![m] = "dead"]
       /\ UNCHANGED <<attempts, due, rounds>>
  ELSE /\ attempts' = [attempts EXCEPT ![m] = @ + 1]
       /\ due' = [due EXCEPT ![m] = FALSE]
       /\ UNCHANGED <<row, rounds>>

\* Faulty: the last attempt's failure is not recorded.
MarkFailedNever(m, read) ==
  IF read >= MaxAttempts
  THEN UNCHANGED rowVars
  ELSE /\ attempts' = [attempts EXCEPT ![m] = @ + 1]
       /\ due' = [due EXCEPT ![m] = FALSE]
       /\ UNCHANGED <<row, rounds>>

\* The UPDATE of mark_failed, given the attempts its SELECT read.
MarkFailed(m, read) ==
  IF read >= MaxAttempts
  THEN /\ row' = [row EXCEPT ![m] = "dead"]
       /\ UNCHANGED <<attempts, due, rounds>>
  ELSE /\ attempts' = [attempts EXCEPT ![m] = @ + 1]
       /\ due' = [due EXCEPT ![m] = FALSE]
       /\ UNCHANGED <<row, rounds>>

-----------------------------------------------------------------------------
(* The flush that every tool call begins with, and the monitor's round     *)

AtWork == {f \in Flushers : pc[f] \notin {"idle", "stopped", "done"}}

\* _flush_outbox reads its rows once; without any, the call goes on at once.
StartCall(f) ==
  /\ f \in Calls /\ pc[f] = "idle" /\ HasProcess(f)
  /\ Cardinality(AtWork) < Parallelism
  /\ batch' \in {[batch EXCEPT ![f] = B] : B \in PendingRows}
  /\ pc' = [pc EXCEPT ![f] = "flush"]
  /\ UNCHANGED <<rowVars, relayVars, cur, resp, readAttempts, old, outcome, crashes>>

\* The monitor wakes up and finds rows to retry.
StartRound(f) ==
  /\ f \in Monitors /\ pc[f] = "idle" /\ HasProcess(f)
  /\ Cardinality(AtWork) < Parallelism
  /\ Ready # {}
  /\ batch' \in {[batch EXCEPT ![f] = B] : B \in PendingRows}
  /\ pc' = [pc EXCEPT ![f] = "flush"]
  /\ UNCHANGED <<rowVars, relayVars, cur, resp, readAttempts, old, outcome, crashes>>

\* The request is sent and the relay acts on it, or is not reached.
PostRow(f) ==
  /\ pc[f] = "flush" /\ HasProcess(f)
  /\ \E m \in batch[f] :
       /\ Exchange(f, m)
       /\ cur' = [cur EXCEPT ![f] = m]
  /\ pc' = [pc EXCEPT ![f] = "posted"]
  /\ UNCHANGED <<rowVars, batch, readAttempts, old, outcome, crashes>>

NextRow(f) ==
  /\ batch' = [batch EXCEPT ![f] = @ \ {cur[f]}]
  /\ cur' = [cur EXCEPT ![f] = None]
  /\ resp' = [resp EXCEPT ![f] = None]
  /\ pc' = [pc EXCEPT ![f] = "flush"]

\* Faulty: everything the relay answers counts as delivered.
RowDeliveredAnyAnswer(f) ==
  /\ pc[f] = "posted" /\ HasProcess(f)
  /\ resp[f] \in {"ok", "client", "server"}
  /\ MarkDelivered(cur[f])
  /\ NextRow(f)
  /\ UNCHANGED <<relayVars, readAttempts, old, outcome, crashes>>

RowDelivered(f) ==
  /\ pc[f] = "posted" /\ HasProcess(f)
  /\ resp[f] = "ok"
  /\ MarkDelivered(cur[f])
  /\ NextRow(f)
  /\ UNCHANGED <<relayVars, readAttempts, old, outcome, crashes>>

\* mark_failed's SELECT.  The tool calls catch every exception; the monitor
\* catches ConnectError and TimeoutException only.
RowFailed(f) ==
  /\ pc[f] = "posted" /\ HasProcess(f)
  /\ resp[f] # "ok"
  /\ f \in Monitors => resp[f] # "reset"
  /\ readAttempts' = [readAttempts EXCEPT ![f] = attempts[cur[f]]]
  /\ pc' = [pc EXCEPT ![f] = "update"]
  /\ UNCHANGED <<rowVars, relayVars, batch, cur, resp, old, outcome, crashes>>

RowUpdate(f) ==
  /\ pc[f] = "update"
  /\ MarkFailed(cur[f], readAttempts[f])
  /\ NextRow(f)
  /\ readAttempts' = [readAttempts EXCEPT ![f] = 0]
  /\ UNCHANGED <<relayVars, old, outcome, crashes>>

\* An exception nobody catches ends outbox_monitor_loop.
MonitorDies(f) ==
  /\ f \in Monitors /\ pc[f] = "posted" /\ HasProcess(f)
  /\ resp[f] = "reset"
  /\ pc' = [pc EXCEPT ![f] = "stopped"]
  /\ batch' = [batch EXCEPT ![f] = {}]
  /\ cur' = [cur EXCEPT ![f] = None]
  /\ resp' = [resp EXCEPT ![f] = None]
  /\ UNCHANGED <<rowVars, relayVars, readAttempts, old, outcome, crashes>>

FlushEnds(f) ==
  /\ pc[f] = "flush" /\ HasProcess(f)
  /\ batch[f] = {}
  /\ pc' = [pc EXCEPT ![f] = CASE f \in Messages -> "send"
                               [] f \in Checks   -> "done"
                               [] f \in Monitors -> "idle"]
  /\ UNCHANGED <<rowVars, relayVars, batch, cur, resp, readAttempts, old, outcome, crashes>>

-----------------------------------------------------------------------------
(* _do_send and clade_reply after their flush                              *)

PostMessage(m) ==
  /\ pc[m] = "send" /\ HasProcess(m)
  /\ Exchange(m, m)
  /\ pc' = [pc EXCEPT ![m] = "sent"]
  /\ UNCHANGED <<rowVars, batch, cur, readAttempts, old, outcome, crashes>>

\* The call returns, or raises, with the given outcome for the sender.
Return(m, told) ==
  /\ pc[m] = "sent" /\ HasProcess(m)
  /\ outcome' = [outcome EXCEPT ![m] = told]
  /\ resp' = [resp EXCEPT ![m] = None]
  /\ pc' = [pc EXCEPT ![m] = "done"]
  /\ UNCHANGED <<relayVars, batch, cur, readAttempts, old, crashes>>

SendDelivered(m) ==
  /\ resp[m] = "ok"
  /\ Return(m, "delivered")
  /\ UNCHANGED rowVars

SendQueued(m) ==
  /\ resp[m] \in {"server", "net"}
  /\ Enqueue(m)
  /\ Return(m, "queued")

SendRefused(m) ==
  /\ resp[m] = "client"
  /\ Return(m, "error")
  /\ UNCHANGED rowVars

\* Only ConnectError and TimeoutException are caught.
SendRaises(m) ==
  /\ resp[m] = "reset"
  /\ Return(m, "raised")
  /\ UNCHANGED rowVars

-----------------------------------------------------------------------------
(* Time and crashes                                                        *)

BecomeDue(m) ==
  /\ row[m] = "pending" /\ ~due[m]
  /\ due' = [due EXCEPT ![m] = TRUE]
  /\ rounds' = [rounds EXCEPT ![m] = @ + 1]
  /\ UNCHANGED <<row, attempts, relayVars, callVars, old, outcome, crashes>>

\* Five minutes after it was stamped, the relay refuses the envelope.
GrowOld(m) ==
  /\ row[m] = "pending" /\ m \notin old
  /\ old' = old \cup {m}
  /\ UNCHANGED <<rowVars, relayVars, callVars, outcome, crashes>>

\* A process is killed: its tool calls vanish, the rows stay.  The daemon is
\* started again and with it its monitor.
Crash(p) ==
  /\ crashes < MaxCrashes
  /\ crashes' = crashes + 1
  /\ LET gone == {f \in Flushers : Process[f] = p} IN
     /\ pc' = [f \in Flushers |->
                 CASE f \in gone /\ f \in Monitors -> "idle"
                   [] f \in gone /\ f \in AtWork /\ f \in Calls -> "done"
                   [] OTHER -> pc[f]]
     /\ batch' = [f \in Flushers |-> IF f \in gone THEN {} ELSE batch[f]]
     /\ cur' = [f \in Flushers |-> IF f \in gone THEN None ELSE cur[f]]
     /\ resp' = [f \in Flushers |-> IF f \in gone THEN None ELSE resp[f]]
     /\ readAttempts' = [f \in Flushers |-> IF f \in gone THEN 0 ELSE readAttempts[f]]
  /\ UNCHANGED <<rowVars, relayVars, old, outcome>>

-----------------------------------------------------------------------------
FlushStep(f) ==
  \/ PostRow(f) \/ RowDelivered(f) \/ RowFailed(f) \/ RowUpdate(f)
  \/ MonitorDies(f) \/ FlushEnds(f)

SendStep(m) ==
  \/ PostMessage(m)
  \/ SendDelivered(m) \/ SendQueued(m) \/ SendRefused(m) \/ SendRaises(m)

Next ==
  \/ \E f \in Flushers : StartCall(f) \/ StartRound(f) \/ FlushStep(f)
  \/ \E m \in Messages : SendStep(m) \/ BecomeDue(m) \/ GrowOld(m)
  \/ \E p \in Processes : Crash(p)
  \/ RelayForgets

Spec == Init /\ [][Next]_vars

(***************************************************************************)
(* A request has a timeout, so a call that is under way goes on; a backoff *)
(* passes; the monitor wakes up every OUTBOX_CHECK_INTERVAL_S.  Nobody has *)
(* to make another tool call.                                              *)
(***************************************************************************)
FairSpec ==
  /\ Spec
  /\ \A f \in Flushers : WF_vars(FlushStep(f))
  /\ \A m \in Messages : WF_vars(SendStep(m)) /\ WF_vars(BecomeDue(m))
  /\ \A f \in Monitors : WF_vars(StartRound(f))

-----------------------------------------------------------------------------
(* Properties                                                              *)

\* Every variable stays in its range.  However many processes race between
\* SELECT and UPDATE of mark_failed (outbox.py:89-107), each can push attempts
\* over MAX_ATTEMPTS by one at most, one of them excepted: no row is retried
\* for ever.
TypeOK ==
  /\ row \in [Messages -> {"none", "pending", "delivered", "dead"}]
  /\ attempts \in [Messages -> 0 .. MaxAttempts + Cardinality(Processes) - 1]
  /\ due \in [Messages -> BOOLEAN]
  /\ rounds \in [Messages -> Nat]
  /\ old \in SUBSET Messages
  /\ spent \in SUBSET Messages
  /\ forgotten \in [Messages -> Nat]
  /\ copies \in [Messages -> Nat]
  /\ outcome \in [Messages -> {"none", "delivered", "queued", "error", "raised"}]
  /\ pc \in [Flushers -> Control]
  /\ batch \in [Flushers -> SUBSET Messages]
  /\ cur \in [Flushers -> Messages \cup {None}]
  /\ resp \in [Flushers -> Responses \cup {None}]
  /\ readAttempts \in [Flushers -> Nat]
  /\ crashes \in Nat

\* What the sender or the outbox table calls delivered, the relay has taken,
\* and it takes a message, whoever flushes it and however often it is posted,
\* once and once more at most for each time it has forgotten its nonce: never
\* twice, if it has not (agent/main.py:225-226, 498-503; relay/main.py:130-133).
DeliveredOnce ==
  \A m \in Messages :
    /\ row[m] = "delivered" \/ outcome[m] = "delivered" => copies[m] >= 1
    /\ copies[m] <= 1 + forgotten[m]

\* A queued message that has not arrived can still arrive: the relay would
\* take it at the next retry, unless it has grown too old (outbox.py:3-4).
QueuedCanArrive ==
  \A m \in Messages :
    row[m] = "pending" /\ copies[m] = 0 => m \notin spent

\* A row is given up only after MAX_ATTEMPTS backoffs have passed for it
\* (outbox.py:12-13), and attempts never runs ahead of the backoffs.
AttemptsFollowBackoff ==
  \A m \in Messages :
    /\ attempts[m] <= rounds[m] + 1
    /\ row[m] = "dead" => rounds[m] >= MaxAttempts

\* Once delivered or dead, a row stays so (outbox.py:38).
RowIsFinal ==
  [][\A m \in Messages : row[m] \in {"delivered", "dead"} => row'[m] = row[m]]_vars

\* A dead row was not delivered: clade_outbox_status tells the user whether a
\* queued message went through (agent/main.py:863-865).
DeadNotDelivered ==
  \A m \in Messages : row[m] = "dead" => copies[m] = 0

\* A send whose connection breaks is in the outbox or has arrived
\* (agent/main.py:12).
BrokenSendIsKept ==
  \A m \in Messages :
    outcome[m] = "raised" => row[m] # "none" \/ copies[m] >= 1

\* With a daemon running, every queued message is delivered or declared dead
\* without another tool call (a2a-protocol.md:362).
EveryRowResolves ==
  \A m \in Messages : row[m] = "pending" ~> row[m] \in {"delivered", "dead"}

\* Every queued message gets an outcome, and only one (outbox.py:38,
\* a2a-protocol.md:362).
RowsSettle == RowIsFinal /\ EveryRowResolves

=============================================================================
