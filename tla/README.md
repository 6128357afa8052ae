# Clade A2A: TLA+ models and proofs

Clade lets Claude Code agents on different machines talk to each other. This
directory holds TLA+ models of its message path, TLC configurations that check
them on small instances, and theorems that TLAPS proves for every instance. All
definitions are translated from the code; `PROJECT.json` maps each of them to
its lines.

```
tlc -workers 4 -config MCRelay_redis.cfg MCRelay.tla     # one run
tlapm RelayProofs.tla                                    # one proof module
```

## 1. The system

```
 MCP server (agent/main.py)  --POST /send /ask /reply-->  relay (relay/main.py)
   tool calls, SQLite outbox                                |  store: memory or Redis
 daemon (agent/daemon.py)    --GET /inbox, POST /reply-->   |  nonces, inboxes
   poll loop -> tasks -> claude --print -> reply            |  pending asks
   outbox monitor, config watcher, presence, scribe
 both of one peer share: audit.db (outbox, tasks, audit, thread_history),
                         <peer>-daemon.lock, peer.yaml
 clade_cli: setup server, add/update/remove peer, pause/resume, importers
```

| Component | State | Operations | Interaction | Hard part | What makes it correct |
|---|---|---|---|---|---|
| Relay broker `relay/main.py` | `pending_asks`, `pending_target_by_corr`, presence, audit ring | send, ask, reply, inbox, presence, health | HTTP from agents; every call awaits the store | interleaving at each await; timer against reply; restart | no message twice, none lost after a 200 but to a drain that fails, limits, no leaked slot |
| Store `relay/store.py` | nonces with expiry, one queue per agent | check_nonce, inbox_push, inbox_drain | called by the broker | several Redis round trips per operation, a drain that falls back to single pops | FIFO, cap, nonce outlives the timestamp window |
| Outbox `agent/outbox.py` | table `outbox` | enqueue, flush, mark_delivered, mark_failed, monitor | all processes of a peer share the table | two flushers on one row; lost responses; errors nobody catches | each row resolves once, as it really ended; bounded retries |
| Daemon lock | PID file | acquire, release, probe, `--restart`, remove | daemon, start script, `remove_peer_op`, `clade_inbox`, cleanup script | check-then-act on a file; PID reuse; crashes | one consumer of the inbox |
| Message processing `agent/daemon.py` | registry of asks, semaphore, tasks, claude processes | poll, ask, send, cancel, timeout, shutdown | inbox in, reply out, subprocess | a cancel or a shutdown at any stage of a task | limit, order, authorised cancels, no stray process, termination |
| MCP ask and cancel `agent/main.py` | none (a request in flight), rows of `thread_history` | clade_message, cancel | relay, the peers' daemons | timers of tool, relay and daemon; peers that ask each other; a cancel that is sent once | everybody stops waiting and working; both ends hold the same thread, and claude gets its last rows |
| Tasks `agent/main.py` | table `tasks` on both sides | delegate, update, list | carried by sends | updates that are lost, repeated or overtaken | the two rows agree; a failed task is nobody's work |
| Scribe `agent/daemon.py` | last HEAD, rounds of the day | tick, save, pause | git, claude, sentinel files | commits during a round; a daemon that ends in one | no commit passed over; daily cap; a pause holds |
| Config watcher, presence | `cfg.peers`; last heartbeat | reload; heartbeat | peer.yaml; relay | a file that changes while it is read | allowlist follows the file |
| Peer operations, setup server | peer yamls, tokens.json, setup.json | add, update, remove, reload | files shared by CLI and server | several files, no lock, crash in between; copies in the relay, the server and the daemons | both ends of a pair share a secret, and all copies of a name or role agree; the relay knows the bearers; a removed peer is gone everywhere |
| Wire signing, web sender | none | canonical bytes, HMAC | | | sign and verify agree |
| Import and init tools, UI, scripts | files | one-shot generation | | | |

`PROJECT.json` lists, under `hazards`, what is hard to test in this code, at the
line where it bites, with the properties that watch it.

## 2. Modules

| Module | Models | Code |
|---|---|---|
| `Relay` | broker with either store, clocks, restarts | `relay/main.py`, `relay/store.py` |
| `Mailbox` | what the relay promises about inboxes (abstract) | implemented by `Relay` |
| `RelayProofs` | theorems about `Relay`, and that it implements `Mailbox` | |
| `Outbox` | outbox table, senders, flushers, monitor, the relay seen from outside | `agent/outbox.py`, `agent/main.py`, `agent/daemon.py` |
| `OutboxProofs` | theorems about `Outbox` | |
| `DaemonLock` | the PID file and its users | `agent/daemon.py`, `start.sh.j2`, `peer_ops.py`, `agent/main.py` |
| `DaemonLockProofs` | theorems about `DaemonLock` | |
| `Daemon` | one life of the daemon: poll, tasks, cancels, shutdown | `agent/daemon.py` |
| `DaemonProofs` | theorems about `Daemon` | |
| `Conversation` | peers that ask each other: tools, relay, daemons, cancels, thread history put together | `agent/main.py`, `agent/daemon.py`, `relay/main.py` |
| `ConversationProofs` | theorems about `Conversation` | |
| `Tasks` | the task rows of both sides and the messages between them | `agent/main.py`, `agent/outbox.py` |
| `TasksProofs` | theorems about `Tasks` | |
| `Scribe` | scribe rounds, cap, state file, sentinels | `agent/daemon.py`, `clade_cli/pause.py` |
| `ScribeProofs` | theorems about `Scribe` | |
| `PeerOps` | the files of a setup and their copies, operation by operation and write by write | `clade_cli/peer_ops.py`, `clade_cli/setup_server.py`, `relay/main.py`, `agent/daemon.py` |
| `PeerOpsProofs` | theorems about `PeerOps` | |
| `MC...` | small instances of each | |

`Conversation` and `Tasks` compose: they contain the relay, the outbox and the
daemon as these are seen from outside, reduced to what `Relay`, `Outbox` and
`Daemon` establish (an envelope is accepted at most once, an inbox is handed out
in order, turns follow the order of arrival); `Outbox` and `Tasks` have a relay that
may forget what it has accepted, as one without Redis does when it restarts.

Every module but `Mailbox` also has definitions whose comment starts with
"Faulty:"; in the later modules their names do too. They are not part of any specification. Each is a plausible bug in
the definition below it; substituting it must break the property that
`PROJECT.json` names under `mutants`.

### Relay

A request is a coroutine; `pc` says at which await it is suspended, and
`running` is the coroutine that holds the event loop. With Redis each store call
suspends (`AwaitStore`), so `PushLlen`, `PushRpush` and `PushExpire` are separate steps and
handlers interleave there. With the in-memory store nothing suspends, and a
handler runs from `Arrive` to its answer or its wait. `AskRegister` is the
stretch from the back-pressure check to the push, which contains no await. An
ask in `wait` has a future (`fut`) and a timer (`expired`): the timer
(`AskTimeout`), the reply (`ReplyResolve`) and the resumption (`AskResume`) are
three steps, as in asyncio. Whether HMACs and bearer tokens match is data of the
request (`sender` and `from`). Time is a counter `now`; nonces carry an expiry
and envelopes a stamp, which may be up to `ClockAhead` in the future: the code takes
the absolute value of the difference. `early` remembers the requests stamped so.

A drain is a coroutine of its own for each of `Readers`. With the in-memory store it is
one step (`DrainMemory`). With Redis it is `LPOP` with a count (`DrainPop`); if that
raises, with or without having taken effect (`DrainRaises`), the loop of single
`LPOP`s starts, which returns a message (`DrainOne`), finds nothing (`DrainEmpty`) or
raises in its turn (`DrainFails`). Other drains and pushes come between any two of
these. `hand` is what the call has popped so far, `taken` what it returned, `dropped` what
was popped and never returned.

### Mailbox

Queues per agent and readers that empty them. `Put` adds a message never put
before, or one that was stamped early (`Stamp`). `Take` moves a prefix of the queue to
a reader's hand, `Give` returns the hand to the reader, `Lose` is the failure of the
reader's call, and `Crash` empties all hands. `DurableMailbox` in `Relay` states
that with Redis the broker implements it: the queue is the inbox, a message is a nonce.

### Outbox

`Messages` are the sends and replies of tool calls, each of which flushes first,
`Checks` are calls of `clade_outbox_status`, which only flush, `Monitors` the daemon's
loop. `Process` says which of them share an event loop: two coroutines of one process
alternate only at an await, processes alternate anywhere, which is why the read
and the update inside `mark_failed` are two steps. The relay is abstracted to
the nonces it has spent and the copies it handed on (`Exchange`), with the
answers 200, 400, 503 and the transport errors the code distinguishes:
`ConnectError`/`TimeoutException` (caught) and all others (not caught). A relay
without Redis that restarts has forgotten all nonces, and each of them is forgotten
when it expires (`RelayForgets`, up to `MaxForgets` times each; `forgotten` counts). A row
becomes due (`BecomeDue`) and an envelope too old (`GrowOld`) at any time.

### DaemonLock

Each system call that others can observe is a step: read of the lock, `kill -0`,
open (which truncates), write, read again, unlink. `linked` tells whether the
file a daemon has open is still in the directory. The start script's five-second
wait and the daemon's ten-second shutdown race as arbitrary interleavings. A
daemon that has the lock sets itself up (`setup`) before it polls and before it
handles SIGTERM.

### Daemon

`inbox` and `response` are the relay's destructive hand-out and the response in
transit. `PollReceives` is the loop over a batch: it creates tasks and registers asks
with no await in between. `ready` is the loop's queue of message tasks that are new or woken;
`holding`, `waiters` and `Woken` are the semaphore of Python 3.13 (the version
`pyproject.toml` requires), including its rule that a newcomer waits while a
woken task has not resumed. `Turn` is the entry into `process_message`. `st` and
`proc` follow an ask through claude's life: running, SIGTERM after a timeout or
a cancel, SIGKILL after five or three seconds. What asyncio does by callbacks at once (ending
a cancelled task, popping the registry) is part of the step that causes it.
Messages that `poll_loop` rejects and the scribe's own claude process are left out.

### Conversation

A message is an ask or a send with an optional parent, the ask whose claude
makes it. `call` is the tool call, `post` the request at the relay, `work` the
task at the daemon. A call that fails or times out goes through "giving up"
(the await of `_send_cancel`) to its error. `Turn` and `Admit` are the
semaphore: a newcomer gets a permit if nobody waits, otherwise the one that has
waited longest. `Enter` records the message and reads the last `HistoryLimit` rows of the
thread (`LastRows`; the code's limit is ten), `ClaudeEnds`
records the reply, `PostReply` posts it. When a claude ends or is terminated,
the MCP server it runs, and with it its own calls, end (`Hangup`); these send no
cancel. `known` holds what an asker had exchanged when it asked, and, from the
moment claude gets the context, what of it was missing there.

### Tasks

Rows are kept per peer as `_task_record` keeps them: inserted once, afterwards
only the status changes. `Delegate` and `Update` write the sender's row up to the first
await, `Post` is the request with each possible outcome, seen or not by the
sender, `Return` the rest of the call. `upset` collects the tasks for which
something happened that the code makes no attempt to repair: a message lost
for good, or begun while an earlier one had not arrived. `forgot` collects
those whose message a restarted in-memory relay may accept a second time.

### Scribe

A tick suspends at `git rev-parse`, `git log` and claude; commits, sentinels and
the end of the daemon come in between. Commits are numbered, so a state's
`last` stands for all commits up to it. Rounds carry ages instead of
timestamps; all ages grow together and stop at `Day`, after which they are
pruned. `state` is the daemon's memory, `file` what survives it. git log may fail, and
shows the newest `Limit` commits only: `shown` collects what the prompts have listed,
`unlisted` what git log was asked for and did not list.

### PeerOps

`proc` holds the operation a process is in the middle of: `at` is its place in the
list of steps of its kind (`Plans`, in the order of the calls in the code), `todo` the
files its loop has still to visit, `setup` and `tokens` what it has read. Each `Step`
writes one file. An operation runs in the
setup server, whose memory (`server`) it refreshes, or in `clade-add-peer`, which can only
ask a running relay to reload. `Install` copies a yaml to the agent
directory, `StartDaemon` reads it, `ArmWatcher` takes its mtime later, `Watch` reloads the
peers. Random values are the number of the operation that drew them, so two
draws are never equal.

A peer's name and its role are two facts of it. An update gives one or both
(`Updates`: new values, or those the peer began with). The name goes to the other yamls
always, the role only if it is not the one of setup.json (`Spread`), so that an update
back to the old role, after one that was cut short, does not bring the copies
back. `Kill` ends the removed peer's daemon or spares it: there may be no lock, or no
right to signal the process, and the shutdown takes its time. A spared daemon ends
later or never (`EndDaemon`), and is none of those that `NetworkConverges` speaks of.

A yaml or setup.json has an entry, or `None`, for every peer; `Named` is the set of those it
has. Two variables are history. `cut` holds what an operation that a crash, or a file that
was gone, has cut short was changing, until another operation has changed the same. `warned` says that the relay was not
reloaded and somebody knows, or is dead: the reload was refused or had no bearer to
show, as the answer of the operation says, or the operation ended before it. A relay that
loads the file, or accepts a reload, ends it.

## 3. What the runs check

`PROJECT.json` lists twelve runs. Deadlock checking is off where the supply of
requests, messages, operations or processes is bounded and the model stops when
it is used up. It is on for `Scribe`, where time always passes.

### Relay

| Run | Question | Result |
|---|---|---|
| `MCRelay_redis` | three requests (sends, asks, replies, retransmissions) and the drains of two readers interleave at every round trip, Redis may raise at each, the relay may restart | limits and bookkeeping of asks (`AsksCounted`), truthful answers (`AnswersAreTrue`), replies that reach the right ask once (`RepliesPairUp`) hold; `Mailbox` is implemented (`DurableMailbox`) |
| `MCRelay_memory` | three asks, sends and replies, malformed ones and one from a clock that is ahead; handlers run undivided; nonces expire and are purged lazily while time passes | `AtMostOnce`, `PendingIsInFlight` hold; every request ends (`EveryRequestEnds`) |

`AnswersAreTrue` says that an acknowledged message is queued, returned by a drain, or
`dropped`, and `LossHasCause` that nothing is dropped without a Redis call that raised in a
drain, or a restart: the code does lose messages there. `AtMostOnce` excepts
copies accepted before their own timestamp, which the code accepts twice
(`MCRelay_early_stamp` below).

Bounds: two agents, two correlation ids, three requests. A race needs at
most two requests in conflict plus one that observes them: an ask, its
reply, and a second reply or a retransmission. `MaxPending` and `InboxMax` are
1, so that limits are reached by the second message; pushes that pass the
length check together make an inbox long enough for a drain of two (`DrainMax`), and
two readers of one inbox let a second drain come between the pops of the first. In
`MCRelay_memory` the clock runs to 3, past the life of a nonce and the window of
its envelope. Expiry of nonces under Redis is not run separately: the theorem
`AtMostOnceHolds` covers both stores.

### Outbox

| Run | Question | Result |
|---|---|---|
| `MCOutbox_shared` | tool calls and monitor of two processes flush together; 503s, lost responses, broken connections, a crash, a relay that forgets | `DeliveredOnce` holds; `TypeOK` includes the bound on attempts, which a race could exceed |
| `MCOutbox_one_flusher` | one flusher at a time, with a crash and a relay that forgets | `AttemptsFollowBackoff`, `RowsSettle` hold |
| `MCOutbox_busy_relay` | retry after a 503 | `QueuedCanArrive` is violated: the relay has spent the nonce and refuses every retry |

`DeliveredOnce`: what is called delivered the relay has taken, and it has taken nothing more
often than once, and once more for each time it forgot the nonce (`forgotten`).

Bounds: two messages, one of them a reply, and a monitor in another
process, with a check in `MCOutbox_one_flusher`; a nonce is forgotten up to twice in
`MCOutbox_shared`, once in the other; `MaxAttempts` is 2 instead of 6, enough for a row to be retried, to
fail and to be given up. `Parallelism` limits how many are at work at once:
3 are two in one process and one in another.

### Daemon lock

| Run | Question | Result |
|---|---|---|
| `MCDaemonLock_races` | three daemons, a remover, a reader, PID reuse, a crash | after clean exits no lock is left (`NoLockLeft`) |
| `MCDaemonLock_serial` | starts one after the other, no PID reuse, no remover | `SingleDaemon` and `LockTellsTruth` hold; `--restart` ends with a running daemon (`RestartSucceeds`) |

Three daemons let one stop, one hold and one start. Daemons and PIDs are
symmetric in `MCDaemonLock_races` and `MCDaemonLock_two_starts`.

### Daemon

| Run | Question | Result |
|---|---|---|
| `MCDaemon_tasks` | two asks and a send on one permit, cancels by the asker and by another peer, a broken connection, timeouts, a shutdown | claude processes are within the limit and never without a task (`ClaudesAccounted`), cancels hit what they may and nothing else (`CancelsHit`), messages are taken up in order (`HandledInOrder`), every task and the shutdown end (`EverythingEnds`) |

With one permit every second message queues, and a woken task and a newcomer
meet at the freed permit, the case the semaphore's rule is for. Batches of up to
two let an ask and its cancel come together or apart. `EverythingEnds` says
"eventually always": what is polled is finite, so tasks are used up.

### Conversation

| Run | Question | Result |
|---|---|---|
| `MCConversation_circle` | Alice asks Bob, whose claude asks Alice, whose claude asks Bob; a send in between; a context of three rows; a fault | both ends of the thread hold the same, and claude is given it as far back as the context reaches (`ThreadsAgree`); nobody waits, and nobody works on what was given up, for ever (`WaitingEnds`) |

One permit each makes the circle a real one: the third ask waits for the permit
that the first one holds. Three asks are the shortest circle in which an asker
waits for its own peer's daemon. A fault is a failed or unanswered request, an
interrupted call, a lost poll or the end of a daemon; with two (4,814,190
states, without `WaitingEnds`) TLC finds no error either. Four messages write up to seven
rows, and a context of three (`HistoryLimit`, ten in the code) cuts rows off: what
claude is not given was lost with a daemon or has `HistoryLimit` rows after it
(`OutOfReach`).

### Tasks

| Run | Question | Result |
|---|---|---|
| `MCTasks_rows` | one task, two updates; posts are lost, refused, queued, answered late and retried; one end of a daemon, or one restart of a relay without Redis | a failed task never arrives (`FailedNeverArrives`), assigned rows are backed and not reset (`AssignedRowsStand`), both rows agree when all is quiet (`QuietAgreement`), a reported status arrives (`StatusArrives`) |

Tasks do not touch each other's rows, so one is enough; two updates are the
least that can overtake. `forgot` and `upset` name the exceptions, each of
which has a configuration below.

### Scribe

| Run | Question | Result |
|---|---|---|
| `MCScribe_rounds` | three commits, at any moment of a round; both sentinels; failing git and writes, a git log that shows two commits; two ends of the daemon; days that pass | `NothingSkipped`, `CapPerDay`, `OneRoundAfterPause` hold; a round is made for every commit (`NewsIsSeen`) |

`Cap = 2` and `Day = 2` let the cap be reached by rounds of different ages and
be lifted again. `Limit = 2` lets the third commit push the first off the list; a commit
that git log was asked for and did not list is `unlisted`, and the code does not look for it
again, so both `NothingSkipped` and `NewsIsSeen` mean "in a prompt or unlisted". Scribes share only the repository and the sentinel for all, so
one of them is enough.

### Peer operations

| Run | Question | Result |
|---|---|---|
| `MCPeerOps_crash` | the form, then up to two operations (add, update, new directories, remove, teams) on two peers and a newcomer, one at a time; a crash of the server, of clade-add-peer or of the relay between any two writes; two daemons | files agree at every instant (`FilesAgree`), a removed peer leaves nothing (`RemovedLeavesNothing`), the relay follows tokens.json (`RelayFollowsFile`), running daemons come to share secrets (`NetworkConverges`) |

Two operations let a peer be added and then changed or removed, or an addition be cut
short and repeated, with every crash in between; the theorems of section 5 hold for any
number of them. Updates give the role that the peer began with, or a new name and a new
role: the second, cut short and followed by the first, is how copies of a role come
apart. To add a peer again while its old daemon is still running takes more
operations than the run has; `NetworkConverges` would except that daemon. Daemons run for one founder and the newcomer, a pair whose
secret is made by an operation.

### Other claims that the models refute

Some comments and documents claim more than the code does. The modules state
these claims as properties too, and each of these configurations shows one
counterexample; they are not part of the twelve runs.

| Configuration | Claim refuted | Why |
|---|---|---|
| `MCRelay_redis_claims` | `InboxCapped` (relay/main.py:34) | LLEN and RPUSH are two round trips, so two pushes pass one check |
| `MCRelay_redis_claims` | `ReplyAckReachesAsker` (relay/main.py:346) | the timer fires after the reply and before the asker resumes: 200 to one, 504 to the other |
| `MCRelay_early_stamp` | `EveryReplayRefused` (a2a-protocol.md:72) | a stamp may be 300 s ahead of the relay's clock, and is then good for up to 600 s, the nonce for 300 s |
| `MCOutbox_lost_response` | `DeadNotDelivered` (agent/main.py:863) | a retry of a delivered message is refused as a replay until the row is dead |
| `MCOutbox_two_flushers` | `RowIsFinal` (agent/outbox.py:38) | `mark_failed` writes dead over delivered |
| `MCOutbox_reset` | `BrokenSendIsKept` (agent/main.py:12) | only ConnectError and TimeoutException are caught |
| `MCOutbox_monitor_dies` | `EveryRowResolves` (a2a-protocol.md:362) | the same exception ends the monitor for good |
| `MCDaemonLock_inbox_race` | `InboxNotShared` (a2a-protocol.md:166) | a daemon starts between the check and the drain |
| `MCDaemonLock_pid_reuse` | `NobodyMisled` (a2a-protocol.md:276) | a recycled PID looks like a daemon |
| `MCDaemon_stubborn` | `StubbornAreKilled` (agent/daemon.py:571) | a cancel during the wait that follows a timeout skips the SIGKILL |
| `MCDaemon_lost_send` | `SendsLogged` (agent/daemon.py:5) | a send that queues behind asks is cancelled by the shutdown |
| `MCDaemon_reset` | `StopsOnlyWhenTold` (README.md:389) | a broken connection ends `poll_loop` |
| `MCRelay_store_error` | `PendingIsInFlight` without its premise | a store that raises in an ask's push leaks the slot (relay/main.py:310) |
| `MCDaemonLock_two_starts` | `SingleDaemon` (a2a-protocol.md:275) | check and write of the lock are two steps |
| `MCTasks_overtaken` | `LastWordCounts` | an update from the outbox comes after a later one, and the upsert has no order |
| `MCTasks_dead_row` | `PendingIsKnown` | a message given up by the outbox leaves its task pending |
| `MCScribe_lost_rounds` | `HardCap` (agent/daemon.py, `scribe_loop`) | a round is counted when it ends; a daemon that ends in it repeats it |
| `MCPeerOps_served_config` | `ServedMatchesDisk` (clade_cli/setup_server.py:723) | adding a peer rewrites the other yamls, not their texts in setup.json |
| `MCPeerOps_two_operators` | `BearersMatch` for concurrent operations | both read tokens.json before either writes it |
| `MCPeerOps_late_watcher` | `EveryDaemonConverges` | a daemon reads its yaml before an edit and takes its mtime after it |
| `MCPeerOps_orphan_relay` | `RelayFollowsFile` when the form is sent twice | the first attempt's relay keeps the port, with other bearers |
| `MCPeerOps_teams` | `TeamsHotReload` (clade_cli/setup_server.py) | the watcher reloads the peers only |

More choices of constants are worth knowing, each a change to a configuration
above:

- `MCOutbox_one_flusher` with `Parallelism = 2`: concurrent flushes count
  several attempts in one backoff, and `AttemptsFollowBackoff` fails.
- `MCDaemonLock_serial` with a remover: the lock is unlinked while its daemon
  still runs, and both invariants fail.
- `MCPeerOps_crash` with `LateInstall = TRUE`: an install script run long after
  its download brings back a yaml without the later peers, and `FilesAgree` fails.
- `PeerOps` with more operations and crashes: an addition that is cut short leaves
  a yaml of a peer that is not listed, which no later removal edits. Therefore
  `RemovedLeavesNothing` is about the entries in yamls of listed peers.
- `MCConversation_circle` with `Concurrency = 2` and one fault: the three
  properties hold as well.

## 4. Fairness

- `Relay!FairSpec`: weak fairness of each handler. The event loop runs every
  coroutine that can go on, Redis answers (no store errors in that run), and
  `wait_for` has a timer. Nothing is assumed of clients or replies.
- `Outbox!FairSpec`: each flush and send goes on, because each HTTP call has a
  timeout; a row becomes due, because time passes; the monitor starts its rounds.
  No tool call need ever come.
- `DaemonLock!FairSpec`: the start script, the acquisition and the shutdown go
  on. A running daemon need not stop.
- `Daemon!FairSpec`: a task that can go on does (`claude` and the waits for its
  end have timeouts), a poll under way returns or times out, and the shutdown
  goes on. Claude need never exit and the ten-second limit need never fire.
- `Conversation!FairSpec`: a request reaches the relay or fails, the relay's timer
  fires, who gives up sends its cancel, a daemon deals with its inbox. Claude
  need neither answer nor be timed out, no permit need come free.
- `Tasks!FairSpec`: calls go on (every request has a timeout), the outbox is
  flushed until a row is delivered or dead, daemons poll and handle.
- `Scribe!FairSpec`: the loop wakes when it is not paused, a spawned claude ends
  (`CLAUDE_TIMEOUT_S`), days pass. `HeadRead` is strongly fair: git may fail any
  number of times, but not always.
- `PeerOps!FairSpec`: an operation under way goes on, a started relay loads its
  file and listens, a daemon looks at its yaml every five seconds. Nobody has to
  begin an operation, restart a process or install a file.

`NetworkConverges`, `WaitingEnds`, `RowsSettle` and `EverythingEnds` have the form `<>[]`: operations,
messages and rows are used up, so what comes to be must also stay.

## 5. What is proved

TLAPS checks the following for all values of the constants, under the named
assumptions of the modules (typed constants, finite sets).

"Premise" is what a theorem assumes beyond that. Where the property fails without
a premise on a small instance, section 3 has the configuration or the constants
that show it (store errors, concurrent flushers, concurrent starts, a remover,
recycled PIDs, overlapping operations on peers, a late
install, a form that is sent twice).

| Theorem | States | Premise |
|---|---|---|
| `RelayProofs!TypeCorrect` | `Spec => []TypeOK` | |
| `RelayProofs!AsksCountedHolds` | no peer has more than `MaxPending` pending asks, and the two dictionaries of pending asks have the same keys | |
| `RelayProofs!PendingIsInFlightHolds` | every occupied slot has a live handler | no store call raises |
| `RelayProofs!AtMostOnceHolds` | no envelope is in, or was taken from, an inbox twice, unless a copy was accepted before its own timestamp | nonces (below) |
| `RelayProofs!AnswersAreTrueHolds` | 200 and the timeout of an ask mean queued, until a drain returns the message or fails; a refusal means not stored | |
| `RelayProofs!AnswerHasReplyHolds` | an ask answered 200 has a reply answered 200 | |
| `RelayProofs!RepliesPairUpHolds` | asks and the replies that end them are paired one to one, but for early asks | nonces, fresh correlation ids |
| `RelayProofs!DurableMailboxHolds` | `Relay` implements `Mailbox` | nonces |
| `OutboxProofs!TypeCorrect` | `Spec => []TypeOK`, with the bound on attempts | |
| `OutboxProofs!DeliveredOnceHolds` | what is called delivered was taken, at most once more than it was forgotten | |
| `OutboxProofs!AttemptsFollowBackoffHolds` | a row is given up after `MaxAttempts` backoffs and not before | one flusher at a time |
| `OutboxProofs!RowIsFinalHolds` | no step changes a row that is delivered or dead | one flusher at a time |
| `DaemonLockProofs!TypeCorrect` | `Spec => []TypeOK` | |
| `DaemonLockProofs!NoLockLeftHolds` | after clean exits no lock is left | |
| `DaemonLockProofs!SingleDaemonHolds` | at most one daemon polls | serial starts, no remover |
| `DaemonLockProofs!LockTellsTruthHolds` | the lock names the daemon that polls, and nobody is turned away when none does | serial starts, no remover, no PID reuse |
| `DaemonLockProofs!NobodyMisledHolds` | a start is refused, and `clade_inbox` is busy, only on account of a daemon | no PID reuse |
| `DaemonProofs!TypeCorrect` | `Spec => []TypeOK`; permits are within the limit | |
| `DaemonProofs!ClaudesAccountedHolds` | live claude processes are within the limit and never without a task | |
| `DaemonProofs!CancelsHitHolds` | cancels hit what they may, for good, and nothing else | |
| `DaemonProofs!HandledInOrderHolds` | messages are taken up in the order of their arrival | |
| `ConversationProofs!TypeCorrect` | `Spec => []TypeOK`; claudes are within the limit | |
| `ConversationProofs!ThreadsAgreeHolds` | both ends of a thread hold the same, and claude is given it but for what was lost or is out of reach | |
| `TasksProofs!TypeCorrect` | `Spec => []TypeOK` | |
| `TasksProofs!FailedNeverArrivesHolds` | a task marked failed was never stored by the relay and is not in an outbox | |
| `TasksProofs!AssignedRowsStandHolds` | an assigned row is backed by its delegator's and is not reset | |
| `TasksProofs!QuietAgreementHolds` | both rows show one status when nothing of the task is under way | |
| `PeerOpsProofs!TypeCorrect` | `Spec => []TypeOK`; no bearer is in tokens.json twice | |
| `PeerOpsProofs!FilesAgreeHolds` | yamls, tokens.json and setup.json agree on secrets, bearers, names, roles and teams at every instant | one operation at a time, installs before the first |
| `PeerOpsProofs!RemovedLeavesNothingHolds` | nothing remains of a peer that is not listed | one operation at a time, installs before the first |
| `PeerOpsProofs!RelayFollowsFileHolds` | the relay lets in the bearers of tokens.json, and knows the one it is shown | one operation at a time, the form is sent once |
| `ScribeProofs!TypeCorrect` | `Spec => []TypeOK` | |
| `ScribeProofs!CapPerDayHolds` | at most `Cap` spawns in a day, but for lost rounds | |
| `ScribeProofs!OneRoundAfterPauseHolds` | at most one round is spawned while a pause holds | |
| `ScribeProofs!NothingSkippedHolds` | every commit up to the saved HEAD was shown in some round, or git log did not list it for one | |

Every invariant that a run checks is proved.

### Relay

`TypeOK` is not inductive: that a stored value is typed depends on the envelope
a request in flight carries, so `Typed` adds `Carries` (a request past its first
checks has an envelope of the traffic, an ask or a reply has a correlation id).
`AsksCounted` joins two theorems. Its bound follows because counting and registering are one step of the
loop; the proof is about cardinalities of the pending set when one element is
added. `PendingIsInFlight` fails without `~StoreFails`; TLC shows the
counterexample in `MCRelay_store_error`, so the premise is needed.

`AtMostOnce` is the deep one. Its inductive invariant `PassedOnce` says that of
the requests behind the nonce check no two share a nonce, that the nonce of each
is remembered until its timestamp is too old, and that a request at the check was
timely when the clock last moved. All this excepts the requests of `early`: a copy
accepted before its own timestamp is forgotten while the timestamp is still
good. What is left needs only `TSSkew <= NonceTTL` (`WindowAssumption`; the code has 300 s
for both) and two premises: one nonce has one timestamp (`OneStampPerNonce`), and the
store survives restarts or there are none (`NoncesSurvive`).

`AnswersAreTrue` is an invariant of answers already given. `Truthful` adds what
it needs of the handlers that are still on the way: which status a request can
have at which await, and that one past the push is in an inbox, in the hand of a
drain, returned, dropped, or died with the memory of the relay. `DrainMoves` says in one
lemma of all seven steps of a drain what they do to queues, hands and losses, and that
the queue of a reader's owner is only popped from its front.

`RepliesPairUp` joins `AnswerHasReply`, proved from `Paired` (a slot names an
ask with its correlation id; a future resolved with a reply has one that was
answered 200), and `OneReplyPerAsk`. The latter needs that once an ask has been
answered, no second handler of it comes to register: `AnsweredOnce` says that
every envelope of that ask is `Spent` (too old, or its nonce is remembered until
it will be), so that a retransmission is refused; an ask that was accepted early is
excepted (`EarlyAsk`). The premise `OneAskPerCorr`
says that asks with one correlation id are one envelope, which the code
provides by drawing a uuid4 for each ask.

`DurableMailboxHolds` is the refinement. The mapping takes the inboxes, which
hold requests, to queues of nonces, so the lemmas about `Image` say how it
commutes with appending and with taking a prefix. `StepRefines` has one case
per action: the push is a `Put`, and `PassedOnce` shows that the nonce is new or
early, which is where a retransmission could break it; a pop is a `Take`, an answer a
`Give`, an LPOP that raises a `Lose`; everything else stutters.

### Outbox

`DeliveredOnce` looks at what has been written down. `CopiesCounted` adds that
whoever holds the answer 200 in hand has it from a relay that took the message,
and that a message whose nonce is not spent has been taken no more often than forgotten. `Typed`,
`Placed`, `RowsAfterCalls` and `OneUpdate` (no two coroutines of a process are
inside `mark_failed`) make up `Shape`, used by all three.

That `attempts` is bounded is the part of `TypeOK` that could be wrong:
processes race on read and update. `Bounded` counts those that read a value below `MaxAttempts` and
have not written yet (`Raising`): once the limit is reached nobody joins them,
and there is at most one per process.

With one flusher at a time, `BatchStands` (what was read of a row of the batch still
holds) and `BackoffsLead` give the other two theorems.

### Daemon lock

`NoLockLeft` speaks only of states without daemons, and is decided before them:
`Removable` says that, unless a daemon crashed, the lock has somebody who will
remove it or hand it on. It needs none of the premises of the other theorems.
For `SingleDaemon`, `Serial` says that a daemon that starts while another is up
has seen the other's PID if it has looked, has not got past the check, and that
the lock is a daemon's from its write to its unlink. `NobodyMisled` is about
PIDs: none in the lock, or read from it, is ever another process's (`Fresh`).
That daemons, removers and tools are different processes is an assumption of
`DaemonLock` (`ActorsAssumption`).

### Daemon

`Queues` is inductive and says in which queue a task is, and whether it has a
permit, from the state of its coroutine (`Placed`), that nothing is in a queue
twice (`Once`, `Arriving`), that the registry holds the unfinished asks
(`Registered`) and that the ready queue, the permits handed over and the line of
waiters let tasks in by the order of their arrival (`Fifo`, over `Ahead`). `Ahead` is where Python 3.13's
rule about woken waiters enters: a newcomer is behind the woken and the waiting.
From it follow the limit (`Computing`), the order of handling, and, with `Owned`
(also a task that is about to be cancelled was cancelled by its asker), the two
halves of `CancelsHit`.

`Without` removes the ended tasks from a queue, any number of them at once. It is a
recursive function inside a `LET`, and what it keeps is proved by a least
counterexample (`LeastNatural`, from the library's theorem that the order of the
naturals is well-founded), because the library's induction rules cannot be used.

### Conversation

`ThreadsMirror` is inductive with `Mirrored`: what either end records, the other
has recorded before it could arrive. `ContextIsShared` is an argument about
order, across relay and daemon: what an asker knew when it asked is recorded
where the ask goes, or lost, or *ahead* of the ask in the inbox or in the line
before the semaphore (`Informed`, `Ahead`). Every step that reorders anything
(the poll, a cancel that takes a task out of the line, an admission) must keep
the sends ahead of the ask ahead of it. What the context leaves out has
`HistoryLimit` rows after it (`OutOfReach`), and keeps them, since rows are only
appended (`ReachStays`). `Placed` provides that a message is in one of
these places, and once.

### Tasks

`FailedNeverArrives` rests on `Causes`. A task message whose call has no answer
yet, or was refused, is all there is of its task: nothing of it is stored or in an
outbox, and no other call is about it (`Alone`). Whatever a daemon or an inbox
holds was stored before, a message has a row that it began with, and a task is
assigned only by a stored message; so no update can exist before its task has
arrived, and once the row is failed no call is left. The theorem holds
for any number of peers, tasks and updates, also for a relay that forgets.

`AssignedRowsStand` adds three parts. `Mirrored`: each message under way has the
row it was made from, and goes to the peer that row names. `Numbered`: the messages of a task
have different numbers, and the highest goes with what the assignee set last.
`Owned`: a task's message is handled before the assignee has a row and, unless
forgotten, never again. `QuietAgreement` adds `Agreeing`, for tasks that are not
`upset`: every report is stored or will be (`Complete`), those stored wait in
the order of their numbers (`InOrder`), and a delegator that has none waiting
shows the latest (`UpToDate`).

### PeerOps

The theorems hold for any finite sets of founders and newcomers, any set of processes that
run `clade-add-peer`, any number of operations and of crashes; the premises are the
constants `OneAtATime`, `~LateInstall` and `~Resubmit`. The first parts of the module are
about sequences as sets (`Only`, `ExistingYamls`), the places of the plans
(`StepPlaces`) and, one lemma `Does...` for each step, what the step does to the operation
and to the files.

`TypeOK` says that no bearer is in tokens.json twice, which is not inductive: two
additions may append one each. `Numbered` adds that operations have different
numbers, and that an addition that has not written tokens.json is the only one to
have its number. This needs no premise: operations may overlap in any way.

`FilesAgree` and `RemovedLeavesNothing` follow from `FilesInv`. Its core, `Story`, tells what
three files (setup.json `s`, the bearers `T`, the yamls `y`) have in common,
given which peers are being added (`A`) or removed (`R`), which facts of which peers are being
spread (`U`), and whether the teams are being set (`t`), now or by an attempt that was cut short:

- `Secrets`: two yamls of listed peers that know each other hold one secret, also
  while one of the peers is being removed; `Knows`: a listed peer's yaml knows every
  other listed peer that is not being removed;
- `BearersIn`, `AboutAll`, `Teams`: the bearers, the names and roles, the teams;
- `Forgets`: what is left of a peer that is not listed nor being added or removed.

`EditedInto` states what an operation makes of another peer's yaml. `Story` survives each single write (`StoryEditAdd`, `StoryList`, `StoryUnlist`, ...), and
it is weaker the more is open (`StoryWeaker`): a crash only moves an operation
from `proc` to `cut`. What is done again draws new secrets; that it ends well
is in `Part`, which says how far the operation has come: that setup.json is still as it
was read (`Snapshot`), that a yaml of its loop has been edited or is still in `todo`
(`AddPart`, `RemovePart`, `UpdatePart`, `TeamsPart`), and what it is about to write
(`NewText`). `SubmitPart` is the same for the form. `FormPart` says why an early
install is harmless: before the first operation setup.json, the server's memory and the
yamls in the project directory have the same texts.

`RelayFollowsFile` follows from `RelayInv`. `Follows`: unless `warned`, a relay that has
read tokens.json holds what is in it, or an operation that is going to reload it is between
its write and the reload. `RelayPart`: such an operation has the bearers of
the file (`tokens`), the relay knows all of them but the operation's own, and that one is
first only when it is alone. So the first one, which is shown, is known whenever an
older one is left.

### Scribe

`OneRoundAfterPause` is not inductive: a tick that has passed the sentinels may
still spawn. `PauseInv` adds that such a tick has no other spawn before it since
the pause began, and that nothing is counted while no pause holds.

`NothingSkipped` needs `ShownInv`: while claude runs, everything up to the HEAD
its tick has read has been in a prompt, or was lost to one by git log (`Covered`), so that
the end of the round may enter that HEAD; `Shape` is as much of the types as this
takes. That HEAD is read before git log runs, so what git log is asked for begins where
the saved state ends and reaches at least up to it (`NewsCovers`).

`CapPerDay` compares two sequences of ages, the rounds really spawned and the
rounds entered in the state, of which only those younger than a day are kept. The
invariant `Capped` compares how many of each are younger than *every* age up to
a day: for the age of a day alone it does not survive the passing of time. What
memory and file may lack is one for the round under way and one for each that was lost.

## 6. Only model-checked

- Liveness: `EveryRequestEnds`, `RowsSettle`, `RestartSucceeds`, `EverythingEnds`,
  `WaitingEnds`, `StatusArrives`, `NewsIsSeen`, `NetworkConverges`. Fairness needs
  `ENABLED`, which the prover does not support.

## 7. Not modelled

- Contents: prompts, payloads, HMAC bytes (`agent/wire.py`), log texts, audit
  rows, deadlines and results of tasks. A signature is valid or not.
- Relay: presence, health, the audit ring, the 24 h expiry of a Redis inbox, the
  choice of the store.
- Daemon: presence heartbeat, workdir and log rotation, messages whose signature
  does not verify, a state file of the scribe that cannot be parsed.
- Conversation: the choice of
  targets of `clade_message`; two threads at once (their rows are apart).
- Tasks: "failed" as a status an assignee reports itself, the names of statuses that behave
  alike.
- Peer operations: the parsing of imported files, downloads and pages, the chat; the reload of a
  relay that has read tokens.json but does not listen yet.
- One-shot tools (`init.py`, `aitf_import.py`), web sender, UI, shell scripts
  other than the start script: no state that outlives a call, or plain I/O.

## 8. Plan

All modules of the plan are written, and every invariant that a run checks is proved.
What remains is left to TLC for the reason that section 6 gives.
