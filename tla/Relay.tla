------------------------------- MODULE Relay -------------------------------
(***************************************************************************)
(* The message broker of relay/main.py on top of a store of                *)
(* relay/store.py.  Every HTTP request is one coroutine of a single        *)
(* asyncio event loop; the model's steps are the stretches of a coroutine  *)
(* between two suspensions.  With the in-memory store no await of the      *)
(* store suspends, so a handler runs from its first line to the end (or to *)
(* the wait for a reply) without another coroutine in between; with Redis  *)
(* every store call suspends and the handlers interleave.                  *)
(*                                                                         *)
(* One clock unit is long against one store round trip and short against   *)
(* NONCE_TTL_S.  The 24 h TTL of a Redis inbox and the audit ring buffer   *)
(* are beyond the horizon of this module.                                  *)
(*                                                                         *)
(* A definition whose comment starts with "Faulty:" is not part of Next.   *)
(* It is a plausible bug in the definition below it, kept to show that the *)
(* properties notice the difference.                                       *)
(***************************************************************************)
EXTENDS Integers, Sequences, FiniteSets, Functions

CONSTANTS
  Agents,         \* peers with a bearer token
  Corrs,          \* correlation ids
  Nonces,         \* envelope nonces
  Requests,       \* HTTP requests that reach the relay, one coroutine each
  Traffic,        \* what clients may post, see TrafficAssumption
  None,           \* absent value (Python's None)
  Backend,        \* "memory" (InMemoryStore) or "redis" (RedisStore)
  MaxPending,     \* MAX_PENDING_PER_PEER
  InboxMax,       \* INBOX_MAX
  Readers,        \* clients that poll an inbox, one GET /inbox at a time each
  Owner,          \* the agent whose bearer each reader holds
  DrainMax,       \* max_items of GET /inbox
  NonceTTL,       \* NONCE_TTL_S, in clock units
  TSSkew,         \* TS_SKEW_MS, in clock units
  NonceCacheMax,  \* entries after which InMemoryStore purges expired nonces
  ClockAhead,     \* by how much a sender's clock may run ahead of the relay's
  StoreFails,     \* whether a Redis call may raise
  MaxNow,         \* bound on the relay's clock
  MaxRestarts     \* bound on relay restarts

Endpoints == {"send", "ask", "reply"}

(***************************************************************************)
(* A posted envelope.  sender is the agent the bearer token maps to, from  *)
(* is the from_agent the envelope claims, ts its timestamp_ms.             *)
(***************************************************************************)
Envelopes ==
  [endpoint : Endpoints, sender : Agents, from : Agents, to : Agents,
   corr : Corrs \cup {None}, nonce : Nonces, ts : Nat]

ASSUME TrafficAssumption == Traffic \subseteq Envelopes

ASSUME NoneAssumption ==
  /\ None \notin Agents /\ None \notin Corrs
  /\ None \notin Requests /\ None \notin Envelopes

ASSUME OwnerAssumption == Owner \in [Readers -> Agents]

ASSUME FiniteAssumption == IsFiniteSet(Corrs)

ASSUME ParameterAssumption ==
  /\ Backend \in {"memory", "redis"}
  /\ StoreFails \in BOOLEAN
  /\ MaxPending \in Nat /\ InboxMax \in Nat /\ DrainMax \in Nat \ {0}
  /\ NonceTTL \in Nat \ {0} /\ TSSkew \in Nat /\ ClockAhead \in Nat
  /\ NonceCacheMax \in Nat /\ MaxNow \in Nat /\ MaxRestarts \in Nat

\* A nonce is remembered for as long as a timestamp may be old (main.py:32-33
\* has 300 s for both).
ASSUME WindowAssumption == TSSkew <= NonceTTL

VARIABLES
  now,            \* time.time() of the relay
  nonces,         \* store: expiry of each remembered nonce, 0 when unknown
  inbox,          \* store: the queue of each agent, as the requests pushed
  pendingAsks,    \* pending_asks: the request whose future a corr names
  pendingTarget,  \* pending_target_by_corr
  fut,            \* state of each ask's asyncio.Future
  expired,        \* asks whose wait_for timer has fired
  pc,             \* where each request's coroutine is suspended
  env,            \* the envelope each request carries
  status,         \* the HTTP outcome of each request
  running,        \* the coroutine that holds the event loop, or None
  drain,          \* how far the GET /inbox of each reader is
  hand,           \* items: what that call has popped and not returned yet
  taken,          \* history: what GET /inbox returned to each reader, in order
  dropped,        \* history: what a drain popped and never returned
  lost,           \* history: pushes that a restart of the memory store forgot
  early,          \* history: requests stamped ahead of the relay's clock
  restarts

storeVars == <<nonces, inbox, taken, lost>>
askVars   == <<pendingAsks, pendingTarget, fut, expired>>
reqVars   == <<pc, env, status>>
drainVars == <<drain, hand, dropped>>
\* What no handler of a posted envelope touches after its first checks.
envVars   == <<now, restarts, early, drainVars>>
vars == <<storeVars, askVars, reqVars, envVars, running>>

Control == {"idle", "nonce", "push", "rpush", "expire", "wait", "done"}

(***************************************************************************)
(* ok 200, rejected 400, notFound 404, conflict 409, error 500, busy 503,  *)
(* timeout 504; dropped when the relay died before it answered.            *)
(***************************************************************************)
Statuses == {"none", "ok", "rejected", "notFound", "conflict", "error",
             "busy", "timeout", "dropped"}

\* Of a drain: nothing asked, in the loop of single LPOPs, about to return.
DrainStages == {"idle", "loop", "answer"}

InFlight(r) == pc[r] \notin {"idle", "done"}

Init ==
  /\ now = 0
  /\ nonces = [n \in Nonces |-> 0]
  /\ inbox = [a \in Agents |-> <<>>]
  /\ pendingAsks = [c \in Corrs |-> None]
  /\ pendingTarget = [c \in Corrs |-> None]
  /\ fut = [r \in Requests |-> "none"]
  /\ expired = {}
  /\ pc = [r \in Requests |-> "idle"]
  /\ env = [r \in Requests |-> None]
  /\ status = [r \in Requests |-> "none"]
  /\ running = None
  /\ drain = [d \in Readers |-> "idle"]
  /\ hand = [d \in Readers |-> <<>>]
  /\ taken = [d \in Readers |-> <<>>]
  /\ dropped = {}
  /\ lost = {}
  /\ early = {}
  /\ restarts = 0

-----------------------------------------------------------------------------
(* The event loop and the end of a handler.                                *)

HasLoop(r) == running \in {None, r}

\* The coroutine r awaits a store call next: only Redis suspends it there.
AwaitStore(r, at) ==
  /\ pc' = [pc EXCEPT ![r] = at]
  /\ running' = IF Backend = "memory" THEN r ELSE None
  /\ UNCHANGED status

\* The coroutine r suspends on its future.
AwaitReply(r) ==
  /\ pc' = [pc EXCEPT ![r] = "wait"]
  /\ running' = None
  /\ UNCHANGED status

\* The handler returns or raises: the client gets outcome s.
Answer(r, s) ==
  /\ pc' = [pc EXCEPT ![r] = "done"]
  /\ status' = [status EXCEPT ![r] = s]
  /\ running' = None

\* pending_asks.pop(corr, None); pending_target_by_corr.pop(corr, None)
PopPending(c) ==
  /\ pendingAsks' = [pendingAsks EXCEPT ![c] = None]
  /\ pendingTarget' = [pendingTarget EXCEPT ![c] = None]

-----------------------------------------------------------------------------
(* validate_envelope and the nonce cache                                   *)

Timely(e) == now - e.ts \in (-TSSkew)..TSSkew

\* The checks a handler makes before its first await.
Wellformed(e) ==
  /\ e.endpoint \in {"ask", "reply"} => e.corr # None
  /\ e.from = e.sender
  /\ Timely(e)

\* Faulty: a nonce is dropped in the very second it expires.
PurgedEarly ==
  IF Backend = "memory"
     /\ Cardinality({n \in Nonces : nonces[n] # 0}) > NonceCacheMax
  THEN [n \in Nonces |-> IF nonces[n] <= now THEN 0 ELSE nonces[n]]
  ELSE nonces

\* InMemoryStore drops expired nonces only when the cache is over its limit.
Purged ==
  IF Backend = "memory"
     /\ Cardinality({n \in Nonces : nonces[n] # 0}) > NonceCacheMax
  THEN [n \in Nonces |-> IF nonces[n] < now THEN 0 ELSE nonces[n]]
  ELSE nonces

\* A Redis key is gone when its TTL has passed; a dict entry is not.
Known(n) ==
  /\ Purged[n] # 0
  /\ Backend = "redis" => now <= nonces[n]

\* Faulty: the expiry lies before the nonce was seen.
RememberedPast(n) == [Purged EXCEPT ![n] = now - NonceTTL]

Remembered(n) == [Purged EXCEPT ![n] = now + NonceTTL]

\* Traffic as a client sends it: stamped no later than its own clock.
Arrival(r, e) ==
  /\ pc[r] = "idle"
  /\ running = None
  /\ e.ts <= now + ClockAhead
  /\ env' = [env EXCEPT ![r] = e]

ArriveMalformed(r, e) ==
  /\ Arrival(r, e)
  /\ ~Wellformed(e)
  /\ Answer(r, "rejected")
  /\ UNCHANGED <<storeVars, askVars, envVars>>

Arrive(r, e) ==
  /\ Arrival(r, e)
  /\ Wellformed(e)
  /\ AwaitStore(r, "nonce")
  /\ early' = IF e.ts > now THEN early \cup {r} ELSE early
  /\ UNCHANGED <<storeVars, askVars, now, restarts, drainVars>>

\* check_nonce says the nonce was seen: 400 Replay detected.
RejectReplay(r) ==
  /\ pc[r] = "nonce" /\ HasLoop(r)
  /\ Known(env[r].nonce)
  /\ nonces' = Purged
  /\ Answer(r, "rejected")
  /\ UNCHANGED <<inbox, taken, lost, env, askVars, envVars>>

\* check_nonce records a new nonce and the handler goes on in the same step.
PassNonce(r, endpoint) ==
  /\ pc[r] = "nonce" /\ HasLoop(r)
  /\ env[r].endpoint = endpoint
  /\ ~Known(env[r].nonce)
  /\ nonces' = Remembered(env[r].nonce)
  /\ UNCHANGED <<inbox, taken, lost, env, envVars>>

-----------------------------------------------------------------------------
(* POST /send                                                              *)

SendValidated(r) ==
  /\ PassNonce(r, "send")
  /\ AwaitStore(r, "push")
  /\ UNCHANGED askVars

-----------------------------------------------------------------------------
(* POST /ask                                                               *)

PendingFor(a) == {c \in Corrs : pendingTarget[c] = a}

\* 503 + Retry-After; the nonce is already spent.
AskBackPressure(r) ==
  /\ PassNonce(r, "ask")
  /\ Cardinality(PendingFor(env[r].to)) >= MaxPending
  /\ Answer(r, "busy")
  /\ UNCHANGED askVars

\* Faulty: the limit is compared with <=.
AskRegisterOverLimit(r) ==
  /\ PassNonce(r, "ask")
  /\ Cardinality(PendingFor(env[r].to)) <= MaxPending
  /\ pendingAsks' = [pendingAsks EXCEPT ![env[r].corr] = r]
  /\ pendingTarget' = [pendingTarget EXCEPT ![env[r].corr] = env[r].to]
  /\ fut' = [fut EXCEPT ![r] = "pending"]
  /\ AwaitStore(r, "push")
  /\ UNCHANGED expired

AskRegister(r) ==
  /\ PassNonce(r, "ask")
  /\ Cardinality(PendingFor(env[r].to)) < MaxPending
  /\ pendingAsks' = [pendingAsks EXCEPT ![env[r].corr] = r]
  /\ pendingTarget' = [pendingTarget EXCEPT ![env[r].corr] = env[r].to]
  /\ fut' = [fut EXCEPT ![r] = "pending"]
  /\ AwaitStore(r, "push")
  /\ UNCHANGED expired

\* wait_for's timer fires: it cancels the task, which cancels a pending
\* future; with the future already resolved the task is cancelled anyway.
AskTimeout(r) ==
  /\ pc[r] = "wait" /\ running = None
  /\ r \notin expired
  /\ expired' = expired \cup {r}
  /\ fut' = [fut EXCEPT ![r] = IF @ = "pending" THEN "cancelled" ELSE @]
  /\ UNCHANGED <<storeVars, reqVars, envVars, running, pendingAsks, pendingTarget>>

\* Faulty: the cancellation is swallowed and the handler waits on.
AskResumeOnReply(r) ==
  /\ pc[r] = "wait" /\ running = None
  /\ fut[r] = "replied"
  /\ PopPending(env[r].corr)
  /\ Answer(r, "ok")
  /\ UNCHANGED <<storeVars, envVars, env, fut, expired>>

\* The handler resumes: 200, or 504 when the timer cancelled the task, and
\* the finally clause removes the entry of its correlation id.
AskResume(r) ==
  /\ pc[r] = "wait" /\ running = None
  /\ fut[r] # "pending"
  /\ PopPending(env[r].corr)
  /\ Answer(r, IF r \in expired THEN "timeout" ELSE "ok")
  /\ UNCHANGED <<storeVars, envVars, env, fut, expired>>

-----------------------------------------------------------------------------
(* Store.inbox_push for /send and /ask                                     *)

Full(a) == Len(inbox[a]) >= InboxMax

Appended(r) == [inbox EXCEPT ![env[r].to] = Append(@, r)]

\* Faulty: a refused ask keeps its slot.
PushRefusedLeaks(r) ==
  /\ pc[r] = "push" /\ HasLoop(r)
  /\ Full(env[r].to)
  /\ Answer(r, "busy")
  /\ UNCHANGED <<storeVars, envVars, env, askVars>>

\* The inbox is full: 503, and an ask gives its slot back.
PushRefused(r) ==
  /\ pc[r] = "push" /\ HasLoop(r)
  /\ Full(env[r].to)
  /\ IF env[r].endpoint = "ask" THEN PopPending(env[r].corr)
                                ELSE UNCHANGED <<pendingAsks, pendingTarget>>
  /\ Answer(r, "busy")
  /\ UNCHANGED <<storeVars, envVars, env, fut, expired>>

\* What follows a successful push.  A reply that came in during the push has
\* resolved the future: wait_for then returns without suspending.
Pushed(r) ==
  \/ /\ env[r].endpoint = "send"
     /\ Answer(r, "ok")
     /\ UNCHANGED <<pendingAsks, pendingTarget>>
  \/ /\ env[r].endpoint = "ask" /\ fut[r] = "pending"
     /\ AwaitReply(r)
     /\ UNCHANGED <<pendingAsks, pendingTarget>>
  \/ /\ env[r].endpoint = "ask" /\ fut[r] = "replied"
     /\ PopPending(env[r].corr)
     /\ Answer(r, "ok")

\* InMemoryStore.inbox_push: length check and append in one step.
PushMemory(r) ==
  /\ pc[r] = "push" /\ HasLoop(r) /\ Backend = "memory"
  /\ ~Full(env[r].to)
  /\ inbox' = Appended(r)
  /\ Pushed(r)
  /\ UNCHANGED <<nonces, taken, lost, env, fut, expired, envVars>>

\* RedisStore.inbox_push: LLEN, RPUSH and EXPIRE are three round trips.
PushLlen(r) ==
  /\ pc[r] = "push" /\ HasLoop(r) /\ Backend = "redis"
  /\ ~Full(env[r].to)
  /\ AwaitStore(r, "rpush")
  /\ UNCHANGED <<storeVars, askVars, envVars, env>>

PushRpush(r) ==
  /\ pc[r] = "rpush" /\ HasLoop(r)
  /\ inbox' = Appended(r)
  /\ AwaitStore(r, "expire")
  /\ UNCHANGED <<nonces, taken, lost, env, askVars, envVars>>

PushExpire(r) ==
  /\ pc[r] = "expire" /\ HasLoop(r)
  /\ Pushed(r)
  /\ UNCHANGED <<storeVars, envVars, env, fut, expired>>

\* A Redis call raises: 500.  The command may have taken effect.  Nothing
\* on this path removes the entry of a registered ask.
StoreError(r) ==
  /\ StoreFails /\ Backend = "redis"
  /\ \/ /\ pc[r] = "nonce"
        /\ \/ UNCHANGED nonces
           \/ ~Known(env[r].nonce) /\ nonces' = Remembered(env[r].nonce)
        /\ UNCHANGED inbox
     \/ /\ pc[r] = "rpush"
        /\ inbox' \in {inbox, Appended(r)}
        /\ UNCHANGED nonces
     \/ /\ pc[r] \in {"push", "expire"}
        /\ UNCHANGED <<nonces, inbox>>
  /\ Answer(r, "error")
  /\ UNCHANGED <<taken, lost, env, askVars, envVars>>

-----------------------------------------------------------------------------
(* POST /reply                                                             *)

Asker(r) == pendingAsks[env[r].corr]

ReplyUnknown(r) ==
  /\ PassNonce(r, "reply")
  /\ Asker(r) = None
  /\ Answer(r, "notFound")
  /\ UNCHANGED askVars

ReplyLate(r) ==
  /\ PassNonce(r, "reply")
  /\ Asker(r) # None /\ fut[Asker(r)] # "pending"
  /\ Answer(r, "conflict")
  /\ UNCHANGED askVars

\* Faulty: a second reply is acknowledged as if it had been delivered.
ReplyResolveTwice(r) ==
  /\ PassNonce(r, "reply")
  /\ Asker(r) # None
  /\ fut' = [fut EXCEPT ![Asker(r)] = "replied"]
  /\ Answer(r, "ok")
  /\ UNCHANGED <<pendingAsks, pendingTarget, expired>>

ReplyResolve(r) ==
  /\ PassNonce(r, "reply")
  /\ Asker(r) # None /\ fut[Asker(r)] = "pending"
  /\ fut' = [fut EXCEPT ![Asker(r)] = "replied"]
  /\ Answer(r, "ok")
  /\ UNCHANGED <<pendingAsks, pendingTarget, expired>>

-----------------------------------------------------------------------------
(* GET /inbox: Store.inbox_drain                                           *)

\* What LPOP with a count of n pops from the list of a, and what it leaves.
Reach(a, n) == IF Len(inbox[a]) <= n THEN Len(inbox[a]) ELSE n
Oldest(a, n) == SubSeq(inbox[a], 1, Reach(a, n))
Popped(a, n) ==
  [inbox EXCEPT ![a] = SubSeq(@, Reach(a, n) + 1, Len(@))]

Reads(d, stage) ==
  /\ running = None
  /\ drain[d] = stage
  /\ UNCHANGED <<nonces, lost, early, askVars, reqVars, now, restarts, running>>

\* InMemoryStore.inbox_drain: slice, del and the answer in one step.
DrainMemory(d) ==
  /\ Backend = "memory" /\ Reads(d, "idle")
  /\ inbox[Owner[d]] # <<>>
  /\ taken' = [taken EXCEPT ![d] = @ \o Oldest(Owner[d], DrainMax)]
  /\ inbox' = Popped(Owner[d], DrainMax)
  /\ UNCHANGED drainVars

\* RedisStore.inbox_drain: LPOP key max_items returns a list.
DrainPop(d) ==
  /\ Backend = "redis" /\ Reads(d, "idle")
  /\ inbox[Owner[d]] # <<>>
  /\ hand' = [hand EXCEPT ![d] = @ \o Oldest(Owner[d], DrainMax)]
  /\ inbox' = Popped(Owner[d], DrainMax)
  /\ drain' = [drain EXCEPT ![d] = "answer"]
  /\ UNCHANGED <<taken, dropped>>

\* That LPOP raises, perhaps after it has taken effect: what it popped is
\* gone, and the loop of single LPOPs starts.
DrainRaises(d) ==
  /\ StoreFails /\ Backend = "redis" /\ Reads(d, "idle")
  /\ \/ UNCHANGED <<inbox, dropped>>
     \/ /\ inbox' = Popped(Owner[d], DrainMax)
        /\ dropped' = dropped \cup Range(Oldest(Owner[d], DrainMax))
  /\ drain' = [drain EXCEPT ![d] = "loop"]
  /\ UNCHANGED <<hand, taken>>

\* Faulty: the loop pops from the end the messages are pushed to.
DrainOneNewest(d) ==
  /\ Reads(d, "loop")
  /\ inbox[Owner[d]] # <<>>
  /\ LET queue == inbox[Owner[d]] IN
     /\ hand' = [hand EXCEPT ![d] = Append(@, queue[Len(queue)])]
     /\ inbox' = [inbox EXCEPT ![Owner[d]] = SubSeq(queue, 1, Len(queue) - 1)]
  /\ drain' = [drain EXCEPT ![d] =
                 IF Len(hand[d]) + 1 < DrainMax THEN "loop" ELSE "answer"]
  /\ UNCHANGED <<taken, dropped>>

\* One LPOP of the loop returns a message.
DrainOne(d) ==
  /\ Reads(d, "loop")
  /\ inbox[Owner[d]] # <<>>
  /\ hand' = [hand EXCEPT ![d] = @ \o Oldest(Owner[d], 1)]
  /\ inbox' = Popped(Owner[d], 1)
  /\ drain' = [drain EXCEPT ![d] =
                 IF Len(hand[d]) + 1 < DrainMax THEN "loop" ELSE "answer"]
  /\ UNCHANGED <<taken, dropped>>

\* Faulty: an empty list ends the loop with return [].
DrainEmptyReturns(d) ==
  /\ Reads(d, "loop")
  /\ inbox[Owner[d]] = <<>>
  /\ hand' = [hand EXCEPT ![d] = <<>>]
  /\ drain' = [drain EXCEPT ![d] = "idle"]
  /\ UNCHANGED <<inbox, taken, dropped>>

\* One LPOP of the loop returns None: break.
DrainEmpty(d) ==
  /\ Reads(d, "loop")
  /\ inbox[Owner[d]] = <<>>
  /\ drain' = [drain EXCEPT ![d] = "answer"]
  /\ UNCHANGED <<inbox, taken, hand, dropped>>

\* One LPOP of the loop raises, perhaps after it has taken effect: 500, and
\* what the loop has popped is gone.
DrainFails(d) ==
  /\ StoreFails /\ Reads(d, "loop")
  /\ \/ /\ UNCHANGED inbox
        /\ dropped' = dropped \cup Range(hand[d])
     \/ /\ inbox' = Popped(Owner[d], 1)
        /\ dropped' = dropped \cup Range(hand[d]) \cup Range(Oldest(Owner[d], 1))
  /\ hand' = [hand EXCEPT ![d] = <<>>]
  /\ drain' = [drain EXCEPT ![d] = "idle"]
  /\ UNCHANGED taken

\* The handler resumes and returns the messages.
DrainAnswer(d) ==
  /\ Reads(d, "answer")
  /\ taken' = [taken EXCEPT ![d] = @ \o hand[d]]
  /\ hand' = [hand EXCEPT ![d] = <<>>]
  /\ drain' = [drain EXCEPT ![d] = "idle"]
  /\ UNCHANGED <<inbox, dropped>>

DrainStep(d) ==
  \/ DrainMemory(d)
  \/ DrainPop(d) \/ DrainRaises(d)
  \/ DrainOne(d) \/ DrainEmpty(d) \/ DrainFails(d)
  \/ DrainAnswer(d)

-----------------------------------------------------------------------------
(* Time, and the end of the process                                        *)

Tick ==
  /\ now < MaxNow
  /\ \A r \in Requests : pc[r] # "nonce"
  /\ now' = now + 1
  /\ UNCHANGED <<storeVars, askVars, reqVars, running, restarts, early, drainVars>>

Queued == UNION {Range(inbox[a]) : a \in Agents}
InHands == UNION {Range(hand[d]) : d \in Readers}

\* The process dies and starts again.  Futures, pending_asks and open
\* connections are gone with what drains have popped, and so is an in-memory
\* store.
Restart ==
  /\ restarts < MaxRestarts
  /\ restarts' = restarts + 1
  /\ pc' = [r \in Requests |-> IF InFlight(r) THEN "done" ELSE pc[r]]
  /\ status' = [r \in Requests |-> IF InFlight(r) THEN "dropped" ELSE status[r]]
  /\ pendingAsks' = [c \in Corrs |-> None]
  /\ pendingTarget' = [c \in Corrs |-> None]
  /\ fut' = [r \in Requests |-> "none"]
  /\ expired' = {}
  /\ running' = None
  /\ IF Backend = "memory"
     THEN /\ nonces' = [n \in Nonces |-> 0]
          /\ inbox' = [a \in Agents |-> <<>>]
          /\ lost' = lost \cup Queued
     ELSE UNCHANGED <<nonces, inbox, lost>>
  /\ drain' = [d \in Readers |-> "idle"]
  /\ hand' = [d \in Readers |-> <<>>]
  /\ dropped' = dropped \cup InHands
  /\ UNCHANGED <<now, env, taken, early>>

-----------------------------------------------------------------------------
ArriveAny(r) == \E e \in Traffic : Arrive(r, e) \/ ArriveMalformed(r, e)

\* A step the event loop owes the coroutine of r once it is there.
HandlerStep(r) ==
  \/ RejectReplay(r)
  \/ SendValidated(r)
  \/ AskBackPressure(r) \/ AskRegister(r)
  \/ ReplyUnknown(r) \/ ReplyLate(r) \/ ReplyResolve(r)
  \/ PushRefused(r) \/ PushMemory(r)
  \/ PushLlen(r) \/ PushRpush(r) \/ PushExpire(r)
  \/ AskTimeout(r) \/ AskResume(r)

Next ==
  \/ \E r \in Requests : ArriveAny(r) \/ HandlerStep(r) \/ StoreError(r)
  \/ \E d \in Readers : DrainStep(d)
  \/ Tick
  \/ Restart

Spec == Init /\ [][Next]_vars

(***************************************************************************)
(* asyncio resumes every coroutine whose awaited call has returned, Redis  *)
(* calls return, and wait_for's timer fires.  Clients owe nothing.         *)
(***************************************************************************)
FairSpec == Spec /\ \A r \in Requests : WF_vars(HandlerStep(r))

-----------------------------------------------------------------------------
(* Properties                                                              *)

\* Every variable stays in its range (the state declared at main.py:48-70).
TypeOK ==
  /\ now \in Nat /\ restarts \in Nat
  /\ nonces \in [Nonces -> Nat]
  /\ inbox \in [Agents -> Seq(Requests)]
  /\ drain \in [Readers -> DrainStages]
  /\ hand \in [Readers -> Seq(Requests)]
  /\ taken \in [Readers -> Seq(Requests)]
  /\ dropped \in SUBSET Requests /\ lost \in SUBSET Requests
  /\ early \in SUBSET Requests
  /\ pendingAsks \in [Corrs -> Requests \cup {None}]
  /\ pendingTarget \in [Corrs -> Agents \cup {None}]
  /\ fut \in [Requests -> {"none", "pending", "replied", "cancelled"}]
  /\ expired \in SUBSET Requests
  /\ pc \in [Requests -> Control]
  /\ env \in [Requests -> Traffic \cup {None}]
  /\ status \in [Requests -> Statuses]
  /\ running \in Requests \cup {None}

\* No interleaving of ask handlers registers more than MAX_PENDING_PER_PEER
\* asks for one peer: the count and the registration are not separated by an
\* await (main.py:289-307).
BackPressure ==
  \A a \in Agents : Cardinality(PendingFor(a)) <= MaxPending

\* pending_asks and pending_target_by_corr are added to and removed from
\* together (main.py:57-59), whichever path an ask takes out of its handler.
PendingInSync ==
  \A c \in Corrs : pendingAsks[c] = None <=> pendingTarget[c] = None

\* What is counted are the asks that can be answered, and there are never too
\* many of them (main.py, ask).
AsksCounted == BackPressure /\ PendingInSync

\* Every entry of pending_asks belongs to an ask whose handler is still in
\* flight towards that entry's peer: MAX_PENDING_PER_PEER counts concurrent
\* asks (main.py:36-40).
PendingIsInFlight ==
  \A c \in Corrs : pendingAsks[c] # None =>
    LET r == pendingAsks[c] IN
      /\ pc[r] \in {"push", "rpush", "expire", "wait"}
      /\ env[r].endpoint = "ask"
      /\ env[r].corr = c
      /\ env[r].to = pendingTarget[c]

TakenBy(a) == UNION {Range(taken[d]) : d \in {d \in Readers : Owner[d] = a}}
InHandsOf(a) == UNION {Range(hand[d]) : d \in {d \in Readers : Owner[d] = a}}

Stored == Queued \cup InHands \cup dropped \cup lost \cup UNION {Range(taken[d]) : d \in Readers}

\* However an envelope is retransmitted and its handlers interleave, at most
\* one copy of it enters an inbox (validate_envelope and check_nonce), unless a
\* copy was accepted before its own timestamp: the nonce is then forgotten
\* while the timestamp is still good (main.py:127, abs).
AtMostOnce ==
  \A r, q \in Stored :
    env[r].nonce = env[q].nonce => r = q \/ r \in early \/ q \in early

\* No envelope is accepted twice, whatever its timestamp: a2a-protocol.md:72
\* says that a copy is refused "posle 5min (ts skju)" and "unutar 5min (nonce
\* dedup)".  It holds when no sender's clock is ahead of the relay's.
EveryReplayRefused ==
  \A r, q \in Stored : env[r].nonce = env[q].nonce => r = q

\* A send that was answered 200, or an ask that got as far as a reply or a
\* timeout, is in the recipient's inbox, in a drain of it, or was returned by
\* one, unless that drain failed or the relay lost its memory.
AcknowledgedIsKept ==
  \A r \in Requests :
    /\ status[r] \in {"ok", "timeout"}
    /\ env[r].endpoint \in {"send", "ask"}
    => r \in Range(inbox[env[r].to]) \cup InHandsOf(env[r].to) \cup TakenBy(env[r].to)
              \cup dropped \cup lost

\* A message leaves the store without being returned only when a Redis call of
\* a drain raises (store.py:124) or the relay dies (store.py, inbox_drain).
LossHasCause ==
  /\ dropped # {} => StoreFails \/ restarts > 0
  /\ lost # {} => Backend = "memory" /\ restarts > 0

\* A request refused with 400 or 503 left nothing in any inbox, so a client
\* that retries it does not duplicate the message.
RefusedIsNotStored ==
  \A r \in Stored : status[r] \notin {"rejected", "busy", "notFound", "conflict"}

\* An ask with id c was accepted before its own timestamp, so that a copy of it
\* may be registered again.
EarlyAsk(c) == \E q \in early : env[q].endpoint = "ask" /\ env[q].corr = c

\* At most one reply per ask is answered 200; every other one gets 404 or 409
\* (main.py:339-345), although the entry outlives the resolved future until
\* the ask's handler resumes.
OneReplyPerAsk ==
  \A r, q \in Requests :
    /\ status[r] = "ok" /\ env[r].endpoint = "reply"
    /\ status[q] = "ok" /\ env[q].endpoint = "reply"
    /\ env[r].corr = env[q].corr
    => r = q \/ EarlyAsk(env[r].corr)

\* What a client is told about a message is what happened to it: 200, or the
\* timeout of an ask, means that it was queued and stays until a drain returns
\* it or fails, and a refusal that it was not queued (main.py:255-314,
\* store.py:112-131).
AnswersAreTrue == AcknowledgedIsKept /\ LossHasCause /\ RefusedIsNotStored

\* INBOX_MAX is a cap on the messages queued for one agent (main.py:34).
InboxCapped == \A a \in Agents : Len(inbox[a]) <= InboxMax

\* An ask is answered 200 only with a reply whose sender was told 200 as well
\* (main.py:318-320, 345-347): neither a timeout, nor a cancelled future, nor
\* another ask's reply ends in a 200.
AnswerHasReply ==
  \A r \in Requests :
    status[r] = "ok" /\ env[r].endpoint = "ask" =>
      \E q \in Requests : /\ status[q] = "ok" /\ env[q].endpoint = "reply"
                         /\ env[q].corr = env[r].corr

\* Asks and the replies that end them are paired one to one: no reply answers
\* twice, none but a delivered reply answers an ask (main.py:317-347).
RepliesPairUp == OneReplyPerAsk /\ AnswerHasReply

\* A reply the relay acknowledged and logged as reply_delivered (main.py:345-347)
\* reaches the asker: its ask does not end in a timeout.
ReplyAckReachesAsker ==
  \A r, q \in Requests :
    /\ status[r] = "ok" /\ env[r].endpoint = "reply"
    /\ status[q] = "timeout" /\ env[q].endpoint = "ask"
    => env[r].corr # env[q].corr

\* Every request the relay has accepted is answered or dies with the relay:
\* no ask handler waits for ever (main.py:317-326).
EveryRequestEnds == \A r \in Requests : pc[r] # "idle" ~> pc[r] = "done"

-----------------------------------------------------------------------------
(* The relay implements the mailbox of module Mailbox; a message is named  *)
(* by its nonce, so a retransmission is the same message.                  *)

NoncesOf(requests) == [i \in DOMAIN requests |-> env[requests[i]].nonce]

Mail == INSTANCE Mailbox WITH
  Messages <- Nonces,
  Errors <- StoreFails,
  Crashes <- MaxRestarts > 0,
  queue <- [a \in Agents |-> NoncesOf(inbox[a])],
  hand <- [d \in Readers |-> NoncesOf(hand[d])],
  taken <- [d \in Readers |-> NoncesOf(taken[d])],
  seen <- {env[r].nonce : r \in Stored},
  early <- {env[r].nonce : r \in early}

\* Through any interleaving of pushes, drains, their errors and relay restarts
\* the inbox is a durable at-most-once FIFO that loses nothing but what a
\* failing drain had taken from its front: what relay/store.py promises of
\* RedisStore ("Persistuje izmedju restart-ova relay-a") with check_nonce in
\* front of it.
DurableMailbox == Mail!Spec

=============================================================================
