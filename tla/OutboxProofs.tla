---------------------------- MODULE OutboxProofs ----------------------------
(***************************************************************************)
(* Theorems of module Outbox for every set of messages, tool calls and     *)
(* monitors, however they share processes, and for every MaxAttempts.      *)
(***************************************************************************)
EXTENDS Outbox, FunctionTheorems, FiniteSetTheorems, TLAPS

(***************************************************************************)
(* TypeOK but for the bound on attempts, which takes an argument.          *)
(***************************************************************************)
Typed ==
  /\ row \in [Messages -> {"none", "pending", "delivered", "dead"}]
  /\ attempts \in [Messages -> Nat]
  /\ due \in [Messages -> BOOLEAN]
  /\ rounds \in [Messages -> Nat]
  /\ old \in SUBSET Messages
  /\ spent \in SUBSET Messages
  /\ forgotten \in [Messages -> Nat]
  /\ copies \in [Messages -> Nat]
  /\ outcome \in [Messages -> {"none", "delivered", "queued", "error", "raised"}]
  /\ pc \in [Flushers -> Control]
  /\ batch \in [Flushers -> SUBSET Messages]
  /\ cur \in [Flushers -> Messages \cup {None}]
  /\ resp \in [Flushers -> Responses \cup {None}]
  /\ readAttempts \in [Flushers -> Nat]
  /\ crashes \in Nat

\* Whoever posts a row posts one of its batch, and only a message is sent.
Placed ==
  \A f \in Flushers :
    /\ pc[f] \in {"posted", "update"} => cur[f] \in batch[f]
    /\ pc[f] \in {"send", "sent"} => f \in Messages
    /\ pc[f] \notin {"flush", "posted", "update"} => batch[f] = {}

\* A message has a row only after its own call, and only then is it in a batch.
RowsAfterCalls ==
  \A m \in Messages :
    /\ row[m] # "none" => pc[m] = "done"
    /\ \A f \in Flushers : m \in batch[f] => row[m] # "none"

\* No two coroutines of a process are inside mark_failed.
OneUpdate ==
  \A f, g \in Flushers :
    pc[f] = "update" /\ pc[g] = "update" /\ Process[f] = Process[g] => f = g

Shape == Typed /\ Placed /\ RowsAfterCalls /\ OneUpdate

-----------------------------------------------------------------------------
(* The shape of the state                                                  *)

LEMMA MessagesFlush == Messages \subseteq Flushers /\ None \notin Messages
  BY CallsAssumption DEF Flushers, Calls

LEMMA InitShape == Init => Shape
  BY MessagesFlush DEF Init, Shape, Typed, Placed, RowsAfterCalls, OneUpdate, Control

LEMMA ExchangeTyped ==
  ASSUME Typed, NEW f \in Flushers, NEW m \in Messages, Exchange(f, m)
  PROVE  /\ spent' \in SUBSET Messages
         /\ forgotten' \in [Messages -> Nat]
         /\ copies' \in [Messages -> Nat]
         /\ resp' \in [Flushers -> Responses \cup {None}]
  BY DEF Exchange, Typed, Responses, relayVars

LEMMA StartShape ==
  ASSUME Shape, NEW f \in Flushers, StartCall(f) \/ StartRound(f)
  PROVE  Shape'
  <1>1. PICK B \in PendingRows : batch' = [batch EXCEPT ![f] = B]
    BY DEF StartCall, StartRound
  <1>2. B \subseteq Messages /\ \A m \in B : row[m] = "pending"
    BY <1>1 DEF PendingRows, Ready
  <1>3. /\ pc' = [pc EXCEPT ![f] = "flush"]
        /\ UNCHANGED <<rowVars, relayVars, cur, resp, readAttempts, old, outcome, crashes>>
        /\ pc[f] = "idle"
    BY DEF StartCall, StartRound
  <1>4. Typed'
    BY <1>1, <1>2, <1>3 DEF Shape, Typed, Control, rowVars, relayVars
  <1>5. Placed' /\ OneUpdate'
    BY <1>1, <1>3 DEF Shape, Typed, Placed, OneUpdate
  <1>6. RowsAfterCalls'
    BY <1>1, <1>2, <1>3, MessagesFlush DEF Shape, Typed, RowsAfterCalls, rowVars
  <1>. QED
    BY <1>4, <1>5, <1>6 DEF Shape

LEMMA PostRowShape ==
  ASSUME Shape, NEW f \in Flushers, PostRow(f)
  PROVE  Shape'
  <1>1. PICK m \in batch[f] : Exchange(f, m) /\ cur' = [cur EXCEPT ![f] = m]
    BY DEF PostRow
  <1>2. m \in Messages
    BY <1>1 DEF Shape, Typed
  <1>. QED
    BY <1>1, <1>2, MessagesFlush, ExchangeTyped
       DEF PostRow, Shape, Typed, Placed, RowsAfterCalls, OneUpdate, Control, rowVars

LEMMA MarkFailedTyped ==
  ASSUME Typed, NEW m \in Messages, NEW n \in Nat, MarkFailed(m, n)
  PROVE  /\ row' \in [Messages -> {"none", "pending", "delivered", "dead"}]
         /\ attempts' \in [Messages -> Nat]
         /\ due' \in [Messages -> BOOLEAN]
         /\ rounds' \in [Messages -> Nat]
         /\ \A x \in Messages : row'[x] = "none" => row[x] = "none"
         /\ \A x \in Messages : row'[x] # "none" => row[x] # "none" \/ x = m
  <1>1. CASE n >= MaxAttempts
    BY <1>1 DEF MarkFailed, Typed
  <1>2. CASE ~(n >= MaxAttempts)
    <2>1. attempts[m] + 1 \in Nat
      BY DEF Typed
    <2>. QED
      BY <1>2, <2>1 DEF MarkFailed, Typed
  <1>. QED
    BY <1>1, <1>2

LEMMA FlushEndsAt ==
  ASSUME Typed, NEW f \in Flushers, FlushEnds(f)
  PROVE  /\ pc'[f] \in {"send", "done", "idle"} /\ batch[f] = {}
         /\ \A g \in Flushers : g # f => pc'[g] = pc[g]
  BY DEF FlushEnds, Typed, Flushers, Calls

LEMMA FlushShape ==
  ASSUME Shape, NEW f \in Flushers,
         RowDelivered(f) \/ RowFailed(f) \/ RowUpdate(f) \/ MonitorDies(f) \/ FlushEnds(f)
  PROVE  Shape'
  <1>1. CASE RowDelivered(f)
    BY <1>1, MessagesFlush
       DEF RowDelivered, MarkDelivered, NextRow, Shape, Typed, Placed, RowsAfterCalls,
           OneUpdate, Control, relayVars
  <1>2. CASE RowFailed(f)
    BY <1>2, MessagesFlush
       DEF RowFailed, HasProcess, Shape, Typed, Placed, RowsAfterCalls, OneUpdate, Control,
           rowVars, relayVars
  <1>3. CASE RowUpdate(f)
    <2>1. cur[f] \in Messages /\ readAttempts[f] \in Nat
      BY <1>3 DEF RowUpdate, Shape, Typed, Placed
    <2>. QED
      BY <1>3, <2>1, MessagesFlush, MarkFailedTyped
         DEF RowUpdate, NextRow, Shape, Typed, Placed, RowsAfterCalls, OneUpdate, Control,
             relayVars
  <1>4. CASE MonitorDies(f)
    BY <1>4, MessagesFlush
       DEF MonitorDies, Shape, Typed, Placed, RowsAfterCalls, OneUpdate, Control,
           rowVars, relayVars
  <1>5. CASE FlushEnds(f)
    BY <1>5, MessagesFlush
       DEF FlushEnds, Shape, Typed, Placed, RowsAfterCalls, OneUpdate, Control,
           rowVars, relayVars, Flushers, Calls
  <1>. QED
    BY <1>1, <1>2, <1>3, <1>4, <1>5

LEMMA SendShape ==
  ASSUME Shape, NEW m \in Messages, SendStep(m)
  PROVE  Shape'
  <1>1. CASE PostMessage(m)
    BY <1>1, MessagesFlush, ExchangeTyped
       DEF PostMessage, Shape, Typed, Placed, RowsAfterCalls, OneUpdate, Control, rowVars
  <1>2. CASE SendQueued(m)
    BY <1>2, MessagesFlush
       DEF SendQueued, Enqueue, Return, Shape, Typed, Placed, RowsAfterCalls, OneUpdate,
           Control, relayVars
  <1>3. ASSUME NEW told \in {"delivered", "error", "raised"}, Return(m, told), UNCHANGED rowVars
        PROVE  Shape'
    BY <1>3, MessagesFlush
       DEF Return, Shape, Typed, Placed, RowsAfterCalls, OneUpdate, Control, relayVars, rowVars
  <1>. QED
    BY <1>1, <1>2, <1>3 DEF SendStep, SendDelivered, SendRefused, SendRaises

LEMMA TimeShape ==
  ASSUME Shape, NEW m \in Messages, BecomeDue(m) \/ GrowOld(m)
  PROVE  Shape'
  <1>1. CASE BecomeDue(m)
    BY <1>1 DEF BecomeDue, Shape, Typed, Placed, RowsAfterCalls, OneUpdate, relayVars, callVars
  <1>2. CASE GrowOld(m)
    BY <1>2 DEF GrowOld, Shape, Typed, Placed, RowsAfterCalls, OneUpdate, relayVars, callVars,
                rowVars
  <1>. QED
    BY <1>1, <1>2

\* Who is in the process that is killed is at work no more; the others go on.
LEMMA CrashEnds ==
  ASSUME Shape, NEW p \in Processes, Crash(p), NEW f \in Flushers
  PROVE  \/ /\ pc'[f] = pc[f] /\ batch'[f] = batch[f] /\ cur'[f] = cur[f]
            /\ resp'[f] = resp[f] /\ readAttempts'[f] = readAttempts[f]
         \/ pc'[f] \in {"idle", "stopped", "done"} /\ batch'[f] = {}
  <1>1. CASE Process[f] = p
    BY <1>1, CallsAssumption DEF Crash, AtWork, Shape, Typed, Control, Flushers
  <1>2. CASE Process[f] # p
    BY <1>2 DEF Crash, Shape, Typed
  <1>. QED
    BY <1>1, <1>2

LEMMA CrashShape ==
  ASSUME Shape, NEW p \in Processes, Crash(p)
  PROVE  Shape'
  <1>1. \A f \in Flushers :
          \/ pc'[f] = pc[f] /\ batch'[f] = batch[f] /\ cur'[f] = cur[f]
          \/ pc'[f] \in {"idle", "stopped", "done"} /\ batch'[f] = {}
    BY CrashEnds
  <1>2. \A m \in Messages : pc[m] = "done" => pc'[m] = "done"
    BY CallsAssumption DEF Crash, AtWork, Flushers, Calls
  <1>3. Typed'
    BY CallsAssumption
       DEF Crash, AtWork, Shape, Typed, Control, Flushers, rowVars, relayVars
  <1>. QED
    BY <1>1, <1>2, <1>3, MessagesFlush
       DEF Crash, Shape, Placed, RowsAfterCalls, OneUpdate, rowVars

LEMMA ForgetShape ==
  ASSUME Shape, RelayForgets
  PROVE  Shape'
  <1>1. PICK gone \in {spent} \cup {{m} : m \in spent} :
          /\ spent' = spent \ gone
          /\ forgotten' = [m \in Messages |->
                             IF m \in gone THEN forgotten[m] + 1 ELSE forgotten[m]]
    BY DEF RelayForgets
  <1>. QED
    BY <1>1
       DEF RelayForgets, Shape, Typed, Placed, RowsAfterCalls, OneUpdate, rowVars, callVars

LEMMA StepShape == Shape /\ [Next]_vars => Shape'
  <1>. SUFFICES ASSUME Shape, [Next]_vars PROVE Shape'
    OBVIOUS
  <1>1. CASE UNCHANGED vars
    BY <1>1 DEF vars, rowVars, relayVars, callVars, Shape, Typed, Placed, RowsAfterCalls,
                OneUpdate
  <1>2. CASE Next
    BY <1>2, StartShape, PostRowShape, FlushShape, SendShape, TimeShape, CrashShape,
       ForgetShape
       DEF Next, FlushStep
  <1>. QED
    BY <1>1, <1>2

-----------------------------------------------------------------------------
(* What is called delivered was taken                                      *)

(***************************************************************************)
(* The relay takes a message only while it does not know its nonce, so one *)
(* that it could take now it has taken at most as often as it has          *)
(* forgotten the nonce.  Whoever has the answer "ok" in hand got it from   *)
(* the relay that took the message.                                        *)
(***************************************************************************)
CopiesCounted ==
  \A m \in Messages :
    /\ copies[m] <= 1 + forgotten[m]
    /\ m \notin spent => copies[m] <= forgotten[m]
    /\ pc[m] = "sent" /\ resp[m] = "ok" => copies[m] >= 1
    /\ \A f \in Flushers : pc[f] = "posted" /\ resp[f] = "ok" /\ cur[f] = m => copies[m] >= 1

OnceInv == Shape /\ CopiesCounted /\ DeliveredOnce

LEMMA InitOnce == Init => OnceInv
  BY InitShape, MessagesFlush DEF Init, OnceInv, CopiesCounted, DeliveredOnce

LEMMA ExchangeOnce ==
  ASSUME OnceInv, NEW f \in Flushers, NEW m \in Messages, Exchange(f, m)
  PROVE  /\ \A x \in Messages : /\ copies'[x] <= 1 + forgotten'[x]
                                /\ x \notin spent' => copies'[x] <= forgotten'[x]
                                /\ copies[x] >= 1 => copies'[x] >= 1
         /\ resp'[f] = "ok" => copies'[m] >= 1
         /\ \A g \in Flushers : g # f => resp'[g] = resp[g]
  <1>1. Typed /\ CopiesCounted
    BY DEF OnceInv, Shape
  <1>2. CASE UNCHANGED relayVars /\ resp'[f] # "ok"
    BY <1>1, <1>2 DEF Exchange, CopiesCounted, relayVars, Typed
  <1>3. CASE /\ m \notin spent /\ spent' = spent \cup {m}
             /\ copies' = [copies EXCEPT ![m] = @ + 1] /\ forgotten' = forgotten
    <2>1. copies[m] <= forgotten[m] /\ copies[m] \in Nat /\ forgotten[m] \in Nat
      BY <1>1, <1>3 DEF CopiesCounted, Typed
    <2>2. \A x \in Messages : copies'[x] = IF x = m THEN copies[m] + 1 ELSE copies[x]
      BY <1>1, <1>3 DEF Typed
    <2>. QED
      BY <1>1, <1>3, <2>1, <2>2 DEF Exchange, CopiesCounted, Typed
  <1>4. CASE /\ spent' = spent \cup {m} /\ UNCHANGED <<forgotten, copies>>
             /\ resp'[f] # "ok"
    BY <1>1, <1>4 DEF Exchange, CopiesCounted, Typed
  <1>. QED
    BY <1>1, <1>2, <1>3, <1>4 DEF Exchange, Typed, relayVars

LEMMA ForgetOnce ==
  ASSUME OnceInv, RelayForgets
  PROVE  OnceInv'
  <1>1. Typed /\ CopiesCounted /\ DeliveredOnce /\ Shape'
    BY ForgetShape DEF OnceInv, Shape
  <1>2. PICK gone \in {spent} \cup {{m} : m \in spent} :
          /\ spent' = spent \ gone
          /\ forgotten' = [m \in Messages |->
                             IF m \in gone THEN forgotten[m] + 1 ELSE forgotten[m]]
    BY DEF RelayForgets
  <1>3. ASSUME NEW m \in Messages
        PROVE  /\ copies'[m] <= 1 + forgotten'[m]
               /\ m \notin spent' => copies'[m] <= forgotten'[m]
    <2>1. copies' = copies /\ copies[m] \in Nat /\ forgotten[m] \in Nat
      BY <1>1 DEF RelayForgets, Typed
    <2>2. CASE m \in gone
      BY <1>1, <1>2, <2>1, <2>2 DEF CopiesCounted
    <2>3. CASE m \notin gone
      BY <1>1, <1>2, <2>1, <2>3 DEF CopiesCounted
    <2>. QED
      BY <2>2, <2>3
  <1>. QED
    BY <1>1, <1>3 DEF RelayForgets, OnceInv, CopiesCounted, DeliveredOnce, rowVars, callVars

LEMMA StepOnce == OnceInv /\ [Next]_vars => OnceInv'
  <1>. SUFFICES ASSUME OnceInv, [Next]_vars PROVE OnceInv'
    OBVIOUS
  <1>1. Shape /\ Shape' /\ CopiesCounted /\ DeliveredOnce
    BY StepShape DEF OnceInv
  <1>2. CASE UNCHANGED vars
    BY <1>1, <1>2 DEF vars, rowVars, relayVars, callVars, OnceInv, CopiesCounted, DeliveredOnce
  <1>3. ASSUME NEW f \in Flushers, StartCall(f) \/ StartRound(f) \/ FlushEnds(f)
        PROVE  OnceInv'
    BY <1>1, <1>3, MessagesFlush
       DEF StartCall, StartRound, FlushEnds, Shape, Typed, Placed, OnceInv, CopiesCounted,
           DeliveredOnce, rowVars, relayVars
  <1>4. ASSUME NEW f \in Flushers, PostRow(f)
        PROVE  OnceInv'
    <2>1. PICK m \in batch[f] : Exchange(f, m) /\ cur' = [cur EXCEPT ![f] = m]
      BY <1>4 DEF PostRow
    <2>2. m \in Messages
      BY <1>1, <2>1 DEF Shape, Typed
    <2>. QED
      BY <1>1, <1>4, <2>1, <2>2, ExchangeOnce, MessagesFlush
         DEF PostRow, Shape, Typed, OnceInv, CopiesCounted, DeliveredOnce, rowVars
  <1>5. ASSUME NEW f \in Flushers, RowDelivered(f)
        PROVE  OnceInv'
    <2>1. cur[f] \in Messages /\ copies[cur[f]] >= 1
      BY <1>1, <1>5 DEF RowDelivered, Shape, Typed, Placed, CopiesCounted
    <2>. QED
      BY <1>1, <1>5, <2>1, MessagesFlush
         DEF RowDelivered, MarkDelivered, NextRow, Shape, Typed, OnceInv, CopiesCounted,
             DeliveredOnce, relayVars
  <1>6. ASSUME NEW f \in Flushers, RowFailed(f) \/ MonitorDies(f)
        PROVE  OnceInv'
    BY <1>1, <1>6, MessagesFlush
       DEF RowFailed, MonitorDies, Shape, Typed, OnceInv, CopiesCounted, DeliveredOnce,
           rowVars, relayVars
  <1>7. ASSUME NEW f \in Flushers, RowUpdate(f)
        PROVE  OnceInv'
    <2>1. \A m \in Messages : row'[m] = "delivered" => row[m] = "delivered"
      BY <1>1, <1>7 DEF RowUpdate, MarkFailed, Shape, Typed
    <2>. QED
      BY <1>1, <1>7, <2>1, MessagesFlush
         DEF RowUpdate, NextRow, Shape, Typed, OnceInv, CopiesCounted, DeliveredOnce, relayVars
  <1>8. ASSUME NEW m \in Messages, PostMessage(m)
        PROVE  OnceInv'
    BY <1>1, <1>8, ExchangeOnce, MessagesFlush
       DEF PostMessage, Shape, Typed, OnceInv, CopiesCounted, DeliveredOnce, rowVars
  <1>9. ASSUME NEW m \in Messages, SendQueued(m)
        PROVE  OnceInv'
    BY <1>1, <1>9, MessagesFlush
       DEF SendQueued, Enqueue, Return, Shape, Typed, OnceInv, CopiesCounted, DeliveredOnce,
           relayVars
  <1>10. ASSUME NEW m \in Messages, SendDelivered(m) \/ SendRefused(m) \/ SendRaises(m)
         PROVE  OnceInv'
    <2>1. PICK told : Return(m, told) /\ (told = "delivered" => resp[m] = "ok")
      BY <1>10 DEF SendDelivered, SendRefused, SendRaises
    <2>2. UNCHANGED rowVars
      BY <1>10 DEF SendDelivered, SendRefused, SendRaises
    <2>. QED
      BY <1>1, <2>1, <2>2, MessagesFlush
         DEF Return, Shape, Typed, OnceInv, CopiesCounted, DeliveredOnce, rowVars, relayVars
  <1>11. ASSUME NEW m \in Messages, BecomeDue(m) \/ GrowOld(m)
         PROVE  OnceInv'
    BY <1>1, <1>11
       DEF BecomeDue, GrowOld, OnceInv, CopiesCounted, DeliveredOnce, rowVars, relayVars,
           callVars
  <1>12. ASSUME NEW p \in Processes, Crash(p)
         PROVE  OnceInv'
    <2>1. \A f \in Flushers : \/ resp'[f] = resp[f] /\ pc'[f] = pc[f] /\ cur'[f] = cur[f]
                              \/ pc'[f] \in {"idle", "stopped", "done"}
      BY <1>1, <1>12, CrashEnds
    <2>. QED
      BY <1>1, <1>12, <2>1, MessagesFlush
         DEF Crash, OnceInv, CopiesCounted, DeliveredOnce, rowVars, relayVars
  <1>. QED
    BY <1>2, <1>3, <1>4, <1>5, <1>6, <1>7, <1>8, <1>9, <1>10, <1>11, <1>12, ForgetOnce
       DEF Next, FlushStep, SendStep

(***************************************************************************)
(* What the sender or the outbox table calls delivered, the relay has      *)
(* taken, and it takes a message, whoever flushes it and however often it  *)
(* is posted, once and once more at most for each time it has forgotten    *)
(* its nonce (agent/main.py:225-226, 498-503; relay/main.py:130-133).      *)
(***************************************************************************)
THEOREM DeliveredOnceHolds == Spec => []DeliveredOnce
  <1>1. OnceInv => DeliveredOnce
    BY DEF OnceInv
  <1>. QED
    BY <1>1, InitOnce, StepOnce, PTL DEF Spec

-----------------------------------------------------------------------------
(* attempts is bounded, however many flushers race                         *)

\* The processes that are about to raise the attempts of m: its SELECT read
\* fewer than MAX_ATTEMPTS.
Raising(m) ==
  {Process[f] : f \in {g \in Flushers : /\ pc[g] = "update" /\ cur[g] = m
                                        /\ readAttempts[g] < MaxAttempts}}

(***************************************************************************)
(* Once attempts has reached MAX_ATTEMPTS nobody joins those who raise it, *)
(* and each of them, one per process, raises it once.                      *)
(***************************************************************************)
Bounded ==
  \A m \in Messages :
    attempts[m] >= MaxAttempts =>
      attempts[m] + Cardinality(Raising(m)) <= MaxAttempts + Cardinality(Processes) - 1

TypeInv == Shape /\ Bounded

LEMMA ProcessesFinite ==
  /\ IsFiniteSet(Processes) /\ Cardinality(Processes) \in Nat
  /\ Messages # {} => Cardinality(Processes) >= 1
  <1>. DEFINE f == [x \in Flushers |-> Process[x]]
  <1>1. f \in Surjection(Flushers, Processes)
    BY DEF Surjection, Processes
  <1>2. IsFiniteSet(Processes)
    BY <1>1, FS_Surjection, CallsAssumption
  <1>3. Messages # {} => Processes # {}
    BY MessagesFlush DEF Processes
  <1>. QED
    BY <1>2, <1>3, FS_CardinalityType, FS_EmptySet

LEMMA RaisingFinite ==
  ASSUME NEW m \in Messages
  PROVE  /\ Raising(m) \in SUBSET Processes
         /\ IsFiniteSet(Raising(m))
         /\ Cardinality(Raising(m)) \in Nat
         /\ Cardinality(Raising(m)) <= Cardinality(Processes)
  <1>1. Raising(m) \in SUBSET Processes
    BY DEF Raising, Processes
  <1>. QED
    BY <1>1, ProcessesFinite, FS_Subset, FS_CardinalityType

LEMMA RaisingFinitePrime ==
  ASSUME NEW m \in Messages
  PROVE  /\ Raising(m)' \in SUBSET Processes
         /\ IsFiniteSet(Raising(m)')
         /\ Cardinality(Raising(m)') \in Nat
         /\ Cardinality(Raising(m)') <= Cardinality(Processes)
  <1>1. Raising(m)' \in SUBSET Processes
    BY DEF Raising, Processes
  <1>. QED
    BY <1>1, ProcessesFinite, FS_Subset, FS_CardinalityType

\* Nobody joins those who raise the attempts of m, which stay as they are.
LEMMA RaisingShrinks ==
  ASSUME TypeInv, NEW m \in Messages,
         attempts'[m] = attempts[m], Raising(m)' \subseteq Raising(m)
  PROVE  attempts'[m] >= MaxAttempts =>
           attempts'[m] + Cardinality(Raising(m)') <= MaxAttempts + Cardinality(Processes) - 1
  <1>1. Cardinality(Raising(m)') <= Cardinality(Raising(m))
    BY RaisingFinite, FS_Subset
  <1>2. attempts[m] \in Nat
    BY DEF TypeInv, Shape, Typed
  <1>. QED
    BY <1>1, <1>2, RaisingFinite, RaisingFinitePrime, ProcessesFinite, LimitsAssumption
       DEF TypeInv, Bounded

\* A flusher that does not come to be between SELECT and UPDATE raises nothing
\* more than before.
LEMMA NoneJoins ==
  ASSUME TypeInv, NEW m \in Messages,
         \A f \in Flushers :
           pc'[f] = "update" => pc[f] = "update" /\ cur'[f] = cur[f]
                                /\ readAttempts'[f] = readAttempts[f]
  PROVE  Raising(m)' \subseteq Raising(m)
  BY DEF Raising

LEMMA InitType == Init => TypeInv
  BY InitShape, LimitsAssumption DEF Init, TypeInv, Bounded

LEMMA RowFailedBounded ==
  ASSUME TypeInv, NEW f \in Flushers, RowFailed(f)
  PROVE  Bounded'
  <1>1. Typed /\ Placed
    BY DEF TypeInv, Shape
  <1>2. ASSUME NEW m \in Messages, attempts'[m] >= MaxAttempts
        PROVE  attempts'[m] + Cardinality(Raising(m)')
                 <= MaxAttempts + Cardinality(Processes) - 1
    <2>1. attempts' = attempts
      BY DEF RowFailed, rowVars
    <2>2. cur[f] = m => readAttempts'[f] >= MaxAttempts
      BY <1>1, <1>2, <2>1 DEF RowFailed, Typed
    <2>3. readAttempts'[f] \in Nat
      BY <1>1 DEF RowFailed, Typed, Placed
    <2>4. Raising(m)' \subseteq Raising(m)
      BY <1>1, <2>2, <2>3, LimitsAssumption DEF RowFailed, Raising, Typed
    <2>. QED
      BY <1>2, <2>1, <2>4, RaisingShrinks
  <1>. QED
    BY <1>2 DEF Bounded

LEMMA RowUpdateBounded ==
  ASSUME TypeInv, NEW f \in Flushers, RowUpdate(f)
  PROVE  Bounded'
  <1>1. Typed /\ Placed /\ OneUpdate
    BY DEF TypeInv, Shape
  <1>2. cur[f] \in Messages /\ readAttempts[f] \in Nat /\ pc[f] = "update"
    BY <1>1 DEF RowUpdate, Typed, Placed
  <1>3. \A g \in Flushers :
          pc'[g] = "update" => g # f /\ pc[g] = "update" /\ cur'[g] = cur[g]
                               /\ readAttempts'[g] = readAttempts[g]
    BY <1>1 DEF RowUpdate, NextRow, Typed
  <1>4. ASSUME NEW m \in Messages, attempts'[m] >= MaxAttempts
        PROVE  attempts'[m] + Cardinality(Raising(m)')
                 <= MaxAttempts + Cardinality(Processes) - 1
    <2>1. Raising(m)' \subseteq Raising(m)
      BY <1>3, NoneJoins
    <2>2. CASE attempts'[m] = attempts[m]
      BY <1>4, <2>1, <2>2, RaisingShrinks
    <2>3. CASE attempts'[m] # attempts[m]
      <3>1. /\ m = cur[f] /\ readAttempts[f] < MaxAttempts
            /\ attempts'[m] = attempts[m] + 1
        BY <1>1, <1>2, <2>3, LimitsAssumption DEF RowUpdate, MarkFailed, Typed
      <3>2. Process[f] \in Raising(m)
        BY <1>2, <3>1 DEF Raising
      <3>3. Process[f] \notin Raising(m)'
        BY <1>1, <1>2, <1>3 DEF Raising, OneUpdate
      <3>4. Raising(m)' \in SUBSET (Raising(m) \ {Process[f]})
        BY <2>1, <3>3
      <3>5. Cardinality(Raising(m)') <= Cardinality(Raising(m)) - 1
        <4>. DEFINE others == Raising(m) \ {Process[f]}
        <4>1. IsFiniteSet(others) /\ Cardinality(others) = Cardinality(Raising(m)) - 1
          BY <3>2, RaisingFinite, FS_RemoveElement
        <4>. QED
          BY <3>4, <4>1, FS_Subset
      <3>6. attempts[m] \in Nat
        BY <1>1 DEF Typed
      <3>. QED
        BY <1>4, <3>1, <3>5, <3>6, RaisingFinite, RaisingFinitePrime, ProcessesFinite,
           LimitsAssumption DEF TypeInv, Bounded
    <2>. QED
      BY <2>2, <2>3
  <1>. QED
    BY <1>4 DEF Bounded

LEMMA SendQueuedBounded ==
  ASSUME TypeInv, NEW x \in Messages, SendQueued(x)
  PROVE  Bounded'
  <1>1. Typed /\ Placed /\ RowsAfterCalls
    BY DEF TypeInv, Shape
  <1>2. ASSUME NEW m \in Messages, attempts'[m] >= MaxAttempts
        PROVE  attempts'[m] + Cardinality(Raising(m)')
                 <= MaxAttempts + Cardinality(Processes) - 1
    <2>1. \A g \in Flushers :
            pc'[g] = "update" => pc[g] = "update" /\ cur'[g] = cur[g]
                                 /\ readAttempts'[g] = readAttempts[g]
      BY <1>1, MessagesFlush DEF SendQueued, Return, Typed
    <2>2. Raising(m)' \subseteq Raising(m)
      BY <2>1, NoneJoins
    <2>3. CASE m # x
      BY <1>1, <1>2, <2>2, <2>3, RaisingShrinks DEF SendQueued, Enqueue, Typed
    <2>4. CASE m = x
      <3>1. pc[m] = "sent"
        BY <2>4 DEF SendQueued, Return
      <3>2. \A g \in Flushers : ~(pc[g] = "update" /\ cur[g] = m)
        BY <1>1, <3>1 DEF Placed, RowsAfterCalls, Typed
      <3>3. Raising(m)' = {}
        BY <2>2, <3>2 DEF Raising
      <3>4. attempts'[m] = 1
        BY <1>1, <2>4 DEF SendQueued, Enqueue, Typed
      <3>. QED
        BY <1>2, <3>3, <3>4, FS_EmptySet, ProcessesFinite, LimitsAssumption
    <2>. QED
      BY <2>3, <2>4
  <1>. QED
    BY <1>2 DEF Bounded

LEMMA StepType == TypeInv /\ [Next]_vars => TypeInv'
  <1>. SUFFICES ASSUME TypeInv, [Next]_vars PROVE Bounded'
    BY StepShape DEF TypeInv
  <1>1. Typed /\ Placed
    BY DEF TypeInv, Shape
  <1>2. ASSUME UNCHANGED attempts,
               \A f \in Flushers :
                 pc'[f] = "update" => pc[f] = "update" /\ cur'[f] = cur[f]
                                      /\ readAttempts'[f] = readAttempts[f]
        PROVE  Bounded'
    BY <1>2, NoneJoins, RaisingShrinks DEF Bounded
  <1>3. CASE UNCHANGED vars
    BY <1>2, <1>3 DEF vars, rowVars, callVars
  <1>4. ASSUME NEW f \in Flushers, StartCall(f) \/ StartRound(f) \/ FlushEnds(f)
        PROVE  Bounded'
    BY <1>1, <1>2, <1>4, FlushEndsAt DEF StartCall, StartRound, FlushEnds, Typed, rowVars
  <1>5. ASSUME NEW f \in Flushers, RowDelivered(f) \/ MonitorDies(f)
        PROVE  Bounded'
    BY <1>1, <1>2, <1>5 DEF RowDelivered, MarkDelivered, NextRow, MonitorDies, Typed, rowVars
  <1>9. ASSUME NEW f \in Flushers, PostRow(f)
        PROVE  Bounded'
    <2>1. PICK m \in batch[f] : cur' = [cur EXCEPT ![f] = m]
      BY <1>9 DEF PostRow
    <2>. QED
      BY <1>1, <1>2, <1>9, <2>1 DEF PostRow, Typed, rowVars
  <1>6. ASSUME NEW m \in Messages, SendStep(m), ~SendQueued(m)
        PROVE  Bounded'
    BY <1>1, <1>2, <1>6, MessagesFlush
       DEF SendStep, PostMessage, SendDelivered, SendRefused, SendRaises, Return, Typed, rowVars
  <1>7. ASSUME NEW m \in Messages, BecomeDue(m) \/ GrowOld(m)
        PROVE  Bounded'
    BY <1>2, <1>7 DEF BecomeDue, GrowOld, rowVars, callVars
  <1>8. ASSUME NEW p \in Processes, Crash(p)
        PROVE  Bounded'
    BY <1>2, <1>8, CrashEnds DEF Crash, TypeInv, rowVars
  <1>10. CASE RelayForgets
    BY <1>2, <1>10 DEF RelayForgets, rowVars, callVars
  <1>. QED
    BY <1>3, <1>4, <1>5, <1>6, <1>7, <1>8, <1>9, <1>10, RowFailedBounded, RowUpdateBounded, SendQueuedBounded
       DEF Next, FlushStep

(***************************************************************************)
(* Every variable stays in its range; in particular attempts goes over     *)
(* MAX_ATTEMPTS by at most the number of processes that race in            *)
(* mark_failed, less one (outbox.py:89-107).                               *)
(***************************************************************************)
THEOREM TypeCorrect == Spec => []TypeOK
  <1>1. TypeInv => TypeOK
    <2>. SUFFICES ASSUME TypeInv PROVE TypeOK
      OBVIOUS
    <2>1. ASSUME NEW m \in Messages
          PROVE  attempts[m] \in 0 .. MaxAttempts + Cardinality(Processes) - 1
      <3>1. attempts[m] \in Nat
        BY DEF TypeInv, Shape, Typed
      <3>. QED
        BY <3>1, RaisingFinite, ProcessesFinite, LimitsAssumption DEF TypeInv, Bounded
    <2>. QED
      BY <2>1 DEF TypeInv, Shape, Typed, TypeOK
  <1>. QED
    BY <1>1, InitType, StepType, PTL DEF Spec

-----------------------------------------------------------------------------
(* One flusher at a time                                                   *)

OneAtWork == \A f, g \in AtWork : f = g

(***************************************************************************)
(* While only one flusher is at work, nobody takes a row from under it:    *)
(* what it has read of the rows of its batch still holds when it writes.   *)
(***************************************************************************)
BatchStands ==
  \A f \in Flushers :
    /\ \A m \in batch[f] : row[m] = "pending" /\ due[m]
    /\ pc[f] = "update" => readAttempts[f] = attempts[cur[f]]

\* A row that is due has had a backoff more than it has recorded.
BackoffsLead ==
  \A m \in Messages :
    /\ attempts[m] <= rounds[m] + 1
    /\ row[m] = "pending" /\ due[m] => attempts[m] <= rounds[m]
    /\ row[m] = "dead" => rounds[m] >= MaxAttempts

SerialInv == Shape /\ OneAtWork /\ BatchStands /\ BackoffsLead

LEMMA InitSerial == Init => SerialInv
  BY InitShape, MessagesFlush
     DEF Init, SerialInv, OneAtWork, AtWork, BatchStands, BackoffsLead

LEMMA StartSerial ==
  ASSUME Parallelism = 1, SerialInv, NEW f \in Flushers, StartCall(f) \/ StartRound(f)
  PROVE  SerialInv'
  <1>1. Typed /\ Placed /\ Shape'
    BY StartShape DEF SerialInv, Shape
  <1>2. AtWork = {}
    <2>1. AtWork \in SUBSET Flushers
      BY DEF AtWork
    <2>2. IsFiniteSet(AtWork) /\ Cardinality(AtWork) \in Nat
      BY <2>1, FS_Subset, FS_CardinalityType, CallsAssumption
    <2>. QED
      BY <2>2, FS_EmptySet DEF StartCall, StartRound
  <1>3. PICK B \in PendingRows : batch' = [batch EXCEPT ![f] = B]
    BY DEF StartCall, StartRound
  <1>4. \A m \in B : row[m] = "pending" /\ due[m]
    BY <1>3 DEF PendingRows, Ready
  <1>5. \A g \in Flushers : g # f => pc'[g] \in {"idle", "stopped", "done"}
    BY <1>1, <1>2 DEF AtWork, StartCall, StartRound, Typed
  <1>6. OneAtWork'
    BY <1>5 DEF OneAtWork, AtWork
  <1>7. BatchStands'
    BY <1>1, <1>3, <1>4, <1>5
       DEF StartCall, StartRound, SerialInv, Typed, BatchStands, rowVars
  <1>8. BackoffsLead'
    BY DEF StartCall, StartRound, SerialInv, BackoffsLead, rowVars
  <1>. QED
    BY <1>1, <1>6, <1>7, <1>8 DEF SerialInv

\* A step of the one that is at work, after which it is at work still or no
\* longer, leaves nobody else at work.
LEMMA WorkerAlone ==
  ASSUME SerialInv, NEW f \in AtWork, \A g \in Flushers : g # f => pc'[g] = pc[g]
  PROVE  /\ OneAtWork'
         /\ \A g \in Flushers : g # f => batch[g] = {} /\ pc[g] \in {"idle", "stopped", "done"}
  BY DEF SerialInv, Shape, Typed, Placed, OneAtWork, AtWork, Control

LEMMA FlushSerial ==
  ASSUME SerialInv, NEW f \in Flushers, FlushStep(f)
  PROVE  SerialInv'
  <1>1. Typed /\ Placed /\ BatchStands /\ BackoffsLead
    BY DEF SerialInv, Shape
  <1>2. Shape'
    BY PostRowShape, FlushShape DEF FlushStep, SerialInv
  <1>3. f \in AtWork
    BY DEF FlushStep, PostRow, RowDelivered, RowFailed, RowUpdate, MonitorDies, FlushEnds, AtWork
  <1>4. \A g \in Flushers : g # f => pc'[g] = pc[g]
    BY <1>1
       DEF FlushStep, PostRow, RowDelivered, RowFailed, RowUpdate, MonitorDies, FlushEnds,
           NextRow, Typed
  <1>5. OneAtWork' /\ \A g \in Flushers : g # f => batch[g] = {} /\ pc[g] # "update"
    BY <1>3, <1>4, WorkerAlone
  <1>6. CASE PostRow(f)
    BY <1>1, <1>2, <1>5, <1>6
       DEF PostRow, SerialInv, Typed, BatchStands, BackoffsLead, rowVars
  <1>7. CASE RowDelivered(f)
    BY <1>1, <1>2, <1>5, <1>7
       DEF RowDelivered, MarkDelivered, NextRow, SerialInv, Typed, BatchStands, BackoffsLead
  <1>8. CASE RowFailed(f)
    BY <1>1, <1>2, <1>5, <1>8
       DEF RowFailed, SerialInv, Typed, Placed, BatchStands, BackoffsLead, rowVars
  <1>9. CASE RowUpdate(f)
    <2>1. cur[f] \in batch[f] /\ cur[f] \in Messages
      BY <1>1, <1>9 DEF RowUpdate, Typed, Placed
    <2>2. /\ row[cur[f]] = "pending" /\ due[cur[f]]
          /\ readAttempts[f] = attempts[cur[f]]
          /\ attempts[cur[f]] <= rounds[cur[f]]
      BY <1>1, <1>9, <2>1 DEF RowUpdate, BatchStands, BackoffsLead
    <2>3. attempts[cur[f]] \in Nat /\ rounds[cur[f]] \in Nat
      BY <1>1, <2>1 DEF Typed
    <2>4. BackoffsLead'
      <3>1. CASE readAttempts[f] >= MaxAttempts
        BY <1>1, <1>9, <2>1, <2>2, <2>3, <3>1, LimitsAssumption
           DEF RowUpdate, MarkFailed, Typed, BackoffsLead
      <3>2. CASE ~(readAttempts[f] >= MaxAttempts)
        BY <1>1, <1>9, <2>1, <2>2, <2>3, <3>2 DEF RowUpdate, MarkFailed, Typed, BackoffsLead
      <3>. QED
        BY <3>1, <3>2
    <2>5. BatchStands'
      <3>1. \A m \in Messages : m # cur[f] => row'[m] = row[m] /\ due'[m] = due[m]
        BY <1>1, <1>9 DEF RowUpdate, MarkFailed, Typed
      <3>2. \A g \in Flushers :
              pc'[g] # "update" /\ batch'[g] \subseteq batch[g] \ {cur[f]}
        BY <1>1, <1>5, <1>9 DEF RowUpdate, NextRow, Typed
      <3>. QED
        BY <1>1, <3>1, <3>2 DEF BatchStands, Typed
    <2>. QED
      BY <1>2, <1>5, <2>4, <2>5 DEF SerialInv
  <1>10. CASE MonitorDies(f)
    BY <1>1, <1>2, <1>5, <1>10
       DEF MonitorDies, SerialInv, Typed, BatchStands, BackoffsLead, rowVars
  <1>11. CASE FlushEnds(f)
    <2>1. \A g \in Flushers : pc'[g] # "update"
      BY <1>1, <1>5, <1>11, FlushEndsAt
    <2>. QED
      BY <1>1, <1>2, <1>5, <1>11, <2>1
         DEF FlushEnds, SerialInv, BatchStands, BackoffsLead, rowVars
  <1>. QED
    BY <1>6, <1>7, <1>8, <1>9, <1>10, <1>11 DEF FlushStep

LEMMA SendSerial ==
  ASSUME SerialInv, NEW m \in Messages, SendStep(m)
  PROVE  SerialInv'
  <1>1. Typed /\ Placed /\ BatchStands /\ BackoffsLead
    BY DEF SerialInv, Shape
  <1>2. Shape' /\ m \in Flushers
    BY SendShape, MessagesFlush DEF SerialInv
  <1>3. /\ m \in AtWork /\ pc[m] \in {"send", "sent"}
        /\ pc'[m] \in {"sent", "done"} /\ batch' = batch
        /\ \A g \in Flushers : g # m => pc'[g] = pc[g]
    BY <1>1, <1>2
       DEF SendStep, PostMessage, SendDelivered, SendQueued, SendRefused, SendRaises, Return,
           AtWork, Typed
  <1>4. OneAtWork' /\ \A g \in Flushers : batch'[g] = {} /\ pc'[g] # "update"
    BY <1>1, <1>2, <1>3, WorkerAlone DEF Placed
  <1>5. BatchStands'
    BY <1>4 DEF BatchStands
  <1>6. BackoffsLead'
    <2>1. CASE SendQueued(m)
      BY <1>1, <2>1 DEF SendQueued, Enqueue, Typed, BackoffsLead
    <2>2. CASE ~SendQueued(m)
      BY <1>1, <2>2
         DEF SendStep, PostMessage, SendDelivered, SendRefused, SendRaises, BackoffsLead, rowVars
    <2>. QED
      BY <2>1, <2>2
  <1>. QED
    BY <1>2, <1>4, <1>5, <1>6 DEF SerialInv

LEMMA TimeSerial ==
  ASSUME SerialInv, NEW m \in Messages, BecomeDue(m) \/ GrowOld(m)
  PROVE  SerialInv'
  <1>1. Typed /\ Shape'
    BY TimeShape DEF SerialInv, Shape
  <1>2. CASE BecomeDue(m)
    <2>1. BackoffsLead'
      BY <1>1, <1>2 DEF BecomeDue, SerialInv, Typed, BackoffsLead
    <2>2. BatchStands' /\ OneAtWork'
      BY <1>1, <1>2
         DEF BecomeDue, SerialInv, Typed, BatchStands, OneAtWork, AtWork, callVars
    <2>. QED
      BY <1>1, <2>1, <2>2 DEF SerialInv
  <1>3. CASE GrowOld(m)
    BY <1>1, <1>3
       DEF GrowOld, SerialInv, BatchStands, BackoffsLead, OneAtWork, AtWork, rowVars, callVars
  <1>. QED
    BY <1>2, <1>3

LEMMA CrashSerial ==
  ASSUME SerialInv, NEW p \in Processes, Crash(p)
  PROVE  SerialInv'
  <1>1. Shape /\ Shape'
    BY CrashShape DEF SerialInv
  <1>2. \A f \in Flushers :
          \/ /\ pc'[f] = pc[f] /\ batch'[f] = batch[f] /\ cur'[f] = cur[f]
             /\ readAttempts'[f] = readAttempts[f]
          \/ pc'[f] \in {"idle", "stopped", "done"} /\ batch'[f] = {}
    BY <1>1, CrashEnds
  <1>3. UNCHANGED rowVars
    BY DEF Crash
  <1>. QED
    BY <1>1, <1>2, <1>3
       DEF SerialInv, BatchStands, BackoffsLead, OneAtWork, AtWork, rowVars

LEMMA ForgetSerial ==
  ASSUME SerialInv, RelayForgets
  PROVE  SerialInv'
  BY ForgetShape
     DEF RelayForgets, SerialInv, BatchStands, BackoffsLead, OneAtWork, AtWork, rowVars,
         callVars

LEMMA StepSerial ==
  ASSUME Parallelism = 1
  PROVE  SerialInv /\ [Next]_vars => SerialInv'
  <1>. SUFFICES ASSUME SerialInv, [Next]_vars PROVE SerialInv'
    OBVIOUS
  <1>1. CASE UNCHANGED vars
    <2>1. Shape'
      BY StepShape DEF SerialInv
    <2>. QED
      BY <1>1, <2>1 DEF vars, rowVars, callVars, SerialInv, BatchStands, BackoffsLead, OneAtWork,
                        AtWork
  <1>2. CASE Next
    BY <1>2, StartSerial, FlushSerial, SendSerial, TimeSerial, CrashSerial, ForgetSerial
       DEF Next
  <1>. QED
    BY <1>1, <1>2

(***************************************************************************)
(* While one flusher is at work at a time, a row is given up only after    *)
(* MAX_ATTEMPTS backoffs have passed for it, and attempts never runs ahead *)
(* of the backoffs (outbox.py:12-13).                                      *)
(***************************************************************************)
THEOREM AttemptsFollowBackoffHolds ==
  ASSUME Parallelism = 1
  PROVE  Spec => []AttemptsFollowBackoff
  <1>1. SerialInv => AttemptsFollowBackoff
    BY DEF SerialInv, BackoffsLead, AttemptsFollowBackoff
  <1>. QED
    BY <1>1, InitSerial, StepSerial, PTL DEF Spec

(***************************************************************************)
(* While one flusher is at work at a time, a row that is delivered or dead *)
(* stays so (outbox.py:38).                                                *)
(***************************************************************************)
THEOREM RowIsFinalHolds ==
  ASSUME Parallelism = 1
  PROVE  Spec => RowIsFinal
  <1>1. SerialInv /\ [Next]_vars =>
          [\A m \in Messages : row[m] \in {"delivered", "dead"} => row'[m] = row[m]]_vars
    <2>. SUFFICES ASSUME SerialInv, Next, NEW m \in Messages, row[m] \in {"delivered", "dead"}
                  PROVE  row'[m] = row[m]
      OBVIOUS
    <2>1. Typed /\ Placed /\ RowsAfterCalls /\ BatchStands
      BY DEF SerialInv, Shape
    <2>2. ASSUME NEW f \in Flushers, RowDelivered(f) \/ RowUpdate(f)
          PROVE  row'[m] = row[m]
      <3>1. cur[f] \in batch[f] /\ row[cur[f]] = "pending"
        BY <2>1, <2>2 DEF RowDelivered, RowUpdate, Placed, BatchStands
      <3>. QED
        BY <2>1, <2>2, <3>1 DEF RowDelivered, MarkDelivered, RowUpdate, MarkFailed, Typed
    <2>3. ASSUME NEW x \in Messages, SendQueued(x)
          PROVE  row'[m] = row[m]
      BY <2>1, <2>3 DEF SendQueued, Enqueue, Return, RowsAfterCalls, Typed
    <2>4. CASE UNCHANGED row
      BY <2>4
    <2>. QED
      BY <2>2, <2>3, <2>4
         DEF Next, StartCall, StartRound, FlushStep, PostRow, RowFailed, MonitorDies, FlushEnds,
             SendStep, PostMessage, SendDelivered, SendRefused, SendRaises, BecomeDue, GrowOld,
             Crash, RelayForgets, rowVars
  <1>. QED
    BY <1>1, InitSerial, StepSerial, PTL DEF Spec, RowIsFinal

=============================================================================
