-------------------------- MODULE DaemonLockProofs --------------------------
(***************************************************************************)
(* Theorems of module DaemonLock for every number of daemons, removers,    *)
(* clade_inbox calls and process ids.                                      *)
(***************************************************************************)
EXTENDS DaemonLock, TLAPS

-----------------------------------------------------------------------------
(* The shape of the state                                                  *)

\* A daemon has a process from its start to its end.
Living == \A d \in Daemons : Alive(d) <=> pc[d] \in Starting \cup Up

\* Only a daemon between open and write has the lock file open.
Links == \A d \in linked : pc[d] = "write"

Shape == TypeOK /\ Living /\ Links

LEMMA InitShape == Init => Shape
  <1>. SUFFICES ASSUME Init PROVE Shape
    OBVIOUS
  <1>1. TypeOK
    BY DEF Init, TypeOK, Control
  <1>2. Living /\ Links
    BY DEF Init, Living, Links, Alive, Starting, Up, Actors
  <1>. QED
    BY <1>1, <1>2 DEF Shape

LEMMA ReadLockTyped ==
  ASSUME TypeOK, NEW a \in Actors, ReadLock(a)
  PROVE  seen' \in [Actors -> Pids \cup {None}]
  BY DEF ReadLock, TypeOK

LEMMA StartShape ==
  ASSUME Shape, NEW d \in Daemons, NEW at \in {"script", "look"}, Start(d, at)
  PROVE  Shape'
  <1>1. PICK p \in Pids : pid' = [pid EXCEPT ![d] = p] /\ used' = used \cup {p}
    BY DEF Start, FreePids
  <1>. QED
    BY <1>1, NoneAssumption
       DEF Start, Goto, Shape, TypeOK, Living, Links, Alive, Control, Starting, Up, Actors,
           fileVars, histVars

\* The steps of a daemon by which it goes on to live.
LEMMA DaemonGoesOnShape ==
  ASSUME Shape, NEW d \in Daemons,
         \/ ScriptReads(d) \/ ScriptTerminates(d) \/ ScriptWaited(d) \/ ScriptRemoves(d)
         \/ LockRead(d) \/ LockStale(d) \/ LockOpen(d) \/ LockWrite(d) \/ BeginPolling(d)
         \/ Shutdown(d) \/ Stopped(d) \/ ReleaseOwn(d)
  PROVE  Shape'
  <1>1. d \in Actors
    BY DEF Actors
  <1>2. CASE ScriptReads(d)
    BY <1>1, <1>2, ReadLockTyped
       DEF ScriptReads, ReadLock, Goto, Shape, TypeOK, Living, Links, Alive, Control, Starting, Up,
           procVars, fileVars, histVars
  <1>3. CASE LockRead(d)
    BY <1>1, <1>3, ReadLockTyped
       DEF LockRead, ReadLock, Goto, Shape, TypeOK, Living, Links, Alive, Control, Starting, Up,
           procVars, fileVars, histVars
  <1>4. CASE ScriptTerminates(d)
    BY <1>1, <1>4
       DEF ScriptTerminates, Signal, Goto, Shape, TypeOK, Living, Links, Alive, Control, Starting, Up,
           procVars, fileVars, histVars
  <1>5. CASE ScriptWaited(d)
    BY <1>1, <1>5
       DEF ScriptWaited, Goto, Shape, TypeOK, Living, Links, Alive, Control, Starting, Up,
           procVars, fileVars, histVars
  <1>6. CASE ScriptRemoves(d)
    BY <1>1, <1>6
       DEF ScriptRemoves, Unlink, Goto, Shape, TypeOK, Living, Links, Alive, Control, Starting, Up,
           procVars, histVars
  <1>7. CASE LockStale(d)
    BY <1>1, <1>7
       DEF LockStale, Goto, Shape, TypeOK, Living, Links, Alive, Control, Starting, Up,
           procVars, fileVars, histVars
  <1>8. CASE BeginPolling(d)
    BY <1>1, <1>8
       DEF BeginPolling, Goto, Shape, TypeOK, Living, Links, Alive, Control, Starting, Up,
           procVars, fileVars, histVars
  <1>9. CASE LockOpen(d)
    BY <1>1, <1>9
       DEF LockOpen, Goto, Shape, TypeOK, Living, Links, Alive, Control, Starting, Up,
           procVars, histVars
  <1>10. CASE LockWrite(d)
    BY <1>1, <1>10
       DEF LockWrite, Goto, Shape, TypeOK, Living, Links, Alive, Control, Starting, Up,
           procVars, histVars
  <1>11. CASE Shutdown(d)
    BY <1>1, <1>11
       DEF Shutdown, Goto, Shape, TypeOK, Living, Links, Alive, Control, Starting, Up,
           procVars, fileVars, histVars
  <1>12. CASE Stopped(d)
    BY <1>1, <1>12
       DEF Stopped, Goto, Shape, TypeOK, Living, Links, Alive, Control, Starting, Up,
           procVars, fileVars, histVars
  <1>13. CASE ReleaseOwn(d)
    BY <1>1, <1>13
       DEF ReleaseOwn, Goto, Shape, TypeOK, Living, Links, Alive, Control, Starting, Up,
           procVars, fileVars, histVars
  <1>. QED
    BY <1>2, <1>3, <1>4, <1>5, <1>6, <1>7, <1>8, <1>9, <1>10, <1>11, <1>12, <1>13

LEMMA DaemonEndsShape ==
  ASSUME Shape, NEW d \in Daemons,
         \/ LockRefused(d) \/ TerminatedEarly(d) \/ ReleaseUnlinks(d) \/ ReleaseForeign(d)
         \/ Crash(d)
  PROVE  Shape'
  <1>1. d \in Actors
    BY DEF Actors
  <1>2. CASE LockRefused(d)
    BY <1>1, <1>2
       DEF LockRefused, Mislead, Ends, Goto, Shape, TypeOK, Living, Links, Alive, Control,
           Starting, Up, fileVars
  <1>3. CASE TerminatedEarly(d)
    BY <1>1, <1>3
       DEF TerminatedEarly, Ends, Goto, Shape, TypeOK, Living, Links, Alive, Control, Starting, Up
  <1>4. CASE ReleaseUnlinks(d)
    BY <1>1, <1>4
       DEF ReleaseUnlinks, Unlink, Ends, Goto, Shape, TypeOK, Living, Links, Alive, Control,
           Starting, Up, histVars
  <1>5. CASE ReleaseForeign(d)
    BY <1>1, <1>5
       DEF ReleaseForeign, Ends, Goto, Shape, TypeOK, Living, Links, Alive, Control, Starting, Up,
           fileVars, histVars
  <1>6. CASE Crash(d)
    BY <1>1, <1>6
       DEF Crash, Ends, Goto, Shape, TypeOK, Living, Links, Alive, Control, Starting, Up
  <1>. QED
    BY <1>2, <1>3, <1>4, <1>5, <1>6

LEMMA ScriptKillsShape ==
  ASSUME Shape, NEW d \in Daemons, ScriptKills(d)
  PROVE  Shape'
  <1>1. Daemons \subseteq Actors
    BY DEF Actors
  <1>2. \A x \in Daemons :
          \/ pid[x] = seen[d] /\ pc'[x] = "dead" /\ pid'[x] = None /\ x \notin linked'
          \/ /\ pid[x] # seen[d] /\ pid'[x] = pid[x]
             /\ pc'[x] = IF x = d THEN "rm" ELSE pc[x]
    BY <1>1 DEF ScriptKills, Shape, TypeOK
  <1>3. TypeOK'
    BY <1>1 DEF ScriptKills, Shape, TypeOK, Control, Starting
  <1>. QED
    BY <1>1, <1>2, <1>3
       DEF ScriptKills, Shape, TypeOK, Living, Links, Alive, Starting, Up

\* Removers, tools and other processes do nothing to a daemon but signal it.
LEMMA OthersShape ==
  ASSUME Shape,
         \/ \E r \in Removers : RemoverStep(r)
         \/ \E t \in Tools : ToolStep(t)
         \/ \E p \in Pids : OtherStarts(p) \/ OtherEnds(p)
  PROVE  /\ Shape'
         /\ pid' = pid /\ \A d \in Daemons : pc'[d] = pc[d] /\ seen'[d] = seen[d]
  <1>1. ASSUME NEW r \in Removers, RemoverStep(r)
        PROVE  /\ Shape'
               /\ pid' = pid /\ \A d \in Daemons : pc'[d] = pc[d] /\ seen'[d] = seen[d]
    <2>1. r \in Actors /\ r \notin Daemons /\ Daemons \subseteq Actors
      BY ActorsAssumption DEF Actors
    <2>2. CASE RemoverReads(r)
      BY <2>1, <2>2, ReadLockTyped
         DEF RemoverReads, ReadLock, Goto, Shape, TypeOK, Living, Links, Alive, Control, procVars,
             fileVars, histVars
    <2>3. CASE RemoverSignals(r)
      BY <2>1, <2>3
         DEF RemoverSignals, Signal, Goto, Shape, TypeOK, Living, Links, Alive, Control, Up,
             procVars, fileVars, histVars
    <2>4. CASE RemoverUnlinks(r)
      BY <2>1, <2>4
         DEF RemoverUnlinks, Unlink, Goto, Shape, TypeOK, Living, Links, Alive, Control, procVars,
             histVars
    <2>. QED
      BY <1>1, <2>2, <2>3, <2>4 DEF RemoverStep
  <1>2. ASSUME NEW t \in Tools, ToolStep(t)
        PROVE  /\ Shape'
               /\ pid' = pid /\ \A d \in Daemons : pc'[d] = pc[d] /\ seen'[d] = seen[d]
    <2>1. t \in Actors /\ t \notin Daemons /\ Daemons \subseteq Actors
      BY ActorsAssumption DEF Actors
    <2>2. CASE ToolReads(t)
      BY <2>1, <2>2, ReadLockTyped
         DEF ToolReads, ReadLock, Goto, Shape, TypeOK, Living, Links, Alive, Control, Starting,
             procVars, fileVars, histVars
    <2>3. CASE ToolBusy(t)
      BY <2>1, <2>3
         DEF ToolBusy, Mislead, Goto, Shape, TypeOK, Living, Links, Alive, Control, procVars,
             fileVars
    <2>4. CASE ToolDrains(t) \/ ToolDone(t)
      BY <2>1, <2>4
         DEF ToolDrains, ToolDone, Goto, Shape, TypeOK, Living, Links, Alive, Control, procVars,
             fileVars, histVars
    <2>. QED
      BY <1>2, <2>2, <2>3, <2>4 DEF ToolStep
  <1>3. ASSUME NEW p \in Pids, OtherStarts(p) \/ OtherEnds(p)
        PROVE  /\ Shape'
               /\ pid' = pid /\ \A d \in Daemons : pc'[d] = pc[d] /\ seen'[d] = seen[d]
    BY <1>3
       DEF OtherStarts, OtherEnds, Shape, TypeOK, Living, Links, Alive, fileVars, histVars
  <1>. QED
    BY <1>1, <1>2, <1>3

LEMMA StepShape == Shape /\ [Next]_vars => Shape'
  <1>. SUFFICES ASSUME Shape, [Next]_vars PROVE Shape'
    OBVIOUS
  <1>1. CASE UNCHANGED vars
    BY <1>1 DEF vars, procVars, fileVars, histVars, Shape, TypeOK, Living, Links, Alive
  <1>2. ASSUME NEW d \in Daemons, DaemonStep(d) PROVE Shape'
    BY <1>2, StartShape, DaemonGoesOnShape, DaemonEndsShape, ScriptKillsShape
       DEF DaemonStep, ScriptStep, AcquireStep, ReleaseStep
  <1>. QED
    BY <1>1, <1>2, OthersShape DEF Next

\* Every variable stays in its range.
THEOREM TypeCorrect == Spec => []TypeOK
  <1>1. Shape => TypeOK
    BY DEF Shape
  <1>. QED
    BY <1>1, InitShape, StepShape, PTL DEF Spec

-----------------------------------------------------------------------------
(* No lock is left behind                                                  *)

(***************************************************************************)
(* While no daemon has died in between, the lock file has somebody who     *)
(* will remove it or leave it to another: an empty one its writer, one     *)
(* with a PID the daemon with that PID.  NoLockLeft alone says nothing of  *)
(* the states in which daemons live, in which it is decided.               *)
(***************************************************************************)
Removable ==
  ~unclean =>
    /\ lock = Empty => linked # {}
    /\ lock \in Pids => \E d \in Daemons : pid[d] = lock /\ pc[d] \in {"setup"} \cup Up

RemovableInv == Shape /\ Removable

LEMMA InitRemovable == Init => RemovableInv
  BY InitShape, NoneAssumption DEF Init, RemovableInv, Removable

\* The file is as it was, and whoever answers for it still does.
LEMMA RemovableKept ==
  ASSUME RemovableInv, unclean' = unclean, UNCHANGED fileVars,
         \A x \in Daemons :
           pid[x] = lock /\ pc[x] \in {"setup"} \cup Up =>
             pid'[x] = pid[x] /\ pc'[x] \in {"setup"} \cup Up
  PROVE  Removable'
  BY DEF RemovableInv, Removable, fileVars

LEMMA DaemonGoesOnRemovable ==
  ASSUME RemovableInv, NEW d \in Daemons,
         \/ ScriptReads(d) \/ ScriptTerminates(d) \/ ScriptWaited(d)
         \/ LockRead(d) \/ LockStale(d) \/ BeginPolling(d)
         \/ Shutdown(d) \/ Stopped(d) \/ ReleaseOwn(d)
  PROVE  Removable'
  <1>1. Shape /\ Daemons \subseteq Actors
    BY DEF RemovableInv, Actors
  <1>2. unclean' = unclean /\ UNCHANGED fileVars /\ pid' = pid
    BY DEF ScriptReads, ScriptTerminates, ScriptWaited, LockRead, LockStale, BeginPolling,
           Shutdown, Stopped, ReleaseOwn, procVars, histVars
  <1>3. \A x \in Daemons : pc[x] \in {"setup"} \cup Up => pc'[x] \in {"setup"} \cup Up
    BY <1>1
       DEF ScriptReads, ScriptTerminates, ScriptWaited, LockRead, LockStale, BeginPolling,
           Shutdown, Stopped, ReleaseOwn, Goto, Shape, TypeOK, Up
  <1>. QED
    BY <1>2, <1>3, RemovableKept

LEMMA StepRemovable == RemovableInv /\ [Next]_vars => RemovableInv'
  <1>. SUFFICES ASSUME RemovableInv, [Next]_vars PROVE Removable'
    BY StepShape DEF RemovableInv
  <1>1. Shape /\ Daemons \subseteq Actors
    BY DEF RemovableInv, Actors
  <1>2. CASE UNCHANGED vars
    BY <1>2, RemovableKept DEF vars, procVars, histVars
  <1>3. ASSUME NEW d \in Daemons, NEW at \in {"script", "look"}, Start(d, at)
        PROVE  Removable'
    <2>1. pc[d] = "off" /\ \A x \in Daemons : x # d => pid'[x] = pid[x] /\ pc'[x] = pc[x]
      BY <1>1, <1>3 DEF Start, Goto, Shape, TypeOK
    <2>. QED
      BY <1>3, <2>1, RemovableKept DEF Start, histVars, Up
  <1>4. ASSUME NEW d \in Daemons, ScriptRemoves(d) \/ ReleaseUnlinks(d)
        PROVE  Removable'
    <2>1. lock' = None
      BY <1>4 DEF ScriptRemoves, ReleaseUnlinks, Unlink
    <2>. QED
      BY <2>1, NoneAssumption DEF Removable
  <1>5. ASSUME NEW d \in Daemons, LockOpen(d)
        PROVE  Removable'
    BY <1>5, NoneAssumption DEF LockOpen, Removable
  <1>6. ASSUME NEW d \in Daemons, LockWrite(d)
        PROVE  Removable'
    <2>1. d \in Actors /\ pid' = pid /\ unclean' = unclean
      BY <1>1, <1>6 DEF LockWrite, procVars, histVars
    <2>2. CASE d \in linked
      <3>1. lock' = pid[d] /\ pc'[d] = "setup"
        BY <1>1, <1>6, <2>1, <2>2 DEF LockWrite, Goto, Shape, TypeOK
      <3>2. pid[d] # Empty
        BY <1>1, NoneAssumption DEF Shape, TypeOK
      <3>. QED
        BY <2>1, <3>1, <3>2 DEF Removable
    <2>3. CASE d \notin linked
      <3>1. lock' = lock /\ linked' = linked
        BY <1>6, <2>3 DEF LockWrite
      <3>2. \A x \in Daemons : pc[x] \in {"setup"} \cup Up => pc'[x] = pc[x]
        BY <1>1, <1>6 DEF LockWrite, Goto, Shape, TypeOK, Up
      <3>. QED
        BY <2>1, <3>1, <3>2, RemovableKept DEF fileVars
    <2>. QED
      BY <2>2, <2>3
  <1>7. ASSUME NEW d \in Daemons, LockRefused(d)
        PROVE  Removable'
    <2>1. pc[d] = "probe" /\ \A x \in Daemons : x # d => pid'[x] = pid[x] /\ pc'[x] = pc[x]
      BY <1>1, <1>7 DEF LockRefused, Ends, Goto, Shape, TypeOK
    <2>. QED
      BY <1>7, <2>1, RemovableKept DEF LockRefused, Up
  <1>8. ASSUME NEW d \in Daemons, ReleaseForeign(d)
        PROVE  Removable'
    <2>1. lock # pid[d] /\ \A x \in Daemons : x # d => pid'[x] = pid[x] /\ pc'[x] = pc[x]
      BY <1>1, <1>8 DEF ReleaseForeign, Ends, Goto, Shape, TypeOK
    <2>. QED
      BY <1>8, <2>1, RemovableKept DEF ReleaseForeign, histVars
  <1>9. ASSUME NEW d \in Daemons, TerminatedEarly(d) \/ Crash(d)
        PROVE  Removable'
    BY <1>9 DEF TerminatedEarly, Crash, Removable
  <1>10. ASSUME NEW d \in Daemons, ScriptKills(d)
         PROVE  Removable'
    <2>1. CASE unclean'
      BY <2>1 DEF Removable
    <2>2. CASE ~unclean'
      <3>1. \A x \in Daemons : pid[x] # seen[d]
        BY <1>10, <2>2 DEF ScriptKills
      <3>2. pc[d] = "wait" /\ lock' = lock /\ linked' = linked
        BY <1>10, <3>1 DEF ScriptKills
      <3>4. ~unclean
        BY <1>10, <2>2 DEF ScriptKills
      <3>3. \A x \in Daemons : pid'[x] = pid[x] /\ (x # d => pc'[x] = pc[x])
        BY <1>1, <1>10, <3>1 DEF ScriptKills, Shape, TypeOK
      <3>. QED
        BY <2>2, <3>2, <3>3, <3>4 DEF RemovableInv, Removable, Up
    <2>. QED
      BY <2>1, <2>2
  <1>11. CASE \/ \E r \in Removers : RemoverReads(r) \/ RemoverSignals(r)
              \/ \E t \in Tools : ToolStep(t)
              \/ \E p \in Pids : OtherStarts(p) \/ OtherEnds(p)
    <2>1. pid' = pid /\ \A x \in Daemons : pc'[x] = pc[x]
      BY <1>1, <1>11, OthersShape DEF RemoverStep
    <2>2. unclean' = unclean /\ UNCHANGED fileVars
      BY <1>11
         DEF RemoverReads, RemoverSignals, ToolStep, ToolReads, ToolBusy, ToolDrains, ToolDone,
             OtherStarts, OtherEnds, histVars
    <2>. QED
      BY <2>1, <2>2, RemovableKept
  <1>12. ASSUME NEW r \in Removers, RemoverUnlinks(r)
         PROVE  Removable'
    BY <1>12, NoneAssumption DEF RemoverUnlinks, Unlink, Removable
  <1>. QED
    BY <1>2, <1>3, <1>4, <1>5, <1>6, <1>7, <1>8, <1>9, <1>10, <1>11, <1>12,
       DaemonGoesOnRemovable
       DEF Next, DaemonStep, ScriptStep, AcquireStep, ReleaseStep, RemoverStep

(***************************************************************************)
(* When every daemon has ended by way of release_lock, no lock is left,    *)
(* however their starts and exits interleaved, whoever removed the file    *)
(* in between and however PIDs are reused (daemon.py:132-138).             *)
(***************************************************************************)
THEOREM NoLockLeftHolds == Spec => []NoLockLeft
  <1>1. RemovableInv => NoLockLeft
    <2>. SUFFICES ASSUME RemovableInv, ~unclean, \A d \in Daemons : ~Alive(d)
                  PROVE  lock = None
      BY DEF NoLockLeft
    <2>1. lock \notin Pids
      BY NoneAssumption DEF RemovableInv, Removable, Alive
    <2>2. linked = {}
      BY DEF RemovableInv, Shape, TypeOK, Living, Links, Starting
    <2>. QED
      BY <2>1, <2>2 DEF RemovableInv, Removable, Shape, TypeOK
  <1>. QED
    BY <1>1, InitRemovable, StepRemovable, PTL DEF Spec

-----------------------------------------------------------------------------
(* One daemon at a time                                                    *)

OneStarting ==
  \A d, x \in Daemons : pc[d] \in Starting /\ pc[x] \in Starting => d = x

OneUp == \A d, x \in Daemons : pc[d] \in Up /\ pc[x] \in Up => d = x

(***************************************************************************)
(* A daemon that starts while another is up has not got past it: if it has *)
(* looked at the lock, it has seen the other's PID.                        *)
(***************************************************************************)
NotPast ==
  \A d, u \in Daemons :
    pc[u] \in Up =>
      /\ pc[d] \in {"term", "wait", "probe"} => seen[d] = pid[u]
      /\ pc[d] \notin {"rm", "open", "write", "setup"}

\* From its write to its unlink the lock is the daemon's.
Owned ==
  \A d \in Daemons :
    /\ pc[d] = "write" => d \in linked
    /\ pc[d] \in {"setup"} \cup Up => lock = pid[d]

Serial == OneStarting /\ OneUp /\ NotPast /\ Owned

SerialInv == Shape /\ Serial

LEMMA InitSerial == Init => SerialInv
  <1>. SUFFICES ASSUME Init PROVE Serial
    BY InitShape DEF SerialInv
  <1>1. \A d \in Daemons : pc[d] = "off"
    BY DEF Init, Actors
  <1>. QED
    BY <1>1 DEF Serial, OneStarting, OneUp, NotPast, Owned, Starting, Up

\* Steps that change neither the lock nor what a daemon is about.
LEMMA SerialKept ==
  ASSUME SerialInv, UNCHANGED fileVars,
         \A x \in Daemons : pc'[x] = pc[x] /\ pid'[x] = pid[x] /\ seen'[x] = seen[x]
  PROVE  Serial'
  BY DEF SerialInv, Serial, OneStarting, OneUp, NotPast, Owned, fileVars

\* Steps of daemon d: the others are where they were.
StepsAlone(d) ==
  \A x \in Daemons \ {d} : pc'[x] = pc[x] /\ pid'[x] = pid[x] /\ seen'[x] = seen[x]

LEMMA ScriptSerial ==
  ASSUME SerialInv, NEW d \in Daemons,
         ScriptReads(d) \/ ScriptTerminates(d) \/ ScriptWaited(d) \/ ScriptRemoves(d)
  PROVE  Serial'
  <1>1. TypeOK /\ Living /\ Serial /\ d \in Actors /\ Daemons \subseteq Actors
    BY DEF SerialInv, Shape, Actors
  <1>2. StepsAlone(d) /\ pid' = pid
    BY <1>1
       DEF StepsAlone, ScriptReads, ScriptTerminates, ScriptWaited, ScriptRemoves, ReadLock, Goto,
           TypeOK, procVars
  <1>3. CASE ScriptReads(d)
    <2>1. /\ pc[d] = "script" /\ pc'[d] \in {"term", "look"} /\ UNCHANGED fileVars
          /\ pc'[d] = "term" => seen'[d] = lock
          /\ pc'[d] = "look" => ~(lock \in Pids /\ PidAlive(lock))
      BY <1>1, <1>3 DEF ScriptReads, ReadLock, Goto, TypeOK
    <2>2. \A u \in Daemons : pc[u] \in Up => lock = pid[u] /\ lock \in Pids /\ PidAlive(lock)
      BY <1>1 DEF Serial, Owned, Living, Alive, PidAlive, LivePids, TypeOK
    <2>. QED
      BY <1>1, <1>2, <2>1, <2>2
         DEF StepsAlone, Serial, OneStarting, OneUp, NotPast, Owned, Starting, Up, fileVars
  <1>4. CASE ScriptTerminates(d)
    <2>1. pc[d] = "term" /\ pc'[d] = "wait" /\ seen' = seen /\ UNCHANGED fileVars
      BY <1>1, <1>4 DEF ScriptTerminates, Goto, TypeOK
    <2>. QED
      BY <1>1, <1>2, <2>1
         DEF StepsAlone, Serial, OneStarting, OneUp, NotPast, Owned, Starting, Up, fileVars
  <1>5. CASE ScriptWaited(d)
    <2>1. /\ pc[d] = "wait" /\ pc'[d] = "rm" /\ seen' = seen /\ UNCHANGED fileVars
          /\ ~PidAlive(seen[d])
      BY <1>1, <1>5 DEF ScriptWaited, Goto, TypeOK
    <2>2. \A u \in Daemons : pc[u] \notin Up
      BY <1>1, <2>1 DEF Serial, NotPast, Living, Alive, PidAlive, LivePids
    <2>. QED
      BY <1>1, <1>2, <2>1, <2>2
         DEF StepsAlone, Serial, OneStarting, OneUp, NotPast, Owned, Starting, Up, fileVars
  <1>6. CASE ScriptRemoves(d)
    <2>1. pc[d] = "rm" /\ pc'[d] = "look" /\ seen' = seen
      BY <1>1, <1>6 DEF ScriptRemoves, Goto, TypeOK
    <2>2. \A u \in Daemons : pc[u] \notin Up /\ (u # d => pc[u] \notin Starting)
      BY <1>1, <2>1 DEF Serial, NotPast, OneStarting, Starting
    <2>. QED
      BY <1>1, <1>2, <2>1, <2>2
         DEF StepsAlone, Serial, OneStarting, OneUp, NotPast, Owned, Starting, Up
  <1>. QED
    BY <1>3, <1>4, <1>5, <1>6

LEMMA ScriptKillsSerial ==
  ASSUME SerialInv, NEW d \in Daemons, ScriptKills(d)
  PROVE  Serial'
  <1>1. TypeOK /\ Serial /\ Daemons \subseteq Actors
    BY DEF SerialInv, Shape, Actors
  <1>2. \A x \in Daemons :
          \/ pid[x] = seen[d] /\ pc'[x] = "dead"
          \/ pid[x] # seen[d] /\ pc'[x] = IF x = d THEN "rm" ELSE pc[x]
    BY <1>1 DEF ScriptKills, TypeOK
  <1>3. pc[d] = "wait" /\ \A u \in Daemons : pc[u] \in Up => pid[u] = seen[d]
    BY <1>1 DEF ScriptKills, Serial, NotPast
  <1>4. \A x \in Daemons : pc'[x] \notin Up /\ (x # d => pc'[x] \notin Starting)
    BY <1>1, <1>2, <1>3 DEF Serial, OneStarting, Starting, Up
  <1>5. pc'[d] \in {"dead", "rm"}
    BY <1>2
  <1>. QED
    BY <1>4, <1>5 DEF Serial, OneStarting, OneUp, NotPast, Owned, Starting

LEMMA AcquireSerial ==
  ASSUME SerialInv, NEW d \in Daemons, AcquireStep(d)
  PROVE  Serial'
  <1>1. TypeOK /\ Living /\ Serial /\ d \in Actors /\ Daemons \subseteq Actors
    BY DEF SerialInv, Shape, Actors
  <1>2. StepsAlone(d)
    BY <1>1
       DEF StepsAlone, AcquireStep, LockRead, LockRefused, LockStale, LockOpen, LockWrite,
           BeginPolling, ReadLock, Ends, Goto, TypeOK, procVars
  <1>3. pc[d] \in Starting /\ \A x \in Daemons \ {d} : pc[x] \notin Starting
    BY <1>1
       DEF AcquireStep, LockRead, LockRefused, LockStale, LockOpen, LockWrite, BeginPolling,
           Starting, Serial, OneStarting
  <1>4. CASE LockRead(d)
    <2>1. pc[d] = "look" /\ pc'[d] = "probe" /\ UNCHANGED fileVars /\ pid' = pid
          /\ seen'[d] = IF lock \in Pids THEN lock ELSE None
      BY <1>1, <1>4 DEF LockRead, ReadLock, Goto, TypeOK, procVars
    <2>2. \A u \in Daemons : pc[u] \in Up => lock = pid[u] /\ lock \in Pids
      BY <1>1 DEF Serial, Owned, Living, Alive, TypeOK
    <2>. QED
      BY <1>1, <1>2, <1>3, <2>1, <2>2
         DEF StepsAlone, Serial, OneStarting, OneUp, NotPast, Owned, Starting, Up, fileVars
  <1>5. CASE LockRefused(d)
    <2>1. pc'[d] = "refused" /\ UNCHANGED fileVars
      BY <1>1, <1>5 DEF LockRefused, Goto, TypeOK
    <2>. QED
      BY <1>1, <1>2, <1>3, <2>1
         DEF StepsAlone, Serial, OneStarting, OneUp, NotPast, Owned, Starting, Up, fileVars
  <1>6. CASE LockStale(d)
    <2>1. /\ pc[d] = "probe" /\ pc'[d] = "open" /\ UNCHANGED fileVars
          /\ ~(seen[d] # None /\ PidAlive(seen[d]))
      BY <1>1, <1>6 DEF LockStale, Goto, TypeOK
    <2>2. \A u \in Daemons : pc[u] \notin Up
      BY <1>1, <2>1 DEF Serial, NotPast, Living, Alive, PidAlive, LivePids
    <2>. QED
      BY <1>1, <1>2, <1>3, <2>1, <2>2
         DEF StepsAlone, Serial, OneStarting, OneUp, NotPast, Owned, Starting, Up, fileVars
  <1>7. CASE LockOpen(d)
    <2>1. pc[d] = "open" /\ pc'[d] = "write" /\ d \in linked'
      BY <1>1, <1>7 DEF LockOpen, Goto, TypeOK
    <2>2. \A u \in Daemons : pc[u] \notin Up
      BY <1>1, <2>1 DEF Serial, NotPast
    <2>. QED
      BY <1>1, <1>2, <1>3, <2>1, <2>2
         DEF StepsAlone, Serial, OneStarting, OneUp, NotPast, Owned, Starting, Up
  <1>8. CASE LockWrite(d)
    <2>1. pc[d] = "write" /\ pc'[d] = "setup" /\ pid' = pid
      BY <1>1, <1>8 DEF LockWrite, Goto, TypeOK, procVars
    <2>2. \A u \in Daemons : pc[u] \notin Up
      BY <1>1, <2>1 DEF Serial, NotPast
    <2>3. lock' = pid[d]
      BY <1>1, <1>8, <2>1 DEF LockWrite, Serial, Owned
    <2>. QED
      BY <1>1, <1>2, <1>3, <2>1, <2>2, <2>3
         DEF StepsAlone, Serial, OneStarting, OneUp, NotPast, Owned, Starting, Up
  <1>9. CASE BeginPolling(d)
    <2>1. pc[d] = "setup" /\ pc'[d] = "running" /\ UNCHANGED fileVars /\ pid' = pid
      BY <1>1, <1>9 DEF BeginPolling, Goto, TypeOK, procVars
    <2>2. \A u \in Daemons : pc[u] \notin Up
      BY <1>1, <2>1 DEF Serial, NotPast
    <2>. QED
      BY <1>1, <1>2, <1>3, <2>1, <2>2
         DEF StepsAlone, Serial, OneStarting, OneUp, NotPast, Owned, Starting, Up, fileVars
  <1>. QED
    BY <1>4, <1>5, <1>6, <1>7, <1>8, <1>9 DEF AcquireStep

LEMMA EndSerial ==
  ASSUME SerialInv, NEW d \in Daemons,
         Shutdown(d) \/ ReleaseStep(d) \/ TerminatedEarly(d) \/ Crash(d)
  PROVE  Serial'
  <1>1. TypeOK /\ Living /\ Serial /\ d \in Actors /\ Daemons \subseteq Actors
    BY DEF SerialInv, Shape, Actors
  <1>2. StepsAlone(d) /\ seen' = seen
    BY <1>1
       DEF StepsAlone, Shutdown, ReleaseStep, TerminatedEarly, Crash, Stopped, ReleaseOwn,
           ReleaseUnlinks, ReleaseForeign, Ends, Goto, TypeOK, procVars
  <1>3. CASE Shutdown(d) \/ Stopped(d) \/ ReleaseOwn(d)
    <2>1. pc[d] \in Up /\ pc'[d] \in Up /\ UNCHANGED fileVars /\ pid' = pid
      BY <1>1, <1>3 DEF Shutdown, Stopped, ReleaseOwn, Goto, TypeOK, Up, procVars
    <2>. QED
      BY <1>1, <1>2, <2>1
         DEF StepsAlone, Serial, OneStarting, OneUp, NotPast, Owned, Starting, Up, fileVars
  <1>4. CASE ReleaseUnlinks(d)
    <2>1. pc[d] \in Up /\ pc'[d] = "dead"
      BY <1>1, <1>4 DEF ReleaseUnlinks, Goto, TypeOK, Up
    <2>2. \A x \in Daemons \ {d} : pc[x] \notin Up \cup {"write", "setup"}
      BY <1>1, <2>1 DEF Serial, OneUp, NotPast
    <2>. QED
      BY <1>1, <1>2, <2>1, <2>2
         DEF StepsAlone, Serial, OneStarting, OneUp, NotPast, Owned, Starting, Up
  <1>5. CASE ReleaseForeign(d) \/ TerminatedEarly(d) \/ Crash(d)
    <2>1. /\ pc'[d] = "dead" /\ lock' = lock
          /\ \A x \in Daemons \ {d} : x \in linked => x \in linked'
      BY <1>1, <1>5 DEF ReleaseForeign, TerminatedEarly, Crash, Goto, TypeOK, fileVars
    <2>. QED
      BY <1>1, <1>2, <2>1
         DEF StepsAlone, Serial, OneStarting, OneUp, NotPast, Owned, Starting, Up
  <1>. QED
    BY <1>3, <1>4, <1>5 DEF ReleaseStep

LEMMA StepSerial ==
  ASSUME SerialStarts, Removers = {}
  PROVE  SerialInv /\ [Next]_vars => SerialInv'
  <1>. SUFFICES ASSUME SerialInv, [Next]_vars PROVE Serial'
    BY StepShape DEF SerialInv
  <1>1. Shape /\ Serial /\ Daemons \subseteq Actors
    BY DEF SerialInv, Actors
  <1>2. CASE UNCHANGED vars
    BY <1>2, SerialKept DEF vars, procVars
  <1>3. ASSUME NEW d \in Daemons, NEW at \in {"script", "look"}, Start(d, at)
        PROVE  Serial'
    <2>1. /\ pc[d] = "off" /\ pc'[d] = at /\ UNCHANGED fileVars
          /\ StepsAlone(d)
          /\ \A x \in Daemons : pc[x] \notin Starting
      BY <1>1, <1>3 DEF Start, Goto, Shape, TypeOK, StepsAlone
    <2>. QED
      BY <1>1, <2>1
         DEF StepsAlone, Serial, OneStarting, OneUp, NotPast, Owned, Starting, Up, fileVars
  <1>4. CASE \/ \E t \in Tools : ToolStep(t)
             \/ \E p \in Pids : OtherStarts(p) \/ OtherEnds(p)
    <2>1. pid' = pid /\ \A x \in Daemons : pc'[x] = pc[x] /\ seen'[x] = seen[x]
      BY <1>1, <1>4, OthersShape
    <2>2. UNCHANGED fileVars
      BY <1>4
         DEF ToolStep, ToolReads, ToolBusy, ToolDrains, ToolDone, OtherStarts, OtherEnds
    <2>. QED
      BY <2>1, <2>2, SerialKept
  <1>. QED
    BY <1>2, <1>3, <1>4, ScriptSerial, ScriptKillsSerial, AcquireSerial, EndSerial
       DEF Next, DaemonStep, ScriptStep

(***************************************************************************)
(* While daemons are started one after the other and no remove_peer_op     *)
(* runs, at most one polls the inbox, however many starts, with --restart  *)
(* or without, crash or are killed, and however PIDs are reused            *)
(* (a2a-protocol.md:270, 275).                                             *)
(***************************************************************************)
THEOREM SingleDaemonHolds ==
  ASSUME SerialStarts, Removers = {}
  PROVE  Spec => []SingleDaemon
  <1>1. SerialInv => SingleDaemon
    BY DEF SerialInv, Serial, OneUp, SingleDaemon, Up
  <1>. QED
    BY <1>1, InitSerial, StepSerial, PTL DEF Spec

-----------------------------------------------------------------------------
(* Nobody is misled                                                        *)

\* The PID of a daemon is not that of anybody else, then or later.
Distinct ==
  /\ others \subseteq used
  /\ \A d \in Daemons : Alive(d) => pid[d] \in used \ others
  /\ \A d, x \in Daemons : Alive(d) /\ pid[d] = pid[x] => d = x

\* Nor is one that was once in the lock file, or was read from it.
Written ==
  /\ lock \in Pids => lock \in used \ others
  /\ \A a \in Actors : seen[a] # None => seen[a] \in used \ others

PreWrite == Starting \ {"setup"}

\* A daemon that has yet to write its PID cannot have read it.
Unwritten ==
  \A d \in Daemons :
    /\ pc[d] = "off" => seen[d] = None
    /\ pc[d] \in PreWrite => lock # pid[d] /\ seen[d] # pid[d]

Fresh == Distinct /\ Written /\ Unwritten

FreshInv == Shape /\ Fresh /\ NobodyMisled

LEMMA InitFresh == Init => FreshInv
  <1>. SUFFICES ASSUME Init PROVE Fresh /\ NobodyMisled
    BY InitShape DEF FreshInv
  <1>1. \A d \in Daemons : pc[d] = "off" /\ seen[d] = None /\ pid[d] = None
    BY DEF Init, Actors
  <1>2. Distinct
    BY <1>1 DEF Init, Distinct, Alive
  <1>3. Written
    BY NoneAssumption DEF Init, Written
  <1>4. Unwritten
    BY <1>1 DEF Unwritten, PreWrite, Starting
  <1>. QED
    BY <1>2, <1>3, <1>4 DEF Init, Fresh, NobodyMisled

\* Reading the lock, an actor sees a PID that was written there.
LEMMA ReadLockSees ==
  ASSUME FreshInv, NEW a \in Actors, ReadLock(a)
  PROVE  /\ \A b \in Actors : seen'[b] # None => seen'[b] \in used \ others
         /\ \A b \in Actors \ {a} : seen'[b] = seen[b]
         /\ seen'[a] \in {lock, None}
  BY DEF FreshInv, Fresh, Written, ReadLock, Shape, TypeOK

\* Who finds the PID it has read alive is not misled: it is that of a daemon.
LEMMA TruthRead ==
  ASSUME FreshInv, NEW a \in Actors, Mislead(a), seen[a] # None, PidAlive(seen[a]),
         a \in Daemons => seen[a] # pid[a]
  PROVE  NobodyMisled'
  <1>1. PICK d \in Daemons : Alive(d) /\ pid[d] = seen[a]
    BY DEF FreshInv, Fresh, Written, PidAlive, LivePids
  <1>2. d # a /\ pc[d] \in Up \cup Starting
    BY <1>1 DEF FreshInv, Shape, Living
  <1>. QED
    BY <1>2 DEF Mislead, FreshInv, NobodyMisled

LEMMA StartFresh ==
  ASSUME ~PidReuse, FreshInv, NEW d \in Daemons, NEW at \in {"script", "look"}, Start(d, at)
  PROVE  Fresh'
  <1>1. Shape /\ Fresh /\ d \in Actors
    BY DEF FreshInv, Actors
  <1>2. PICK p \in Pids \ used : pid' = [pid EXCEPT ![d] = p] /\ used' = used \cup {p}
    BY DEF Start, FreePids
  <1>3. p # None /\ seen[d] = None
    BY <1>1, NoneAssumption DEF Start, Fresh, Unwritten
  <1>4. Distinct' /\ Written'
    BY <1>1, <1>2, <1>3
       DEF Start, Fresh, Distinct, Written, Shape, TypeOK, Alive, fileVars
  <1>5. Unwritten'
    BY <1>1, <1>2, <1>3
       DEF Start, Goto, Fresh, Written, Unwritten, Shape, TypeOK, fileVars
  <1>. QED
    BY <1>4, <1>5 DEF Fresh

\* A daemon goes on without touching the lock file.
LEMMA GoesOnFresh ==
  ASSUME FreshInv, NEW d \in Daemons, UNCHANGED <<procVars, fileVars>>,
         pc'[d] # "off", pc'[d] \in PreWrite => pc[d] \in PreWrite,
         \A x \in Daemons \ {d} : pc'[x] = pc[x],
         seen' = seen \/ ReadLock(d)
  PROVE  Fresh'
  <1>1. Shape /\ Fresh /\ d \in Actors /\ Daemons \subseteq Actors
    BY DEF FreshInv, Actors
  <1>2. Distinct'
    BY <1>1 DEF Fresh, Distinct, Alive, procVars
  <1>3. Written'
    BY <1>1, ReadLockSees DEF Fresh, Written, procVars, fileVars
  <1>4. \A x \in Daemons \ {d} : seen'[x] = seen[x]
    BY <1>1, ReadLockSees
  <1>5. pc'[d] \in PreWrite => seen'[d] # pid[d] /\ lock # pid[d]
    BY <1>1, ReadLockSees DEF Shape, Living, Alive, Fresh, Unwritten, PreWrite
  <1>6. Unwritten'
    BY <1>1, <1>4, <1>5 DEF Fresh, Unwritten, procVars, fileVars
  <1>. QED
    BY <1>2, <1>3, <1>6 DEF Fresh

\* Daemons end, and with them their hold on their PIDs; the lock file stays or
\* goes.
LEMMA EndsFresh ==
  ASSUME FreshInv, lock' \in {lock, None}, used' = used, others' \subseteq others, seen' = seen,
         \A x \in Daemons :
           \/ pid'[x] = pid[x] /\ pc'[x] # "off" /\ (pc'[x] \in PreWrite => pc[x] \in PreWrite)
           \/ pid'[x] = pid[x] /\ pc'[x] = pc[x]
           \/ pid'[x] = None /\ pc'[x] \in {"refused", "dead"}
  PROVE  Fresh'
  <1>1. Shape /\ Fresh
    BY DEF FreshInv
  <1>2. Distinct'
    BY <1>1 DEF Fresh, Distinct, Alive
  <1>3. Written'
    BY <1>1, NoneAssumption DEF Fresh, Written
  <1>4. Unwritten'
    BY <1>1 DEF Shape, Living, Alive, Fresh, Unwritten, PreWrite, Starting
  <1>. QED
    BY <1>2, <1>3, <1>4 DEF Fresh

LEMMA WritesFresh ==
  ASSUME FreshInv, NEW d \in Daemons, LockOpen(d) \/ LockWrite(d)
  PROVE  Fresh'
  <1>1. TypeOK /\ Living /\ Fresh /\ d \in Actors /\ Daemons \subseteq Actors
    BY DEF FreshInv, Shape, Actors
  <1>2. /\ UNCHANGED procVars /\ seen' = seen
        /\ lock' \in {lock, Empty, pid[d]}
        /\ pc[d] \in PreWrite /\ pc'[d] \in {"write", "setup"}
        /\ pc'[d] = "write" => lock' = Empty
        /\ \A x \in Daemons \ {d} : pc'[x] = pc[x]
    BY <1>1 DEF LockOpen, LockWrite, Goto, TypeOK, PreWrite, Starting
  <1>3. Distinct'
    BY <1>1, <1>2 DEF Fresh, Distinct, Alive, procVars
  <1>4. Alive(d) /\ \A x \in Daemons : pid[x] # Empty
    BY <1>1, <1>2, NoneAssumption DEF Living, PreWrite, TypeOK
  <1>5. Written'
    BY <1>1, <1>2, <1>4, NoneAssumption DEF Fresh, Distinct, Written, procVars
  <1>6. Unwritten'
    BY <1>1, <1>2, <1>4, NoneAssumption
       DEF Fresh, Distinct, Unwritten, Living, Alive, PreWrite, procVars
  <1>. QED
    BY <1>3, <1>5, <1>6 DEF Fresh

\* Neither a remover nor clade_inbox is a daemon.
LEMMA ReadersFresh ==
  ASSUME FreshInv,
         \/ \E r \in Removers : RemoverStep(r)
         \/ \E t \in Tools : ToolStep(t)
  PROVE  Fresh'
  <1>1. Shape /\ Fresh /\ Removers \subseteq Actors /\ Tools \subseteq Actors
    BY DEF FreshInv, Actors
  <1>2. pid' = pid /\ \A x \in Daemons : pc'[x] = pc[x] /\ seen'[x] = seen[x]
    BY <1>1, OthersShape
  <1>3. UNCHANGED procVars /\ lock' \in {lock, None}
        /\ (seen' = seen \/ \E a \in Actors : ReadLock(a))
    BY <1>1
       DEF RemoverStep, RemoverReads, RemoverSignals, RemoverUnlinks, Unlink, ToolStep,
           ToolReads, ToolBusy, ToolDrains, ToolDone, procVars, fileVars
  <1>4. Distinct'
    BY <1>1, <1>2, <1>3 DEF Fresh, Distinct, Alive, procVars
  <1>5. Written'
    BY <1>1, <1>3, ReadLockSees, NoneAssumption DEF Fresh, Written, procVars
  <1>6. Unwritten'
    BY <1>1, <1>2, <1>3 DEF Shape, Living, Alive, Fresh, Unwritten, PreWrite
  <1>. QED
    BY <1>4, <1>5, <1>6 DEF Fresh

LEMMA DaemonFresh ==
  ASSUME ~PidReuse, FreshInv, NEW d \in Daemons, DaemonStep(d)
  PROVE  Fresh'
  <1>1. TypeOK /\ d \in Actors /\ Daemons \subseteq Actors
    BY DEF FreshInv, Shape, Actors
  <1>2. ASSUME \/ ScriptReads(d) \/ ScriptTerminates(d) \/ ScriptWaited(d)
               \/ LockRead(d) \/ LockStale(d) \/ BeginPolling(d)
               \/ Shutdown(d) \/ Stopped(d) \/ ReleaseOwn(d)
        PROVE  Fresh'
    <2>1. UNCHANGED <<procVars, fileVars>> /\ (seen' = seen \/ ReadLock(d))
      BY <1>2
         DEF ScriptReads, ScriptTerminates, ScriptWaited, LockRead, LockStale, BeginPolling,
             Shutdown, Stopped, ReleaseOwn
    <2>2. /\ pc'[d] # "off" /\ (pc'[d] \in PreWrite => pc[d] \in PreWrite)
          /\ \A x \in Daemons \ {d} : pc'[x] = pc[x]
      BY <1>1, <1>2
         DEF ScriptReads, ScriptTerminates, ScriptWaited, LockRead, LockStale, BeginPolling,
             Shutdown, Stopped, ReleaseOwn, Goto, TypeOK, PreWrite, Starting
    <2>. QED
      BY <2>1, <2>2, GoesOnFresh
  <1>3. CASE ScriptRemoves(d)
    <2>1. /\ lock' = None /\ UNCHANGED procVars /\ seen' = seen
          /\ pc[d] = "rm" /\ pc'[d] = "look"
          /\ \A x \in Daemons \ {d} : pc'[x] = pc[x]
      BY <1>1, <1>3 DEF ScriptRemoves, Unlink, Goto, TypeOK
    <2>. QED
      BY <2>1, EndsFresh DEF procVars, PreWrite, Starting
  <1>4. ASSUME \/ LockRefused(d) \/ ReleaseUnlinks(d) \/ ReleaseForeign(d)
               \/ TerminatedEarly(d) \/ Crash(d)
        PROVE  Fresh'
    <2>1. lock' \in {lock, None} /\ used' = used /\ others' = others /\ seen' = seen
      BY <1>4
         DEF LockRefused, ReleaseUnlinks, ReleaseForeign, TerminatedEarly, Crash, Unlink, Ends,
             fileVars
    <2>2. /\ pid'[d] = None /\ pc'[d] \in {"refused", "dead"}
          /\ \A x \in Daemons \ {d} : pid'[x] = pid[x] /\ pc'[x] = pc[x]
      BY <1>1, <1>4
         DEF LockRefused, ReleaseUnlinks, ReleaseForeign, TerminatedEarly, Crash, Ends, Goto,
             TypeOK
    <2>. QED
      BY <2>1, <2>2, EndsFresh
  <1>5. CASE ScriptKills(d)
    <2>1. \A x \in Daemons :
            \/ pid'[x] = None /\ pc'[x] = "dead"
            \/ pid'[x] = pid[x] /\ pc'[x] = IF x = d THEN "rm" ELSE pc[x]
      BY <1>1, <1>5 DEF ScriptKills, TypeOK
    <2>2. /\ pc[d] = "wait" /\ lock' = lock /\ used' = used /\ others' \subseteq others
          /\ seen' = seen
      BY <1>5 DEF ScriptKills
    <2>. QED
      BY <2>1, <2>2, EndsFresh DEF PreWrite, Starting
  <1>. QED
    BY <1>2, <1>3, <1>4, <1>5, StartFresh, WritesFresh
       DEF DaemonStep, ScriptStep, AcquireStep, ReleaseStep

LEMMA StepFresh ==
  ASSUME ~PidReuse
  PROVE  FreshInv /\ [Next]_vars => FreshInv'
  <1>. SUFFICES ASSUME FreshInv, [Next]_vars PROVE Fresh' /\ NobodyMisled'
    BY StepShape DEF FreshInv
  <1>1. Shape /\ Fresh /\ NobodyMisled /\ Daemons \subseteq Actors
    BY DEF FreshInv, Actors
  <1>2. CASE UNCHANGED vars
    BY <1>1, <1>2
       DEF vars, procVars, fileVars, histVars, Fresh, Distinct, Written, Unwritten, Alive,
           NobodyMisled
  <1>3. ASSUME NEW d \in Daemons, DaemonStep(d)
        PROVE  Fresh' /\ NobodyMisled'
    <2>1. CASE LockRefused(d)
      <3>1. pc[d] = "probe" /\ Mislead(d) /\ seen[d] # None /\ PidAlive(seen[d])
        BY <2>1 DEF LockRefused
      <3>2. seen[d] # pid[d]
        BY <1>1, <3>1 DEF Fresh, Unwritten, PreWrite, Starting
      <3>. QED
        BY <1>1, <1>3, <3>1, <3>2, DaemonFresh, TruthRead
    <2>2. CASE misled' = misled
      BY <1>1, <1>3, <2>2, DaemonFresh DEF NobodyMisled
    <2>. QED
      BY <1>3, <2>1, <2>2
         DEF DaemonStep, Start, ScriptStep, ScriptReads, ScriptTerminates, ScriptWaited,
             ScriptKills, ScriptRemoves, AcquireStep, LockRead, LockStale, LockOpen, LockWrite,
             BeginPolling, ReleaseStep, Stopped, ReleaseOwn, ReleaseUnlinks, ReleaseForeign,
             Shutdown, TerminatedEarly, Crash, histVars
  <1>4. ASSUME NEW r \in Removers, RemoverStep(r)
        PROVE  Fresh' /\ NobodyMisled'
    <2>1. misled' = misled
      BY <1>4 DEF RemoverStep, RemoverReads, RemoverSignals, RemoverUnlinks, histVars
    <2>. QED
      BY <1>1, <1>4, <2>1, ReadersFresh DEF NobodyMisled
  <1>5. ASSUME NEW t \in Tools, ToolStep(t)
        PROVE  Fresh' /\ NobodyMisled'
    <2>1. CASE ToolBusy(t)
      BY <1>5, <2>1, ReadersFresh, TruthRead, ActorsAssumption DEF ToolBusy, Actors
    <2>2. CASE misled' = misled
      BY <1>1, <1>5, <2>2, ReadersFresh DEF NobodyMisled
    <2>. QED
      BY <1>5, <2>1, <2>2 DEF ToolStep, ToolReads, ToolDrains, ToolDone, histVars
  <1>6. ASSUME NEW p \in Pids, OtherStarts(p) \/ OtherEnds(p)
        PROVE  Fresh' /\ NobodyMisled'
    BY <1>1, <1>6
       DEF OtherStarts, OtherEnds, FreePids, fileVars, histVars, Fresh, Distinct, Written,
           Unwritten, Alive, NobodyMisled
  <1>. QED
    BY <1>2, <1>3, <1>4, <1>5, <1>6 DEF Next

(***************************************************************************)
(* Unless the system hands a PID out again, a start is refused, and        *)
(* clade_inbox answers busy, only on account of a daemon                   *)
(* (a2a-protocol.md:276); and while daemons are started one after the      *)
(* other and no remove_peer_op runs, the lock names the daemon that polls. *)
(***************************************************************************)
THEOREM LockTellsTruthHolds ==
  ASSUME ~PidReuse, SerialStarts, Removers = {}
  PROVE  Spec => []LockTellsTruth
  <1>1. FreshInv /\ SerialInv => LockTellsTruth
    BY DEF FreshInv, SerialInv, Serial, Owned, OwnerInLock, LockTellsTruth, Up
  <1>. QED
    BY <1>1, InitFresh, StepFresh, InitSerial, StepSerial, PTL DEF Spec

\* The first half of it, whoever else is at work on the lock file.
THEOREM NobodyMisledHolds ==
  ASSUME ~PidReuse
  PROVE  Spec => []NobodyMisled
  <1>1. FreshInv => NobodyMisled
    BY DEF FreshInv
  <1>. QED
    BY <1>1, InitFresh, StepFresh, PTL DEF Spec

=============================================================================
