----------------------------- MODULE DaemonLock -----------------------------
(***************************************************************************)
(* The PID file <peer>-daemon.lock and everybody who touches it: daemons   *)
(* that acquire and release it (agent/daemon.py), the start script with    *)
(* its --restart (clade_cli/templates/start.sh.j2), remove_peer_op         *)
(* (clade_cli/peer_ops.py) and clade_inbox, which only reads it            *)
(* (agent/main.py).  They are processes of one user on one machine; a step *)
(* is what one of them does between two system calls that others can see.  *)
(*                                                                         *)
(* A definition whose comment starts with "Faulty:" is not part of Next.   *)
(* It is a plausible bug in the definition below it, kept to show that the *)
(* properties notice the difference.                                       *)
(***************************************************************************)
EXTENDS Naturals, FiniteSets

CONSTANTS
  Daemons,       \* executions of a daemon, each one process
  Removers,      \* calls of remove_peer_op
  Tools,         \* clade_inbox calls
  Pids,          \* process ids
  None,          \* absent value; as the lock's content: there is no file
  Empty,         \* the lock's content between write_text's open and its write
  PidReuse,      \* whether the system hands a PID out again
  SerialStarts,  \* whether daemons are started one after the other
  CrashesMax     \* bound on SIGKILLs and power failures

ASSUME NoneAssumption ==
  /\ None \notin Pids /\ Empty \notin Pids /\ None # Empty
  /\ None \notin Daemons

\* Every one of them is a process of its own.
ASSUME ActorsAssumption ==
  /\ Daemons \cap Removers = {} /\ Daemons \cap Tools = {}
  /\ Removers \cap Tools = {}

ASSUME ScopeAssumption ==
  /\ {PidReuse, SerialStarts} \subseteq BOOLEAN
  /\ CrashesMax \in Nat

VARIABLES
  lock,     \* content of the lock file: None, Empty or a PID
  pid,      \* PID of each daemon's process, None when it does not live
  others,   \* PIDs of the user's other processes
  used,     \* history: PIDs handed out so far
  pc,       \* where each process is
  seen,     \* the PID each process has read from the lock, or None
  linked,   \* daemons whose open lock file is still the one in the directory
  signals,  \* daemons to which a SIGTERM is on its way
  misled,   \* history: who took the lock for held while no daemon lived
  unclean,  \* history: a daemon died without running release_lock
  crashes

procVars == <<pid, others, used>>
fileVars == <<lock, linked>>
histVars == <<misled, unclean, crashes>>
vars == <<procVars, fileVars, histVars, pc, seen, signals>>

Actors == Daemons \cup Removers \cup Tools

Starting ==
  {"script", "term", "wait", "rm", "look", "probe", "open", "write", "setup"}
Up == {"running", "stopping", "release", "unlink"}
Control == {"off", "refused", "dead", "kill", "drain", "done"} \cup Starting \cup Up

Alive(d) == pid[d] # None

LivePids == {pid[d] : d \in {x \in Daemons : Alive(x)}} \cup others

\* os.kill(pid, 0) succeeds
PidAlive(p) == p \in LivePids

Init ==
  /\ lock = None
  /\ pid = [d \in Daemons |-> None]
  /\ others = {}
  /\ used = {}
  /\ pc = [a \in Actors |-> "off"]
  /\ seen = [a \in Actors |-> None]
  /\ linked = {}
  /\ signals = {}
  /\ misled = {}
  /\ unclean = FALSE
  /\ crashes = 0

Goto(a, at) == pc' = [pc EXCEPT ![a] = at]

\* The file is removed; whoever has it open goes on writing to nowhere.
Unlink ==
  /\ lock' = None
  /\ linked' = {}

\* Faulty: an empty file is not told from a PID.
ReadLockRaw(a) == seen' = [seen EXCEPT ![a] = lock]

\* int(lock.read_text()): no file, or an empty one, yields no PID.
ReadLock(a) ==
  seen' = [seen EXCEPT ![a] = IF lock \in Pids THEN lock ELSE None]

\* The process of d ends and its PID is free again.
Ends(d) ==
  /\ pid' = [pid EXCEPT ![d] = None]
  /\ signals' = signals \ {d}
  /\ UNCHANGED <<others, used>>

\* An actor finds the PID it has read alive although no daemon is up.
Mislead(a) ==
  misled' = IF \E d \in Daemons : d # a /\ pc[d] \in Up \cup Starting
            THEN misled ELSE misled \cup {a}

-----------------------------------------------------------------------------
(* Process ids                                                             *)

FreePids == IF PidReuse THEN Pids \ LivePids ELSE Pids \ used

OtherStarts(p) ==
  /\ p \in FreePids
  /\ others' = others \cup {p}
  /\ used' = used \cup {p}
  /\ UNCHANGED <<pid, fileVars, histVars, pc, seen, signals>>

OtherEnds(p) ==
  /\ p \in others
  /\ others' = others \ {p}
  /\ UNCHANGED <<pid, used, fileVars, histVars, pc, seen, signals>>

\* A daemon is started, by hand or by its start script.
Start(d, at) ==
  /\ pc[d] = "off"
  /\ SerialStarts => \A x \in Daemons : pc[x] \notin Starting
  /\ \E p \in FreePids :
       /\ pid' = [pid EXCEPT ![d] = p]
       /\ used' = used \cup {p}
  /\ Goto(d, at)
  /\ UNCHANGED <<others, fileVars, histVars, seen, signals>>

-----------------------------------------------------------------------------
(* start-<peer>.sh --restart, which becomes the daemon by exec             *)

ScriptReads(d) ==
  /\ pc[d] = "script"
  /\ ReadLock(d)
  /\ Goto(d, IF lock \in Pids /\ PidAlive(lock) THEN "term" ELSE "look")
  /\ UNCHANGED <<procVars, fileVars, histVars, signals>>

\* kill -TERM; the target gets it when it is scheduled.
Signal(p) == signals' = signals \cup {x \in Daemons : Alive(x) /\ pid[x] = p}

ScriptTerminates(d) ==
  /\ pc[d] = "term"
  /\ Signal(seen[d])
  /\ Goto(d, "wait")
  /\ UNCHANGED <<procVars, fileVars, histVars, seen>>

\* Faulty: goes on without waiting for the old daemon.
ScriptHurries(d) ==
  /\ pc[d] = "wait"
  /\ Goto(d, "rm")
  /\ UNCHANGED <<procVars, fileVars, histVars, seen, signals>>

ScriptWaited(d) ==
  /\ pc[d] = "wait"
  /\ ~PidAlive(seen[d])
  /\ Goto(d, "rm")
  /\ UNCHANGED <<procVars, fileVars, histVars, seen, signals>>

\* After five seconds: kill -KILL, whoever has that PID by now.
ScriptKills(d) ==
  /\ pc[d] = "wait"
  /\ PidAlive(seen[d])
  /\ LET gone == {x \in Daemons : pid[x] = seen[d]} IN
     /\ pc' = [a \in Actors |-> IF a \in gone THEN "dead"
                                ELSE IF a = d THEN "rm" ELSE pc[a]]
     /\ pid' = [x \in Daemons |-> IF x \in gone THEN None ELSE pid[x]]
     /\ signals' = signals \ gone
     /\ linked' = linked \ gone
     /\ unclean' = (unclean \/ gone # {})
  /\ others' = others \ {seen[d]}
  /\ UNCHANGED <<lock, used, seen, misled, crashes>>

ScriptRemoves(d) ==
  /\ pc[d] = "rm"
  /\ Unlink
  /\ Goto(d, "look")
  /\ UNCHANGED <<procVars, histVars, seen, signals>>

-----------------------------------------------------------------------------
(* acquire_lock                                                            *)

LockRead(d) ==
  /\ pc[d] = "look"
  /\ ReadLock(d)
  /\ Goto(d, "probe")
  /\ UNCHANGED <<procVars, fileVars, histVars, signals>>

\* Faulty: any PID in the file counts as a daemon.
LockRefusedUnprobed(d) ==
  /\ pc[d] = "probe"
  /\ seen[d] # None
  /\ Goto(d, "refused")
  /\ Ends(d)
  /\ Mislead(d)
  /\ UNCHANGED <<fileVars, seen, unclean, crashes>>

\* The PID lives: exit 1.
LockRefused(d) ==
  /\ pc[d] = "probe"
  /\ seen[d] # None /\ PidAlive(seen[d])
  /\ Goto(d, "refused")
  /\ Ends(d)
  /\ Mislead(d)
  /\ UNCHANGED <<fileVars, seen, unclean, crashes>>

\* Faulty: the file is not looked at.
LockStaleAlways(d) ==
  /\ pc[d] = "probe"
  /\ Goto(d, "open")
  /\ UNCHANGED <<procVars, fileVars, histVars, seen, signals>>

\* No lock, no PID in it, or a PID that does not live: it is overwritten.
LockStale(d) ==
  /\ pc[d] = "probe"
  /\ ~(seen[d] # None /\ PidAlive(seen[d]))
  /\ Goto(d, "open")
  /\ UNCHANGED <<procVars, fileVars, histVars, seen, signals>>

\* write_text creates or truncates the file ...
LockOpen(d) ==
  /\ pc[d] = "open"
  /\ lock' = Empty
  /\ linked' = linked \cup {d}
  /\ Goto(d, "write")
  /\ UNCHANGED <<procVars, histVars, seen, signals>>

\* ... and then writes.
LockWrite(d) ==
  /\ pc[d] = "write"
  /\ lock' = IF d \in linked THEN pid[d] ELSE lock
  /\ linked' = linked \ {d}
  /\ Goto(d, "setup")
  /\ UNCHANGED <<procVars, histVars, seen, signals>>

\* The workdir is made, the signal handlers are installed, poll_loop runs.
BeginPolling(d) ==
  /\ pc[d] = "setup"
  /\ Goto(d, "running")
  /\ UNCHANGED <<procVars, fileVars, histVars, seen, signals>>

-----------------------------------------------------------------------------
(* The end of a daemon, and release_lock                                   *)

\* SIGTERM, or an exception that ends poll_loop: no more polling, in-flight
\* asks get ten seconds.
Shutdown(d) ==
  /\ pc[d] = "running"
  /\ Goto(d, "stopping")
  /\ signals' = signals \ {d}
  /\ UNCHANGED <<procVars, fileVars, histVars, seen>>

\* Before the handler is installed SIGTERM ends the process at once.
TerminatedEarly(d) ==
  /\ d \in signals /\ pc[d] \in Starting
  /\ Goto(d, "dead")
  /\ Ends(d)
  /\ linked' = linked \ {d}
  /\ unclean' = TRUE
  /\ UNCHANGED <<lock, seen, misled, crashes>>

Stopped(d) ==
  /\ pc[d] = "stopping"
  /\ Goto(d, "release")
  /\ UNCHANGED <<procVars, fileVars, histVars, seen, signals>>

\* lock.exists() and lock.read_text() == own PID
ReleaseOwn(d) ==
  /\ pc[d] = "release"
  /\ lock = pid[d]
  /\ Goto(d, "unlink")
  /\ UNCHANGED <<procVars, fileVars, histVars, seen, signals>>

\* Faulty: the lock is left behind.
ReleaseForgets(d) ==
  /\ pc[d] = "unlink"
  /\ Goto(d, "dead")
  /\ Ends(d)
  /\ UNCHANGED <<fileVars, histVars, seen>>

ReleaseUnlinks(d) ==
  /\ pc[d] = "unlink"
  /\ Unlink
  /\ Goto(d, "dead")
  /\ Ends(d)
  /\ UNCHANGED <<histVars, seen>>

ReleaseForeign(d) ==
  /\ pc[d] = "release"
  /\ lock # pid[d]
  /\ Goto(d, "dead")
  /\ Ends(d)
  /\ UNCHANGED <<fileVars, histVars, seen>>

Crash(d) ==
  /\ crashes < CrashesMax
  /\ Alive(d)
  /\ crashes' = crashes + 1
  /\ unclean' = TRUE
  /\ Goto(d, "dead")
  /\ Ends(d)
  /\ linked' = linked \ {d}
  /\ UNCHANGED <<lock, seen, misled>>

-----------------------------------------------------------------------------
(* remove_peer_op, step 4                                                  *)

RemoverReads(r) ==
  /\ pc[r] = "off"
  /\ lock # None
  /\ ReadLock(r)
  /\ Goto(r, "kill")
  /\ UNCHANGED <<procVars, fileVars, histVars, signals>>

RemoverSignals(r) ==
  /\ pc[r] = "kill"
  /\ Signal(seen[r])
  /\ Goto(r, "unlink")
  /\ UNCHANGED <<procVars, fileVars, histVars, seen>>

RemoverUnlinks(r) ==
  /\ pc[r] = "unlink"
  /\ Unlink
  /\ Goto(r, "done")
  /\ UNCHANGED <<procVars, histVars, seen, signals>>

-----------------------------------------------------------------------------
(* clade_inbox                                                             *)

ToolReads(t) ==
  /\ pc[t] = "off"
  /\ ReadLock(t)
  /\ Goto(t, "probe")
  /\ UNCHANGED <<procVars, fileVars, histVars, signals>>

\* "busy: daemon owns inbox"
ToolBusy(t) ==
  /\ pc[t] = "probe"
  /\ seen[t] # None /\ PidAlive(seen[t])
  /\ Goto(t, "done")
  /\ Mislead(t)
  /\ UNCHANGED <<procVars, fileVars, seen, signals, unclean, crashes>>

\* No daemon: GET /inbox
ToolDrains(t) ==
  /\ pc[t] = "probe"
  /\ ~(seen[t] # None /\ PidAlive(seen[t]))
  /\ Goto(t, "drain")
  /\ UNCHANGED <<procVars, fileVars, histVars, seen, signals>>

ToolDone(t) ==
  /\ pc[t] = "drain"
  /\ Goto(t, "done")
  /\ UNCHANGED <<procVars, fileVars, histVars, seen, signals>>

-----------------------------------------------------------------------------
ScriptStep(d) ==
  \/ ScriptReads(d) \/ ScriptTerminates(d) \/ ScriptWaited(d)
  \/ ScriptKills(d) \/ ScriptRemoves(d)

AcquireStep(d) ==
  \/ LockRead(d) \/ LockRefused(d) \/ LockStale(d)
  \/ LockOpen(d) \/ LockWrite(d) \/ BeginPolling(d)

ReleaseStep(d) ==
  \/ Stopped(d) \/ ReleaseOwn(d) \/ ReleaseUnlinks(d) \/ ReleaseForeign(d)

DaemonStep(d) ==
  \/ Start(d, "script") \/ Start(d, "look")
  \/ ScriptStep(d) \/ AcquireStep(d) \/ ReleaseStep(d)
  \/ Shutdown(d) \/ TerminatedEarly(d) \/ Crash(d)

RemoverStep(r) == RemoverReads(r) \/ RemoverSignals(r) \/ RemoverUnlinks(r)

ToolStep(t) == ToolReads(t) \/ ToolBusy(t) \/ ToolDrains(t) \/ ToolDone(t)

Next ==
  \/ \E d \in Daemons : DaemonStep(d)
  \/ \E r \in Removers : RemoverStep(r)
  \/ \E t \in Tools : ToolStep(t)
  \/ \E p \in Pids : OtherStarts(p) \/ OtherEnds(p)

Spec == Init /\ [][Next]_vars

\* A started process runs on: its script, acquire_lock, and once it is told
\* to stop its shutdown.
FairSpec ==
  /\ Spec
  /\ \A d \in Daemons :
       WF_vars(ScriptStep(d)) /\ WF_vars(AcquireStep(d)) /\ WF_vars(ReleaseStep(d))

-----------------------------------------------------------------------------
(* Properties                                                              *)

\* Every variable stays in its range.
TypeOK ==
  /\ lock \in Pids \cup {None, Empty}
  /\ pid \in [Daemons -> Pids \cup {None}]
  /\ others \in SUBSET Pids
  /\ used \in SUBSET Pids
  /\ pc \in [Actors -> Control]
  /\ seen \in [Actors -> Pids \cup {None}]
  /\ linked \in SUBSET Daemons
  /\ signals \in SUBSET Daemons
  /\ misled \in SUBSET Actors
  /\ unclean \in BOOLEAN
  /\ crashes \in Nat

\* At most one daemon polls the inbox of a peer (a2a-protocol.md:270, 275).
SingleDaemon ==
  \A d, x \in Daemons : pc[d] = "running" /\ pc[x] = "running" => d = x

\* While a daemon polls, the lock file holds its PID: nobody who looks can
\* take the inbox for unowned (daemon.py:103-138, a2a-protocol.md:17).
OwnerInLock == \A d \in Daemons : pc[d] = "running" => lock = pid[d]

\* clade_inbox does not drain the inbox while a daemon polls it
\* (a2a-protocol.md:166).
InboxNotShared ==
  \A t \in Tools, d \in Daemons : ~(pc[t] = "drain" /\ pc[d] = "running")

\* A start is refused, and clade_inbox answers busy, only on account of a
\* daemon: a stale lock needs no manual cleanup (a2a-protocol.md:276).
NobodyMisled == misled = {}

\* Whoever reads the lock learns the truth from it: while a daemon polls it
\* names that daemon, and nobody is turned away when none does.
LockTellsTruth == OwnerInLock /\ NobodyMisled

\* When every daemon has ended by way of release_lock, no lock is left,
\* however their starts and exits interleaved (daemon.py:132-138).
NoLockLeft ==
  ~unclean /\ (\A d \in Daemons : ~Alive(d)) => lock = None

\* A start script with --restart ends with its daemon running, whatever state
\* an old daemon or its lock is in, unless it is killed itself.
RestartSucceeds ==
  \A d \in Daemons : pc[d] = "script" ~> pc[d] \in {"running", "dead"}

=============================================================================
