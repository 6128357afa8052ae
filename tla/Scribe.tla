------------------------------- MODULE Scribe -------------------------------
(***************************************************************************)
(* scribe_loop of agent/daemon.py: peers that watch one git repository and *)
(* spawn claude for a round when its HEAD has moved.  The repository is a  *)
(* line of commits 1..head; other people commit to it at any time, and so  *)
(* does the claude of a round.  A tick suspends at each subprocess: git    *)
(* rev-parse, git log, claude.  Sentinel files, set by clade-pause and by  *)
(* the setup server, stop the next tick.  A daemon may end at any moment;  *)
(* what survives is its state file.                                        *)
(*                                                                         *)
(* Time is the age of what happened: the timestamps of rounds_today grow   *)
(* older together, and one of Day or more is older than 24 hours.          *)
(*                                                                         *)
(* A definition named Faulty_... is not part of Next: it is a plausible    *)
(* bug in the definition below it, kept to show that the properties notice *)
(* the difference.                                                         *)
(***************************************************************************)
EXTENDS Naturals, Sequences, FiniteSets

CONSTANTS
  Peers,         \* the peers whose yaml has a scribe block
  Cap,           \* max_rounds_per_day
  Day,           \* ages: 24 hours
  Limit,         \* commits that git log shows at most, 50 in the code
  MaxCommits,    \* bound: commits in the repository
  MaxStops       \* bound: ends of a daemon

ASSUME ScribeAssumption ==
  /\ Cap \in Nat \ {0} /\ Day \in Nat \ {0} /\ Limit \in Nat \ {0}
  /\ MaxCommits \in Nat /\ MaxStops \in Nat

AllPeers == "pause"
ASSUME SentinelAssumption == AllPeers \notin Peers

VARIABLES
  head,     \* number of commits; the newest is HEAD
  paused,   \* the sentinel files: AllPeers, or a peer for <peer>-pause
  phase,    \* per peer: "off", "sleep", or what its tick waits for
  seen,     \* per peer: the HEAD its tick has read
  state,    \* per peer: the state in memory, last_head_sha and rounds_today
  file,     \* per peer: <peer>-scribe-state.json
  stops,    \* number of ends of daemons
  shown,    \* history, per peer: the commits some round's prompt has listed
  unlisted, \* history, per peer: those that git log failed to list or cut off
  spawns,   \* history, per peer: ages of the claude spawns of the last day
  lost,     \* history, per peer: rounds that the state file never recorded
  since     \* history, per peer: spawns since its ticks were last not paused

history == <<shown, unlisted, spawns, lost, since>>
vars == <<head, paused, phase, seen, state, file, stops, history>>

Phases == {"off", "sleep", "head", "log", "claude"}
Fresh == [last |-> 0, rounds |-> <<>>]

Init ==
  /\ head = 0 /\ paused = {} /\ stops = 0
  /\ phase = [p \in Peers |-> "off"] /\ seen = [p \in Peers |-> 0]
  /\ state = [p \in Peers |-> Fresh] /\ file = [p \in Peers |-> Fresh]
  /\ shown = [p \in Peers |-> {}] /\ unlisted = [p \in Peers |-> {}]
  /\ spawns = [p \in Peers |-> <<>>]
  /\ lost = [p \in Peers |-> 0] /\ since = [p \in Peers |-> 0]

\* Faulty: the sentinel for all peers is not looked at.
Faulty_Paused(p) == p \in paused

\* _scribe_paused
Paused(p) == p \in paused \/ AllPeers \in paused

Enter(p, ph) == phase' = [phase EXCEPT ![p] = ph]

\* Faulty: the state file is not loaded.
Faulty_Start(p) ==
  /\ phase[p] = "off"
  /\ Enter(p, "sleep")
  /\ state' = [state EXCEPT ![p] = Fresh]
  /\ UNCHANGED <<head, paused, seen, file, stops, history>>

\* The loop starts with the daemon and loads its state file.
Start(p) ==
  /\ phase[p] = "off"
  /\ Enter(p, "sleep")
  /\ state' = [state EXCEPT ![p] = file[p]]
  /\ UNCHANGED <<head, paused, seen, file, stops, history>>

\* The interval is over: the sentinels are looked at before anything else.
Wake(p) ==
  /\ phase[p] = "sleep" /\ ~Paused(p)
  /\ Enter(p, "head")
  /\ UNCHANGED <<head, paused, seen, state, file, stops, history>>

\* _scribe_prune_today
Recent(rounds) ==
  LET kept[i \in 0..Len(rounds)] ==
        IF i = 0 THEN <<>>
        ELSE IF rounds[i] < Day THEN Append(kept[i - 1], rounds[i]) ELSE kept[i - 1]
  IN kept[Len(rounds)]

\* Faulty: what is refused by the day cap counts as seen.
Faulty_HeadRead(p) ==
  /\ phase[p] = "head" /\ head > 0
  /\ seen' = [seen EXCEPT ![p] = head]
  /\ LET rounds == Recent(state[p].rounds) IN
     IF head = state[p].last
     THEN Enter(p, "sleep") /\ UNCHANGED state
     ELSE IF Len(rounds) >= Cap
     THEN Enter(p, "sleep") /\ state' = [state EXCEPT ![p] = [last |-> head, rounds |-> rounds]]
     ELSE Enter(p, "log") /\ state' = [state EXCEPT ![p].rounds = rounds]
  /\ UNCHANGED <<head, paused, file, stops, history>>

\* git rev-parse answers: nothing new, or too many rounds today, or go on.
HeadRead(p) ==
  /\ phase[p] = "head" /\ head > 0
  /\ seen' = [seen EXCEPT ![p] = head]
  /\ IF head = state[p].last
     THEN Enter(p, "sleep") /\ UNCHANGED state
     ELSE LET rounds == Recent(state[p].rounds) IN
          /\ state' = [state EXCEPT ![p].rounds = rounds]
          /\ Enter(p, IF Len(rounds) >= Cap THEN "sleep" ELSE "log")
  /\ UNCHANGED <<head, paused, file, stops, history>>

\* No repository at the path, or git rev-parse failed.
HeadFails(p) ==
  /\ phase[p] = "head"
  /\ Enter(p, "sleep")
  /\ UNCHANGED <<head, paused, seen, state, file, stops, history>>

\* The commits of last_head_sha..HEAD, with the HEAD of now; the newest of them
\* are listed, the older ones cut off.
News(p) == {n \in 1..head : n > state[p].last}
Listing(p) == {n \in News(p) : n + Limit > head}
CutOff(p) == {n \in News(p) : n + Limit <= head}

\* git log answers or fails, for instance because last_head_sha is gone, and
\* claude is spawned with what there is in its prompt.
Spawn(p) ==
  /\ phase[p] = "log"
  /\ Enter(p, "claude")
  /\ \/ /\ shown' = [shown EXCEPT ![p] = @ \union Listing(p)]
        /\ unlisted' = [unlisted EXCEPT ![p] = @ \union CutOff(p)]
     \/ /\ unlisted' = [unlisted EXCEPT ![p] = @ \union News(p)]
        /\ UNCHANGED shown
  /\ spawns' = [spawns EXCEPT ![p] = Append(@, 0)]
  /\ since' = [since EXCEPT ![p] = IF Paused(p) THEN @ + 1 ELSE 0]
  /\ UNCHANGED <<head, paused, seen, state, file, stops, lost>>

\* Faulty: the rounds of the day are not kept.
Faulty_Forgotten(p) == [last |-> seen[p]]

\* Faulty: HEAD is read again when the round ends.
Faulty_AfterRound(p) == [last |-> head, rounds |-> Append(state[p].rounds, 0)]

\* What a round leaves: the HEAD it was made for, and its time.
AfterRound(p) == [last |-> seen[p], rounds |-> Append(state[p].rounds, 0)]

\* claude has ended, was terminated after CLAUDE_TIMEOUT_S or failed: the round
\* is entered all the same, and the state saved.
EndRound(p) ==
  /\ phase[p] = "claude"
  /\ Enter(p, "sleep")
  /\ state' = [state EXCEPT ![p] = AfterRound(p)]
  /\ file' = [file EXCEPT ![p] = AfterRound(p)]
  /\ UNCHANGED <<head, paused, seen, stops, history>>

\* The same when the state cannot be written: the tick's exception is logged.
EndRoundUnsaved(p) ==
  /\ phase[p] = "claude"
  /\ Enter(p, "sleep")
  /\ state' = [state EXCEPT ![p] = AfterRound(p)]
  /\ lost' = [lost EXCEPT ![p] = @ + 1]
  /\ UNCHANGED <<head, paused, seen, file, stops, shown, unlisted, spawns, since>>

\* The daemon is killed, crashes, or is stopped and cancels the loop; claude may
\* go on without it.
Stop(p) ==
  /\ phase[p] # "off" /\ stops < MaxStops
  /\ Enter(p, "off")
  /\ stops' = stops + 1
  /\ lost' = [lost EXCEPT ![p] = IF phase[p] = "claude" THEN @ + 1 ELSE @]
  /\ UNCHANGED <<head, paused, seen, state, file, shown, unlisted, spawns, since>>

-----------------------------------------------------------------------------
\* Somebody commits: a person, another peer's claude, or the one of a round.
Commit ==
  /\ head < MaxCommits
  /\ head' = head + 1
  /\ UNCHANGED <<paused, phase, seen, state, file, stops, history>>

\* clade-pause and POST .../pause create the sentinel, however often.
Pause(s) ==
  /\ s \in Peers \union {AllPeers} /\ s \notin paused
  /\ paused' = paused \union {s}
  /\ UNCHANGED <<head, phase, seen, state, file, stops, history>>

Resumed(p, s) == p \notin paused \ {s} /\ AllPeers \notin paused \ {s}

\* clade-resume and POST .../resume remove it.
Resume(s) ==
  /\ s \in paused
  /\ paused' = paused \ {s}
  /\ since' = [p \in Peers |-> IF Resumed(p, s) THEN 0 ELSE since[p]]
  /\ UNCHANGED <<head, phase, seen, state, file, stops, shown, unlisted, spawns, lost>>

Older(ages) == [i \in DOMAIN ages |-> IF ages[i] < Day THEN ages[i] + 1 ELSE Day]

TimePasses ==
  /\ state' = [p \in Peers |-> [state[p] EXCEPT !.rounds = Older(@)]]
  /\ file' = [p \in Peers |-> [file[p] EXCEPT !.rounds = Older(@)]]
  /\ spawns' = [p \in Peers |-> Recent(Older(spawns[p]))]
  /\ UNCHANGED <<head, paused, phase, seen, stops, shown, unlisted, lost, since>>

Next ==
  \/ \E p \in Peers :
       \/ Start(p) \/ Wake(p) \/ HeadRead(p) \/ HeadFails(p) \/ Spawn(p)
       \/ EndRound(p) \/ EndRoundUnsaved(p) \/ Stop(p)
  \/ Commit \/ TimePasses
  \/ \E s \in Peers \union {AllPeers} : Pause(s) \/ Resume(s)

Spec == Init /\ [][Next]_vars

\* The loop wakes up, claude ends (CLAUDE_TIMEOUT_S), git answers now and then,
\* and days go by.  Nobody has to commit, pause, resume or start a daemon.
FairSpec ==
  /\ Spec /\ WF_vars(TimePasses)
  /\ \A p \in Peers :
       /\ WF_vars(Wake(p)) /\ SF_vars(HeadRead(p)) /\ WF_vars(Spawn(p))
       /\ WF_vars(EndRound(p) \/ EndRoundUnsaved(p))

-----------------------------------------------------------------------------
\* Properties

States == [last : Nat, rounds : Seq(Nat)]

\* The shape of the state.
TypeOK ==
  /\ head \in Nat /\ stops \in Nat /\ paused \subseteq Peers \union {AllPeers}
  /\ phase \in [Peers -> Phases] /\ seen \in [Peers -> Nat]
  /\ state \in [Peers -> States] /\ file \in [Peers -> States]
  /\ shown \in [Peers -> SUBSET Nat] /\ unlisted \in [Peers -> SUBSET Nat]
  /\ spawns \in [Peers -> Seq(Nat)]
  /\ lost \in [Peers -> Nat] /\ since \in [Peers -> Nat]

\* daemon.py, _scribe_tick: the HEAD saved after a round is the one read before
\* git log, so that no commit is passed over: every commit up to the
\* last_head_sha in memory and on disk has been in the prompt of some round, or
\* git log failed for one or had more than Limit to show, whatever is committed
\* meanwhile and wherever the daemon ends.
NothingSkipped ==
  \A p \in Peers :
    1..state[p].last \union 1..file[p].last \subseteq shown[p] \union unlisted[p]

\* daemon.py, scribe_loop ("Hard cap of max_rounds_per_day"): claude is spawned
\* at most Cap times within 24 hours, but for the rounds whose end the state file
\* does not know: each may be repeated.
CapPerDay == \A p \in Peers : Len(spawns[p]) <= Cap + lost[p]

\* clade_cli/pause.py ("only prevents the next tick from spawning a new one"):
\* after a sentinel appears at most the one tick that had passed the check spawns.
OneRoundAfterPause == \A p \in Peers : since[p] <= 1

\* daemon.py, scribe_loop: a round is spawned for every commit, with it in the
\* prompt if git log has listed it, unless the daemon is off or paused; a reached
\* cap and failures of git rev-parse only delay it.
NewsIsSeen ==
  \A p \in Peers, n \in 1..MaxCommits :
    (n <= head) ~> (n \in shown[p] \union unlisted[p] \/ phase[p] = "off" \/ Paused(p))

-----------------------------------------------------------------------------
\* What does not hold, see README.

\* "Hard cap of max_rounds_per_day prevents runaway loops", without the excuse.
HardCap == \A p \in Peers : Len(spawns[p]) <= Cap
=============================================================================
