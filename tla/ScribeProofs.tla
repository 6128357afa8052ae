---------------------------- MODULE ScribeProofs ----------------------------
(***************************************************************************)
(* Theorems of module Scribe for every set of peers, every cap and every   *)
(* length of the repository's history.                                     *)
(***************************************************************************)
EXTENDS Scribe, SequenceTheorems, FiniteSetTheorems, WellFoundedInduction, TLAPS

-----------------------------------------------------------------------------
(* A pause lets at most one more round begin.                              *)

\* A tick that has passed the check but not spawned yet has used nothing up,
\* and neither has a peer that is not paused.
PauseInv ==
  /\ phase \in [Peers -> Phases]
  /\ since \in [Peers -> Nat]
  /\ \A p \in Peers :
       /\ since[p] <= 1
       /\ ~Paused(p) => since[p] = 0
       /\ phase[p] \in {"head", "log"} => since[p] = 0

LEMMA PauseInit == Init => PauseInv
  BY DEF Init, PauseInv, Phases

\* A step of p's own loop; what it does to the sentinels is nothing.
LoopStep(p) ==
  \/ Start(p) \/ Wake(p) \/ HeadRead(p) \/ HeadFails(p)
  \/ EndRound(p) \/ EndRoundUnsaved(p) \/ Stop(p)

\* Apart from Spawn no step of the loop counts anything, and only Wake, which
\* looks at the sentinels, begins a tick.
LEMMA LoopKeepsPause ==
  ASSUME PauseInv, NEW p \in Peers, LoopStep(p)
  PROVE  PauseInv'
  <1>1. since' = since /\ paused' = paused
    BY DEF LoopStep, Start, Wake, HeadRead, HeadFails, EndRound, EndRoundUnsaved, Stop, history
  <1>2. PICK ph \in Phases :
          /\ phase' = [phase EXCEPT ![p] = ph]
          /\ ph \in {"head", "log"} => ~Paused(p) \/ phase[p] \in {"head", "log"}
    <2>1. CASE Start(p)  BY <2>1 DEF Start, Enter, Phases
    <2>2. CASE Wake(p)  BY <2>2 DEF Wake, Enter, Phases
    <2>3. CASE HeadRead(p)
      <3>1. phase' = [phase EXCEPT ![p] = "sleep"] \/ phase' = [phase EXCEPT ![p] = "log"]
        BY <2>3 DEF HeadRead, Enter
      <3>. QED
        BY <3>1, <2>3 DEF HeadRead, Phases
    <2>4. CASE HeadFails(p)  BY <2>4 DEF HeadFails, Enter, Phases
    <2>5. CASE EndRound(p)  BY <2>5 DEF EndRound, Enter, Phases
    <2>6. CASE EndRoundUnsaved(p)  BY <2>6 DEF EndRoundUnsaved, Enter, Phases
    <2>7. CASE Stop(p)  BY <2>7 DEF Stop, Enter, Phases
    <2>. QED
      BY <2>1, <2>2, <2>3, <2>4, <2>5, <2>6, <2>7 DEF LoopStep
  <1>. QED
    BY <1>1, <1>2 DEF PauseInv, Paused

LEMMA PauseStep == PauseInv /\ [Next]_vars => PauseInv'
  <1>. SUFFICES ASSUME PauseInv, [Next]_vars PROVE PauseInv'
    OBVIOUS
  <1>1. ASSUME NEW p \in Peers, LoopStep(p) PROVE PauseInv'
    BY <1>1, LoopKeepsPause
  <1>2. ASSUME NEW p \in Peers, Spawn(p) PROVE PauseInv'
    <2>1. /\ phase[p] = "log" /\ phase' = [phase EXCEPT ![p] = "claude"] /\ paused' = paused
          /\ since' = [since EXCEPT ![p] = IF Paused(p) THEN since[p] + 1 ELSE 0]
      BY <1>2 DEF Spawn, Enter
    <2>. QED
      BY <2>1 DEF PauseInv, Paused, Phases
  <1>3. CASE Commit \/ TimePasses \/ UNCHANGED vars
    <2>1. phase' = phase /\ since' = since /\ paused' = paused
      BY <1>3 DEF Commit, TimePasses, vars, history
    <2>. QED
      BY <2>1 DEF PauseInv, Paused
  <1>4. ASSUME NEW s \in Peers \union {AllPeers}, Pause(s) PROVE PauseInv'
    <2>1. phase' = phase /\ since' = since /\ paused \subseteq paused'
      BY <1>4 DEF Pause, history
    <2>. QED
      BY <2>1 DEF PauseInv, Paused
  <1>5. ASSUME NEW s \in Peers \union {AllPeers}, Resume(s) PROVE PauseInv'
    <2>1. /\ phase' = phase /\ paused' = paused \ {s}
          /\ since' = [p \in Peers |-> IF Resumed(p, s) THEN 0 ELSE since[p]]
      BY <1>5 DEF Resume
    <2>2. \A p \in Peers : Paused(p)' <=> ~Resumed(p, s)
      BY <2>1 DEF Paused, Resumed
    <2>. QED
      BY <2>1, <2>2 DEF PauseInv
  <1>. QED
    BY <1>1, <1>2, <1>3, <1>4, <1>5 DEF Next, LoopStep

\* clade_cli/pause.py: whatever the daemon, the repository and the sentinels do,
\* at most one round begins after a sentinel has appeared.
THEOREM OneRoundAfterPauseHolds == Spec => []OneRoundAfterPause
  <1>1. PauseInv => OneRoundAfterPause
    BY DEF PauseInv, OneRoundAfterPause
  <1>. QED
    BY <1>1, PauseInit, PauseStep, PTL DEF Spec

-----------------------------------------------------------------------------
(* No commit is passed over.                                               *)

Sum(s) == [p \in Peers |-> [last |-> s[p].last, rounds |-> s[p].rounds]]

\* Enough of the types, which leaves open what rounds_today holds.
Shape ==
  /\ head \in Nat /\ head <= MaxCommits
  /\ phase \in [Peers -> Phases] /\ seen \in [Peers -> Nat]
  /\ state = Sum(state) /\ file = Sum(file)
  /\ \A p \in Peers : state[p].last \in Nat /\ file[p].last \in Nat
  /\ shown \in [Peers -> SUBSET Nat] /\ unlisted \in [Peers -> SUBSET Nat]

\* All up to the HEAD a round was made for has been in a prompt, or been lost to
\* one by git log, by the time its claude runs, so that the round's end may enter
\* that HEAD.
Covered(p) ==
  /\ seen[p] <= head
  /\ 1..state[p].last \subseteq shown[p] \union unlisted[p]
  /\ 1..file[p].last \subseteq shown[p] \union unlisted[p]
  /\ phase[p] = "claude" => 1..seen[p] \subseteq shown[p] \union unlisted[p]

ShownInv == Shape /\ \A p \in Peers : Covered(p)

LEMMA ShownInit == Init => ShownInv
  <1>. SUFFICES ASSUME Init PROVE ShownInv
    OBVIOUS
  <1>1. /\ head = 0 /\ phase = [p \in Peers |-> "off"] /\ seen = [p \in Peers |-> 0]
        /\ state = [p \in Peers |-> Fresh] /\ file = [p \in Peers |-> Fresh]
        /\ shown = [p \in Peers |-> {}] /\ unlisted = [p \in Peers |-> {}]
    BY DEF Init
  <1>2. Fresh.last = 0 /\ Fresh = [last |-> Fresh.last, rounds |-> Fresh.rounds]
    BY DEF Fresh
  <1>3. state = Sum(state) /\ file = Sum(file)
    BY <1>1, <1>2 DEF Sum
  <1>4. 0 <= MaxCommits
    BY ScribeAssumption
  <1>5. \A p \in Peers : state[p].last = 0 /\ file[p].last = 0
    BY <1>1, <1>2
  <1>6. Shape
    BY <1>1, <1>3, <1>4, <1>5 DEF Shape, Phases
  <1>7. \A p \in Peers : Covered(p)
    BY <1>1, <1>5 DEF Covered
  <1>. QED
    BY <1>6, <1>7 DEF ShownInv

\* What a step leaves alone: the HEAD never goes back and no prompt is unsaid,
\* so a peer whose own part does not change stays covered.
LEMMA CoveredStays ==
  ASSUME NEW p \in Peers, Shape, Covered(p), head' \in Nat, head <= head',
         shown[p] \subseteq shown'[p], unlisted[p] \subseteq unlisted'[p], seen'[p] = seen[p],
         state'[p].last = state[p].last, file'[p].last = file[p].last,
         phase'[p] = "claude" => phase[p] = "claude"
  PROVE  Covered(p)'
  <1>1. seen'[p] <= head'
    BY DEF Covered, Shape
  <1>2. /\ 1..state'[p].last \subseteq shown'[p] \union unlisted'[p]
        /\ 1..file'[p].last \subseteq shown'[p] \union unlisted'[p]
        /\ phase'[p] = "claude" => 1..seen'[p] \subseteq shown'[p] \union unlisted'[p]
    BY DEF Covered
  <1>. QED
    BY <1>1, <1>2 DEF Covered

\* The news of a round, with what rounds have dealt with before, are all commits.
LEMMA NewsCovers ==
  ASSUME Shape, NEW p \in Peers, Covered(p)
  PROVE  /\ 1..head \subseteq shown[p] \union unlisted[p] \union News(p)
         /\ News(p) = Listing(p) \union CutOff(p) /\ News(p) \subseteq Nat
  <1>1. state[p].last \in Nat /\ head \in Nat
    BY DEF Shape
  <1>2. 1..head \subseteq 1..state[p].last \union News(p)
    BY <1>1 DEF News
  <1>3. 1..head \subseteq shown[p] \union unlisted[p] \union News(p)
    BY <1>2 DEF Covered
  <1>4. \A n \in News(p) : n \in Nat /\ (n + Limit > head \/ n + Limit <= head)
    BY <1>1, ScribeAssumption DEF News
  <1>. QED
    BY <1>3, <1>4 DEF Listing, CutOff

\* Every peer that a step does not touch, and the records' shape, are kept.
Quiet(q) ==
  /\ seen'[q] = seen[q] /\ state'[q].last = state[q].last /\ file'[q].last = file[q].last
  /\ shown[q] \subseteq shown'[q] /\ unlisted[q] \subseteq unlisted'[q]
  /\ phase'[q] = "claude" => phase[q] = "claude"

LEMMA QuietStep ==
  ASSUME ShownInv, Shape', head <= head', \A q \in Peers : Quiet(q)
  PROVE  ShownInv'
  <1>1. ASSUME NEW q \in Peers PROVE Covered(q)'
    BY <1>1, CoveredStays DEF ShownInv, Shape, Quiet
  <1>. QED
    BY <1>1 DEF ShownInv

\* New times of the rounds leave last_head_sha alone.
LEMMA RoundsExcept ==
  ASSUME NEW s, s = Sum(s), NEW p \in Peers, NEW rs, NEW t, t = [s EXCEPT ![p].rounds = rs]
  PROVE  /\ t = Sum(t) /\ \A q \in Peers : t[q].last = s[q].last
  <1>1. s[p] = [last |-> s[p].last, rounds |-> s[p].rounds]
    BY DEF Sum
  <1>2. [s[p] EXCEPT !.rounds = rs] = [last |-> s[p].last, rounds |-> rs]
    BY <1>1
  <1>3. [s EXCEPT ![p].rounds = rs] = [s EXCEPT ![p] = [last |-> s[p].last, rounds |-> rs]]
    BY <1>2
  <1>. QED
    BY <1>3 DEF Sum

\* The ends of a tick and of a daemon, and its waking up.
LEMMA RestStep ==
  ASSUME ShownInv, NEW p \in Peers, Wake(p) \/ HeadFails(p) \/ Stop(p)
  PROVE  ShownInv'
  <1>1. /\ head' = head /\ seen' = seen /\ state' = state /\ file' = file
        /\ shown' = shown /\ unlisted' = unlisted
        /\ \E ph \in {"off", "sleep", "head"} : phase' = [phase EXCEPT ![p] = ph]
    BY DEF Wake, HeadFails, Stop, Enter, history
  <1>2. Shape'
    BY <1>1 DEF ShownInv, Shape, Phases
  <1>3. \A q \in Peers : Quiet(q)
    BY <1>1 DEF ShownInv, Shape, Quiet
  <1>4. head <= head'
    BY <1>1 DEF ShownInv, Shape
  <1>. QED
    BY <1>2, <1>3, <1>4, QuietStep

LEMMA StartStep ==
  ASSUME ShownInv, NEW p \in Peers, Start(p)
  PROVE  ShownInv'
  <1>1. /\ head' = head /\ seen' = seen /\ file' = file
        /\ shown' = shown /\ unlisted' = unlisted
        /\ phase' = [phase EXCEPT ![p] = "sleep"]
        /\ state' = [state EXCEPT ![p] = file[p]]
    BY DEF Start, Enter, history
  <1>2. file[p] = [last |-> file[p].last, rounds |-> file[p].rounds]
    BY DEF ShownInv, Shape, Sum
  <1>s. state' = [state EXCEPT ![p] = [last |-> file[p].last, rounds |-> file[p].rounds]]
    BY <1>1, <1>2
  <1>t. state = Sum(state)
    BY DEF ShownInv, Shape
  <1>3. state' = Sum(state') /\ state'[p].last = file[p].last
        /\ \A q \in Peers \ {p} : state'[q] = state[q]
    BY <1>s, <1>t DEF Sum
  <1>4. Shape'
    BY <1>1, <1>3 DEF ShownInv, Shape, Phases
  <1>5. Covered(p)'
    BY <1>1, <1>3 DEF ShownInv, Shape, Covered
  <1>6. ASSUME NEW q \in Peers \ {p} PROVE Covered(q)'
    BY <1>1, <1>3, <1>6 DEF ShownInv, Shape, Covered
  <1>. QED
    BY <1>4, <1>5, <1>6 DEF ShownInv

LEMMA HeadReadStep ==
  ASSUME ShownInv, NEW p \in Peers, HeadRead(p)
  PROVE  ShownInv'
  <1>1. /\ head' = head /\ file' = file /\ shown' = shown /\ unlisted' = unlisted
        /\ seen' = [seen EXCEPT ![p] = head]
        /\ \E ph \in {"sleep", "log"} : phase' = [phase EXCEPT ![p] = ph]
    BY DEF HeadRead, Enter, history
  <1>2. state' = state \/ \E rs : state' = [state EXCEPT ![p].rounds = rs]
    BY DEF HeadRead
  <1>t. state = Sum(state)
    BY DEF ShownInv, Shape
  <1>3. state' = Sum(state') /\ \A q \in Peers : state'[q].last = state[q].last
    BY <1>2, <1>t, RoundsExcept
  <1>4. Shape'
    BY <1>1, <1>3 DEF ShownInv, Shape, Phases
  <1>5. ASSUME NEW q \in Peers PROVE Covered(q)'
    BY <1>1, <1>3, <1>5 DEF ShownInv, Shape, Covered
  <1>. QED
    BY <1>4, <1>5 DEF ShownInv

LEMMA SpawnStep ==
  ASSUME ShownInv, NEW p \in Peers, Spawn(p)
  PROVE  ShownInv'
  <1>1. /\ head' = head /\ seen' = seen /\ state' = state /\ file' = file
        /\ phase' = [phase EXCEPT ![p] = "claude"]
    BY DEF Spawn, Enter
  <1>2. PICK list, rest :
          /\ list \union rest = News(p)
          /\ shown' = [shown EXCEPT ![p] = shown[p] \union list]
          /\ unlisted' = [unlisted EXCEPT ![p] = unlisted[p] \union rest]
    <2>1. CASE /\ shown' = [shown EXCEPT ![p] = shown[p] \union Listing(p)]
               /\ unlisted' = [unlisted EXCEPT ![p] = unlisted[p] \union CutOff(p)]
      BY <2>1, NewsCovers DEF ShownInv
    <2>2. CASE /\ shown' = shown
               /\ unlisted' = [unlisted EXCEPT ![p] = unlisted[p] \union News(p)]
      <3>1. shown' = [shown EXCEPT ![p] = shown[p] \union {}]
        BY <2>2 DEF ShownInv, Shape
      <3>. QED
        BY <2>2, <3>1
    <2>. QED
      BY <2>1, <2>2 DEF Spawn
  <1>3. Shape'
    <2>1. list \subseteq Nat /\ rest \subseteq Nat
      BY <1>2, NewsCovers DEF ShownInv
    <2>. QED
      BY <1>1, <1>2, <2>1 DEF ShownInv, Shape, Phases
  <1>4. /\ shown[p] \subseteq shown'[p] /\ unlisted[p] \subseteq unlisted'[p]
        /\ 1..head \subseteq shown'[p] \union unlisted'[p]
    BY <1>2, NewsCovers DEF ShownInv, Shape
  <1>5. 1..seen[p] \subseteq 1..head
    BY DEF ShownInv, Shape, Covered
  <1>6. Covered(p)'
    BY <1>1, <1>4, <1>5 DEF ShownInv, Shape, Covered
  <1>7. ASSUME NEW q \in Peers \ {p} PROVE Covered(q)'
    BY <1>1, <1>2, <1>7 DEF ShownInv, Shape, Covered
  <1>. QED
    BY <1>3, <1>6, <1>7 DEF ShownInv

\* The end of a round, whether or not the state reaches the disk.
LEMMA EndStep ==
  ASSUME ShownInv, NEW p \in Peers, EndRound(p) \/ EndRoundUnsaved(p)
  PROVE  ShownInv'
  <1>1. /\ phase[p] = "claude" /\ head' = head /\ seen' = seen
        /\ shown' = shown /\ unlisted' = unlisted
        /\ phase' = [phase EXCEPT ![p] = "sleep"]
        /\ state' = [state EXCEPT ![p] = AfterRound(p)]
        /\ file' = file \/ file' = [file EXCEPT ![p] = AfterRound(p)]
    BY DEF EndRound, EndRoundUnsaved, Enter, history
  <1>t. state = Sum(state) /\ file = Sum(file)
    BY DEF ShownInv, Shape
  <1>2. /\ state' = Sum(state') /\ state'[p].last = seen[p]
        /\ \A q \in Peers \ {p} : state'[q] = state[q]
    BY <1>1, <1>t DEF AfterRound, Sum
  <1>3. /\ file' = Sum(file') /\ file'[p].last \in {file[p].last, seen[p]}
        /\ \A q \in Peers \ {p} : file'[q] = file[q]
    <2>1. CASE file' = file
      BY <2>1, <1>t
    <2>2. CASE file' = [file EXCEPT ![p] = AfterRound(p)]
      BY <2>2, <1>t DEF AfterRound, Sum
    <2>. QED
      BY <1>1, <2>1, <2>2
  <1>4. Shape'
    BY <1>1, <1>2, <1>3 DEF ShownInv, Shape, Phases
  <1>5. Covered(p)'
    BY <1>1, <1>2, <1>3 DEF ShownInv, Shape, Covered
  <1>6. ASSUME NEW q \in Peers \ {p} PROVE Covered(q)'
    BY <1>1, <1>2, <1>3, <1>6 DEF ShownInv, Shape, Covered
  <1>. QED
    BY <1>4, <1>5, <1>6 DEF ShownInv

Aged(s) == [p \in Peers |-> [s[p] EXCEPT !.rounds = Older(@)]]

\* The passing of time changes nothing but the times.
LEMMA AgedSum ==
  ASSUME NEW s, s = Sum(s)
  PROVE  Aged(s) = Sum(Aged(s)) /\ \A q \in Peers : Aged(s)[q].last = s[q].last
  <1>1. \A p \in Peers : [s[p] EXCEPT !.rounds = Older(s[p].rounds)]
                           = [last |-> s[p].last, rounds |-> Older(s[p].rounds)]
    BY DEF Sum
  <1>2. Aged(s) = [p \in Peers |-> [last |-> s[p].last, rounds |-> Older(s[p].rounds)]]
    BY <1>1 DEF Aged
  <1>. QED
    BY <1>2 DEF Sum

\* What happens around the peers: commits, days, sentinels.
LEMMA AroundStep ==
  ASSUME ShownInv,
         Commit \/ TimePasses \/ \E s \in Peers \union {AllPeers} : Pause(s) \/ Resume(s)
  PROVE  ShownInv'
  <1>1. /\ head' \in Nat /\ head <= head' /\ head' <= MaxCommits
        /\ phase' = phase /\ seen' = seen /\ shown' = shown /\ unlisted' = unlisted
    BY ScribeAssumption
    DEF Commit, TimePasses, Pause, Resume, history, ShownInv, Shape
  <1>2. /\ state' = Sum(state') /\ \A q \in Peers : state'[q].last = state[q].last
        /\ file' = Sum(file') /\ \A q \in Peers : file'[q].last = file[q].last
    <2>1. CASE state' = state /\ file' = file
      BY <2>1 DEF ShownInv, Shape
    <2>2. CASE TimePasses
      <3>1. state' = Aged(state) /\ file' = Aged(file)
        BY <2>2 DEF TimePasses, Aged
      <3>2. state = Sum(state) /\ file = Sum(file)
        BY DEF ShownInv, Shape
      <3>. QED
        BY <3>1, <3>2, AgedSum
    <2>. QED
      BY <2>1, <2>2 DEF Commit, Pause, Resume
  <1>3. Shape'
    BY <1>1, <1>2 DEF ShownInv, Shape
  <1>4. \A q \in Peers : Quiet(q)
    BY <1>1, <1>2 DEF Quiet
  <1>. QED
    BY <1>1, <1>3, <1>4, QuietStep

LEMMA ShownStep == ShownInv /\ [Next]_vars => ShownInv'
  <1>. SUFFICES ASSUME ShownInv, [Next]_vars PROVE ShownInv'
    OBVIOUS
  <1>1. CASE UNCHANGED vars
    BY <1>1 DEF vars, history, ShownInv, Shape, Covered, Sum
  <1>2. CASE Next
    BY <1>2, RestStep, StartStep, HeadReadStep, SpawnStep, EndStep, AroundStep DEF Next
  <1>. QED
    BY <1>1, <1>2

\* daemon.py, _scribe_tick: for every length of the history and every limit of
\* the list, each commit up to a saved last_head_sha has been in some round's
\* prompt, or git log has failed to list it or cut it off.
THEOREM NothingSkippedHolds == Spec => []NothingSkipped
  <1>1. ShownInv => NothingSkipped
    BY DEF ShownInv, Covered, NothingSkipped
  <1>. QED
    BY <1>1, ShownStep, ShownInit, PTL DEF Spec

-----------------------------------------------------------------------------
(* The rounds of the last day                                              *)

\* Every set of natural numbers that is not empty has a least element.
LEMMA LeastNatural ==
  ASSUME NEW T \in SUBSET Nat, T # {}
  PROVE  \E n \in T : \A k \in T : n <= k
  <1>1. IsWellFoundedOn(OpToRel(<, Nat), Nat)
    BY NatLessThanWellFounded
  <1>2. PICK n \in T : \A k \in T : ~ (<<k, n>> \in OpToRel(<, Nat))
    BY <1>1, WFMin, Zenon
  <1>3. \A k \in T : ~(k < n)
    BY <1>2 DEF OpToRel
  <1>. QED
    BY <1>3

\* The equation of the recursive function inside Recent, up to n.
Keeps(kept, s, n) ==
  kept = [i \in 0..n |-> IF i = 0 THEN <<>>
                         ELSE IF s[i] < Day THEN Append(kept[i - 1], s[i]) ELSE kept[i - 1]]

LEMMA KeepsExists ==
  ASSUME NEW s, NEW m \in Nat
  PROVE  \E kept : Keeps(kept, s, m)
  <1>. DEFINE Bad == {n \in Nat : ~ \E kept : Keeps(kept, s, n)}
  <1>1. SUFFICES ASSUME Bad # {} PROVE FALSE
    OBVIOUS
  <1>2. PICK n \in Bad : \A j \in Bad : n <= j
    <2>1. Bad \in SUBSET Nat
      OBVIOUS
    <2>. HIDE DEF Bad
    <2>. QED
      BY <1>1, <2>1, LeastNatural
  <1>3. CASE n = 0
    <2>1. Keeps([i \in 0..0 |-> <<>>], s, 0)
      BY DEF Keeps
    <2>. QED
      BY <1>3, <2>1
  <1>4. CASE n # 0
    <2>1. n \in Nat /\ n - 1 \in Nat /\ n - 1 \notin Bad
      BY <1>2, <1>4
    <2>2. PICK kept : Keeps(kept, s, n - 1)
      BY <2>1
    <2>. DEFINE Rhs(k, i) == IF i = 0 THEN <<>>
                             ELSE IF s[i] < Day THEN Append(k[i - 1], s[i]) ELSE k[i - 1]
                more == [i \in 0..n |-> IF i < n THEN kept[i] ELSE Rhs(kept, n)]
    <2>3. \A i \in 0..(n - 1) : kept[i] = Rhs(kept, i)
      BY <2>1, <2>2 DEF Keeps
    <2>4. \A i \in 0..n : more[i] = Rhs(more, i)
      <3>. SUFFICES ASSUME NEW i \in 0..n PROVE more[i] = Rhs(more, i)
        OBVIOUS
      <3>1. i # 0 => i - 1 \in 0..n /\ i - 1 < n /\ more[i - 1] = kept[i - 1]
        BY <2>1
      <3>2. CASE i < n
        BY <2>1, <2>3, <3>1, <3>2
      <3>3. CASE i = n
        BY <2>1, <1>4, <3>1, <3>3
      <3>. QED
        BY <2>1, <3>2, <3>3
    <2>5. more = [i \in 0..n |-> Rhs(more, i)]
      <3>. HIDE DEF Rhs
      <3>. QED
        BY <2>4
    <2>6. Keeps(more, s, n)
      BY <2>5 DEF Keeps
    <2>. QED
      BY <2>6
  <1>. QED
    BY <1>3, <1>4

LEMMA KeepsAt ==
  ASSUME NEW kept, NEW s, NEW m \in Nat, Keeps(kept, s, m), NEW n \in 0..m
  PROVE  kept[n] = IF n = 0 THEN <<>>
                   ELSE IF s[n] < Day THEN Append(kept[n - 1], s[n]) ELSE kept[n - 1]
  <1>. DEFINE Rhs(i) == IF i = 0 THEN <<>>
                        ELSE IF s[i] < Day THEN Append(kept[i - 1], s[i]) ELSE kept[i - 1]
  <1>1. kept = [i \in 0..m |-> Rhs(i)]
    BY DEF Keeps
  <1>. HIDE DEF Rhs
  <1>2. kept[n] = Rhs(n)
    BY <1>1
  <1>. QED
    BY <1>2 DEF Rhs

LEMMA RecentDef ==
  ASSUME NEW s, Len(s) \in Nat
  PROVE  \E kept : Keeps(kept, s, Len(s)) /\ Recent(s) = kept[Len(s)]
  <1>. DEFINE kept == CHOOSE k : Keeps(k, s, Len(s))
  <1>1. Keeps(kept, s, Len(s))
    BY KeepsExists
  <1>2. Recent(s) = kept[Len(s)]
    BY DEF Recent, Keeps
  <1>. QED
    BY <1>1, <1>2

\* How many of the first n ages of s are below k.
Upto(s, n, k) == Cardinality({i \in 1..n : s[i] < k})
Younger(s, k) == Upto(s, Len(s), k)

LEMMA FirstCount ==
  ASSUME NEW n \in Nat
  PROVE  IsFiniteSet(1..n) /\ Cardinality(1..n) = n
  <1>1. IsFiniteSet(1..n) /\ Cardinality(1..n) = IF 1 > n THEN 0 ELSE n - 1 + 1
    BY FS_Interval
  <1>. QED
    BY <1>1

LEMMA UptoNat ==
  ASSUME NEW s, NEW n \in Nat, NEW k
  PROVE  /\ IsFiniteSet({i \in 1..n : s[i] < k}) /\ Upto(s, n, k) \in Nat
         /\ Upto(s, 0, k) = 0
  <1>1. IsFiniteSet(1..n)
    BY FirstCount
  <1>2. IsFiniteSet({i \in 1..n : s[i] < k})
    BY <1>1, FS_Subset
  <1>3. {i \in 1..0 : s[i] < k} = {}
    OBVIOUS
  <1>. QED
    BY <1>2, <1>3, FS_CardinalityType, FS_EmptySet DEF Upto

\* One place more.
LEMMA UptoNext ==
  ASSUME NEW s, NEW n \in Nat, NEW k
  PROVE  Upto(s, n + 1, k) = Upto(s, n, k) + (IF s[n + 1] < k THEN 1 ELSE 0)
  <1>. DEFINE A == {i \in 1..n : s[i] < k}
              B == {i \in 1..(n + 1) : s[i] < k}
  <1>1. IsFiniteSet(A) /\ Cardinality(A) \in Nat
    BY UptoNat DEF Upto
  <1>2. CASE s[n + 1] < k
    <2>1. B = A \cup {n + 1} /\ n + 1 \notin A
      BY <1>2
    <2>. QED
      BY <1>1, <1>2, <2>1, FS_AddElement DEF Upto
  <1>3. CASE ~(s[n + 1] < k)
    <2>1. B = A
      BY <1>3
    <2>. QED
      BY <1>1, <1>3, <2>1 DEF Upto
  <1>. QED
    BY <1>2, <1>3

LEMMA YoungerAppend ==
  ASSUME NEW s \in Seq(Nat), NEW e \in Nat, NEW k
  PROVE  /\ Append(s, e) \in Seq(Nat) /\ Len(Append(s, e)) = Len(s) + 1
         /\ Younger(Append(s, e), k) = Younger(s, k) + (IF e < k THEN 1 ELSE 0)
  <1>1. PICK t : t = Append(s, e)
    OBVIOUS
  <1>2. /\ Len(s) \in Nat /\ t \in Seq(Nat) /\ Len(t) = Len(s) + 1 /\ t[Len(s) + 1] = e
        /\ \A i \in 1..Len(s) : t[i] = s[i]
    BY <1>1, AppendProperties, LenProperties
  <1>3. Upto(t, Len(s) + 1, k) = Upto(t, Len(s), k) + (IF e < k THEN 1 ELSE 0)
    BY <1>2, UptoNext
  <1>4. Upto(t, Len(s), k) = Upto(s, Len(s), k)
    <2>1. {i \in 1..Len(s) : t[i] < k} = {i \in 1..Len(s) : s[i] < k}
      BY <1>2
    <2>. QED
      BY <2>1 DEF Upto
  <1>. QED
    BY <1>1, <1>2, <1>3, <1>4 DEF Younger

\* What Recent does: it keeps the ages below Day, and no other.
LEMMA RecentCounts ==
  ASSUME NEW s \in Seq(Nat)
  PROVE  /\ Recent(s) \in Seq(Nat)
         /\ Len(Recent(s)) = Younger(s, Day)
         /\ \A i \in 1..Len(Recent(s)) : Recent(s)[i] < Day
         /\ \A k \in 0..Day : Younger(Recent(s), k) = Younger(s, k)
  <1>1. Len(s) \in Nat /\ \A i \in 1..Len(s) : s[i] \in Nat
    BY LenProperties, ElementOfSeq
  <1>2. PICK kept : Keeps(kept, s, Len(s)) /\ Recent(s) = kept[Len(s)]
    BY <1>1, RecentDef
  <1>d. Day \in Nat
    BY ScribeAssumption
  <1>. DEFINE P(n) == /\ kept[n] \in Seq(Nat)
                      /\ Len(kept[n]) = Upto(s, n, Day)
                      /\ \A i \in 1..Len(kept[n]) : kept[n][i] < Day
                      /\ \A k \in 0..Day : Younger(kept[n], k) = Upto(s, n, k)
              Bad == {n \in 0..Len(s) : ~P(n)}
  <1>3. P(0)
    <2>1. kept[0] = <<>>
      BY <1>1, <1>2, KeepsAt
    <2>2. kept[0] \in Seq(Nat) /\ Len(kept[0]) = 0
      BY <2>1, EmptySeq
    <2>3. \A i \in 1..Len(kept[0]) : kept[0][i] < Day
      BY <2>2
    <2>4. \A r, k : Upto(r, 0, k) = 0
      BY UptoNat
    <2>5. \A k : Younger(kept[0], k) = 0
      BY <2>2, <2>4 DEF Younger
    <2>. QED
      BY <2>2, <2>3, <2>4, <2>5
  <1>4. ASSUME NEW n \in 1..Len(s), P(n - 1)
        PROVE  P(n)
    <2>1. n \in 0..Len(s) /\ n - 1 \in Nat /\ n \in Nat /\ s[n] \in Nat /\ (n - 1) + 1 = n
      BY <1>1
    <2>2. kept[n] = IF s[n] < Day THEN Append(kept[n - 1], s[n]) ELSE kept[n - 1]
      BY <1>1, <1>2, <2>1, KeepsAt
    <2>3. \A k : Upto(s, n, k) = Upto(s, n - 1, k) + (IF s[n] < k THEN 1 ELSE 0)
      BY <2>1, UptoNext
    <2>n. \A k : Upto(s, n - 1, k) \in Nat
      BY <2>1, UptoNat
    <2>4. CASE s[n] < Day
      <3>1. PICK o, e : o = kept[n - 1] /\ e = s[n]
        OBVIOUS
      <3>2. PICK t : t = Append(o, e)
        OBVIOUS
      <3>3. o \in Seq(Nat) /\ e \in Nat /\ kept[n] = t
        BY <1>4, <2>1, <2>2, <2>4, <3>1, <3>2
      <3>4. /\ t \in Seq(Nat) /\ Len(t) = Len(o) + 1
            /\ \A k : Younger(t, k) = Younger(o, k) + (IF e < k THEN 1 ELSE 0)
        BY <3>2, <3>3, YoungerAppend
      <3>5. Len(t) = Upto(s, n, Day)
        BY <1>4, <2>3, <2>4, <3>1, <3>4
      <3>6. \A i \in 1..Len(t) : t[i] < Day
        <4>1. /\ Len(o) \in Nat /\ t[Len(o) + 1] = e
              /\ \A i \in 1..Len(o) : t[i] = o[i]
          BY <3>2, <3>3, AppendProperties, LenProperties
        <4>2. \A i \in 1..Len(o) : o[i] < Day
          BY <1>4, <3>1
        <4>3. \A i \in 1..(Len(o) + 1) : i \in 1..Len(o) \/ i = Len(o) + 1
          BY <4>1
        <4>4. ASSUME NEW i \in 1..Len(t) PROVE t[i] < Day
          <5>1. CASE i \in 1..Len(o)
            <6>1. t[i] = o[i]
              BY <4>1, <5>1
            <6>2. o[i] < Day
              BY <4>2, <5>1
            <6>. QED
              BY <6>1, <6>2
          <5>2. CASE i = Len(o) + 1
            <6>1. t[i] = e
              BY <4>1, <5>2
            <6>2. e < Day
              BY <2>4, <3>1
            <6>. QED
              BY <6>1, <6>2
          <5>3. i \in 1..(Len(o) + 1)
            BY <3>4
          <5>. QED
            BY <4>3, <5>1, <5>2, <5>3
        <4>. QED
          BY <4>4
      <3>7. \A k \in 0..Day : Younger(t, k) = Upto(s, n, k)
        BY <1>4, <2>3, <3>1, <3>4
      <3>. QED
        BY <3>3, <3>4, <3>5, <3>6, <3>7
    <2>5. CASE ~(s[n] < Day)
      <3>1. kept[n] = kept[n - 1]
        BY <2>2, <2>5
      <3>2. \A k \in 0..Day : Upto(s, n, k) = Upto(s, n - 1, k)
        BY <1>d, <2>1, <2>3, <2>5, <2>n
      <3>. QED
        BY <1>4, <1>d, <3>1, <3>2
    <2>. QED
      BY <2>4, <2>5
  <1>5. P(Len(s))
    <2>. HIDE DEF P
    <2>1. SUFFICES ASSUME Bad # {} PROVE FALSE
      BY <1>1
    <2>2. PICK n \in Bad : \A j \in Bad : n <= j
      <3>1. Bad \in SUBSET Nat
        BY <1>1
      <3>. HIDE DEF Bad
      <3>. QED
        BY <2>1, <3>1, LeastNatural
    <2>3. n \in 1..Len(s) /\ n - 1 \in 0..Len(s) /\ n - 1 \notin Bad
      BY <1>1, <1>3, <2>2
    <2>. QED
      BY <1>4, <2>2, <2>3
  <1>. QED
    BY <1>2, <1>5 DEF Younger

\* Growing older moves every count by one.
LEMMA OlderCounts ==
  ASSUME NEW s \in Seq(Nat)
  PROVE  /\ Older(s) \in Seq(Nat) /\ Len(Older(s)) = Len(s)
         /\ \A k \in 1..Day : Younger(Older(s), k) = Younger(s, k - 1)
         /\ Younger(Older(s), 0) = 0 /\ Younger(s, 0) = 0
  <1>1. Day \in Nat /\ Len(s) \in Nat /\ DOMAIN s = 1..Len(s) /\ \A i \in 1..Len(s) : s[i] \in Nat
    BY ScribeAssumption, LenProperties, ElementOfSeq
  <1>2. PICK t : t = Older(s)
    OBVIOUS
  <1>3. t = [i \in 1..Len(s) |-> IF s[i] < Day THEN s[i] + 1 ELSE Day]
    BY <1>1, <1>2 DEF Older
  <1>4. t \in [1..Len(s) -> Nat]
    BY <1>1, <1>3
  <1>5. t \in Seq(Nat) /\ Len(t) = Len(s)
    BY <1>1, <1>4, SeqDef, LenProperties
  <1>6. ASSUME NEW k \in 1..Day PROVE Younger(t, k) = Younger(s, k - 1)
    <2>1. \A i \in 1..Len(s) : t[i] < k <=> s[i] < k - 1
      BY <1>1, <1>3
    <2>2. {i \in 1..Len(s) : t[i] < k} = {i \in 1..Len(s) : s[i] < k - 1}
      BY <2>1
    <2>. QED
      BY <1>5, <2>2 DEF Younger, Upto
  <1>7. \A r \in Seq(Nat) : Younger(r, 0) = 0
    <2>1. SUFFICES ASSUME NEW r \in Seq(Nat) PROVE Younger(r, 0) = 0
      OBVIOUS
    <2>2. \A i \in 1..Len(r) : r[i] \in Nat
      BY ElementOfSeq
    <2>3. {i \in 1..Len(r) : r[i] < 0} = {}
      BY <2>2
    <2>. QED
      BY <2>3, FS_EmptySet DEF Younger, Upto
  <1>. QED
    BY <1>2, <1>5, <1>6, <1>7

-----------------------------------------------------------------------------
(* The shape of the state.                                                 *)

\* A record of the scribe's state with new rounds.
LEMMA StateRounds ==
  ASSUME NEW r \in States, NEW rs \in Seq(Nat)
  PROVE  /\ [r EXCEPT !.rounds = rs] \in States
         /\ [r EXCEPT !.rounds = rs].rounds = rs
  BY DEF States

LEMMA TypeInit == Init => TypeOK
  <1>1. Fresh \in States /\ <<>> \in Seq(Nat)
    BY DEF Fresh, States
  <1>. QED
    BY <1>1 DEF Init, TypeOK, Phases

LEMMA TypeStep == TypeOK /\ [Next]_vars => TypeOK'
  <1>. SUFFICES ASSUME TypeOK, [Next]_vars PROVE TypeOK'
    OBVIOUS
  <1>1. ASSUME NEW p \in Peers, Start(p) \/ Wake(p) \/ HeadFails(p) PROVE TypeOK'
    BY <1>1 DEF TypeOK, Start, Wake, HeadFails, Enter, Phases, history
  <1>2. ASSUME NEW p \in Peers, HeadRead(p) PROVE TypeOK'
    <2>1. state[p] \in States /\ state[p].rounds \in Seq(Nat)
      BY DEF TypeOK, States
    <2>2. Recent(state[p].rounds) \in Seq(Nat)
      BY <2>1, RecentCounts
    <2>3. PICK rs \in Seq(Nat) :
            state' = state \/ state' = [state EXCEPT ![p] = [state[p] EXCEPT !.rounds = rs]]
      BY <1>2, <2>2 DEF HeadRead
    <2>r. [state[p] EXCEPT !.rounds = rs] \in States
      BY <2>1, StateRounds
    <2>4. state' \in [Peers -> States]
      BY <2>3, <2>r DEF TypeOK
    <2>5. phase' = [phase EXCEPT ![p] = "sleep"] \/ phase' = [phase EXCEPT ![p] = "log"]
      BY <1>2 DEF HeadRead, Enter
    <2>6. seen' = [seen EXCEPT ![p] = head]
      BY <1>2 DEF HeadRead
    <2>7. UNCHANGED <<head, paused, file, stops, history>>
      BY <1>2 DEF HeadRead
    <2>. QED
      BY <2>4, <2>5, <2>6, <2>7 DEF TypeOK, Phases, history
  <1>3. ASSUME NEW p \in Peers, Spawn(p) PROVE TypeOK'
    <2>1. Listing(p) \subseteq Nat /\ CutOff(p) \subseteq Nat /\ News(p) \subseteq Nat
      BY DEF Listing, CutOff, News
    <2>2. shown' \in [Peers -> SUBSET Nat] /\ unlisted' \in [Peers -> SUBSET Nat]
      BY <1>3, <2>1 DEF TypeOK, Spawn
    <2>3. spawns' \in [Peers -> Seq(Nat)]
      BY <1>3 DEF TypeOK, Spawn
    <2>4. since' \in [Peers -> Nat] /\ phase' \in [Peers -> Phases]
      BY <1>3 DEF TypeOK, Spawn, Enter, Phases
    <2>5. UNCHANGED <<head, paused, seen, state, file, stops, lost>>
      BY <1>3 DEF Spawn
    <2>. QED
      BY <2>2, <2>3, <2>4, <2>5 DEF TypeOK
  <1>4. ASSUME NEW p \in Peers, EndRound(p) \/ EndRoundUnsaved(p) PROVE TypeOK'
    <2>1. state[p].rounds \in Seq(Nat) /\ seen[p] \in Nat
      BY DEF TypeOK, States
    <2>2. AfterRound(p) \in States
      BY <2>1 DEF AfterRound, States
    <2>3. state' = [state EXCEPT ![p] = AfterRound(p)]
      BY <1>4 DEF EndRound, EndRoundUnsaved
    <2>4. file' = file \/ file' = [file EXCEPT ![p] = AfterRound(p)]
      BY <1>4 DEF EndRound, EndRoundUnsaved
    <2>5. state' \in [Peers -> States] /\ file' \in [Peers -> States]
      BY <2>2, <2>3, <2>4 DEF TypeOK
    <2>6. phase' \in [Peers -> Phases]
      BY <1>4 DEF TypeOK, EndRound, EndRoundUnsaved, Enter, Phases
    <2>8. lost' = lost \/ lost' = [lost EXCEPT ![p] = lost[p] + 1]
      BY <1>4 DEF EndRound, EndRoundUnsaved, history
    <2>9. lost' \in [Peers -> Nat]
      <3>1. lost \in [Peers -> Nat]
        BY DEF TypeOK
      <3>. QED
        BY <2>8, <3>1
    <2>7. UNCHANGED <<head, paused, seen, stops, shown, unlisted, spawns, since>>
      BY <1>4 DEF EndRound, EndRoundUnsaved, history
    <2>. QED
      BY <2>5, <2>6, <2>7, <2>9 DEF TypeOK
  <1>5. ASSUME NEW p \in Peers, Stop(p) PROVE TypeOK'
    BY <1>5 DEF TypeOK, Stop, Enter, Phases
  <1>6. CASE TimePasses
    <2>1. ASSUME NEW p \in Peers
          PROVE  /\ [state[p] EXCEPT !.rounds = Older(state[p].rounds)] \in States
                 /\ [file[p] EXCEPT !.rounds = Older(file[p].rounds)] \in States
                 /\ Recent(Older(spawns[p])) \in Seq(Nat)
      <3>1. /\ state[p] \in States /\ file[p] \in States /\ spawns[p] \in Seq(Nat)
            /\ state[p].rounds \in Seq(Nat) /\ file[p].rounds \in Seq(Nat)
        BY <2>1 DEF TypeOK, States
      <3>2. \A s \in Seq(Nat) : Older(s) \in Seq(Nat)
        BY OlderCounts
      <3>. QED
        BY <3>1, <3>2, StateRounds, RecentCounts
    <2>. QED
      BY <1>6, <2>1 DEF TypeOK, TimePasses
  <1>7. CASE Commit
    BY <1>7 DEF TypeOK, Commit, history
  <1>8. ASSUME NEW s \in Peers \union {AllPeers}, Pause(s) \/ Resume(s) PROVE TypeOK'
    BY <1>8 DEF TypeOK, Pause, Resume, history
  <1>9. CASE UNCHANGED vars
    BY <1>9 DEF TypeOK, vars, history
  <1>. QED
    BY <1>1, <1>2, <1>3, <1>4, <1>5, <1>6, <1>7, <1>8, <1>9 DEF Next

\* The state keeps its shape.
THEOREM TypeCorrect == Spec => []TypeOK
  BY TypeInit, TypeStep, PTL DEF Spec

-----------------------------------------------------------------------------
(* The day cap.                                                            *)

\* The rounds whose end p's state file does not know, or not yet.
Unentered(p) == lost[p] + (IF phase[p] = "claude" THEN 1 ELSE 0)

\* However young, no more rounds have begun than are entered or excused; that
\* the claim is made for every age is what carries it through the passing of time.
Counted(p, rounds) ==
  \A k \in 0..Day : Younger(spawns[p], k) <= Younger(rounds, k) + Unentered(p)

\* The cap, with all that stands between it and a spawn.
Capped(p) ==
  /\ \A i \in 1..Len(spawns[p]) : spawns[p][i] < Day
  /\ Counted(p, file[p].rounds)
  /\ phase[p] # "off" => Counted(p, state[p].rounds)
  /\ phase[p] = "log" => Younger(state[p].rounds, Day) < Cap
  /\ Len(spawns[p]) <= Cap + lost[p]

CapInv == TypeOK /\ \A p \in Peers : Capped(p)

LEMMA Sequences ==
  ASSUME TypeOK, NEW p \in Peers
  PROVE  /\ state[p].rounds \in Seq(Nat) /\ file[p].rounds \in Seq(Nat) /\ spawns[p] \in Seq(Nat)
         /\ lost[p] \in Nat /\ Unentered(p) \in Nat
  BY DEF TypeOK, States, Unentered

LEMMA Counts ==
  ASSUME NEW s \in Seq(Nat), NEW k
  PROVE  Younger(s, k) \in Nat
  BY LenProperties, UptoNat DEF Younger

\* When all ages are below Day, the count of those is the length.
LEMMA AllYoung ==
  ASSUME NEW s \in Seq(Nat), \A i \in 1..Len(s) : s[i] < Day
  PROVE  Younger(s, Day) = Len(s)
  <1>1. Len(s) \in Nat
    BY LenProperties
  <1>2. {i \in 1..Len(s) : s[i] < Day} = 1..Len(s)
    OBVIOUS
  <1>3. Cardinality(1..Len(s)) = Len(s)
    BY <1>1, FirstCount
  <1>. QED
    BY <1>2, <1>3 DEF Younger, Upto

\* Fewer ages are below a smaller bound, and no more than there are places.
LEMMA Monotone ==
  ASSUME NEW s \in Seq(Nat), NEW j \in Nat, NEW k \in Nat, j <= k
  PROVE  Younger(s, j) <= Younger(s, k)
  <1>. DEFINE A == {i \in 1..Len(s) : s[i] < j}
              B == {i \in 1..Len(s) : s[i] < k}
  <1>1. Len(s) \in Nat /\ \A i \in 1..Len(s) : s[i] \in Nat
    BY LenProperties, ElementOfSeq
  <1>2. A \subseteq B
    BY <1>1
  <1>3. IsFiniteSet(B)
    BY <1>1, UptoNat
  <1>4. Cardinality(A) <= Cardinality(B)
    <2>. HIDE DEF A, B
    <2>. QED
      BY <1>2, <1>3, FS_Subset
  <1>. QED
    BY <1>4 DEF Younger, Upto

LEMMA AtMostLength ==
  ASSUME NEW s \in Seq(Nat)
  PROVE  Younger(s, Day) <= Len(s)
  <1>. DEFINE A == {i \in 1..Len(s) : s[i] < Day}
  <1>1. Len(s) \in Nat
    BY LenProperties
  <1>2. IsFiniteSet(1..Len(s)) /\ Cardinality(1..Len(s)) = Len(s)
    BY <1>1, FirstCount
  <1>3. A \subseteq 1..Len(s)
    OBVIOUS
  <1>4. Cardinality(A) <= Cardinality(1..Len(s))
    <2>. HIDE DEF A
    <2>. QED
      BY <1>2, <1>3, FS_Subset
  <1>. QED
    BY <1>2, <1>4 DEF Younger, Upto

LEMMA CapInit == Init => CapInv
  <1>. SUFFICES ASSUME Init PROVE CapInv
    OBVIOUS
  <1>1. TypeOK
    BY TypeInit
  <1>2. ASSUME NEW p \in Peers PROVE Capped(p)
    <2>1. /\ phase[p] = "off" /\ spawns[p] = <<>> /\ lost[p] = 0
          /\ file[p].rounds = <<>>
      BY DEF Init, Fresh
    <2>2. PICK e : e = <<>>
      OBVIOUS
    <2>3. e \in Seq(Nat) /\ Len(e) = 0
      BY <2>2, EmptySeq
    <2>4. \A k : Younger(e, k) = 0
      BY <2>3, UptoNat DEF Younger
    <2>5. Counted(p, e)
      BY <2>1, <2>2, <2>4 DEF Counted, Unentered
    <2>6. Cap \in Nat
      BY ScribeAssumption
    <2>. QED
      BY <2>1, <2>2, <2>3, <2>5, <2>6 DEF Capped
  <1>. QED
    BY <1>1, <1>2 DEF CapInv

\* What no step but p's own and the passing of time touches.
Same(p) ==
  /\ phase'[p] = phase[p] /\ state'[p] = state[p] /\ file'[p] = file[p]
  /\ spawns'[p] = spawns[p] /\ lost'[p] = lost[p]

LEMMA SameKeeps ==
  ASSUME NEW p \in Peers, Capped(p), Same(p)
  PROVE  Capped(p)'
  <1>1. Unentered(p)' = Unentered(p)
    BY DEF Same, Unentered
  <1>. QED
    BY <1>1 DEF Capped, Counted, Same

\* A round's end: its time is entered, where its beginning was excused.
LEMMA EntryCounts ==
  ASSUME TypeOK, NEW p \in Peers, Counted(p, state[p].rounds), phase[p] = "claude",
         NEW k \in 0..Day
  PROVE  Younger(spawns[p], k) <= Younger(Append(state[p].rounds, 0), k) + lost[p]
  <1>1. /\ state[p].rounds \in Seq(Nat) /\ spawns[p] \in Seq(Nat) /\ lost[p] \in Nat
        /\ Day \in Nat /\ Unentered(p) = lost[p] + 1
    BY Sequences, ScribeAssumption DEF Unentered
  <1>2. Younger(Append(state[p].rounds, 0), k)
          = Younger(state[p].rounds, k) + (IF 0 < k THEN 1 ELSE 0)
    BY <1>1, YoungerAppend
  <1>3. Younger(state[p].rounds, k) \in Nat /\ Younger(spawns[p], k) \in Nat
    BY <1>1, Counts
  <1>4. Younger(spawns[p], k) <= Younger(state[p].rounds, k) + (lost[p] + 1)
    BY <1>1 DEF Counted
  <1>5. k = 0 => Younger(spawns[p], k) = 0
    BY <1>1, OlderCounts
  <1>. QED
    BY <1>1, <1>2, <1>3, <1>4, <1>5

LEMMA CapStep == CapInv /\ [Next]_vars => CapInv'
  <1>. SUFFICES ASSUME CapInv, [Next]_vars PROVE CapInv'
    OBVIOUS
  <1>1. TypeOK'
    BY TypeStep DEF CapInv
  <1>2. ASSUME NEW p \in Peers PROVE Capped(p)'
    <2>1. /\ TypeOK /\ Capped(p)
          /\ phase \in [Peers -> Phases] /\ state \in [Peers -> States]
          /\ file \in [Peers -> States] /\ spawns \in [Peers -> Seq(Nat)]
          /\ lost \in [Peers -> Nat]
      BY <1>2 DEF CapInv, TypeOK
    <2>2. /\ state[p].rounds \in Seq(Nat) /\ file[p].rounds \in Seq(Nat)
          /\ spawns[p] \in Seq(Nat) /\ lost[p] \in Nat /\ Unentered(p) \in Nat
      BY <1>2, <2>1, Sequences
    <2>3. Day \in Nat \ {0} /\ Cap \in Nat
      BY ScribeAssumption
    <2>4. ASSUME NEW q \in Peers \ {p},
                 \/ Start(q) \/ Wake(q) \/ HeadRead(q) \/ HeadFails(q) \/ Spawn(q)
                 \/ EndRound(q) \/ EndRoundUnsaved(q) \/ Stop(q)
          PROVE  Capped(p)'
      <3>1. Same(p)
        BY <1>2, <2>1, <2>4 DEF Same, Start, Wake, HeadRead, HeadFails, Spawn, EndRound,
           EndRoundUnsaved, Stop, Enter, history
      <3>. QED
        BY <1>2, <2>1, <3>1, SameKeeps
    <2>5. CASE Start(p)
      <3>1. /\ phase[p] = "off" /\ phase'[p] = "sleep" /\ state'[p] = file[p]
            /\ file' = file /\ spawns' = spawns /\ lost' = lost
        BY <1>2, <2>1, <2>5 DEF Start, Enter, history
      <3>2. Unentered(p)' = Unentered(p)
        BY <3>1 DEF Unentered
      <3>. QED
        BY <2>1, <3>1, <3>2 DEF Capped, Counted
    <2>6. CASE Wake(p) \/ HeadFails(p)
      <3>1. /\ phase[p] \in {"sleep", "head"} /\ phase'[p] \in {"sleep", "head"}
            /\ state' = state /\ file' = file /\ spawns' = spawns /\ lost' = lost
        BY <1>2, <2>1, <2>6 DEF Wake, HeadFails, Enter, history
      <3>2. Unentered(p)' = Unentered(p)
        BY <3>1 DEF Unentered
      <3>. QED
        BY <2>1, <3>1, <3>2 DEF Capped, Counted
    <2>7. CASE HeadRead(p)
      <3>1. /\ phase[p] = "head" /\ phase'[p] \in {"sleep", "log"}
            /\ file' = file /\ spawns' = spawns /\ lost' = lost
        BY <1>2, <2>1, <2>7 DEF HeadRead, Enter, history
      <3>2. Unentered(p)' = Unentered(p)
        BY <3>1 DEF Unentered
      <3>3. PICK rs : rs = Recent(state[p].rounds)
        OBVIOUS
      <3>4. /\ Len(rs) = Younger(rs, Day)
            /\ \A k \in 0..Day : Younger(rs, k) = Younger(state[p].rounds, k)
        <4>1. Len(rs) = Younger(state[p].rounds, Day)
          BY <2>2, <3>3, RecentCounts
        <4>2. \A k \in 0..Day : Younger(rs, k) = Younger(state[p].rounds, k)
          BY <2>2, <3>3, RecentCounts
        <4>3. Day \in 0..Day
          BY <2>3
        <4>. QED
          BY <4>1, <4>2, <4>3
      <3>5. \/ phase'[p] = "sleep" /\ state' = state
            \/ /\ state'[p].rounds = rs
               /\ phase'[p] = "log" => ~(Len(rs) >= Cap)
        <4>1. CASE head = state[p].last
          BY <1>2, <2>1, <2>7, <4>1 DEF HeadRead, Enter
        <4>2. CASE head # state[p].last
          <5>1. /\ state' = [state EXCEPT ![p].rounds = rs]
                /\ phase' = [phase EXCEPT ![p] = IF Len(rs) >= Cap THEN "sleep" ELSE "log"]
            BY <2>7, <3>3, <4>2 DEF HeadRead, Enter
          <5>2. state'[p] = [state[p] EXCEPT !.rounds = rs]
            BY <1>2, <2>1, <5>1
          <5>3. state'[p].rounds = rs
            BY <1>2, <2>1, <5>2 DEF States
          <5>. QED
            BY <1>2, <2>1, <5>1, <5>3
        <4>. QED
          BY <4>1, <4>2
      <3>6. Counted(p, state'[p].rounds)
        BY <2>1, <3>1, <3>4, <3>5 DEF Capped, Counted
      <3>7. Counted(p, state[p].rounds)'
        BY <3>1, <3>2, <3>6 DEF Counted
      <3>8. Counted(p, file[p].rounds)'
        BY <2>1, <3>1, <3>2 DEF Capped, Counted
      <3>9. phase'[p] = "log" => Younger(state'[p].rounds, Day) < Cap
        <4>1. Len(rs) \in Nat
          BY <2>2, <3>3, RecentCounts, LenProperties
        <4>. QED
          BY <2>3, <3>4, <3>5, <4>1
      <3>. QED
        BY <2>1, <3>1, <3>7, <3>8, <3>9 DEF Capped
    <2>8. CASE Spawn(p)
      <3>1. /\ phase[p] = "log" /\ phase'[p] = "claude"
            /\ state' = state /\ file' = file /\ lost' = lost
            /\ spawns'[p] = Append(spawns[p], 0)
        BY <1>2, <2>1, <2>8 DEF Spawn, Enter
      <3>2. Unentered(p)' = Unentered(p) + 1 /\ Unentered(p) = lost[p]
        BY <2>2, <3>1 DEF Unentered
      <3>3. PICK t : t = spawns'[p]
        OBVIOUS
      <3>4. /\ t \in Seq(Nat) /\ Len(t) = Len(spawns[p]) + 1
            /\ \A k : Younger(t, k) = Younger(spawns[p], k) + (IF 0 < k THEN 1 ELSE 0)
        BY <2>2, <3>1, <3>3, YoungerAppend
      <3>5. \A i \in 1..Len(t) : t[i] < Day
        <4>1. /\ Len(spawns[p]) \in Nat /\ t[Len(spawns[p]) + 1] = 0
              /\ \A i \in 1..Len(spawns[p]) : t[i] = spawns[p][i]
          BY <2>2, <3>1, <3>3, AppendProperties, LenProperties
        <4>2. ASSUME NEW i \in 1..Len(t) PROVE t[i] < Day
          <5>1. i \in 1..Len(spawns[p]) \/ i = Len(spawns[p]) + 1
            BY <3>4, <4>1
          <5>2. CASE i \in 1..Len(spawns[p])
            BY <2>1, <4>1, <5>2 DEF Capped
          <5>3. CASE i = Len(spawns[p]) + 1
            BY <2>3, <4>1, <5>3
          <5>. QED
            BY <5>1, <5>2, <5>3
        <4>. QED
          BY <4>2
      <3>6. ASSUME NEW rounds \in Seq(Nat), Counted(p, rounds), NEW k \in 0..Day
            PROVE  Younger(t, k) <= Younger(rounds, k) + Unentered(p)'
        <4>1. Younger(rounds, k) \in Nat /\ Younger(spawns[p], k) \in Nat
          BY <2>2, Counts
        <4>2. Younger(spawns[p], k) <= Younger(rounds, k) + Unentered(p)
          BY <3>6 DEF Counted
        <4>3. Younger(t, k) <= Younger(spawns[p], k) + 1
          BY <2>3, <3>4, <4>1
        <4>4. Younger(t, k) \in Nat
          BY <3>4, Counts
        <4>. QED
          BY <2>2, <3>2, <4>1, <4>2, <4>3, <4>4
      <3>7. Counted(p, state[p].rounds)' /\ Counted(p, file[p].rounds)'
        BY <2>1, <2>2, <3>1, <3>3, <3>6 DEF Capped, Counted
      <3>8. Len(t) <= Cap + lost[p]
        <4>1. Younger(spawns[p], Day) = Len(spawns[p])
          BY <2>1, <2>2, AllYoung DEF Capped
        <4>2. Younger(spawns[p], Day) <= Younger(state[p].rounds, Day) + lost[p]
          <5>1. Day \in 0..Day
            BY <2>3
          <5>. QED
            BY <2>1, <3>1, <3>2, <5>1 DEF Capped, Counted
        <4>3. Younger(state[p].rounds, Day) < Cap
          BY <2>1, <3>1 DEF Capped
        <4>4. Younger(state[p].rounds, Day) \in Nat /\ Younger(spawns[p], Day) \in Nat
          BY <2>2, Counts
        <4>. QED
          BY <2>2, <2>3, <3>4, <4>1, <4>2, <4>3, <4>4
      <3>. QED
        BY <3>1, <3>3, <3>5, <3>7, <3>8 DEF Capped
    <2>9. CASE EndRound(p) \/ EndRoundUnsaved(p)
      <3>1. /\ phase[p] = "claude" /\ phase'[p] = "sleep" /\ spawns' = spawns
            /\ state'[p] = AfterRound(p)
            /\ \/ lost' = lost /\ file'[p] = AfterRound(p)
               \/ lost'[p] = lost[p] + 1 /\ file' = file
        BY <1>2, <2>1, <2>9 DEF EndRound, EndRoundUnsaved, Enter, history
      <3>0. lost'[p] \in Nat
        BY <1>1, <1>2 DEF TypeOK
      <3>2. Unentered(p)' = lost'[p] /\ Unentered(p) = lost[p] + 1
        BY <2>2, <3>0, <3>1 DEF Unentered
      <3>3. AfterRound(p).rounds = Append(state[p].rounds, 0)
        BY DEF AfterRound
      <3>4. \A k \in 0..Day :
              Younger(spawns[p], k) <= Younger(AfterRound(p).rounds, k) + lost[p]
        BY <1>2, <2>1, <3>1, <3>3, EntryCounts DEF Capped
      <3>5. /\ AfterRound(p).rounds \in Seq(Nat)
            /\ \A k : Younger(AfterRound(p).rounds, k) \in Nat /\ Younger(spawns[p], k) \in Nat
        <4>1. Append(state[p].rounds, 0) \in Seq(Nat)
          BY <2>2, YoungerAppend
        <4>. QED
          BY <2>2, <3>3, <4>1, Counts
      <3>6. lost[p] <= lost'[p] /\ lost'[p] \in Nat
        BY <2>2, <3>0, <3>1
      <3>7. \A k \in 0..Day :
              Younger(spawns[p], k) <= Younger(AfterRound(p).rounds, k) + lost'[p]
        BY <2>2, <3>4, <3>5, <3>6
      <3>8. Counted(p, state[p].rounds)'
        BY <3>1, <3>2, <3>7 DEF Counted
      <3>9. Counted(p, file[p].rounds)'
        <4>1. CASE file'[p] = AfterRound(p)
          BY <3>1, <3>2, <3>7, <4>1 DEF Counted
        <4>2. CASE lost'[p] = lost[p] + 1 /\ file' = file
          BY <2>1, <3>1, <3>2, <4>2 DEF Counted, Capped
        <4>. QED
          BY <3>1, <4>1, <4>2
      <3>10. Len(spawns'[p]) <= Cap + lost'[p]
        <4>1. Len(spawns[p]) \in Nat
          BY <2>2, LenProperties
        <4>. QED
          BY <2>1, <2>2, <2>3, <3>1, <3>6, <4>1 DEF Capped
      <3>. QED
        BY <2>1, <3>1, <3>8, <3>9, <3>10 DEF Capped
    <2>10. CASE Stop(p)
      <3>1. /\ phase'[p] = "off" /\ spawns' = spawns /\ file' = file
            /\ lost'[p] = Unentered(p)
        BY <1>2, <2>1, <2>2, <2>10 DEF Stop, Enter, Unentered
      <3>2. Unentered(p)' = Unentered(p)
        BY <2>2, <3>1 DEF Unentered
      <3>3. Counted(p, file[p].rounds)'
        BY <2>1, <3>1, <3>2 DEF Capped, Counted
      <3>4. Len(spawns'[p]) <= Cap + lost'[p]
        <4>1. Len(spawns[p]) \in Nat /\ lost[p] <= Unentered(p)
          BY <2>2, LenProperties DEF Unentered
        <4>. QED
          BY <2>1, <2>2, <2>3, <3>1, <4>1 DEF Capped
      <3>. QED
        BY <2>1, <3>1, <3>3, <3>4 DEF Capped
    <2>11. CASE TimePasses
      <3>1. /\ state'[p] = [state[p] EXCEPT !.rounds = Older(state[p].rounds)]
            /\ file'[p] = [file[p] EXCEPT !.rounds = Older(file[p].rounds)]
            /\ spawns'[p] = Recent(Older(spawns[p]))
            /\ phase' = phase /\ lost' = lost
        BY <1>2, <2>11 DEF TimePasses
      <3>2. /\ state'[p].rounds = Older(state[p].rounds)
            /\ file'[p].rounds = Older(file[p].rounds)
        BY <1>2, <2>1, <3>1 DEF States
      <3>3. Unentered(p)' = Unentered(p)
        BY <3>1 DEF Unentered
      <3>4. PICK o : o = Older(spawns[p])
        OBVIOUS
      <3>5. PICK t : t = spawns'[p]
        OBVIOUS
      <3>6. /\ o \in Seq(Nat) /\ Len(o) = Len(spawns[p])
            /\ \A k \in 1..Day : Younger(o, k) = Younger(spawns[p], k - 1)
            /\ Younger(o, 0) = 0
        BY <2>2, <3>4, OlderCounts
      <3>7. /\ t \in Seq(Nat) /\ Len(t) = Younger(o, Day)
            /\ \A i \in 1..Len(t) : t[i] < Day
            /\ \A k \in 0..Day : Younger(t, k) = Younger(o, k)
        BY <3>1, <3>4, <3>5, <3>6, RecentCounts
      <3>8. ASSUME NEW rounds \in Seq(Nat), Counted(p, rounds), NEW k \in 0..Day
            PROVE  Younger(t, k) <= Younger(Older(rounds), k) + Unentered(p)
        <4>1. Older(rounds) \in Seq(Nat)
          BY OlderCounts
        <4>2. Younger(Older(rounds), k) \in Nat
          BY <4>1, Counts
        <4>3. CASE k = 0
          BY <2>2, <3>6, <3>7, <4>2, <4>3
        <4>4. CASE k # 0
          <5>1. k \in 1..Day /\ k - 1 \in 0..Day
            BY <2>3, <4>4
          <5>2. Younger(Older(rounds), k) = Younger(rounds, k - 1)
            BY <5>1, OlderCounts
          <5>3. Younger(t, k) = Younger(spawns[p], k - 1)
            BY <3>6, <3>7, <5>1
          <5>. QED
            BY <3>8, <5>1, <5>2, <5>3 DEF Counted
        <4>. QED
          BY <4>3, <4>4
      <3>9. /\ Counted(p, file[p].rounds)'
            /\ (phase[p] # "off" => Counted(p, state[p].rounds))'
        BY <2>1, <2>2, <3>1, <3>2, <3>3, <3>5, <3>8 DEF Capped, Counted
      <3>10. phase'[p] = "log" => Younger(state'[p].rounds, Day) < Cap
        <4>1. PICK rounds \in Seq(Nat) : rounds = state[p].rounds
          BY <2>2
        <4>2. Younger(Older(rounds), Day) = Younger(rounds, Day - 1)
          <5>1. Day \in 1..Day
            BY <2>3
          <5>. QED
            BY <5>1, OlderCounts
        <4>3. Younger(rounds, Day - 1) <= Younger(rounds, Day)
          BY <2>3, Monotone
        <4>4. Younger(rounds, Day - 1) \in Nat /\ Younger(rounds, Day) \in Nat
          BY Counts
        <4>5. phase[p] = "log" => Younger(rounds, Day) < Cap
          BY <2>1, <4>1 DEF Capped
        <4>. QED
          BY <2>3, <3>1, <3>2, <4>1, <4>2, <4>3, <4>4, <4>5
      <3>11. Len(t) <= Cap + lost[p]
        <4>1. Younger(o, Day) <= Len(o)
          BY <3>6, AtMostLength
        <4>2. Len(o) \in Nat /\ Len(t) \in Nat
          BY <3>6, <3>7, LenProperties
        <4>. QED
          BY <2>1, <2>2, <2>3, <3>6, <3>7, <4>1, <4>2 DEF Capped
      <3>. QED
        BY <3>1, <3>5, <3>7, <3>9, <3>10, <3>11 DEF Capped
    <2>12. CASE \/ Commit \/ UNCHANGED vars
                \/ \E s \in Peers \union {AllPeers} : Pause(s) \/ Resume(s)
      <3>1. Same(p)
        BY <2>12 DEF Same, Commit, Pause, Resume, vars, history
      <3>. QED
        BY <1>2, <2>1, <3>1, SameKeeps
    <2>. QED
      BY <2>4, <2>5, <2>6, <2>7, <2>8, <2>9, <2>10, <2>11, <2>12 DEF Next
  <1>. QED
    BY <1>1, <1>2 DEF CapInv

\* daemon.py, scribe_loop ("Hard cap of max_rounds_per_day"): whatever is
\* committed, whenever the daemon ends and whether or not its state reaches the
\* disk, a day sees at most Cap spawns and one for each round never recorded.
THEOREM CapPerDayHolds == Spec => []CapPerDay
  <1>1. CapInv => CapPerDay
    BY DEF CapInv, Capped, CapPerDay
  <1>. QED
    BY <1>1, CapInit, CapStep, PTL DEF Spec
=============================================================================
