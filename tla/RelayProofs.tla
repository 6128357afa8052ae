---------------------------- MODULE RelayProofs ----------------------------
(***************************************************************************)
(* Theorems of module Relay for every set of agents, every traffic, both   *)
(* stores and every value of the limits: the ranges of the variables, the  *)
(* limit on pending asks, at-most-once delivery, what the answers say, the *)
(* pairing of asks and replies, and the refinement of module Mailbox.      *)
(***************************************************************************)
EXTENDS Relay, FiniteSetTheorems, SequenceTheorems, TLAPS

(***************************************************************************)
(* A request past its first checks carries an envelope of the traffic, and *)
(* an ask or a reply in flight names a correlation id.                     *)
(***************************************************************************)
Carries ==
  \A r \in Requests :
    /\ pc[r] # "idle" => env[r] \in Traffic
    /\ /\ InFlight(r)
       /\ env[r].endpoint \in {"ask", "reply"}
       => env[r].corr \in Corrs

Typed == TypeOK /\ Carries

LEMMA TrafficFields ==
  ASSUME NEW e \in Traffic
  PROVE  /\ e.endpoint \in Endpoints /\ e.to \in Agents
         /\ e.corr \in Corrs \cup {None} /\ e.nonce \in Nonces /\ e.ts \in Nat
  BY TrafficAssumption DEF Envelopes

LEMMA DrainedTyped ==
  ASSUME NEW s \in Seq(Requests), NEW n \in 0..Len(s)
  PROVE  /\ SubSeq(s, 1, n) \in Seq(Requests)
         /\ SubSeq(s, n + 1, Len(s)) \in Seq(Requests)
  <1>1. \A i \in 1..Len(s) : s[i] \in Requests
    BY ElementOfSeq
  <1>2. Len(s) \in Nat
    BY LenProperties
  <1>3. SubSeq(s, 1, n) \in Seq(Requests)
    BY <1>1, <1>2, SubSeqProperties
  <1>4. SubSeq(s, n + 1, Len(s)) \in Seq(Requests)
    BY <1>1, <1>2, SubSeqProperties
  <1>. QED
    BY <1>3, <1>4

LEMMA PurgedTyped == TypeOK => Purged \in [Nonces -> Nat]
  BY DEF TypeOK, Purged

LEMMA RememberedTyped ==
  ASSUME TypeOK, NEW n \in Nonces
  PROVE  Remembered(n) \in [Nonces -> Nat]
  BY PurgedTyped, ParameterAssumption DEF TypeOK, Remembered

LEMMA AppendedTyped ==
  ASSUME Typed, NEW r \in Requests, pc[r] # "idle"
  PROVE  Appended(r) \in [Agents -> Seq(Requests)]
  <1>1. env[r].to \in Agents
    BY TrafficFields DEF Typed, Carries
  <1>2. Append(inbox[env[r].to], r) \in Seq(Requests)
    BY <1>1, AppendProperties DEF Typed, TypeOK
  <1>. QED
    BY <1>1, <1>2 DEF Appended, Typed, TypeOK

\* Elements of the sequences an append or a drain produces.
LEMMA AppendElements ==
  ASSUME NEW s \in Seq(Requests), NEW r \in Requests
  PROVE  Range(Append(s, r)) = Range(s) \cup {r}
  <1>1. Len(s) \in Nat /\ DOMAIN s = 1..Len(s)
    BY LenProperties
  <1>2. /\ Append(s, r) \in Seq(Requests)
        /\ Len(Append(s, r)) = Len(s) + 1
        /\ \A i \in 1..Len(s) : Append(s, r)[i] = s[i]
        /\ Append(s, r)[Len(s) + 1] = r
    BY AppendProperties
  <1>. DEFINE w == Append(s, r)
  <1>3. DOMAIN w = 1..(Len(s) + 1)
    BY <1>2, LenProperties
  <1>4. /\ \A i \in DOMAIN s : i \in DOMAIN w /\ w[i] = s[i]
        /\ Len(s) + 1 \in DOMAIN w /\ w[Len(s) + 1] = r
        /\ \A i \in DOMAIN w : i = Len(s) + 1 \/ i \in DOMAIN s
    BY <1>1, <1>2, <1>3
  <1>. HIDE DEF w
  <1>5. Range(w) = Range(s) \cup {r}
    BY <1>4 DEF Range
  <1>. QED
    BY <1>5 DEF w

LEMMA ConcatElements ==
  ASSUME NEW t \in Seq(Requests), NEW u \in Seq(Requests)
  PROVE  t \o u \in Seq(Requests) /\ Range(t \o u) = Range(t) \cup Range(u)
  <1>. DEFINE w == t \o u
  <1>1. Len(t) \in Nat /\ DOMAIN t = 1..Len(t) /\ Len(u) \in Nat /\ DOMAIN u = 1..Len(u)
    BY LenProperties
  <1>2. /\ w \in Seq(Requests) /\ Len(w) = Len(t) + Len(u)
        /\ \A i \in 1..(Len(t) + Len(u)) : w[i] = IF i <= Len(t) THEN t[i] ELSE u[i - Len(t)]
    BY ConcatProperties
  <1>3. DOMAIN w = 1..(Len(t) + Len(u))
    BY <1>2, LenProperties
  <1>. HIDE DEF w
  <1>4. ASSUME NEW i \in DOMAIN w PROVE w[i] \in Range(t) \cup Range(u)
    <2>1. CASE i <= Len(t)
      BY <2>1, <1>1, <1>2, <1>3 DEF Range
    <2>2. CASE i > Len(t)
      <3>1. i - Len(t) \in 1..Len(u) /\ w[i] = u[i - Len(t)]
        BY <2>2, <1>1, <1>2, <1>3
      <3>. QED
        BY <3>1, <1>1 DEF Range
    <2>. QED
      BY <2>1, <2>2, <1>1, <1>3
  <1>5. ASSUME NEW i \in DOMAIN t PROVE i \in DOMAIN w /\ w[i] = t[i]
    BY <1>1, <1>2, <1>3
  <1>6. ASSUME NEW i \in DOMAIN u PROVE Len(t) + i \in DOMAIN w /\ w[Len(t) + i] = u[i]
    <2>1. (Len(t) + i) - Len(t) = i /\ Len(t) + i > Len(t) /\ Len(t) + i \in 1..(Len(t) + Len(u))
      BY <1>1
    <2>. QED
      BY <2>1, <1>1, <1>2, <1>3
  <1>7. Range(w) = Range(t) \cup Range(u)
    BY <1>4, <1>5, <1>6 DEF Range
  <1>. QED
    BY <1>2, <1>7 DEF w

\* What is popped from the front, and what is left.
LEMMA SplitElements ==
  ASSUME NEW s \in Seq(Requests), NEW n \in 0..Len(s)
  PROVE  Range(SubSeq(s, 1, n)) \cup Range(SubSeq(s, n + 1, Len(s))) = Range(s)
  <1>. DEFINE u == SubSeq(s, 1, n)
              v == SubSeq(s, n + 1, Len(s))
  <1>1. Len(s) \in Nat /\ DOMAIN s = 1..Len(s)
    BY LenProperties
  <1>n. Len(s) \in Nat /\ n \in Nat /\ (n + 1 <= Len(s) \/ n = Len(s))
    <2>1. Len(s) \in Nat
      BY <1>1
    <2>. QED
      BY <2>1
  <1>2. \A i \in 1..Len(s) : s[i] \in Requests
    BY ElementOfSeq
  <1>3. /\ u \in Seq(Requests) /\ Len(u) = n /\ \A i \in 1..n : u[i] = s[i]
    BY <1>1, <1>2, SubSeqProperties
  <1>4. /\ v \in Seq(Requests) /\ Len(v) = Len(s) - n
        /\ \A i \in 1..(Len(s) - n) : v[i] = s[n + i]
    <2>1. n + 1 \in Int /\ Len(s) \in Int /\ \A i \in (n + 1)..Len(s) : s[i] \in Requests
      BY <1>1, <1>2
    <2>2. /\ v \in Seq(Requests)
          /\ Len(v) = IF n + 1 <= Len(s) THEN Len(s) - (n + 1) + 1 ELSE 0
          /\ \A i \in 1..(Len(s) - (n + 1) + 1) : v[i] = s[(n + 1) + i - 1]
      BY <2>1, SubSeqProperties
    <2>. HIDE DEF v
    <2>3. \A i \in 1..(Len(s) - n) : v[i] = s[n + i]
      <3>. SUFFICES ASSUME NEW i \in 1..(Len(s) - n) PROVE v[i] = s[n + i]
        OBVIOUS
      <3>1. (n + 1) + i - 1 = n + i /\ i \in 1..(Len(s) - (n + 1) + 1)
        BY <1>1
      <3>. QED
        BY <2>2, <3>1
    <2>4. Len(v) = Len(s) - n
      <3>1. CASE n + 1 <= Len(s)
        BY <1>n, <2>2, <3>1
      <3>2. CASE n = Len(s)
        <4>1. ~(n + 1 <= Len(s)) /\ Len(s) - n = 0
          BY <1>n, <3>2
        <4>. QED
          BY <2>2, <4>1
      <3>. QED
        BY <1>n, <3>1, <3>2
    <2>. QED
      BY <2>2, <2>3, <2>4
  <1>5. DOMAIN u = 1..n /\ DOMAIN v = 1..(Len(s) - n)
    BY <1>3, <1>4, LenProperties
  <1>. HIDE DEF u, v
  <1>6. ASSUME NEW i \in 1..n PROVE i \in DOMAIN s /\ u[i] = s[i]
    BY <1>1, <1>3
  <1>7. ASSUME NEW i \in 1..(Len(s) - n) PROVE n + i \in DOMAIN s /\ v[i] = s[n + i]
    BY <1>1, <1>4
  <1>8. ASSUME NEW i \in 1..Len(s), i > n PROVE i - n \in DOMAIN v /\ v[i - n] = s[i]
    <2>1. i - n \in 1..(Len(s) - n) /\ n + (i - n) = i
      BY <1>8, <1>1
    <2>2. v[i - n] = s[n + (i - n)]
      BY <2>1, <1>4
    <2>. QED
      BY <2>1, <2>2, <1>5
  <1>9. ASSUME NEW i \in 1..Len(s), i <= n PROVE i \in DOMAIN u /\ u[i] = s[i]
    <2>1. i \in 1..n
      BY <1>9, <1>1
    <2>. QED
      BY <2>1, <1>3, <1>5
  <1>10. Range(u) \subseteq Range(s) /\ Range(v) \subseteq Range(s)
    BY <1>5, <1>6, <1>7 DEF Range
  <1>11. Range(s) \subseteq Range(u) \cup Range(v)
    <2>1. ASSUME NEW i \in 1..Len(s) PROVE s[i] \in Range(u) \cup Range(v)
      <3>1. CASE i <= n
        BY <3>1, <1>9 DEF Range
      <3>2. CASE i > n
        BY <3>2, <1>8 DEF Range
      <3>. QED
        BY <3>1, <3>2, <1>1
    <2>. QED
      BY <2>1, <1>1 DEF Range
  <1>. QED
    BY <1>10, <1>11 DEF u, v

\* LPOP with a count of n: the messages it returns and the list it leaves.
LEMMA PopParts ==
  ASSUME TypeOK, NEW a \in Agents, NEW n \in Nat
  PROVE  /\ Reach(a, n) \in 0..Len(inbox[a])
         /\ Oldest(a, n) \in Seq(Requests)
         /\ Popped(a, n) \in [Agents -> Seq(Requests)]
         /\ \A b \in Agents : b # a => Popped(a, n)[b] = inbox[b]
         /\ Range(Oldest(a, n)) \cup Range(Popped(a, n)[a]) = Range(inbox[a])
  <1>1. inbox \in [Agents -> Seq(Requests)] /\ inbox[a] \in Seq(Requests)
    BY DEF TypeOK
  <1>2. Reach(a, n) \in 0..Len(inbox[a])
    BY <1>1, LenProperties DEF Reach
  <1>3. PICK k \in 0..Len(inbox[a]) : k = Reach(a, n)
    BY <1>2
  <1>4. /\ SubSeq(inbox[a], 1, k) \in Seq(Requests)
        /\ SubSeq(inbox[a], k + 1, Len(inbox[a])) \in Seq(Requests)
    BY <1>1, DrainedTyped
  <1>5. Range(SubSeq(inbox[a], 1, k)) \cup Range(SubSeq(inbox[a], k + 1, Len(inbox[a]))) = Range(inbox[a])
    BY <1>1, SplitElements
  <1>6. /\ Oldest(a, n) = SubSeq(inbox[a], 1, k)
        /\ Popped(a, n) = [inbox EXCEPT ![a] = SubSeq(inbox[a], k + 1, Len(inbox[a]))]
    BY <1>3 DEF Oldest, Popped
  <1>. QED
    BY <1>1, <1>2, <1>4, <1>5, <1>6

\* What a step of a drain does to the messages: they stay in the list, go into
\* the reader's hand, to the reader, or are dropped by an error.
LEMMA DrainMoves ==
  ASSUME TypeOK, NEW d \in Readers, DrainStep(d)
  PROVE  /\ UNCHANGED <<nonces, lost, early, askVars, reqVars, now, restarts, running>>
         /\ inbox' \in [Agents -> Seq(Requests)]
         /\ drain' \in [Readers -> DrainStages]
         /\ hand' \in [Readers -> Seq(Requests)] /\ taken' \in [Readers -> Seq(Requests)]
         /\ \A b \in Agents : b # Owner[d] => inbox'[b] = inbox[b]
         /\ \A e \in Readers : e # d => hand'[e] = hand[e] /\ taken'[e] = taken[e]
         /\ Range(inbox'[Owner[d]]) \cup Range(hand'[d]) \cup Range(taken'[d]) \cup dropped'
              = Range(inbox[Owner[d]]) \cup Range(hand[d]) \cup Range(taken[d]) \cup dropped
         /\ dropped \subseteq dropped'
         /\ dropped' = dropped \/ StoreFails
  <1>0. /\ hand \in [Readers -> Seq(Requests)] /\ taken \in [Readers -> Seq(Requests)]
        /\ drain \in [Readers -> DrainStages] /\ inbox \in [Agents -> Seq(Requests)]
        /\ hand[d] \in Seq(Requests) /\ taken[d] \in Seq(Requests)
    BY DEF TypeOK
  <1>a. PICK a \in Agents : a = Owner[d]
    BY OwnerAssumption
  <1>d. DrainMax \in Nat /\ 1 \in Nat
    BY ParameterAssumption
  <1>e. <<>> \in Seq(Requests) /\ Range(<<>>) = {}
    BY EmptySeq DEF Range
  <1>u. UNCHANGED <<nonces, lost, early, askVars, reqVars, now, restarts, running>>
    BY DEF DrainStep, DrainMemory, DrainPop, DrainRaises, DrainOne, DrainEmpty, DrainFails,
       DrainAnswer, Reads
  <1>. DEFINE Claim ==
         /\ inbox' \in [Agents -> Seq(Requests)]
         /\ drain' \in [Readers -> DrainStages]
         /\ hand' \in [Readers -> Seq(Requests)] /\ taken' \in [Readers -> Seq(Requests)]
         /\ \A b \in Agents : b # a => inbox'[b] = inbox[b]
         /\ \A e \in Readers : e # d => hand'[e] = hand[e] /\ taken'[e] = taken[e]
         /\ Range(inbox'[a]) \cup Range(hand'[d]) \cup Range(taken'[d]) \cup dropped'
              = Range(inbox[a]) \cup Range(hand[d]) \cup Range(taken[d]) \cup dropped
         /\ dropped \subseteq dropped'
         /\ dropped' = dropped \/ StoreFails
  <1>1. CASE DrainMemory(d)
    <2>1. /\ taken' = [taken EXCEPT ![d] = taken[d] \o Oldest(a, DrainMax)]
          /\ inbox' = Popped(a, DrainMax) /\ UNCHANGED <<drain, hand, dropped>>
      BY <1>1, <1>a DEF DrainMemory, drainVars
    <2>2. PICK o \in Seq(Requests) : o = Oldest(a, DrainMax)
      BY <1>d, PopParts
    <2>3. /\ taken[d] \o o \in Seq(Requests)
          /\ Range(taken[d] \o o) = Range(taken[d]) \cup Range(o)
      BY <1>0, ConcatElements
    <2>4. Claim
      BY <1>0, <1>d, <2>1, <2>2, <2>3, PopParts
    <2>. QED
      BY <1>a, <1>u, <2>4
  <1>2. CASE DrainPop(d)
    <2>1. /\ hand' = [hand EXCEPT ![d] = hand[d] \o Oldest(a, DrainMax)]
          /\ inbox' = Popped(a, DrainMax) /\ UNCHANGED <<taken, dropped>>
          /\ drain' \in [Readers -> DrainStages]
      BY <1>0, <1>2, <1>a DEF DrainPop, DrainStages
    <2>2. PICK o \in Seq(Requests) : o = Oldest(a, DrainMax)
      BY <1>d, PopParts
    <2>3. /\ hand[d] \o o \in Seq(Requests)
          /\ Range(hand[d] \o o) = Range(hand[d]) \cup Range(o)
      BY <1>0, ConcatElements
    <2>4. Claim
      BY <1>0, <1>d, <2>1, <2>2, <2>3, PopParts
    <2>. QED
      BY <1>a, <1>u, <2>4
  <1>3. CASE DrainRaises(d)
    <2>1. /\ drain' = [drain EXCEPT ![d] = "loop"] /\ UNCHANGED <<hand, taken>> /\ StoreFails
          /\ \/ UNCHANGED <<inbox, dropped>>
             \/ /\ inbox' = Popped(a, DrainMax)
                /\ dropped' = dropped \cup Range(Oldest(a, DrainMax))
      BY <1>3, <1>a DEF DrainRaises
    <2>2. CASE UNCHANGED <<inbox, dropped>>
      BY <1>0, <1>a, <1>u, <2>1, <2>2 DEF DrainStages
    <2>3. CASE /\ inbox' = Popped(a, DrainMax)
               /\ dropped' = dropped \cup Range(Oldest(a, DrainMax))
      BY <1>0, <1>a, <1>d, <1>u, <2>1, <2>3, PopParts DEF DrainStages
    <2>. QED
      BY <2>1, <2>2, <2>3
  <1>4. CASE DrainOne(d)
    <2>1. /\ hand' = [hand EXCEPT ![d] = hand[d] \o Oldest(a, 1)]
          /\ inbox' = Popped(a, 1) /\ UNCHANGED <<taken, dropped>>
          /\ drain' \in [Readers -> DrainStages]
      BY <1>0, <1>4, <1>a DEF DrainOne, DrainStages
    <2>2. PICK o \in Seq(Requests) : o = Oldest(a, 1)
      BY <1>d, PopParts
    <2>3. /\ hand[d] \o o \in Seq(Requests)
          /\ Range(hand[d] \o o) = Range(hand[d]) \cup Range(o)
      BY <1>0, ConcatElements
    <2>4. Claim
      BY <1>0, <1>d, <2>1, <2>2, <2>3, PopParts
    <2>. QED
      BY <1>a, <1>u, <2>4
  <1>5. CASE DrainEmpty(d)
    <2>1. UNCHANGED <<inbox, taken, hand, dropped>> /\ drain' \in [Readers -> DrainStages]
      BY <1>0, <1>5 DEF DrainEmpty, DrainStages
    <2>2. Claim
      BY <1>0, <2>1
    <2>. QED
      BY <1>a, <1>u, <2>2
  <1>6. CASE DrainFails(d)
    <2>1. /\ hand' = [hand EXCEPT ![d] = <<>>] /\ UNCHANGED taken /\ StoreFails
          /\ drain' \in [Readers -> DrainStages]
          /\ \/ UNCHANGED inbox /\ dropped' = dropped \cup Range(hand[d])
             \/ /\ inbox' = Popped(a, 1)
                /\ dropped' = dropped \cup Range(hand[d]) \cup Range(Oldest(a, 1))
      BY <1>0, <1>6, <1>a DEF DrainFails, DrainStages
    <2>2. CASE UNCHANGED inbox /\ dropped' = dropped \cup Range(hand[d])
      BY <1>0, <1>a, <1>e, <1>u, <2>1, <2>2
    <2>3. CASE /\ inbox' = Popped(a, 1)
               /\ dropped' = dropped \cup Range(hand[d]) \cup Range(Oldest(a, 1))
      BY <1>0, <1>a, <1>d, <1>e, <1>u, <2>1, <2>3, PopParts
    <2>. QED
      BY <2>1, <2>2, <2>3
  <1>7. CASE DrainAnswer(d)
    <2>1. /\ taken' = [taken EXCEPT ![d] = taken[d] \o hand[d]]
          /\ hand' = [hand EXCEPT ![d] = <<>>] /\ UNCHANGED <<inbox, dropped>>
          /\ drain' \in [Readers -> DrainStages]
      BY <1>0, <1>7 DEF DrainAnswer, DrainStages
    <2>2. /\ taken[d] \o hand[d] \in Seq(Requests)
          /\ Range(taken[d] \o hand[d]) = Range(taken[d]) \cup Range(hand[d])
      BY <1>0, ConcatElements
    <2>3. Claim
      BY <1>0, <1>e, <2>1, <2>2
    <2>. QED
      BY <1>a, <1>u, <2>3
  <1>. QED
    BY <1>1, <1>2, <1>3, <1>4, <1>5, <1>6, <1>7 DEF DrainStep

\* A drain touches neither the handlers of posted envelopes nor their asks.
LEMMA DrainAlone ==
  ASSUME TypeOK, \E d \in Readers : DrainStep(d)
  PROVE  UNCHANGED <<nonces, lost, early, askVars, reqVars, now, restarts, running>>
  BY DrainMoves

LEMMA InitTyped == Init => Typed
  BY EmptySeq DEF Init, Typed, TypeOK, Carries, Control, Statuses, DrainStages, InFlight

\* A step of the handler of r keeps the ranges and the envelopes.
LEMMA HandlerTyped ==
  ASSUME Typed, NEW r \in Requests, HandlerStep(r)
  PROVE  Typed'
  <1>. USE DEF Typed, Control, Statuses, DrainStages, InFlight
  <1>t. env[r] \in Traffic /\ pc[r] # "idle"
    BY DEF HandlerStep, Carries, RejectReplay, SendValidated, AskBackPressure, AskRegister,
           ReplyUnknown, ReplyLate, ReplyResolve, PassNonce, PushRefused, PushMemory, PushLlen,
           PushRpush, PushExpire, AskTimeout, AskResume, TypeOK
  <1>f. /\ env[r].endpoint \in Endpoints /\ env[r].to \in Agents /\ env[r].nonce \in Nonces
    BY <1>t, TrafficFields
  <1>1. CASE RejectReplay(r)
    BY <1>1, PurgedTyped
    DEF RejectReplay, TypeOK, Carries, askVars, envVars, drainVars, Answer
  <1>n. /\ \A e \in Endpoints : PassNonce(r, e) => nonces' \in [Nonces -> Nat]
    BY <1>f, RememberedTyped DEF PassNonce
  <1>2. CASE SendValidated(r)
    BY <1>2, <1>n
    DEF SendValidated, PassNonce, AwaitStore, TypeOK, Carries, askVars, envVars, drainVars, Endpoints
  <1>3. CASE AskBackPressure(r)
    BY <1>3, <1>n
    DEF AskBackPressure, PassNonce, Answer, TypeOK, Carries, askVars, envVars, drainVars, Endpoints
  <1>4. CASE AskRegister(r)
    BY <1>4, <1>n, <1>f
    DEF AskRegister, PassNonce, AwaitStore, TypeOK, Carries, envVars, drainVars, Endpoints
  <1>5. CASE ReplyUnknown(r)
    BY <1>5, <1>n
    DEF ReplyUnknown, PassNonce, Answer, TypeOK, Carries, askVars, envVars, drainVars, Endpoints
  <1>6. CASE ReplyLate(r)
    BY <1>6, <1>n
    DEF ReplyLate, PassNonce, Answer, TypeOK, Carries, askVars, envVars, drainVars, Endpoints
  <1>7. CASE ReplyResolve(r)
    BY <1>7, <1>n
    DEF ReplyResolve, PassNonce, Answer, TypeOK, Carries, envVars, drainVars, Endpoints
  <1>8. CASE PushRefused(r)
    BY <1>8
    DEF PushRefused, PopPending, Answer, TypeOK, Carries, storeVars, envVars, drainVars
  <1>9. CASE PushMemory(r)
    BY <1>9, <1>t, AppendedTyped
    DEF PushMemory, Pushed, PopPending, AwaitReply, Answer, TypeOK, Carries, envVars, drainVars
  <1>10. CASE PushLlen(r)
    BY <1>10
    DEF PushLlen, AwaitStore, TypeOK, Carries, storeVars, askVars, envVars, drainVars
  <1>11. CASE PushRpush(r)
    BY <1>11, <1>t, AppendedTyped
    DEF PushRpush, AwaitStore, TypeOK, Carries, askVars, envVars, drainVars
  <1>12. CASE PushExpire(r)
    BY <1>12
    DEF PushExpire, Pushed, PopPending, AwaitReply, Answer, TypeOK, Carries, storeVars, envVars, drainVars
  <1>13. CASE AskTimeout(r)
    BY <1>13
    DEF AskTimeout, TypeOK, Carries, storeVars, reqVars, envVars, drainVars
  <1>14. CASE AskResume(r)
    BY <1>14
    DEF AskResume, PopPending, Answer, TypeOK, Carries, storeVars, envVars, drainVars
  <1>. QED
    BY <1>1, <1>2, <1>3, <1>4, <1>5, <1>6, <1>7, <1>8, <1>9, <1>10, <1>11, <1>12,
       <1>13, <1>14 DEF HandlerStep

LEMMA NextTyped == Typed /\ [Next]_vars => Typed'
  <1>. SUFFICES ASSUME Typed, [Next]_vars PROVE Typed'
    OBVIOUS
  <1>. USE DEF Typed, Control, Statuses, DrainStages, InFlight
  <1>1. ASSUME NEW r \in Requests, NEW e \in Traffic, Arrive(r, e)
        PROVE  Typed'
    BY <1>1, TrafficFields
    DEF Arrive, Arrival, Wellformed, AwaitStore, TypeOK, Carries, storeVars, askVars, envVars, drainVars
  <1>2. ASSUME NEW r \in Requests, NEW e \in Traffic, ArriveMalformed(r, e)
        PROVE  Typed'
    BY <1>2
    DEF ArriveMalformed, Arrival, Answer, TypeOK, Carries, storeVars, askVars, envVars, drainVars
  <1>3. ASSUME NEW r \in Requests, HandlerStep(r)
        PROVE  Typed'
    BY <1>3, HandlerTyped
  <1>4. ASSUME NEW r \in Requests, StoreError(r)
        PROVE  Typed'
    <2>1. pc[r] # "idle" /\ env[r].nonce \in Nonces
      BY <1>4, TrafficFields DEF StoreError, Carries
    <2>2. nonces' \in [Nonces -> Nat] /\ inbox' \in [Agents -> Seq(Requests)]
      BY <1>4, <2>1, AppendedTyped, RememberedTyped DEF StoreError, TypeOK
    <2>. QED
      BY <1>4, <2>2 DEF StoreError, Answer, TypeOK, Carries, askVars, envVars, drainVars
  <1>5. ASSUME NEW d \in Readers, DrainStep(d)
        PROVE  Typed'
    <2>1. UNCHANGED <<nonces, lost, early, askVars, reqVars, now, restarts, running>>
      BY <1>5, DrainMoves
    <2>2. /\ inbox' \in [Agents -> Seq(Requests)] /\ drain' \in [Readers -> DrainStages]
          /\ hand' \in [Readers -> Seq(Requests)] /\ taken' \in [Readers -> Seq(Requests)]
      BY <1>5, DrainMoves
    <2>3. dropped' \in SUBSET Requests
      <3>1. Range(inbox[Owner[d]]) \cup Range(hand[d]) \cup Range(taken[d]) \subseteq Requests
        BY OwnerAssumption, ElementOfSeq, LenProperties DEF TypeOK, Range
      <3>2. dropped' \subseteq Range(inbox[Owner[d]]) \cup Range(hand[d]) \cup Range(taken[d]) \cup dropped
        BY <1>5, DrainMoves
      <3>. QED
        BY <3>1, <3>2 DEF TypeOK
    <2>. QED
      BY <2>1, <2>2, <2>3 DEF TypeOK, Carries, askVars, reqVars
  <1>6. CASE Tick
    BY <1>6 DEF Tick, TypeOK, Carries, storeVars, askVars, reqVars, drainVars
  <1>7. CASE Restart
    <2>1. Queued \subseteq Requests
      BY ElementOfSeq, LenProperties DEF Queued, TypeOK, Range
    <2>e. <<>> \in Seq(Requests)
      BY EmptySeq
    <2>h. InHands \subseteq Requests
      BY ElementOfSeq, LenProperties DEF InHands, TypeOK, Range
    <2>d. /\ dropped' \in SUBSET Requests /\ drain' \in [Readers -> DrainStages]
          /\ hand' \in [Readers -> Seq(Requests)] /\ early' = early
      BY <1>7, <2>e, <2>h DEF Restart, TypeOK
    <2>m. CASE Backend = "memory"
      <3>1. lost' \in SUBSET Requests
        BY <1>7, <2>m, <2>1 DEF Restart, TypeOK
      <3>2. inbox' \in [Agents -> Seq(Requests)]
        BY <1>7, <2>m, <2>e DEF Restart
      <3>3. nonces' \in [Nonces -> Nat]
        BY <1>7, <2>m DEF Restart
      <3>. QED
        BY <1>7, <2>d, <3>1, <3>2, <3>3 DEF Restart, TypeOK, Carries
    <2>r. CASE Backend # "memory"
      BY <1>7, <2>d, <2>r DEF Restart, TypeOK, Carries
    <2>. QED
      BY <2>m, <2>r
  <1>8. CASE UNCHANGED vars
    BY <1>8 DEF vars, storeVars, askVars, reqVars, envVars, drainVars, TypeOK, Carries
  <1>. QED
    BY <1>1, <1>2, <1>3, <1>4, <1>5, <1>6, <1>7, <1>8 DEF Next, ArriveAny

\* Every variable of the relay stays in its range.
THEOREM TypeCorrect == Spec => []TypeOK
  <1>1. Typed => TypeOK
    BY DEF Typed
  <1>. QED
    BY <1>1, InitTyped, NextTyped, PTL DEF Spec

THEOREM TypedAlways == Spec => []Typed
  BY InitTyped, NextTyped, PTL DEF Spec

-----------------------------------------------------------------------------
(***************************************************************************)
(* Back-pressure.  Only AskRegister adds an entry, and it counts first.    *)
(***************************************************************************)

LEMMA PendingForFinite ==
  ASSUME NEW a \in Agents
  PROVE  /\ IsFiniteSet(PendingFor(a))
         /\ Cardinality(PendingFor(a)) \in Nat
         /\ \A T \in SUBSET PendingFor(a) : Cardinality(T) <= Cardinality(PendingFor(a))
  <1>1. PendingFor(a) \in SUBSET Corrs
    BY DEF PendingFor
  <1>2. IsFiniteSet(PendingFor(a))
    BY <1>1, FiniteAssumption, FS_Subset
  <1>. QED
    BY <1>2, FS_Subset, FS_CardinalityType

LEMMA InitBackPressure == Init => BackPressure
  <1>. SUFFICES ASSUME Init, NEW a \in Agents
                PROVE  Cardinality(PendingFor(a)) <= MaxPending
    BY DEF BackPressure
  <1>1. PendingFor(a) = {}
    BY NoneAssumption DEF Init, PendingFor
  <1>. QED
    BY <1>1, FS_EmptySet, ParameterAssumption

\* Steps that leave pending_target_by_corr alone or only remove entries.
LEMMA ShrinkingPending ==
  ASSUME BackPressure,
         \A c \in Corrs : pendingTarget'[c] \in {pendingTarget[c], None}
  PROVE  BackPressure'
  <1>. SUFFICES ASSUME NEW a \in Agents
                PROVE  Cardinality(PendingFor(a)') <= MaxPending
    BY DEF BackPressure
  <1>1. PendingFor(a)' \in SUBSET PendingFor(a)
    BY NoneAssumption DEF PendingFor
  <1>2. IsFiniteSet(PendingFor(a)')
    BY <1>1, PendingForFinite, FS_Subset
  <1>3. Cardinality(PendingFor(a)') <= Cardinality(PendingFor(a))
    BY <1>1, PendingForFinite
  <1>. QED
    BY <1>2, <1>3, PendingForFinite, FS_CardinalityType, ParameterAssumption DEF BackPressure

LEMMA RegisterKeepsBackPressure ==
  ASSUME Typed, BackPressure, NEW r \in Requests, AskRegister(r)
  PROVE  BackPressure'
  <1>. DEFINE c == env[r].corr
              t == env[r].to
  <1>1. c \in Corrs /\ t \in Agents
    BY TrafficFields DEF AskRegister, PassNonce, Typed, Carries, InFlight
  <1>2. pendingTarget' = [pendingTarget EXCEPT ![c] = t]
    BY DEF AskRegister
  <1>. SUFFICES ASSUME NEW a \in Agents
                PROVE  Cardinality(PendingFor(a)') <= MaxPending
    BY DEF BackPressure
  <1>3. CASE a = t
    <2>1. PendingFor(a)' \in SUBSET (PendingFor(a) \cup {c})
      BY <1>1, <1>2 DEF PendingFor, Typed, TypeOK
    <2>2. /\ IsFiniteSet(PendingFor(a) \cup {c})
          /\ Cardinality(PendingFor(a) \cup {c}) <= Cardinality(PendingFor(a)) + 1
      BY PendingForFinite, FS_AddElement, SMTT(30)
    <2>3. Cardinality(PendingFor(a)) < MaxPending
      BY <1>3 DEF AskRegister
    <2>4. /\ IsFiniteSet(PendingFor(a)')
          /\ Cardinality(PendingFor(a)') <= Cardinality(PendingFor(a) \cup {c})
      BY <2>1, <2>2, FS_Subset
    <2>. QED
      BY <2>2, <2>3, <2>4, PendingForFinite, FS_CardinalityType, ParameterAssumption
  <1>4. CASE a # t
    <2>1. PendingFor(a)' \in SUBSET PendingFor(a)
      BY <1>1, <1>2, <1>4 DEF PendingFor, Typed, TypeOK
    <2>2. /\ IsFiniteSet(PendingFor(a)')
          /\ Cardinality(PendingFor(a)') <= Cardinality(PendingFor(a))
      BY <2>1, PendingForFinite, FS_Subset
    <2>. QED
      BY <2>2, PendingForFinite, FS_CardinalityType, ParameterAssumption DEF BackPressure
  <1>. QED
    BY <1>3, <1>4

LEMMA NextBackPressure == Typed /\ BackPressure /\ [Next]_vars => BackPressure'
  <1>. SUFFICES ASSUME Typed, BackPressure, [Next]_vars PROVE BackPressure'
    OBVIOUS
  <1>0. pendingTarget \in [Corrs -> Agents \cup {None}]
    BY DEF Typed, TypeOK
  <1>1. ASSUME NEW r \in Requests, AskRegister(r)
        PROVE  BackPressure'
    BY <1>1, RegisterKeepsBackPressure
  <1>2. ASSUME NEW r \in Requests, HandlerStep(r), ~AskRegister(r)
        PROVE  \A c \in Corrs : pendingTarget'[c] \in {pendingTarget[c], None}
    BY <1>0, <1>2
    DEF HandlerStep, RejectReplay, SendValidated, AskBackPressure, ReplyUnknown, ReplyLate,
        ReplyResolve, PushRefused, PushMemory, Pushed, PushLlen, PushRpush, PushExpire,
        AskTimeout, AskResume, PopPending, askVars
  <1>3. ASSUME NEW r \in Requests, ArriveAny(r) \/ StoreError(r)
        PROVE  \A c \in Corrs : pendingTarget'[c] \in {pendingTarget[c], None}
    BY <1>3 DEF ArriveAny, Arrive, ArriveMalformed, StoreError, askVars
  <1>4. ASSUME (\E d \in Readers : DrainStep(d)) \/ Tick \/ Restart \/ UNCHANGED vars
        PROVE  \A c \in Corrs : pendingTarget'[c] \in {pendingTarget[c], None}
    BY <1>4, DrainAlone DEF Typed, Tick, Restart, vars, askVars
  <1>. QED
    BY <1>1, <1>2, <1>3, <1>4, ShrinkingPending DEF Next

\* At no moment are more than MAX_PENDING_PER_PEER asks registered for one
\* peer, whatever the number of concurrent handlers and the store.
THEOREM BackPressureHolds == Spec => []BackPressure
  BY InitBackPressure, NextBackPressure, TypedAlways, PTL DEF Spec

-----------------------------------------------------------------------------
(***************************************************************************)
(* The two dictionaries of main.py:56-59.                                  *)
(***************************************************************************)

LEMMA NextInSync == Typed /\ PendingInSync /\ [Next]_vars => PendingInSync'
  <1>. SUFFICES ASSUME Typed, PendingInSync, [Next]_vars PROVE PendingInSync'
    OBVIOUS
  <1>. USE NoneAssumption DEF PendingInSync
  <1>0. /\ pendingTarget \in [Corrs -> Agents \cup {None}]
        /\ pendingAsks \in [Corrs -> Requests \cup {None}]
    BY DEF Typed, TypeOK
  <1>1. ASSUME NEW r \in Requests, AskRegister(r)
        PROVE  PendingInSync'
    <2>1. env[r].to \in Agents
      BY <1>1, TrafficFields DEF AskRegister, PassNonce, Typed, Carries
    <2>. QED
      BY <1>0, <1>1, <2>1 DEF AskRegister
  <1>2. ASSUME NEW r \in Requests, HandlerStep(r), ~AskRegister(r)
        PROVE  PendingInSync'
    BY <1>0, <1>2
    DEF HandlerStep, RejectReplay, SendValidated, AskBackPressure, ReplyUnknown, ReplyLate,
        ReplyResolve, PushRefused, PushMemory, Pushed, PushLlen, PushRpush, PushExpire,
        AskTimeout, AskResume, PopPending, askVars
  <1>3. ASSUME NEW r \in Requests, ArriveAny(r) \/ StoreError(r)
        PROVE  PendingInSync'
    BY <1>3 DEF ArriveAny, Arrive, ArriveMalformed, StoreError, askVars
  <1>4. ASSUME (\E d \in Readers : DrainStep(d)) \/ Tick \/ Restart \/ UNCHANGED vars
        PROVE  PendingInSync'
    BY <1>4, DrainAlone DEF Typed, Tick, Restart, vars, askVars
  <1>. QED
    BY <1>1, <1>2, <1>3, <1>4 DEF Next

\* The futures and the per-peer count never disagree about which asks exist.
THEOREM PendingInSyncHolds == Spec => []PendingInSync
  <1>1. Init => PendingInSync
    BY DEF Init, PendingInSync
  <1>. QED
    BY <1>1, NextInSync, TypedAlways, PTL DEF Spec

\* main.py, ask: the asks that are counted are those that can be answered, and
\* there are never more than MAX_PENDING_PER_PEER of them for one peer.
THEOREM AsksCountedHolds == Spec => []AsksCounted
  <1>1. AsksCounted <=> BackPressure /\ PendingInSync
    BY DEF AsksCounted
  <1>. QED
    BY <1>1, BackPressureHolds, PendingInSyncHolds, PTL

-----------------------------------------------------------------------------
(***************************************************************************)
(* Entries of pending_asks and the handlers that own them.  StoreError is  *)
(* the one step that ends a handler and keeps its entry.                   *)
(***************************************************************************)

Owned(c) ==
  LET r == pendingAsks[c] IN
    /\ pc[r] \in {"push", "rpush", "expire", "wait"}
    /\ env[r].endpoint = "ask" /\ env[r].corr = c /\ env[r].to = pendingTarget[c]

LEMMA HandlerKeepsOwners ==
  ASSUME Typed, PendingIsInFlight, NEW r \in Requests, HandlerStep(r)
  PROVE  PendingIsInFlight'
  <1>. SUFFICES ASSUME NEW c \in Corrs, pendingAsks'[c] # None
                PROVE  Owned(c)'
    BY DEF PendingIsInFlight, Owned
  <1>0. /\ pendingTarget \in [Corrs -> Agents \cup {None}]
        /\ pendingAsks \in [Corrs -> Requests \cup {None}]
        /\ pc \in [Requests -> Control]
    BY DEF Typed, TypeOK
  <1>o. pendingAsks[c] # None => Owned(c) /\ pendingAsks[c] \in Requests
    BY <1>0 DEF PendingIsInFlight, Owned
  <1>. USE NoneAssumption DEF Owned
  <1>1. CASE RejectReplay(r)
    BY <1>0, <1>o, <1>1 DEF RejectReplay, Answer, askVars
  <1>2. CASE SendValidated(r)
    BY <1>0, <1>o, <1>2 DEF SendValidated, PassNonce, AwaitStore, askVars
  <1>3. CASE AskBackPressure(r)
    BY <1>0, <1>o, <1>3 DEF AskBackPressure, PassNonce, Answer, askVars
  <1>4. CASE AskRegister(r)
    <2>1. CASE c = env[r].corr
      BY <1>0, <1>4, <2>1 DEF AskRegister, PassNonce, AwaitStore
    <2>2. CASE c # env[r].corr
      BY <1>0, <1>o, <1>4, <2>2 DEF AskRegister, PassNonce, AwaitStore
    <2>. QED
      BY <2>1, <2>2
  <1>5. CASE ReplyUnknown(r) \/ ReplyLate(r) \/ ReplyResolve(r)
    BY <1>0, <1>o, <1>5 DEF ReplyUnknown, ReplyLate, ReplyResolve, PassNonce, Answer, askVars
  <1>6. CASE PushRefused(r)
    BY <1>0, <1>o, <1>6 DEF PushRefused, PopPending, Answer
  <1>7. CASE PushMemory(r)
    BY <1>0, <1>o, <1>7 DEF PushMemory, Pushed, PopPending, AwaitReply, Answer
  <1>8. CASE PushLlen(r)
    BY <1>0, <1>o, <1>8 DEF PushLlen, AwaitStore, askVars
  <1>9. CASE PushRpush(r)
    BY <1>0, <1>o, <1>9 DEF PushRpush, AwaitStore, askVars
  <1>10. CASE PushExpire(r)
    BY <1>0, <1>o, <1>10 DEF PushExpire, Pushed, PopPending, AwaitReply, Answer
  <1>11. CASE AskTimeout(r)
    BY <1>0, <1>o, <1>11 DEF AskTimeout, reqVars
  <1>12. CASE AskResume(r)
    BY <1>0, <1>o, <1>12 DEF AskResume, PopPending, Answer
  <1>. QED
    BY <1>1, <1>2, <1>3, <1>4, <1>5, <1>6, <1>7, <1>8, <1>9, <1>10, <1>11, <1>12
    DEF HandlerStep

LEMMA NextOwners ==
  ASSUME ~StoreFails, Typed, PendingIsInFlight, [Next]_vars
  PROVE  PendingIsInFlight'
  <1>0. /\ pendingAsks \in [Corrs -> Requests \cup {None}]
        /\ pc \in [Requests -> Control]
        /\ env \in [Requests -> Traffic \cup {None}]
    BY DEF Typed, TypeOK
  <1>1. ASSUME NEW r \in Requests, HandlerStep(r)
        PROVE  PendingIsInFlight'
    BY <1>1, HandlerKeepsOwners
  <1>2. ASSUME NEW r \in Requests, ArriveAny(r)
        PROVE  PendingIsInFlight'
    BY <1>0, <1>2
    DEF PendingIsInFlight, ArriveAny, Arrive, ArriveMalformed, Arrival, Answer, AwaitStore, askVars
  <1>3. ASSUME NEW r \in Requests, StoreError(r)
        PROVE  PendingIsInFlight'
    BY <1>3 DEF StoreError
  <1>4. ASSUME (\E d \in Readers : DrainStep(d)) \/ Tick \/ UNCHANGED vars
        PROVE  PendingIsInFlight'
    BY <1>4, DrainAlone DEF PendingIsInFlight, Typed, Tick, vars, askVars, reqVars
  <1>5. CASE Restart
    BY <1>5 DEF PendingIsInFlight, Restart
  <1>. QED
    BY <1>1, <1>2, <1>3, <1>4, <1>5 DEF Next

\* While store calls do not raise, no slot of a peer is held by an ask that is
\* no longer being served: the count of main.py:289 is the count of live asks.
THEOREM PendingIsInFlightHolds == ~StoreFails => (Spec => []PendingIsInFlight)
  <1>. SUFFICES ASSUME ~StoreFails PROVE Spec => []PendingIsInFlight
    OBVIOUS
  <1>1. Init => PendingIsInFlight
    BY DEF Init, PendingIsInFlight
  <1>2. Typed /\ PendingIsInFlight /\ [Next]_vars => PendingIsInFlight'
    BY NextOwners
  <1>. QED
    BY <1>1, <1>2, TypedAlways, PTL DEF Spec

-----------------------------------------------------------------------------
(***************************************************************************)
(* What the nonce check guarantees about the inboxes: an envelope enters   *)
(* at most once, however often it is posted and whenever.                  *)
(***************************************************************************)

(***************************************************************************)
(* The conditions: one nonce is one envelope, and the store must keep the  *)
(* nonces for as long as the relay runs.                                   *)
(***************************************************************************)
OneStampPerNonce == \A e, f \in Traffic : e.nonce = f.nonce => e.ts = f.ts
NoncesSurvive == Backend = "redis" \/ MaxRestarts = 0

\* The nonce check is behind r, or its envelope already is in an inbox.
Passed(r) == pc[r] \in {"push", "rpush", "expire", "wait"} \/ r \in Stored

Expires(r) == env[r].ts + TSSkew

(***************************************************************************)
(* Of the requests that passed, no two share a nonce, unless one of them   *)
(* was accepted before its own timestamp; the nonce of any other is        *)
(* remembered at least until its timestamp is too old; and a request at    *)
(* the nonce check was timely when the clock last moved.                   *)
(***************************************************************************)
PassedOnce ==
  /\ \A r \in Requests : Passed(r) => pc[r] \notin {"idle", "nonce"}
  /\ \A r, q \in Requests :
       Passed(r) /\ Passed(q) /\ env[r].nonce = env[q].nonce
       => r = q \/ r \in early \/ q \in early
  /\ \A r \in Requests : Passed(r) /\ r \notin early =>
       \/ Expires(r) < now
       \/ nonces[env[r].nonce] # 0 /\ Expires(r) <= nonces[env[r].nonce]
  /\ \A r \in Requests : pc[r] = "nonce" =>
       now <= Expires(r) /\ (r \notin early => env[r].ts <= now)
  /\ \A r \in early : pc[r] # "idle"

\* A push adds its request to Stored, a drain and a restart change nothing.
LEMMA StoredAfterAppend ==
  ASSUME Typed, NEW r \in Requests, pc[r] # "idle",
         inbox' = Appended(r), UNCHANGED <<hand, taken, dropped, lost>>
  PROVE  Stored' = Stored \cup {r}
  <1>1. env[r].to \in Agents
    BY TrafficFields DEF Typed, Carries
  <1>2. Range(inbox'[env[r].to]) = Range(inbox[env[r].to]) \cup {r}
    BY <1>1, AppendElements DEF Appended, Typed, TypeOK
  <1>3. \A a \in Agents : a # env[r].to => inbox'[a] = inbox[a]
    BY <1>1 DEF Appended, Typed, TypeOK
  <1>. QED
    BY <1>1, <1>2, <1>3 DEF Stored, Queued, InHands

LEMMA StoredAfterDrain ==
  ASSUME TypeOK, NEW d \in Readers, DrainStep(d)
  PROVE  Stored' = Stored
  <1>1. PICK a \in Agents : a = Owner[d]
    BY OwnerAssumption
  <1>. DEFINE B(x) == x \in Range(inbox[a]) \cup Range(hand[d]) \cup Range(taken[d]) \cup dropped
              O(x) == \/ x \in lost
                      \/ \E b \in Agents \ {a} : x \in Range(inbox[b])
                      \/ \E e \in Readers \ {d} : x \in Range(hand[e]) \cup Range(taken[e])
  <1>2. \A x : x \in Stored <=> B(x) \/ O(x)
    BY DEF Stored, Queued, InHands
  <1>3. \A x : x \in Stored' <=> B(x)' \/ O(x)'
    BY DEF Stored, Queued, InHands
  <1>4. \A x : B(x)' <=> B(x)
    BY <1>1, DrainMoves
  <1>5. \A x : O(x)' <=> O(x)
    BY <1>1, DrainMoves
  <1>6. \A x : x \in Stored' <=> x \in Stored
    BY <1>2, <1>3, <1>4, <1>5
  <1>. QED
    BY <1>6

LEMMA StoredSame ==
  ASSUME UNCHANGED <<inbox, hand, taken, dropped, lost>>
  PROVE  Stored' = Stored
  BY DEF Stored, Queued, InHands

\* What a dying relay had popped is dropped with it.
LEMMA StoredAfterRestart ==
  ASSUME Typed, Restart, Backend = "redis"
  PROVE  Stored' = Stored
  <1>1. /\ UNCHANGED <<inbox, taken, lost>> /\ dropped' = dropped \cup InHands
        /\ hand' = [d \in Readers |-> <<>>]
    BY DEF Restart
  <1>2. Range(<<>>) = {}
    BY EmptySeq DEF Range
  <1>3. InHands' = {}
    BY <1>1, <1>2 DEF InHands
  <1>4. Queued' = Queued
    BY <1>1 DEF Queued
  <1>. QED
    BY <1>1, <1>3, <1>4 DEF Stored

-----------------------------------------------------------------------------
\* A step that lets no new request pass, and forgets a nonce only after its
\* expiry.
LEMMA QuietStep ==
  ASSUME Typed, PassedOnce, now' = now, early' = early,
         \A r \in Requests : pc[r] # "idle" => env'[r] = env[r],
         \A r \in Requests : pc[r] # "idle" => pc'[r] # "idle",
         \A r \in Requests : Passed(r)' => Passed(r) /\ pc'[r] \notin {"idle", "nonce"},
         \A r \in Requests : pc'[r] = "nonce" => pc[r] = "nonce",
         \A n \in Nonces : nonces'[n] = nonces[n] \/ nonces[n] < now
  PROVE  PassedOnce'
  <1>1. ASSUME NEW r \in Requests, Passed(r)'
        PROVE  /\ Passed(r) /\ env'[r] = env[r] /\ Expires(r)' = Expires(r)
               /\ env[r].nonce \in Nonces /\ Expires(r) \in Int
    <2>1. Passed(r) /\ pc[r] # "idle"
      BY <1>1 DEF PassedOnce
    <2>2. env[r] \in Traffic
      BY <2>1 DEF Typed, Carries
    <2>3. env[r].nonce \in Nonces /\ env[r].ts \in Nat
      BY <2>2, TrafficFields
    <2>. QED
      BY <2>1, <2>3, ParameterAssumption DEF Expires
  <1>2. \A r, q \in Requests :
          Passed(r)' /\ Passed(q)' /\ env'[r].nonce = env'[q].nonce
          => r = q \/ r \in early \/ q \in early
    BY <1>1 DEF PassedOnce
  <1>3. ASSUME NEW r \in Requests, Passed(r)', r \notin early
        PROVE  \/ Expires(r)' < now'
               \/ nonces'[env'[r].nonce] # 0 /\ Expires(r)' <= nonces'[env'[r].nonce]
    <2>1. /\ now \in Nat
          /\ \A n \in Nonces : nonces[n] \in Nat
      BY DEF Typed, TypeOK
    <2>2. \/ Expires(r) < now
          \/ nonces[env[r].nonce] # 0 /\ Expires(r) <= nonces[env[r].nonce]
      BY <1>1, <1>3 DEF PassedOnce
    <2>. QED
      BY <1>1, <1>3, <2>1, <2>2
  <1>4. ASSUME NEW r \in Requests, pc'[r] = "nonce"
        PROVE  now' <= Expires(r)' /\ (r \notin early => env'[r].ts <= now')
    BY <1>4 DEF PassedOnce, Expires
  <1>5. \A r \in early' : pc'[r] # "idle"
    BY DEF PassedOnce, Typed, TypeOK
  <1>. QED
    BY <1>2, <1>3, <1>4, <1>5 DEF PassedOnce

\* While a request with a nonce that passed is timely, the nonce is known.
LEMMA KnownIfPassed ==
  ASSUME Typed, PassedOnce, OneStampPerNonce,
         NEW r \in Requests, Passed(r), r \notin early,
         NEW q \in Requests, pc[q] = "nonce", env[q].nonce = env[r].nonce
  PROVE  Known(env[q].nonce)
  <1>1. env[r] \in Traffic /\ env[q] \in Traffic
    BY DEF PassedOnce, Typed, Carries
  <1>2. env[r].ts = env[q].ts /\ env[q].nonce \in Nonces /\ env[q].ts \in Nat
    BY <1>1, TrafficFields DEF OneStampPerNonce
  <1>3. now <= Expires(r) /\ Expires(r) \in Int
    BY <1>2, ParameterAssumption DEF PassedOnce, Expires
  <1>4. now \in Nat /\ nonces[env[q].nonce] \in Nat
    BY <1>2 DEF Typed, TypeOK
  <1>5. nonces[env[q].nonce] # 0 /\ now <= nonces[env[q].nonce]
    BY <1>3, <1>4 DEF PassedOnce
  <1>6. Purged[env[q].nonce] = nonces[env[q].nonce]
    BY <1>2, <1>4, <1>5 DEF Purged
  <1>. QED
    BY <1>5, <1>6 DEF Known

\* The step in which the nonce of r is found new and recorded.
LEMMA PassStep ==
  ASSUME Typed, PassedOnce, OneStampPerNonce,
         NEW r \in Requests, pc[r] = "nonce", ~Known(env[r].nonce),
         nonces' = Remembered(env[r].nonce),
         UNCHANGED <<inbox, hand, taken, dropped, lost, env, now, early>>,
         NEW at \in {"push", "done"}, pc' = [pc EXCEPT ![r] = at]
  PROVE  PassedOnce'
  <1>0. /\ pc \in [Requests -> Control] /\ now \in Nat /\ nonces \in [Nonces -> Nat]
    BY DEF Typed, TypeOK
  <1>s. Stored' = Stored
    BY StoredSame
  <1>r. env[r] \in Traffic /\ env[r].nonce \in Nonces /\ env[r].ts \in Nat
    BY TrafficFields DEF Typed, Carries
  <1>n. \A q \in Requests : Passed(q) => q # r /\ (q \in early \/ env[q].nonce # env[r].nonce)
    BY KnownIfPassed DEF PassedOnce
  <1>p. \A q \in Requests : Passed(q)' => q = r \/ Passed(q)
    BY <1>0, <1>s DEF Passed
  <1>1. \A q \in Requests : Passed(q)' => pc'[q] \notin {"idle", "nonce"}
    BY <1>0, <1>p DEF PassedOnce
  <1>2. \A q, u \in Requests :
          Passed(q)' /\ Passed(u)' /\ env[q].nonce = env[u].nonce
          => q = u \/ q \in early \/ u \in early
    BY <1>p, <1>n DEF PassedOnce
  <1>3. ASSUME NEW q \in Requests, Passed(q)', q \notin early
        PROVE  \/ Expires(q) < now
               \/ nonces'[env[q].nonce] # 0 /\ Expires(q) <= nonces'[env[q].nonce]
    <2>1. CASE q = r
      <3>1. nonces'[env[r].nonce] = now + NonceTTL
        BY <1>r, PurgedTyped DEF Remembered, Typed
      <3>2. env[r].ts <= now
        BY <1>3, <2>1 DEF PassedOnce
      <3>. QED
        BY <2>1, <3>1, <3>2, <1>0, <1>r, ParameterAssumption, WindowAssumption DEF Expires
    <2>2. CASE q # r
      <3>1. Passed(q) /\ env[q].nonce # env[r].nonce /\ pc[q] # "idle"
        BY <1>3, <1>p, <1>n, <2>2 DEF PassedOnce
      <3>2. env[q].nonce \in Nonces /\ env[q].ts \in Nat
        BY <3>1, TrafficFields DEF Typed, Carries
      <3>3. nonces'[env[q].nonce] = Purged[env[q].nonce]
        BY <3>1, <3>2, PurgedTyped DEF Remembered, Typed
      <3>4. \/ Purged[env[q].nonce] = nonces[env[q].nonce]
            \/ nonces[env[q].nonce] < now
        BY <3>2 DEF Purged
      <3>5. nonces[env[q].nonce] \in Nat /\ Expires(q) \in Int
        BY <1>0, <3>2, ParameterAssumption DEF Expires
      <3>6. \/ Expires(q) < now
            \/ nonces[env[q].nonce] # 0 /\ Expires(q) <= nonces[env[q].nonce]
        BY <1>3, <3>1 DEF PassedOnce
      <3>. QED
        BY <1>0, <3>3, <3>4, <3>5, <3>6
    <2>. QED
      BY <2>1, <2>2
  <1>4. \A q \in Requests : (pc'[q] = "nonce" => pc[q] = "nonce") /\ (pc'[q] = "idle" => pc[q] = "idle")
    BY <1>0
  <1>. QED
    BY <1>1, <1>2, <1>3, <1>4 DEF PassedOnce, Expires

\* An envelope that arrives well formed is timely, and noted when it is stamped
\* ahead of the relay's clock.
LEMMA ArriveStep ==
  ASSUME Typed, PassedOnce, NEW r \in Requests, NEW e \in Traffic, Arrive(r, e)
  PROVE  PassedOnce'
  <1>0. /\ pc \in [Requests -> Control] /\ env \in [Requests -> Traffic \cup {None}]
        /\ now \in Nat /\ e.ts \in Nat
    BY TrafficFields DEF Typed, TypeOK
  <1>1. /\ pc[r] = "idle" /\ pc' = [pc EXCEPT ![r] = "nonce"]
        /\ env' = [env EXCEPT ![r] = e]
        /\ UNCHANGED <<now, nonces, inbox, hand, taken, dropped, lost>>
        /\ early' = IF e.ts > now THEN early \cup {r} ELSE early
    BY DEF Arrive, Arrival, AwaitStore, storeVars, drainVars
  <1>2. Stored' = Stored
    BY <1>1, StoredSame
  <1>3. \A q \in Requests : Passed(q)' => Passed(q) /\ q # r
    BY <1>0, <1>1, <1>2 DEF Passed, PassedOnce
  <1>4. \A q \in Requests : q # r =>
          pc'[q] = pc[q] /\ env'[q] = env[q] /\ (q \in early' <=> q \in early)
    BY <1>0, <1>1
  <1>5. now <= e.ts + TSSkew /\ (r \notin early' => e.ts <= now)
    BY <1>0, <1>1, ParameterAssumption DEF Arrive, Arrival, Wellformed, Timely
  <1>6. \A q \in Requests : pc'[q] = "nonce" =>
          now' <= Expires(q)' /\ (q \notin early' => env'[q].ts <= now')
    <2>. SUFFICES ASSUME NEW q \in Requests, pc'[q] = "nonce"
                  PROVE  now' <= Expires(q)' /\ (q \notin early' => env'[q].ts <= now')
      OBVIOUS
    <2>1. CASE q = r
      BY <1>0, <1>1, <1>5, <2>1 DEF Expires
    <2>2. CASE q # r
      BY <1>1, <1>4, <2>2 DEF Expires, PassedOnce
    <2>. QED
      BY <2>1, <2>2
  <1>7. \A q \in early' : pc'[q] # "idle"
    BY <1>0, <1>1 DEF PassedOnce, Typed, TypeOK
  <1>8. \A q \in Requests : Passed(q)' =>
          /\ Passed(q) /\ pc'[q] = pc[q] /\ env'[q] = env[q] /\ (q \in early' <=> q \in early)
    BY <1>3, <1>4
  <1>. QED
    BY <1>1, <1>6, <1>7, <1>8 DEF PassedOnce, Expires

LEMMA PurgedForgetsExpired ==
  ASSUME Typed, nonces' = Purged
  PROVE  \A n \in Nonces : nonces'[n] = nonces[n] \/ nonces[n] < now
  BY DEF Purged, Typed, TypeOK

LEMMA HandlerPassedOnce ==
  ASSUME Typed, PassedOnce, OneStampPerNonce,
         NEW r \in Requests, HandlerStep(r)
  PROVE  PassedOnce'
  <1>0. /\ pc \in [Requests -> Control] /\ env \in [Requests -> Traffic \cup {None}]
    BY DEF Typed, TypeOK
  <1>1. CASE RejectReplay(r)
    <2>1. UNCHANGED <<inbox, hand, taken, dropped, lost, env, now, early>> /\ nonces' = Purged
          /\ pc' = [pc EXCEPT ![r] = "done"]
      BY <1>1 DEF RejectReplay, Answer, envVars, drainVars
    <2>. QED
      BY <1>0, <2>1, StoredSame, PurgedForgetsExpired, QuietStep DEF Passed, PassedOnce
  <1>2. CASE \E e \in Endpoints : PassNonce(r, e)
    <2>1. \E at \in {"push", "done"} : pc' = [pc EXCEPT ![r] = at]
      BY <1>2 DEF HandlerStep, RejectReplay, SendValidated, AskBackPressure, AskRegister,
         ReplyUnknown, ReplyLate, ReplyResolve, PassNonce, AwaitStore, Answer, PushRefused,
         PushMemory, PushLlen, PushRpush, PushExpire, AskTimeout, AskResume
    <2>2. /\ pc[r] = "nonce" /\ ~Known(env[r].nonce) /\ nonces' = Remembered(env[r].nonce)
          /\ UNCHANGED <<inbox, hand, taken, dropped, lost, env, now, early>>
      BY <1>2 DEF PassNonce, envVars, drainVars
    <2>. QED
      BY <2>1, <2>2, PassStep
  <1>3. CASE PushMemory(r) \/ PushRpush(r)
    <2>1. /\ pc[r] \in {"push", "rpush"} /\ inbox' = Appended(r)
          /\ UNCHANGED <<hand, taken, dropped, lost, env, now, nonces, early>>
          /\ \E at \in {"expire", "wait", "done"} : pc' = [pc EXCEPT ![r] = at]
      BY <1>3 DEF PushMemory, PushRpush, Pushed, AwaitStore, AwaitReply, Answer, envVars, drainVars
    <2>2. Stored' = Stored \cup {r}
      BY <2>1, StoredAfterAppend
    <2>. QED
      BY <1>0, <2>1, <2>2, QuietStep DEF Passed, PassedOnce
  <1>4. CASE PushRefused(r) \/ PushLlen(r) \/ PushExpire(r)
    <2>1. /\ pc[r] \in {"push", "expire"} /\ UNCHANGED <<inbox, hand, taken, dropped, lost, env, now, nonces, early>>
          /\ \E at \in {"rpush", "wait", "done"} : pc' = [pc EXCEPT ![r] = at]
      BY <1>4 DEF PushRefused, PushLlen, PushExpire, Pushed, AwaitStore, AwaitReply, Answer,
         envVars, drainVars, storeVars
    <2>. QED
      BY <1>0, <2>1, StoredSame, QuietStep DEF Passed, PassedOnce
  <1>5. CASE AskTimeout(r)
    <2>1. UNCHANGED <<inbox, hand, taken, dropped, lost, env, now, nonces, early, pc>>
      BY <1>5 DEF AskTimeout, envVars, drainVars, storeVars, reqVars
    <2>. QED
      BY <1>0, <2>1, StoredSame, QuietStep DEF Passed, PassedOnce
  <1>6. CASE AskResume(r)
    <2>1. /\ pc[r] = "wait" /\ UNCHANGED <<inbox, hand, taken, dropped, lost, env, now, nonces, early>>
          /\ pc' = [pc EXCEPT ![r] = "done"]
      BY <1>6 DEF AskResume, Answer, envVars, drainVars, storeVars
    <2>. QED
      BY <1>0, <2>1, StoredSame, QuietStep DEF Passed, PassedOnce
  <1>. QED
    BY <1>1, <1>2, <1>3, <1>4, <1>5, <1>6
    DEF HandlerStep, SendValidated, AskBackPressure, AskRegister, ReplyUnknown, ReplyLate,
        ReplyResolve, Endpoints

LEMMA NextPassedOnce ==
  ASSUME Typed, PassedOnce, [Next]_vars,
         OneStampPerNonce, NoncesSurvive
  PROVE  PassedOnce'
  <1>0. /\ pc \in [Requests -> Control] /\ env \in [Requests -> Traffic \cup {None}]
        /\ now \in Nat /\ restarts \in Nat
    BY DEF Typed, TypeOK
  <1>1. ASSUME NEW r \in Requests, NEW e \in Traffic, Arrive(r, e)
        PROVE  PassedOnce'
    BY <1>1, ArriveStep
  <1>2. ASSUME NEW r \in Requests, NEW e \in Traffic, ArriveMalformed(r, e)
        PROVE  PassedOnce'
    <2>1. /\ pc[r] = "idle" /\ pc' = [pc EXCEPT ![r] = "done"]
          /\ env' = [env EXCEPT ![r] = e] /\ UNCHANGED <<inbox, hand, taken, dropped, lost, now, nonces, early>>
      BY <1>2 DEF ArriveMalformed, Arrival, Answer, storeVars, envVars, drainVars
    <2>. QED
      BY <1>0, <2>1, StoredSame, QuietStep DEF Passed, PassedOnce
  <1>3. ASSUME NEW r \in Requests, HandlerStep(r)
        PROVE  PassedOnce'
    BY <1>3, HandlerPassedOnce
  <1>4. ASSUME NEW r \in Requests, StoreError(r)
        PROVE  PassedOnce'
    <2>1. pc' = [pc EXCEPT ![r] = "done"] /\ UNCHANGED <<hand, taken, dropped, lost, env, now, early>>
      BY <1>4 DEF StoreError, Answer, envVars, drainVars
    <2>2. CASE pc[r] = "nonce" /\ UNCHANGED inbox /\ ~Known(env[r].nonce)
               /\ nonces' = Remembered(env[r].nonce)
      BY <2>1, <2>2, PassStep
    <2>3. CASE pc[r] # "idle" /\ UNCHANGED <<inbox, nonces>>
      BY <1>0, <2>1, <2>3, StoredSame, QuietStep DEF Passed, PassedOnce
    <2>4. CASE pc[r] = "rpush" /\ inbox' = Appended(r) /\ UNCHANGED nonces
      <3>1. Stored' = Stored \cup {r}
        BY <2>1, <2>4, StoredAfterAppend
      <3>. QED
        BY <1>0, <2>1, <2>4, <3>1, QuietStep DEF Passed, PassedOnce
    <2>. QED
      BY <1>4, <2>2, <2>3, <2>4 DEF StoreError
  <1>5. ASSUME NEW d \in Readers, DrainStep(d)
        PROVE  PassedOnce'
    <2>1. Stored' = Stored /\ UNCHANGED <<pc, env, now, nonces, early>>
      BY <1>5, StoredAfterDrain, DrainAlone DEF reqVars, Typed
    <2>. QED
      BY <1>0, <2>1, QuietStep DEF Passed, PassedOnce
  <1>6. CASE Tick
    <2>1. Stored' = Stored /\ UNCHANGED <<pc, env, nonces, early>> /\ now' = now + 1
      BY <1>6, StoredSame DEF Tick, reqVars, storeVars, drainVars
    <2>2. \A r \in Requests : pc[r] # "nonce"
      BY <1>6 DEF Tick
    <2>3. ASSUME NEW r \in Requests, Passed(r)', r \notin early
          PROVE  \/ Expires(r)' < now'
                 \/ nonces'[env'[r].nonce] # 0 /\ Expires(r)' <= nonces'[env'[r].nonce]
      <3>1. Passed(r) /\ Expires(r)' = Expires(r)
        BY <2>1, <2>3 DEF Passed, Expires
      <3>2. Expires(r) \in Int
        BY <3>1, TrafficFields, ParameterAssumption DEF PassedOnce, Typed, Carries, Expires
      <3>. QED
        BY <1>0, <2>1, <2>3, <3>1, <3>2 DEF PassedOnce
    <2>. QED
      BY <2>1, <2>2, <2>3 DEF PassedOnce, Passed
  <1>7. CASE Restart
    <2>1. Backend = "redis"
      BY <1>0, <1>7, ParameterAssumption DEF Restart, NoncesSurvive
    <2>2. Stored' = Stored /\ UNCHANGED <<env, now, nonces, early>>
      BY <1>7, <2>1, StoredAfterRestart DEF Restart
    <2>3. \A r \in Requests : pc'[r] = IF InFlight(r) THEN "done" ELSE pc[r]
      BY <1>7 DEF Restart
    <2>. QED
      BY <1>0, <2>2, <2>3, QuietStep DEF Passed, PassedOnce, InFlight
  <1>8. CASE UNCHANGED vars
    <2>1. Stored' = Stored /\ UNCHANGED <<pc, env, now, nonces, early>>
      BY <1>8, StoredSame DEF vars, reqVars, envVars, drainVars, storeVars
    <2>. QED
      BY <1>0, <2>1, QuietStep DEF Passed, PassedOnce
  <1>. QED
    BY <1>1, <1>2, <1>3, <1>4, <1>5, <1>6, <1>7, <1>8 DEF Next, ArriveAny

LEMMA InitPassedOnce == Init => PassedOnce
  <1>. SUFFICES ASSUME Init PROVE PassedOnce
    OBVIOUS
  <1>1. Stored = {}
    BY EmptySeq DEF Init, Stored, Queued, InHands, Range
  <1>. QED
    BY <1>1 DEF Init, PassedOnce, Passed

\* One nonce being one envelope, and the store keeping the nonces: no envelope
\* that was accepted at or after its timestamp enters an inbox twice, not by a
\* retransmission, not by one that races the original, not after an expiry of
\* its nonce and, with Redis, not across a restart of the relay.
THEOREM AtMostOnceHolds ==
  ASSUME OneStampPerNonce, NoncesSurvive
  PROVE  Spec => []AtMostOnce
  <1>1. Typed /\ PassedOnce /\ [Next]_vars => PassedOnce'
    BY NextPassedOnce
  <1>2. Typed /\ PassedOnce => AtMostOnce
    <2>1. Typed => Stored \subseteq Requests
      BY ElementOfSeq, LenProperties DEF Stored, Queued, InHands, Range, Typed, TypeOK
    <2>. QED
      BY <2>1 DEF PassedOnce, Passed, AtMostOnce
  <1>. QED
    BY InitPassedOnce, TypedAlways, <1>1, <1>2, PTL DEF Spec

-----------------------------------------------------------------------------
(***************************************************************************)
(* What the answers say.  Nothing that entered an inbox vanishes but in a  *)
(* restart that loses the store, and a handler that has put its message    *)
(* there does not end in a refusal.                                        *)
(***************************************************************************)
\* Where a message put into the inbox of a may be.
Kept(a) == Range(inbox[a]) \cup InHandsOf(a) \cup TakenBy(a) \cup dropped \cup lost

Refusals == {"rejected", "busy", "notFound", "conflict"}

Truthful(r) ==
  /\ status[r] = "none" <=> pc[r] # "done"
  /\ pc[r] \in {"push", "rpush", "expire"} => env[r].endpoint \in {"send", "ask"}
  /\ pc[r] = "wait" => env[r].endpoint = "ask"
  /\ \/ pc[r] \in {"expire", "wait"}
     \/ status[r] \in {"ok", "timeout"} /\ env[r].endpoint \in {"send", "ask"}
     => r \in Kept(env[r].to)
  /\ r \in Stored => pc[r] \in {"expire", "wait", "done"} /\ status[r] \notin Refusals

AllTruthful == \A r \in Requests : Truthful(r)

LEMMA KeptAfterAppend ==
  ASSUME Typed, NEW r \in Requests, pc[r] # "idle",
         inbox' = Appended(r), UNCHANGED <<hand, taken, dropped, lost, env>>
  PROVE  /\ \A a \in Agents : Kept(a) \subseteq Kept(a)'
         /\ r \in Kept(env[r].to)'
  <1>1. env[r].to \in Agents
    BY TrafficFields DEF Typed, Carries
  <1>2. Range(inbox'[env[r].to]) = Range(inbox[env[r].to]) \cup {r}
    BY <1>1, AppendElements DEF Appended, Typed, TypeOK
  <1>3. \A a \in Agents : a # env[r].to => inbox'[a] = inbox[a]
    BY <1>1 DEF Appended, Typed, TypeOK
  <1>4. \A a \in Agents : Kept(a) \subseteq Kept(a)'
    BY <1>1, <1>2, <1>3 DEF Kept, InHandsOf, TakenBy
  <1>5. PICK b \in Agents : b = env[r].to
    BY <1>1
  <1>6. r \in Kept(b)'
    BY <1>2, <1>5 DEF Kept
  <1>7. Kept(b)' = Kept(env[r].to)'
    BY <1>5 DEF Kept, InHandsOf, TakenBy
  <1>. QED
    BY <1>4, <1>6, <1>7

LEMMA KeptAfterDrain ==
  ASSUME TypeOK, NEW d \in Readers, DrainStep(d), NEW a \in Agents
  PROVE  Kept(a) \subseteq Kept(a)'
  <1>. DEFINE H(x) == \E e \in Readers : Owner[e] = a /\ x \in Range(hand[e]) \cup Range(taken[e])
              HP(x) == \E e \in Readers : Owner[e] = a /\ x \in Range(hand'[e]) \cup Range(taken'[e])
  <1>1. \A x : x \in Kept(a) <=> x \in Range(inbox[a]) \cup dropped \cup lost \/ H(x)
    BY DEF Kept, InHandsOf, TakenBy
  <1>2. \A x : x \in Kept(a)' <=> x \in Range(inbox'[a]) \cup dropped' \cup lost' \/ HP(x)
    BY DEF Kept, InHandsOf, TakenBy
  <1>3. /\ \A e \in Readers : e # d => hand'[e] = hand[e] /\ taken'[e] = taken[e]
        /\ dropped \subseteq dropped' /\ lost' = lost
        /\ a # Owner[d] => inbox'[a] = inbox[a]
        /\ a = Owner[d] =>
             Range(inbox'[a]) \cup Range(hand'[d]) \cup Range(taken'[d]) \cup dropped'
               = Range(inbox[a]) \cup Range(hand[d]) \cup Range(taken[d]) \cup dropped
    BY DrainMoves
  <1>4. ASSUME NEW x, H(x) PROVE HP(x) \/ x \in Range(inbox'[a]) \cup dropped'
    BY <1>3, <1>4
  <1>5. ASSUME NEW x, x \in Range(inbox[a]) PROVE HP(x) \/ x \in Range(inbox'[a]) \cup dropped'
    BY <1>3, <1>5
  <1>6. ASSUME NEW x, x \in Kept(a) PROVE x \in Kept(a)'
    <2>1. x \in Range(inbox'[a]) \cup dropped' \cup lost' \/ HP(x)
      BY <1>1, <1>3, <1>4, <1>5, <1>6
    <2>. QED
      BY <2>1, <1>2
  <1>. QED
    BY <1>6

\* What is kept does not depend on where else a message is.
LEMMA KeptSame ==
  ASSUME UNCHANGED <<inbox, hand, taken, dropped, lost>>
  PROVE  \A a \in Agents : Kept(a)' = Kept(a)
  BY DEF Kept, InHandsOf, TakenBy

LEMMA KeptAfterRestart ==
  ASSUME Restart
  PROVE  Stored' = Stored /\ \A a \in Agents : Kept(a) \subseteq Kept(a)'
  <1>1. UNCHANGED taken /\ dropped' = dropped \cup InHands /\ hand' = [d \in Readers |-> <<>>]
    BY DEF Restart
  <1>2. Range(<<>>) = {}
    BY EmptySeq DEF Range
  <1>3. InHands' = {}
    BY <1>1, <1>2 DEF InHands
  <1>4. \A a \in Agents : InHandsOf(a) \subseteq dropped' /\ TakenBy(a)' = TakenBy(a)
    BY <1>1 DEF InHands, InHandsOf, TakenBy
  <1>5. CASE Backend = "memory"
    <2>1. inbox' = [a \in Agents |-> <<>>] /\ lost' = lost \cup Queued
      BY <1>5 DEF Restart
    <2>2. Queued' = {}
      BY <2>1, <1>2 DEF Queued
    <2>3. \A a \in Agents : Range(inbox[a]) \subseteq lost'
      BY <2>1 DEF Queued
    <2>. QED
      BY <1>1, <1>3, <1>4, <2>1, <2>2, <2>3 DEF Stored, Kept
  <1>6. CASE Backend # "memory"
    <2>1. UNCHANGED <<inbox, lost>>
      BY <1>6 DEF Restart
    <2>2. Queued' = Queued
      BY <2>1 DEF Queued
    <2>. QED
      BY <1>1, <1>3, <1>4, <2>1, <2>2 DEF Stored, Kept
  <1>. QED
    BY <1>5, <1>6

\* A step of the request r, seen from all the others: what they put into an
\* inbox stays there, and only r may have been stored.
LEMMA OthersTruthful ==
  ASSUME Typed, AllTruthful, NEW r \in Requests,
         \A q \in Requests \ {r} : pc'[q] = pc[q] /\ status'[q] = status[q] /\ env'[q] = env[q],
         \A a \in Agents : Kept(a) \subseteq Kept(a)',
         Stored' \subseteq Stored \cup {r},
         Truthful(r)'
  PROVE  AllTruthful'
  <1>. SUFFICES ASSUME NEW q \in Requests, q # r PROVE Truthful(q)'
    BY DEF AllTruthful
  <1>1. Truthful(q) /\ pc'[q] = pc[q] /\ status'[q] = status[q] /\ env'[q] = env[q]
    BY DEF AllTruthful
  <1>2. \/ pc[q] \in {"expire", "wait"}
        \/ status[q] \in {"ok", "timeout"} /\ env[q].endpoint \in {"send", "ask"}
        => q \in Kept(env[q].to)'
    <2>. SUFFICES ASSUME \/ pc[q] \in {"expire", "wait"}
                         \/ status[q] \in {"ok", "timeout"} /\ env[q].endpoint \in {"send", "ask"}
                  PROVE  q \in Kept(env[q].to)'
      OBVIOUS
    <2>1. pc[q] # "idle"
      BY <1>1 DEF Truthful
    <2>2. env[q].to \in Agents
      BY <2>1, TrafficFields DEF Typed, Carries
    <2>3. q \in Kept(env[q].to)
      BY <1>1 DEF Truthful
    <2>. QED
      BY <2>2, <2>3
  <1>3. q \in Stored' => q \in Stored
    OBVIOUS
  <1>. QED
    BY <1>1, <1>2, <1>3 DEF Truthful

\* A step of the request r that leaves the inboxes alone.
LEMMA InboxesAlone ==
  ASSUME Typed, AllTruthful, NEW r \in Requests, UNCHANGED <<inbox, hand, taken, dropped, lost>>,
         \A q \in Requests \ {r} : pc'[q] = pc[q] /\ status'[q] = status[q] /\ env'[q] = env[q],
         Truthful(r)'
  PROVE  AllTruthful'
  <1>1. Stored' = Stored /\ \A a \in Agents : Kept(a)' = Kept(a)
    BY StoredSame, KeptSame
  <1>. QED
    BY <1>1, OthersTruthful

\* The handler of r goes on or answers, and the inboxes are as before.
LEMMA QuietTruthful ==
  ASSUME Typed, AllTruthful, NEW r \in Requests, UNCHANGED <<inbox, hand, taken, dropped, lost, env>>,
         pc[r] # "done",
         NEW at \in Control \ {"idle", "nonce"}, NEW s \in Statuses,
         pc' = [pc EXCEPT ![r] = at], status' = [status EXCEPT ![r] = s],
         s = "none" <=> at # "done",
         at \in {"push", "rpush", "expire"} => env[r].endpoint \in {"send", "ask"},
         at = "wait" => env[r].endpoint = "ask",
         \/ at \in {"expire", "wait"}
         \/ s \in {"ok", "timeout"} /\ env[r].endpoint \in {"send", "ask"}
         => pc[r] \in {"expire", "wait"},
         pc[r] \in {"expire", "wait"} => at \notin {"push", "rpush"} /\ s \notin Refusals
  PROVE  AllTruthful'
  <1>0. pc \in [Requests -> Control] /\ status \in [Requests -> Statuses]
    BY DEF Typed, TypeOK
  <1>1. pc'[r] = at /\ status'[r] = s /\ env'[r] = env[r]
    BY <1>0
  <1>2. Stored' = Stored /\ \A a \in Agents : Kept(a)' = Kept(a)
    BY StoredSame, KeptSame
  <1>a. env[r].to \in Agents \/ pc[r] = "idle"
    BY TrafficFields DEF Typed, Carries
  <1>3. Truthful(r) /\ pc[r] \in Control
    BY <1>0 DEF AllTruthful
  <1>4. r \in Stored => pc[r] \in {"expire", "wait"}
    BY <1>3 DEF Truthful
  <1>5. Truthful(r)'
    <2>1. r \in Stored' => pc'[r] \in {"expire", "wait", "done"} /\ status'[r] \notin Refusals
      BY <1>1, <1>2, <1>4 DEF Control, Refusals
    <2>2. \/ pc'[r] \in {"expire", "wait"}
          \/ status'[r] \in {"ok", "timeout"} /\ env'[r].endpoint \in {"send", "ask"}
          => r \in Kept(env[r].to)'
      BY <1>1, <1>2, <1>3, <1>a DEF Truthful
    <2>. QED
      BY <1>1, <2>1, <2>2 DEF Truthful
  <1>. QED
    BY <1>0, <1>5, InboxesAlone

\* The handler of r has appended its message and goes on or answers.
LEMMA StoringTruthful ==
  ASSUME Typed, AllTruthful, NEW r \in Requests, UNCHANGED <<hand, taken, dropped, lost, env>>,
         pc[r] \in {"push", "rpush"}, inbox' = Appended(r),
         NEW at \in {"expire", "wait", "done"}, NEW s \in {"none", "ok", "error"},
         pc' = [pc EXCEPT ![r] = at], status' = [status EXCEPT ![r] = s],
         s = "none" <=> at # "done",
         at = "wait" => env[r].endpoint = "ask"
  PROVE  AllTruthful'
  <1>0. pc \in [Requests -> Control] /\ status \in [Requests -> Statuses]
    BY DEF Typed, TypeOK
  <1>1. pc'[r] = at /\ status'[r] = s /\ env'[r] = env[r]
    BY <1>0
  <1>2. Stored' = Stored \cup {r}
    BY StoredAfterAppend
  <1>3. /\ \A a \in Agents : Kept(a) \subseteq Kept(a)'
        /\ r \in Kept(env[r].to)'
    BY KeptAfterAppend
  <1>4. Truthful(r)
    BY DEF AllTruthful
  <1>6. Truthful(r)'
    BY <1>1, <1>3, <1>4 DEF Truthful, Refusals
  <1>. QED
    BY <1>0, <1>2, <1>3, <1>6, OthersTruthful

LEMMA HandlerTruthful ==
  ASSUME Typed, AllTruthful, NEW r \in Requests, HandlerStep(r)
  PROVE  AllTruthful'
  <1>0. /\ pc \in [Requests -> Control] /\ status \in [Requests -> Statuses]
        /\ env[r].endpoint \in Endpoints \/ pc[r] = "idle"
    BY TrafficFields DEF Typed, TypeOK, Carries
  <1>t. Truthful(r)
    BY DEF AllTruthful
  <1>s. pc[r] # "done" /\ status' = status =>
          status' = [status EXCEPT ![r] = "none"]
    BY <1>0, <1>t DEF Truthful
  <1>1. CASE RejectReplay(r)
    <2>1. /\ pc[r] = "nonce" /\ UNCHANGED <<inbox, hand, taken, dropped, lost, env>>
          /\ pc' = [pc EXCEPT ![r] = "done"] /\ status' = [status EXCEPT ![r] = "rejected"]
      BY <1>1 DEF RejectReplay, Answer, envVars, drainVars
    <2>. QED
      BY <2>1, QuietTruthful DEF Control, Statuses
  <1>2. CASE SendValidated(r) \/ AskRegister(r)
    <2>1. /\ pc[r] = "nonce" /\ UNCHANGED <<inbox, hand, taken, dropped, lost, env, status>>
          /\ env[r].endpoint \in {"send", "ask"}
          /\ pc' = [pc EXCEPT ![r] = "push"]
      BY <1>2 DEF SendValidated, AskRegister, PassNonce, AwaitStore, envVars, drainVars
    <2>. QED
      BY <1>s, <2>1, QuietTruthful DEF Control, Statuses
  <1>3. CASE AskBackPressure(r)
    <2>1. /\ pc[r] = "nonce" /\ UNCHANGED <<inbox, hand, taken, dropped, lost, env>>
          /\ pc' = [pc EXCEPT ![r] = "done"] /\ status' = [status EXCEPT ![r] = "busy"]
      BY <1>3 DEF AskBackPressure, PassNonce, Answer, envVars, drainVars
    <2>. QED
      BY <2>1, QuietTruthful DEF Control, Statuses
  <1>4. CASE ReplyUnknown(r) \/ ReplyLate(r) \/ ReplyResolve(r)
    <2>1. PICK s \in {"notFound", "conflict", "ok"} :
             /\ pc[r] = "nonce" /\ UNCHANGED <<inbox, hand, taken, dropped, lost, env>>
             /\ env[r].endpoint = "reply"
             /\ pc' = [pc EXCEPT ![r] = "done"] /\ status' = [status EXCEPT ![r] = s]
      BY <1>4 DEF ReplyUnknown, ReplyLate, ReplyResolve, PassNonce, Answer, envVars, drainVars
    <2>. QED
      BY <2>1, QuietTruthful DEF Control, Statuses
  <1>5. CASE PushRefused(r)
    <2>1. /\ pc[r] = "push" /\ UNCHANGED <<inbox, hand, taken, dropped, lost, env>>
          /\ pc' = [pc EXCEPT ![r] = "done"] /\ status' = [status EXCEPT ![r] = "busy"]
      BY <1>5 DEF PushRefused, Answer, storeVars, envVars, drainVars
    <2>. QED
      BY <2>1, QuietTruthful DEF Control, Statuses
  <1>6. CASE PushMemory(r)
    <2>1. /\ pc[r] = "push" /\ inbox' = Appended(r) /\ UNCHANGED <<hand, taken, dropped, lost, env>>
      BY <1>6 DEF PushMemory, envVars, drainVars
    <2>2. \/ pc' = [pc EXCEPT ![r] = "done"] /\ status' = [status EXCEPT ![r] = "ok"]
          \/ /\ pc' = [pc EXCEPT ![r] = "wait"] /\ UNCHANGED status
             /\ env[r].endpoint = "ask"
      BY <1>6 DEF PushMemory, Pushed, Answer, AwaitReply
    <2>. QED
      BY <1>s, <2>1, <2>2, StoringTruthful
  <1>7. CASE PushLlen(r)
    <2>1. /\ pc[r] = "push" /\ UNCHANGED <<inbox, hand, taken, dropped, lost, env, status>>
          /\ pc' = [pc EXCEPT ![r] = "rpush"]
      BY <1>7 DEF PushLlen, AwaitStore, storeVars, envVars, drainVars
    <2>2. env[r].endpoint \in {"send", "ask"}
      BY <1>t, <2>1 DEF Truthful
    <2>. QED
      BY <1>s, <2>1, <2>2, QuietTruthful DEF Control, Statuses
  <1>8. CASE PushRpush(r)
    <2>1. /\ pc[r] = "rpush" /\ inbox' = Appended(r) /\ UNCHANGED <<hand, taken, dropped, lost, env, status>>
          /\ pc' = [pc EXCEPT ![r] = "expire"]
      BY <1>8 DEF PushRpush, AwaitStore, envVars, drainVars
    <2>. QED
      BY <1>s, <2>1, StoringTruthful
  <1>9. CASE PushExpire(r)
    <2>1. /\ pc[r] = "expire" /\ UNCHANGED <<inbox, hand, taken, dropped, lost, env>>
      BY <1>9 DEF PushExpire, storeVars, envVars, drainVars
    <2>2. CASE pc' = [pc EXCEPT ![r] = "done"] /\ status' = [status EXCEPT ![r] = "ok"]
      BY <2>1, <2>2, QuietTruthful DEF Control, Statuses, Refusals
    <2>3. CASE /\ pc' = [pc EXCEPT ![r] = "wait"] /\ UNCHANGED status
               /\ env[r].endpoint = "ask"
      BY <1>s, <2>1, <2>3, QuietTruthful DEF Control, Statuses, Refusals
    <2>. QED
      BY <1>9, <2>2, <2>3 DEF PushExpire, Pushed, Answer, AwaitReply
  <1>10. CASE AskTimeout(r)
    <2>1. UNCHANGED <<inbox, hand, taken, dropped, lost, pc, env, status>>
      BY <1>10 DEF AskTimeout, storeVars, reqVars, envVars, drainVars
    <2>2. Truthful(r)'
      BY <1>t, <2>1, StoredSame DEF Truthful, Kept, InHandsOf, TakenBy
    <2>. QED
      BY <2>1, <2>2, InboxesAlone
  <1>11. CASE AskResume(r)
    <2>1. PICK s \in {"ok", "timeout"} :
             /\ pc[r] = "wait" /\ UNCHANGED <<inbox, hand, taken, dropped, lost, env>>
             /\ pc' = [pc EXCEPT ![r] = "done"] /\ status' = [status EXCEPT ![r] = s]
      BY <1>11 DEF AskResume, Answer, storeVars, envVars, drainVars
    <2>. QED
      BY <2>1, QuietTruthful DEF Control, Statuses, Refusals
  <1>. QED
    BY <1>1, <1>2, <1>3, <1>4, <1>5, <1>6, <1>7, <1>8, <1>9, <1>10, <1>11 DEF HandlerStep

LEMMA NextTruthful == Typed /\ AllTruthful /\ [Next]_vars => AllTruthful'
  <1>. SUFFICES ASSUME Typed, AllTruthful, [Next]_vars PROVE AllTruthful'
    OBVIOUS
  <1>0. /\ pc \in [Requests -> Control] /\ status \in [Requests -> Statuses]
        /\ env \in [Requests -> Traffic \cup {None}]
    BY DEF Typed, TypeOK
  <1>1. ASSUME NEW r \in Requests, ArriveAny(r)
        PROVE  AllTruthful'
    <2>1. /\ pc[r] = "idle" /\ UNCHANGED <<inbox, hand, taken, dropped, lost>>
          /\ \E e \in Traffic : env' = [env EXCEPT ![r] = e]
          /\ \/ pc' = [pc EXCEPT ![r] = "nonce"] /\ status' = status
             \/ pc' = [pc EXCEPT ![r] = "done"] /\ status' = [status EXCEPT ![r] = "rejected"]
      BY <1>1 DEF ArriveAny, Arrive, ArriveMalformed, Arrival, Answer, AwaitStore, storeVars, envVars, drainVars
    <2>2. Truthful(r) /\ r \notin Stored
      BY <2>1 DEF AllTruthful, Truthful
    <2>3. Truthful(r)'
      BY <1>0, <2>1, <2>2, StoredSame DEF Truthful
    <2>. QED
      BY <1>0, <2>1, <2>3, InboxesAlone
  <1>2. ASSUME NEW r \in Requests, HandlerStep(r)
        PROVE  AllTruthful'
    BY <1>2, HandlerTruthful
  <1>3. ASSUME NEW r \in Requests, StoreError(r)
        PROVE  AllTruthful'
    <2>1. /\ pc' = [pc EXCEPT ![r] = "done"] /\ status' = [status EXCEPT ![r] = "error"]
          /\ UNCHANGED <<hand, taken, dropped, lost, env>> /\ pc[r] \in {"nonce", "push", "rpush", "expire"}
          /\ \/ inbox' = inbox
             \/ pc[r] = "rpush" /\ inbox' = Appended(r)
      <3>1. pc' = [pc EXCEPT ![r] = "done"] /\ status' = [status EXCEPT ![r] = "error"]
            /\ UNCHANGED <<hand, taken, dropped, lost, env>>
        BY <1>3 DEF StoreError, Answer, envVars, drainVars
      <3>. QED
        BY <1>3, <3>1, Zenon DEF StoreError
    <2>2. CASE inbox' = inbox
      BY <2>1, <2>2, QuietTruthful DEF Control, Statuses, Refusals
    <2>3. CASE pc[r] = "rpush" /\ inbox' = Appended(r)
      BY <2>1, <2>3, StoringTruthful
    <2>. QED
      BY <2>1, <2>2, <2>3
  <1>4. ASSUME NEW d \in Readers, DrainStep(d)
        PROVE  AllTruthful'
    <2>1. UNCHANGED <<pc, env, status>>
      BY <1>4, DrainAlone DEF reqVars, Typed
    <2>2. Stored' = Stored /\ \A b \in Agents : Kept(b) \subseteq Kept(b)'
      BY <1>4, StoredAfterDrain, KeptAfterDrain DEF Typed
    <2>. SUFFICES ASSUME NEW r \in Requests PROVE Truthful(r)'
      BY DEF AllTruthful
    <2>3. Truthful(r)
      BY DEF AllTruthful
    <2>4. pc[r] # "idle" => env[r].to \in Agents
      BY TrafficFields DEF Typed, Carries
    <2>5. status[r] \in {"ok", "timeout"} => pc[r] = "done"
      BY <2>3 DEF Truthful
    <2>6. pc[r] \in {"expire", "wait", "done"} => Kept(env[r].to) \subseteq Kept(env[r].to)'
      BY <2>1, <2>2, <2>4
    <2>. QED
      BY <2>1, <2>2, <2>3, <2>5, <2>6 DEF Truthful
  <1>5. CASE Restart
    <2>1. UNCHANGED <<env, taken>>
          /\ \A r \in Requests :
               /\ pc'[r] = IF InFlight(r) THEN "done" ELSE pc[r]
               /\ status'[r] = IF InFlight(r) THEN "dropped" ELSE status[r]
      BY <1>5 DEF Restart
    <2>2. Stored' = Stored /\ \A a \in Agents : Kept(a) \subseteq Kept(a)'
      BY <1>5, KeptAfterRestart
    <2>. SUFFICES ASSUME NEW r \in Requests PROVE Truthful(r)'
      BY DEF AllTruthful
    <2>3. Truthful(r) /\ pc[r] \in Control
      BY <1>0 DEF AllTruthful
    <2>4. status[r] \in {"ok", "timeout"} => env[r].to \in Agents
      BY <2>3, TrafficFields DEF Typed, Carries, Truthful
    <2>5. CASE InFlight(r)
      BY <2>1, <2>2, <2>3, <2>5 DEF Truthful, Refusals
    <2>6. CASE ~InFlight(r)
      <3>1. pc'[r] = pc[r] /\ status'[r] = status[r] /\ env'[r] = env[r] /\ pc[r] \in {"idle", "done"}
        BY <2>1, <2>3, <2>6 DEF InFlight
      <3>2. status[r] \in {"ok", "timeout"} =>
              Kept(env[r].to) \subseteq Kept(env[r].to)'
        BY <2>1, <2>2, <2>4
      <3>. QED
        BY <2>1, <2>2, <2>3, <3>1, <3>2 DEF Truthful
    <2>. QED
      BY <2>5, <2>6
  <1>6. CASE Tick \/ UNCHANGED vars
    <2>1. UNCHANGED <<inbox, hand, taken, dropped, lost, pc, env, status>>
      BY <1>6 DEF Tick, vars, storeVars, reqVars, envVars, drainVars
    <2>. QED
      BY <2>1, StoredSame DEF AllTruthful, Truthful, Kept, InHandsOf, TakenBy
  <1>. QED
    BY <1>1, <1>2, <1>3, <1>4, <1>5, <1>6 DEF Next

LEMMA InitTruthful == Init => AllTruthful
  <1>. SUFFICES ASSUME Init PROVE AllTruthful
    OBVIOUS
  <1>1. Stored = {}
    BY EmptySeq DEF Init, Stored, Queued, InHands, Range
  <1>. QED
    BY <1>1 DEF Init, AllTruthful, Truthful

\* Only an error of the store, or the end of the relay, takes a message away.
LEMMA NextLosses == Typed /\ LossHasCause /\ [Next]_vars => LossHasCause'
  <1>. SUFFICES ASSUME Typed, LossHasCause, [Next]_vars PROVE LossHasCause'
    OBVIOUS
  <1>0. restarts \in Nat
    BY DEF Typed, TypeOK
  <1>1. ASSUME NEW r \in Requests, ArriveAny(r) \/ HandlerStep(r) \/ StoreError(r)
        PROVE  LossHasCause'
    <2>1. UNCHANGED <<dropped, lost, restarts>>
      BY <1>1 DEF ArriveAny, Arrive, ArriveMalformed, StoreError, HandlerStep, RejectReplay,
         SendValidated, AskBackPressure, AskRegister, ReplyUnknown, ReplyLate, ReplyResolve,
         PassNonce, PushRefused, PushMemory, PushLlen, PushRpush, PushExpire, AskTimeout,
         AskResume, storeVars, envVars, drainVars
    <2>. QED
      BY <2>1 DEF LossHasCause
  <1>2. ASSUME NEW d \in Readers, DrainStep(d)
        PROVE  LossHasCause'
    <2>1. UNCHANGED <<lost, restarts>> /\ (dropped' = dropped \/ StoreFails)
      BY <1>2, DrainMoves DEF Typed
    <2>. QED
      BY <2>1 DEF LossHasCause
  <1>3. CASE Restart
    <2>1. restarts' > 0 /\ (Backend # "memory" => lost' = lost)
      BY <1>0, <1>3 DEF Restart
    <2>. QED
      BY <2>1 DEF LossHasCause
  <1>4. CASE Tick \/ UNCHANGED vars
    BY <1>4 DEF LossHasCause, Tick, vars, storeVars, envVars, drainVars
  <1>. QED
    BY <1>1, <1>2, <1>3, <1>4 DEF Next

\* relay/main.py, post_send and post_ask: what a client is told about its
\* message is what happened to it.  An answer 200, or the timeout of an ask,
\* means that the message was queued and is there until a drain returns it,
\* fails, or the relay dies; a refusal means that it was not queued.
THEOREM AnswersAreTrueHolds == Spec => []AnswersAreTrue
  <1>1. Typed /\ AllTruthful /\ LossHasCause => AnswersAreTrue
    <2>. SUFFICES ASSUME Typed, AllTruthful, LossHasCause PROVE AnswersAreTrue
      OBVIOUS
    <2>1. Stored \subseteq Requests
      BY ElementOfSeq, LenProperties DEF Stored, Queued, InHands, Range, Typed, TypeOK
    <2>2. AcknowledgedIsKept
      BY DEF AcknowledgedIsKept, AllTruthful, Truthful, Kept
    <2>3. RefusedIsNotStored
      BY <2>1 DEF RefusedIsNotStored, AllTruthful, Truthful, Refusals
    <2>. QED
      BY <2>2, <2>3 DEF AnswersAreTrue
  <1>2. Init => LossHasCause
    BY DEF Init, LossHasCause
  <1>. QED
    BY TypedAlways, InitTruthful, NextTruthful, NextLosses, <1>1, <1>2, PTL DEF Spec

-----------------------------------------------------------------------------
(***************************************************************************)
(* Asks and replies.  An entry of pending_asks names an ask with its id,   *)
(* and a future is resolved only by a reply that was answered 200.         *)
(***************************************************************************)
Answered(c) ==
  \E q \in Requests : status[q] = "ok" /\ env[q].endpoint = "reply" /\ env[q].corr = c

Names(c) ==
  LET q == pendingAsks[c] IN
  q # None => pc[q] # "idle" /\ env[q].endpoint = "ask" /\ env[q].corr = c

Awaits(r) ==
  /\ pc[r] = "idle" => fut[r] = "none"
  /\ status[r] = "ok" /\ env[r].endpoint = "reply" => env[r].corr \in Corrs
  /\ fut[r] = "replied" => Answered(env[r].corr)
  /\ fut[r] = "cancelled" => r \in expired
  /\ pc[r] = "wait" => fut[r] # "none"
  /\ status[r] = "ok" /\ env[r].endpoint = "ask" => Answered(env[r].corr)

Paired == (\A c \in Corrs : Names(c)) /\ (\A r \in Requests : Awaits(r))

\* A step of the request r, seen from the others.  What has been answered
\* stays answered.
LEMMA OthersAwait ==
  ASSUME Paired, NEW r \in Requests,
         \A q \in Requests \ {r} : pc'[q] = pc[q] /\ status'[q] = status[q] /\ env'[q] = env[q],
         status[r] # "ok",
         \A q \in Requests \ {r} :
           \/ fut'[q] = fut[q]
           \/ fut'[q] = "replied" /\ pc[q] # "idle" /\ Answered(env[q].corr)',
         expired \subseteq expired',
         Awaits(r)'
  PROVE  \A q \in Requests : Awaits(q)'
  <1>. SUFFICES ASSUME NEW q \in Requests, q # r PROVE Awaits(q)'
    OBVIOUS
  <1>1. Awaits(q)
    BY DEF Paired
  <1>2. pc'[q] = pc[q] /\ status'[q] = status[q] /\ env'[q] = env[q]
    OBVIOUS
  <1>3. \A c : Answered(c) => Answered(c)'
    BY DEF Answered
  <1>4. /\ fut'[q] = "replied" => Answered(env[q].corr)'
        /\ pc[q] = "idle" => fut'[q] = "none"
        /\ pc[q] = "wait" => fut'[q] # "none"
        /\ fut'[q] = "cancelled" => fut[q] = "cancelled"
    BY <1>1, <1>3 DEF Awaits
  <1>. QED
    BY <1>1, <1>2, <1>3, <1>4 DEF Awaits

LEMMA NamesStay ==
  ASSUME Typed, Paired,
         \A c \in Corrs : pendingAsks'[c] \in {pendingAsks[c], None},
         \A q \in Requests : pc[q] # "idle" => pc'[q] # "idle" /\ env'[q] = env[q]
  PROVE  \A c \in Corrs : Names(c)'
  BY DEF Paired, Names, Typed, TypeOK

\* The handler of r goes on or answers, and no future changes.
LEMMA QuietPaired ==
  ASSUME Typed, AllTruthful, Paired, NEW r \in Requests, UNCHANGED <<env, fut, expired>>,
         \A c \in Corrs : pendingAsks'[c] \in {pendingAsks[c], None},
         pc[r] \notin {"idle", "done"},
         NEW at \in Control \ {"idle"}, NEW s \in Statuses,
         pc' = [pc EXCEPT ![r] = at], status' = [status EXCEPT ![r] = s],
         at = "wait" => fut[r] # "none",
         s = "ok" => env[r].endpoint # "reply",
         s = "ok" /\ env[r].endpoint = "ask" => fut[r] = "replied"
  PROVE  Paired'
  <1>0. pc \in [Requests -> Control] /\ status \in [Requests -> Statuses]
    BY DEF Typed, TypeOK
  <1>1. pc'[r] = at /\ status'[r] = s /\ status[r] = "none"
    BY <1>0 DEF AllTruthful, Truthful
  <1>2. \A c : Answered(c) => Answered(c)'
    BY <1>0, <1>1 DEF Answered
  <1>3. Awaits(r)
    BY DEF Paired
  <1>4. Awaits(r)'
    BY <1>1, <1>2, <1>3 DEF Awaits
  <1>5. \A q \in Requests : Awaits(q)'
    BY <1>0, <1>1, <1>4, OthersAwait
  <1>6. \A c \in Corrs : Names(c)'
    BY <1>0, NamesStay
  <1>. QED
    BY <1>5, <1>6 DEF Paired

LEMMA ResolvePaired ==
  ASSUME Typed, AllTruthful, Paired, NEW r \in Requests, ReplyResolve(r)
  PROVE  Paired'
  <1>0. /\ pc \in [Requests -> Control] /\ status \in [Requests -> Statuses]
        /\ fut \in [Requests -> {"none", "pending", "replied", "cancelled"}]
        /\ pendingAsks \in [Corrs -> Requests \cup {None}]
    BY DEF Typed, TypeOK
  <1>1. /\ pc[r] = "nonce" /\ env[r].endpoint = "reply" /\ env' = env
        /\ Asker(r) # None /\ fut' = [fut EXCEPT ![Asker(r)] = "replied"]
        /\ pc' = [pc EXCEPT ![r] = "done"] /\ status' = [status EXCEPT ![r] = "ok"]
        /\ pendingAsks' = pendingAsks /\ expired' = expired
    BY DEF ReplyResolve, PassNonce, Answer
  <1>2. PICK c \in Corrs : c = env[r].corr
    BY <1>1 DEF Typed, Carries, InFlight
  <1>3. PICK q \in Requests : q = Asker(r)
    BY <1>0, <1>1, <1>2 DEF Asker
  <1>4. q # r /\ env[q].corr = c /\ pc[q] # "idle"
    BY <1>1, <1>2, <1>3 DEF Asker, Paired, Names
  <1>5. Answered(c)'
    BY <1>0, <1>1, <1>2 DEF Answered
  <1>6. status[r] = "none"
    BY <1>1 DEF AllTruthful, Truthful
  <1>7. Awaits(r) /\ fut'[r] = fut[r] /\ fut'[q] = "replied"
    BY <1>0, <1>1, <1>3, <1>4 DEF Paired
  <1>8. \A d : Answered(d) => Answered(d)'
    BY <1>0, <1>1, <1>6 DEF Answered
  <1>9. Awaits(r)'
    BY <1>0, <1>1, <1>2, <1>7, <1>8 DEF Awaits
  <1>10. \A p \in Requests : Awaits(p)'
    BY <1>0, <1>1, <1>3, <1>4, <1>5, <1>6, <1>9, OthersAwait
  <1>11. \A d \in Corrs : Names(d)'
    BY <1>0, <1>1, NamesStay
  <1>. QED
    BY <1>10, <1>11 DEF Paired

LEMMA RegisterPaired ==
  ASSUME Typed, AllTruthful, Paired, NEW r \in Requests, AskRegister(r)
  PROVE  Paired'
  <1>0. /\ pc \in [Requests -> Control] /\ status \in [Requests -> Statuses]
        /\ fut \in [Requests -> {"none", "pending", "replied", "cancelled"}]
        /\ pendingAsks \in [Corrs -> Requests \cup {None}]
    BY DEF Typed, TypeOK
  <1>1. /\ pc[r] = "nonce" /\ env[r].endpoint = "ask" /\ env' = env /\ status' = status
        /\ pendingAsks' = [pendingAsks EXCEPT ![env[r].corr] = r]
        /\ fut' = [fut EXCEPT ![r] = "pending"] /\ expired' = expired
        /\ pc' = [pc EXCEPT ![r] = "push"]
    BY DEF AskRegister, PassNonce, AwaitStore
  <1>2. status[r] = "none"
    BY <1>1 DEF AllTruthful, Truthful
  <1>3. Awaits(r)'
    BY <1>0, <1>1, <1>2 DEF Awaits
  <1>4. \A q \in Requests : Awaits(q)'
    BY <1>0, <1>1, <1>2, <1>3, OthersAwait
  <1>5. \A c \in Corrs : Names(c)'
    <2>. SUFFICES ASSUME NEW c \in Corrs PROVE Names(c)'
      OBVIOUS
    <2>1. CASE c = env[r].corr
      BY <1>0, <1>1, <2>1 DEF Names
    <2>2. CASE c # env[r].corr
      BY <1>0, <1>1, <2>2 DEF Paired, Names
    <2>. QED
      BY <2>1, <2>2
  <1>. QED
    BY <1>4, <1>5 DEF Paired

LEMMA TimeoutPaired ==
  ASSUME Typed, AllTruthful, Paired, NEW r \in Requests, AskTimeout(r)
  PROVE  Paired'
  <1>0. /\ pc \in [Requests -> Control]
        /\ fut \in [Requests -> {"none", "pending", "replied", "cancelled"}]
    BY DEF Typed, TypeOK
  <1>1. /\ pc[r] = "wait" /\ UNCHANGED <<env, status, pc, pendingAsks>>
        /\ expired' = expired \cup {r}
        /\ fut' = [fut EXCEPT ![r] = IF fut[r] = "pending" THEN "cancelled" ELSE fut[r]]
    BY DEF AskTimeout, reqVars
  <1>2. status[r] = "none" /\ Awaits(r)
    BY <1>1 DEF AllTruthful, Truthful, Paired
  <1>3. \A c : Answered(c)' <=> Answered(c)
    BY <1>1 DEF Answered
  <1>4. Awaits(r)'
    BY <1>0, <1>1, <1>2, <1>3 DEF Awaits
  <1>5. \A q \in Requests : Awaits(q)'
    BY <1>0, <1>1, <1>2, <1>4, OthersAwait
  <1>6. \A c \in Corrs : Names(c)'
    BY <1>1, NamesStay
  <1>. QED
    BY <1>5, <1>6 DEF Paired

LEMMA HandlerPaired ==
  ASSUME Typed, AllTruthful, Paired, NEW r \in Requests, HandlerStep(r)
  PROVE  Paired'
  <1>0. /\ pc \in [Requests -> Control] /\ status \in [Requests -> Statuses]
        /\ fut \in [Requests -> {"none", "pending", "replied", "cancelled"}]
        /\ pendingAsks \in [Corrs -> Requests \cup {None}]
    BY DEF Typed, TypeOK
  <1>. USE DEF Control, Statuses
  <1>s. pc[r] # "done" /\ status' = status => status' = [status EXCEPT ![r] = "none"]
    BY <1>0 DEF AllTruthful, Truthful
  <1>1. CASE RejectReplay(r)
    <2>1. /\ pc[r] = "nonce" /\ UNCHANGED <<env, pendingAsks, fut, expired>>
          /\ pc' = [pc EXCEPT ![r] = "done"] /\ status' = [status EXCEPT ![r] = "rejected"]
      BY <1>1 DEF RejectReplay, Answer, askVars
    <2>. QED
      BY <2>1, QuietPaired
  <1>2. CASE SendValidated(r)
    <2>1. /\ pc[r] = "nonce" /\ UNCHANGED <<env, status, pendingAsks, fut, expired>>
          /\ pc' = [pc EXCEPT ![r] = "push"]
      BY <1>2 DEF SendValidated, PassNonce, AwaitStore, askVars
    <2>. QED
      BY <1>s, <2>1, QuietPaired
  <1>3. CASE AskBackPressure(r) \/ ReplyUnknown(r) \/ ReplyLate(r)
    <2>1. PICK s \in {"busy", "notFound", "conflict"} :
             /\ pc[r] = "nonce" /\ UNCHANGED <<env, pendingAsks, fut, expired>>
             /\ pc' = [pc EXCEPT ![r] = "done"] /\ status' = [status EXCEPT ![r] = s]
      BY <1>3 DEF AskBackPressure, ReplyUnknown, ReplyLate, PassNonce, Answer, askVars
    <2>. QED
      BY <2>1, QuietPaired
  <1>4. CASE PushRefused(r)
    <2>1. /\ pc[r] = "push" /\ UNCHANGED <<env, fut, expired>>
          /\ pc' = [pc EXCEPT ![r] = "done"] /\ status' = [status EXCEPT ![r] = "busy"]
      BY <1>4 DEF PushRefused, Answer
    <2>2. \A c \in Corrs : pendingAsks'[c] \in {pendingAsks[c], None}
      BY <1>0, <1>4 DEF PushRefused, PopPending
    <2>. QED
      BY <2>1, <2>2, QuietPaired
  <1>5. CASE PushMemory(r) \/ PushExpire(r)
    <2>1. /\ pc[r] \in {"push", "expire"} /\ UNCHANGED <<env, fut, expired>> /\ Pushed(r)
      BY <1>5 DEF PushMemory, PushExpire
    <2>2. CASE /\ env[r].endpoint = "send" /\ Answer(r, "ok")
               /\ UNCHANGED <<pendingAsks, pendingTarget>>
      <3>1. pc' = [pc EXCEPT ![r] = "done"] /\ status' = [status EXCEPT ![r] = "ok"]
        BY <2>2 DEF Answer
      <3>. QED
        BY <2>1, <2>2, <3>1, QuietPaired
    <2>3. CASE /\ env[r].endpoint = "ask" /\ fut[r] = "pending" /\ AwaitReply(r)
               /\ UNCHANGED <<pendingAsks, pendingTarget>>
      <3>1. pc' = [pc EXCEPT ![r] = "wait"] /\ status' = status
        BY <2>3 DEF AwaitReply
      <3>. QED
        BY <1>s, <2>1, <2>3, <3>1, QuietPaired
    <2>4. CASE /\ env[r].endpoint = "ask" /\ fut[r] = "replied"
               /\ PopPending(env[r].corr) /\ Answer(r, "ok")
      <3>1. pc' = [pc EXCEPT ![r] = "done"] /\ status' = [status EXCEPT ![r] = "ok"]
        BY <2>4 DEF Answer
      <3>2. \A c \in Corrs : pendingAsks'[c] \in {pendingAsks[c], None}
        BY <1>0, <2>4 DEF PopPending
      <3>. QED
        BY <2>1, <2>4, <3>1, <3>2, QuietPaired
    <2>. QED
      BY <2>1, <2>2, <2>3, <2>4 DEF Pushed
  <1>6. CASE PushLlen(r) \/ PushRpush(r)
    <2>1. PICK at \in {"rpush", "expire"} :
             /\ pc[r] \in {"push", "rpush"}
             /\ UNCHANGED <<env, status, pendingAsks, fut, expired>>
             /\ pc' = [pc EXCEPT ![r] = at]
      BY <1>6 DEF PushLlen, PushRpush, AwaitStore, askVars
    <2>. QED
      BY <1>s, <2>1, QuietPaired
  <1>7. CASE AskResume(r)
    <2>1. PICK s \in {"ok", "timeout"} :
             /\ pc[r] = "wait" /\ fut[r] # "pending" /\ UNCHANGED <<env, fut, expired>>
             /\ pc' = [pc EXCEPT ![r] = "done"] /\ status' = [status EXCEPT ![r] = s]
             /\ s = "ok" => r \notin expired
      BY <1>7 DEF AskResume, Answer
    <2>2. \A c \in Corrs : pendingAsks'[c] \in {pendingAsks[c], None}
      BY <1>0, <1>7 DEF AskResume, PopPending
    <2>3. env[r].endpoint = "ask" /\ (s = "ok" => fut[r] = "replied")
      BY <1>0, <2>1 DEF AllTruthful, Truthful, Paired, Awaits
    <2>. QED
      BY <2>1, <2>2, <2>3, QuietPaired
  <1>. QED
    BY <1>1, <1>2, <1>3, <1>4, <1>5, <1>6, <1>7, RegisterPaired, ResolvePaired, TimeoutPaired
    DEF HandlerStep

LEMMA NextPaired == Typed /\ AllTruthful /\ Paired /\ [Next]_vars => Paired'
  <1>. SUFFICES ASSUME Typed, AllTruthful, Paired, [Next]_vars PROVE Paired'
    OBVIOUS
  <1>0. /\ pc \in [Requests -> Control] /\ status \in [Requests -> Statuses]
        /\ env \in [Requests -> Traffic \cup {None}]
        /\ pendingAsks \in [Corrs -> Requests \cup {None}]
    BY DEF Typed, TypeOK
  <1>1. ASSUME NEW r \in Requests, ArriveAny(r)
        PROVE  Paired'
    <2>1. /\ pc[r] = "idle" /\ UNCHANGED <<pendingAsks, fut, expired>>
          /\ \E e \in Traffic : env' = [env EXCEPT ![r] = e]
          /\ \/ pc' = [pc EXCEPT ![r] = "nonce"] /\ status' = status
             \/ pc' = [pc EXCEPT ![r] = "done"] /\ status' = [status EXCEPT ![r] = "rejected"]
      BY <1>1 DEF ArriveAny, Arrive, ArriveMalformed, Arrival, Answer, AwaitStore, askVars
    <2>2. status[r] = "none" /\ fut[r] = "none"
      BY <2>1 DEF AllTruthful, Truthful, Paired, Awaits
    <2>3. Awaits(r)'
      BY <1>0, <2>1, <2>2 DEF Awaits
    <2>4. \A q \in Requests : Awaits(q)'
      BY <1>0, <2>1, <2>2, <2>3, OthersAwait
    <2>5. \A c \in Corrs : Names(c)'
      BY <1>0, <2>1, NamesStay
    <2>. QED
      BY <2>4, <2>5 DEF Paired
  <1>2. ASSUME NEW r \in Requests, HandlerStep(r)
        PROVE  Paired'
    BY <1>2, HandlerPaired
  <1>3. ASSUME NEW r \in Requests, StoreError(r)
        PROVE  Paired'
    <2>1. /\ pc' = [pc EXCEPT ![r] = "done"] /\ status' = [status EXCEPT ![r] = "error"]
          /\ UNCHANGED <<env, pendingAsks, fut, expired>>
      BY <1>3 DEF StoreError, Answer, askVars
    <2>2. pc[r] \in {"nonce", "push", "rpush", "expire"}
      BY <1>3 DEF StoreError
    <2>. QED
      BY <2>1, <2>2, QuietPaired DEF Control, Statuses
  <1>4. CASE Restart
    <2>1. /\ env' = env /\ pendingAsks' = [c \in Corrs |-> None]
          /\ fut' = [r \in Requests |-> "none"]
          /\ \A r \in Requests :
               /\ pc'[r] = IF InFlight(r) THEN "done" ELSE pc[r]
               /\ status'[r] = IF InFlight(r) THEN "dropped" ELSE status[r]
      BY <1>4 DEF Restart
    <2>2. \A r \in Requests : status[r] = "ok" <=> status'[r] = "ok"
      BY <2>1 DEF AllTruthful, Truthful, InFlight
    <2>3. \A c : Answered(c) => Answered(c)'
      BY <2>1, <2>2 DEF Answered
    <2>4. \A r \in Requests : Awaits(r)'
      BY <2>1, <2>2, <2>3 DEF Paired, Awaits, InFlight
    <2>5. \A c \in Corrs : Names(c)'
      BY <2>1 DEF Names
    <2>. QED
      BY <2>4, <2>5 DEF Paired
  <1>5. CASE Tick \/ UNCHANGED vars \/ \E d \in Readers : DrainStep(d)
    <2>1. UNCHANGED <<pendingAsks, fut, expired, pc, env, status>>
      BY <1>5, DrainAlone DEF Typed, Tick, vars, askVars, reqVars
    <2>. QED
      BY <2>1 DEF Paired, Names, Awaits, Answered
  <1>. QED
    BY <1>1, <1>2, <1>3, <1>4, <1>5 DEF Next

LEMMA InitPaired == Init => Paired
  BY DEF Init, Paired, Names, Awaits

-----------------------------------------------------------------------------
(***************************************************************************)
(* One reply for each ask.  The ids of asks are fresh (uuid4), so that two *)
(* asks with one id are retransmissions of one envelope; the nonce check   *)
(* lets through no more than one of them, and it has the reply's future.   *)
(***************************************************************************)
OneAskPerCorr ==
  \A e, f \in Traffic :
    e.endpoint = "ask" /\ f.endpoint = "ask" /\ e.corr = f.corr => e.nonce = f.nonce

\* A new request with this envelope is refused from now on.
Spent(e) ==
  \/ e.ts + TSSkew < now
  \/ nonces[e.nonce] # 0 /\ e.ts + TSSkew <= nonces[e.nonce]

Settled(c) ==
  /\ pendingAsks[c] # None => Spent(env[pendingAsks[c]])
  /\ Answered(c) =>
       /\ \A e \in Traffic : e.endpoint = "ask" /\ e.corr = c => Spent(e)
       /\ pendingAsks[c] # None => fut[pendingAsks[c]] # "pending"

Once(c) == EarlyAsk(c) \/ Settled(c)

AnsweredOnce == (\A c \in Corrs : Once(c)) /\ OneReplyPerAsk

LEMMA EarlyStays ==
  ASSUME PassedOnce, early \subseteq Requests, early \subseteq early',
         \A q \in Requests : pc[q] # "idle" => env'[q] = env[q]
  PROVE  \A c : EarlyAsk(c) => EarlyAsk(c)'
  <1>1. \A q \in early : q \in early' /\ env'[q] = env[q]
    BY DEF PassedOnce
  <1>. QED
    BY <1>1 DEF EarlyAsk

\* At the nonce check a spent envelope's nonce is known.
LEMMA KnownIfSpent ==
  ASSUME Typed, PassedOnce, OneStampPerNonce,
         NEW r \in Requests, pc[r] = "nonce",
         NEW e \in Traffic, e.nonce = env[r].nonce, Spent(e)
  PROVE  Known(env[r].nonce)
  <1>1. env[r] \in Traffic
    BY DEF Typed, Carries
  <1>2. env[r].ts = e.ts /\ e.nonce \in Nonces /\ e.ts \in Nat
    BY <1>1, TrafficFields DEF OneStampPerNonce
  <1>3. now <= e.ts + TSSkew
    BY <1>2 DEF PassedOnce, Expires
  <1>4. now \in Nat /\ nonces[e.nonce] \in Nat /\ e.ts + TSSkew \in Nat
    BY <1>2, ParameterAssumption DEF Typed, TypeOK
  <1>5. nonces[e.nonce] # 0 /\ now <= nonces[e.nonce]
    BY <1>3, <1>4 DEF Spent
  <1>6. Purged[e.nonce] = nonces[e.nonce]
    BY <1>2, <1>4, <1>5 DEF Purged
  <1>. QED
    BY <1>5, <1>6 DEF Known

LEMMA SpentStays ==
  ASSUME Typed, NEW e \in Traffic, Spent(e), now' \in Nat, now <= now',
         nonces'[e.nonce] = nonces[e.nonce] \/ nonces[e.nonce] < now'
  PROVE  Spent(e)'
  <1>1. e.nonce \in Nonces /\ e.ts + TSSkew \in Nat
    BY TrafficFields, ParameterAssumption
  <1>2. now \in Nat /\ nonces[e.nonce] \in Nat
    BY <1>1 DEF Typed, TypeOK
  <1>. QED
    BY <1>1, <1>2 DEF Spent

\* A request passes the nonce check: no spent envelope becomes new, and its
\* own is spent.
LEMMA SpentAfterPass ==
  ASSUME Typed, PassedOnce, OneStampPerNonce,
         NEW r \in Requests, pc[r] = "nonce", ~Known(env[r].nonce),
         nonces' = Remembered(env[r].nonce), now' = now
  PROVE  /\ \A e \in Traffic : Spent(e) => e.nonce # env[r].nonce /\ Spent(e)'
         /\ \A e \in Traffic : r \notin early /\ e.nonce = env[r].nonce => Spent(e)'
  <1>0. now \in Nat /\ nonces \in [Nonces -> Nat]
    BY DEF Typed, TypeOK
  <1>r. env[r] \in Traffic /\ env[r].nonce \in Nonces /\ env[r].ts \in Nat
    BY TrafficFields DEF Typed, Carries
  <1>1. ASSUME NEW e \in Traffic, Spent(e) PROVE e.nonce # env[r].nonce /\ Spent(e)'
    <2>1. e.nonce # env[r].nonce
      BY <1>1, KnownIfSpent
    <2>2. e.nonce \in Nonces
      BY TrafficFields
    <2>3. nonces'[e.nonce] = Purged[e.nonce]
      BY <2>1, <2>2, PurgedTyped DEF Remembered, Typed
    <2>4. Purged[e.nonce] = nonces[e.nonce] \/ nonces[e.nonce] < now
      BY <2>2 DEF Purged
    <2>. QED
      BY <1>0, <1>1, <2>1, <2>3, <2>4, SpentStays
  <1>2. ASSUME NEW e \in Traffic, r \notin early, e.nonce = env[r].nonce PROVE Spent(e)'
    <2>1. nonces'[env[r].nonce] = now + NonceTTL
      BY <1>r, PurgedTyped DEF Remembered, Typed
    <2>2. env[r].ts <= now /\ e.ts = env[r].ts
      BY <1>r, <1>2 DEF PassedOnce, OneStampPerNonce
    <2>. QED
      BY <1>0, <1>r, <1>2, <2>1, <2>2, ParameterAssumption, WindowAssumption DEF Spent
  <1>. QED
    BY <1>1, <1>2

\* A step in which no ask is registered and no reply is delivered.
LEMMA QuietOnce ==
  ASSUME Typed, PassedOnce, Paired, AnsweredOnce, early \subseteq early',
         \A e \in Traffic : Spent(e) => Spent(e)',
         \A c \in Corrs : pendingAsks'[c] \in {pendingAsks[c], None},
         \A q \in Requests : pc[q] # "idle" => env'[q] = env[q],
         \A q \in Requests : fut'[q] = "pending" => fut[q] = "pending",
         \A q \in Requests :
           status'[q] = "ok" /\ env'[q].endpoint = "reply" => status[q] = "ok" /\ env'[q] = env[q]
  PROVE  AnsweredOnce'
  <1>1. \A c : Answered(c)' => Answered(c)
    BY DEF Answered
  <1>e. \A c : EarlyAsk(c) => EarlyAsk(c)'
    BY EarlyStays DEF Typed, TypeOK
  <1>2. OneReplyPerAsk'
    BY <1>e DEF AnsweredOnce, OneReplyPerAsk
  <1>3. ASSUME NEW c \in Corrs PROVE Once(c)'
    <2>. SUFFICES ASSUME ~EarlyAsk(c) PROVE Settled(c)'
      BY <1>e DEF Once
    <2>1. Settled(c)
      BY DEF AnsweredOnce, Once
    <2>2. ASSUME pendingAsks'[c] # None
          PROVE  /\ pendingAsks'[c] = pendingAsks[c] /\ pendingAsks[c] # None
                 /\ pendingAsks[c] \in Requests
                 /\ env'[pendingAsks[c]] = env[pendingAsks[c]] /\ env[pendingAsks[c]] \in Traffic
      <3>1. pendingAsks'[c] = pendingAsks[c] /\ pendingAsks[c] # None
        BY <2>2
      <3>2. pendingAsks[c] \in Requests /\ pc[pendingAsks[c]] # "idle"
        BY <3>1 DEF Typed, TypeOK, Paired, Names
      <3>. QED
        BY <3>1, <3>2 DEF Typed, Carries
    <2>3. pendingAsks'[c] # None => Spent(env[pendingAsks[c]])'
      <3>1. SUFFICES ASSUME pendingAsks'[c] # None PROVE Spent(env[pendingAsks[c]])'
        OBVIOUS
      <3>2. PICK e \in Traffic : e = env[pendingAsks[c]]
        BY <2>2, <3>1
      <3>3. e = (env[pendingAsks[c]])'
        BY <2>2, <3>1, <3>2
      <3>4. Spent(e)'
        BY <2>1, <2>2, <3>1, <3>2 DEF Settled
      <3>. QED
        BY <3>3, <3>4 DEF Spent
    <2>4. Answered(c)' /\ pendingAsks'[c] # None => fut'[pendingAsks'[c]] # "pending"
      BY <1>1, <2>1, <2>2 DEF Settled
    <2>5. Answered(c)' => \A e \in Traffic : e.endpoint = "ask" /\ e.corr = c => Spent(e)'
      BY <1>1, <2>1 DEF Settled
    <2>. QED
      BY <2>3, <2>4, <2>5 DEF Settled
  <1>. QED
    BY <1>2, <1>3 DEF AnsweredOnce

LEMMA RegisterOnce ==
  ASSUME Typed, PassedOnce, AllTruthful, Paired, AnsweredOnce,
         OneStampPerNonce,
         NEW r \in Requests, AskRegister(r)
  PROVE  AnsweredOnce'
  <1>0. /\ fut \in [Requests -> {"none", "pending", "replied", "cancelled"}]
        /\ pendingAsks \in [Corrs -> Requests \cup {None}]
    BY DEF Typed, TypeOK
  <1>1. /\ pc[r] = "nonce" /\ env[r].endpoint = "ask" /\ env' = env /\ status' = status
        /\ pendingAsks' = [pendingAsks EXCEPT ![env[r].corr] = r]
        /\ fut' = [fut EXCEPT ![r] = "pending"] /\ now' = now /\ early' = early
        /\ ~Known(env[r].nonce) /\ nonces' = Remembered(env[r].nonce)
    BY DEF AskRegister, PassNonce, AwaitStore, envVars
  <1>2. env[r] \in Traffic /\ env[r].corr \in Corrs
    BY <1>1 DEF Typed, Carries, InFlight
  <1>3. /\ \A e \in Traffic : Spent(e) => e.nonce # env[r].nonce /\ Spent(e)'
        /\ \A e \in Traffic : r \notin early /\ e.nonce = env[r].nonce => Spent(e)'
    BY <1>1, SpentAfterPass
  <1>e. \A c : EarlyAsk(c)' <=> EarlyAsk(c)
    BY <1>1 DEF EarlyAsk
  <1>4. Answered(env[r].corr) => EarlyAsk(env[r].corr)
    BY <1>1, <1>2, <1>3 DEF AnsweredOnce, Once, Settled
  <1>a. r \in early => EarlyAsk(env[r].corr)
    BY <1>1 DEF EarlyAsk
  <1>5. \A c : Answered(c)' <=> Answered(c)
    BY <1>1 DEF Answered
  <1>6. ASSUME NEW c \in Corrs PROVE Once(c)'
    <2>. SUFFICES ASSUME ~EarlyAsk(c) PROVE Settled(c)'
      BY <1>e DEF Once
    <2>0. Settled(c)
      BY DEF AnsweredOnce, Once
    <2>1. CASE c = env[r].corr
      <3>1. pendingAsks'[c] = r
        BY <1>0, <1>1, <2>1
      <3>2. Spent(env[r])'
        <4>1. PICK e \in Traffic : e = env[r]
          BY <1>2
        <4>2. Spent(e)'
          BY <1>3, <1>a, <2>1, <4>1
        <4>. QED
          BY <1>1, <4>1, <4>2 DEF Spent
      <3>. QED
        BY <1>4, <1>5, <2>1, <3>1, <3>2 DEF Settled
    <2>2. CASE c # env[r].corr
      <3>1. pendingAsks'[c] = pendingAsks[c]
        BY <1>0, <1>1, <2>2
      <3>2. pendingAsks[c] # None =>
              /\ pendingAsks[c] \in Requests /\ env[pendingAsks[c]] \in Traffic
              /\ env[pendingAsks[c]].corr = c
        BY <1>0 DEF Typed, Carries, Paired, Names
      <3>3. pendingAsks[c] # None => Spent(env[pendingAsks[c]])'
        <4>1. SUFFICES ASSUME pendingAsks[c] # None PROVE Spent(env[pendingAsks[c]])'
          OBVIOUS
        <4>2. PICK e \in Traffic : e = env[pendingAsks[c]]
          BY <3>2, <4>1
        <4>3. Spent(e)'
          BY <1>3, <2>0, <4>1, <4>2 DEF Settled
        <4>. QED
          BY <1>1, <3>1, <4>2, <4>3 DEF Spent
      <3>4. pendingAsks[c] # None => fut'[pendingAsks[c]] = fut[pendingAsks[c]]
        BY <1>0, <1>1, <2>2, <3>2
      <3>5. Answered(c)' => \A e \in Traffic : e.endpoint = "ask" /\ e.corr = c => Spent(e)'
        BY <1>3, <1>5, <2>0 DEF Settled
      <3>6. Answered(c)' /\ pendingAsks'[c] # None => fut'[pendingAsks'[c]] # "pending"
        BY <1>5, <2>0, <3>1, <3>4 DEF Settled
      <3>. QED
        BY <3>1, <3>3, <3>5, <3>6 DEF Settled
    <2>. QED
      BY <2>1, <2>2
  <1>7. OneReplyPerAsk'
    BY <1>1, <1>e DEF AnsweredOnce, OneReplyPerAsk
  <1>. QED
    BY <1>6, <1>7 DEF AnsweredOnce

LEMMA ResolveOnce ==
  ASSUME Typed, PassedOnce, AllTruthful, Paired, AnsweredOnce,
         OneStampPerNonce, OneAskPerCorr,
         NEW r \in Requests, ReplyResolve(r)
  PROVE  AnsweredOnce'
  <1>0. /\ fut \in [Requests -> {"none", "pending", "replied", "cancelled"}]
        /\ pendingAsks \in [Corrs -> Requests \cup {None}]
        /\ status \in [Requests -> Statuses]
    BY DEF Typed, TypeOK
  <1>1. /\ pc[r] = "nonce" /\ env[r].endpoint = "reply" /\ env' = env
        /\ Asker(r) # None /\ fut[Asker(r)] = "pending"
        /\ fut' = [fut EXCEPT ![Asker(r)] = "replied"]
        /\ status' = [status EXCEPT ![r] = "ok"]
        /\ pendingAsks' = pendingAsks /\ now' = now /\ early' = early
        /\ ~Known(env[r].nonce) /\ nonces' = Remembered(env[r].nonce)
    BY DEF ReplyResolve, PassNonce, Answer, envVars
  <1>2. PICK c \in Corrs : c = env[r].corr
    BY <1>1 DEF Typed, Carries, InFlight
  <1>3. PICK q \in Requests : q = pendingAsks[c] /\ q = Asker(r)
    BY <1>0, <1>1, <1>2 DEF Asker
  <1>4. /\ q # None /\ env[q].endpoint = "ask" /\ env[q].corr = c /\ env[q] \in Traffic
        /\ fut[q] = "pending" /\ (EarlyAsk(c) \/ (Spent(env[q]) /\ ~Answered(c)))
    <2>1. q # None /\ fut[q] = "pending"
      BY <1>1, <1>3
    <2>2. pc[q] # "idle" /\ env[q].endpoint = "ask" /\ env[q].corr = c
      BY <1>3, <2>1 DEF Paired, Names
    <2>. QED
      BY <1>3, <2>1, <2>2 DEF AnsweredOnce, Once, Settled, Typed, Carries
  <1>5. \A e \in Traffic : Spent(e) => Spent(e)'
    BY <1>1, SpentAfterPass
  <1>e. \A d : EarlyAsk(d)' <=> EarlyAsk(d)
    BY <1>1 DEF EarlyAsk
  <1>6. ~EarlyAsk(c) => \A e \in Traffic : e.endpoint = "ask" /\ e.corr = c => Spent(e)'
    <2>. SUFFICES ASSUME ~EarlyAsk(c), NEW e \in Traffic, e.endpoint = "ask", e.corr = c PROVE Spent(e)'
      OBVIOUS
    <2>1. e.nonce = env[q].nonce /\ e.ts = env[q].ts
      BY <1>4 DEF OneAskPerCorr, OneStampPerNonce
    <2>2. Spent(e)
      BY <1>4, <2>1 DEF Spent
    <2>. QED
      BY <1>5, <2>2
  <1>7. \A d : d # c => (Answered(d)' <=> Answered(d))
    BY <1>0, <1>1, <1>2 DEF Answered
  <1>8. ASSUME NEW d \in Corrs PROVE Once(d)'
    <2>. SUFFICES ASSUME ~EarlyAsk(d) PROVE Settled(d)'
      BY <1>e DEF Once
    <2>0. Settled(d)
      BY DEF AnsweredOnce, Once
    <2>1. pendingAsks[d] # None => pendingAsks[d] \in Requests /\ env[pendingAsks[d]] \in Traffic
      BY <1>0 DEF Typed, Carries, Paired, Names
    <2>2. pendingAsks[d] # None => Spent(env[pendingAsks[d]])'
      <3>1. SUFFICES ASSUME pendingAsks[d] # None PROVE Spent(env[pendingAsks[d]])'
        OBVIOUS
      <3>2. PICK e \in Traffic : e = env[pendingAsks[d]]
        BY <2>1, <3>1
      <3>3. Spent(e)'
        BY <1>5, <2>0, <3>1, <3>2 DEF Settled
      <3>. QED
        BY <1>1, <3>2, <3>3 DEF Spent
    <2>3. Answered(d)' => \A e \in Traffic : e.endpoint = "ask" /\ e.corr = d => Spent(e)'
      BY <1>5, <1>6, <1>7, <2>0 DEF Settled
    <2>4. fut'[q] = "replied" /\ \A p \in Requests \ {q} : fut'[p] = fut[p]
      BY <1>0, <1>1, <1>3
    <2>5. Answered(d)' /\ pendingAsks[d] # None => fut'[pendingAsks[d]] # "pending"
      BY <1>3, <1>7, <2>0, <2>1, <2>4 DEF Settled
    <2>. QED
      BY <1>1, <2>2, <2>3, <2>5 DEF Settled
  <1>9. OneReplyPerAsk'
    BY <1>0, <1>1, <1>2, <1>4, <1>e DEF AnsweredOnce, OneReplyPerAsk, Answered
  <1>. QED
    BY <1>8, <1>9 DEF AnsweredOnce

LEMMA HandlerOnce ==
  ASSUME Typed, PassedOnce, AllTruthful, Paired, AnsweredOnce,
         OneStampPerNonce, OneAskPerCorr,
         NEW r \in Requests, HandlerStep(r)
  PROVE  AnsweredOnce'
  <1>0. /\ pc \in [Requests -> Control] /\ status \in [Requests -> Statuses]
        /\ fut \in [Requests -> {"none", "pending", "replied", "cancelled"}]
        /\ pendingAsks \in [Corrs -> Requests \cup {None}]
        /\ now \in Nat
    BY DEF Typed, TypeOK
  <1>e. pc[r] \in {"push", "expire", "wait"} => env[r].endpoint # "reply"
    BY DEF AllTruthful, Truthful
  <1>. SUFFICES ASSUME ~AskRegister(r), ~ReplyResolve(r) PROVE AnsweredOnce'
    BY RegisterOnce, ResolveOnce
  <1>1. env' = env /\ now' = now /\ early' = early
    BY DEF HandlerStep, RejectReplay, SendValidated, AskBackPressure, ReplyUnknown, ReplyLate,
           PassNonce, PushRefused, PushMemory, PushLlen, PushRpush, PushExpire, AskTimeout,
           AskResume, envVars, drainVars, reqVars
  <1>2. \A c \in Corrs : pendingAsks'[c] \in {pendingAsks[c], None}
    BY <1>0
    DEF HandlerStep, RejectReplay, SendValidated, AskBackPressure, ReplyUnknown, ReplyLate,
        PushRefused, PushMemory, Pushed, PushLlen, PushRpush, PushExpire,
        AskTimeout, AskResume, PopPending, askVars
  <1>3. \A q \in Requests : fut'[q] = "pending" => fut[q] = "pending"
    BY <1>0
    DEF HandlerStep, RejectReplay, SendValidated, AskBackPressure, ReplyUnknown, ReplyLate,
        PushRefused, PushMemory, PushLlen, PushRpush, PushExpire,
        AskTimeout, AskResume, askVars
  <1>4. \A q \in Requests : status'[q] = "ok" /\ env[q].endpoint = "reply" => status[q] = "ok"
    BY <1>0, <1>e
    DEF HandlerStep, RejectReplay, SendValidated, AskBackPressure, ReplyUnknown, ReplyLate,
        PushRefused, PushMemory, Pushed, PushLlen, PushRpush, PushExpire,
        AskTimeout, AskResume, Answer, AwaitStore, AwaitReply, reqVars
  <1>5. \A e \in Traffic : Spent(e) => Spent(e)'
    <2>1. CASE \E endpoint \in Endpoints : PassNonce(r, endpoint)
      BY <1>1, <2>1, SpentAfterPass DEF PassNonce
    <2>2. CASE \A endpoint \in Endpoints : ~PassNonce(r, endpoint)
      <3>1. nonces' = Purged \/ nonces' = nonces
        BY <2>2 DEF HandlerStep, RejectReplay, SendValidated, AskBackPressure, ReplyUnknown,
           ReplyLate, PushRefused, PushMemory, PushLlen, PushRpush, PushExpire, AskTimeout,
           AskResume, storeVars, Endpoints
      <3>2. \A n \in Nonces : nonces'[n] = nonces[n] \/ nonces[n] < now
        BY <3>1, PurgedForgetsExpired
      <3>3. \A e \in Traffic : e.nonce \in Nonces
        BY TrafficFields
      <3>. QED
        BY <1>0, <1>1, <3>2, <3>3, SpentStays
    <2>. QED
      BY <2>1, <2>2
  <1>. QED
    BY <1>1, <1>2, <1>3, <1>4, <1>5, QuietOnce

LEMMA NextOnce ==
  ASSUME Typed, PassedOnce, AllTruthful, Paired, AnsweredOnce, [Next]_vars,
         OneStampPerNonce, NoncesSurvive, OneAskPerCorr
  PROVE  AnsweredOnce'
  <1>0. /\ pc \in [Requests -> Control] /\ status \in [Requests -> Statuses]
        /\ env \in [Requests -> Traffic \cup {None}]
        /\ pendingAsks \in [Corrs -> Requests \cup {None}]
        /\ now \in Nat /\ restarts \in Nat
    BY DEF Typed, TypeOK
  <1>s. \A q \in Requests : status[q] = "ok" => pc[q] = "done"
    BY DEF AllTruthful, Truthful
  <1>q. ASSUME nonces' = nonces, now' \in {now, now + 1}
        PROVE  \A e \in Traffic : Spent(e) => Spent(e)'
    BY <1>0, <1>q, SpentStays
  <1>1. ASSUME NEW r \in Requests, ArriveAny(r)
        PROVE  AnsweredOnce'
    <2>1. /\ pc[r] = "idle" /\ UNCHANGED <<pendingAsks, fut, nonces, now>> /\ early \subseteq early'
          /\ \E e \in Traffic : env' = [env EXCEPT ![r] = e]
          /\ status' = status \/ status' = [status EXCEPT ![r] = "rejected"]
      BY <1>1 DEF ArriveAny, Arrive, ArriveMalformed, Arrival, Answer, AwaitStore,
         askVars, storeVars, envVars, drainVars
    <2>2. \A q \in Requests : q # r => env'[q] = env[q] /\ status'[q] = status[q]
      BY <1>0, <2>1
    <2>3. status'[r] # "ok"
      BY <1>0, <1>s, <2>1
    <2>. QED
      BY <1>0, <1>q, <2>1, <2>2, <2>3, QuietOnce
  <1>2. ASSUME NEW r \in Requests, HandlerStep(r)
        PROVE  AnsweredOnce'
    BY <1>2, HandlerOnce
  <1>3. ASSUME NEW r \in Requests, StoreError(r)
        PROVE  AnsweredOnce'
    <2>1. /\ status' = [status EXCEPT ![r] = "error"]
          /\ UNCHANGED <<env, pendingAsks, fut, now, early>>
      BY <1>3 DEF StoreError, Answer, askVars, envVars, drainVars
    <2>2. \/ nonces' = nonces
          \/ pc[r] = "nonce" /\ ~Known(env[r].nonce) /\ nonces' = Remembered(env[r].nonce)
      BY <1>3 DEF StoreError
    <2>3. \A e \in Traffic : Spent(e) => Spent(e)'
      BY <1>q, <2>1, <2>2, SpentAfterPass
    <2>. QED
      BY <1>0, <2>1, <2>3, QuietOnce
  <1>4. CASE Restart
    <2>1. Backend = "redis"
      BY <1>0, <1>4, ParameterAssumption DEF Restart, NoncesSurvive
    <2>2. /\ UNCHANGED <<env, nonces, now, early>> /\ pendingAsks' = [c \in Corrs |-> None]
          /\ fut' = [r \in Requests |-> "none"]
          /\ \A r \in Requests :
               status'[r] = IF InFlight(r) THEN "dropped" ELSE status[r]
      BY <1>4, <2>1 DEF Restart
    <2>. QED
      BY <1>q, <2>2, QuietOnce
  <1>5. CASE Tick \/ UNCHANGED vars \/ \E d \in Readers : DrainStep(d)
    <2>1. /\ UNCHANGED <<pendingAsks, fut, pc, env, status, nonces, early>>
          /\ now' \in {now, now + 1}
      BY <1>5, DrainAlone DEF Typed, Tick, vars, askVars, reqVars, storeVars, envVars, drainVars
    <2>. QED
      BY <1>q, <2>1, QuietOnce
  <1>. QED
    BY <1>1, <1>2, <1>3, <1>4, <1>5 DEF Next

\* relay/main.py, post_ask: an ask is answered 200 only with a reply that was
\* itself answered 200, whatever fails and whenever the relay restarts.
THEOREM AnswerHasReplyHolds == Spec => []AnswerHasReply
  <1>1. Paired => AnswerHasReply
    BY DEF Paired, Awaits, AnswerHasReply, Answered
  <1>. QED
    BY InitTruthful, InitPaired, TypedAlways, NextTruthful, NextPaired, <1>1, PTL DEF Spec

\* relay/main.py, post_reply: asks and the replies that end them are paired one
\* to one, but for asks that were accepted before their own timestamp.  The
\* conditions are those of AtMostOnceHolds, and that asks carry fresh
\* correlation ids.
THEOREM RepliesPairUpHolds ==
  ASSUME OneStampPerNonce, NoncesSurvive, OneAskPerCorr
  PROVE  Spec => []RepliesPairUp
  <1>1. Init => AnsweredOnce
    BY DEF Init, AnsweredOnce, Once, Settled, Answered, OneReplyPerAsk
  <1>2. Typed /\ PassedOnce /\ [Next]_vars => PassedOnce'
    BY NextPassedOnce
  <1>3. Typed /\ PassedOnce /\ AllTruthful /\ Paired /\ AnsweredOnce /\ [Next]_vars => AnsweredOnce'
    BY NextOnce
  <1>4. Paired /\ AnsweredOnce => RepliesPairUp
    BY DEF Paired, Awaits, AnswerHasReply, Answered, AnsweredOnce, RepliesPairUp
  <1>. QED
    BY InitPassedOnce, InitTruthful, InitPaired, TypedAlways, NextTruthful, NextPaired,
       <1>1, <1>2, <1>3, <1>4, PTL DEF Spec

-----------------------------------------------------------------------------
(***************************************************************************)
(* The relay implements the mailbox.  Sequences of requests are mapped     *)
(* element by element to sequences of nonces.                              *)
(***************************************************************************)
Image(f, s) == [i \in DOMAIN s |-> f[s[i]]]
Values(f) == {f[r] : r \in Requests}

LEMMA ImageIsSeq ==
  ASSUME NEW f, NEW s \in Seq(Requests)
  PROVE  /\ Image(f, s) \in Seq(Values(f))
         /\ Len(Image(f, s)) = Len(s)
         /\ \A i \in 1..Len(s) : Image(f, s)[i] = f[s[i]]
  <1>1. Len(s) \in Nat /\ DOMAIN s = 1..Len(s)
    BY LenProperties
  <1>2. \A i \in 1..Len(s) : s[i] \in Requests
    BY ElementOfSeq
  <1>3. Image(f, s) = [i \in 1..Len(s) |-> f[s[i]]]
    BY <1>1 DEF Image
  <1>4. \A i \in 1..Len(s) : f[s[i]] \in Values(f)
    BY <1>2 DEF Values
  <1>5. Image(f, s) \in Seq(Values(f)) /\ Len(Image(f, s)) = Len(s)
    BY <1>1, <1>3, <1>4
  <1>. QED
    BY <1>3, <1>5

LEMMA ImageSame ==
  ASSUME NEW f, NEW g, NEW s, \A x \in Range(s) : f[x] = g[x]
  PROVE  Image(f, s) = Image(g, s)
  BY DEF Image, Range

LEMMA ImageOfAppend ==
  ASSUME NEW f, NEW s \in Seq(Requests), NEW x \in Requests
  PROVE  Image(f, Append(s, x)) = Append(Image(f, s), f[x])
  <1>1. PICK n \in Nat : n = Len(s)
    BY LenProperties
  <1>2. PICK t : t = Append(s, x)
    OBVIOUS
  <1>3. /\ t \in Seq(Requests) /\ Len(t) = n + 1
        /\ \A i \in 1..n : t[i] = s[i]
        /\ t[n + 1] = x
    BY <1>1, <1>2, AppendProperties
  <1>4. PICK u : u = Image(f, s)
    OBVIOUS
  <1>5. u \in Seq(Values(f)) /\ Len(u) = n /\ \A i \in 1..n : u[i] = f[s[i]]
    BY <1>1, <1>4, ImageIsSeq
  <1>6. PICK w : w = Append(u, f[x])
    OBVIOUS
  <1>7. /\ w \in Seq(Values(f)) /\ Len(w) = n + 1
        /\ \A i \in 1..n : w[i] = u[i]
        /\ w[n + 1] = f[x]
    <2>1. f[x] \in Values(f)
      BY DEF Values
    <2>. QED
      BY <1>5, <1>6, <2>1, AppendProperties
  <1>8. PICK v : v = Image(f, t)
    OBVIOUS
  <1>9. v \in Seq(Values(f)) /\ Len(v) = n + 1 /\ \A i \in 1..(n + 1) : v[i] = f[t[i]]
    <2>1. t \in Seq(Requests)
      BY <1>3
    <2>2. v \in Seq(Values(f)) /\ Len(v) = Len(t) /\ \A i \in 1..Len(t) : v[i] = f[t[i]]
      BY <1>8, <2>1, ImageIsSeq
    <2>. QED
      BY <1>3, <2>2
  <1>10. \A i \in 1..(n + 1) : v[i] = w[i]
    <2>. SUFFICES ASSUME NEW i \in 1..(n + 1) PROVE v[i] = w[i]
      OBVIOUS
    <2>1. CASE i = n + 1
      BY <1>3, <1>7, <1>9, <2>1
    <2>2. CASE i \in 1..n
      BY <1>3, <1>5, <1>7, <1>9, <2>2
    <2>. QED
      BY <2>1, <2>2
  <1>11. v = w
    BY <1>7, <1>9, <1>10, SeqEqual
  <1>. QED
    BY <1>2, <1>4, <1>6, <1>8, <1>11

LEMMA ImageOfSubSeq ==
  ASSUME NEW f, NEW s \in Seq(Requests), NEW m \in Nat \ {0}, NEW n \in 0..Len(s)
  PROVE  Image(f, SubSeq(s, m, n)) = SubSeq(Image(f, s), m, n)
  <1>1. PICK k \in Nat : k = Len(s)
    BY LenProperties
  <1>2. n \in Nat /\ n <= k /\ m \in Int /\ n \in Int
    BY <1>1
  <1>3. \A i \in m..n : i \in 1..k
    BY <1>1, <1>2
  <1>4. \A i \in m..n : s[i] \in Requests
    BY <1>1, <1>3, ElementOfSeq
  <1>5. PICK t : t = SubSeq(s, m, n)
    OBVIOUS
  <1>6. /\ t \in Seq(Requests) /\ Len(t) = IF m <= n THEN n - m + 1 ELSE 0
        /\ \A i \in 1..(n - m + 1) : t[i] = s[m + i - 1]
    BY <1>2, <1>4, <1>5, SubSeqProperties
  <1>7. PICK u : u = Image(f, s)
    OBVIOUS
  <1>8. u \in Seq(Values(f)) /\ Len(u) = k /\ \A i \in 1..k : u[i] = f[s[i]]
    BY <1>1, <1>7, ImageIsSeq
  <1>9. \A i \in m..n : u[i] \in Values(f)
    BY <1>3, <1>8, ElementOfSeq
  <1>10. PICK w : w = SubSeq(u, m, n)
    OBVIOUS
  <1>11. /\ w \in Seq(Values(f)) /\ Len(w) = IF m <= n THEN n - m + 1 ELSE 0
         /\ \A i \in 1..(n - m + 1) : w[i] = u[m + i - 1]
    BY <1>2, <1>9, <1>10, SubSeqProperties
  <1>12. PICK v : v = Image(f, t)
    OBVIOUS
  <1>13. v \in Seq(Values(f)) /\ Len(v) = Len(t) /\ \A i \in 1..Len(t) : v[i] = f[t[i]]
    <2>1. t \in Seq(Requests)
      BY <1>6
    <2>. QED
      BY <1>12, <2>1, ImageIsSeq
  <1>14. \A i \in 1..Len(v) : v[i] = w[i]
    <2>. SUFFICES ASSUME NEW i \in 1..Len(t) PROVE v[i] = w[i]
      BY <1>13
    <2>1. m <= n /\ i \in 1..(n - m + 1)
      BY <1>2, <1>6
    <2>2. PICK j \in 1..k : j = m + i - 1
      BY <1>2, <2>1
    <2>3. t[i] = s[j] /\ w[i] = u[j]
      BY <1>6, <1>11, <2>1, <2>2
    <2>. QED
      BY <1>8, <1>13, <2>3
  <1>15. Len(v) = Len(w)
    BY <1>6, <1>11, <1>13
  <1>16. v = w
    BY <1>11, <1>13, <1>14, <1>15, SeqEqual
  <1>. QED
    BY <1>5, <1>7, <1>10, <1>12, <1>16

LEMMA ImageOfConcat ==
  ASSUME NEW f, NEW s \in Seq(Requests), NEW t \in Seq(Requests)
  PROVE  Image(f, s \o t) = Image(f, s) \o Image(f, t)
  <1>1. PICK m \in Nat : m = Len(s)
    BY LenProperties
  <1>2. PICK n \in Nat : n = Len(t)
    BY LenProperties
  <1>3. PICK c : c = s \o t
    OBVIOUS
  <1>4. /\ c \in Seq(Requests) /\ Len(c) = m + n
        /\ \A i \in 1..(m + n) : c[i] = IF i <= m THEN s[i] ELSE t[i - m]
    BY <1>1, <1>2, <1>3, ConcatProperties
  <1>5. PICK a : a = Image(f, s)
    OBVIOUS
  <1>6. PICK b : b = Image(f, t)
    OBVIOUS
  <1>7. /\ a \in Seq(Values(f)) /\ Len(a) = m /\ \A i \in 1..m : a[i] = f[s[i]]
        /\ b \in Seq(Values(f)) /\ Len(b) = n /\ \A i \in 1..n : b[i] = f[t[i]]
    BY <1>1, <1>2, <1>5, <1>6, ImageIsSeq
  <1>8. PICK d : d = a \o b
    OBVIOUS
  <1>9. /\ d \in Seq(Values(f)) /\ Len(d) = m + n
        /\ \A i \in 1..(m + n) : d[i] = IF i <= m THEN a[i] ELSE b[i - m]
    <2>1. /\ d \in Seq(Values(f)) /\ Len(d) = Len(a) + Len(b)
          /\ \A i \in 1..(Len(a) + Len(b)) : d[i] = IF i <= Len(a) THEN a[i] ELSE b[i - Len(a)]
      <3>1. a \in Seq(Values(f)) /\ b \in Seq(Values(f))
        BY <1>7
      <3>. QED
        BY <1>8, <3>1, ConcatProperties
    <2>2. Len(a) = m /\ Len(b) = n
      BY <1>7
    <2>. QED
      BY <2>1, <2>2
  <1>10. PICK v : v = Image(f, c)
    OBVIOUS
  <1>11. v \in Seq(Values(f)) /\ Len(v) = m + n /\ \A i \in 1..(m + n) : v[i] = f[c[i]]
    <2>1. c \in Seq(Requests)
      BY <1>4
    <2>2. v \in Seq(Values(f)) /\ Len(v) = Len(c) /\ \A i \in 1..Len(c) : v[i] = f[c[i]]
      BY <1>10, <2>1, ImageIsSeq
    <2>. QED
      BY <1>4, <2>2
  <1>12. \A i \in 1..(m + n) : v[i] = d[i]
    <2>. SUFFICES ASSUME NEW i \in 1..(m + n) PROVE v[i] = d[i]
      OBVIOUS
    <2>1. CASE i \in 1..m
      <3>1. i <= m /\ c[i] = s[i] /\ d[i] = a[i]
        BY <1>4, <1>9, <2>1
      <3>2. v[i] = f[c[i]] /\ a[i] = f[s[i]]
        BY <1>7, <1>11, <2>1
      <3>. QED
        BY <3>1, <3>2
    <2>2. CASE i > m
      <3>1. i - m \in 1..n /\ ~(i <= m)
        BY <2>2
      <3>2. c[i] = t[i - m] /\ d[i] = b[i - m]
        BY <1>4, <1>9, <3>1
      <3>3. v[i] = f[c[i]] /\ b[i - m] = f[t[i - m]]
        BY <1>7, <1>11, <3>1
      <3>. QED
        BY <3>2, <3>3
    <2>. QED
      BY <2>1, <2>2
  <1>13. v = d
    BY <1>9, <1>11, <1>12, SeqEqual
  <1>. QED
    BY <1>3, <1>5, <1>6, <1>8, <1>10, <1>13

\* A reader that waits for no store call has nothing in hand.
IdleHands == \A d \in Readers : drain[d] = "idle" => hand[d] = <<>>

LEMMA NextIdleHands == Typed /\ IdleHands /\ [Next]_vars => IdleHands'
  <1>. SUFFICES ASSUME Typed, IdleHands, [Next]_vars PROVE IdleHands'
    OBVIOUS
  <1>0. hand \in [Readers -> Seq(Requests)] /\ drain \in [Readers -> DrainStages]
    BY DEF Typed, TypeOK
  <1>1. ASSUME NEW r \in Requests, ArriveAny(r) \/ HandlerStep(r) \/ StoreError(r)
        PROVE  IdleHands'
    <2>1. UNCHANGED <<hand, drain>>
      BY <1>1 DEF ArriveAny, Arrive, ArriveMalformed, StoreError, HandlerStep, RejectReplay,
         SendValidated, AskBackPressure, AskRegister, ReplyUnknown, ReplyLate, ReplyResolve,
         PassNonce, PushRefused, PushMemory, PushLlen, PushRpush, PushExpire, AskTimeout,
         AskResume, envVars, drainVars
    <2>. QED
      BY <2>1 DEF IdleHands
  <1>2. ASSUME NEW d \in Readers, DrainStep(d)
        PROVE  IdleHands'
    <2>1. CASE DrainMemory(d)
      BY <2>1 DEF DrainMemory, drainVars, IdleHands
    <2>2. CASE DrainPop(d) \/ DrainRaises(d) \/ DrainOne(d) \/ DrainEmpty(d)
      <3>1. /\ \A e \in Readers : e # d => drain'[e] = drain[e] /\ hand'[e] = hand[e]
            /\ drain'[d] \in {"loop", "answer"}
        BY <1>0, <2>2 DEF DrainPop, DrainRaises, DrainOne, DrainEmpty
      <3>. QED
        BY <3>1 DEF IdleHands
    <2>3. CASE DrainFails(d) \/ DrainAnswer(d)
      <3>1. /\ \A e \in Readers : e # d => drain'[e] = drain[e] /\ hand'[e] = hand[e]
            /\ hand'[d] = <<>>
        BY <1>0, <2>3 DEF DrainFails, DrainAnswer
      <3>. QED
        BY <3>1 DEF IdleHands
    <2>. QED
      BY <1>2, <2>1, <2>2, <2>3 DEF DrainStep
  <1>3. CASE Restart
    BY <1>3 DEF Restart, IdleHands
  <1>4. CASE Tick \/ UNCHANGED vars
    BY <1>4 DEF IdleHands, Tick, vars, envVars, drainVars
  <1>. QED
    BY <1>1, <1>2, <1>3, <1>4 DEF Next

NonceOf == [r \in Requests |-> env[r].nonce]
Queue == [a \in Agents |-> NoncesOf(inbox[a])]
Hands == [d \in Readers |-> NoncesOf(hand[d])]
Handed == [d \in Readers |-> NoncesOf(taken[d])]
Seen == {env[r].nonce : r \in Stored}
Early == {env[r].nonce : r \in early}

LEMMA NoncesAreImage ==
  ASSUME NEW s \in Seq(Requests)
  PROVE  NoncesOf(s) = Image(NonceOf, s)
  <1>1. DOMAIN s = 1..Len(s)
    BY LenProperties
  <1>2. \A i \in DOMAIN s : s[i] \in Requests
    BY <1>1, ElementOfSeq
  <1>. QED
    BY <1>2 DEF NoncesOf, Image, NonceOf

\* A request that is past its arrival keeps its envelope.
LEMMA EnvStays ==
  ASSUME Typed, PassedOnce, [Next]_vars
  PROVE  /\ Stored \subseteq Requests
         /\ \A r \in Stored \cup early : env'[r] = env[r]
  <1>1. Stored \subseteq Requests /\ early \subseteq Requests
    BY ElementOfSeq, LenProperties DEF Stored, Queued, InHands, Range, Typed, TypeOK
  <1>2. \A r \in Stored \cup early : pc[r] # "idle"
    BY <1>1 DEF PassedOnce, Passed
  <1>3. ASSUME NEW r \in Requests, ArriveAny(r)
        PROVE  pc[r] = "idle" /\ \A q \in Requests : q # r => env'[q] = env[q]
    BY <1>3 DEF ArriveAny, Arrive, ArriveMalformed, Arrival, Typed, TypeOK
  <1>4. ASSUME NEW r \in Requests, HandlerStep(r) \/ StoreError(r)
        PROVE  env' = env
    BY <1>4 DEF HandlerStep, RejectReplay, SendValidated, AskBackPressure, AskRegister,
       ReplyUnknown, ReplyLate, ReplyResolve, PassNonce, PushRefused, PushMemory, PushLlen,
       PushRpush, PushExpire, AskTimeout, AskResume, StoreError, reqVars
  <1>5. ASSUME (\E d \in Readers : DrainStep(d)) \/ Tick \/ Restart \/ UNCHANGED vars
        PROVE  env' = env
    BY <1>5, DrainAlone DEF Typed, Tick, Restart, vars, reqVars
  <1>. QED
    BY <1>1, <1>2, <1>3, <1>4, <1>5 DEF Next

\* The nonces of stored messages do not change.
LEMMA NoncesStay ==
  ASSUME Typed, PassedOnce, [Next]_vars, NEW s \in Seq(Requests), Range(s) \subseteq Stored
  PROVE  Image(NonceOf', s) = NoncesOf(s)
  <1>1. \A r \in Stored : (NonceOf')[r] = NonceOf[r]
    BY EnvStays DEF NonceOf
  <1>2. PICK f : f = NonceOf
    OBVIOUS
  <1>3. PICK g : g = NonceOf'
    OBVIOUS
  <1>4. \A r \in Stored : g[r] = f[r]
    BY <1>1, <1>2, <1>3
  <1>5. Image(g, s) = Image(f, s)
    BY <1>4, ImageSame
  <1>6. NoncesOf(s) = Image(f, s)
    BY <1>2, NoncesAreImage
  <1>. QED
    BY <1>3, <1>5, <1>6

\* Before and after a step the mailbox is the image of the relay's queues under
\* one function.
LEMMA MailImages ==
  ASSUME Typed, Typed', PassedOnce, [Next]_vars
  PROVE  \E f :
           /\ \A r \in Requests : f[r] = env'[r].nonce
           /\ \A a \in Agents : Queue[a] = Image(f, inbox[a]) /\ (Queue')[a] = Image(f, inbox'[a])
           /\ \A d \in Readers : Hands[d] = Image(f, hand[d]) /\ (Hands')[d] = Image(f, hand'[d])
           /\ \A d \in Readers : Handed[d] = Image(f, taken[d]) /\ (Handed')[d] = Image(f, taken'[d])
  <1>1. PICK f : f = NonceOf'
    OBVIOUS
  <1>2. \A r \in Requests : f[r] = env'[r].nonce
    BY <1>1 DEF NonceOf
  <1>3. /\ \A a \in Agents : inbox[a] \in Seq(Requests) /\ Range(inbox[a]) \subseteq Stored
        /\ \A d \in Readers : hand[d] \in Seq(Requests) /\ Range(hand[d]) \subseteq Stored
        /\ \A d \in Readers : taken[d] \in Seq(Requests) /\ Range(taken[d]) \subseteq Stored
    BY DEF Typed, TypeOK, Stored, Queued, InHands
  <1>4. /\ \A a \in Agents : Queue[a] = Image(f, inbox[a])
        /\ \A d \in Readers : Hands[d] = Image(f, hand[d])
        /\ \A d \in Readers : Handed[d] = Image(f, taken[d])
    BY <1>1, <1>3, NoncesStay DEF Queue, Hands, Handed
  <1>5. ASSUME NEW s \in Seq(Requests)
        PROVE  [i \in DOMAIN s |-> env'[s[i]].nonce] = Image(f, s)
    <2>1. DOMAIN s = 1..Len(s)
      BY LenProperties
    <2>2. \A i \in DOMAIN s : s[i] \in Requests
      BY <2>1, ElementOfSeq
    <2>. QED
      BY <1>2, <2>2 DEF Image
  <1>6. /\ \A a \in Agents : inbox'[a] \in Seq(Requests)
        /\ \A d \in Readers : hand'[d] \in Seq(Requests) /\ taken'[d] \in Seq(Requests)
    BY DEF Typed, TypeOK
  <1>7. /\ \A a \in Agents : (Queue')[a] = [i \in DOMAIN inbox'[a] |-> env'[inbox'[a][i]].nonce]
        /\ \A d \in Readers : (Hands')[d] = [i \in DOMAIN hand'[d] |-> env'[hand'[d][i]].nonce]
        /\ \A d \in Readers : (Handed')[d] = [i \in DOMAIN taken'[d] |-> env'[taken'[d][i]].nonce]
    BY DEF Queue, Hands, Handed, NoncesOf
  <1>8. /\ \A a \in Agents : (Queue')[a] = Image(f, inbox'[a])
        /\ \A d \in Readers : (Hands')[d] = Image(f, hand'[d])
        /\ \A d \in Readers : (Handed')[d] = Image(f, taken'[d])
    BY <1>5, <1>6, <1>7
  <1>. QED
    BY <1>2, <1>4, <1>8, Zenon

\* The mailbox's variables are functions.
LEMMA MailShape ==
  /\ Queue = [a \in Agents |-> Queue[a]] /\ Queue' = [a \in Agents |-> (Queue')[a]]
  /\ Hands = [d \in Readers |-> Hands[d]] /\ Hands' = [d \in Readers |-> (Hands')[d]]
  /\ Handed = [d \in Readers |-> Handed[d]] /\ Handed' = [d \in Readers |-> (Handed')[d]]
  BY DEF Queue, Hands, Handed

\* A step that leaves the queues alone leaves the mailbox alone.
LEMMA MailSame ==
  ASSUME Typed, Typed', PassedOnce, [Next]_vars, UNCHANGED <<inbox, hand, taken>>
  PROVE  Queue' = Queue /\ Hands' = Hands /\ Handed' = Handed
  <1>1. /\ \A a \in Agents : (Queue')[a] = Queue[a]
        /\ \A d \in Readers : (Hands')[d] = Hands[d] /\ (Handed')[d] = Handed[d]
    BY MailImages
  <1>. QED
    BY <1>1, MailShape

LEMMA SeenSame ==
  ASSUME Typed, PassedOnce, [Next]_vars, Stored' = Stored
  PROVE  Seen' = Seen
  BY EnvStays DEF Seen

LEMMA EarlySame ==
  ASSUME Typed, PassedOnce, [Next]_vars, early' = early
  PROVE  Early' = Early
  BY EnvStays DEF Early

\* A push puts a nonce that was not put before, unless it may be put again.
LEMMA MailPut ==
  ASSUME Typed, Typed', PassedOnce, AllTruthful, [Next]_vars,
         NEW r \in Requests, pc[r] \in {"push", "rpush"},
         inbox' = Appended(r), UNCHANGED <<hand, taken, dropped, lost, env, early>>
  PROVE  \E a \in Agents, n \in Nonces :
           /\ n \in Seen => n \in Early
           /\ Seen' = Seen \cup {n}
           /\ Queue' = [Queue EXCEPT ![a] = Append(Queue[a], n)]
           /\ Hands' = Hands /\ Handed' = Handed /\ Early' = Early
  <1>0. env[r].to \in Agents /\ env[r].nonce \in Nonces
    BY TrafficFields DEF Typed, Carries
  <1>1. PICK a \in Agents : a = env[r].to
    BY <1>0
  <1>2. PICK n \in Nonces : n = env[r].nonce
    BY <1>0
  <1>3. Stored \subseteq Requests /\ r \notin Stored
    BY EnvStays DEF AllTruthful, Truthful
  <1>4. n \in Seen => n \in Early
    <2>. SUFFICES ASSUME NEW q \in Stored, env[q].nonce = n PROVE n \in Early
      BY DEF Seen
    <2>1. q \in Requests /\ q # r /\ (q \in early \/ r \in early)
      BY <1>2, <1>3 DEF PassedOnce, Passed
    <2>. QED
      BY <1>2, <2>1 DEF Early
  <1>5. Seen' = Seen \cup {n}
    <2>1. Stored' = Stored \cup {r}
      BY StoredAfterAppend
    <2>. QED
      BY <1>2, <2>1 DEF Seen
  <1>6. \A b \in Agents : inbox'[b] = IF b = a THEN Append(inbox[b], r) ELSE inbox[b]
    BY <1>1 DEF Appended, Typed, TypeOK
  <1>7. PICK f :
          /\ \A q \in Requests : f[q] = env'[q].nonce
          /\ \A b \in Agents : Queue[b] = Image(f, inbox[b]) /\ (Queue')[b] = Image(f, inbox'[b])
          /\ \A d \in Readers : Hands[d] = Image(f, hand[d]) /\ (Hands')[d] = Image(f, hand'[d])
          /\ \A d \in Readers : Handed[d] = Image(f, taken[d]) /\ (Handed')[d] = Image(f, taken'[d])
    BY MailImages
  <1>8. \A b \in Agents : (Queue')[b] = IF b = a THEN Append(Queue[b], n) ELSE Queue[b]
    <2>. SUFFICES ASSUME NEW b \in Agents
                  PROVE  (Queue')[b] = IF b = a THEN Append(Queue[b], n) ELSE Queue[b]
      OBVIOUS
    <2>1. (Queue')[b] = Image(f, inbox'[b]) /\ Queue[b] = Image(f, inbox[b])
      BY <1>7
    <2>2. inbox[b] \in Seq(Requests)
      BY DEF Typed, TypeOK
    <2>3. Image(f, Append(inbox[b], r)) = Append(Image(f, inbox[b]), f[r])
      BY <2>2, ImageOfAppend
    <2>4. f[r] = n
      BY <1>2, <1>7
    <2>. QED
      BY <1>6, <2>1, <2>3, <2>4
  <1>9. Queue' = [Queue EXCEPT ![a] = Append(Queue[a], n)]
    BY <1>8, MailShape
  <1>10. Hands' = Hands /\ Handed' = Handed
    BY <1>7, MailShape
  <1>11. Early' = Early
    BY EarlySame
  <1>. QED
    BY <1>4, <1>5, <1>9, <1>10, <1>11

LEMMA WholeSeq ==
  ASSUME NEW s \in Seq(Requests)
  PROVE  /\ SubSeq(s, 1, Len(s)) = s /\ SubSeq(s, 1, 0) = <<>>
         /\ s \o <<>> = s /\ <<>> \o s = s
  <1>1. SubSeq(s, 1, Len(s)) = s
    BY SubSeqFull
  <1>2. SubSeq(s, 1, 0) = <<>>
    BY SubSeqEmpty
  <1>. QED
    BY <1>1, <1>2, ConcatEmptySeq

\* A step of a drain moves n messages from the front of the list: into the
\* hand, with the hand to the reader, or with the hand to nowhere.
LEMMA DrainShapes ==
  ASSUME Typed, IdleHands, NEW d \in Readers, DrainStep(d),
         NEW a \in Agents, a = Owner[d]
  PROVE  \E n \in 0..Len(inbox[a]), p \in Seq(Requests) :
           /\ p = SubSeq(inbox[a], 1, n)
           /\ inbox' = [inbox EXCEPT ![a] = SubSeq(inbox[a], n + 1, Len(inbox[a]))]
           /\ \/ hand' = [hand EXCEPT ![d] = hand[d] \o p] /\ taken' = taken
              \/ /\ taken' = [taken EXCEPT ![d] = taken[d] \o (hand[d] \o p)]
                 /\ hand' = [hand EXCEPT ![d] = <<>>]
              \/ StoreFails /\ hand' = [hand EXCEPT ![d] = <<>>] /\ taken' = taken
  <1>. DEFINE Moved(n, p) ==
         /\ p = SubSeq(inbox[a], 1, n)
         /\ inbox' = [inbox EXCEPT ![a] = SubSeq(inbox[a], n + 1, Len(inbox[a]))]
       Ends(p) ==
           \/ hand' = [hand EXCEPT ![d] = hand[d] \o p] /\ taken' = taken
           \/ /\ taken' = [taken EXCEPT ![d] = taken[d] \o (hand[d] \o p)]
              /\ hand' = [hand EXCEPT ![d] = <<>>]
           \/ StoreFails /\ hand' = [hand EXCEPT ![d] = <<>>] /\ taken' = taken
  <1>0. /\ inbox \in [Agents -> Seq(Requests)] /\ hand \in [Readers -> Seq(Requests)]
        /\ inbox[a] \in Seq(Requests) /\ hand[d] \in Seq(Requests) /\ <<>> \in Seq(Requests)
        /\ Len(inbox[a]) \in Nat
    BY EmptySeq, LenProperties DEF Typed, TypeOK
  <1>m. \A m \in Nat : inbox' = Popped(a, m) =>
          \E n \in 0..Len(inbox[a]), p \in Seq(Requests) : Moved(n, p) /\ p = Oldest(a, m)
    <2>. SUFFICES ASSUME NEW m \in Nat, inbox' = Popped(a, m)
                  PROVE  \E n \in 0..Len(inbox[a]), p \in Seq(Requests) :
                           Moved(n, p) /\ p = Oldest(a, m)
      OBVIOUS
    <2>1. PICK n \in 0..Len(inbox[a]) : n = Reach(a, m)
      BY PopParts DEF Typed
    <2>2. PICK p \in Seq(Requests) : p = SubSeq(inbox[a], 1, n)
      BY <1>0, DrainedTyped
    <2>. QED
      BY <2>1, <2>2 DEF Oldest, Popped
  <1>z. inbox' = inbox => Moved(0, <<>>)
    <2>1. /\ SubSeq(inbox[a], 1, Len(inbox[a])) = inbox[a] /\ SubSeq(inbox[a], 1, 0) = <<>>
      BY <1>0, WholeSeq
    <2>2. [inbox EXCEPT ![a] = inbox[a]] = inbox
      BY <1>0
    <2>. QED
      BY <2>1, <2>2
  <1>h. hand[d] \o <<>> = hand[d] /\ [hand EXCEPT ![d] = hand[d]] = hand
    BY <1>0, WholeSeq
  <1>e. drain[d] = "idle" => hand[d] = <<>> /\ [hand EXCEPT ![d] = <<>>] = hand
    BY <1>0 DEF IdleHands
  <1>d. DrainMax \in Nat /\ 1 \in Nat
    BY ParameterAssumption
  <1>. SUFFICES \E n \in 0..Len(inbox[a]), p \in Seq(Requests) : Moved(n, p) /\ Ends(p)
    OBVIOUS
  <1>y. inbox' = inbox /\ Ends(<<>>) =>
          \E n \in 0..Len(inbox[a]), p \in Seq(Requests) : Moved(n, p) /\ Ends(p)
    <2>1. 0 \in 0..Len(inbox[a])
      BY <1>0
    <2>. HIDE DEF Moved, Ends
    <2>. QED
      BY <1>0, <1>z, <2>1
  <1>x. ASSUME NEW m \in Nat, inbox' = Popped(a, m), Ends(Oldest(a, m))
        PROVE  \E n \in 0..Len(inbox[a]), p \in Seq(Requests) : Moved(n, p) /\ Ends(p)
    <2>1. PICK n \in 0..Len(inbox[a]), p \in Seq(Requests) : Moved(n, p) /\ p = Oldest(a, m)
      BY <1>m, <1>x
    <2>2. Ends(p)
      BY <1>x, <2>1
    <2>. HIDE DEF Moved, Ends
    <2>. QED
      BY <2>1, <2>2
  <1>1. CASE DrainMemory(d)
    <2>1. /\ taken' = [taken EXCEPT ![d] = taken[d] \o Oldest(a, DrainMax)]
          /\ inbox' = Popped(a, DrainMax) /\ hand' = hand /\ hand[d] = <<>>
      BY <1>1, <1>e DEF DrainMemory, drainVars, Reads
    <2>2. <<>> \o Oldest(a, DrainMax) = Oldest(a, DrainMax)
      BY <1>d, PopParts, WholeSeq DEF Typed
    <2>3. Ends(Oldest(a, DrainMax))
      BY <1>1, <1>e, <2>1, <2>2 DEF DrainMemory, Reads
    <2>. QED
      BY <1>d, <1>x, <2>1, <2>3
  <1>2. CASE DrainPop(d)
    BY <1>2, <1>d, <1>x DEF DrainPop
  <1>3. CASE DrainRaises(d)
    <2>1. StoreFails /\ taken' = taken /\ hand' = [hand EXCEPT ![d] = <<>>]
      BY <1>3, <1>e DEF DrainRaises, Reads
    <2>2. inbox' = inbox \/ inbox' = Popped(a, DrainMax)
      BY <1>3 DEF DrainRaises
    <2>. QED
      BY <1>d, <1>x, <1>y, <2>1, <2>2
  <1>4. CASE DrainOne(d)
    BY <1>4, <1>d, <1>x DEF DrainOne
  <1>5. CASE DrainEmpty(d)
    BY <1>5, <1>h, <1>y DEF DrainEmpty
  <1>6. CASE DrainFails(d)
    <2>1. StoreFails /\ taken' = taken /\ hand' = [hand EXCEPT ![d] = <<>>]
      BY <1>6 DEF DrainFails
    <2>2. inbox' = inbox \/ inbox' = Popped(a, 1)
      BY <1>6 DEF DrainFails
    <2>. QED
      BY <1>d, <1>x, <1>y, <2>1, <2>2
  <1>7. CASE DrainAnswer(d)
    BY <1>7, <1>h, <1>y DEF DrainAnswer
  <1>. QED
    BY <1>1, <1>2, <1>3, <1>4, <1>5, <1>6, <1>7 DEF DrainStep

\* So does the mailbox: Take, Give or Lose.
LEMMA MailDrain ==
  ASSUME Typed, Typed', PassedOnce, IdleHands, [Next]_vars, NEW d \in Readers, DrainStep(d)
  PROVE  \E n \in 0..Len(Queue[Owner[d]]) :
           /\ Queue' = [Queue EXCEPT ![Owner[d]] =
                          SubSeq(Queue[Owner[d]], n + 1, Len(Queue[Owner[d]]))]
           /\ Seen' = Seen /\ Early' = Early
           /\ \/ /\ Hands' = [Hands EXCEPT ![d] = Hands[d] \o SubSeq(Queue[Owner[d]], 1, n)]
                 /\ Handed' = Handed
              \/ /\ Handed' = [Handed EXCEPT ![d] =
                                 Handed[d] \o (Hands[d] \o SubSeq(Queue[Owner[d]], 1, n))]
                 /\ Hands' = [Hands EXCEPT ![d] = <<>>]
              \/ StoreFails /\ Hands' = [Hands EXCEPT ![d] = <<>>] /\ Handed' = Handed
  <1>1. PICK a \in Agents : a = Owner[d]
    BY OwnerAssumption
  <1>2. PICK n \in 0..Len(inbox[a]), p \in Seq(Requests) :
          /\ p = SubSeq(inbox[a], 1, n)
          /\ inbox' = [inbox EXCEPT ![a] = SubSeq(inbox[a], n + 1, Len(inbox[a]))]
          /\ \/ hand' = [hand EXCEPT ![d] = hand[d] \o p] /\ taken' = taken
             \/ /\ taken' = [taken EXCEPT ![d] = taken[d] \o (hand[d] \o p)]
                /\ hand' = [hand EXCEPT ![d] = <<>>]
             \/ StoreFails /\ hand' = [hand EXCEPT ![d] = <<>>] /\ taken' = taken
    BY <1>1, DrainShapes
  <1>3. PICK f :
          /\ \A b \in Agents : Queue[b] = Image(f, inbox[b]) /\ (Queue')[b] = Image(f, inbox'[b])
          /\ \A e \in Readers : Hands[e] = Image(f, hand[e]) /\ (Hands')[e] = Image(f, hand'[e])
          /\ \A e \in Readers : Handed[e] = Image(f, taken[e]) /\ (Handed')[e] = Image(f, taken'[e])
    BY MailImages
  <1>4. /\ inbox \in [Agents -> Seq(Requests)] /\ hand \in [Readers -> Seq(Requests)]
        /\ taken \in [Readers -> Seq(Requests)]
        /\ inbox[a] \in Seq(Requests) /\ hand[d] \in Seq(Requests) /\ taken[d] \in Seq(Requests)
    BY DEF Typed, TypeOK
  <1>5. PICK k \in Nat : k = Len(inbox[a])
    BY <1>4, LenProperties
  <1>6. Len(Queue[a]) = k /\ n \in 0..k
    BY <1>2, <1>3, <1>4, <1>5, ImageIsSeq
  <1>7. Image(f, SubSeq(inbox[a], n + 1, k)) = SubSeq(Queue[a], n + 1, k)
    <2>1. n + 1 \in Nat \ {0} /\ k \in 0..Len(inbox[a])
      BY <1>5, <1>6
    <2>2. Image(f, SubSeq(inbox[a], n + 1, k)) = SubSeq(Image(f, inbox[a]), n + 1, k)
      BY <1>4, <2>1, ImageOfSubSeq
    <2>. QED
      BY <1>3, <2>2
  <1>8. Image(f, p) = SubSeq(Queue[a], 1, n)
    <2>1. 1 \in Nat \ {0} /\ n \in 0..Len(inbox[a])
      BY <1>2
    <2>2. Image(f, SubSeq(inbox[a], 1, n)) = SubSeq(Image(f, inbox[a]), 1, n)
      BY <1>4, <2>1, ImageOfSubSeq
    <2>. QED
      BY <1>2, <1>3, <2>2
  <1>9. Image(f, <<>>) = <<>>
    BY DEF Image
  <1>10. \A b \in Agents : (Queue')[b] = IF b = a THEN SubSeq(Queue[a], n + 1, k) ELSE Queue[b]
    BY <1>2, <1>3, <1>4, <1>5, <1>7
  <1>11. Queue' = [Queue EXCEPT ![a] = SubSeq(Queue[a], n + 1, k)]
    BY <1>10, MailShape
  <1>12. Seen' = Seen /\ Early' = Early
    BY StoredAfterDrain, DrainAlone, SeenSame, EarlySame DEF Typed
  <1>13. Image(f, hand[d] \o p) = Hands[d] \o SubSeq(Queue[a], 1, n)
    <2>1. Image(f, hand[d] \o p) = Image(f, hand[d]) \o Image(f, p)
      BY <1>4, ImageOfConcat
    <2>. QED
      BY <1>3, <1>8, <2>1
  <1>14. \/ /\ Hands' = [Hands EXCEPT ![d] = Hands[d] \o SubSeq(Queue[a], 1, n)]
            /\ Handed' = Handed
         \/ /\ Handed' = [Handed EXCEPT ![d] = Handed[d] \o (Hands[d] \o SubSeq(Queue[a], 1, n))]
            /\ Hands' = [Hands EXCEPT ![d] = <<>>]
         \/ StoreFails /\ Hands' = [Hands EXCEPT ![d] = <<>>] /\ Handed' = Handed
    <2>1. CASE hand' = [hand EXCEPT ![d] = hand[d] \o p] /\ taken' = taken
      <3>1. \A e \in Readers :
              /\ (Hands')[e] = IF e = d THEN Hands[d] \o SubSeq(Queue[a], 1, n) ELSE Hands[e]
              /\ (Handed')[e] = Handed[e]
        BY <1>3, <1>4, <1>13, <2>1
      <3>. QED
        BY <3>1, MailShape
    <2>2. CASE /\ taken' = [taken EXCEPT ![d] = taken[d] \o (hand[d] \o p)]
               /\ hand' = [hand EXCEPT ![d] = <<>>]
      <3>1. PICK w \in Seq(Requests) : w = hand[d] \o p
        BY <1>4, ConcatElements
      <3>2. Image(f, taken[d] \o w) = Handed[d] \o Image(f, w)
        BY <1>3, <1>4, ImageOfConcat
      <3>3. \A e \in Readers :
              /\ (Handed')[e] = IF e = d THEN Handed[d] \o (Hands[d] \o SubSeq(Queue[a], 1, n))
                                         ELSE Handed[e]
              /\ (Hands')[e] = IF e = d THEN <<>> ELSE Hands[e]
        BY <1>3, <1>4, <1>9, <1>13, <2>2, <3>1, <3>2
      <3>. QED
        BY <3>3, MailShape
    <2>3. CASE StoreFails /\ hand' = [hand EXCEPT ![d] = <<>>] /\ taken' = taken
      <3>1. \A e \in Readers :
              /\ (Hands')[e] = IF e = d THEN <<>> ELSE Hands[e]
              /\ (Handed')[e] = Handed[e]
        BY <1>3, <1>4, <1>9, <2>3
      <3>. QED
        BY <2>3, <3>1, MailShape
    <2>. QED
      BY <1>2, <2>1, <2>2, <2>3
  <1>. QED
    BY <1>1, <1>6, <1>11, <1>12, <1>14

\* Every step of the relay is a step of the mailbox or leaves it alone.
LEMMA StepRefines ==
  ASSUME Typed, Typed', PassedOnce, AllTruthful, IdleHands, [Next]_vars, NoncesSurvive
  PROVE  [Mail!Next]_(Mail!vars)
  <1>m. /\ Mail!vars = <<Queue, Hands, Handed, Seen, Early>>
        /\ Mail!vars' = <<Queue', Hands', Handed', Seen', Early'>>
    BY DEF Mail!vars, Queue, Hands, Handed, Seen, Early
  <1>s. ASSUME UNCHANGED <<inbox, hand, taken, dropped, lost, early>>
        PROVE  [Mail!Next]_(Mail!vars)
    BY <1>s, <1>m, MailSame, StoredSame, SeenSame, EarlySame
  <1>p. ASSUME NEW r \in Requests, pc[r] \in {"push", "rpush"},
               inbox' = Appended(r), UNCHANGED <<hand, taken, dropped, lost, env, early>>
        PROVE  Mail!Next
    <2>1. PICK a \in Agents, n \in Nonces :
             /\ n \in Seen => n \in Early
             /\ Seen' = Seen \cup {n}
             /\ Queue' = [Queue EXCEPT ![a] = Append(Queue[a], n)]
             /\ Hands' = Hands /\ Handed' = Handed /\ Early' = Early
      BY <1>p, MailPut
    <2>2. Mail!Put(a, n)
      BY <2>1 DEF Mail!Put, Queue, Hands, Handed, Seen, Early
    <2>. QED
      BY <2>2 DEF Mail!Next
  <1>1. ASSUME NEW r \in Requests, NEW e \in Traffic, Arrive(r, e)
        PROVE  [Mail!Next]_(Mail!vars)
    <2>1. /\ UNCHANGED <<inbox, hand, taken, dropped, lost>> /\ e.nonce \in Nonces
          /\ early' = early \/ early' = early \cup {r}
          /\ env' = [env EXCEPT ![r] = e]
      BY <1>1, TrafficFields DEF Arrive, Arrival, storeVars, drainVars
    <2>2. Queue' = Queue /\ Hands' = Hands /\ Handed' = Handed /\ Seen' = Seen
      BY <2>1, MailSame, StoredSame, SeenSame
    <2>3. CASE early' = early
      BY <1>s, <2>1, <2>3
    <2>4. CASE early' = early \cup {r}
      <3>1. env'[r] = e
        BY <2>1 DEF Typed, TypeOK
      <3>2. (\A q \in early : env'[q] = env[q])
        BY EnvStays
      <3>3. Early' = Early \cup {e.nonce}
        BY <2>4, <3>1, <3>2 DEF Early
      <3>4. Mail!Stamp(e.nonce)
        BY <2>2, <3>3 DEF Mail!Stamp, Queue, Hands, Handed, Seen, Early
      <3>. QED
        BY <2>1, <3>4 DEF Mail!Next
    <2>. QED
      BY <2>1, <2>3, <2>4
  <1>2. ASSUME NEW r \in Requests, NEW e \in Traffic, ArriveMalformed(r, e)
        PROVE  UNCHANGED <<inbox, hand, taken, dropped, lost, early>>
    BY <1>2 DEF ArriveMalformed, storeVars, envVars, drainVars
  <1>3. ASSUME NEW r \in Requests, HandlerStep(r)
        PROVE  [Mail!Next]_(Mail!vars)
    <2>1. CASE PushMemory(r) \/ PushRpush(r)
      BY <1>p, <2>1 DEF PushMemory, PushRpush, envVars, drainVars
    <2>2. CASE ~(PushMemory(r) \/ PushRpush(r))
      BY <1>3, <1>s, <2>2 DEF HandlerStep, RejectReplay, SendValidated, AskBackPressure, AskRegister,
         ReplyUnknown, ReplyLate, ReplyResolve, PassNonce, PushRefused, PushLlen,
         PushExpire, AskTimeout, AskResume, storeVars, envVars, drainVars
    <2>. QED
      BY <2>1, <2>2
  <1>4. ASSUME NEW r \in Requests, StoreError(r)
        PROVE  [Mail!Next]_(Mail!vars)
    <2>1. UNCHANGED <<hand, taken, dropped, lost, env, early>>
      BY <1>4 DEF StoreError, envVars, drainVars
    <2>2. \/ inbox' = inbox
          \/ pc[r] = "rpush" /\ inbox' = Appended(r)
      BY <1>4, Zenon DEF StoreError
    <2>. QED
      BY <1>s, <1>p, <2>1, <2>2
  <1>5. ASSUME NEW d \in Readers, DrainStep(d)
        PROVE  Mail!Next
    <2>1. PICK n \in 0..Len(Queue[Owner[d]]) :
             /\ Queue' = [Queue EXCEPT ![Owner[d]] =
                            SubSeq(Queue[Owner[d]], n + 1, Len(Queue[Owner[d]]))]
             /\ Seen' = Seen /\ Early' = Early
             /\ \/ /\ Hands' = [Hands EXCEPT ![d] = Hands[d] \o SubSeq(Queue[Owner[d]], 1, n)]
                   /\ Handed' = Handed
                \/ /\ Handed' = [Handed EXCEPT ![d] =
                                   Handed[d] \o (Hands[d] \o SubSeq(Queue[Owner[d]], 1, n))]
                   /\ Hands' = [Hands EXCEPT ![d] = <<>>]
                \/ StoreFails /\ Hands' = [Hands EXCEPT ![d] = <<>>] /\ Handed' = Handed
      BY <1>5, MailDrain
    <2>2. Mail!Take(d, n) \/ Mail!Give(d, n) \/ Mail!Lose(d, n)
      BY <2>1 DEF Mail!Take, Mail!Give, Mail!Lose, Mail!Leave, Mail!Front,
         Queue, Hands, Handed, Seen, Early
    <2>3. n \in 0..Len([a \in Agents |-> NoncesOf(inbox[a])][Owner[d]])
      BY DEF Queue
    <2>. QED
      BY <2>2, <2>3 DEF Mail!Next
  <1>6. ASSUME Restart
        PROVE  Mail!Next
    <2>1. Backend = "redis" /\ restarts \in Nat
      BY <1>6, ParameterAssumption DEF Restart, NoncesSurvive, Typed, TypeOK
    <2>2. /\ UNCHANGED <<inbox, taken, early>> /\ hand' = [d \in Readers |-> <<>>]
          /\ MaxRestarts > 0
      BY <1>6, <2>1, ParameterAssumption DEF Restart
    <2>3. Seen' = Seen /\ Early' = Early
      BY <1>6, <2>1, <2>2, StoredAfterRestart, SeenSame, EarlySame
    <2>4. PICK f :
          /\ \A b \in Agents : Queue[b] = Image(f, inbox[b]) /\ (Queue')[b] = Image(f, inbox'[b])
          /\ \A e \in Readers : Hands[e] = Image(f, hand[e]) /\ (Hands')[e] = Image(f, hand'[e])
          /\ \A e \in Readers : Handed[e] = Image(f, taken[e]) /\ (Handed')[e] = Image(f, taken'[e])
      BY MailImages
    <2>5. Image(f, <<>>) = <<>>
      BY DEF Image
    <2>6. Queue' = Queue /\ Handed' = Handed
      BY <2>2, <2>4, MailShape
    <2>7. Hands' = [d \in Readers |-> <<>>]
      BY <2>2, <2>4, <2>5, MailShape
    <2>8. Mail!Crash
      BY <2>2, <2>3, <2>6, <2>7 DEF Mail!Crash, Queue, Hands, Handed, Seen, Early
    <2>. QED
      BY <2>8 DEF Mail!Next
  <1>7. ASSUME Tick \/ UNCHANGED vars
        PROVE  UNCHANGED <<inbox, hand, taken, dropped, lost, early>>
    BY <1>7 DEF Tick, vars, storeVars, envVars, drainVars
  <1>. QED
    BY <1>s, <1>1, <1>2, <1>3, <1>4, <1>5, <1>6, <1>7 DEF Next, ArriveAny

LEMMA InitRefines == Init => Mail!Init
  <1>. SUFFICES ASSUME Init PROVE Mail!Init
    OBVIOUS
  <1>1. Stored = {}
    BY EmptySeq DEF Init, Stored, Queued, InHands, Range
  <1>2. NoncesOf(<<>>) = <<>>
    BY DEF NoncesOf
  <1>. QED
    BY <1>1, <1>2 DEF Init, Mail!Init

\* relay/store.py: through any interleaving of pushes, drains, retransmissions,
\* store errors and restarts the inboxes are the mailbox of module Mailbox: a
\* message is put at most once, unless it was accepted before its own timestamp,
\* leaves from the front into the hand of one reader, and reaches that reader in
\* order or is lost with the whole of its call.  The conditions are those of
\* AtMostOnceHolds.
THEOREM DurableMailboxHolds ==
  ASSUME OneStampPerNonce, NoncesSurvive
  PROVE  Spec => DurableMailbox
  <1>1. Typed /\ PassedOnce /\ [Next]_vars => PassedOnce'
    BY NextPassedOnce
  <1>2. Typed /\ Typed' /\ PassedOnce /\ AllTruthful /\ IdleHands /\ [Next]_vars
        => [Mail!Next]_(Mail!vars)
    BY StepRefines
  <1>3. Init => IdleHands
    BY DEF Init, IdleHands
  <1>. QED
    BY InitPassedOnce, InitTruthful, InitRefines, TypedAlways, NextTruthful, NextIdleHands,
       <1>1, <1>2, <1>3, PTL
    DEF Spec, DurableMailbox, Mail!Spec

=============================================================================
