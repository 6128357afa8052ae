-------------------------- MODULE ConversationProofs --------------------------
(***************************************************************************)
(* Theorems of module Conversation for every set of peers and of messages, *)
(* every CLAUDE_CONCURRENCY and every number of faults.                    *)
(***************************************************************************)
EXTENDS Conversation, SequenceTheorems, FiniteSetTheorems, TLAPS

-----------------------------------------------------------------------------
(* Sequences as what is in them and what comes before what                 *)

Before(x, y, s) == \E i, j \in DOMAIN s : i < j /\ s[i] = x /\ s[j] = y

LEMMA Places ==
  ASSUME NEW S, NEW s \in Seq(S)
  PROVE  /\ Len(s) \in Nat /\ \A i \in 1..Len(s) : s[i] \in S
         /\ \A x : x \in Range(s) <=> \E i \in 1..Len(s) : s[i] = x
         /\ \A x, y : Before(x, y, s) <=> \E i, j \in 1..Len(s) : i < j /\ s[i] = x /\ s[j] = y
         /\ Range(s) \subseteq S
  BY LenProperties, ElementOfSeq DEF Range, Before

\* t holds some of what s holds, in the order of s.
Shrunk(t, s) ==
  /\ Range(t) \subseteq Range(s)
  /\ \A x, y : Before(x, y, t) => Before(x, y, s)

\* That is so when t takes its elements from ever later places of s.
LEMMA PicksShrink ==
  ASSUME NEW S, NEW s \in Seq(S), NEW t \in Seq(S), NEW f,
         \A i \in 1..Len(t) : f[i] \in 1..Len(s) /\ t[i] = s[f[i]],
         \A i, j \in 1..Len(t) : i < j => f[i] < f[j]
  PROVE  Shrunk(t, s)
  <1>1. \A x \in Range(t) : x \in Range(s)
    BY Places
  <1>2. ASSUME NEW x, NEW y, Before(x, y, t) PROVE Before(x, y, s)
    <2>1. PICK i, j \in 1..Len(t) : i < j /\ t[i] = x /\ t[j] = y
      BY <1>2, Places
    <2>2. f[i] \in 1..Len(s) /\ f[j] \in 1..Len(s) /\ f[i] < f[j] /\ s[f[i]] = x /\ s[f[j]] = y
      BY <2>1
    <2>. QED
      BY <2>2, Places
  <1>. QED
    BY <1>1, <1>2 DEF Shrunk

LEMMA AppendKeeps ==
  ASSUME NEW S, NEW s \in Seq(S), NEW e \in S
  PROVE  /\ Append(s, e) \in Seq(S)
         /\ \A x : x \in Range(Append(s, e)) <=> x \in Range(s) \/ x = e
         /\ \A x, y : Before(x, y, Append(s, e)) => Before(x, y, s) \/ (x \in Range(s) /\ y = e)
  <1>1. PICK t : t = Append(s, e)
    OBVIOUS
  <1>2. PICK n \in Nat : n = Len(s)
    BY Places
  <1>3. /\ t \in Seq(S) /\ Len(t) = n + 1 /\ t[n + 1] = e
        /\ \A i \in 1..n : t[i] = s[i]
    BY <1>1, <1>2, AppendProperties
  <1>4. \A i \in 1..(n + 1) : i \in 1..n \/ i = n + 1
    OBVIOUS
  <1>5. /\ \A i \in 1..n : i \in 1..(n + 1)
        /\ n + 1 \in 1..(n + 1)
    OBVIOUS
  <1>6. /\ \A x : x \in Range(t) <=> \E i \in 1..(n + 1) : t[i] = x
        /\ \A x, y : Before(x, y, t) <=> \E i, j \in 1..(n + 1) : i < j /\ t[i] = x /\ t[j] = y
    <2>1. n + 1 = Len(t)
      BY <1>3
    <2>2. \A x : x \in Range(t) <=> \E i \in 1..Len(t) : t[i] = x
      BY <1>3, Places
    <2>3. \A x, y : Before(x, y, t) <=> \E i, j \in 1..Len(t) : i < j /\ t[i] = x /\ t[j] = y
      BY <1>3, Places
    <2>. QED
      BY <2>1, <2>2, <2>3
  <1>7. /\ \A x : x \in Range(s) <=> \E i \in 1..n : s[i] = x
        /\ \A x, y : Before(x, y, s) <=> \E i, j \in 1..n : i < j /\ s[i] = x /\ s[j] = y
    <2>2. \A x : x \in Range(s) <=> \E i \in 1..Len(s) : s[i] = x
      BY Places
    <2>3. \A x, y : Before(x, y, s) <=> \E i, j \in 1..Len(s) : i < j /\ s[i] = x /\ s[j] = y
      BY Places
    <2>. QED
      BY <1>2, <2>2, <2>3
  <1>8. \A x : x \in Range(t) <=> x \in Range(s) \/ x = e
    BY <1>3, <1>4, <1>5, <1>6, <1>7
  <1>9. ASSUME NEW x, NEW y, Before(x, y, t)
        PROVE  Before(x, y, s) \/ (x \in Range(s) /\ y = e)
    <2>1. PICK i, j \in 1..(n + 1) : i < j /\ t[i] = x /\ t[j] = y
      BY <1>6, <1>9
    <2>2. i \in 1..n
      BY <2>1
    <2>3. CASE j \in 1..n
      BY <1>3, <1>7, <2>1, <2>2, <2>3
    <2>4. CASE j = n + 1
      BY <1>3, <1>7, <2>1, <2>2, <2>4
    <2>. QED
      BY <1>4, <2>3, <2>4
  <1>. QED
    BY <1>1, <1>3, <1>8, <1>9

LEMMA TailKeeps ==
  ASSUME NEW S, NEW s \in Seq(S), s # <<>>
  PROVE  /\ Head(s) \in S /\ Tail(s) \in Seq(S)
         /\ \A x : x \in Range(s) <=> x = Head(s) \/ x \in Range(Tail(s))
         /\ Shrunk(Tail(s), s)
         /\ \A x \in Range(Tail(s)) : Before(Head(s), x, s)
  <1>1. PICK t : t = Tail(s)
    OBVIOUS
  <1>2. PICK h : h = Head(s)
    OBVIOUS
  <1>3. PICK n \in Nat \ {0} : n = Len(s)
    BY EmptySeq, Places
  <1>4. /\ h = s[1] /\ h \in S /\ t \in Seq(S) /\ Len(t) = n - 1
        /\ \A i \in 1..(n - 1) : t[i] = s[i + 1]
    BY <1>1, <1>2, <1>3, HeadTailProperties, ElementOfSeq
  <1>5. Shrunk(t, s)
    <2>. DEFINE f == [i \in 1..(n - 1) |-> i + 1]
    <2>1. \A i \in 1..Len(t) : f[i] \in 1..Len(s) /\ t[i] = s[f[i]]
      BY <1>3, <1>4
    <2>2. \A i, j \in 1..Len(t) : i < j => f[i] < f[j]
      BY <1>4
    <2>. QED
      BY <1>4, <2>1, <2>2, PicksShrink
  <1>6. ASSUME NEW x \in Range(s) PROVE x = h \/ x \in Range(t)
    <2>1. PICK i \in 1..n : s[i] = x
      BY <1>3, Places
    <2>2. i = 1 \/ (i - 1 \in 1..Len(t) /\ t[i - 1] = x)
      BY <1>4, <2>1
    <2>. QED
      BY <1>4, <2>1, <2>2, Places
  <1>7. h \in Range(s)
    <2>1. 1 \in 1..Len(s)
      BY <1>3
    <2>. QED
      BY <1>4, <2>1, Places
  <1>8. ASSUME NEW x \in Range(t) PROVE Before(h, x, s)
    <2>1. PICK i \in 1..Len(t) : t[i] = x
      BY <1>4, Places
    <2>2. /\ 1 \in 1..Len(s) /\ i + 1 \in 1..Len(s) /\ 1 < i + 1
          /\ s[1] = h /\ s[i + 1] = x
      BY <1>3, <1>4, <2>1
    <2>. QED
      BY <2>2, Places
  <1>. QED
    BY <1>1, <1>2, <1>4, <1>5, <1>6, <1>7, <1>8 DEF Shrunk

\* What is left after the first n.
LEMMA RestKeeps ==
  ASSUME NEW S, NEW s \in Seq(S), NEW n \in 0..Len(s)
  PROVE  /\ SubSeq(s, n + 1, Len(s)) \in Seq(S) /\ SubSeq(s, 1, n) \in Seq(S)
         /\ Shrunk(SubSeq(s, n + 1, Len(s)), s)
         /\ \A x \in Range(s) :
              x \in Range(SubSeq(s, n + 1, Len(s))) \/ x \in Range(SubSeq(s, 1, n))
  <1>1. PICK m \in Nat : m = Len(s)
    BY Places
  <1>2. PICK a : a = SubSeq(s, 1, n)
    OBVIOUS
  <1>3. PICK b : b = SubSeq(s, n + 1, Len(s))
    OBVIOUS
  <1>4. n \in Nat /\ n <= m
    BY <1>1
  <1>e. \A i \in 1..Len(s) : s[i] \in S
    BY Places
  <1>5. a \in Seq(S) /\ Len(a) = n /\ \A i \in 1..n : a[i] = s[i]
    BY <1>1, <1>2, <1>4, <1>e, SubSeqProperties
  <1>6. b \in Seq(S) /\ Len(b) = m - n
    BY <1>1, <1>3, <1>4, <1>e, SubSeqProperties
  <1>7. \A i \in 1..(Len(s) - (n + 1) + 1) : b[i] = s[n + 1 + i - 1]
    BY <1>1, <1>3, <1>4, <1>e, SubSeqProperties
  <1>8. \A i \in 1..(m - n) : b[i] = s[n + i]
    <2>1. SUFFICES ASSUME NEW i \in 1..(m - n) PROVE b[i] = s[n + i]
      OBVIOUS
    <2>2. i \in 1..(Len(s) - (n + 1) + 1) /\ n + 1 + i - 1 = n + i
      BY <1>1, <1>4
    <2>. QED
      BY <1>7, <2>2
  <1>9. Shrunk(b, s)
    <2>. DEFINE f == [i \in 1..(m - n) |-> n + i]
    <2>1. \A i \in 1..Len(b) : f[i] \in 1..Len(s) /\ b[i] = s[f[i]]
      BY <1>1, <1>4, <1>6, <1>8
    <2>2. \A i, j \in 1..Len(b) : i < j => f[i] < f[j]
      BY <1>4, <1>6
    <2>. QED
      BY <1>6, <2>1, <2>2, PicksShrink
  <1>10. ASSUME NEW x \in Range(s) PROVE x \in Range(b) \/ x \in Range(a)
    <2>1. PICK i \in 1..m : s[i] = x
      BY <1>1, Places
    <2>2. CASE i <= n
      <3>1. i \in 1..Len(a) /\ a[i] = x
        BY <1>5, <2>1, <2>2
      <3>. QED
        BY <1>5, <3>1, Places
    <2>3. CASE i > n
      <3>1. PICK j : j = i - n
        OBVIOUS
      <3>2. j \in 1..Len(b) /\ b[j] = x
        BY <1>4, <1>6, <1>8, <2>1, <2>3, <3>1
      <3>. QED
        BY <1>6, <3>2, Places
    <2>. QED
      BY <1>4, <2>1, <2>2, <2>3
  <1>. QED
    BY <1>2, <1>3, <1>5, <1>6, <1>9, <1>10

\* What is left without the element at place k.
LEMMA RemoveKeeps ==
  ASSUME NEW S, NEW s \in Seq(S), NEW k \in 1..Len(s)
  PROVE  /\ RemoveAt(s, k) \in Seq(S)
         /\ Shrunk(RemoveAt(s, k), s)
         /\ \A x \in Range(s) : x = s[k] \/ x \in Range(RemoveAt(s, k))
         /\ ~Before(s[k], s[k], s) => s[k] \notin Range(RemoveAt(s, k))
  <1>1. PICK m \in Nat : m = Len(s)
    BY Places
  <1>2. PICK a : a = SubSeq(s, 1, k - 1)
    OBVIOUS
  <1>3. PICK b : b = SubSeq(s, k + 1, Len(s))
    OBVIOUS
  <1>4. k \in Nat \ {0} /\ k <= m
    BY <1>1
  <1>e. \A i \in 1..Len(s) : s[i] \in S
    BY Places
  <1>5. a \in Seq(S) /\ Len(a) = k - 1 /\ \A i \in 1..(k - 1) : a[i] = s[i]
    BY <1>1, <1>2, <1>4, <1>e, SubSeqProperties
  <1>6. b \in Seq(S) /\ Len(b) = m - k
    BY <1>1, <1>3, <1>4, <1>e, SubSeqProperties
  <1>7. \A i \in 1..(Len(s) - (k + 1) + 1) : b[i] = s[k + 1 + i - 1]
    BY <1>1, <1>3, <1>4, <1>e, SubSeqProperties
  <1>8. \A i \in 1..(m - k) : b[i] = s[k + i]
    <2>1. SUFFICES ASSUME NEW i \in 1..(m - k) PROVE b[i] = s[k + i]
      OBVIOUS
    <2>2. i \in 1..(Len(s) - (k + 1) + 1) /\ k + 1 + i - 1 = k + i
      BY <1>1, <1>4
    <2>. QED
      BY <1>7, <2>2
  <1>9. PICK t : t = a \o b
    OBVIOUS
  <1>10. /\ t \in Seq(S) /\ Len(t) = m - 1
         /\ \A i \in 1..(m - 1) : t[i] = IF i <= k - 1 THEN a[i] ELSE b[i - (k - 1)]
    <2>1. /\ t \in Seq(S) /\ Len(t) = Len(a) + Len(b)
          /\ \A i \in 1..(Len(a) + Len(b)) : t[i] = IF i <= Len(a) THEN a[i] ELSE b[i - Len(a)]
      BY <1>5, <1>6, <1>9, ConcatProperties
    <2>2. Len(a) = k - 1 /\ Len(a) + Len(b) = m - 1
      BY <1>4, <1>5, <1>6
    <2>. QED
      BY <2>1, <2>2
  <1>11. \A i \in 1..(m - 1) : t[i] = IF i < k THEN s[i] ELSE s[i + 1]
    <2>. SUFFICES ASSUME NEW i \in 1..(m - 1) PROVE t[i] = IF i < k THEN s[i] ELSE s[i + 1]
      OBVIOUS
    <2>1. CASE i < k
      BY <1>4, <1>5, <1>10, <2>1
    <2>2. CASE ~(i < k)
      <3>1. i - (k - 1) \in 1..(m - k) /\ k + (i - (k - 1)) = i + 1
        BY <1>4, <2>2
      <3>. QED
        BY <1>4, <1>8, <1>10, <2>2, <3>1
    <2>. QED
      BY <2>1, <2>2
  <1>12. PICK f : f = [i \in 1..(m - 1) |-> IF i < k THEN i ELSE i + 1]
    OBVIOUS
  <1>13. \A i \in 1..(m - 1) : f[i] \in 1..m /\ f[i] # k /\ t[i] = s[f[i]]
    BY <1>4, <1>11, <1>12
  <1>14. Shrunk(t, s)
    <2>1. \A i, j \in 1..Len(t) : i < j => f[i] < f[j]
      BY <1>4, <1>10, <1>12
    <2>. QED
      BY <1>1, <1>10, <1>13, <2>1, PicksShrink
  <1>15. ASSUME NEW x \in Range(s) PROVE x = s[k] \/ x \in Range(t)
    <2>1. PICK i \in 1..m : s[i] = x
      BY <1>1, Places
    <2>2. CASE i < k
      <3>1. i \in 1..Len(t) /\ t[i] = x
        BY <1>4, <1>10, <1>11, <2>1, <2>2
      <3>. QED
        BY <1>10, <3>1, Places
    <2>3. CASE i > k
      <3>1. PICK j : j = i - 1
        OBVIOUS
      <3>2. j \in 1..Len(t) /\ t[j] = x
        BY <1>4, <1>10, <1>11, <2>1, <2>3, <3>1
      <3>. QED
        BY <1>10, <3>2, Places
    <2>. QED
      BY <1>4, <2>1, <2>2, <2>3
  <1>16. ASSUME s[k] \in Range(t) PROVE Before(s[k], s[k], s)
    <2>1. PICK i \in 1..(m - 1) : t[i] = s[k]
      BY <1>10, <1>16, Places
    <2>2. f[i] \in 1..Len(s) /\ s[f[i]] = s[k] /\ (f[i] < k \/ k < f[i])
      BY <1>1, <1>4, <1>13, <2>1
    <2>. QED
      BY <2>2, Places
  <1>. QED
    BY <1>2, <1>3, <1>9, <1>10, <1>14, <1>15, <1>16 DEF RemoveAt

LEMMA EmptyShrinks ==
  ASSUME NEW S, NEW s \in Seq(S)
  PROVE  <<>> \in Seq(S) /\ Range(<<>>) = {} /\ Shrunk(<<>>, s)
  <1>1. PICK e : e = <<>>
    OBVIOUS
  <1>2. e \in Seq(S) /\ Len(e) = 0
    BY <1>1, EmptySeq
  <1>3. DOMAIN e = {}
    BY <1>2, LenProperties
  <1>4. (\A x : x \notin Range(e)) /\ (\A x, y : ~Before(x, y, e))
    BY <1>3 DEF Range, Before
  <1>. QED
    BY <1>1, <1>2, <1>4 DEF Shrunk

-----------------------------------------------------------------------------
(* The invariant                                                           *)

Envelopes == {Carry(m) : m \in Messages} \union {Cancel(m) : m \in Asks}

\* The types of the variables.
Typed ==
  /\ call \in [Messages -> Calls] /\ post \in [Messages -> Posts]
  /\ work \in [Messages -> {"none", "queued", "claude", "replying", "done"}]
  /\ inbox \in [Peers -> Seq(Envelopes)] /\ line \in [Peers -> Seq(Messages)]
  /\ table \in [Peers -> Seq(Rows)] /\ thread \in [Peers -> SUBSET Rows]
  /\ known \in [Messages -> SUBSET Rows]
  /\ told \subseteq Asks /\ lost \subseteq Messages /\ faults \in 0..MaxFaults

Unposted == {"none", "under way", "outbox"}

\* Where a message is: with its sender, in the inbox of its addressee, in the
\* line before the semaphore, or with a task; in one of these places, and once.
Placed ==
  /\ \A m \in Messages :
       /\ call[m] = "giving up" => m \in Asks
       /\ call[m] = "none" => post[m] = "none"
       /\ post[m] \in {"open", "answered"} => m \in Asks
       /\ post[m] \in Unposted => work[m] = "none"
  /\ \A p \in Peers, m \in Messages :
       /\ Carry(m) \in Range(inbox[p]) => m.to = p /\ work[m] = "none" /\ post[m] \notin Unposted
       /\ Cancel(m) \in Range(inbox[p]) => m.to = p
       /\ m \in Range(line[p]) => m.to = p /\ work[m] = "queued"
       /\ ~Before(Carry(m), Carry(m), inbox[p]) /\ ~Before(m, m, line[p])

Limited == \A p \in Peers : Cardinality(Computing(p)) <= Concurrency

\* What either end records the other has recorded before it could arrive.
Mirrored ==
  /\ ThreadsMirror
  /\ \A m \in Messages :
       /\ call[m] # "none" => Row(m.kind, m) \in thread[m.from]
       /\ work[m] = "replying" \/ post[m] = "answered" => Row("reply", m) \in thread[m.to]

\* A send that the relay has taken is recorded by the other end, or on its way.
Arrives(m) ==
  \/ Row(m.kind, m) \in thread[m.to] \/ m \in lost
  \/ Carry(m) \in Range(inbox[m.to]) \/ m \in Range(line[m.to])

\* x is on its way to the peer of m, and m does not overtake it.
Ahead(x, m) ==
  /\ x \in Messages \ Asks /\ x.to = m.to
  /\ \/ /\ Carry(x) \in Range(inbox[m.to]) /\ m \notin Range(line[m.to])
        /\ ~Before(Carry(m), Carry(x), inbox[m.to])
     \/ x \in Range(line[m.to]) /\ ~Before(m, x, line[m.to])

\* What the sender of an ask knew when it was made is recorded where it goes, is
\* lost, or comes there first; once claude has the ask, it was given all but the lost
\* and what is out of its reach.
Informed(m) ==
  \A r \in known[m] :
    \/ r.of \in lost \/ OutOfReach(r, m)
    \/ /\ Row("ask", m) \notin thread[m.to]
       /\ r \in thread[m.to] \/ (r = Row(r.of.kind, r.of) /\ Ahead(r.of, m))

Shared ==
  /\ \A m \in Asks :
       /\ work[m] \in {"claude", "replying"} \/ post[m] = "answered" \/ call[m] = "ok" =>
            Row("ask", m) \in thread[m.to]
       /\ call[m] = "ok" => Row("reply", m) \in thread[m.to]
       /\ Row("ask", m) \in thread[m.to] => work[m] \notin {"none", "queued"}
       /\ Informed(m)
  /\ \A m \in Messages \ Asks : call[m] = "ok" => Arrives(m)

IInv == Typed /\ Placed /\ Limited /\ Mirrored /\ Shared

-----------------------------------------------------------------------------
(* Messages and envelopes                                                  *)

LEMMA MessageFacts ==
  ASSUME NEW m \in Messages
  PROVE  /\ m.kind \in {"ask", "send"} /\ m.from \in Peers /\ m.to \in Peers /\ m.to # m.from
         /\ m \in Asks <=> m.kind = "ask"
         /\ Row(m.kind, m) \in Rows /\ Row("reply", m) \in Rows
         /\ Carry(m) \in Envelopes
         /\ m \in Asks => Cancel(m) \in Envelopes
  <1>1. /\ m.kind \in {"ask", "send"} /\ m.from \in Peers /\ m.to \in Peers \ {m.from}
    BY MessagesAssumption
  <1>2. Row(m.kind, m) \in Rows /\ Row("reply", m) \in Rows
    BY <1>1 DEF Rows
  <1>3. Carry(m) \in Envelopes /\ (m \in Asks => Cancel(m) \in Envelopes)
    BY DEF Envelopes
  <1>. QED
    BY <1>1, <1>2, <1>3 DEF Asks

LEMMA EnvelopeFacts ==
  /\ \A m \in Messages : Carry(m).of = m /\ Carry(m).kind = m.kind /\ Carry(m).kind # "cancel"
  /\ \A m : Cancel(m).of = m /\ Cancel(m).kind = "cancel"
  /\ \A m \in Messages : \A n \in Messages : Carry(m) = Carry(n) <=> m = n
  /\ \A m, n \in Messages : Cancel(m) = Cancel(n) <=> m = n
  /\ \A m, n \in Messages : Carry(m) # Cancel(n)
  BY MessagesAssumption DEF Carry, Cancel

\* An envelope carries a message or cancels an ask.
LEMMA EnvelopeIs ==
  ASSUME NEW e \in Envelopes
  PROVE  /\ e.of \in Messages
         /\ e.kind # "cancel" => e = Carry(e.of)
         /\ e.kind = "cancel" => e = Cancel(e.of) /\ e.of \in Asks
  BY EnvelopeFacts DEF Envelopes, Asks

LEMMA RowFacts ==
  /\ \A k, m : Row(k, m).kind = k /\ Row(k, m).of = m
  /\ \A r \in Rows : r.of \in Messages /\ r.kind \in {"ask", "send", "reply"} /\ r = Row(r.kind, r.of)
  BY DEF Row, Rows

-----------------------------------------------------------------------------
(* The types                                                               *)

LEMMA TypedInit == Init => Typed
  <1>. SUFFICES ASSUME Init PROVE Typed
    OBVIOUS
  <1>1. 0 \in 0..MaxFaults
    BY LimitsAssumption
  <1>2. \A S : <<>> \in Seq(S)
    BY EmptySeq
  <1>3. /\ "none" \in Calls /\ "none" \in Posts
    BY DEF Calls, Posts
  <1>4. table \in [Peers -> Seq(Rows)] /\ \A p \in Peers : table[p] = <<>>
    BY <1>2 DEF Init
  <1>5. \A p \in Peers : thread[p] = {}
    BY <1>2, <1>4, EmptyShrinks DEF thread
  <1>6. thread \in [Peers -> SUBSET Rows]
    BY <1>5 DEF thread
  <1>. QED
    BY <1>1, <1>2, <1>3, <1>4, <1>6 DEF Init, Typed

\* Nothing is written, or one row more at the end of a table.
SameTables == table' = table /\ thread' = thread

Grows ==
  \A p \in Peers : table'[p] = table[p] \/ \E r \in Rows : table'[p] = Append(table[p], r)

LEMMA TablesStay ==
  ASSUME table' = table
  PROVE  SameTables /\ Grows
  BY DEF SameTables, Grows, thread

\* A record in a thread, an envelope in an inbox, calls that end with their claude.
LEMMA RecordedTyped ==
  ASSUME Typed, NEW p \in Peers, NEW k, NEW m, Row(k, m) \in Rows, Recorded(p, k, m)
  PROVE  /\ table' \in [Peers -> Seq(Rows)] /\ thread' \in [Peers -> SUBSET Rows]
         /\ thread'[p] = thread[p] \union {Row(k, m)}
         /\ \A q \in Peers \ {p} : thread'[q] = thread[q]
         /\ Grows
  <1>0. /\ table \in [Peers -> Seq(Rows)] /\ table[p] \in Seq(Rows)
        /\ thread \in [Peers -> SUBSET Rows]
    BY DEF Typed
  <1>1. PICK r \in Rows : r = Row(k, m)
    OBVIOUS
  <1>2. PICK t : t = Append(table[p], r)
    OBVIOUS
  <1>3. t \in Seq(Rows) /\ \A x : x \in Range(t) <=> x \in Range(table[p]) \/ x = r
    BY <1>0, <1>2, AppendKeeps
  <1>4. table' = [table EXCEPT ![p] = t]
    BY <1>1, <1>2 DEF Recorded
  <1>5. /\ table' \in [Peers -> Seq(Rows)] /\ table'[p] = t
        /\ \A q \in Peers \ {p} : table'[q] = table[q]
    BY <1>0, <1>3, <1>4
  <1>6. /\ thread'[p] = thread[p] \union {r}
        /\ \A q \in Peers \ {p} : thread'[q] = thread[q]
        /\ DOMAIN thread' = Peers
    BY <1>3, <1>5 DEF thread
  <1>7. thread' \in [Peers -> SUBSET Rows]
    <2>1. thread' = [q \in Peers |-> thread'[q]]
      BY DEF thread
    <2>2. \A q \in Peers : thread'[q] \in SUBSET Rows
      BY <1>0, <1>6
    <2>. QED
      BY <2>1, <2>2
  <1>8. Grows
    BY <1>2, <1>5 DEF Grows
  <1>. QED
    BY <1>1, <1>5, <1>6, <1>7, <1>8

LEMMA PutTyped ==
  ASSUME Typed, NEW p \in Peers, NEW e \in Envelopes, Put(p, e)
  PROVE  /\ inbox' \in [Peers -> Seq(Envelopes)]
         /\ inbox'[p] = Append(inbox[p], e)
         /\ \A q \in Peers \ {p} : inbox'[q] = inbox[q]
  <1>1. inbox[p] \in Seq(Envelopes) /\ inbox \in [Peers -> Seq(Envelopes)]
    BY DEF Typed
  <1>2. Append(inbox[p], e) \in Seq(Envelopes)
    BY <1>1, AppendKeeps
  <1>. QED
    BY <1>1, <1>2 DEF Put

LEMMA HangupTyped ==
  ASSUME Typed, NEW asks, Hangup(asks)
  PROVE  /\ call' \in [Messages -> Calls]
         /\ \A m \in Messages : call'[m] = call[m] \/ (call'[m] = "gone" /\ call[m] \in InProgress)
  BY DEF Typed, Hangup, CallsFor, Calls

LEMMA ResumesTyped ==
  ASSUME Typed, NEW m \in Messages, NEW s \in Calls, Resumes(m, s)
  PROVE  /\ call' \in [Messages -> Calls]
         /\ call'[m] = IF call[m] = "waiting" THEN s ELSE call[m]
         /\ \A n \in Messages \ {m} : call'[n] = call[n]
  BY DEF Typed, Resumes

LEMMA FaultTyped ==
  ASSUME Typed, Fault
  PROVE  faults' \in 0..MaxFaults
  BY LimitsAssumption DEF Typed, Fault

\* A row that is not among the last ones has HistoryLimit rows after it.
LEMMA CutOff ==
  ASSUME NEW S, NEW s \in Seq(S), NEW e \in S, NEW x \in Range(s),
         x \notin Range(LastRows(Append(s, e)))
  PROVE  \E i, j \in DOMAIN Append(s, e) :
           Append(s, e)[i] = x /\ Append(s, e)[j] = e /\ j - i >= HistoryLimit
  <1>1. PICK t : t = Append(s, e)
    OBVIOUS
  <1>2. PICK n \in Nat : n = Len(s)
    BY Places
  <1>3. /\ t \in Seq(S) /\ Len(t) = n + 1 /\ t[n + 1] = e /\ DOMAIN t = 1..(n + 1)
        /\ \A i \in 1..n : t[i] = s[i]
    BY <1>1, <1>2, AppendProperties, LenProperties
  <1>4. PICK i \in 1..n : t[i] = x
    BY <1>2, <1>3, Places
  <1>5. PICK k \in Nat : k = Smaller(HistoryLimit, n + 1)
    BY LimitsAssumption DEF Smaller
  <1>6. k <= n + 1 /\ (k = HistoryLimit \/ k = n + 1) /\ k >= 1
    BY <1>5, LimitsAssumption DEF Smaller
  <1>7. PICK lo \in 1..(n + 1) : lo = 1 + (n + 1) - k
    BY <1>6
  <1>8. PICK last : last = SubSeq(t, lo, n + 1)
    OBVIOUS
  <1>9. x \notin Range(last)
    BY <1>1, <1>3, <1>5, <1>7, <1>8 DEF LastRows
  <1>10. ASSUME i >= lo PROVE FALSE
    <2>1. PICK c \in Nat : c = i - lo + 1
      BY <1>10
    <2>2. c \in 1..((n + 1) - lo + 1) /\ lo + c - 1 = i
      BY <1>10, <2>1
    <2>3. /\ last \in Seq(S) /\ Len(last) = (n + 1) - lo + 1
          /\ \A d \in 1..((n + 1) - lo + 1) : last[d] = t[lo + d - 1]
      <3>1. lo \in 1..(Len(t) + 1) /\ n + 1 \in (lo - 1)..Len(t) /\ lo <= n + 1 + 1
        BY <1>3
      <3>. QED
        BY <1>3, <1>8, <3>1, SubSeqProperties
    <2>4. last[c] = x
      BY <1>4, <2>2, <2>3
    <2>5. x \in Range(last)
      BY <2>2, <2>3, <2>4, Places
    <2>. QED
      BY <1>9, <2>5
  <1>11. k = HistoryLimit /\ (n + 1) - i >= HistoryLimit
    BY <1>6, <1>7, <1>10
  <1>12. i \in DOMAIN t /\ n + 1 \in DOMAIN t
    BY <1>3
  <1>. QED
    BY <1>1, <1>3, <1>4, <1>11, <1>12

\* What is out of reach stays so: nothing comes in between.
LEMMA ReachStays ==
  ASSUME Typed, Grows, NEW m \in Messages, NEW r, OutOfReach(r, m)
  PROVE  OutOfReach(r, m)'
  <1>1. m.to \in Peers /\ table[m.to] \in Seq(Rows)
    BY MessageFacts DEF Typed
  <1>2. PICK s, t : s = table[m.to] /\ t = table'[m.to]
    OBVIOUS
  <1>3. \A i \in DOMAIN s : i \in DOMAIN t /\ t[i] = s[i]
    <2>1. CASE t = s
      BY <2>1
    <2>2. CASE t # s
      <3>1. PICK e \in Rows : t = Append(s, e)
        BY <1>1, <1>2, <2>2 DEF Grows
      <3>2. PICK n \in Nat : n = Len(s)
        BY <1>1, <1>2, Places
      <3>3. /\ DOMAIN s = 1..n /\ DOMAIN t = 1..(n + 1)
            /\ \A i \in 1..n : t[i] = s[i]
        BY <1>1, <1>2, <3>1, <3>2, AppendProperties, LenProperties
      <3>. QED
        BY <3>3
    <2>. QED
      BY <2>1, <2>2
  <1>4. PICK i, j \in DOMAIN s : s[i] = r /\ s[j] = Row("ask", m) /\ j - i >= HistoryLimit
    BY <1>2 DEF OutOfReach
  <1>5. /\ i \in DOMAIN t /\ j \in DOMAIN t /\ t[i] = r /\ t[j] = Row("ask", m)
        /\ j - i >= HistoryLimit
    BY <1>3, <1>4
  <1>. QED
    BY <1>2, <1>5 DEF OutOfReach

\* What Enter does.
LEMMA EnterTyped ==
  ASSUME Typed, NEW m \in Messages, Enter(m)
  PROVE  /\ table' \in [Peers -> Seq(Rows)] /\ thread' \in [Peers -> SUBSET Rows]
         /\ thread'[m.to] = thread[m.to] \union {Row(m.kind, m)}
         /\ \A q \in Peers \ {m.to} : thread'[q] = thread[q]
         /\ work' \in [Messages -> {"none", "queued", "claude", "replying", "done"}]
         /\ work'[m] = (IF m \in Asks THEN "claude" ELSE "done")
         /\ \A n \in Messages \ {m} : work'[n] = work[n]
         /\ known' \in [Messages -> SUBSET Rows]
         /\ known'[m] \subseteq known[m]
         /\ m \in Asks => \A r \in known'[m] : r \notin thread[m.to] \/ OutOfReach(r, m)'
         /\ \A n \in Messages \ {m} : known'[n] = known[n]
         /\ Grows
  <1>1. m.to \in Peers /\ Row(m.kind, m) \in Rows /\ (m \in Asks <=> m.kind = "ask")
    BY MessageFacts
  <1>2. Recorded(m.to, m.kind, m)
    BY DEF Enter
  <1>3. PICK t : t = table'[m.to]
    OBVIOUS
  <1>4. /\ work' = [work EXCEPT ![m] = IF m.kind = "ask" THEN "claude" ELSE "done"]
        /\ known' = [known EXCEPT ![m] = known[m] \ Range(LastRows(t))]
    BY <1>3 DEF Enter
  <1>5. /\ work \in [Messages -> {"none", "queued", "claude", "replying", "done"}]
        /\ known \in [Messages -> SUBSET Rows]
        /\ table \in [Peers -> Seq(Rows)] /\ table[m.to] \in Seq(Rows)
    BY <1>1 DEF Typed
  <1>6. /\ work' \in [Messages -> {"none", "queued", "claude", "replying", "done"}]
        /\ work'[m] = (IF m \in Asks THEN "claude" ELSE "done")
        /\ \A n \in Messages \ {m} : work'[n] = work[n]
    BY <1>1, <1>4, <1>5
  <1>7. /\ known' \in [Messages -> SUBSET Rows]
        /\ known'[m] = known[m] \ Range(LastRows(t))
        /\ \A n \in Messages \ {m} : known'[n] = known[n]
    BY <1>4, <1>5
  <1>8. /\ table' \in [Peers -> Seq(Rows)] /\ thread' \in [Peers -> SUBSET Rows]
        /\ thread'[m.to] = thread[m.to] \union {Row(m.kind, m)}
        /\ \A q \in Peers \ {m.to} : thread'[q] = thread[q]
        /\ Grows
    BY <1>1, <1>2, RecordedTyped
  <1>9. ASSUME m \in Asks, NEW r \in known'[m], r \in thread[m.to]
        PROVE  OutOfReach(r, m)'
    <2>1. t = Append(table[m.to], Row("ask", m)) /\ Row("ask", m) \in Rows
      BY <1>1, <1>2, <1>3, <1>5, <1>9 DEF Recorded
    <2>2. r \in Range(table[m.to]) /\ r \notin Range(LastRows(t))
      BY <1>1, <1>7, <1>9 DEF thread
    <2>3. PICK s, e : s = table[m.to] /\ e = Row("ask", m)
      OBVIOUS
    <2>4. s \in Seq(Rows) /\ e \in Rows /\ t = Append(s, e) /\ r \in Range(s)
      BY <1>5, <2>1, <2>2, <2>3
    <2>5. \E i, j \in DOMAIN Append(s, e) :
            Append(s, e)[i] = r /\ Append(s, e)[j] = e /\ j - i >= HistoryLimit
      BY <2>2, <2>4, CutOff
    <2>6. \E i, j \in DOMAIN t : t[i] = r /\ t[j] = Row("ask", m) /\ j - i >= HistoryLimit
      BY <2>3, <2>4, <2>5
    <2>. QED
      BY <1>3, <2>6 DEF OutOfReach
  <1>. QED
    BY <1>6, <1>7, <1>8, <1>9

LEMMA LoseTyped ==
  ASSUME Typed, NEW p \in Peers, NEW n \in 0..Len(inbox[p]), NEW tasks \in SUBSET Messages,
         Lose(p, n, tasks)
  PROVE  /\ lost \subseteq lost' /\ tasks \subseteq lost' /\ lost' \subseteq Messages
         /\ inbox' \in [Peers -> Seq(Envelopes)]
         /\ Shrunk(inbox'[p], inbox[p])
         /\ \A x \in Range(inbox[p]) : x \in Range(inbox'[p]) \/ x.of \in lost'
         /\ \A q \in Peers \ {p} : inbox'[q] = inbox[q]
  <1>1. inbox \in [Peers -> Seq(Envelopes)] /\ inbox[p] \in Seq(Envelopes) /\ lost \subseteq Messages
    BY DEF Typed
  <1>2. PICK a : a = SubSeq(inbox[p], 1, n)
    OBVIOUS
  <1>3. PICK b : b = SubSeq(inbox[p], n + 1, Len(inbox[p]))
    OBVIOUS
  <1>4. /\ a \in Seq(Envelopes) /\ b \in Seq(Envelopes) /\ Shrunk(b, inbox[p])
        /\ \A x \in Range(inbox[p]) : x \in Range(b) \/ x \in Range(a)
    BY <1>1, <1>2, <1>3, RestKeeps
  <1>5. lost' = lost \union Of(a) \union tasks /\ inbox' = [inbox EXCEPT ![p] = b]
    BY <1>2, <1>3 DEF Lose
  <1>6. \A x \in Range(a) : x.of \in Of(a)
    BY DEF Of, Range
  <1>7. Of(a) \subseteq Messages
    <2>1. Range(a) \subseteq Envelopes
      BY <1>4, Places
    <2>2. \A i \in DOMAIN a : a[i] \in Envelopes
      BY <2>1 DEF Range
    <2>. QED
      BY <2>2, EnvelopeIs DEF Of
  <1>8. inbox'[p] = b /\ inbox' \in [Peers -> Seq(Envelopes)]
        /\ \A q \in Peers \ {p} : inbox'[q] = inbox[q]
    BY <1>1, <1>4, <1>5
  <1>. QED
    BY <1>1, <1>4, <1>5, <1>6, <1>7, <1>8

-----------------------------------------------------------------------------
(* What the actions do, as far as the invariant is concerned               *)

\* Only the call, the request and what the sender records of them change.
CallChanges(m) ==
  /\ Typed'
  /\ line' = line /\ work' = work /\ known' = known /\ lost' = lost
  /\ \A n \in Messages \ {m} : call'[n] = call[n] /\ post'[n] = post[n]
  /\ call'[m] = "none" <=> call[m] = "none"
  /\ call'[m] = "giving up" => m \in Asks

\* The relay has nothing new: the call goes on or ends, the request is closed, or
\* kept in the outbox.
Unsent(m) ==
  /\ CallChanges(m) /\ inbox' = inbox
  /\ post'[m] = post[m] \/ (post[m] # "none" /\ post'[m] = "closed")
       \/ (post[m] = "under way" /\ post'[m] = "outbox")
  /\ call'[m] = "ok" => call[m] = "ok" \/ post[m] = "answered"
  /\ \/ SameTables
     \/ /\ post[m] = "answered" /\ call[m] = "waiting"
        /\ thread'[m.from] = thread[m.from] \union {Row("reply", m)}
        /\ \A p \in Peers \ {m.from} : thread'[p] = thread[p]

\* The message itself goes into the inbox of its addressee.
Sent(m) ==
  /\ CallChanges(m) /\ SameTables
  /\ inbox'[m.to] = Append(inbox[m.to], Carry(m))
  /\ \A p \in Peers \ {m.to} : inbox'[p] = inbox[p]
  /\ post[m] \in {"under way", "outbox"}
  /\ post'[m] = "closed" \/ (post'[m] = "open" /\ m \in Asks)
  /\ call'[m] = "ok" => call[m] = "ok" \/ m \notin Asks

\* Its cancel does.
Recalled(m) ==
  /\ CallChanges(m) /\ SameTables /\ post' = post
  /\ inbox'[m.to] = Append(inbox[m.to], Cancel(m))
  /\ \A p \in Peers \ {m.to} : inbox'[p] = inbox[p]
  /\ call'[m] # "ok" /\ m \in Asks

LEMMA UnsentSteps ==
  ASSUME Typed, Placed, NEW m \in Messages,
         \/ PostFails(m) \/ RelayTimesOut(m) \/ ClientTimesOut(m) \/ Answered(m) \/ Abort(m)
         \/ Flushed(m) /\ inbox' = inbox
         \/ SendCancel(m) /\ inbox' = inbox
  PROVE  Unsent(m)
  <1>0. /\ call \in [Messages -> Calls] /\ post \in [Messages -> Posts]
        /\ told \subseteq Asks /\ m.from \in Peers /\ Row("reply", m) \in Rows
        /\ m \in Asks <=> m.kind = "ask"
    BY MessageFacts DEF Typed
  <1>c. /\ call[m] = "none" => post[m] = "none"
        /\ call[m] = "giving up" => m \in Asks
    BY DEF Placed
  <1>1. inbox' = inbox /\ line' = line /\ work' = work /\ known' = known /\ lost' = lost
    BY DEF PostFails, RelayTimesOut, ClientTimesOut, Answered, Abort, Flushed, SendCancel,
       taskVars, threadVars, requestVars
  <1>2. \/ post' = post
        \/ post[m] # "none" /\ post' = [post EXCEPT ![m] = "closed"]
        \/ post[m] = "under way" /\ post' = [post EXCEPT ![m] = "outbox"]
    BY DEF PostFails, RelayTimesOut, ClientTimesOut, Answered, Abort, Flushed, SendCancel
  <1>3. /\ post' \in [Messages -> Posts]
        /\ post'[m] = post[m] \/ (post[m] # "none" /\ post'[m] = "closed")
             \/ (post[m] = "under way" /\ post'[m] = "outbox")
        /\ \A n \in Messages \ {m} : post'[n] = post[n]
    BY <1>0, <1>2 DEF Posts
  <1>4. PICK s \in Calls :
          /\ call' = [call EXCEPT ![m] = s]
          /\ s = "none" <=> call[m] = "none"
          /\ s = "giving up" => m \in Asks
          /\ s = "ok" => call[m] = "ok" \/ post[m] = "answered"
    <2>1. CASE PostFails(m)
      <3>1. \/ /\ m.kind = "ask" /\ \E s \in {"error", "giving up"} : Resumes(m, s)
            \/ Resumes(m, "error") \/ Resumes(m, "queued")
        BY <2>1 DEF PostFails
      <3>. QED
        BY <1>0, <1>c, <3>1 DEF Resumes, Calls
    <2>2. CASE RelayTimesOut(m)
      <3>1. m.kind = "ask" /\ Resumes(m, "giving up")
        BY <2>2 DEF RelayTimesOut
      <3>. QED
        BY <1>0, <1>c, <3>1 DEF Resumes, Calls
    <2>3. CASE ClientTimesOut(m)
      BY <1>0, <2>3 DEF ClientTimesOut, Calls
    <2>4. CASE Answered(m)
      <3>1. post[m] = "answered" /\ Resumes(m, "ok")
        BY <2>4 DEF Answered
      <3>. QED
        BY <1>0, <1>c, <3>1 DEF Resumes, Calls
    <2>5. CASE Abort(m)
      BY <1>0, <2>5 DEF Abort, Calls, InProgress
    <2>6. CASE Flushed(m)
      <3>1. call' = call
        BY <2>6 DEF Flushed
      <3>2. call' = [call EXCEPT ![m] = call[m]]
        BY <1>0, <3>1
      <3>. QED
        BY <1>0, <1>c, <3>2
    <2>7. CASE SendCancel(m)
      BY <1>0, <2>7 DEF SendCancel, Calls
    <2>. QED
      BY <2>1, <2>2, <2>3, <2>4, <2>5, <2>6, <2>7
  <1>5. /\ call' \in [Messages -> Calls] /\ call'[m] = s
        /\ \A n \in Messages \ {m} : call'[n] = call[n]
    BY <1>0, <1>4
  <1>6. SameTables \/ (post[m] = "answered" /\ call[m] = "waiting" /\ Recorded(m.from, "reply", m))
    BY TablesStay DEF PostFails, RelayTimesOut, ClientTimesOut, Answered, Abort, Flushed, SendCancel,
       taskVars, threadVars, requestVars
  <1>7. /\ table' \in [Peers -> Seq(Rows)] /\ thread' \in [Peers -> SUBSET Rows]
        /\ \/ SameTables
           \/ /\ post[m] = "answered" /\ call[m] = "waiting"
              /\ thread'[m.from] = thread[m.from] \union {Row("reply", m)}
              /\ \A p \in Peers \ {m.from} : thread'[p] = thread[p]
    <2>1. CASE SameTables
      BY <2>1 DEF Typed, SameTables
    <2>2. CASE post[m] = "answered" /\ call[m] = "waiting" /\ Recorded(m.from, "reply", m)
      BY <1>0, <2>2, RecordedTyped
    <2>. QED
      BY <1>6, <2>1, <2>2
  <1>8. faults' = faults \/ Fault
    BY DEF PostFails, RelayTimesOut, ClientTimesOut, Answered, Abort, Flushed, SendCancel,
       taskVars, threadVars, requestVars
  <1>9. faults' \in 0..MaxFaults
    BY <1>8, FaultTyped DEF Typed
  <1>10. told' \subseteq Asks
    <2>1. told' = told \/ (call[m] = "giving up" /\ told' = told \union {m})
      BY DEF PostFails, RelayTimesOut, ClientTimesOut, Answered, Abort, Flushed, SendCancel
    <2>. QED
      BY <1>0, <1>c, <2>1
  <1>11. Typed'
    BY <1>1, <1>3, <1>5, <1>7, <1>9, <1>10 DEF Typed
  <1>. QED
    BY <1>1, <1>3, <1>4, <1>5, <1>7, <1>11 DEF Unsent, CallChanges

LEMMA SentSteps ==
  ASSUME Typed, Placed, NEW m \in Messages,
         PostTaken(m) \/ (Flushed(m) /\ inbox' # inbox)
  PROVE  Sent(m)
  <1>0. /\ call \in [Messages -> Calls] /\ post \in [Messages -> Posts]
        /\ told \subseteq Asks /\ m.to \in Peers /\ Carry(m) \in Envelopes
        /\ m \in Asks <=> m.kind = "ask"
    BY MessageFacts DEF Typed
  <1>c. call[m] = "giving up" => m \in Asks
    BY DEF Placed
  <1>1. /\ line' = line /\ work' = work /\ known' = known /\ lost' = lost /\ SameTables
        /\ told' = told /\ faults' = faults /\ Put(m.to, Carry(m))
        /\ post[m] \in {"under way", "outbox"}
    BY TablesStay DEF PostTaken, Flushed, taskVars, threadVars
  <1>2. /\ inbox' \in [Peers -> Seq(Envelopes)]
        /\ inbox'[m.to] = Append(inbox[m.to], Carry(m))
        /\ \A p \in Peers \ {m.to} : inbox'[p] = inbox[p]
    BY <1>0, <1>1, PutTyped
  <1>3. \/ m \in Asks /\ post' = [post EXCEPT ![m] = "open"] /\ call' = call
        \/ m \notin Asks /\ post' = [post EXCEPT ![m] = "closed"] /\ Resumes(m, "ok")
        \/ post' = [post EXCEPT ![m] = "closed"] /\ call' = call
    BY <1>0 DEF PostTaken, Flushed
  <1>4. /\ post' \in [Messages -> Posts]
        /\ post'[m] = "closed" \/ (post'[m] = "open" /\ m \in Asks)
        /\ \A n \in Messages \ {m} : post'[n] = post[n]
    BY <1>0, <1>3 DEF Posts
  <1>5. /\ call' \in [Messages -> Calls]
        /\ \A n \in Messages \ {m} : call'[n] = call[n]
        /\ call'[m] = call[m] \/ (m \notin Asks /\ call[m] = "waiting" /\ call'[m] = "ok")
    BY <1>0, <1>3, ResumesTyped DEF Calls
  <1>6. Typed'
    BY <1>1, <1>2, <1>4, <1>5 DEF Typed, SameTables
  <1>. QED
    BY <1>c, <1>1, <1>2, <1>4, <1>5, <1>6 DEF Sent, CallChanges

LEMMA RecalledStep ==
  ASSUME Typed, Placed, NEW m \in Messages, SendCancel(m), inbox' # inbox
  PROVE  Recalled(m)
  <1>0. call \in [Messages -> Calls] /\ told \subseteq Asks /\ m.to \in Peers
    BY MessageFacts DEF Typed
  <1>1. /\ line' = line /\ work' = work /\ known' = known /\ lost' = lost /\ SameTables
        /\ post' = post /\ faults' = faults /\ Put(m.to, Cancel(m)) /\ call[m] = "giving up"
        /\ call' = [call EXCEPT ![m] = "error"] /\ told' \subseteq told \union {m}
    BY TablesStay DEF SendCancel, taskVars, threadVars
  <1>2. m \in Asks /\ Cancel(m) \in Envelopes
    BY <1>1, MessageFacts DEF Placed
  <1>3. /\ inbox' \in [Peers -> Seq(Envelopes)]
        /\ inbox'[m.to] = Append(inbox[m.to], Cancel(m))
        /\ \A p \in Peers \ {m.to} : inbox'[p] = inbox[p]
    BY <1>0, <1>1, <1>2, PutTyped
  <1>4. /\ call' \in [Messages -> Calls] /\ call'[m] = "error"
        /\ \A n \in Messages \ {m} : call'[n] = call[n]
    BY <1>0, <1>1 DEF Calls
  <1>5. Typed'
    BY <1>0, <1>1, <1>2, <1>3, <1>4 DEF Typed, SameTables
  <1>. QED
    BY <1>1, <1>2, <1>3, <1>4, <1>5 DEF Recalled, CallChanges

\* The call begins.
Begun(m) ==
  /\ Typed'
  /\ inbox' = inbox /\ line' = line /\ work' = work /\ lost' = lost
  /\ call[m] = "none" /\ call'[m] = "waiting" /\ post'[m] = "under way"
  /\ \A n \in Messages \ {m} : call'[n] = call[n] /\ post'[n] = post[n] /\ known'[n] = known[n]
  /\ thread'[m.from] = thread[m.from] \union {Row(m.kind, m)}
  /\ \A p \in Peers \ {m.from} : thread'[p] = thread[p]
  /\ known'[m] = Exchanged(m)

LEMMA BegunStep ==
  ASSUME Typed, NEW m \in Messages, Begin(m)
  PROVE  Begun(m)
  <1>0. /\ call \in [Messages -> Calls] /\ post \in [Messages -> Posts]
        /\ known \in [Messages -> SUBSET Rows]
        /\ m.from \in Peers /\ Row(m.kind, m) \in Rows
    BY MessageFacts DEF Typed
  <1>1. /\ inbox' = inbox /\ line' = line /\ work' = work /\ lost' = lost
        /\ told' = told /\ faults' = faults /\ call[m] = "none"
        /\ call' = [call EXCEPT ![m] = "waiting"] /\ post' = [post EXCEPT ![m] = "under way"]
        /\ Recorded(m.from, m.kind, m) /\ known' = [known EXCEPT ![m] = Exchanged(m)]
    BY DEF Begin, taskVars
  <1>2. Exchanged(m) \subseteq Rows
    <2>1. ASSUME NEW r \in Exchanged(m) PROVE r \in Rows
      <3>1. PICK x \in Messages : r = Row(x.kind, x) \/ r = Row("reply", x)
        BY <2>1 DEF Exchanged
      <3>. QED
        BY <3>1, MessageFacts
    <2>. QED
      BY <2>1
  <1>3. /\ table' \in [Peers -> Seq(Rows)] /\ thread' \in [Peers -> SUBSET Rows]
        /\ thread'[m.from] = thread[m.from] \union {Row(m.kind, m)}
        /\ \A p \in Peers \ {m.from} : thread'[p] = thread[p]
    BY <1>0, <1>1, RecordedTyped
  <1>4. /\ call' \in [Messages -> Calls] /\ post' \in [Messages -> Posts]
        /\ call'[m] = "waiting" /\ post'[m] = "under way"
        /\ \A n \in Messages \ {m} : call'[n] = call[n] /\ post'[n] = post[n]
    BY <1>0, <1>1 DEF Calls, Posts
  <1>5. /\ known' \in [Messages -> SUBSET Rows] /\ known'[m] = Exchanged(m)
        /\ \A n \in Messages \ {m} : known'[n] = known[n]
    BY <1>0, <1>1, <1>2
  <1>6. Typed'
    BY <1>1, <1>3, <1>4, <1>5 DEF Typed
  <1>. QED
    BY <1>1, <1>3, <1>4, <1>5, <1>6 DEF Begun

\* Messages and tasks are lost, or a cancel ends one; some calls end with a claude.
Dropped ==
  /\ Typed'
  /\ post' = post /\ SameTables /\ known' = known /\ lost \subseteq lost'
  /\ \A m \in Messages : call'[m] = call[m] \/ (call'[m] = "gone" /\ call[m] \in InProgress)
  /\ \A m \in Messages :
       \/ work'[m] = work[m]
       \/ work[m] # "none" /\ work'[m] = "done" /\ \A p \in Peers : m \notin Range(line'[p])
  /\ \A p \in Peers :
       /\ Shrunk(inbox'[p], inbox[p]) /\ Shrunk(line'[p], line[p])
       /\ \A x \in Range(inbox[p]) : x \in Range(inbox'[p]) \/ x.of \in lost' \/ x.of \in Asks
       /\ \A m \in Range(line[p]) : m \in Range(line'[p]) \/ m \in lost' \/ m \in Asks

LEMMA ShrunkSame == \A s : Shrunk(s, s)
  BY DEF Shrunk

LEMMA PollLostStep ==
  ASSUME Typed, NEW p \in Peers, PollLost(p)
  PROVE  Dropped
  <1>1. /\ call' = call /\ post' = post /\ line' = line /\ work' = work /\ SameTables
        /\ known' = known /\ told' = told /\ Fault
        /\ \E n \in 1..Len(inbox[p]) : Lose(p, n, {})
    BY TablesStay DEF PollLost, requestVars, taskVars, threadVars
  <1>2. PICK n \in 0..Len(inbox[p]) : Lose(p, n, {})
    <2>1. Len(inbox[p]) \in Nat
      BY LenProperties DEF Typed
    <2>. QED
      BY <1>1, <2>1
  <1>3. /\ lost \subseteq lost' /\ lost' \subseteq Messages
        /\ inbox' \in [Peers -> Seq(Envelopes)]
        /\ Shrunk(inbox'[p], inbox[p])
        /\ \A x \in Range(inbox[p]) : x \in Range(inbox'[p]) \/ x.of \in lost'
        /\ \A q \in Peers \ {p} : inbox'[q] = inbox[q]
    BY <1>2, LoseTyped
  <1>4. faults' \in 0..MaxFaults
    BY <1>1, FaultTyped
  <1>5. Typed'
    BY <1>1, <1>3, <1>4 DEF Typed, SameTables
  <1>6. ASSUME NEW q \in Peers
        PROVE  /\ Shrunk(inbox'[q], inbox[q]) /\ Shrunk(line'[q], line[q])
               /\ \A x \in Range(inbox[q]) : x \in Range(inbox'[q]) \/ x.of \in lost'
    BY <1>1, <1>3, ShrunkSame
  <1>. QED
    BY <1>1, <1>3, <1>5, <1>6 DEF Dropped

LEMMA RestartStep ==
  ASSUME Typed, Placed, NEW p \in Peers, Restart(p)
  PROVE  Dropped
  <1>0. /\ work \in [Messages -> {"none", "queued", "claude", "replying", "done"}]
        /\ line \in [Peers -> Seq(Messages)] /\ line[p] \in Seq(Messages)
    BY DEF Typed
  <1>1. /\ post' = post /\ SameTables /\ known' = known /\ told' = told /\ Fault
        /\ Hangup({m \in Asks : m.to = p /\ work[m] = "claude"})
        /\ work' = [m \in Messages |-> IF m.to = p /\ work[m] # "none" THEN "done" ELSE work[m]]
        /\ line' = [line EXCEPT ![p] = <<>>]
    BY TablesStay DEF Restart, threadVars
  <1>2. PICK tasks \in SUBSET Messages : tasks = Range(line[p])
    BY <1>0, Places
  <1>3. PICK n \in 0..Len(inbox[p]) : Lose(p, n, tasks)
    BY <1>2 DEF Restart
  <1>4. /\ lost \subseteq lost' /\ tasks \subseteq lost' /\ lost' \subseteq Messages
        /\ inbox' \in [Peers -> Seq(Envelopes)]
        /\ Shrunk(inbox'[p], inbox[p])
        /\ \A x \in Range(inbox[p]) : x \in Range(inbox'[p]) \/ x.of \in lost'
        /\ \A q \in Peers \ {p} : inbox'[q] = inbox[q]
    BY <1>3, LoseTyped
  <1>5. /\ call' \in [Messages -> Calls]
        /\ \A m \in Messages : call'[m] = call[m] \/ (call'[m] = "gone" /\ call[m] \in InProgress)
    <2>1. PICK asks : asks = {m \in Asks : m.to = p /\ work[m] = "claude"}
      OBVIOUS
    <2>. QED
      BY <1>1, <2>1, HangupTyped
  <1>6. PICK e : e = <<>>
    OBVIOUS
  <1>7. e \in Seq(Messages) /\ Range(e) = {} /\ Shrunk(e, line[p])
    BY <1>0, <1>6, EmptyShrinks
  <1>8. /\ line' \in [Peers -> Seq(Messages)] /\ line'[p] = e
        /\ \A q \in Peers \ {p} : line'[q] = line[q]
    BY <1>0, <1>1, <1>6, <1>7
  <1>9. work' \in [Messages -> {"none", "queued", "claude", "replying", "done"}]
    BY <1>0, <1>1
  <1>10. faults' \in 0..MaxFaults
    BY <1>1, FaultTyped
  <1>11. Typed'
    BY <1>1, <1>4, <1>5, <1>8, <1>9, <1>10 DEF Typed, SameTables
  <1>12. ASSUME NEW m \in Messages
         PROVE  \/ work'[m] = work[m]
                \/ work[m] # "none" /\ work'[m] = "done"
                   /\ \A q \in Peers : m \notin Range(line'[q])
    <2>1. CASE m.to = p /\ work[m] # "none"
      <3>1. work'[m] = "done"
        BY <1>1, <2>1
      <3>2. \A q \in Peers : m \in Range(line[q]) => q = p
        BY <2>1 DEF Placed
      <3>3. \A q \in Peers : m \notin Range(line'[q])
        BY <1>7, <1>8, <3>2
      <3>. QED
        BY <2>1, <3>1, <3>3
    <2>2. CASE ~(m.to = p /\ work[m] # "none")
      BY <1>1, <2>2
    <2>. QED
      BY <2>1, <2>2
  <1>13. ASSUME NEW q \in Peers
         PROVE  /\ Shrunk(inbox'[q], inbox[q]) /\ Shrunk(line'[q], line[q])
                /\ \A x \in Range(inbox[q]) : x \in Range(inbox'[q]) \/ x.of \in lost'
                /\ \A m \in Range(line[q]) : m \in Range(line'[q]) \/ m \in lost'
    BY <1>2, <1>4, <1>7, <1>8, ShrunkSame
  <1>. QED
    BY <1>1, <1>4, <1>5, <1>11, <1>12, <1>13 DEF Dropped

\* The oldest envelope of an inbox is taken out of it.
LEMMA HeadTaken ==
  ASSUME Typed, Placed, NEW p \in Peers, inbox[p] # <<>>, inbox' = [inbox EXCEPT ![p] = Tail(@)]
  PROVE  /\ Head(inbox[p]) \in Envelopes
         /\ inbox' \in [Peers -> Seq(Envelopes)]
         /\ Head(inbox[p]) \in Range(inbox[p])
         /\ \A q \in Peers : Shrunk(inbox'[q], inbox[q])
         /\ \A q \in Peers \ {p} : inbox'[q] = inbox[q]
         /\ \A x \in Range(inbox[p]) : x = Head(inbox[p]) \/ x \in Range(inbox'[p])
         /\ \A x \in Range(inbox'[p]) : Before(Head(inbox[p]), x, inbox[p])
  <1>1. inbox \in [Peers -> Seq(Envelopes)] /\ inbox[p] \in Seq(Envelopes)
    BY DEF Typed
  <1>2. PICK h : h = Head(inbox[p])
    OBVIOUS
  <1>3. PICK t : t = Tail(inbox[p])
    OBVIOUS
  <1>4. /\ h \in Envelopes /\ t \in Seq(Envelopes)
        /\ \A x : x \in Range(inbox[p]) <=> x = h \/ x \in Range(t)
        /\ Shrunk(t, inbox[p])
        /\ \A x \in Range(t) : Before(h, x, inbox[p])
    BY <1>1, <1>2, <1>3, TailKeeps
  <1>5. /\ inbox' \in [Peers -> Seq(Envelopes)] /\ inbox'[p] = t
        /\ \A q \in Peers \ {p} : inbox'[q] = inbox[q]
    BY <1>1, <1>3, <1>4
  <1>. QED
    BY <1>2, <1>4, <1>5, ShrunkSame

LEMMA CancelStep ==
  ASSUME Typed, Placed, NEW p \in Peers, HandleCancel(p)
  PROVE  Dropped
  <1>0. /\ work \in [Messages -> {"none", "queued", "claude", "replying", "done"}]
        /\ line \in [Peers -> Seq(Messages)] /\ line[p] \in Seq(Messages)
    BY DEF Typed
  <1>1. /\ inbox[p] # <<>> /\ Head(inbox[p]).kind = "cancel"
        /\ inbox' = [inbox EXCEPT ![p] = Tail(@)]
        /\ post' = post /\ SameTables /\ known' = known /\ told' = told /\ lost' = lost
        /\ faults' = faults
    BY TablesStay DEF HandleCancel, threadVars
  <1>2. PICK h : h = Head(inbox[p])
    OBVIOUS
  <1>3. /\ h \in Envelopes /\ h \in Range(inbox[p])
        /\ inbox' \in [Peers -> Seq(Envelopes)]
        /\ \A q \in Peers : Shrunk(inbox'[q], inbox[q])
        /\ \A q \in Peers \ {p} : inbox'[q] = inbox[q]
        /\ \A x \in Range(inbox[p]) : x = h \/ x \in Range(inbox'[p])
    BY <1>1, <1>2, HeadTaken
  <1>4. PICK m \in Asks : m = h.of /\ h = Cancel(m) /\ m \in Messages
    BY <1>1, <1>2, <1>3, EnvelopeIs
  <1>5. m.to = p
    <2>1. Cancel(m) \in Range(inbox[p])
      BY <1>3, <1>4
    <2>. QED
      BY <1>4, <2>1 DEF Placed
  <1>6. \/ Cancellable(m) /\ work' = [work EXCEPT ![m] = "done"] /\ Leaves(p, m) /\ Hangup({m})
        \/ work' = work /\ line' = line /\ call' = call
    BY <1>2, <1>4 DEF HandleCancel
  <1>7. /\ call' \in [Messages -> Calls]
        /\ \A n \in Messages : call'[n] = call[n] \/ (call'[n] = "gone" /\ call[n] \in InProgress)
    <2>1. CASE Hangup({m})
      <3>1. PICK asks : asks = {m}
        OBVIOUS
      <3>. QED
        BY <2>1, <3>1, HangupTyped
    <2>2. CASE call' = call
      BY <2>2 DEF Typed
    <2>. QED
      BY <1>6, <2>1, <2>2
  <1>8. /\ line' \in [Peers -> Seq(Messages)]
        /\ \A q \in Peers : Shrunk(line'[q], line[q])
        /\ \A q \in Peers : \A x \in Range(line[q]) : x \in Range(line'[q]) \/ x = m
        /\ work' # work => m \notin Range(line'[p])
    <2>1. CASE line' = line
      <3>1. work' # work => Leaves(p, m)
        BY <1>6
      <3>2. ASSUME Leaves(p, m), m \in Range(line[p]) PROVE FALSE
        <4>1. PICK i \in DOMAIN line[p] :
                line[p][i] = m /\ line' = [line EXCEPT ![p] = RemoveAt(line[p], i)]
          BY <3>2 DEF Leaves
        <4>2. i \in 1..Len(line[p])
          BY <1>0, <4>1, LenProperties
        <4>3. ~Before(m, m, line[p])
          BY <1>4 DEF Placed
        <4>4. m \notin Range(RemoveAt(line[p], i))
          BY <1>0, <4>1, <4>2, <4>3, RemoveKeeps
        <4>5. line[p] = RemoveAt(line[p], i)
          BY <1>0, <2>1, <4>1
        <4>. QED
          BY <3>2, <4>4, <4>5
      <3>. QED
        BY <1>0, <2>1, <3>1, <3>2, ShrunkSame
    <2>2. CASE line' # line
      <3>1. Leaves(p, m)
        BY <1>6, <2>2
      <3>2. PICK i \in DOMAIN line[p] :
              line[p][i] = m /\ line' = [line EXCEPT ![p] = RemoveAt(line[p], i)]
        BY <2>2, <3>1 DEF Leaves
      <3>3. i \in 1..Len(line[p])
        BY <1>0, <3>2, LenProperties
      <3>4. PICK t : t = RemoveAt(line[p], i)
        OBVIOUS
      <3>5. ~Before(m, m, line[p])
        BY <1>4 DEF Placed
      <3>6. /\ t \in Seq(Messages) /\ Shrunk(t, line[p])
            /\ \A x \in Range(line[p]) : x = m \/ x \in Range(t)
            /\ m \notin Range(t)
        BY <1>0, <3>2, <3>3, <3>4, <3>5, RemoveKeeps
      <3>7. /\ line' \in [Peers -> Seq(Messages)] /\ line'[p] = t
            /\ \A q \in Peers \ {p} : line'[q] = line[q]
        BY <1>0, <3>2, <3>4, <3>6
      <3>8. ASSUME NEW q \in Peers
            PROVE  /\ Shrunk(line'[q], line[q])
                   /\ \A x \in Range(line[q]) : x \in Range(line'[q]) \/ x = m
        <4>1. CASE q = p
          BY <3>6, <3>7, <4>1
        <4>2. CASE q # p
          BY <3>7, <4>2, ShrunkSame
        <4>. QED
          BY <4>1, <4>2
      <3>. QED
        BY <3>6, <3>7, <3>8
    <2>. QED
      BY <2>1, <2>2
  <1>9. Typed'
    <2>1. work' \in [Messages -> {"none", "queued", "claude", "replying", "done"}]
      BY <1>0, <1>6
    <2>. QED
      BY <1>1, <1>3, <1>7, <1>8, <2>1 DEF Typed, SameTables
  <1>10. ASSUME NEW n \in Messages
         PROVE  \/ work'[n] = work[n]
                \/ work[n] # "none" /\ work'[n] = "done"
                   /\ \A q \in Peers : n \notin Range(line'[q])
    <2>1. CASE n # m \/ work' = work
      BY <1>0, <1>6, <2>1
    <2>2. CASE n = m /\ work' # work
      <3>1. work[n] # "none" /\ work'[n] = "done"
        BY <1>0, <1>6, <2>2 DEF Cancellable
      <3>2. ASSUME NEW q \in Peers PROVE n \notin Range(line'[q])
        <4>1. CASE q = p
          BY <1>8, <2>2, <4>1
        <4>2. CASE q # p
          <5>1. n \notin Range(line[q])
            BY <1>5, <2>2, <4>2 DEF Placed
          <5>. QED
            BY <1>8, <5>1 DEF Shrunk
        <4>. QED
          BY <4>1, <4>2
      <3>. QED
        BY <3>1, <3>2
    <2>. QED
      BY <2>1, <2>2
  <1>11. ASSUME NEW q \in Peers
         PROVE  \A x \in Range(inbox[q]) : x \in Range(inbox'[q]) \/ x.of \in Asks
    BY <1>3, <1>4
  <1>. QED
    BY <1>1, <1>3, <1>7, <1>8, <1>9, <1>10, <1>11 DEF Dropped

\* A message leaves the inbox, or a task the line; no other does.
LeavesQueues(m) ==
  \A p \in Peers :
    /\ Shrunk(inbox'[p], inbox[p]) /\ Carry(m) \notin Range(inbox'[p])
    /\ \A x \in Range(inbox[p]) : x \in Range(inbox'[p]) \/ x = Carry(m)

\* Its task gets a permit and handles it; it has overtaken no send.
Entered(m) ==
  /\ Typed'
  /\ call' = call /\ post' = post /\ lost' = lost
  /\ call[m] # "none" /\ post[m] \notin Unposted /\ work[m] \in {"none", "queued"}
  /\ PermitFree(m.to)
  /\ thread'[m.to] = thread[m.to] \union {Row(m.kind, m)}
  /\ \A p \in Peers \ {m.to} : thread'[p] = thread[p]
  /\ work'[m] = (IF m \in Asks THEN "claude" ELSE "done")
  /\ known'[m] \subseteq known[m]
  /\ m \in Asks => \A r \in known'[m] : r \notin thread[m.to] \/ OutOfReach(r, m)'
  /\ \A n \in Messages \ {m} : work'[n] = work[n] /\ known'[n] = known[n]
  /\ LeavesQueues(m)
  /\ \A p \in Peers :
       /\ Shrunk(line'[p], line[p]) /\ m \notin Range(line'[p])
       /\ \A x \in Range(line[p]) : x \in Range(line'[p]) \/ x = m
  /\ m \in Asks => \A x \in Messages : ~Ahead(x, m)

\* Its task has to wait for a permit.
Queued(m) ==
  /\ Typed'
  /\ call' = call /\ post' = post /\ lost' = lost /\ SameTables /\ known' = known
  /\ post[m] \notin Unposted /\ work[m] = "none" /\ work'[m] = "queued"
  /\ \A n \in Messages \ {m} : work'[n] = work[n]
  /\ LeavesQueues(m)
  /\ line'[m.to] = Append(line[m.to], m)
  /\ \A p \in Peers \ {m.to} : line'[p] = line[p]
  /\ m \in Asks => \A x \in Messages \ Asks :
       Carry(x) \in Range(inbox[m.to]) => Before(Carry(m), Carry(x), inbox[m.to])

LEMMA TurnStep ==
  ASSUME Typed, Placed, NEW p \in Peers, Turn(p)
  PROVE  \E m \in Messages : Entered(m) \/ Queued(m)
  <1>0. /\ work \in [Messages -> {"none", "queued", "claude", "replying", "done"}]
        /\ line \in [Peers -> Seq(Messages)] /\ line[p] \in Seq(Messages)
    BY DEF Typed
  <1>1. /\ inbox[p] # <<>> /\ Head(inbox[p]).kind # "cancel"
        /\ inbox' = [inbox EXCEPT ![p] = Tail(@)]
        /\ call' = call /\ post' = post /\ told' = told /\ lost' = lost /\ faults' = faults
    BY DEF Turn, requestVars
  <1>2. PICK h : h = Head(inbox[p])
    OBVIOUS
  <1>3. /\ h \in Envelopes /\ h \in Range(inbox[p])
        /\ inbox' \in [Peers -> Seq(Envelopes)]
        /\ \A q \in Peers : Shrunk(inbox'[q], inbox[q])
        /\ \A q \in Peers \ {p} : inbox'[q] = inbox[q]
        /\ \A x \in Range(inbox[p]) : x = h \/ x \in Range(inbox'[p])
        /\ \A x \in Range(inbox'[p]) : Before(h, x, inbox[p])
    BY <1>1, <1>2, HeadTaken
  <1>4. PICK m \in Messages : m = h.of /\ h = Carry(m)
    BY <1>1, <1>2, <1>3, EnvelopeIs
  <1>5. /\ m.to = p /\ work[m] = "none" /\ post[m] \notin Unposted /\ call[m] # "none"
        /\ ~Before(h, h, inbox[p])
    <2>1. m.to = p /\ work[m] = "none" /\ post[m] \notin Unposted
      <3>1. Carry(m) \in Range(inbox[p])
        BY <1>3, <1>4
      <3>. QED
        BY <1>4, <3>1 DEF Placed
    <2>3. ~Before(Carry(m), Carry(m), inbox[p])
      BY DEF Placed
    <2>2. ~Before(h, h, inbox[p])
      BY <1>4, <2>3
    <2>. QED
      BY <2>1, <2>2 DEF Placed, Unposted
  <1>6. LeavesQueues(m)
    <2>1. ASSUME NEW q \in Peers
          PROVE  /\ Carry(m) \notin Range(inbox'[q])
                 /\ \A x \in Range(inbox[q]) : x \in Range(inbox'[q]) \/ x = Carry(m)
      <3>1. CASE q = p
        BY <1>3, <1>4, <1>5, <3>1
      <3>2. CASE q # p
        <4>1. Carry(m) \notin Range(inbox[q])
          BY <1>5, <3>2 DEF Placed
        <4>. QED
          BY <1>3, <3>2, <4>1
      <3>. QED
        BY <3>1, <3>2
    <2>. QED
      BY <1>3, <2>1 DEF LeavesQueues
  <1>7. ASSUME NEW x \in Messages \ Asks, m \in Asks, Carry(x) \in Range(inbox[p])
        PROVE  Before(Carry(m), Carry(x), inbox[p])
    <2>1. Carry(x) # Carry(m)
      BY <1>7, EnvelopeFacts
    <2>2. Carry(x) \in Range(inbox'[p])
      BY <1>3, <1>4, <1>7, <2>1
    <2>. QED
      BY <1>3, <1>4, <2>2
  <1>8. CASE Open(p)
    <2>1. Enter(m) /\ line' = line
      BY <1>2, <1>4, <1>8 DEF Turn
    <2>2. /\ table' \in [Peers -> Seq(Rows)] /\ thread' \in [Peers -> SUBSET Rows]
          /\ thread'[m.to] = thread[m.to] \union {Row(m.kind, m)}
          /\ \A q \in Peers \ {m.to} : thread'[q] = thread[q]
          /\ work' \in [Messages -> {"none", "queued", "claude", "replying", "done"}]
          /\ work'[m] = (IF m \in Asks THEN "claude" ELSE "done")
          /\ \A n \in Messages \ {m} : work'[n] = work[n]
          /\ known' \in [Messages -> SUBSET Rows]
          /\ known'[m] \subseteq known[m]
          /\ m \in Asks => \A r \in known'[m] : r \notin thread[m.to] \/ OutOfReach(r, m)'
          /\ \A n \in Messages \ {m} : known'[n] = known[n]
      BY <2>1, EnterTyped
    <2>3. \A q \in Peers : m \notin Range(line[q])
      BY <1>5 DEF Placed
    <2>4. Typed'
      BY <1>1, <1>3, <2>1, <2>2 DEF Typed
    <2>5. PermitFree(m.to) /\ line[p] = <<>>
      BY <1>5, <1>8 DEF Open
    <2>6. Range(line[p]) = {}
      BY <2>5, <1>0, EmptyShrinks
    <2>7. ASSUME m \in Asks, NEW x \in Messages PROVE ~Ahead(x, m)
      BY <1>5, <1>7, <2>6, <2>7 DEF Ahead
    <2>8. ASSUME NEW q \in Peers
          PROVE  /\ Shrunk(line'[q], line[q]) /\ m \notin Range(line'[q])
                 /\ \A x \in Range(line[q]) : x \in Range(line'[q]) \/ x = m
      BY <2>1, <2>3, ShrunkSame
    <2>. QED
      BY <1>1, <1>5, <1>6, <2>2, <2>4, <2>5, <2>7, <2>8 DEF Entered
  <1>9. CASE ~Open(p)
    <2>1. /\ line' = [line EXCEPT ![p] = Append(@, m)]
          /\ work' = [work EXCEPT ![m] = "queued"]
          /\ SameTables /\ known' = known
      BY <1>2, <1>4, <1>9, TablesStay DEF Turn, threadVars
    <2>2. Append(line[p], m) \in Seq(Messages)
      BY <1>0, AppendKeeps
    <2>3. /\ line' \in [Peers -> Seq(Messages)] /\ line'[p] = Append(line[p], m)
          /\ \A q \in Peers \ {p} : line'[q] = line[q]
      BY <1>0, <2>1, <2>2
    <2>4. /\ work' \in [Messages -> {"none", "queued", "claude", "replying", "done"}]
          /\ work'[m] = "queued" /\ \A n \in Messages \ {m} : work'[n] = work[n]
      BY <1>0, <2>1
    <2>5. Typed'
      BY <1>1, <1>3, <2>1, <2>3, <2>4 DEF Typed, SameTables
    <2>. QED
      BY <1>1, <1>5, <1>6, <1>7, <2>1, <2>3, <2>4, <2>5 DEF Queued
  <1>. QED
    BY <1>8, <1>9

LEMMA AdmitStep ==
  ASSUME Typed, Placed, NEW p \in Peers, Admit(p)
  PROVE  \E m \in Messages : Entered(m)
  <1>0. line \in [Peers -> Seq(Messages)] /\ line[p] \in Seq(Messages)
    BY DEF Typed
  <1>1. /\ line[p] # <<>> /\ PermitFree(p) /\ line' = [line EXCEPT ![p] = Tail(@)]
        /\ Enter(Head(line[p]))
        /\ call' = call /\ post' = post /\ inbox' = inbox /\ told' = told /\ lost' = lost
        /\ faults' = faults
    BY DEF Admit, requestVars
  <1>2. PICK m : m = Head(line[p])
    OBVIOUS
  <1>3. PICK t : t = Tail(line[p])
    OBVIOUS
  <1>4. /\ m \in Messages /\ t \in Seq(Messages)
        /\ \A x : x \in Range(line[p]) <=> x = m \/ x \in Range(t)
        /\ Shrunk(t, line[p])
        /\ \A x \in Range(t) : Before(m, x, line[p])
    BY <1>0, <1>1, <1>2, <1>3, TailKeeps
  <1>5. /\ m.to = p /\ work[m] = "queued" /\ ~Before(m, m, line[p])
        /\ post[m] \notin Unposted /\ call[m] # "none"
    <2>1. m.to = p /\ work[m] = "queued" /\ ~Before(m, m, line[p])
      BY <1>4 DEF Placed
    <2>2. post[m] \notin Unposted
      BY <1>4, <2>1 DEF Placed
    <2>. QED
      BY <1>4, <2>1, <2>2 DEF Placed, Unposted
  <1>6. /\ line' \in [Peers -> Seq(Messages)] /\ line'[p] = t
        /\ \A q \in Peers \ {p} : line'[q] = line[q]
    BY <1>0, <1>1, <1>3, <1>4
  <1>7. /\ table' \in [Peers -> Seq(Rows)] /\ thread' \in [Peers -> SUBSET Rows]
        /\ thread'[m.to] = thread[m.to] \union {Row(m.kind, m)}
        /\ \A q \in Peers \ {m.to} : thread'[q] = thread[q]
        /\ work' \in [Messages -> {"none", "queued", "claude", "replying", "done"}]
        /\ work'[m] = (IF m \in Asks THEN "claude" ELSE "done")
        /\ \A n \in Messages \ {m} : work'[n] = work[n]
        /\ known' \in [Messages -> SUBSET Rows]
        /\ known'[m] \subseteq known[m]
        /\ m \in Asks => \A r \in known'[m] : r \notin thread[m.to] \/ OutOfReach(r, m)'
        /\ \A n \in Messages \ {m} : known'[n] = known[n]
    BY <1>1, <1>2, <1>4, EnterTyped
  <1>8. Typed'
    BY <1>1, <1>6, <1>7 DEF Typed
  <1>9. LeavesQueues(m)
    <2>1. \A q \in Peers : Carry(m) \notin Range(inbox[q])
      BY <1>4, <1>5 DEF Placed
    <2>. QED
      BY <1>1, <2>1, ShrunkSame DEF LeavesQueues
  <1>10. ASSUME NEW q \in Peers
         PROVE  /\ Shrunk(line'[q], line[q]) /\ m \notin Range(line'[q])
                /\ \A x \in Range(line[q]) : x \in Range(line'[q]) \/ x = m
    <2>1. CASE q = p
      BY <1>4, <1>5, <1>6, <2>1
    <2>2. CASE q # p
      <3>1. m \notin Range(line[q])
        BY <1>4, <1>5, <2>2 DEF Placed
      <3>. QED
        BY <1>6, <2>2, <3>1, ShrunkSame
    <2>. QED
      BY <2>1, <2>2
  <1>11. ASSUME m \in Asks, NEW x \in Messages PROVE ~Ahead(x, m)
    <2>1. m \in Range(line[p])
      BY <1>4
    <2>2. ASSUME x \in Range(line[p]), x \notin Asks PROVE Before(m, x, line[p])
      BY <1>4, <1>11, <2>2
    <2>. QED
      BY <1>5, <2>1, <2>2 DEF Ahead
  <1>. QED
    BY <1>1, <1>4, <1>5, <1>7, <1>8, <1>9, <1>10, <1>11 DEF Entered

\* claude has answered, or has been stopped.
Ended(m) ==
  /\ Typed'
  /\ post' = post /\ inbox' = inbox /\ line' = line /\ known' = known /\ lost' = lost
  /\ work[m] = "claude" /\ work'[m] = "replying"
  /\ \A n \in Messages \ {m} : work'[n] = work[n]
  /\ \A n \in Messages : call'[n] = call[n] \/ (call'[n] = "gone" /\ call[n] \in InProgress)
  /\ thread'[m.to] = thread[m.to] \union {Row("reply", m)}
  /\ \A p \in Peers \ {m.to} : thread'[p] = thread[p]

LEMMA EndedStep ==
  ASSUME Typed, NEW m \in Messages, ClaudeEnds(m)
  PROVE  Ended(m)
  <1>1. /\ post' = post /\ inbox' = inbox /\ line' = line /\ known' = known /\ lost' = lost
        /\ told' = told /\ faults' = faults
        /\ work[m] = "claude" /\ work' = [work EXCEPT ![m] = "replying"]
        /\ Recorded(m.to, "reply", m) /\ Hangup({m})
    BY DEF ClaudeEnds
  <1>2. work \in [Messages -> {"none", "queued", "claude", "replying", "done"}]
    BY DEF Typed
  <1>3. /\ work' \in [Messages -> {"none", "queued", "claude", "replying", "done"}]
        /\ work'[m] = "replying" /\ \A n \in Messages \ {m} : work'[n] = work[n]
    BY <1>1, <1>2
  <1>4. /\ call' \in [Messages -> Calls]
        /\ \A n \in Messages : call'[n] = call[n] \/ (call'[n] = "gone" /\ call[n] \in InProgress)
    <2>1. PICK asks : asks = {m}
      OBVIOUS
    <2>. QED
      BY <1>1, <2>1, HangupTyped
  <1>5. /\ table' \in [Peers -> Seq(Rows)] /\ thread' \in [Peers -> SUBSET Rows]
        /\ thread'[m.to] = thread[m.to] \union {Row("reply", m)}
        /\ \A p \in Peers \ {m.to} : thread'[p] = thread[p]
    BY <1>1, MessageFacts, RecordedTyped
  <1>6. Typed'
    BY <1>1, <1>3, <1>4, <1>5 DEF Typed
  <1>. QED
    BY <1>1, <1>3, <1>4, <1>5, <1>6 DEF Ended

\* The reply is posted, to an ask that is open or to none.
Replied(m) ==
  /\ Typed'
  /\ call' = call /\ inbox' = inbox /\ line' = line /\ SameTables /\ known' = known
  /\ lost' = lost
  /\ work[m] = "replying" /\ work'[m] = "done"
  /\ post'[m] = post[m] \/ (post[m] = "open" /\ post'[m] = "answered")
  /\ \A n \in Messages \ {m} : work'[n] = work[n] /\ post'[n] = post[n]

LEMMA RepliedStep ==
  ASSUME Typed, NEW m \in Messages, PostReply(m)
  PROVE  Replied(m)
  <1>1. /\ call' = call /\ inbox' = inbox /\ line' = line /\ SameTables
        /\ known' = known /\ told' = told /\ lost' = lost
        /\ work[m] = "replying" /\ work' = [work EXCEPT ![m] = "done"]
        /\ post' = post \/ (post[m] = "open" /\ post' = [post EXCEPT ![m] = "answered"])
        /\ faults' = faults \/ Fault
    BY TablesStay DEF PostReply, threadVars
  <1>2. /\ work \in [Messages -> {"none", "queued", "claude", "replying", "done"}]
        /\ post \in [Messages -> Posts]
    BY DEF Typed
  <1>3. /\ work' \in [Messages -> {"none", "queued", "claude", "replying", "done"}]
        /\ work'[m] = "done" /\ \A n \in Messages \ {m} : work'[n] = work[n]
    BY <1>1, <1>2
  <1>4. /\ post' \in [Messages -> Posts]
        /\ post'[m] = post[m] \/ (post[m] = "open" /\ post'[m] = "answered")
        /\ \A n \in Messages \ {m} : post'[n] = post[n]
    BY <1>1, <1>2 DEF Posts
  <1>5. faults' \in 0..MaxFaults
    BY <1>1, FaultTyped DEF Typed
  <1>6. Typed'
    BY <1>1, <1>3, <1>4, <1>5 DEF Typed, SameTables
  <1>. QED
    BY <1>1, <1>3, <1>4, <1>6 DEF Replied

\* Every step is one of these.
LEMMA Steps ==
  ASSUME Typed, Placed, Next
  PROVE  \/ \E m \in Messages :
              \/ Begun(m) \/ Unsent(m) \/ Sent(m) \/ Recalled(m) \/ Entered(m) \/ Queued(m)
              \/ Ended(m) \/ Replied(m)
         \/ Dropped
  <1>1. ASSUME NEW m \in Messages, Begin(m) PROVE Begun(m)
    BY <1>1, BegunStep
  <1>2. ASSUME NEW m \in Messages,
               PostFails(m) \/ RelayTimesOut(m) \/ ClientTimesOut(m) \/ Answered(m) \/ Abort(m)
        PROVE  Unsent(m)
    BY <1>2, UnsentSteps
  <1>3. ASSUME NEW m \in Messages, PostTaken(m) PROVE Sent(m)
    BY <1>3, SentSteps
  <1>4. ASSUME NEW m \in Messages, Flushed(m) PROVE Sent(m) \/ Unsent(m)
    BY <1>4, SentSteps, UnsentSteps
  <1>5. ASSUME NEW m \in Messages, SendCancel(m) PROVE Recalled(m) \/ Unsent(m)
    BY <1>5, RecalledStep, UnsentSteps
  <1>6. ASSUME NEW m \in Messages, ClaudeEnds(m) PROVE Ended(m)
    BY <1>6, EndedStep
  <1>7. ASSUME NEW m \in Messages, PostReply(m) PROVE Replied(m)
    BY <1>7, RepliedStep
  <1>8. ASSUME NEW p \in Peers, Turn(p) PROVE \E m \in Messages : Entered(m) \/ Queued(m)
    BY <1>8, TurnStep
  <1>9. ASSUME NEW p \in Peers, Admit(p) PROVE \E m \in Messages : Entered(m)
    BY <1>9, AdmitStep
  <1>10. ASSUME NEW p \in Peers, PollLost(p) \/ HandleCancel(p) \/ Restart(p) PROVE Dropped
    BY <1>10, PollLostStep, CancelStep, RestartStep
  <1>. QED
    BY <1>1, <1>2, <1>3, <1>4, <1>5, <1>6, <1>7, <1>8, <1>9, <1>10 DEF Next

LEMMA StepGrows ==
  ASSUME Typed, Placed, Next
  PROVE  Grows
  <1>1. ASSUME NEW m \in Messages, NEW p \in Peers,
               Recorded(p, m.kind, m) \/ Recorded(p, "reply", m)
        PROVE  Grows
    BY <1>1, MessageFacts, RecordedTyped
  <1>2. ASSUME NEW m \in Messages, Begin(m) \/ Answered(m) \/ ClaudeEnds(m)
        PROVE  Grows
    BY <1>1, <1>2, MessageFacts, TablesStay DEF Begin, Answered, ClaudeEnds
  <1>3. ASSUME NEW m \in Messages,
               \/ PostTaken(m) \/ PostFails(m) \/ Flushed(m) \/ RelayTimesOut(m)
               \/ ClientTimesOut(m) \/ SendCancel(m) \/ Abort(m) \/ PostReply(m)
        PROVE  Grows
    BY <1>3, TablesStay
       DEF PostTaken, PostFails, Flushed, RelayTimesOut, ClientTimesOut, SendCancel, Abort,
           PostReply, threadVars
  <1>4. ASSUME NEW p \in Peers, PollLost(p) \/ HandleCancel(p) \/ Restart(p)
        PROVE  Grows
    BY <1>4, TablesStay DEF PollLost, HandleCancel, Restart, threadVars
  <1>5. ASSUME NEW p \in Peers, Turn(p)
        PROVE  Grows
    <2>1. PICK m : m = Head(inbox[p]).of
      OBVIOUS
    <2>2. CASE Open(p)
      <3>1. Head(inbox[p]) \in Envelopes
        BY <1>5, HeadTaken DEF Turn
      <3>2. m \in Messages /\ Enter(m)
        BY <1>5, <2>1, <2>2, <3>1, EnvelopeIs DEF Turn
      <3>. QED
        BY <3>2, EnterTyped
    <2>3. CASE ~Open(p)
      BY <1>5, <2>1, <2>3, TablesStay DEF Turn, threadVars
    <2>. QED
      BY <2>2, <2>3
  <1>6. ASSUME NEW p \in Peers, Admit(p)
        PROVE  Grows
    <2>1. PICK m : m = Head(line[p])
      OBVIOUS
    <2>2. m \in Messages
      BY <1>6, <2>1, TailKeeps DEF Admit, Typed
    <2>. QED
      BY <1>6, <2>1, <2>2, EnterTyped DEF Admit
  <1>. QED
    BY <1>2, <1>3, <1>4, <1>5, <1>6 DEF Next

-----------------------------------------------------------------------------
(* Where messages are                                                      *)

\* What Placed says of one message in the queues of one peer.
Queues(p, m) ==
  /\ Carry(m) \in Range(inbox[p]) => m.to = p /\ work[m] = "none" /\ post[m] \notin Unposted
  /\ Cancel(m) \in Range(inbox[p]) => m.to = p
  /\ m \in Range(line[p]) => m.to = p /\ work[m] = "queued"
  /\ ~Before(Carry(m), Carry(m), inbox[p]) /\ ~Before(m, m, line[p])

\* And of its call and its request.
Request(m) ==
  /\ call[m] = "giving up" => m \in Asks
  /\ call[m] = "none" => post[m] = "none"
  /\ post[m] \in {"open", "answered"} => m \in Asks
  /\ post[m] \in Unposted => work[m] = "none"

LEMMA PlacedIs ==
  Placed <=> (\A m \in Messages : Request(m)) /\ (\A p \in Peers, m \in Messages : Queues(p, m))
  BY DEF Placed, Request, Queues

\* Nothing new comes in, and what is still there has not moved on.
LEMMA QueuesShrink ==
  ASSUME NEW p \in Peers, NEW m \in Messages, Queues(p, m),
         Shrunk(inbox'[p], inbox[p]), Shrunk(line'[p], line[p]),
         Carry(m) \in Range(inbox'[p]) =>
            work'[m] = work[m] /\ (post[m] \notin Unposted => post'[m] \notin Unposted),
         m \in Range(line'[p]) => work'[m] = work[m]
  PROVE  Queues(p, m)'
  BY DEF Queues, Shrunk

LEMMA PlacedInit == Init => Placed
  <1>. SUFFICES ASSUME Init PROVE Placed
    OBVIOUS
  <1>1. ASSUME NEW p \in Peers
        PROVE  /\ \A x : x \notin Range(inbox[p]) /\ x \notin Range(line[p])
               /\ \A x, y : ~Before(x, y, inbox[p]) /\ ~Before(x, y, line[p])
    <2>1. inbox[p] = <<>> /\ line[p] = <<>>
      BY <1>1 DEF Init
    <2>2. DOMAIN <<>> = {}
      OBVIOUS
    <2>. QED
      BY <2>1, <2>2 DEF Range, Before
  <1>2. \A p \in Peers, m \in Messages : Queues(p, m)
    BY <1>1 DEF Queues
  <1>3. \A m \in Messages : Request(m)
    BY DEF Init, Request, Unposted
  <1>. QED
    BY <1>2, <1>3 DEF Placed, Request, Queues

LEMMA PlacedBegun ==
  ASSUME Typed, Placed, NEW m \in Messages, Begun(m)
  PROVE  Placed'
  <1>1. post[m] = "none" /\ work[m] = "none"
    BY DEF Placed, Begun, Unposted
  <1>2. ASSUME NEW n \in Messages PROVE Request(n)'
    <2>1. Request(n)
      BY <1>2, PlacedIs
    <2>. QED
      BY <1>1, <1>2, <2>1 DEF Request, Begun, Unposted
  <1>3. ASSUME NEW p \in Peers, NEW n \in Messages PROVE Queues(p, n)'
    <2>1. Queues(p, n)
      BY <1>3, PlacedIs
    <2>2. n # m \/ Carry(n) \notin Range(inbox[p])
      BY <1>1, <2>1 DEF Queues, Unposted
    <2>3. n # m => post'[n] = post[n]
      BY <1>3 DEF Begun
    <2>. QED
      BY <2>1, <2>2, <2>3 DEF Queues, Begun
  <1>. QED
    BY <1>2, <1>3 DEF Placed, Request, Queues

LEMMA PlacedUnsent ==
  ASSUME Typed, Placed, NEW m \in Messages, Unsent(m)
  PROVE  Placed'
  <1>2. ASSUME NEW n \in Messages PROVE Request(n)'
    <2>1. Request(n)
      BY <1>2, PlacedIs
    <2>2. CASE n = m
      <3>1. call'[m] = "none" => post'[m] = "none"
        BY <2>1, <2>2 DEF Request, Unsent, CallChanges
      <3>2. post'[m] \in {"open", "answered"} => m \in Asks
        BY <2>1, <2>2 DEF Request, Unsent, CallChanges
      <3>3. post'[m] \in Unposted => work'[m] = "none"
        BY <2>1, <2>2 DEF Request, Unsent, CallChanges, Unposted
      <3>. QED
        BY <2>2, <3>1, <3>2, <3>3 DEF Request, Unsent, CallChanges
    <2>3. CASE n # m
      BY <1>2, <2>1, <2>3 DEF Request, Unsent, CallChanges
    <2>. QED
      BY <2>2, <2>3
  <1>3. ASSUME NEW p \in Peers, NEW n \in Messages PROVE Queues(p, n)'
    <2>1. Queues(p, n)
      BY <1>3, PlacedIs
    <2>2. post[n] \notin Unposted => post'[n] \notin Unposted
      <3>1. CASE n = m
        BY <3>1 DEF Unsent, Unposted
      <3>2. CASE n # m
        BY <1>3, <3>2 DEF Unsent, CallChanges
      <3>. QED
        BY <3>1, <3>2
    <2>. QED
      BY <2>1, <2>2 DEF Queues, Unsent, CallChanges
  <1>. QED
    BY <1>2, <1>3 DEF Placed, Request, Queues

LEMMA PlacedSent ==
  ASSUME Typed, Placed, NEW m \in Messages, Sent(m)
  PROVE  Placed'
  <1>1. /\ post[m] \in Unposted /\ work[m] = "none" /\ post'[m] \notin Unposted
        /\ m.to \in Peers /\ Carry(m) \in Envelopes /\ inbox[m.to] \in Seq(Envelopes)
    BY MessageFacts DEF Placed, Sent, Unposted, Typed
  <1>2. ASSUME NEW n \in Messages PROVE Request(n)'
    <2>1. Request(n)
      BY <1>2, PlacedIs
    <2>2. CASE n = m
      BY <1>1, <2>1, <2>2 DEF Request, Sent, CallChanges, Unposted
    <2>3. CASE n # m
      BY <1>2, <2>1, <2>3 DEF Request, Sent, CallChanges
    <2>. QED
      BY <2>2, <2>3
  <1>3. PICK t : t = inbox'[m.to]
    OBVIOUS
  <1>4. /\ \A x : x \in Range(t) <=> x \in Range(inbox[m.to]) \/ x = Carry(m)
        /\ \A x, y : Before(x, y, t) =>
             Before(x, y, inbox[m.to]) \/ (x \in Range(inbox[m.to]) /\ y = Carry(m))
    <2>1. t = Append(inbox[m.to], Carry(m))
      BY <1>3 DEF Sent
    <2>. QED
      BY <1>1, <2>1, AppendKeeps
  <1>5. ASSUME NEW p \in Peers, NEW n \in Messages PROVE Queues(p, n)'
    <2>1. Queues(p, n)
      BY <1>5, PlacedIs
    <2>2. n # m => post'[n] = post[n] /\ Carry(n) # Carry(m)
      BY <1>5, EnvelopeFacts DEF Sent, CallChanges
    <2>3. Cancel(n) # Carry(m)
      BY <1>5, EnvelopeFacts
    <2>4. work' = work /\ line' = line
      BY DEF Sent, CallChanges
    <2>5. CASE p # m.to
      <3>1. inbox'[p] = inbox[p]
        BY <1>5, <2>5 DEF Sent
      <3>. QED
        BY <1>1, <2>1, <2>2, <2>4, <3>1 DEF Queues
    <2>6. CASE p = m.to /\ n # m
      BY <1>3, <1>4, <2>1, <2>2, <2>3, <2>4, <2>6 DEF Queues
    <2>7. CASE p = m.to /\ n = m
      <3>1. Carry(m) \notin Range(inbox[p])
        BY <1>1, <2>1, <2>7 DEF Queues
      <3>. QED
        BY <1>1, <1>3, <1>4, <2>1, <2>3, <2>4, <2>7, <3>1 DEF Queues
    <2>. QED
      BY <2>5, <2>6, <2>7
  <1>. QED
    BY <1>2, <1>5 DEF Placed, Request, Queues

LEMMA PlacedRecalled ==
  ASSUME Typed, Placed, NEW m \in Messages, Recalled(m)
  PROVE  Placed'
  <1>1. /\ m.to \in Peers /\ Cancel(m) \in Envelopes /\ inbox[m.to] \in Seq(Envelopes)
    BY MessageFacts DEF Recalled, Typed
  <1>2. ASSUME NEW n \in Messages PROVE Request(n)'
    <2>1. Request(n)
      BY <1>2, PlacedIs
    <2>2. CASE n = m
      BY <2>1, <2>2 DEF Request, Recalled, CallChanges
    <2>3. CASE n # m
      BY <1>2, <2>1, <2>3 DEF Request, Recalled, CallChanges
    <2>. QED
      BY <2>2, <2>3
  <1>3. PICK t : t = inbox'[m.to]
    OBVIOUS
  <1>4. /\ \A x : x \in Range(t) <=> x \in Range(inbox[m.to]) \/ x = Cancel(m)
        /\ \A x, y : Before(x, y, t) =>
             Before(x, y, inbox[m.to]) \/ (x \in Range(inbox[m.to]) /\ y = Cancel(m))
    <2>1. t = Append(inbox[m.to], Cancel(m))
      BY <1>3 DEF Recalled
    <2>. QED
      BY <1>1, <2>1, AppendKeeps
  <1>5. ASSUME NEW p \in Peers, NEW n \in Messages PROVE Queues(p, n)'
    <2>1. Queues(p, n)
      BY <1>5, PlacedIs
    <2>2. Carry(n) # Cancel(m) /\ (Cancel(n) = Cancel(m) => n = m)
      BY <1>5, EnvelopeFacts
    <2>4. work' = work /\ line' = line /\ post' = post
      BY DEF Recalled, CallChanges
    <2>5. CASE p # m.to
      <3>1. inbox'[p] = inbox[p]
        BY <1>5, <2>5 DEF Recalled
      <3>. QED
        BY <2>1, <2>4, <3>1 DEF Queues
    <2>6. CASE p = m.to
      BY <1>3, <1>4, <2>1, <2>2, <2>4, <2>6 DEF Queues
    <2>. QED
      BY <2>5, <2>6
  <1>. QED
    BY <1>2, <1>5 DEF Placed, Request, Queues

LEMMA PlacedEntered ==
  ASSUME Typed, Placed, NEW m \in Messages, Entered(m)
  PROVE  Placed'
  <1>2. ASSUME NEW n \in Messages PROVE Request(n)'
    <2>1. Request(n)
      BY <1>2, PlacedIs
    <2>. QED
      BY <1>2, <2>1 DEF Request, Entered
  <1>3. ASSUME NEW p \in Peers, NEW n \in Messages PROVE Queues(p, n)'
    <2>1. Queues(p, n)
      BY <1>3, PlacedIs
    <2>2. Carry(n) \in Range(inbox'[p]) \/ n \in Range(line'[p]) => work'[n] = work[n]
      BY <1>3 DEF Entered, LeavesQueues
    <2>3. Shrunk(inbox'[p], inbox[p]) /\ Shrunk(line'[p], line[p]) /\ post' = post
      BY <1>3 DEF Entered, LeavesQueues
    <2>. QED
      BY <1>3, <2>1, <2>2, <2>3, QueuesShrink
  <1>. QED
    BY <1>2, <1>3 DEF Placed, Request, Queues

LEMMA PlacedQueued ==
  ASSUME Typed, Placed, NEW m \in Messages, Queued(m)
  PROVE  Placed'
  <1>1. m.to \in Peers /\ line[m.to] \in Seq(Messages)
    BY MessageFacts DEF Typed
  <1>2. ASSUME NEW n \in Messages PROVE Request(n)'
    <2>1. Request(n)
      BY <1>2, PlacedIs
    <2>. QED
      BY <1>2, <2>1 DEF Request, Queued
  <1>3. PICK t : t = line'[m.to]
    OBVIOUS
  <1>4. /\ \A x : x \in Range(t) <=> x \in Range(line[m.to]) \/ x = m
        /\ \A x, y : Before(x, y, t) =>
             Before(x, y, line[m.to]) \/ (x \in Range(line[m.to]) /\ y = m)
    BY <1>1, <1>3, AppendKeeps DEF Queued
  <1>5. ASSUME NEW p \in Peers, NEW n \in Messages PROVE Queues(p, n)'
    <2>1. Queues(p, n)
      BY <1>5, PlacedIs
    <2>2. post' = post /\ Shrunk(inbox'[p], inbox[p])
      BY <1>5 DEF Queued, LeavesQueues
    <2>3. /\ Carry(n) \in Range(inbox'[p]) => n # m /\ work'[n] = work[n]
          /\ n # m => work'[n] = work[n]
          /\ work[m] = "none" /\ work'[m] = "queued"
      BY <1>5 DEF Queued, LeavesQueues
    <2>4. /\ Carry(n) \in Range(inbox'[p]) => n.to = p /\ work'[n] = "none" /\ post'[n] \notin Unposted
          /\ Cancel(n) \in Range(inbox'[p]) => n.to = p
          /\ ~Before(Carry(n), Carry(n), inbox'[p])
      BY <2>1, <2>2, <2>3 DEF Queues, Shrunk
    <2>5. m \notin Range(line[p])
      <3>1. Queues(p, m)
        BY <1>5, PlacedIs
      <3>. QED
        BY <2>3, <3>1 DEF Queues
    <2>6. /\ n \in Range(line'[p]) => n.to = p /\ work'[n] = "queued"
          /\ ~Before(n, n, line'[p])
      <3>1. CASE p # m.to
        <4>1. line'[p] = line[p]
          BY <1>5, <3>1 DEF Queued
        <4>2. n \in Range(line[p]) => n # m
          BY <2>5
        <4>. QED
          BY <2>1, <2>3, <4>1, <4>2 DEF Queues
      <3>2. CASE p = m.to /\ n # m
        BY <1>3, <1>4, <2>1, <2>3, <3>2 DEF Queues
      <3>3. CASE p = m.to /\ n = m
        BY <1>3, <1>4, <2>1, <2>3, <2>5, <3>3 DEF Queues
      <3>. QED
        BY <3>1, <3>2, <3>3
    <2>. QED
      BY <2>4, <2>6 DEF Queues
  <1>. QED
    BY <1>2, <1>5 DEF Placed, Request, Queues

LEMMA PlacedEndedReplied ==
  ASSUME Typed, Placed, NEW m \in Messages, Ended(m) \/ Replied(m)
  PROVE  Placed'
  <1>1. ASSUME NEW n \in Messages PROVE Request(n)'
    <2>1. Request(n)
      BY <1>1, PlacedIs
    <2>2. CASE Ended(m)
      BY <1>1, <2>1, <2>2 DEF Request, Ended, InProgress
    <2>3. CASE Replied(m)
      BY <1>1, <2>1, <2>3 DEF Request, Replied, Unposted
    <2>. QED
      BY <2>2, <2>3
  <1>2. /\ inbox' = inbox /\ line' = line /\ work[m] \in {"claude", "replying"}
        /\ \A n \in Messages \ {m} : work'[n] = work[n] /\ post'[n] = post[n]
    BY DEF Ended, Replied
  <1>3. ASSUME NEW p \in Peers, NEW n \in Messages PROVE Queues(p, n)'
    <2>1. Queues(p, n)
      BY <1>3, PlacedIs
    <2>2. n = m => Carry(n) \notin Range(inbox[p]) /\ n \notin Range(line[p])
      BY <1>2, <2>1 DEF Queues
    <2>3. n # m => work'[n] = work[n] /\ post'[n] = post[n]
      BY <1>2, <1>3
    <2>. QED
      BY <1>2, <2>1, <2>2, <2>3 DEF Queues
  <1>. QED
    BY <1>1, <1>3 DEF Placed, Request, Queues

LEMMA PlacedDropped ==
  ASSUME Typed, Placed, Dropped
  PROVE  Placed'
  <1>1. ASSUME NEW n \in Messages PROVE Request(n)'
    <2>1. Request(n)
      BY <1>1, PlacedIs
    <2>2. /\ post' = post
          /\ call'[n] = call[n] \/ call'[n] = "gone"
          /\ work'[n] = work[n] \/ work[n] # "none"
      BY <1>1 DEF Dropped
    <2>. QED
      BY <2>1, <2>2 DEF Request
  <1>2. ASSUME NEW p \in Peers, NEW n \in Messages PROVE Queues(p, n)'
    <2>1. Queues(p, n)
      BY <1>2, PlacedIs
    <2>2. Shrunk(inbox'[p], inbox[p]) /\ Shrunk(line'[p], line[p]) /\ post' = post
      BY <1>2 DEF Dropped
    <2>3. /\ Carry(n) \in Range(inbox'[p]) => work[n] = "none"
          /\ work'[n] = work[n] \/ (work[n] # "none" /\ n \notin Range(line'[p]))
      BY <1>2, <2>1, <2>2 DEF Dropped, Queues, Shrunk
    <2>. QED
      BY <1>2, <2>1, <2>2, <2>3, QueuesShrink
  <1>. QED
    BY <1>1, <1>2 DEF Placed, Request, Queues

-----------------------------------------------------------------------------
(* The limit on what computes                                              *)

LEMMA LimitedInit == Init => Limited
  <1>. SUFFICES ASSUME Init, NEW p \in Peers PROVE Cardinality(Computing(p)) <= Concurrency
    BY DEF Limited
  <1>1. Computing(p) = {}
    BY DEF Init, Computing
  <1>. QED
    BY <1>1, FS_EmptySet, LimitsAssumption

LEMMA ComputingFinite == \A p : IsFiniteSet(Computing(p)) /\ Cardinality(Computing(p)) \in Nat
  <1>. SUFFICES ASSUME NEW p PROVE IsFiniteSet(Computing(p)) /\ Cardinality(Computing(p)) \in Nat
    OBVIOUS
  <1>1. Computing(p) \subseteq Messages
    BY DEF Computing
  <1>. QED
    BY <1>1, MessagesAssumption, FS_Subset, FS_CardinalityType

\* As long as nothing new computes, the limit holds.
LEMMA LimitedLess ==
  ASSUME Limited, \A p \in Peers : Computing(p)' \subseteq Computing(p)
  PROVE  Limited'
  <1>1. ASSUME NEW p \in Peers PROVE Cardinality(Computing(p)') <= Concurrency
    <2>1. PICK a : a = Computing(p)'
      OBVIOUS
    <2>2. a \subseteq Computing(p)
      BY <1>1, <2>1
    <2>3. IsFiniteSet(a) /\ Cardinality(a) <= Cardinality(Computing(p)) /\ Cardinality(a) \in Nat
      BY <2>2, ComputingFinite, FS_Subset, FS_CardinalityType
    <2>. QED
      BY <1>1, <2>1, <2>3, ComputingFinite, LimitsAssumption DEF Limited
  <1>. QED
    BY <1>1 DEF Limited

LEMMA LimitedEntered ==
  ASSUME Typed, Limited, NEW m \in Messages, Entered(m)
  PROVE  Limited'
  <1>1. ASSUME NEW p \in Peers PROVE Cardinality(Computing(p)') <= Concurrency
    <2>1. PICK a : a = Computing(p)'
      OBVIOUS
    <2>2. \A n \in Messages \ {m} : work'[n] = work[n]
      BY DEF Entered
    <2>3. CASE p = m.to
      <3>1. a \subseteq Computing(p) \union {m}
        BY <2>1, <2>2 DEF Computing
      <3>2. Cardinality(Computing(p)) < Concurrency
        BY <2>3 DEF Entered, PermitFree
      <3>3. /\ IsFiniteSet(Computing(p) \union {m})
            /\ Cardinality(Computing(p) \union {m}) <= Cardinality(Computing(p)) + 1
        <4>1. Cardinality(Computing(p) \union {m})
                = IF m \in Computing(p) THEN Cardinality(Computing(p))
                  ELSE Cardinality(Computing(p)) + 1
          BY ComputingFinite, FS_AddElement
        <4>2. IsFiniteSet(Computing(p) \union {m})
          BY ComputingFinite, FS_AddElement
        <4>3. Cardinality(Computing(p)) \in Nat
          BY ComputingFinite
        <4>. QED
          BY <4>1, <4>2, <4>3
      <3>4. Cardinality(a) <= Cardinality(Computing(p) \union {m}) /\ Cardinality(a) \in Nat
            /\ Cardinality(Computing(p) \union {m}) \in Nat
        BY <3>1, <3>3, FS_Subset, FS_CardinalityType
      <3>5. Cardinality(Computing(p)) \in Nat /\ Concurrency \in Nat
        BY ComputingFinite, LimitsAssumption
      <3>. QED
        BY <2>1, <3>2, <3>3, <3>4, <3>5
    <2>4. CASE p # m.to
      <3>1. a = Computing(p)
        BY <2>1, <2>2, <2>4 DEF Computing
      <3>. QED
        BY <1>1, <2>1, <3>1 DEF Limited
    <2>. QED
      BY <2>3, <2>4
  <1>. QED
    BY <1>1 DEF Limited

LEMMA LimitedStep ==
  ASSUME Typed, Limited,
         \/ \E m \in Messages :
              \/ Begun(m) \/ Unsent(m) \/ Sent(m) \/ Recalled(m) \/ Entered(m) \/ Queued(m)
              \/ Ended(m) \/ Replied(m)
         \/ Dropped
  PROVE  Limited'
  <1>1. CASE \E m \in Messages : Entered(m)
    BY <1>1, LimitedEntered
  <1>2. ASSUME NEW m \in Messages, Begun(m) \/ Unsent(m) \/ Sent(m) \/ Recalled(m)
        PROVE  Limited'
    <2>1. work' = work
      BY <1>2 DEF Begun, Unsent, Sent, Recalled, CallChanges
    <2>2. \A p \in Peers : Computing(p)' \subseteq Computing(p)
      BY <2>1 DEF Computing
    <2>. QED
      BY <2>2, LimitedLess
  <1>3. ASSUME NEW m \in Messages, Queued(m) \/ Ended(m) \/ Replied(m)
        PROVE  Limited'
    <2>1. /\ \A n \in Messages \ {m} : work'[n] = work[n]
          /\ work'[m] \in {"queued", "done"} \/ work[m] = "claude"
      BY <1>3 DEF Queued, Ended, Replied
    <2>2. \A p \in Peers : Computing(p)' \subseteq Computing(p)
      BY <2>1 DEF Computing
    <2>. QED
      BY <2>2, LimitedLess
  <1>4. CASE Dropped
    <2>1. \A n \in Messages : work'[n] = work[n] \/ work'[n] = "done"
      BY <1>4 DEF Dropped
    <2>2. \A p \in Peers : Computing(p)' \subseteq Computing(p)
      BY <2>1 DEF Computing
    <2>. QED
      BY <2>2, LimitedLess
  <1>. QED
    BY <1>1, <1>2, <1>3, <1>4

-----------------------------------------------------------------------------
(* Both ends of a thread record the same                                   *)

Origin(r) == IF r.kind = "reply" THEN r.of.to ELSE r.of.from

LEMMA OriginIs ==
  ASSUME NEW m \in Messages
  PROVE  Origin(Row(m.kind, m)) = m.from /\ Origin(Row("reply", m)) = m.to
  <1>1. m.kind # "reply"
    BY MessageFacts
  <1>. QED
    BY <1>1 DEF Origin, Row

\* One more row at p, which its origin has.
LEMMA MirrorGrows ==
  ASSUME Typed, ThreadsMirror, NEW p \in Peers, NEW r \in Rows,
         thread'[p] = thread[p] \union {r}, \A q \in Peers \ {p} : thread'[q] = thread[q],
         r \in thread'[Origin(r)]
  PROVE  ThreadsMirror' /\ \A q \in Peers : thread[q] \subseteq thread'[q]
  <1>1. \A q \in Peers : thread[q] \subseteq thread'[q]
    OBVIOUS
  <1>2. ASSUME NEW q \in Peers, NEW s \in thread'[q] PROVE s \in thread'[Origin(s)]
    <2>1. CASE s = r
      BY <2>1
    <2>2. CASE s # r
      <3>1. s \in thread[q]
        BY <1>2, <2>2
      <3>2. s \in thread[Origin(s)]
        BY <3>1 DEF ThreadsMirror, Origin
      <3>3. s \in Rows
        BY <3>1 DEF Typed
      <3>4. Origin(s) \in Peers
        <4>1. s.of \in Messages
          BY <3>3, RowFacts
        <4>. QED
          BY <4>1, MessageFacts DEF Origin
      <3>. QED
        BY <1>1, <3>2, <3>4
    <2>. QED
      BY <2>1, <2>2
  <1>. QED
    BY <1>1, <1>2 DEF ThreadsMirror, Origin

LEMMA MirroredInit == Init => Mirrored
  <1>. SUFFICES ASSUME Init PROVE Mirrored
    OBVIOUS
  <1>1. \A p \in Peers : thread[p] = {}
    <2>1. \A p \in Peers : table[p] = <<>> /\ \A S : <<>> \in Seq(S)
      BY EmptySeq DEF Init
    <2>. QED
      BY <2>1, EmptyShrinks DEF thread
  <1>2. (\A m \in Messages : call[m] = "none" /\ post[m] = "none" /\ work[m] = "none")
    BY DEF Init
  <1>. QED
    BY <1>1, <1>2 DEF Mirrored, ThreadsMirror

LEMMA MirroredStep ==
  ASSUME Typed, Placed, Mirrored,
         \/ \E m \in Messages :
              \/ Begun(m) \/ Unsent(m) \/ Sent(m) \/ Recalled(m) \/ Entered(m) \/ Queued(m)
              \/ Ended(m) \/ Replied(m)
         \/ Dropped
  PROVE  Mirrored'
  <1>0. /\ ThreadsMirror
        /\ \A m \in Messages :
             /\ call[m] # "none" => Row(m.kind, m) \in thread[m.from]
             /\ work[m] = "replying" \/ post[m] = "answered" => Row("reply", m) \in thread[m.to]
    BY DEF Mirrored
  <1>1. ASSUME NEW m \in Messages, Begun(m) PROVE Mirrored'
    <2>1. /\ m.from \in Peers /\ Row(m.kind, m) \in Rows
          /\ thread'[m.from] = thread[m.from] \union {Row(m.kind, m)}
          /\ \A q \in Peers \ {m.from} : thread'[q] = thread[q]
      BY <1>1, MessageFacts DEF Begun
    <2>2. ThreadsMirror' /\ \A q \in Peers : thread[q] \subseteq thread'[q]
      BY <1>0, <1>1, <2>1, OriginIs, MirrorGrows
    <2>3. ASSUME NEW n \in Messages
          PROVE  /\ call'[n] # "none" => Row(n.kind, n) \in thread'[n.from]
                 /\ work'[n] = "replying" \/ post'[n] = "answered" => Row("reply", n) \in thread'[n.to]
      <3>1. n.from \in Peers /\ n.to \in Peers
        BY MessageFacts
      <3>2. CASE n = m
        <4>1. post'[m] = "under way" /\ work' = work
          BY <1>1 DEF Begun
        <4>. QED
          BY <1>0, <2>1, <2>2, <3>1, <3>2, <4>1
      <3>3. CASE n # m
        <4>1. call'[n] = call[n] /\ post'[n] = post[n] /\ work' = work
          BY <1>1, <3>3 DEF Begun
        <4>. QED
          BY <1>0, <2>2, <3>1, <4>1
      <3>. QED
        BY <3>2, <3>3
    <2>. QED
      BY <2>2, <2>3 DEF Mirrored
  <1>2. ASSUME NEW m \in Messages, Unsent(m) PROVE Mirrored'
    <2>1. m.from \in Peers /\ m.to \in Peers /\ m.from # m.to /\ Row("reply", m) \in Rows
      BY <1>2, MessageFacts
    <2>2. ThreadsMirror' /\ \A q \in Peers : thread[q] \subseteq thread'[q]
      <3>1. CASE SameTables
        BY <1>0, <3>1 DEF ThreadsMirror, SameTables
      <3>2. CASE /\ post[m] = "answered"
                 /\ thread'[m.from] = thread[m.from] \union {Row("reply", m)}
                 /\ \A p \in Peers \ {m.from} : thread'[p] = thread[p]
        <4>1. Row("reply", m) \in thread'[m.to]
          BY <1>0, <1>2, <2>1, <3>2
        <4>. QED
          BY <1>0, <1>2, <2>1, <3>2, <4>1, OriginIs, MirrorGrows
      <3>. QED
        BY <1>2, <3>1, <3>2 DEF Unsent
    <2>3. ASSUME NEW n \in Messages
          PROVE  /\ call'[n] # "none" => Row(n.kind, n) \in thread'[n.from]
                 /\ work'[n] = "replying" \/ post'[n] = "answered" => Row("reply", n) \in thread'[n.to]
      <3>1. n.from \in Peers /\ n.to \in Peers
        BY MessageFacts
      <3>2. /\ work' = work
            /\ post'[n] = "answered" => post[n] = "answered"
        BY <1>2, <2>3 DEF Unsent, CallChanges
      <3>3. CASE n = m
        <4>1. call'[m] # "none" => call[m] # "none"
          BY <1>2 DEF Unsent, CallChanges
        <4>. QED
          BY <1>0, <2>2, <3>1, <3>2, <3>3, <4>1
      <3>4. CASE n # m
        <4>1. call'[n] = call[n]
          BY <1>2, <3>4 DEF Unsent, CallChanges
        <4>. QED
          BY <1>0, <2>2, <3>1, <3>2, <4>1
      <3>. QED
        BY <3>3, <3>4
    <2>. QED
      BY <2>2, <2>3 DEF Mirrored
  <1>3. ASSUME SameTables,
               \A n \in Messages :
                 /\ call'[n] # "none" => call[n] # "none"
                 /\ work'[n] = "replying" \/ post'[n] = "answered" =>
                      work[n] = "replying" \/ post[n] = "answered"
        PROVE  Mirrored'
    <2>1. ThreadsMirror'
      BY <1>0, <1>3 DEF ThreadsMirror, SameTables
    <2>. QED
      BY <1>0, <1>3, <2>1 DEF Mirrored, SameTables
  <1>4. ASSUME NEW m \in Messages, Sent(m) \/ Recalled(m) \/ Queued(m) \/ Replied(m)
        PROVE  Mirrored'
    <2>1. SameTables
      BY <1>4 DEF Sent, Recalled, Queued, Replied
    <2>2. ASSUME NEW n \in Messages
          PROVE  /\ call'[n] # "none" => call[n] # "none"
                 /\ work'[n] = "replying" \/ post'[n] = "answered" =>
                      work[n] = "replying" \/ post[n] = "answered"
      <3>1. CASE n = m
        BY <1>4, <3>1 DEF Sent, Recalled, Queued, Replied, CallChanges
      <3>2. CASE n # m
        BY <1>4, <2>2, <3>2 DEF Sent, Recalled, Queued, Replied, CallChanges
      <3>. QED
        BY <3>1, <3>2
    <2>. QED
      BY <1>3, <2>1, <2>2
  <1>5. CASE Dropped
    <2>1. SameTables /\ post' = post
      BY <1>5 DEF Dropped
    <2>2. ASSUME NEW n \in Messages
          PROVE  /\ call'[n] # "none" => call[n] # "none"
                 /\ work'[n] = "replying" => work[n] = "replying"
      BY <1>5, <2>2 DEF Dropped, InProgress
    <2>. QED
      BY <1>3, <2>1, <2>2
  <1>6. ASSUME NEW m \in Messages, Entered(m) PROVE Mirrored'
    <2>1. /\ m.to \in Peers /\ m.from \in Peers /\ m.from # m.to /\ Row(m.kind, m) \in Rows
          /\ thread'[m.to] = thread[m.to] \union {Row(m.kind, m)}
          /\ \A q \in Peers \ {m.to} : thread'[q] = thread[q]
          /\ call[m] # "none" /\ call' = call /\ post' = post
      BY <1>6, MessageFacts DEF Entered
    <2>2. Row(m.kind, m) \in thread'[m.from]
      BY <1>0, <2>1
    <2>3. ThreadsMirror' /\ \A q \in Peers : thread[q] \subseteq thread'[q]
      BY <1>0, <1>6, <2>1, <2>2, OriginIs, MirrorGrows
    <2>4. ASSUME NEW n \in Messages
          PROVE  /\ n.from \in Peers /\ n.to \in Peers
                 /\ work'[n] = "replying" => work[n] = "replying"
      BY <1>6, <2>4, MessageFacts DEF Entered
    <2>. QED
      BY <1>0, <2>1, <2>3, <2>4 DEF Mirrored
  <1>7. ASSUME NEW m \in Messages, Ended(m) PROVE Mirrored'
    <2>1. /\ m.to \in Peers /\ Row("reply", m) \in Rows
          /\ thread'[m.to] = thread[m.to] \union {Row("reply", m)}
          /\ \A q \in Peers \ {m.to} : thread'[q] = thread[q]
          /\ post' = post
      BY <1>7, MessageFacts DEF Ended
    <2>2. Row("reply", m) \in thread'[m.to]
      BY <2>1
    <2>3. ThreadsMirror' /\ \A q \in Peers : thread[q] \subseteq thread'[q]
      BY <1>0, <1>7, <2>1, <2>2, OriginIs, MirrorGrows
    <2>4. ASSUME NEW n \in Messages
          PROVE  /\ n.from \in Peers /\ n.to \in Peers
                 /\ call'[n] # "none" => call[n] # "none"
                 /\ work'[n] = "replying" => work[n] = "replying" \/ n = m
      BY <1>7, <2>4, MessageFacts DEF Ended, InProgress
    <2>. QED
      BY <1>0, <2>1, <2>2, <2>3, <2>4 DEF Mirrored
  <1>. QED
    BY <1>1, <1>2, <1>4, <1>5, <1>6, <1>7

-----------------------------------------------------------------------------
(* What claude is given                                                    *)

\* What Shared says of one ask, but for what its sender knew.
Served(m) ==
  /\ work[m] \in {"claude", "replying"} \/ post[m] = "answered" \/ call[m] = "ok" =>
       Row("ask", m) \in thread[m.to]
  /\ call[m] = "ok" => Row("reply", m) \in thread[m.to]
  /\ Row("ask", m) \in thread[m.to] => work[m] \notin {"none", "queued"}

\* The invariant of one message.
Part(n) ==
  /\ n \in Asks => Served(n) /\ Informed(n)
  /\ n \notin Asks => (call[n] = "ok" => Arrives(n))

LEMMA SharedParts ==
  ASSUME Shared, NEW n \in Messages
  PROVE  Part(n)
  BY DEF Shared, Part, Served

LEMMA PartsShared ==
  ASSUME \A n \in Messages : Part(n)'
  PROVE  Shared'
  <1>1. \A n \in Asks : n \in Messages
    BY DEF Asks
  <1>. QED
    BY <1>1 DEF Shared, Part, Served

LEMMA SharedInit == Init => Shared
  <1>. SUFFICES ASSUME Init PROVE Shared
    OBVIOUS
  <1>1. \A m \in Messages : /\ m.to \in Peers /\ call[m] = "none" /\ post[m] = "none"
                            /\ work[m] = "none" /\ known[m] = {}
    BY MessageFacts DEF Init
  <1>2. \A p \in Peers : thread[p] = {}
    <2>1. \A p \in Peers : table[p] = <<>> /\ \A S : <<>> \in Seq(S)
      BY EmptySeq DEF Init
    <2>. QED
      BY <2>1, EmptyShrinks DEF thread
  <1>. QED
    BY <1>1, <1>2 DEF Shared, Informed, Asks

\* What is on its way ahead of n, or has come, still is after a step that hands
\* nothing to n.
LEMMA InformedStays ==
  ASSUME Typed, Grows, NEW n \in Asks, Informed(n),
         known'[n] = known[n], lost \subseteq lost', thread[n.to] \subseteq thread'[n.to],
         Row("ask", n) \in thread'[n.to] => Row("ask", n) \in thread[n.to],
         \A x \in Messages :
           Ahead(x, n) => Ahead(x, n)' \/ x \in lost' \/ Row(x.kind, x) \in thread'[n.to]
  PROVE  Informed(n)'
  <1>. SUFFICES ASSUME NEW r \in known'[n]
                PROVE  \/ r.of \in lost' \/ OutOfReach(r, n)'
                       \/ /\ Row("ask", n) \notin thread'[n.to]
                          /\ \/ r \in thread'[n.to]
                             \/ r = Row(r.of.kind, r.of) /\ Ahead(r.of, n)'
    BY DEF Informed
  <1>1. r \in Rows /\ r.of \in Messages
    BY RowFacts DEF Typed, Asks
  <1>2. CASE r.of \in lost
    BY <1>2
  <1>5. CASE OutOfReach(r, n)
    <2>1. n \in Messages
      BY DEF Asks
    <2>. QED
      BY <1>5, <2>1, ReachStays
  <1>3. CASE Row("ask", n) \notin thread[n.to] /\ r \in thread[n.to]
    BY <1>3
  <1>4. CASE Row("ask", n) \notin thread[n.to] /\ r = Row(r.of.kind, r.of) /\ Ahead(r.of, n)
    BY <1>1, <1>4
  <1>. QED
    BY <1>2, <1>3, <1>4, <1>5 DEF Informed

LEMMA Kinds ==
  ASSUME NEW m \in Messages, NEW n \in Asks
  PROVE  /\ Row("ask", n) = Row(m.kind, m) => n = m
         /\ Row("ask", n) # Row("reply", m)
  BY DEF Row

LEMMA SharedBegun ==
  ASSUME Typed, Placed, Shared, Grows, NEW m \in Messages, Begun(m)
  PROVE  Shared'
  <1>0. /\ m.from \in Peers /\ m.to \in Peers /\ m.from # m.to
        /\ post[m] = "none" /\ work[m] = "none"
    BY MessageFacts DEF Placed, Begun, Unposted
  <1>1. /\ inbox' = inbox /\ line' = line /\ work' = work /\ lost' = lost
        /\ call'[m] = "waiting" /\ post'[m] = "under way"
        /\ thread'[m.from] = thread[m.from] \union {Row(m.kind, m)}
        /\ \A p \in Peers \ {m.from} : thread'[p] = thread[p]
        /\ known'[m] = Exchanged(m)
    BY DEF Begun
  <1>2. ASSUME NEW n \in Messages PROVE Part(n)'
    <2>1. Part(n) /\ n.to \in Peers /\ n.from \in Peers /\ n.to # n.from
      BY SharedParts, MessageFacts
    <2>2. thread[n.to] \subseteq thread'[n.to]
      BY <1>1, <2>1
    <2>3. n \in Asks /\ Row("ask", n) \in thread'[n.to] => Row("ask", n) \in thread[n.to]
      BY <1>0, <1>1, <2>1, Kinds
    <2>4. /\ call'[n] = "ok" => call[n] = "ok"
          /\ post'[n] = "answered" => post[n] = "answered"
      <3>1. CASE n = m
        BY <1>1, <3>1
      <3>2. CASE n # m
        BY <1>2, <3>2 DEF Begun
      <3>. QED
        BY <3>1, <3>2
    <2>5. n \in Asks => Served(n)'
      BY <1>1, <2>1, <2>2, <2>3, <2>4 DEF Part, Served
    <2>6. n \notin Asks => (call'[n] = "ok" => Arrives(n)')
      BY <1>1, <2>1, <2>2, <2>4 DEF Part, Arrives
    <2>7. CASE n # m
      <3>1. known'[n] = known[n]
        BY <1>2, <2>7 DEF Begun
      <3>2. \A x \in Messages : Ahead(x, n) => Ahead(x, n)'
        BY <1>1 DEF Ahead
      <3>3. n \in Asks => Informed(n)'
        BY <1>1, <2>1, <2>2, <2>3, <3>1, <3>2, InformedStays DEF Part
      <3>. QED
        BY <2>5, <2>6, <3>3 DEF Part
    <2>8. CASE n = m
      <3>1. ASSUME m \in Asks, NEW r \in Exchanged(m)
            PROVE  \/ r.of \in lost
                   \/ r \in thread[m.to]
                   \/ r = Row(r.of.kind, r.of) /\ Ahead(r.of, m)
        <4>1. PICK x \in Messages :
                /\ x.to = m.to /\ call[x] = "ok"
                /\ r = Row(x.kind, x) \/ (r = Row("reply", x) /\ x \in Asks)
          BY <3>1 DEF Exchanged
        <4>2. Part(x) /\ r.of = x /\ (x \in Asks => x.kind = "ask")
          BY <4>1, SharedParts, RowFacts, MessageFacts
        <4>3. CASE x \in Asks
          BY <4>1, <4>2, <4>3 DEF Part, Served
        <4>4. CASE x \notin Asks
          <5>1. r = Row(x.kind, x) /\ Arrives(x)
            BY <4>1, <4>2, <4>4 DEF Part
          <5>2. m \notin Range(line[m.to]) /\ Carry(m) \notin Range(inbox[m.to])
            BY <1>0 DEF Placed, Unposted
          <5>3. inbox[m.to] \in Seq(Envelopes) /\ line[m.to] \in Seq(Messages)
            BY <1>0 DEF Typed
          <5>4. ~Before(Carry(m), Carry(x), inbox[m.to])
            BY <5>2, <5>3, Places
          <5>5. ~Before(m, x, line[m.to])
            BY <5>2, <5>3, Places
          <5>. QED
            BY <4>1, <4>2, <4>4, <5>1, <5>2, <5>4, <5>5 DEF Arrives, Ahead
        <4>. QED
          BY <4>3, <4>4
      <3>2. m \in Asks => Row("ask", m) \notin thread'[m.to]
        BY <1>0, <2>1, <2>3, <2>8 DEF Part, Served
      <3>3. \A x : Ahead(x, m) => Ahead(x, m)'
        BY <1>1 DEF Ahead
      <3>4. m \in Asks => Informed(m)'
        BY <1>1, <2>2, <2>8, <3>1, <3>2, <3>3 DEF Informed
      <3>. QED
        BY <2>5, <2>6, <2>8, <3>4 DEF Part
    <2>. QED
      BY <2>7, <2>8
  <1>. QED
    BY <1>2, PartsShared

LEMMA SharedUnsent ==
  ASSUME Typed, Placed, Mirrored, Shared, Grows, NEW m \in Messages, Unsent(m)
  PROVE  Shared'
  <1>0. m.from \in Peers /\ m.to \in Peers
    BY MessageFacts
  <1>1. inbox' = inbox /\ line' = line /\ work' = work /\ lost' = lost /\ known' = known
    BY DEF Unsent, CallChanges
  <1>2. ASSUME NEW n \in Messages PROVE Part(n)'
    <2>1. Part(n) /\ n.to \in Peers
      BY SharedParts, MessageFacts
    <2>2. /\ thread[n.to] \subseteq thread'[n.to]
          /\ n \in Asks /\ Row("ask", n) \in thread'[n.to] => Row("ask", n) \in thread[n.to]
      <3>1. CASE SameTables
        BY <3>1 DEF SameTables
      <3>2. CASE /\ thread'[m.from] = thread[m.from] \union {Row("reply", m)}
                 /\ \A p \in Peers \ {m.from} : thread'[p] = thread[p]
        BY <1>0, <2>1, <3>2, Kinds
      <3>. QED
        BY <3>1, <3>2 DEF Unsent
    <2>3. /\ call'[n] = "ok" => call[n] = "ok" \/ post[n] = "answered"
          /\ post'[n] = "answered" => post[n] = "answered"
      <3>1. CASE n = m
        BY <3>1 DEF Unsent
      <3>2. CASE n # m
        BY <1>2, <3>2 DEF Unsent, CallChanges
      <3>. QED
        BY <3>1, <3>2
    <2>4. post[n] = "answered" => n \in Asks /\ Row("reply", n) \in thread[n.to]
      BY DEF Placed, Mirrored
    <2>5. n \in Asks => Served(n)'
      BY <1>1, <2>1, <2>2, <2>3, <2>4 DEF Part, Served
    <2>6. n \notin Asks => (call'[n] = "ok" => Arrives(n)')
      BY <1>1, <2>1, <2>2, <2>3, <2>4 DEF Part, Arrives
    <2>7. \A x \in Messages : Ahead(x, n) => Ahead(x, n)'
      BY <1>1 DEF Ahead
    <2>8. n \in Asks => Informed(n)'
      BY <1>1, <2>1, <2>2, <2>7, InformedStays DEF Part
    <2>. QED
      BY <2>5, <2>6, <2>8 DEF Part
  <1>. QED
    BY <1>2, PartsShared

\* An envelope more in the inbox of m's peer: the message, which is not yet there,
\* or its cancel.
LEMMA SharedPut ==
  ASSUME Typed, Placed, Shared, Grows, NEW m \in Messages, Sent(m) \/ Recalled(m)
  PROVE  Shared'
  <1>0. m.to \in Peers /\ inbox[m.to] \in Seq(Envelopes)
    BY MessageFacts DEF Typed
  <1>1. line' = line /\ work' = work /\ lost' = lost /\ known' = known /\ thread' = thread
    BY DEF Sent, Recalled, CallChanges, SameTables
  <1>2. PICK e \in Envelopes :
          /\ inbox'[m.to] = Append(inbox[m.to], e)
          /\ \A p \in Peers \ {m.to} : inbox'[p] = inbox[p]
          /\ \A x \in Messages : Carry(x) \in Range(inbox[m.to]) => Carry(x) # e
          /\ Sent(m) => e = Carry(m)
    <2>1. CASE Sent(m)
      <3>1. post[m] \in Unposted
        BY <2>1 DEF Sent, Unposted
      <3>2. Carry(m) \notin Range(inbox[m.to])
        BY <1>0, <3>1 DEF Placed
      <3>3. /\ inbox'[m.to] = Append(inbox[m.to], Carry(m))
            /\ \A p \in Peers \ {m.to} : inbox'[p] = inbox[p]
        BY <2>1 DEF Sent
      <3>. QED
        BY <3>2, <3>3, MessageFacts
    <2>2. CASE Recalled(m)
      <3>1. /\ inbox'[m.to] = Append(inbox[m.to], Cancel(m))
            /\ \A p \in Peers \ {m.to} : inbox'[p] = inbox[p]
            /\ m \in Asks
        BY <2>2 DEF Recalled
      <3>2. post' = post /\ ~Sent(m)
        <4>1. Sent(m) => Cancel(m) = Carry(m)
          <5>1. Sent(m) => inbox'[m.to] = Append(inbox[m.to], Carry(m))
            BY DEF Sent
          <5>2. PICK k \in Nat : k = Len(inbox[m.to])
            BY <1>0, Places
          <5>3. Append(inbox[m.to], Cancel(m))[k + 1] = Cancel(m)
            BY <1>0, <3>1, <5>2, MessageFacts, AppendProperties
          <5>4. Append(inbox[m.to], Carry(m))[k + 1] = Carry(m)
            BY <1>0, <3>1, <5>2, MessageFacts, AppendProperties
          <5>. QED
            BY <3>1, <5>1, <5>3, <5>4
        <4>. QED
          BY <2>2, <4>1, EnvelopeFacts DEF Recalled
      <3>. QED
        BY <3>1, <3>2, MessageFacts, EnvelopeFacts
    <2>. QED
      BY <2>1, <2>2
  <1>3. PICK t : t = inbox'[m.to]
    OBVIOUS
  <1>4. /\ \A x : x \in Range(t) <=> x \in Range(inbox[m.to]) \/ x = e
        /\ \A x, y : Before(x, y, t) =>
             Before(x, y, inbox[m.to]) \/ (x \in Range(inbox[m.to]) /\ y = e)
    <2>1. t = Append(inbox[m.to], e)
      BY <1>2, <1>3
    <2>. QED
      BY <1>0, <2>1, AppendKeeps
  <1>5. ASSUME NEW p \in Peers, NEW x \in Messages, Carry(x) \in Range(inbox[p])
        PROVE  /\ Carry(x) \in Range(inbox'[p])
               /\ \A y : Before(y, Carry(x), inbox'[p]) => Before(y, Carry(x), inbox[p])
    <2>1. CASE p = m.to
      BY <1>2, <1>3, <1>4, <1>5, <2>1
    <2>2. CASE p # m.to
      BY <1>2, <1>5, <2>2
    <2>. QED
      BY <2>1, <2>2
  <1>6. ASSUME NEW n \in Messages PROVE Part(n)'
    <2>1. Part(n) /\ n.to \in Peers
      BY SharedParts, MessageFacts
    <2>2. /\ call'[n] = "ok" => call[n] = "ok" \/ (n = m /\ n \notin Asks /\ Sent(m))
          /\ post'[n] = "answered" => post[n] = "answered"
      <3>1. CASE n = m
        BY <3>1 DEF Sent, Recalled
      <3>2. CASE n # m
        BY <1>6, <3>2 DEF Sent, Recalled, CallChanges
      <3>. QED
        BY <3>1, <3>2
    <2>3. n \in Asks => Served(n)'
      BY <1>1, <2>1, <2>2 DEF Part, Served
    <2>4. n \notin Asks => (call'[n] = "ok" => Arrives(n)')
      <3>1. Arrives(n) => Arrives(n)'
        BY <1>1, <1>5, <2>1 DEF Arrives
      <3>2. n = m /\ Sent(m) => Arrives(n)'
        BY <1>2, <1>3, <1>4 DEF Arrives
      <3>. QED
        BY <2>1, <2>2, <3>1, <3>2 DEF Part
    <2>5. ASSUME NEW x \in Messages, Ahead(x, n) PROVE Ahead(x, n)'
      <3>1. CASE Carry(x) \in Range(inbox[n.to]) /\ ~Before(Carry(n), Carry(x), inbox[n.to])
        <4>1. Carry(x) \in Range(inbox'[n.to]) /\ ~Before(Carry(n), Carry(x), inbox'[n.to])
          BY <1>5, <2>1, <3>1
        <4>. QED
          BY <1>1, <2>5, <4>1 DEF Ahead
      <3>2. CASE x \in Range(line[n.to]) /\ ~Before(n, x, line[n.to])
        BY <1>1, <2>5, <3>2 DEF Ahead
      <3>. QED
        BY <2>5, <3>1, <3>2 DEF Ahead
    <2>6. n \in Asks => Informed(n)'
      BY <1>1, <2>1, <2>5, InformedStays DEF Part
    <2>. QED
      BY <2>3, <2>4, <2>6 DEF Part
  <1>. QED
    BY <1>6, PartsShared

LEMMA SharedEntered ==
  ASSUME Typed, Placed, Shared, Grows, NEW m \in Messages, Entered(m)
  PROVE  Shared'
  <1>0. m.to \in Peers /\ (m \in Asks => m.kind = "ask")
    BY MessageFacts
  <1>1. /\ call' = call /\ post' = post /\ lost' = lost
        /\ thread'[m.to] = thread[m.to] \union {Row(m.kind, m)}
        /\ \A p \in Peers \ {m.to} : thread'[p] = thread[p]
        /\ work'[m] = (IF m \in Asks THEN "claude" ELSE "done")
        /\ known'[m] \subseteq known[m]
        /\ m \in Asks => \A r \in known'[m] : r \notin thread[m.to] \/ OutOfReach(r, m)'
        /\ \A n \in Messages \ {m} : work'[n] = work[n] /\ known'[n] = known[n]
        /\ m \in Asks => \A x \in Messages : ~Ahead(x, m)
    BY DEF Entered
  <1>2. ASSUME NEW p \in Peers
        PROVE  /\ Shrunk(inbox'[p], inbox[p]) /\ Shrunk(line'[p], line[p])
               /\ \A x \in Range(inbox[p]) : x \in Range(inbox'[p]) \/ x = Carry(m)
               /\ \A x \in Range(line[p]) : x \in Range(line'[p]) \/ x = m
    BY <1>2 DEF Entered, LeavesQueues
  <1>3. ASSUME NEW n \in Messages PROVE Part(n)'
    <2>1. Part(n) /\ n.to \in Peers
      BY SharedParts, MessageFacts
    <2>2. /\ thread[n.to] \subseteq thread'[n.to]
          /\ n \in Asks /\ Row("ask", n) \in thread'[n.to] =>
               Row("ask", n) \in thread[n.to] \/ n = m
      BY <1>0, <1>1, <2>1, Kinds
    <2>3. n \in Asks => Served(n)'
      <3>1. CASE n = m
        BY <1>0, <1>1, <2>1, <2>2, <3>1 DEF Part, Served
      <3>2. CASE n # m
        <4>1. work'[n] = work[n]
          BY <1>1, <3>2
        <4>. QED
          BY <1>1, <2>1, <2>2, <3>2, <4>1 DEF Part, Served
      <3>. QED
        BY <3>1, <3>2
    <2>4. ASSUME n \notin Asks, call'[n] = "ok" PROVE Arrives(n)'
      <3>1. Arrives(n)
        BY <1>1, <2>1, <2>4 DEF Part
      <3>2. CASE n = m
        BY <1>0, <1>1, <3>2 DEF Arrives
      <3>3. CASE n # m
        <4>1. Carry(n) # Carry(m)
          BY <3>3, EnvelopeFacts
        <4>. QED
          BY <1>1, <1>2, <2>1, <2>2, <3>1, <3>3, <4>1 DEF Arrives
      <3>. QED
        BY <3>2, <3>3
    <2>5. ASSUME n \in Asks PROVE Informed(n)'
      <3>1. CASE n = m
        <4>1. ASSUME NEW r \in known'[m] PROVE r.of \in lost' \/ OutOfReach(r, m)'
          <5>1. r \in known[m] /\ r.of \in Messages
            BY <1>1, <4>1, RowFacts DEF Typed
          <5>2. CASE OutOfReach(r, m)
            BY <5>2, ReachStays
          <5>3. CASE r \in thread[m.to]
            BY <1>1, <2>5, <3>1, <4>1, <5>3
          <5>4. CASE r \notin thread[m.to] /\ ~OutOfReach(r, m)
            BY <1>1, <2>1, <2>5, <3>1, <5>1, <5>4 DEF Part, Informed
          <5>. QED
            BY <5>2, <5>3, <5>4
        <4>. QED
          BY <3>1, <4>1 DEF Informed
      <3>2. CASE n # m
        <4>1. ASSUME NEW x \in Messages, Ahead(x, n)
              PROVE  Ahead(x, n)' \/ Row(x.kind, x) \in thread'[n.to]
          <5>1. CASE x = m
            <6>1. n.to = m.to
              BY <4>1, <5>1 DEF Ahead
            <6>. QED
              BY <1>1, <5>1, <6>1
          <5>2. CASE x # m
            <6>1. Carry(x) # Carry(m)
              BY <5>2, EnvelopeFacts
            <6>. QED
              BY <1>2, <2>1, <4>1, <5>2, <6>1 DEF Ahead, Shrunk
          <5>. QED
            BY <5>1, <5>2
        <4>. QED
          BY <1>1, <2>1, <2>2, <2>5, <3>2, <4>1, InformedStays DEF Part
      <3>. QED
        BY <3>1, <3>2
    <2>. QED
      BY <2>3, <2>4, <2>5 DEF Part
  <1>. QED
    BY <1>3, PartsShared

LEMMA SharedQueued ==
  ASSUME Typed, Placed, Shared, Grows, NEW m \in Messages, Queued(m)
  PROVE  Shared'
  <1>0. m.to \in Peers /\ line[m.to] \in Seq(Messages)
    BY MessageFacts DEF Typed
  <1>1. /\ call' = call /\ post' = post /\ lost' = lost /\ thread' = thread /\ known' = known
        /\ work[m] = "none" /\ work'[m] = "queued"
        /\ \A n \in Messages \ {m} : work'[n] = work[n]
        /\ \A p \in Peers \ {m.to} : line'[p] = line[p]
    BY DEF Queued, SameTables
  <1>2. ASSUME NEW p \in Peers
        PROVE  /\ Shrunk(inbox'[p], inbox[p])
               /\ \A x \in Range(inbox[p]) : x \in Range(inbox'[p]) \/ x = Carry(m)
               /\ m \notin Range(line[p])
    BY <1>1, <1>2 DEF Queued, LeavesQueues, Placed
  <1>3. PICK t : t = line'[m.to]
    OBVIOUS
  <1>4. /\ \A x : x \in Range(t) <=> x \in Range(line[m.to]) \/ x = m
        /\ \A x, y : Before(x, y, t) =>
             Before(x, y, line[m.to]) \/ (x \in Range(line[m.to]) /\ y = m)
    <2>1. t = Append(line[m.to], m)
      BY <1>3 DEF Queued
    <2>. QED
      BY <1>0, <2>1, AppendKeeps
  <1>5. \A y : ~Before(y, m, line[m.to])
    BY <1>0, <1>2, Places
  <1>6. ASSUME NEW n \in Messages PROVE Part(n)'
    <2>1. Part(n) /\ n.to \in Peers
      BY SharedParts, MessageFacts
    <2>2. n \in Asks => Served(n)'
      <3>1. CASE n = m
        BY <1>1, <2>1, <3>1 DEF Part, Served
      <3>2. CASE n # m
        <4>1. work'[n] = work[n]
          BY <1>1, <3>2
        <4>. QED
          BY <1>1, <2>1, <4>1 DEF Part, Served
      <3>. QED
        BY <3>1, <3>2
    <2>3. ASSUME n \notin Asks, call'[n] = "ok" PROVE Arrives(n)'
      <3>1. Arrives(n)
        BY <1>1, <2>1, <2>3 DEF Part
      <3>2. CASE n = m
        BY <1>3, <1>4, <3>2 DEF Arrives
      <3>3. CASE n # m
        <4>1. Carry(n) # Carry(m)
          BY <3>3, EnvelopeFacts
        <4>2. Range(line[n.to]) \subseteq Range(line'[n.to])
          BY <1>1, <1>3, <1>4, <2>1
        <4>. QED
          BY <1>1, <1>2, <2>1, <3>1, <4>1, <4>2 DEF Arrives
      <3>. QED
        BY <3>2, <3>3
    <2>4. ASSUME n \in Asks, NEW x \in Messages, Ahead(x, n) PROVE Ahead(x, n)'
      <3>1. x \notin Asks /\ x.to = n.to /\ x # n
        BY <2>4 DEF Ahead
      <3>2. CASE n = m
        <4>1. ~(Carry(x) \in Range(inbox[m.to]) /\ ~Before(Carry(m), Carry(x), inbox[m.to]))
          BY <2>4, <3>1, <3>2 DEF Queued
        <4>2. x \in Range(line[m.to]) /\ ~Before(m, x, line[m.to])
          BY <2>4, <3>2, <4>1 DEF Ahead
        <4>3. x \in Range(t) /\ ~Before(m, x, t)
          BY <1>4, <3>1, <3>2, <4>2
        <4>. QED
          BY <1>3, <3>1, <3>2, <4>3 DEF Ahead
      <3>3. CASE n # m /\ n.to # m.to
        <4>1. line'[n.to] = line[n.to] /\ Carry(x) # Carry(m)
          BY <1>1, <2>1, <3>1, <3>3, EnvelopeFacts
        <4>. QED
          BY <1>2, <2>1, <2>4, <4>1 DEF Ahead, Shrunk
      <3>4. CASE n # m /\ n.to = m.to
        <4>1. CASE x \in Range(line[n.to]) /\ ~Before(n, x, line[n.to])
          <5>1. x # m
            BY <1>2, <2>1, <4>1
          <5>2. x \in Range(t) /\ ~Before(n, x, t)
            BY <1>4, <3>4, <4>1, <5>1
          <5>. QED
            BY <1>3, <3>1, <3>4, <5>2 DEF Ahead
        <4>2. CASE /\ Carry(x) \in Range(inbox[n.to]) /\ n \notin Range(line[n.to])
                   /\ ~Before(Carry(n), Carry(x), inbox[n.to])
          <5>1. n \notin Range(t)
            BY <1>4, <3>4, <4>2
          <5>2. CASE x = m
            <6>1. ~Before(n, m, t)
              BY <1>4, <1>5, <3>4, <4>2
            <6>2. m \in Range(t)
              BY <1>4
            <6>. QED
              BY <1>3, <3>1, <3>4, <5>2, <6>1, <6>2 DEF Ahead
          <5>3. CASE x # m
            <6>1. Carry(x) # Carry(m)
              BY <5>3, EnvelopeFacts
            <6>2. Carry(x) \in Range(inbox'[n.to]) /\ ~Before(Carry(n), Carry(x), inbox'[n.to])
              BY <1>2, <2>1, <4>2, <6>1 DEF Shrunk
            <6>. QED
              BY <1>3, <3>1, <3>4, <5>1, <6>2 DEF Ahead
          <5>. QED
            BY <5>2, <5>3
        <4>. QED
          BY <2>4, <4>1, <4>2 DEF Ahead
      <3>. QED
        BY <3>2, <3>3, <3>4
    <2>5. n \in Asks => Informed(n)'
      BY <1>1, <2>1, <2>4, InformedStays DEF Part
    <2>. QED
      BY <2>2, <2>3, <2>5 DEF Part
  <1>. QED
    BY <1>6, PartsShared

LEMMA SharedEnded ==
  ASSUME Typed, Placed, Shared, Grows, NEW m \in Messages, Ended(m) \/ Replied(m)
  PROVE  Shared'
  <1>0. m.to \in Peers
    BY MessageFacts
  <1>1. /\ inbox' = inbox /\ line' = line /\ known' = known /\ lost' = lost
        /\ work[m] \in {"claude", "replying"} /\ work'[m] \in {"replying", "done"}
        /\ \A n \in Messages \ {m} : work'[n] = work[n]
    BY DEF Ended, Replied
  <1>2. ASSUME NEW n \in Messages PROVE Part(n)'
    <2>1. Part(n) /\ n.to \in Peers
      BY SharedParts, MessageFacts
    <2>2. /\ thread[n.to] \subseteq thread'[n.to]
          /\ n \in Asks /\ Row("ask", n) \in thread'[n.to] => Row("ask", n) \in thread[n.to]
      <3>1. CASE Replied(m)
        BY <3>1 DEF Replied, SameTables
      <3>2. CASE Ended(m)
        <4>1. /\ thread'[m.to] = thread[m.to] \union {Row("reply", m)}
              /\ \A p \in Peers \ {m.to} : thread'[p] = thread[p]
          BY <3>2 DEF Ended
        <4>. QED
          BY <1>0, <2>1, <4>1, Kinds
      <3>. QED
        BY <3>1, <3>2
    <2>3. /\ call'[n] = "ok" => call[n] = "ok"
          /\ post'[n] = "answered" => post[n] = "answered" \/ (n = m /\ work[n] = "replying")
      <3>1. CASE Ended(m)
        BY <1>2, <3>1 DEF Ended
      <3>2. CASE Replied(m) /\ n = m
        BY <3>2 DEF Replied
      <3>3. CASE Replied(m) /\ n # m
        BY <1>2, <3>3 DEF Replied
      <3>. QED
        BY <3>1, <3>2, <3>3
    <2>4. n \in Asks => Served(n)'
      <3>1. CASE n = m
        BY <1>1, <2>1, <2>2, <2>3, <3>1 DEF Part, Served
      <3>2. CASE n # m
        <4>1. work'[n] = work[n]
          BY <1>1, <3>2
        <4>. QED
          BY <2>1, <2>2, <2>3, <3>2, <4>1 DEF Part, Served
      <3>. QED
        BY <3>1, <3>2
    <2>5. n \notin Asks => (call'[n] = "ok" => Arrives(n)')
      BY <1>1, <2>1, <2>2, <2>3 DEF Part, Arrives
    <2>6. \A x \in Messages : Ahead(x, n) => Ahead(x, n)'
      BY <1>1 DEF Ahead
    <2>7. n \in Asks => Informed(n)'
      BY <1>1, <2>1, <2>2, <2>6, InformedStays DEF Part
    <2>. QED
      BY <2>4, <2>5, <2>7 DEF Part
  <1>. QED
    BY <1>2, PartsShared

LEMMA SharedDropped ==
  ASSUME Typed, Placed, Shared, Grows, Dropped
  PROVE  Shared'
  <1>1. post' = post /\ thread' = thread /\ known' = known /\ lost \subseteq lost'
    BY DEF Dropped, SameTables
  <1>2. ASSUME NEW p \in Peers
        PROVE  /\ Shrunk(inbox'[p], inbox[p]) /\ Shrunk(line'[p], line[p])
               /\ \A x \in Messages \ Asks :
                    Carry(x) \in Range(inbox[p]) => Carry(x) \in Range(inbox'[p]) \/ x \in lost'
               /\ \A x \in Messages \ Asks : x \in Range(line[p]) => x \in Range(line'[p]) \/ x \in lost'
    <2>1. \A x \in Range(inbox[p]) : x \in Range(inbox'[p]) \/ x.of \in lost' \/ x.of \in Asks
      BY <1>2 DEF Dropped
    <2>2. \A x \in Messages \ Asks :
            Carry(x) \in Range(inbox[p]) => Carry(x) \in Range(inbox'[p]) \/ x \in lost'
      BY <2>1, EnvelopeFacts
    <2>. QED
      BY <1>2, <2>2 DEF Dropped
  <1>3. ASSUME NEW n \in Messages PROVE Part(n)'
    <2>1. Part(n) /\ n.to \in Peers
      BY SharedParts, MessageFacts
    <2>2. /\ call'[n] = "ok" => call[n] = "ok"
          /\ work'[n] = work[n] \/ (work[n] # "none" /\ work'[n] = "done")
      BY <1>3 DEF Dropped
    <2>3. n \in Asks => Served(n)'
      BY <1>1, <2>1, <2>2 DEF Part, Served
    <2>4. n \notin Asks => (call'[n] = "ok" => Arrives(n)')
      BY <1>1, <1>2, <1>3, <2>1, <2>2 DEF Part, Arrives
    <2>5. ASSUME NEW x \in Messages, Ahead(x, n) PROVE Ahead(x, n)' \/ x \in lost'
      BY <1>2, <2>1, <2>5 DEF Ahead, Shrunk
    <2>6. n \in Asks => Informed(n)'
      BY <1>1, <2>1, <2>5, InformedStays DEF Part
    <2>. QED
      BY <2>3, <2>4, <2>6 DEF Part
  <1>. QED
    BY <1>3, PartsShared

-----------------------------------------------------------------------------
(* The theorems                                                            *)

LEMMA Inductive == IInv /\ [Next]_vars => IInv'
  <1>. SUFFICES ASSUME IInv, [Next]_vars PROVE IInv'
    OBVIOUS
  <1>0. Typed /\ Placed /\ Limited /\ Mirrored /\ Shared
    BY DEF IInv
  <1>1. CASE UNCHANGED vars
    <2>0. UNCHANGED <<call, post, inbox, line, work, table, known, told, lost, faults>>
      BY <1>1 DEF vars, requestVars, taskVars, threadVars
    <2>1. UNCHANGED <<call, post, inbox, line, work, table, thread, known, told, lost, faults>>
      BY <2>0, TablesStay DEF SameTables
    <2>2. Typed' /\ Placed'
      BY <1>0, <2>1 DEF Typed, Placed
    <2>3. Limited' /\ Mirrored'
      BY <1>0, <2>1 DEF Limited, Computing, Mirrored, ThreadsMirror
    <2>4. Shared'
      BY <1>0, <2>1 DEF Shared, Informed, OutOfReach, Ahead, Arrives
    <2>. QED
      BY <2>2, <2>3, <2>4 DEF IInv
  <1>2. CASE Next
    <2>1. \/ \E m \in Messages :
               \/ Begun(m) \/ Unsent(m) \/ Sent(m) \/ Recalled(m) \/ Entered(m) \/ Queued(m)
               \/ Ended(m) \/ Replied(m)
          \/ Dropped
      BY <1>0, <1>2, Steps
    <2>2. Typed'
      BY <2>1 DEF Begun, Unsent, Sent, Recalled, Entered, Queued, Ended, Replied, Dropped, CallChanges
    <2>3. Placed'
      BY <1>0, <2>1, PlacedBegun, PlacedUnsent, PlacedSent, PlacedRecalled, PlacedEntered,
         PlacedQueued, PlacedEndedReplied, PlacedDropped
    <2>4. Limited' /\ Mirrored'
      BY <1>0, <2>1, LimitedStep, MirroredStep
    <2>5. Shared'
      BY <1>0, <1>2, <2>1, StepGrows, SharedBegun, SharedUnsent, SharedPut, SharedEntered, SharedQueued,
         SharedEnded, SharedDropped
    <2>. QED
      BY <2>2, <2>3, <2>4, <2>5 DEF IInv
  <1>. QED
    BY <1>1, <1>2

LEMMA Initially == Init => IInv
  BY TypedInit, PlacedInit, LimitedInit, MirroredInit, SharedInit DEF IInv

\* The state keeps its shape, a message is queued only while its task waits, and
\* no daemon has more claudes than permits.
THEOREM TypeCorrect == Spec => []TypeOK
  <1>1. IInv => TypeOK
    <2>. SUFFICES ASSUME IInv PROVE TypeOK
      OBVIOUS
    <2>1. Typed /\ Placed /\ Limited
      BY DEF IInv
    <2>2. ASSUME NEW p \in Peers
          PROVE  /\ Range(inbox[p]) \subseteq {Carry(m) : m \in Messages} \union {Cancel(m) : m \in Asks}
                 /\ Range(line[p]) \subseteq {m \in Messages : m.to = p /\ work[m] = "queued"}
                 /\ table[p] \in Seq(Rows)
      <3>1. inbox[p] \in Seq(Envelopes) /\ line[p] \in Seq(Messages) /\ table[p] \in Seq(Rows)
        BY <2>1, <2>2 DEF Typed
      <3>2. Range(inbox[p]) \subseteq Envelopes /\ Range(line[p]) \subseteq Messages
        BY <3>1, Places
      <3>. QED
        BY <2>1, <2>2, <3>1, <3>2 DEF Envelopes, Placed
    <2>. QED
      BY <2>1, <2>2 DEF TypeOK, Typed, Limited
  <1>. QED
    BY <1>1, Initially, Inductive, PTL DEF Spec

\* main.py and daemon.py, record_thread_message and process_message: whatever two
\* peers have been through, each has recorded what the other says it received, and
\* the claude that answers an ask was given all that its asker knew was exchanged,
\* but for what a daemon lost and what had LIMIT rows after it in the table it reads.
THEOREM ThreadsAgreeHolds == Spec => []ThreadsAgree
  <1>1. IInv => ThreadsAgree
    <2>. SUFFICES ASSUME IInv PROVE ThreadsAgree
      OBVIOUS
    <2>1. ThreadsMirror
      BY DEF IInv, Mirrored
    <2>2. ContextIsShared
      BY DEF IInv, Shared, Informed, ContextIsShared
    <2>. QED
      BY <2>1, <2>2 DEF ThreadsAgree
  <1>. QED
    BY <1>1, Initially, Inductive, PTL DEF Spec
=============================================================================
