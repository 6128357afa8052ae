---------------------------- MODULE DaemonProofs ----------------------------
(***************************************************************************)
(* Theorems of module Daemon for every set of peers, correlation ids and   *)
(* messages, every CLAUDE_CONCURRENCY and every size of a poll.            *)
(***************************************************************************)
EXTENDS Daemon, SequenceTheorems, FiniteSetTheorems, WellFoundedInduction, TLAPS

-----------------------------------------------------------------------------
(* Sequences as what is in them and what comes before what                 *)

\* Every set of natural numbers that is not empty has a least element.
LEMMA LeastNatural ==
  ASSUME NEW T \in SUBSET Nat, T # {}
  PROVE  \E n \in T : \A k \in T : n <= k
  <1>1. IsWellFoundedOn(OpToRel(<, Nat), Nat)
    BY NatLessThanWellFounded
  <1>2. PICK n \in T : \A k \in T : ~ (<<k, n>> \in OpToRel(<, Nat))
    BY <1>1, WFMin, Zenon
  <1>3. \A k \in T : ~(k < n)
    BY <1>2 DEF OpToRel
  <1>. QED
    BY <1>3

\* The equation of the recursive function inside Without, up to n.
Keeps(kept, s, F, n) ==
  kept = [i \in 0..n |-> IF i = 0 THEN <<>>
                         ELSE IF s[i] \in F THEN kept[i - 1] ELSE Append(kept[i - 1], s[i])]

LEMMA KeepsExists ==
  ASSUME NEW s, NEW F, NEW m \in Nat
  PROVE  \E kept : Keeps(kept, s, F, m)
  <1>. DEFINE Bad == {n \in Nat : ~ \E kept : Keeps(kept, s, F, n)}
  <1>1. SUFFICES ASSUME Bad # {} PROVE FALSE
    OBVIOUS
  <1>2. PICK n \in Bad : \A j \in Bad : n <= j
    <2>1. Bad \in SUBSET Nat
      OBVIOUS
    <2>. HIDE DEF Bad
    <2>. QED
      BY <1>1, <2>1, LeastNatural
  <1>3. CASE n = 0
    <2>1. Keeps([i \in 0..0 |-> <<>>], s, F, 0)
      BY DEF Keeps
    <2>. QED
      BY <1>3, <2>1
  <1>4. CASE n # 0
    <2>1. n \in Nat /\ n - 1 \in Nat /\ n - 1 \notin Bad
      BY <1>2, <1>4
    <2>2. PICK kept : Keeps(kept, s, F, n - 1)
      BY <2>1
    <2>. DEFINE Rhs(k, i) == IF i = 0 THEN <<>>
                             ELSE IF s[i] \in F THEN k[i - 1] ELSE Append(k[i - 1], s[i])
                more == [i \in 0..n |-> IF i < n THEN kept[i] ELSE Rhs(kept, n)]
    <2>3. \A i \in 0..(n - 1) : kept[i] = Rhs(kept, i)
      BY <2>1, <2>2 DEF Keeps
    <2>4. \A i \in 0..n : more[i] = Rhs(more, i)
      <3>. SUFFICES ASSUME NEW i \in 0..n PROVE more[i] = Rhs(more, i)
        OBVIOUS
      <3>1. i # 0 => i - 1 \in 0..n /\ i - 1 < n /\ more[i - 1] = kept[i - 1]
        BY <2>1
      <3>2. CASE i < n
        BY <2>1, <2>3, <3>1, <3>2
      <3>3. CASE i = n
        BY <2>1, <1>4, <3>1, <3>3
      <3>. QED
        BY <2>1, <3>2, <3>3
    <2>5. more = [i \in 0..n |-> Rhs(more, i)]
      <3>. HIDE DEF Rhs
      <3>. QED
        BY <2>4
    <2>6. Keeps(more, s, F, n)
      BY <2>5 DEF Keeps
    <2>. QED
      BY <2>6
  <1>. QED
    BY <1>3, <1>4

LEMMA KeepsAt ==
  ASSUME NEW kept, NEW s, NEW F, NEW m \in Nat, Keeps(kept, s, F, m), NEW n \in 0..m
  PROVE  kept[n] = IF n = 0 THEN <<>>
                   ELSE IF s[n] \in F THEN kept[n - 1] ELSE Append(kept[n - 1], s[n])
  <1>. DEFINE Rhs(i) == IF i = 0 THEN <<>>
                        ELSE IF s[i] \in F THEN kept[i - 1] ELSE Append(kept[i - 1], s[i])
  <1>1. kept = [i \in 0..m |-> Rhs(i)]
    BY DEF Keeps
  <1>. HIDE DEF Rhs
  <1>2. kept[n] = Rhs(n)
    BY <1>1
  <1>. QED
    BY <1>2 DEF Rhs

LEMMA WithoutDef ==
  ASSUME NEW s, NEW F, Len(s) \in Nat
  PROVE  \E kept : Keeps(kept, s, F, Len(s)) /\ Without(s, F) = kept[Len(s)]
  <1>. DEFINE kept == CHOOSE k : Keeps(k, s, F, Len(s))
  <1>1. Keeps(kept, s, F, Len(s))
    BY KeepsExists
  <1>2. Without(s, F) = kept[Len(s)]
    BY DEF Without, Keeps
  <1>. QED
    BY <1>1, <1>2

LEMMA RangeIs ==
  ASSUME NEW S, NEW s \in Seq(S)
  PROVE  /\ \A x : x \in Range(s) <=> \E i \in 1..Len(s) : s[i] = x
         /\ \A x, y : Before(x, y, s) <=> \E i, j \in 1..Len(s) : i < j /\ s[i] = x /\ s[j] = y
         /\ Range(s) \subseteq S
  BY LenProperties, ElementOfSeq DEF Range, Before

LEMMA RangeUpTo ==
  ASSUME NEW S, NEW s \in Seq(S), NEW n, n = Len(s)
  PROVE  /\ \A x : x \in Range(s) <=> \E i \in 1..n : s[i] = x
         /\ \A x, y : Before(x, y, s) <=> \E i, j \in 1..n : i < j /\ s[i] = x /\ s[j] = y
  BY RangeIs

LEMMA ShortRel ==
  ASSUME NEW S, NEW s \in Seq(S), Len(s) \in {0, 1}
  PROVE  /\ Len(s) = 0 => \A x : x \notin Range(s)
         /\ Len(s) = 1 => \A x : x \in Range(s) <=> x = s[1]
         /\ \A x, y : ~Before(x, y, s)
  BY RangeIs

LEMMA EmptyRel ==
  /\ \A x : x \notin Range(<<>>)
  /\ \A x, y : ~Before(x, y, <<>>)
  <1>1. <<>> \in Seq({}) /\ Len(<<>>) = 0
    BY EmptySeq
  <1>2. PICK e : e = <<>>
    OBVIOUS
  <1>3. e \in Seq({}) /\ Len(e) = 0
    BY <1>1, <1>2
  <1>4. (\A x : x \notin Range(e)) /\ (\A x, y : ~Before(x, y, e))
    BY <1>3, ShortRel
  <1>. QED
    BY <1>2, <1>4

LEMMA BeforeRange ==
  ASSUME NEW S, NEW s \in Seq(S), NEW x, NEW y, Before(x, y, s)
  PROVE  x \in Range(s) /\ y \in Range(s) /\ x \in S /\ y \in S
  BY RangeIs

LEMMA Asymmetric ==
  ASSUME NEW S, NEW s \in Seq(S), \A x \in S : ~Before(x, x, s),
         NEW x \in S, NEW y \in S, Before(x, y, s)
  PROVE  ~Before(y, x, s) /\ x # y
  <1>1. Len(s) \in Nat
    BY LenProperties
  <1>2. \A i, j \in 1..Len(s) : s[i] = s[j] => i = j
    <2>1. \A i \in 1..Len(s) : s[i] \in S
      BY ElementOfSeq
    <2>. QED
      BY <1>1, <2>1, RangeIs
  <1>3. PICK i, j \in 1..Len(s) : i < j /\ s[i] = x /\ s[j] = y
    BY RangeIs
  <1>4. ASSUME Before(y, x, s) PROVE FALSE
    <2>1. PICK k, l \in 1..Len(s) : k < l /\ s[k] = y /\ s[l] = x
      BY <1>4, RangeIs
    <2>2. k = j /\ l = i
      BY <1>2, <1>3, <2>1
    <2>. QED
      BY <1>1, <1>3, <2>1, <2>2
  <1>. QED
    BY <1>3, <1>4

\* u is s followed by t.
Joined(u, s, t) ==
  /\ Len(u) = Len(s) + Len(t)
  /\ \A i \in 1..Len(s) : u[i] = s[i]
  /\ \A i \in 1..Len(t) : u[Len(s) + i] = t[i]

LEMMA JoinRel ==
  ASSUME NEW S, NEW s \in Seq(S), NEW t \in Seq(S), NEW u \in Seq(S), Joined(u, s, t)
  PROVE  /\ \A x : x \in Range(u) <=> x \in Range(s) \/ x \in Range(t)
         /\ \A x, y : Before(x, y, u) <=>
              Before(x, y, s) \/ Before(x, y, t) \/ (x \in Range(s) /\ y \in Range(t))
  <1>1. PICK l, m, n \in Nat : l = Len(u) /\ m = Len(s) /\ n = Len(t) /\ l = m + n
    BY LenProperties DEF Joined
  <1>2. \A i \in 1..l : i \in 1..m \/ \E p \in 1..n : i = m + p
    <2>1. \A i \in 1..l : i \in 1..m \/ (i - m \in 1..n /\ i = m + (i - m))
      BY <1>1
    <2>. QED
      BY <2>1
  <1>3. (\A i \in 1..m : i \in 1..l) /\ (\A i \in 1..n : m + i \in 1..l)
    BY <1>1
  <1>4. (\A i \in 1..m : u[i] = s[i]) /\ (\A i \in 1..n : u[m + i] = t[i])
    BY <1>1 DEF Joined
  <1>5. /\ \A x : x \in Range(u) <=> \E i \in 1..l : u[i] = x
        /\ \A x, y : Before(x, y, u) <=> \E i, j \in 1..l : i < j /\ u[i] = x /\ u[j] = y
    <2>1. l = Len(u)
      BY <1>1
    <2>2. \A x : x \in Range(u) <=> \E i \in 1..l : u[i] = x
      BY <2>1, RangeUpTo, SMTT(30)
    <2>3. \A x, y : Before(x, y, u) <=> \E i, j \in 1..l : i < j /\ u[i] = x /\ u[j] = y
      BY <2>1, RangeUpTo, SMTT(30)
    <2>. QED
      BY <2>2, <2>3
  <1>6. /\ \A x : x \in Range(s) <=> \E i \in 1..m : s[i] = x
        /\ \A x, y : Before(x, y, s) <=> \E i, j \in 1..m : i < j /\ s[i] = x /\ s[j] = y
    <2>1. m = Len(s)
      BY <1>1
    <2>2. \A x : x \in Range(s) <=> \E i \in 1..m : s[i] = x
      BY <2>1, RangeUpTo, SMTT(30)
    <2>3. \A x, y : Before(x, y, s) <=> \E i, j \in 1..m : i < j /\ s[i] = x /\ s[j] = y
      BY <2>1, RangeUpTo, SMTT(30)
    <2>. QED
      BY <2>2, <2>3
  <1>7. /\ \A x : x \in Range(t) <=> \E i \in 1..n : t[i] = x
        /\ \A x, y : Before(x, y, t) <=> \E i, j \in 1..n : i < j /\ t[i] = x /\ t[j] = y
    <2>1. n = Len(t)
      BY <1>1
    <2>2. \A x : x \in Range(t) <=> \E i \in 1..n : t[i] = x
      BY <2>1, RangeUpTo, SMTT(30)
    <2>3. \A x, y : Before(x, y, t) <=> \E i, j \in 1..n : i < j /\ t[i] = x /\ t[j] = y
      BY <2>1, RangeUpTo, SMTT(30)
    <2>. QED
      BY <2>2, <2>3
  <1>8. ASSUME NEW x
        PROVE  x \in Range(u) <=> x \in Range(s) \/ x \in Range(t)
    <2>1. ASSUME x \in Range(u) PROVE x \in Range(s) \/ x \in Range(t)
      <3>1. PICK i \in 1..l : u[i] = x
        BY <1>5, <2>1
      <3>2. CASE i \in 1..m
        BY <1>4, <1>6, <3>1, <3>2
      <3>3. ASSUME NEW p \in 1..n, i = m + p PROVE x \in Range(t)
        BY <1>4, <1>7, <3>1, <3>3
      <3>. QED
        BY <1>2, <3>2, <3>3
    <2>2. ASSUME x \in Range(s) PROVE x \in Range(u)
      <3>1. PICK i \in 1..m : s[i] = x
        BY <1>6, <2>2
      <3>. QED
        BY <1>3, <1>4, <1>5, <3>1
    <2>3. ASSUME x \in Range(t) PROVE x \in Range(u)
      <3>1. PICK i \in 1..n : t[i] = x
        BY <1>7, <2>3
      <3>. QED
        BY <1>3, <1>4, <1>5, <3>1
    <2>. QED
      BY <2>1, <2>2, <2>3
  <1>9. ASSUME NEW x, NEW y, Before(x, y, u)
        PROVE  Before(x, y, s) \/ Before(x, y, t) \/ (x \in Range(s) /\ y \in Range(t))
    <2>1. PICK i, j \in 1..l : i < j /\ u[i] = x /\ u[j] = y
      BY <1>5, <1>9
    <2>2. CASE i \in 1..m /\ j \in 1..m
      BY <1>4, <1>6, <2>1, <2>2
    <2>3. ASSUME i \in 1..m, NEW q \in 1..n, j = m + q
          PROVE  x \in Range(s) /\ y \in Range(t)
      <3>1. s[i] = x /\ t[q] = y
        BY <1>4, <2>1, <2>3
      <3>. QED
        BY <1>6, <1>7, <2>3, <3>1
    <2>4. ASSUME NEW p \in 1..n, i = m + p, NEW q \in 1..n, j = m + q
          PROVE  Before(x, y, t)
      <3>1. p < q /\ t[p] = x /\ t[q] = y
        BY <1>1, <1>4, <2>1, <2>4
      <3>. QED
        BY <1>7, <2>4, <3>1
    <2>5. ~(i \in 1..l /\ j \in 1..m /\ \E p \in 1..n : i = m + p)
      BY <1>1, <2>1
    <2>. QED
      BY <1>2, <2>2, <2>3, <2>4, <2>5
  <1>10. ASSUME NEW x, NEW y, Before(x, y, s) PROVE Before(x, y, u)
    <2>1. PICK i, j \in 1..m : i < j /\ s[i] = x /\ s[j] = y
      BY <1>6, <1>10
    <2>. QED
      BY <1>3, <1>4, <1>5, <2>1
  <1>11. ASSUME NEW x, NEW y, Before(x, y, t) PROVE Before(x, y, u)
    <2>1. PICK i, j \in 1..n : i < j /\ t[i] = x /\ t[j] = y
      BY <1>7, <1>11
    <2>2. m + i < m + j /\ u[m + i] = x /\ u[m + j] = y
      BY <1>1, <1>4, <2>1
    <2>3. m + i \in 1..l /\ m + j \in 1..l
      BY <1>3
    <2>. QED
      BY <1>5, <2>2, <2>3
  <1>12. ASSUME NEW x, NEW y, x \in Range(s), y \in Range(t) PROVE Before(x, y, u)
    <2>1. PICK i \in 1..m, j \in 1..n : s[i] = x /\ t[j] = y
      BY <1>6, <1>7, <1>12
    <2>2. i < m + j /\ u[i] = x /\ u[m + j] = y
      BY <1>1, <1>4, <2>1
    <2>3. i \in 1..l /\ m + j \in 1..l
      BY <1>3
    <2>. QED
      BY <1>5, <2>2, <2>3
  <1>. QED
    BY <1>8, <1>9, <1>10, <1>11, <1>12

LEMMA ConcatRel ==
  ASSUME NEW S, NEW s \in Seq(S), NEW t \in Seq(S)
  PROVE  /\ s \o t \in Seq(S)
         /\ \A x : x \in Range(s \o t) <=> x \in Range(s) \/ x \in Range(t)
         /\ \A x, y : Before(x, y, s \o t) <=>
              Before(x, y, s) \/ Before(x, y, t) \/ (x \in Range(s) /\ y \in Range(t))
  <1>1. PICK u : u = s \o t
    OBVIOUS
  <1>2. Len(s) \in Nat /\ Len(t) \in Nat
    BY LenProperties
  <1>3. u \in Seq(S) /\ Len(u) = Len(s) + Len(t)
    BY <1>1, ConcatProperties
  <1>4. \A i \in 1..(Len(s) + Len(t)) : u[i] = IF i <= Len(s) THEN s[i] ELSE t[i - Len(s)]
    BY <1>1, ConcatProperties
  <1>5. /\ \A i \in 1..Len(s) : u[i] = s[i]
        /\ \A i \in 1..Len(t) : u[Len(s) + i] = t[i]
    BY <1>2, <1>4
  <1>6. /\ \A x : x \in Range(u) <=> x \in Range(s) \/ x \in Range(t)
        /\ \A x, y : Before(x, y, u) <=>
             Before(x, y, s) \/ Before(x, y, t) \/ (x \in Range(s) /\ y \in Range(t))
    BY <1>3, <1>5, JoinRel DEF Joined
  <1>. QED
    BY <1>1, <1>3, <1>6

LEMMA AppendRel ==
  ASSUME NEW S, NEW s \in Seq(S), NEW e \in S
  PROVE  /\ Append(s, e) \in Seq(S)
         /\ \A x : x \in Range(Append(s, e)) <=> x \in Range(s) \/ x = e
         /\ \A x, y : Before(x, y, Append(s, e)) <=> Before(x, y, s) \/ (x \in Range(s) /\ y = e)
  <1>1. PICK o : o = <<e>>
    OBVIOUS
  <1>2. o \in Seq(S) /\ Len(o) = 1 /\ o[1] = e
    BY <1>1
  <1>3. (\A x : x \in Range(o) <=> x = e) /\ (\A x, y : ~Before(x, y, o))
    BY <1>2, ShortRel
  <1>4. PICK u : u = s \o o
    OBVIOUS
  <1>5. /\ u \in Seq(S)
        /\ \A x : x \in Range(u) <=> x \in Range(s) \/ x \in Range(o)
        /\ \A x, y : Before(x, y, u) <=>
             Before(x, y, s) \/ Before(x, y, o) \/ (x \in Range(s) /\ y \in Range(o))
    BY <1>2, <1>4, ConcatRel
  <1>6. Append(s, e) = u
    BY <1>1, <1>4, AppendIsConcat
  <1>. QED
    BY <1>3, <1>5, <1>6

LEMMA HeadTailRel ==
  ASSUME NEW S, NEW s \in Seq(S), s # <<>>
  PROVE  /\ Head(s) \in S /\ Tail(s) \in Seq(S)
         /\ \A x : x \in Range(s) <=> x = Head(s) \/ x \in Range(Tail(s))
         /\ \A x, y : Before(x, y, s) <=>
              (x = Head(s) /\ y \in Range(Tail(s))) \/ Before(x, y, Tail(s))
  <1>1. Len(s) \in Nat \ {0}
    BY EmptySeq
  <1>2. PICK t : t = Tail(s)
    OBVIOUS
  <1>3. PICK e : e = s[1]
    OBVIOUS
  <1>4. /\ e = Head(s) /\ e \in S
        /\ t \in Seq(S) /\ Len(t) = Len(s) - 1
        /\ \A i \in 1..Len(t) : t[i] = s[i + 1]
    BY <1>1, <1>2, <1>3, HeadTailProperties, ElementOfSeq
  <1>5. PICK o : o = <<e>>
    OBVIOUS
  <1>6. o \in Seq(S) /\ Len(o) = 1 /\ o[1] = e
    BY <1>4, <1>5
  <1>7. (\A x : x \in Range(o) <=> x = e) /\ (\A x, y : ~Before(x, y, o))
    BY <1>6, ShortRel
  <1>8. Len(t) \in Nat
    BY <1>4, LenProperties
  <1>9. /\ Len(s) = Len(o) + Len(t)
        /\ \A i \in 1..Len(o) : s[i] = o[i]
        /\ \A i \in 1..Len(t) : s[Len(o) + i] = t[i]
    BY <1>1, <1>3, <1>4, <1>6, <1>8
  <1>10. /\ \A x : x \in Range(s) <=> x \in Range(o) \/ x \in Range(t)
         /\ \A x, y : Before(x, y, s) <=>
              Before(x, y, o) \/ Before(x, y, t) \/ (x \in Range(o) /\ y \in Range(t))
    BY <1>4, <1>6, <1>9, JoinRel DEF Joined
  <1>. QED
    BY <1>2, <1>4, <1>7, <1>10

\* A sequence is its first k elements followed by the others.
LEMMA SplitRel ==
  ASSUME NEW S, NEW s \in Seq(S), NEW k \in 0..Len(s)
  PROVE  /\ SubSeq(s, 1, k) \in Seq(S) /\ SubSeq(s, k + 1, Len(s)) \in Seq(S)
         /\ Len(SubSeq(s, 1, k)) = k /\ Len(SubSeq(s, k + 1, Len(s))) = Len(s) - k
         /\ \A x : x \in Range(SubSeq(s, 1, k)) <=> x \in {s[i] : i \in 1..k}
         /\ \A x : x \in Range(s) <=>
              x \in Range(SubSeq(s, 1, k)) \/ x \in Range(SubSeq(s, k + 1, Len(s)))
         /\ \A x, y : Before(x, y, s) <=>
              \/ Before(x, y, SubSeq(s, 1, k)) \/ Before(x, y, SubSeq(s, k + 1, Len(s)))
              \/ x \in Range(SubSeq(s, 1, k)) /\ y \in Range(SubSeq(s, k + 1, Len(s)))
  <1>1. Len(s) \in Nat /\ k \in Nat /\ k <= Len(s) /\ \A i \in 1..Len(s) : s[i] \in S
    BY LenProperties, ElementOfSeq
  <1>2. PICK a : a = SubSeq(s, 1, k)
    OBVIOUS
  <1>3. PICK b : b = SubSeq(s, k + 1, Len(s))
    OBVIOUS
  <1>4. a \in Seq(S) /\ Len(a) = k /\ \A i \in 1..k : s[i] = a[i]
    BY <1>1, <1>2, SubSeqProperties
  <1>5. b \in Seq(S) /\ Len(b) = Len(s) - k
    BY <1>1, <1>3, SubSeqProperties
  <1>6. \A i \in 1..(Len(s) - (k + 1) + 1) : b[i] = s[k + 1 + i - 1]
    BY <1>1, <1>3, SubSeqProperties
  <1>7. /\ Len(s) = Len(a) + Len(b)
        /\ \A i \in 1..Len(a) : s[i] = a[i]
        /\ \A i \in 1..Len(b) : s[Len(a) + i] = b[i]
    BY <1>1, <1>4, <1>5, <1>6
  <1>8. \A x : x \in Range(a) <=> x \in {s[i] : i \in 1..k}
    BY <1>4, RangeUpTo
  <1>9. /\ \A x : x \in Range(s) <=> x \in Range(a) \/ x \in Range(b)
        /\ \A x, y : Before(x, y, s) <=>
             Before(x, y, a) \/ Before(x, y, b) \/ (x \in Range(a) /\ y \in Range(b))
    BY <1>4, <1>5, <1>7, JoinRel DEF Joined
  <1>. QED
    BY <1>2, <1>3, <1>4, <1>5, <1>8, <1>9

\* What Without does: it takes the elements of F out and keeps the order of
\* the others.
LEMMA WithoutRel ==
  ASSUME NEW S, NEW s \in Seq(S), NEW F
  PROVE  /\ Without(s, F) \in Seq(S)
         /\ \A x : x \in Range(Without(s, F)) <=> x \in Range(s) /\ x \notin F
         /\ \A x, y : Before(x, y, Without(s, F)) => Before(x, y, s)
  <1>1. Len(s) \in Nat /\ \A i \in 1..Len(s) : s[i] \in S
    BY LenProperties, ElementOfSeq
  <1>2. PICK kept : Keeps(kept, s, F, Len(s)) /\ Without(s, F) = kept[Len(s)]
    BY <1>1, WithoutDef
  <1>. DEFINE P(n) == /\ kept[n] \in Seq(S)
                      /\ \A x : x \in Range(kept[n]) <=>
                           x \notin F /\ \E i \in 1..n : s[i] = x
                      /\ \A x, y : Before(x, y, kept[n]) =>
                           \E i, j \in 1..n : i < j /\ s[i] = x /\ s[j] = y
              Bad == {n \in 0..Len(s) : ~P(n)}
  <1>3. P(0)
    <2>1. kept[0] = <<>>
      BY <1>1, <1>2, KeepsAt
    <2>. QED
      BY <2>1, EmptySeq, EmptyRel
  <1>4. ASSUME NEW n \in 1..Len(s), P(n - 1)
        PROVE  P(n)
    <2>1. /\ n \in 0..Len(s) /\ n - 1 \in 0..Len(s) /\ n \in Nat
          /\ \A i : i \in 1..n <=> i \in 1..(n - 1) \/ i = n
      BY <1>1
    <2>2. kept[n] = IF s[n] \in F THEN kept[n - 1] ELSE Append(kept[n - 1], s[n])
      BY <1>1, <1>2, <2>1, KeepsAt
    <2>3. CASE s[n] \in F
      BY <1>4, <2>1, <2>2, <2>3
    <2>4. CASE s[n] \notin F
      <3>1. kept[n] = Append(kept[n - 1], s[n]) /\ s[n] \in S
        BY <1>1, <2>2, <2>4
      <3>2. /\ kept[n] \in Seq(S)
            /\ \A x : x \in Range(kept[n]) <=> x \in Range(kept[n - 1]) \/ x = s[n]
            /\ \A x, y : Before(x, y, kept[n]) <=>
                 Before(x, y, kept[n - 1]) \/ (x \in Range(kept[n - 1]) /\ y = s[n])
        BY <1>4, <3>1, AppendRel
      <3>3. \A x : x \in Range(kept[n]) <=> x \notin F /\ \E i \in 1..n : s[i] = x
        BY <1>4, <2>1, <2>4, <3>2
      <3>4. ASSUME NEW x, NEW y, Before(x, y, kept[n])
            PROVE  \E i, j \in 1..n : i < j /\ s[i] = x /\ s[j] = y
        <4>1. CASE Before(x, y, kept[n - 1])
          BY <1>4, <2>1, <4>1
        <4>2. CASE x \in Range(kept[n - 1]) /\ y = s[n]
          BY <1>4, <2>1, <4>2
        <4>. QED
          BY <3>2, <3>4, <4>1, <4>2
      <3>. QED
        BY <3>2, <3>3, <3>4
    <2>. QED
      BY <2>3, <2>4
  <1>5. P(Len(s))
    <2>. HIDE DEF P
    <2>1. SUFFICES ASSUME Bad # {} PROVE FALSE
      BY <1>1
    <2>2. PICK n \in Bad : \A j \in Bad : n <= j
      <3>1. Bad \in SUBSET Nat
        BY <1>1
      <3>. HIDE DEF Bad
      <3>. QED
        BY <2>1, <3>1, LeastNatural
    <2>3. n \in 1..Len(s) /\ n - 1 \in 0..Len(s) /\ n - 1 \notin Bad
      BY <1>1, <1>3, <2>2
    <2>. QED
      BY <1>4, <2>2, <2>3
  <1>. QED
    BY <1>2, <1>5, RangeIs

-----------------------------------------------------------------------------
(* The semaphore                                                           *)

\* As many places of a sequence as there are permits left over.
LEMMA FreePermits ==
  ASSUME NEW l \in Nat, NEW c \in Nat, c <= Concurrency
  PROVE  LET k == Cardinality({i \in 1..l : i + c <= Concurrency})
         IN k \in 0..l /\ k + c <= Concurrency
  <1>. DEFINE k == IF l <= Concurrency - c THEN l ELSE Concurrency - c
  <1>1. Concurrency \in Nat
    BY LimitsAssumption
  <1>2. k \in 0..l /\ k + c <= Concurrency /\ k \in Nat
    BY <1>1
  <1>3. {i \in 1..l : i + c <= Concurrency} = 1..k
    BY <1>1
  <1>. HIDE DEF k
  <1>4. Cardinality(1..k) = k
    BY <1>2, FS_Interval
  <1>. QED
    BY <1>2, <1>3, <1>4

LEMMA FirstsAreFew ==
  ASSUME NEW s, NEW k \in Nat
  PROVE  IsFiniteSet({s[i] : i \in 1..k}) /\ Cardinality({s[i] : i \in 1..k}) <= k
  <1>. DEFINE R == {s[i] : i \in 1..k}
              f == [i \in 1..k |-> s[i]]
  <1>1. f \in Surjection(1..k, R)
    BY DEF Surjection
  <1>2. IsFiniteSet(1..k) /\ Cardinality(1..k) = k
    BY FS_Interval
  <1>. HIDE DEF f, R
  <1>3. IsFiniteSet(R) /\ Cardinality(R) <= Cardinality(1..k)
    BY <1>1, <1>2, FS_Surjection
  <1>. QED
    BY <1>2, <1>3 DEF R

\* What Pass does: some of the oldest waiters, woken, get the free permits and go
\* behind rest; nobody overtakes anybody, and the permits are not exceeded.
PassedTo(woken, F, permits, rest) ==
  /\ holding' = (permits \ F) \cup Range(woken)
  /\ holding' \subseteq Messages
  /\ IsFiniteSet(holding') /\ Cardinality(holding') <= Concurrency
  /\ waiters' \in Seq(Messages) /\ ready' \in Seq(Messages)
  /\ \A x : x \in Range(waiters) /\ x \notin F <=>
       x \in Range(woken) \/ x \in Range(waiters')
  /\ \A x, y : \/ Before(x, y, woken) \/ Before(x, y, waiters')
               \/ x \in Range(woken) /\ y \in Range(waiters')
               => Before(x, y, waiters)
  /\ \A x : x \in Range(ready') <=> (x \in Range(rest) /\ x \notin F) \/ x \in Range(woken)
  /\ \A x, y : Before(x, y, ready') =>
       \/ Before(x, y, rest) \/ Before(x, y, woken)
       \/ x \in Range(rest) /\ y \in Range(woken)
  /\ registry' = [c \in Corrs |-> IF registry[c] \in F THEN None ELSE registry[c]]

LEMMA PassEffect ==
  ASSUME waiters \in Seq(Messages),
         NEW F, NEW permits, NEW rest, rest \in Seq(Messages),
         permits \subseteq Messages, IsFiniteSet(permits),
         Cardinality(permits \ F) <= Concurrency,
         Pass(F, permits, rest)
  PROVE  \E woken \in Seq(Messages) : PassedTo(woken, F, permits, rest)
  <1>1. PICK w : w = Without(waiters, F)
    OBVIOUS
  <1>2. PICK c : c = Cardinality(permits \ F)
    OBVIOUS
  <1>3. PICK k : k = Cardinality({i \in DOMAIN w : i + c <= Concurrency})
    OBVIOUS
  <1>4. PICK woken : woken = SubSeq(w, 1, k)
    OBVIOUS
  <1>5. PICK left : left = SubSeq(w, k + 1, Len(w))
    OBVIOUS
  <1>6. PICK r : r = Without(rest, F)
    OBVIOUS
  <1>7. /\ holding' = (permits \ F) \cup {w[i] : i \in 1..k}
        /\ waiters' = left
        /\ ready' = r \o woken
        /\ registry' = [d \in Corrs |-> IF registry[d] \in F THEN None ELSE registry[d]]
    BY <1>1, <1>2, <1>3, <1>4, <1>5, <1>6 DEF Pass
  <1>8. /\ w \in Seq(Messages)
        /\ \A x : x \in Range(w) <=> x \in Range(waiters) /\ x \notin F
        /\ \A x, y : Before(x, y, w) => Before(x, y, waiters)
    BY <1>1, WithoutRel
  <1>9. /\ r \in Seq(Messages)
        /\ \A x : x \in Range(r) <=> x \in Range(rest) /\ x \notin F
        /\ \A x, y : Before(x, y, r) => Before(x, y, rest)
    BY <1>6, WithoutRel
  <1>10. /\ IsFiniteSet(permits \ F) /\ c \in Nat /\ c <= Concurrency
    BY <1>2, FS_Subset, FS_CardinalityType
  <1>11. Len(w) \in Nat /\ DOMAIN w = 1..Len(w)
    BY <1>8, LenProperties
  <1>12. k \in 0..Len(w) /\ k \in Nat /\ k + c <= Concurrency
    <2>1. k = Cardinality({i \in 1..Len(w) : i + c <= Concurrency})
      BY <1>3, <1>11
    <2>. QED
      BY <1>10, <1>11, <2>1, FreePermits
  <1>13. /\ woken \in Seq(Messages) /\ left \in Seq(Messages)
         /\ \A x : x \in Range(woken) <=> x \in {w[i] : i \in 1..k}
         /\ \A x : x \in Range(w) <=> x \in Range(woken) \/ x \in Range(left)
         /\ \A x, y : Before(x, y, w) <=>
              \/ Before(x, y, woken) \/ Before(x, y, left)
              \/ x \in Range(woken) /\ y \in Range(left)
    BY <1>4, <1>5, <1>8, <1>12, SplitRel
  <1>14. PICK q : q = r \o woken
    OBVIOUS
  <1>15. /\ q \in Seq(Messages)
         /\ \A x : x \in Range(q) <=> x \in Range(r) \/ x \in Range(woken)
         /\ \A x, y : Before(x, y, q) <=>
              \/ Before(x, y, r) \/ Before(x, y, woken)
              \/ x \in Range(r) /\ y \in Range(woken)
    BY <1>9, <1>13, <1>14, ConcatRel
  <1>16. PICK H : H = {w[i] : i \in 1..k}
    OBVIOUS
  <1>17. H = Range(woken) /\ H \subseteq Messages
    <2>1. H = Range(woken)
      BY <1>13, <1>16
    <2>2. \A x : x \in Range(woken) => x \in Messages
      BY <1>13, RangeIs
    <2>. QED
      BY <2>1, <2>2
  <1>18. IsFiniteSet(H) /\ Cardinality(H) <= k /\ Cardinality(H) \in Nat
    BY <1>12, <1>16, FirstsAreFew, FS_CardinalityType
  <1>19. /\ IsFiniteSet((permits \ F) \cup H)
         /\ Cardinality((permits \ F) \cup H) <= Concurrency
    <2>1. PICK P : P = permits \ F
      OBVIOUS
    <2>2. IsFiniteSet(P \cup H) /\ Cardinality(P \cup H) = c + Cardinality(H) - Cardinality(P \cap H)
      BY <1>2, <1>10, <1>18, <2>1, FS_Union
    <2>3. Cardinality(P \cap H) \in Nat
      BY <1>18, FS_Subset, FS_CardinalityType
    <2>4. Concurrency \in Nat
      BY LimitsAssumption
    <2>. QED
      BY <1>10, <1>12, <1>18, <2>1, <2>2, <2>3, <2>4
  <1>20. holding' = (permits \ F) \cup H /\ waiters' = left /\ ready' = q
    BY <1>7, <1>14, <1>16
  <1>21. /\ holding' = (permits \ F) \cup Range(woken)
         /\ holding' \subseteq Messages
         /\ IsFiniteSet(holding') /\ Cardinality(holding') <= Concurrency
    BY <1>17, <1>19, <1>20
  <1>22. /\ \A x : x \in Range(waiters) /\ x \notin F <=>
              x \in Range(woken) \/ x \in Range(left)
         /\ \A x, y : \/ Before(x, y, woken) \/ Before(x, y, left)
                      \/ x \in Range(woken) /\ y \in Range(left)
                      => Before(x, y, waiters)
    BY <1>8, <1>13
  <1>23. /\ \A x : x \in Range(q) <=> (x \in Range(rest) /\ x \notin F) \/ x \in Range(woken)
         /\ \A x, y : Before(x, y, q) =>
              \/ Before(x, y, rest) \/ Before(x, y, woken)
              \/ x \in Range(rest) /\ y \in Range(woken)
    BY <1>9, <1>15
  <1>24. PassedTo(woken, F, permits, rest)
    BY <1>7, <1>13, <1>15, <1>20, <1>21, <1>22, <1>23 DEF PassedTo
  <1>. QED
    BY <1>13, <1>24

-----------------------------------------------------------------------------
(* The invariant                                                           *)

Running == {"claude", "terminating", "cancelling", "replying"}

Polled == IF response = None THEN <<>> ELSE response

Typed == TypeOK /\ IsFiniteSet(holding)

\* Nothing is in a queue twice.
Once ==
  \A x \in Messages :
    /\ ~Before(x, x, inbox) /\ ~Before(x, x, Polled)
    /\ ~Before(x, x, ready) /\ ~Before(x, x, waiters) /\ ~Before(x, x, dispatched)

\* What is on the way to the daemon has no task there yet.
Arriving ==
  \A x \in Messages :
    /\ x \in Range(inbox) => st[x] = "none" /\ x \in posted /\ x \notin Range(Polled)
    /\ x \in Range(Polled) => st[x] = "none" /\ x \in posted
    /\ st[x] # "none" => x \in posted

\* Where a task is decides in which queue it is and whether it has a permit.
PlacedAt(x) ==
  /\ x \in Range(ready) =>
       (st[x] = "ready" /\ x \notin holding) \/ (st[x] = "queued" /\ x \in holding)
  /\ x \in Range(waiters) => st[x] = "queued" /\ x \notin holding
  /\ st[x] = "ready" => x \in Range(ready)
  /\ st[x] = "queued" => x \in Range(ready) \/ x \in Range(waiters)
  /\ st[x] \in Running => x \in holding /\ x \in Range(handled)
  /\ x \in holding => st[x] \in {"queued"} \cup Running
  /\ st[x] \in {"queued"} \cup Running => ~Bypass(x)
  /\ x \in Range(dispatched) <=> st[x] # "none"
  /\ x \in Range(handled) => st[x] \in {"done"} \cup Running

Placed == \A x \in Messages : PlacedAt(x)

\* Only a task that waits for its claude process has a live one.
Computing == \A x \in Messages : proc[x] = "live" => st[x] = "claude"

\* The registry has the unfinished asks and nothing else.
Registered ==
  /\ \A c \in Corrs :
       registry[c] # None =>
         registry[c].kind = "ask" /\ registry[c].corr = c /\ st[registry[c]] \notin {"none", "done"}
  /\ \A m \in Messages : m.kind = "ask" /\ st[m] \notin {"none", "done"} => registry[m.corr] = m

New(x) == st[x] = "ready" /\ ~Bypass(x)

Awake(x) == st[x] = "queued" /\ x \in holding

Asleep(x) == x \in Range(waiters)

\* The semaphore and the loop will let x in before y.
Ahead(x, y) ==
  \/ New(x) /\ New(y) /\ Before(x, y, ready)
  \/ Awake(x) /\ Awake(y) /\ Before(x, y, ready)
  \/ Before(x, y, waiters)
  \/ Awake(x) /\ (Asleep(y) \/ New(y))
  \/ Asleep(x) /\ New(y)

Fifo == \A x, y \in Messages : Ahead(x, y) => Before(x, y, dispatched)

Queues == Typed /\ Once /\ Arriving /\ Placed /\ Registered /\ Fifo

LEMMA MessageFacts ==
  /\ \A m \in Messages : m.kind \in {"send", "ask", "cancel"} /\ m.corr \in Corrs \cup {None}
                         /\ m.tagged \in BOOLEAN
  /\ \A m \in Messages : m.kind = "ask" => m.corr \in Corrs /\ ~Bypass(m)
  /\ \A a, b \in Messages : a.kind = "ask" /\ b.kind = "ask" /\ a.corr = b.corr => a = b
  /\ None \notin Messages
  BY MessagesAssumption, NoneAssumption DEF Envelopes, Bypass

LEMMA InitQueues == Init => Queues
  <1>. SUFFICES ASSUME Init PROVE Queues
    OBVIOUS
  <1>. USE DEF Init
  <1>1. Typed
    <2>1. <<>> \in Seq(Messages)
      BY EmptySeq
    <2>2. IsFiniteSet(holding) /\ Cardinality(holding) <= Concurrency
      BY FS_EmptySet, LimitsAssumption
    <2>. QED
      BY <2>1, <2>2 DEF Typed, TypeOK, TaskStates
  <1>2. PICK e : e = <<>> /\ (\A x : x \notin Range(e)) /\ (\A x, y : ~Before(x, y, e))
    BY EmptyRel
  <1>3. /\ inbox = e /\ Polled = e /\ ready = e /\ waiters = e /\ dispatched = e /\ handled = e
        /\ \A x \in Messages : st[x] = "none"
        /\ holding = {} /\ \A c \in Corrs : registry[c] = None
    BY <1>2 DEF Polled
  <1>. QED
    BY <1>1, <1>2, <1>3 DEF Queues, Once, Arriving, Placed, PlacedAt, Registered, Fifo, Ahead,
                            New, Awake, Asleep, Running

-----------------------------------------------------------------------------
(* A step of a task                                                        *)

\* A step in which the tasks of F end and the task at the head of ready, if it
\* is in E, enters process_message.
TaskEffect(F, E, permits, rest) ==
  /\ F \subseteq Messages /\ E \subseteq Messages /\ Pass(F, permits, rest)
  /\ UNCHANGED pollVars
  /\ handled' \in Seq(Messages)
  /\ \A x : x \in Range(handled') <=> x \in Range(handled) \/ x \in E
  /\ st' \in [Messages -> TaskStates]
  /\ \A x \in F : st[x] # "none" /\ st'[x] = "done"
  /\ \A x \in E : x \notin F => st'[x] = "claude" /\ x \in permits /\ ~Bypass(x)
  /\ \A x \in Messages : x \notin E /\ x \notin F =>
       st'[x] = st[x] \/ (st[x] \in Running /\ st'[x] \in Running)
  /\ rest \in Seq(Messages)
  /\ \A x : x \in Range(ready) <=> x \in Range(rest) \/ x \in E
  /\ \A x \in E : x \notin Range(rest)
  /\ \A x, y : Before(x, y, rest) => Before(x, y, ready)
  /\ holding \subseteq permits /\ permits \subseteq holding \cup E
  /\ IsFiniteSet(permits) /\ Cardinality(permits \ F) <= Concurrency

LEMMA TaskEffectQueues ==
  ASSUME Queues, NEW F, NEW E, NEW permits, NEW rest, TaskEffect(F, E, permits, rest),
         proc' \in [Messages -> {"none", "live", "signalled", "killed", "exited"}],
         outcome' \in [Messages -> {"none", "logged", "replied", "unanswered",
                                    "failed", "cancelled"}],
         life' \in {"up", "draining", "cancelling", "down"}, shutdown' \in BOOLEAN
  PROVE  Queues'
  <1>. USE DEF Queues
  <1>1. /\ F \subseteq Messages /\ E \subseteq Messages
        /\ handled' \in Seq(Messages)
        /\ \A x : x \in Range(handled') <=> x \in Range(handled) \/ x \in E
        /\ st' \in [Messages -> TaskStates]
        /\ UNCHANGED <<inbox, posted, response, dispatched>>
    BY DEF TaskEffect, pollVars
  <1>2. /\ \A x \in F : st[x] # "none" /\ st'[x] = "done"
        /\ \A x \in E : x \notin F => st'[x] = "claude" /\ x \in permits /\ ~Bypass(x)
        /\ \A x \in Messages : x \notin E /\ x \notin F =>
             st'[x] = st[x] \/ (st[x] \in Running /\ st'[x] \in Running)
    BY DEF TaskEffect
  <1>3. /\ \A x : x \in Range(ready) <=> x \in Range(rest) \/ x \in E
        /\ \A x \in E : x \notin Range(rest)
        /\ \A x, y : Before(x, y, rest) => Before(x, y, ready)
        /\ holding \subseteq permits /\ permits \subseteq holding \cup E
    BY DEF TaskEffect
  <1>4. PICK woken \in Seq(Messages) : PassedTo(woken, F, permits, rest)
    <2>1. permits \subseteq Messages
      BY <1>1, <1>3 DEF Typed, TypeOK
    <2>. QED
      BY <2>1, PassEffect DEF TaskEffect, Typed, TypeOK
  <1>5. /\ holding' = (permits \ F) \cup Range(woken)
        /\ \A x : x \in Range(waiters) /\ x \notin F <=>
             x \in Range(woken) \/ x \in Range(waiters')
        /\ \A x : x \in Range(ready') <=> (x \in Range(rest) /\ x \notin F) \/ x \in Range(woken)
    BY <1>4 DEF PassedTo
  <1>6. /\ \A x, y : \/ Before(x, y, woken) \/ Before(x, y, waiters')
                     \/ x \in Range(woken) /\ y \in Range(waiters')
                     => Before(x, y, waiters)
        /\ \A x, y : Before(x, y, ready') =>
             \/ Before(x, y, rest) \/ Before(x, y, woken)
             \/ x \in Range(rest) /\ y \in Range(woken)
    BY <1>4 DEF PassedTo
  <1>7. registry' = [c \in Corrs |-> IF registry[c] \in F THEN None ELSE registry[c]]
    BY <1>4 DEF PassedTo
  <1>8. \A x \in Messages :
          /\ x \in Range(ready) =>
               (st[x] = "ready" /\ x \notin holding) \/ (st[x] = "queued" /\ x \in holding)
          /\ x \in Range(waiters) => st[x] = "queued" /\ x \notin holding
          /\ st[x] = "ready" => x \in Range(ready)
          /\ st[x] = "queued" => x \in Range(ready) \/ x \in Range(waiters)
          /\ st[x] \in Running => x \in holding /\ x \in Range(handled)
          /\ x \in holding => st[x] \in {"queued"} \cup Running
          /\ st[x] \in {"queued"} \cup Running => ~Bypass(x)
          /\ x \in Range(dispatched) <=> st[x] # "none"
          /\ x \in Range(handled) => st[x] \in {"done"} \cup Running
    BY DEF Placed, PlacedAt
  <1>9. /\ Typed'
    <2>1. registry' \in [Corrs -> Messages \cup {None}]
      BY <1>7 DEF Typed, TypeOK
    <2>2. /\ holding' \subseteq Messages /\ IsFiniteSet(holding')
          /\ Cardinality(holding') <= Concurrency
          /\ waiters' \in Seq(Messages) /\ ready' \in Seq(Messages)
      BY <1>4 DEF PassedTo
    <2>. QED
      BY <1>1, <2>1, <2>2 DEF Typed, TypeOK
  <1>10. \A x \in Messages : x \in Range(woken) =>
           x \in Range(waiters) /\ x \notin F /\ st'[x] = "queued" /\ st[x] = "queued"
           /\ x \notin holding /\ x \notin Range(ready) /\ x \notin E
    <2>1. SUFFICES ASSUME NEW x \in Messages, x \in Range(woken)
                   PROVE  /\ x \in Range(waiters) /\ x \notin F /\ x \notin holding
                          /\ st[x] = "queued" /\ x \notin Range(ready) /\ st'[x] = "queued"
                          /\ x \notin E
      OBVIOUS
    <2>2. x \in Range(waiters) /\ x \notin F
      BY <1>5, <2>1
    <2>3. st[x] = "queued" /\ x \notin holding
      BY <1>8, <2>2
    <2>4. x \notin Range(ready)
      BY <1>8, <2>3
    <2>5. x \notin E
      BY <1>3, <2>4
    <2>. QED
      BY <1>2, <2>2, <2>3, <2>4, <2>5 DEF Running
  <1>11. \A x \in Messages : x \in Range(rest) => x \in Range(ready) /\ x \notin E
    BY <1>3
  <1>12. Once'
    <2>. SUFFICES ASSUME NEW x \in Messages
                  PROVE  ~Before(x, x, ready') /\ ~Before(x, x, waiters')
      BY <1>1 DEF Once, Polled
    <2>1. ~Before(x, x, waiters')
      BY <1>6 DEF Once
    <2>2. ~Before(x, x, rest) /\ ~Before(x, x, woken)
      BY <1>3, <1>6 DEF Once
    <2>3. ~(x \in Range(rest) /\ x \in Range(woken))
      BY <1>10, <1>11
    <2>. QED
      BY <1>6, <2>1, <2>2, <2>3
  <1>13. \A x \in Messages : st'[x] # "none" <=> st[x] # "none"
    <2>1. SUFFICES ASSUME NEW x \in Messages PROVE st'[x] # "none" <=> st[x] # "none"
      OBVIOUS
    <2>2. CASE x \in F
      BY <1>2, <2>2
    <2>3. CASE x \in E /\ x \notin F
      <3>1. st[x] \in {"ready", "queued"}
        BY <1>3, <1>8, <2>3
      <3>. QED
        BY <1>2, <2>3, <3>1
    <2>4. CASE x \notin E /\ x \notin F
      BY <1>2, <2>4 DEF Running
    <2>. QED
      BY <2>2, <2>3, <2>4
  <1>14. Arriving'
    BY <1>1, <1>13 DEF Arriving, Polled
  <1>15. \A x \in Messages : st'[x] \in {"ready", "queued"} =>
           x \notin E /\ x \notin F /\ st'[x] = st[x]
    <2>1. SUFFICES ASSUME NEW x \in Messages, st'[x] \in {"ready", "queued"}
                   PROVE  x \notin E /\ x \notin F /\ st'[x] = st[x]
      OBVIOUS
    <2>2. x \notin F
      BY <1>2, <2>1
    <2>3. x \notin E
      BY <1>2, <2>1, <2>2
    <2>. QED
      BY <1>2, <2>1, <2>2, <2>3 DEF Running
  <1>16. \A x \in Messages : x \notin E /\ x \notin F /\ st[x] \in {"ready", "queued"} =>
           st'[x] = st[x]
    BY <1>2 DEF Running
  <1>17. ASSUME NEW x \in Messages
         PROVE  /\ x \in Range(ready') =>
                     \/ st'[x] = "ready" /\ x \notin holding'
                     \/ st'[x] = "queued" /\ x \in holding'
                /\ x \in Range(waiters') => st'[x] = "queued" /\ x \notin holding'
    <2>1. ASSUME x \in Range(ready')
          PROVE  \/ st'[x] = "ready" /\ x \notin holding'
                 \/ st'[x] = "queued" /\ x \in holding'
      <3>1. CASE x \in Range(woken)
        BY <1>5, <1>10, <3>1
      <3>2. CASE x \in Range(rest) /\ x \notin F /\ x \notin Range(woken)
        <4>1. x \in Range(ready) /\ x \notin E
          BY <1>11, <3>2
        <4>2. st'[x] = st[x]
          BY <1>8, <1>16, <3>2, <4>1
        <4>3. x \in holding' <=> x \in holding
          BY <1>3, <1>5, <3>2, <4>1
        <4>. QED
          BY <1>8, <4>1, <4>2, <4>3
      <3>. QED
        BY <1>5, <2>1, <3>1, <3>2
    <2>2. ASSUME x \in Range(waiters') PROVE st'[x] = "queued" /\ x \notin holding'
      <3>1. x \in Range(waiters) /\ x \notin F
        BY <1>5, <2>2
      <3>2. st[x] = "queued" /\ x \notin holding /\ x \notin Range(ready)
        BY <1>8, <3>1
      <3>3. x \notin E
        BY <1>3, <3>2
      <3>4. x \notin Range(woken)
        BY <1>6, <2>2 DEF Once
      <3>5. st'[x] = "queued"
        BY <1>16, <3>1, <3>2, <3>3
      <3>. QED
        BY <1>3, <1>5, <3>2, <3>3, <3>4, <3>5
    <2>. QED
      BY <2>1, <2>2
  <1>18. ASSUME NEW x \in Messages
         PROVE  /\ st'[x] = "ready" => x \in Range(ready')
                /\ st'[x] = "queued" => x \in Range(ready') \/ x \in Range(waiters')
                /\ st'[x] \in Running => x \in holding' /\ x \in Range(handled')
    <2>1. ASSUME st'[x] = "ready" PROVE x \in Range(ready')
      BY <1>3, <1>5, <1>8, <1>15, <2>1
    <2>2. ASSUME st'[x] = "queued" PROVE x \in Range(ready') \/ x \in Range(waiters')
      <3>1. x \notin E /\ x \notin F /\ st[x] = "queued"
        BY <1>15, <2>2
      <3>. QED
        BY <1>3, <1>5, <1>8, <3>1
    <2>3. ASSUME st'[x] \in Running PROVE x \in holding' /\ x \in Range(handled')
      <3>1. x \notin F
        BY <1>2, <2>3 DEF Running
      <3>2. CASE x \in E
        BY <1>1, <1>2, <1>5, <3>1, <3>2
      <3>3. CASE x \notin E
        <4>1. st[x] \in Running
          BY <1>2, <2>3, <3>1, <3>3
        <4>. QED
          BY <1>1, <1>3, <1>5, <1>8, <3>1, <4>1
      <3>. QED
        BY <3>2, <3>3
    <2>. QED
      BY <2>1, <2>2, <2>3
  <1>19. ASSUME NEW x \in Messages
         PROVE  /\ x \in holding' => st'[x] \in {"queued"} \cup Running
                /\ st'[x] \in {"queued"} \cup Running => ~Bypass(x)
                /\ x \in Range(handled') => st'[x] \in {"done"} \cup Running
    <2>1. CASE x \in F
      BY <1>2, <1>5, <1>10, <2>1 DEF Running
    <2>2. CASE x \in E /\ x \notin F
      BY <1>2, <2>2 DEF Running
    <2>3. CASE x \notin E /\ x \notin F
      <3>1. st'[x] = st[x] \/ (st[x] \in Running /\ st'[x] \in Running)
        BY <1>2, <2>3
      <3>2. st[x] \in {"queued"} \cup Running <=> st'[x] \in {"queued"} \cup Running
        BY <3>1
      <3>3. x \in holding' => x \in holding \/ x \in Range(woken)
        BY <1>3, <1>5, <2>3
      <3>4. st[x] \in {"done"} \cup Running <=> st'[x] \in {"done"} \cup Running
        BY <3>1
      <3>5. x \in Range(handled') <=> x \in Range(handled)
        BY <1>1, <2>3
      <3>6. x \in Range(woken) => st'[x] = "queued"
        BY <1>10
      <3>. QED
        BY <1>8, <3>2, <3>3, <3>4, <3>5, <3>6
    <2>. QED
      BY <2>1, <2>2, <2>3
  <1>20. \A x \in Messages : x \in Range(dispatched') <=> st'[x] # "none"
    BY <1>1, <1>8, <1>13
  <1>21. Placed'
    <2>. SUFFICES ASSUME NEW x \in Messages PROVE PlacedAt(x)'
      BY DEF Placed
    <2>. QED
      BY <1>17, <1>18, <1>19, <1>20 DEF PlacedAt, Bypass
  <1>22. Registered'
    <2>1. ASSUME NEW c \in Corrs, registry'[c] # None
          PROVE  /\ registry'[c].kind = "ask" /\ registry'[c].corr = c
                 /\ st'[registry'[c]] \notin {"none", "done"}
      <3>1. PICK m : m = registry[c]
        OBVIOUS
      <3>2. registry'[c] = m /\ m \notin F /\ m # None
        BY <1>7, <2>1, <3>1
      <3>3. m \in Messages
        BY <3>1, <3>2 DEF Typed, TypeOK
      <3>4. m.kind = "ask" /\ m.corr = c /\ st[m] \notin {"none", "done"}
        BY <3>1, <3>2 DEF Registered
      <3>5. st'[m] \notin {"none", "done"}
        BY <1>2, <3>2, <3>3, <3>4 DEF Running
      <3>. QED
        BY <3>2, <3>4, <3>5
    <2>2. ASSUME NEW m \in Messages, m.kind = "ask", st'[m] \notin {"none", "done"}
          PROVE  registry'[m.corr] = m
      <3>1. m \notin F
        BY <1>2, <2>2
      <3>2. st[m] \notin {"none", "done"}
        <4>1. CASE m \in E
          BY <1>3, <1>8, <4>1
        <4>2. CASE m \notin E
          BY <1>2, <2>2, <3>1, <4>2 DEF Running
        <4>. QED
          BY <4>1, <4>2
      <3>3. m.corr \in Corrs /\ registry[m.corr] = m
        BY <2>2, <3>2, MessageFacts DEF Registered
      <3>. QED
        BY <1>7, <3>1, <3>3
    <2>. QED
      BY <2>1, <2>2 DEF Registered
  <1>23. Fifo'
    <2>1. \A x, y \in Messages : Ahead(x, y) => Before(x, y, dispatched')
      BY <1>1 DEF Fifo
    <2>2. \A x \in Messages : New(x)' => New(x) /\ x \in Range(ready)
      BY <1>8, <1>15 DEF New, Bypass
    <2>3. \A x \in Messages : Awake(x)' =>
            (Awake(x) /\ x \notin Range(woken)) \/ (Asleep(x) /\ x \in Range(woken))
      <3>1. SUFFICES ASSUME NEW x \in Messages, Awake(x)'
                     PROVE  (Awake(x) /\ x \notin Range(woken)) \/ (Asleep(x) /\ x \in Range(woken))
        OBVIOUS
      <3>2. x \in holding' /\ x \notin E /\ x \notin F /\ st[x] = "queued"
        BY <1>15, <3>1 DEF Awake
      <3>3. CASE x \in Range(woken)
        BY <1>5, <3>3 DEF Asleep
      <3>4. CASE x \notin Range(woken)
        <4>1. x \in permits
          BY <1>5, <3>2, <3>4
        <4>2. x \in holding
          BY <1>3, <3>2, <4>1
        <4>. QED
          BY <3>2, <3>4, <4>2 DEF Awake
      <3>. QED
        BY <3>3, <3>4
    <2>4. \A x \in Messages : Asleep(x)' => Asleep(x)
      BY <1>5 DEF Asleep
    <2>5. \A x, y \in Messages : Before(x, y, ready') =>
            \/ Before(x, y, ready) /\ x \notin Range(woken) /\ y \notin Range(woken)
            \/ Before(x, y, waiters) /\ x \in Range(woken) /\ y \in Range(woken)
            \/ x \in Range(ready) /\ x \notin Range(woken) /\ y \in Range(woken)
      <3>1. SUFFICES ASSUME NEW x \in Messages, NEW y \in Messages, Before(x, y, ready')
                     PROVE
            \/ Before(x, y, ready) /\ x \notin Range(woken) /\ y \notin Range(woken)
            \/ Before(x, y, waiters) /\ x \in Range(woken) /\ y \in Range(woken)
            \/ x \in Range(ready) /\ x \notin Range(woken) /\ y \in Range(woken)
        OBVIOUS
      <3>2. rest \in Seq(Messages)
        BY DEF TaskEffect
      <3>3. CASE Before(x, y, rest)
        <4>1. x \in Range(rest) /\ y \in Range(rest)
          BY <3>2, <3>3, BeforeRange
        <4>. QED
          BY <1>3, <1>10, <3>3, <4>1
      <3>4. CASE Before(x, y, woken)
        <4>1. x \in Range(woken) /\ y \in Range(woken)
          BY <3>4, BeforeRange
        <4>. QED
          BY <1>6, <3>4, <4>1
      <3>5. CASE x \in Range(rest) /\ y \in Range(woken)
        BY <1>10, <1>11, <3>5
      <3>. QED
        BY <1>6, <3>1, <3>3, <3>4, <3>5
    <2>6. ASSUME NEW x \in Messages, NEW y \in Messages, Ahead(x, y)'
          PROVE  Ahead(x, y)
      <3>1. CASE New(x)' /\ New(y)' /\ Before(x, y, ready)'
        <4>1. x \notin Range(woken) /\ y \notin Range(woken)
          BY <1>10, <2>2, <3>1
        <4>. QED
          BY <2>2, <2>5, <3>1, <4>1 DEF Ahead
      <3>2. CASE Awake(x)' /\ Awake(y)' /\ Before(x, y, ready)'
        BY <2>3, <2>5, <3>2 DEF Ahead
      <3>3. CASE Before(x, y, waiters)'
        BY <1>6, <3>3 DEF Ahead
      <3>4. CASE Awake(x)' /\ Asleep(y)'
        <4>1. CASE x \in Range(woken)
          BY <1>6, <3>4, <4>1 DEF Ahead, Asleep
        <4>2. CASE x \notin Range(woken)
          BY <2>3, <2>4, <3>4, <4>2 DEF Ahead
        <4>. QED
          BY <4>1, <4>2
      <3>5. CASE Awake(x)' /\ New(y)'
        BY <2>2, <2>3, <3>5 DEF Ahead
      <3>6. CASE Asleep(x)' /\ New(y)'
        BY <2>2, <2>4, <3>6 DEF Ahead
      <3>. QED
        BY <2>6, <3>1, <3>2, <3>3, <3>4, <3>5, <3>6 DEF Ahead
    <2>. QED
      BY <2>1, <2>6 DEF Fifo
  <1>. QED
    BY <1>9, <1>12, <1>14, <1>21, <1>22, <1>23

\* What Turn says of the queue and the semaphore.
LEMMA TurnTakes ==
  ASSUME Queues, NEW m \in Messages, Turn(m)
  PROVE  /\ m = Head(ready) /\ Tail(ready) \in Seq(Messages)
         /\ \A x : x \in Range(ready) <=> x \in Range(Tail(ready)) \/ x \in {m}
         /\ m \notin Range(Tail(ready))
         /\ \A y : y \in Range(Tail(ready)) => Before(m, y, ready)
         /\ \A x, y : Before(x, y, Tail(ready)) => Before(x, y, ready)
         /\ handled' \in Seq(Messages)
         /\ \A x : x \in Range(handled') <=> x \in Range(handled) \/ x \in {m}
         /\ st[m] \in {"ready", "queued"}
         /\ holding \subseteq Acquired(m) /\ Acquired(m) \subseteq holding \cup {m}
         /\ ~Bypass(m) => m \in Acquired(m)
         /\ IsFiniteSet(Acquired(m))
         /\ \A F : Cardinality(Acquired(m) \ F) <= Concurrency
  <1>. USE DEF Queues
  <1>1. /\ ready # <<>> /\ m = Head(ready) /\ ready \in Seq(Messages)
        /\ handled \in Seq(Messages) /\ handled' = Append(handled, m)
    BY DEF Turn, Typed, TypeOK
  <1>2. /\ Tail(ready) \in Seq(Messages)
        /\ \A x : x \in Range(ready) <=> x = m \/ x \in Range(Tail(ready))
        /\ \A x, y : Before(x, y, ready) <=>
             (x = m /\ y \in Range(Tail(ready))) \/ Before(x, y, Tail(ready))
    BY <1>1, HeadTailRel
  <1>3. m \notin Range(Tail(ready))
    BY <1>2 DEF Once
  <1>4. st[m] \in {"ready", "queued"}
    BY <1>2 DEF Placed, PlacedAt
  <1>5. /\ handled' \in Seq(Messages)
        /\ \A x : x \in Range(handled') <=> x \in Range(handled) \/ x \in {m}
    BY <1>1, AppendRel
  <1>6. /\ holding \subseteq Acquired(m) /\ Acquired(m) \subseteq holding \cup {m}
        /\ ~Bypass(m) => m \in Acquired(m)
    BY DEF Acquired
  <1>7. IsFiniteSet(Acquired(m)) /\ Cardinality(Acquired(m)) <= Concurrency
    <2>1. /\ IsFiniteSet(holding) /\ Cardinality(holding) <= Concurrency
          /\ Cardinality(holding) \in Nat /\ Concurrency \in Nat
      BY FS_CardinalityType, LimitsAssumption DEF Typed, TypeOK
    <2>2. CASE Bypass(m)
      BY <2>1, <2>2 DEF Acquired
    <2>3. CASE ~Bypass(m) /\ m \in holding
      <3>1. Acquired(m) = holding
        BY <2>3 DEF Acquired
      <3>. QED
        BY <2>1, <3>1
    <2>4. CASE ~Bypass(m) /\ m \notin holding
      <3>1. Cardinality(holding) < Concurrency
        BY <2>4 DEF Turn, Open
      <3>2. Acquired(m) = holding \cup {m}
        BY <2>4 DEF Acquired
      <3>3. /\ IsFiniteSet(holding \cup {m})
            /\ Cardinality(holding \cup {m}) = Cardinality(holding) + 1
        BY <2>1, <2>4, FS_AddElement
      <3>. QED
        BY <2>1, <3>1, <3>2, <3>3
    <2>. QED
      BY <2>2, <2>3, <2>4
  <1>8. ASSUME NEW F PROVE Cardinality(Acquired(m) \ F) <= Concurrency
    <2>1. PICK P : P = Acquired(m)
      OBVIOUS
    <2>2. /\ Cardinality(P \ F) <= Cardinality(P) /\ Cardinality(P) \in Nat
          /\ Cardinality(P \ F) \in Nat
      BY <1>7, <2>1, FS_Subset, FS_CardinalityType
    <2>3. Concurrency \in Nat
      BY LimitsAssumption
    <2>. QED
      BY <1>7, <2>1, <2>2, <2>3
  <1>. QED
    BY <1>1, <1>2, <1>3, <1>4, <1>5, <1>6, <1>7, <1>8

\* A task that enters process_message, in a step that ends the tasks of F.
LEMMA TurnEffect ==
  ASSUME Queues, NEW m \in Messages, Turn(m),
         NEW F, F \subseteq Messages, Pass(F, Acquired(m), Tail(ready)), UNCHANGED pollVars,
         st' \in [Messages -> TaskStates],
         \A x \in F : st[x] # "none" /\ st'[x] = "done",
         m \notin F => st'[m] = "claude" /\ ~Bypass(m),
         \A x \in Messages : x # m /\ x \notin F =>
           st'[x] = st[x] \/ (st[x] \in Running /\ st'[x] \in Running)
  PROVE  TaskEffect(F, {m}, Acquired(m), Tail(ready))
  <1>1. /\ Tail(ready) \in Seq(Messages)
        /\ \A x : x \in Range(ready) <=> x \in Range(Tail(ready)) \/ x \in {m}
        /\ m \notin Range(Tail(ready))
        /\ \A x, y : Before(x, y, Tail(ready)) => Before(x, y, ready)
        /\ handled' \in Seq(Messages)
        /\ \A x : x \in Range(handled') <=> x \in Range(handled) \/ x \in {m}
    BY TurnTakes
  <1>2. /\ holding \subseteq Acquired(m) /\ Acquired(m) \subseteq holding \cup {m}
        /\ ~Bypass(m) => m \in Acquired(m)
        /\ IsFiniteSet(Acquired(m))
        /\ Cardinality(Acquired(m) \ F) <= Concurrency
    BY TurnTakes
  <1>. QED
    BY <1>1, <1>2 DEF TaskEffect

\* The tasks of F end, and nothing enters process_message.
LEMMA EndEffect ==
  ASSUME Queues, NEW F, F \subseteq Messages, Pass(F, holding, ready),
         UNCHANGED <<pollVars, handled>>, st' \in [Messages -> TaskStates],
         \A x \in F : st[x] # "none" /\ st'[x] = "done",
         \A x \in Messages : x \notin F =>
           st'[x] = st[x] \/ (st[x] \in Running /\ st'[x] \in Running)
  PROVE  TaskEffect(F, {}, holding, ready)
  <1>1. /\ ready \in Seq(Messages) /\ handled \in Seq(Messages)
        /\ IsFiniteSet(holding) /\ Cardinality(holding) <= Concurrency
    BY DEF Queues, Typed, TypeOK
  <1>2. Cardinality(holding \ F) <= Concurrency
    <2>1. /\ Cardinality(holding \ F) <= Cardinality(holding) /\ Cardinality(holding) \in Nat
          /\ Cardinality(holding \ F) \in Nat
      BY <1>1, FS_Subset, FS_CardinalityType
    <2>2. Concurrency \in Nat
      BY LimitsAssumption
    <2>. QED
      BY <1>1, <2>1, <2>2
  <1>3. handled' = handled /\ UNCHANGED pollVars
    OBVIOUS
  <1>. QED
    BY <1>1, <1>2, <1>3 DEF TaskEffect

OtherTypes ==
  /\ proc' \in [Messages -> {"none", "live", "signalled", "killed", "exited"}]
  /\ outcome' \in [Messages -> {"none", "logged", "replied", "unanswered",
                                "failed", "cancelled"}]
  /\ life' \in {"up", "draining", "cancelling", "down"} /\ shutdown' \in BOOLEAN

\* A step that only moves tasks about inside process_message, or loses a
\* response.
LEMMA MoveQueues ==
  ASSUME Queues, OtherTypes,
         UNCHANGED <<inbox, posted, dispatched, ready, waiters, holding, registry, handled>>,
         response' = response \/ response' = None,
         st' \in [Messages -> TaskStates],
         \A x \in Messages : st'[x] = st[x] \/ (st[x] \in Running /\ st'[x] \in Running)
  PROVE  Queues'
  <1>. USE DEF Queues
  <1>1. Typed'
    BY DEF Typed, TypeOK, OtherTypes
  <1>2. PICK e : e = <<>> /\ (\A x : x \notin Range(e)) /\ (\A x, y : ~Before(x, y, e))
    BY EmptyRel
  <1>3. Polled' = Polled \/ Polled' = e
    BY <1>2 DEF Polled
  <1>4. Once'
    BY <1>2, <1>3 DEF Once
  <1>5. \A x \in Messages : /\ st'[x] = "none" <=> st[x] = "none"
                            /\ st'[x] = "ready" <=> st[x] = "ready"
                            /\ st'[x] = "queued" <=> st[x] = "queued"
                            /\ st'[x] = "done" <=> st[x] = "done"
                            /\ st'[x] \in Running <=> st[x] \in Running
    BY DEF Running
  <1>6. Arriving'
    BY <1>2, <1>3, <1>5 DEF Arriving
  <1>7. Placed'
    <2>. SUFFICES ASSUME NEW x \in Messages PROVE PlacedAt(x)'
      BY DEF Placed
    <2>1. PlacedAt(x)
      BY DEF Placed
    <2>. QED
      BY <1>5, <2>1 DEF PlacedAt, Bypass
  <1>8. Registered'
    <2>1. \A c \in Corrs : registry[c] # None => registry[c] \in Messages
      BY DEF Typed, TypeOK
    <2>. QED
      BY <1>5, <2>1 DEF Registered
  <1>9. Fifo'
    <2>1. \A x, y \in Messages : Ahead(x, y)' => Ahead(x, y)
      BY <1>5 DEF Ahead, New, Awake, Asleep, Bypass
    <2>. QED
      BY <2>1 DEF Fifo
  <1>. QED
    BY <1>1, <1>4, <1>6, <1>7, <1>8, <1>9

LEMMA QueueQueues ==
  ASSUME Queues, NEW m \in Messages, Queue(m)
  PROVE  Queues'
  <1>. USE DEF Queues
  <1>1. /\ ready # <<>> /\ m = Head(ready) /\ ~Bypass(m) /\ m \notin holding
        /\ ready' = Tail(ready) /\ waiters' = Append(waiters, m)
        /\ st' = [st EXCEPT ![m] = "queued"]
        /\ UNCHANGED <<holding, registry, inbox, posted, response, dispatched, life, shutdown,
                       proc, outcome, handled>>
    BY DEF Queue, pollVars, lifeVars
  <1>2. /\ ready \in Seq(Messages) /\ waiters \in Seq(Messages)
        /\ st \in [Messages -> TaskStates]
    BY DEF Typed, TypeOK
  <1>3. /\ ready' \in Seq(Messages)
        /\ \A x : x \in Range(ready) <=> x = m \/ x \in Range(ready')
        /\ \A x, y : Before(x, y, ready) <=>
             (x = m /\ y \in Range(ready')) \/ Before(x, y, ready')
    BY <1>1, <1>2, HeadTailRel
  <1>4. /\ waiters' \in Seq(Messages)
        /\ \A x : x \in Range(waiters') <=> x \in Range(waiters) \/ x = m
        /\ \A x, y : Before(x, y, waiters') <=>
             Before(x, y, waiters) \/ (x \in Range(waiters) /\ y = m)
    BY <1>1, <1>2, AppendRel
  <1>5. st[m] = "ready" /\ m \notin Range(waiters)
    BY <1>1, <1>3 DEF Placed, PlacedAt
  <1>6. m \notin Range(ready')
    BY <1>3 DEF Once
  <1>7. \A x \in Messages : IF x = m THEN st'[x] = "queued" ELSE st'[x] = st[x]
    BY <1>1, <1>2
  <1>8. Typed'
    BY <1>1, <1>2, <1>3, <1>4 DEF Typed, TypeOK, TaskStates
  <1>9. Once'
    BY <1>1, <1>3, <1>4, <1>5 DEF Once, Polled
  <1>10. Arriving'
    BY <1>1, <1>5, <1>7 DEF Arriving, Polled
  <1>11. Placed'
    <2>. SUFFICES ASSUME NEW x \in Messages PROVE PlacedAt(x)'
      BY DEF Placed
    <2>1. PlacedAt(x)
      BY DEF Placed
    <2>2. CASE x = m
      BY <1>1, <1>3, <1>4, <1>5, <1>6, <1>7, <2>1, <2>2 DEF PlacedAt, Bypass, Running
    <2>3. CASE x # m
      BY <1>1, <1>3, <1>4, <1>7, <2>1, <2>3 DEF PlacedAt, Bypass
    <2>. QED
      BY <2>2, <2>3
  <1>12. Registered'
    <2>1. \A c \in Corrs : registry[c] # None => registry[c] \in Messages
      BY DEF Typed, TypeOK
    <2>. QED
      BY <1>1, <1>5, <1>7, <2>1 DEF Registered
  <1>13. Fifo'
    <2>1. \A x \in Messages : New(x)' => New(x) /\ x # m /\ x \in Range(ready)
      BY <1>7 DEF New, Bypass, Placed, PlacedAt
    <2>2. New(m)
      BY <1>1, <1>5 DEF New
    <2>3. \A x \in Messages : Awake(x)' => Awake(x)
      BY <1>1, <1>7 DEF Awake
    <2>4. \A x \in Messages : Asleep(x)' => Asleep(x) \/ x = m
      BY <1>4 DEF Asleep
    <2>5. ASSUME NEW x \in Messages, NEW y \in Messages, Ahead(x, y)'
          PROVE  Ahead(x, y)
      <3>1. CASE New(x)' /\ New(y)' /\ Before(x, y, ready)'
        BY <1>3, <2>1, <3>1 DEF Ahead
      <3>2. CASE Awake(x)' /\ Awake(y)' /\ Before(x, y, ready)'
        BY <1>3, <2>3, <3>2 DEF Ahead
      <3>3. CASE Before(x, y, waiters)'
        BY <1>4, <2>2, <3>3 DEF Ahead, Asleep
      <3>4. CASE Awake(x)' /\ (Asleep(y) \/ New(y))'
        BY <2>1, <2>2, <2>3, <2>4, <3>4 DEF Ahead
      <3>5. CASE Asleep(x)' /\ New(y)'
        <4>1. CASE x = m
          BY <1>3, <2>1, <2>2, <3>5, <4>1 DEF Ahead
        <4>2. CASE Asleep(x)
          BY <2>1, <3>5, <4>2 DEF Ahead
        <4>. QED
          BY <2>4, <3>5, <4>1, <4>2
      <3>. QED
        BY <2>5, <3>1, <3>2, <3>3, <3>4, <3>5 DEF Ahead
    <2>. QED
      BY <1>1, <2>5 DEF Fifo
  <1>. QED
    BY <1>8, <1>9, <1>10, <1>11, <1>12, <1>13

-----------------------------------------------------------------------------
(* The polls                                                               *)

LEMMA PostQueues ==
  ASSUME Queues, NEW m \in Messages, Post(m)
  PROVE  Queues'
  <1>. USE DEF Queues
  <1>1. /\ m \notin posted /\ posted' = posted \cup {m} /\ inbox' = Append(inbox, m)
        /\ UNCHANGED <<response, dispatched, st, ready, waiters, holding, registry, life,
                       shutdown, proc, outcome, handled>>
    BY DEF Post, taskVars, lifeVars
  <1>2. inbox \in Seq(Messages)
    BY DEF Typed, TypeOK
  <1>3. /\ inbox' \in Seq(Messages)
        /\ \A x : x \in Range(inbox') <=> x \in Range(inbox) \/ x = m
        /\ \A x, y : Before(x, y, inbox') <=>
             Before(x, y, inbox) \/ (x \in Range(inbox) /\ y = m)
    BY <1>1, <1>2, AppendRel
  <1>4. m \notin Range(inbox) /\ m \notin Range(Polled) /\ st[m] = "none"
    BY <1>1 DEF Arriving
  <1>5. Typed'
    BY <1>1, <1>3 DEF Typed, TypeOK
  <1>6. Once'
    BY <1>1, <1>3, <1>4 DEF Once, Polled
  <1>7. Arriving'
    BY <1>1, <1>3, <1>4 DEF Arriving, Polled
  <1>8. Placed'
    BY <1>1 DEF Placed, PlacedAt, Bypass
  <1>9. Registered'
    BY <1>1 DEF Registered
  <1>10. Fifo'
    BY <1>1 DEF Fifo, Ahead, New, Awake, Asleep, Bypass
  <1>. QED
    BY <1>5, <1>6, <1>7, <1>8, <1>9, <1>10

LEMMA PollDrainsQueues ==
  ASSUME Queues, PollDrains
  PROVE  Queues'
  <1>. USE DEF Queues
  <1>1. inbox \in Seq(Messages) /\ Len(inbox) \in Nat
    BY LenProperties DEF Typed, TypeOK
  <1>2. PICK n : n = IF Len(inbox) < BatchMax THEN Len(inbox) ELSE BatchMax
    OBVIOUS
  <1>3. /\ response = None
        /\ response' = SubSeq(inbox, 1, n) /\ inbox' = SubSeq(inbox, n + 1, Len(inbox))
        /\ UNCHANGED <<posted, dispatched, st, ready, waiters, holding, registry, life,
                       shutdown, proc, outcome, handled>>
    BY <1>2 DEF PollDrains, taskVars, lifeVars
  <1>4. n \in 0..Len(inbox)
    BY <1>1, <1>2, LimitsAssumption
  <1>5. /\ response' \in Seq(Messages) /\ inbox' \in Seq(Messages)
        /\ \A x : x \in Range(inbox) <=> x \in Range(response') \/ x \in Range(inbox')
        /\ \A x, y : Before(x, y, inbox) <=>
             \/ Before(x, y, response') \/ Before(x, y, inbox')
             \/ x \in Range(response') /\ y \in Range(inbox')
    BY <1>1, <1>3, <1>4, SplitRel
  <1>6. PICK e : e = <<>> /\ (\A x : x \notin Range(e)) /\ (\A x, y : ~Before(x, y, e))
    BY EmptyRel
  <1>7. Polled = e /\ (Polled' = response' \/ Polled' = e)
    BY <1>3, <1>6 DEF Polled
  <1>8. Typed'
    BY <1>3, <1>5 DEF Typed, TypeOK
  <1>9. Once'
    <2>1. \A x \in Messages : ~Before(x, x, inbox') /\ ~Before(x, x, response')
      BY <1>5 DEF Once
    <2>2. \A x \in Messages : ~Before(x, x, Polled')
      BY <1>6, <1>7, <2>1
    <2>3. /\ ready' = ready /\ waiters' = waiters /\ dispatched' = dispatched
      BY <1>3
    <2>. QED
      BY <2>1, <2>2, <2>3 DEF Once
  <1>10. Arriving'
    <2>. SUFFICES ASSUME NEW x \in Messages
                  PROVE  /\ x \in Range(inbox') => st[x] = "none" /\ x \in posted
                                                   /\ x \notin Range(Polled')
                         /\ x \in Range(Polled') => st[x] = "none" /\ x \in posted
                         /\ st[x] # "none" => x \in posted
      BY <1>3 DEF Arriving
    <2>1. x \in Range(inbox') => x \notin Range(response')
      BY <1>5 DEF Once
    <2>2. x \in Range(Polled') => x \in Range(response')
      BY <1>6, <1>7
    <2>. QED
      BY <1>5, <2>1, <2>2 DEF Arriving
  <1>11. Placed'
    BY <1>3 DEF Placed, PlacedAt, Bypass
  <1>12. Registered'
    BY <1>3 DEF Registered
  <1>13. Fifo'
    BY <1>3 DEF Fifo, Ahead, New, Awake, Asleep, Bypass
  <1>. QED
    BY <1>8, <1>9, <1>10, <1>11, <1>12, <1>13

LEMMA PollReceivesQueues ==
  ASSUME Queues, PollReceives
  PROVE  Queues'
  <1>. USE DEF Queues
  <1>1. /\ response # None /\ response' = None
        /\ ready' = ready \o response /\ dispatched' = dispatched \o response
        /\ st' = [m \in Messages |-> IF m \in Range(response) THEN "ready" ELSE st[m]]
        /\ UNCHANGED <<inbox, posted, waiters, holding, life, shutdown, proc, outcome, handled>>
    BY DEF PollReceives, lifeVars
  <1>2. PICK asks : asks = {m \in Range(response) : m.kind = "ask"}
    OBVIOUS
  <1>3. registry' = [c \in Corrs |-> IF \E m \in asks : m.corr = c
                                     THEN CHOOSE m \in asks : m.corr = c ELSE registry[c]]
    BY <1>2 DEF PollReceives
  <1>4. /\ response \in Seq(Messages) /\ ready \in Seq(Messages)
        /\ dispatched \in Seq(Messages) /\ waiters \in Seq(Messages)
        /\ st \in [Messages -> TaskStates] /\ Polled = response
    BY <1>1 DEF Typed, TypeOK, Polled
  <1>5. /\ ready' \in Seq(Messages)
        /\ \A x : x \in Range(ready') <=> x \in Range(ready) \/ x \in Range(response)
        /\ \A x, y : Before(x, y, ready') <=>
             \/ Before(x, y, ready) \/ Before(x, y, response)
             \/ x \in Range(ready) /\ y \in Range(response)
    BY <1>1, <1>4, ConcatRel
  <1>6. /\ dispatched' \in Seq(Messages)
        /\ \A x : x \in Range(dispatched') <=> x \in Range(dispatched) \/ x \in Range(response)
        /\ \A x, y : Before(x, y, dispatched') <=>
             \/ Before(x, y, dispatched) \/ Before(x, y, response)
             \/ x \in Range(dispatched) /\ y \in Range(response)
    BY <1>1, <1>4, ConcatRel
  <1>7. \A x \in Messages : IF x \in Range(response) THEN st'[x] = "ready" ELSE st'[x] = st[x]
    BY <1>1
  <1>8. \A x \in Messages : x \in Range(response) =>
          /\ st[x] = "none" /\ x \in posted /\ x \notin Range(inbox)
          /\ x \notin Range(ready) /\ x \notin Range(waiters) /\ x \notin holding
          /\ x \notin Range(dispatched) /\ x \notin Range(handled)
    <2>. SUFFICES ASSUME NEW x \in Messages, x \in Range(response)
                  PROVE  /\ st[x] = "none" /\ x \in posted /\ x \notin Range(inbox)
                         /\ x \notin Range(ready) /\ x \notin Range(waiters) /\ x \notin holding
                         /\ x \notin Range(dispatched) /\ x \notin Range(handled)
      OBVIOUS
    <2>1. st[x] = "none" /\ x \in posted /\ x \notin Range(inbox)
      BY <1>4 DEF Arriving
    <2>2. PlacedAt(x)
      BY DEF Placed
    <2>. QED
      BY <2>1, <2>2 DEF PlacedAt, Running
  <1>9. PICK e : e = <<>> /\ (\A x : x \notin Range(e)) /\ (\A x, y : ~Before(x, y, e))
    BY EmptyRel
  <1>10. Polled' = e
    BY <1>1, <1>9 DEF Polled
  <1>11. asks \subseteq Messages
    <2>1. \A x : x \in Range(response) => x \in Messages
      BY <1>4, RangeIs
    <2>. QED
      BY <1>2, <2>1
  <1>12. ASSUME NEW m \in asks PROVE m.corr \in Corrs /\ registry'[m.corr] = m
    <2>1. /\ m.corr \in Corrs /\ m.kind = "ask"
          /\ \A k \in asks : k.corr = m.corr => k = m
      BY <1>2, <1>11, MessageFacts
    <2>2. (CHOOSE k \in asks : k.corr = m.corr) = m
      BY <2>1
    <2>. QED
      BY <1>3, <2>1, <2>2
  <1>13. ASSUME NEW c \in Corrs, ~ \E m \in asks : m.corr = c PROVE registry'[c] = registry[c]
    BY <1>3, <1>13
  <1>14. Typed'
    <2>1. registry' \in [Corrs -> Messages \cup {None}]
      <3>1. \A c \in Corrs : registry'[c] \in Messages \cup {None}
        <4>. SUFFICES ASSUME NEW c \in Corrs PROVE registry'[c] \in Messages \cup {None}
          OBVIOUS
        <4>1. CASE \E m \in asks : m.corr = c
          BY <1>11, <1>12, <4>1
        <4>2. CASE ~ \E m \in asks : m.corr = c
          BY <1>13, <4>2 DEF Typed, TypeOK
        <4>. QED
          BY <4>1, <4>2
      <3>2. registry' = [c \in Corrs |-> registry'[c]]
        BY <1>3
      <3>. QED
        BY <3>1, <3>2
    <2>. QED
      BY <1>1, <1>5, <1>6, <2>1 DEF Typed, TypeOK, TaskStates
  <1>15. Once'
    <2>. SUFFICES ASSUME NEW x \in Messages
                  PROVE  /\ ~Before(x, x, inbox') /\ ~Before(x, x, Polled')
                         /\ ~Before(x, x, ready') /\ ~Before(x, x, waiters')
                         /\ ~Before(x, x, dispatched')
      BY DEF Once
    <2>1. /\ ~Before(x, x, inbox) /\ ~Before(x, x, response) /\ ~Before(x, x, ready)
          /\ ~Before(x, x, waiters) /\ ~Before(x, x, dispatched)
      BY <1>4 DEF Once
    <2>. QED
      BY <1>1, <1>5, <1>6, <1>8, <1>9, <1>10, <2>1
  <1>16. Arriving'
    BY <1>1, <1>7, <1>8, <1>9, <1>10 DEF Arriving
  <1>17. Placed'
    <2>. SUFFICES ASSUME NEW x \in Messages PROVE PlacedAt(x)'
      BY DEF Placed
    <2>1. PlacedAt(x)
      BY DEF Placed
    <2>2. CASE x \in Range(response)
      BY <1>1, <1>5, <1>6, <1>7, <1>8, <2>2 DEF PlacedAt, Bypass, Running
    <2>3. CASE x \notin Range(response)
      BY <1>1, <1>5, <1>6, <1>7, <2>1, <2>3 DEF PlacedAt, Bypass
    <2>. QED
      BY <2>2, <2>3
  <1>18. Registered'
    <2>1. ASSUME NEW c \in Corrs, registry'[c] # None
          PROVE  /\ registry'[c].kind = "ask" /\ registry'[c].corr = c
                 /\ st'[registry'[c]] \notin {"none", "done"}
      <3>1. CASE \E m \in asks : m.corr = c
        <4>1. PICK m \in asks : m.corr = c
          BY <3>1
        <4>. QED
          BY <1>2, <1>7, <1>11, <1>12, <4>1
      <3>2. CASE ~ \E m \in asks : m.corr = c
        <4>1. registry'[c] = registry[c] /\ registry[c] \in Messages
          BY <1>13, <2>1, <3>2 DEF Typed, TypeOK
        <4>. QED
          BY <1>7, <2>1, <4>1 DEF Registered
      <3>. QED
        BY <3>1, <3>2
    <2>2. ASSUME NEW m \in Messages, m.kind = "ask", st'[m] \notin {"none", "done"}
          PROVE  registry'[m.corr] = m
      <3>1. CASE m \in Range(response)
        BY <1>2, <1>12, <2>2, <3>1
      <3>2. CASE m \notin Range(response)
        <4>1. st[m] \notin {"none", "done"}
          BY <1>7, <2>2, <3>2
        <4>2. m.corr \in Corrs /\ registry[m.corr] = m
          BY <2>2, <4>1, MessageFacts DEF Registered
        <4>3. ~ \E k \in asks : k.corr = m.corr
          BY <1>2, <1>11, <2>2, <3>2, MessageFacts
        <4>. QED
          BY <1>13, <4>2, <4>3
      <3>. QED
        BY <3>1, <3>2
    <2>. QED
      BY <2>1, <2>2 DEF Registered
  <1>19. Fifo'
    <2>1. \A x \in Messages : New(x)' =>
            (New(x) /\ x \notin Range(response)) \/ x \in Range(response)
      BY <1>7 DEF New, Bypass
    <2>2. \A x \in Messages : Awake(x)' => Awake(x) /\ x \notin Range(response)
      BY <1>1, <1>7, <1>8 DEF Awake
    <2>3. \A x \in Messages : Asleep(x)' => Asleep(x)
      BY <1>1 DEF Asleep
    <2>4. \A x \in Messages :
            x \in Range(ready) \/ Awake(x) \/ Asleep(x) => x \in Range(dispatched)
      BY DEF Placed, PlacedAt, Awake, Asleep
    <2>5. \A x, y \in Messages : Before(x, y, response) =>
            x \in Range(response) /\ y \in Range(response)
      BY <1>4, BeforeRange
    <2>6. ASSUME NEW x \in Messages, NEW y \in Messages, Ahead(x, y)'
          PROVE  Before(x, y, dispatched')
      <3>1. Ahead(x, y) => Before(x, y, dispatched')
        BY <1>6 DEF Fifo
      <3>2. CASE New(x)' /\ New(y)' /\ Before(x, y, ready)'
        <4>1. CASE Before(x, y, ready)
          <5>1. x \in Range(ready) /\ y \in Range(ready)
            BY <1>4, <4>1, BeforeRange
          <5>2. New(x) /\ New(y)
            BY <1>8, <2>1, <3>2, <5>1
          <5>. QED
            BY <3>1, <4>1, <5>2 DEF Ahead
        <4>2. CASE Before(x, y, response)
          BY <1>6, <4>2
        <4>3. CASE x \in Range(ready) /\ y \in Range(response)
          BY <1>6, <2>4, <4>3
        <4>. QED
          BY <1>5, <3>2, <4>1, <4>2, <4>3
      <3>3. CASE Awake(x)' /\ Awake(y)' /\ Before(x, y, ready)'
        <4>1. Before(x, y, ready)
          BY <1>5, <2>2, <2>5, <3>3
        <4>. QED
          BY <2>2, <3>1, <3>3, <4>1 DEF Ahead
      <3>4. CASE Before(x, y, waiters)'
        BY <1>1, <3>1, <3>4 DEF Ahead
      <3>5. CASE Awake(x)' /\ Asleep(y)'
        BY <2>2, <2>3, <3>1, <3>5 DEF Ahead
      <3>6. CASE (Awake(x)' \/ Asleep(x)') /\ New(y)'
        <4>1. CASE New(y)
          BY <2>2, <2>3, <3>1, <3>6, <4>1 DEF Ahead
        <4>2. CASE y \in Range(response)
          BY <1>6, <2>2, <2>3, <2>4, <3>6, <4>2
        <4>. QED
          BY <2>1, <3>6, <4>1, <4>2
      <3>. QED
        BY <2>6, <3>2, <3>3, <3>4, <3>5, <3>6 DEF Ahead
    <2>. QED
      BY <2>6 DEF Fifo
  <1>. QED
    BY <1>14, <1>15, <1>16, <1>17, <1>18, <1>19

-----------------------------------------------------------------------------
(* The steps of the tasks, and the invariant                               *)

\* What the registry gives to a cancel message.
LEMMA TargetFacts ==
  ASSUME Queues, NEW m \in Messages, Target(m) # None
  PROVE  /\ Target(m) \in Messages /\ Target(m).kind = "ask" /\ Target(m).corr = m.corr
         /\ m.corr \in Corrs /\ Target(m) = registry[m.corr]
         /\ st[Target(m)] \notin {"none", "done"}
  <1>1. m.corr \in Corrs /\ Target(m) = registry[m.corr]
    BY MessageFacts DEF Target
  <1>. QED
    BY <1>1 DEF Queues, Typed, TypeOK, Registered

\* A step that concerns no task but m.
Others(m) ==
  \A x \in Messages : x # m => st'[x] = st[x] /\ proc'[x] = proc[x] /\ outcome'[x] = outcome[x]

LEMMA LogSendEffect ==
  ASSUME Queues, NEW m \in Messages, LogSend(m)
  PROVE  /\ TaskEffect({m}, {m}, Acquired(m), Tail(ready)) /\ OtherTypes
         /\ Turn(m) /\ Others(m) /\ proc' = proc /\ st'[m] = "done" /\ outcome'[m] = "logged"
         /\ life' = life
  <1>1. /\ Turn(m) /\ Pass({m}, Acquired(m), Tail(ready)) /\ UNCHANGED pollVars
        /\ UNCHANGED <<life, shutdown, proc>>
        /\ st' = [x \in Messages |-> IF x \in {m} THEN "done" ELSE st[x]]
        /\ outcome' = [x \in Messages |-> IF x \in {m} THEN "logged" ELSE outcome[x]]
    BY DEF LogSend, EndWith, lifeVars
  <1>2. /\ st' \in [Messages -> TaskStates] /\ OtherTypes
        /\ Others(m) /\ st'[m] = "done" /\ outcome'[m] = "logged"
    BY <1>1 DEF Queues, Typed, TypeOK, TaskStates, OtherTypes, Others
  <1>3. st[m] # "none"
    BY <1>1, TurnTakes
  <1>. QED
    BY <1>1, <1>2, <1>3, TurnEffect DEF Others

LEMMA CancelIgnoredEffect ==
  ASSUME Queues, NEW m \in Messages, CancelIgnored(m)
  PROVE  /\ TaskEffect({m}, {m}, Acquired(m), Tail(ready)) /\ OtherTypes
         /\ Turn(m) /\ Others(m) /\ proc' = proc /\ st'[m] = "done" /\ outcome'[m] = "logged"
         /\ life' = life
  <1>1. /\ Turn(m) /\ m.kind = "cancel" /\ Pass({m}, holding, Tail(ready)) /\ UNCHANGED pollVars
        /\ UNCHANGED <<life, shutdown, proc>>
        /\ st' = [x \in Messages |-> IF x \in {m} THEN "done" ELSE st[x]]
        /\ outcome' = [x \in Messages |-> IF x \in {m} THEN "logged" ELSE outcome[x]]
    BY DEF CancelIgnored, EndWith, lifeVars
  <1>2. /\ st' \in [Messages -> TaskStates] /\ OtherTypes
        /\ Others(m) /\ st'[m] = "done" /\ outcome'[m] = "logged"
    BY <1>1 DEF Queues, Typed, TypeOK, TaskStates, OtherTypes, Others
  <1>3. st[m] # "none"
    BY <1>1, TurnTakes
  <1>4. Acquired(m) = holding
    BY <1>1 DEF Acquired, Bypass
  <1>. QED
    BY <1>1, <1>2, <1>3, <1>4, TurnEffect DEF Others

LEMMA BeginAskEffect ==
  ASSUME Queues, NEW m \in Messages, BeginAsk(m)
  PROVE  /\ TaskEffect({}, {m}, Acquired(m), Tail(ready)) /\ OtherTypes
         /\ Turn(m) /\ Others(m) /\ st'[m] = "claude" /\ outcome' = outcome /\ life' = life
  <1>1. /\ Turn(m) /\ m.kind = "ask" /\ Pass({}, Acquired(m), Tail(ready)) /\ UNCHANGED pollVars
        /\ UNCHANGED <<life, shutdown, outcome>>
        /\ st' = [st EXCEPT ![m] = "claude"] /\ proc' = [proc EXCEPT ![m] = "live"]
    BY DEF BeginAsk, lifeVars
  <1>2. /\ st' \in [Messages -> TaskStates] /\ OtherTypes
        /\ Others(m) /\ st'[m] = "claude"
    BY <1>1 DEF Queues, Typed, TypeOK, TaskStates, OtherTypes, Others
  <1>3. ~Bypass(m)
    BY <1>1, MessageFacts
  <1>. QED
    BY <1>1, <1>2, <1>3, TurnEffect DEF Others

\* The tasks that CancelTasks(C, F, rest) ends, those of F apart.
Ended(C) == {t \in C : ~(st[t] = "claude" /\ proc[t] # "exited")}

\* task.cancel(): who ends, who stops, and that nobody else is touched.
CancelEffect(C, F, rest) ==
  /\ Pass(Ended(C) \cup F, holding, rest)
  /\ st' \in [Messages -> TaskStates]
  /\ \A x \in Ended(C) \cup F : st'[x] = "done"
  /\ \A x \in Messages : x \in C /\ x \notin Ended(C) \cup F =>
       st[x] = "claude" /\ st'[x] = "cancelling"
  /\ \A x \in Messages : x \notin C \cup F => st'[x] = st[x]
  /\ \A x \in Messages : outcome'[x] = "cancelled" => outcome[x] = "cancelled" \/ x \in C
  /\ \A x \in Messages : proc'[x] = "live" =>
       proc[x] = "live" /\ (x \in C => st[x] # "claude")

LEMMA CancelTasksFacts ==
  ASSUME Queues, NEW C, NEW F, NEW rest, C \subseteq Messages, F \subseteq Messages,
         CancelTasks(C, F, rest), life' \in {"up", "draining", "cancelling", "down"},
         shutdown' \in BOOLEAN
  PROVE  CancelEffect(C, F, rest) /\ OtherTypes
  <1>1. PICK stopping : stopping = {t \in C : st[t] = "claude" /\ proc[t] # "exited"}
    OBVIOUS
  <1>2. Ended(C) = C \ stopping
    BY <1>1 DEF Ended
  <1>3. /\ st' = [x \in Messages |-> IF x \in (C \ stopping) \cup F THEN "done"
                                    ELSE IF x \in stopping THEN "cancelling" ELSE st[x]]
        /\ proc' = [x \in Messages |-> IF x \in stopping THEN "signalled" ELSE proc[x]]
        /\ outcome' = [x \in Messages |-> IF x \in C \ stopping THEN "cancelled"
                                          ELSE IF x \in F THEN "logged" ELSE outcome[x]]
        /\ Pass((C \ stopping) \cup F, holding, rest)
    BY <1>1 DEF CancelTasks
  <1>4. Pass(Ended(C) \cup F, holding, rest)
    BY <1>2, <1>3
  <1>5. st' \in [Messages -> TaskStates] /\ OtherTypes
    BY <1>3 DEF Queues, Typed, TypeOK, TaskStates, OtherTypes
  <1>6. \A x \in Ended(C) \cup F : st'[x] = "done"
    BY <1>2, <1>3
  <1>7. \A x \in Messages : x \in C /\ x \notin Ended(C) \cup F =>
          st[x] = "claude" /\ st'[x] = "cancelling"
    BY <1>1, <1>2, <1>3
  <1>8. \A x \in Messages : x \notin C \cup F => st'[x] = st[x]
    BY <1>1, <1>3
  <1>9. \A x \in Messages : outcome'[x] = "cancelled" => outcome[x] = "cancelled" \/ x \in C
    BY <1>3
  <1>10. ASSUME NEW x \in Messages, proc'[x] = "live"
         PROVE  proc[x] = "live" /\ (x \in C => st[x] # "claude")
    <2>1. x \notin stopping /\ proc[x] = "live"
      BY <1>3, <1>10
    <2>. QED
      BY <1>1, <2>1
  <1>. QED
    BY <1>4, <1>5, <1>6, <1>7, <1>8, <1>9, <1>10 DEF CancelEffect

LEMMA CancelMatchedEffect ==
  ASSUME Queues, NEW m \in Messages, CancelMatched(m)
  PROVE  /\ TaskEffect(Ended({Target(m)}) \cup {m}, {m}, Acquired(m), Tail(ready)) /\ OtherTypes
         /\ CancelEffect({Target(m)}, {m}, Tail(ready)) /\ life' = life
  <1>1. /\ Turn(m) /\ m.kind = "cancel" /\ UNCHANGED pollVars
        /\ UNCHANGED <<life, shutdown>> /\ Target(m) # None
        /\ CancelTasks({Target(m)}, {m}, Tail(ready))
    BY DEF CancelMatched, lifeVars, OwnTarget
  <1>2. PICK t : t = Target(m)
    OBVIOUS
  <1>3. t \in Messages /\ t.kind = "ask" /\ st[t] \notin {"none", "done"}
    BY <1>1, <1>2, TargetFacts
  <1>4. PICK F : F = Ended({t}) \cup {m}
    OBVIOUS
  <1>5. F \subseteq Messages /\ m \in F /\ F \subseteq {t, m}
    BY <1>3, <1>4 DEF Ended
  <1>6. /\ life' \in {"up", "draining", "cancelling", "down"} /\ shutdown' \in BOOLEAN
    BY <1>1 DEF Queues, Typed, TypeOK
  <1>7. /\ Pass(F, holding, Tail(ready))
        /\ st' \in [Messages -> TaskStates] /\ OtherTypes
        /\ \A x \in F : st'[x] = "done"
        /\ t \notin F => st[t] = "claude" /\ st'[t] = "cancelling"
        /\ \A x \in Messages : x # t /\ x # m => st'[x] = st[x]
    <2>1. PICK C, G, r : C = {t} /\ G = {m} /\ r = Tail(ready)
      OBVIOUS
    <2>2. /\ C \subseteq Messages /\ G \subseteq Messages /\ CancelTasks(C, G, r)
          /\ F = Ended(C) \cup G
      BY <1>1, <1>2, <1>3, <1>4, <2>1
    <2>3. CancelEffect(C, G, r) /\ OtherTypes
      BY <1>6, <2>2, CancelTasksFacts
    <2>. QED
      BY <1>3, <2>1, <2>2, <2>3 DEF CancelEffect
  <1>8. \A x \in F : st[x] # "none"
    BY <1>1, <1>3, <1>5, TurnTakes
  <1>9. Acquired(m) = holding
    BY <1>1 DEF Acquired, Bypass
  <1>10. \A x \in Messages : x # m /\ x \notin F =>
           st'[x] = st[x] \/ (st[x] \in Running /\ st'[x] \in Running)
    BY <1>7 DEF Running
  <1>11. TaskEffect(F, {m}, Acquired(m), Tail(ready))
    BY <1>1, <1>5, <1>7, <1>8, <1>9, <1>10, TurnEffect
  <1>12. CancelEffect({Target(m)}, {m}, Tail(ready))
    <2>1. PICK C, G, r : C = {Target(m)} /\ G = {m} /\ r = Tail(ready)
      OBVIOUS
    <2>2. C \subseteq Messages /\ G \subseteq Messages /\ CancelTasks(C, G, r)
      BY <1>1, <1>2, <1>3, <2>1
    <2>3. CancelEffect(C, G, r)
      BY <1>6, <2>2, CancelTasksFacts
    <2>. QED
      BY <2>1, <2>3
  <1>. QED
    BY <1>1, <1>2, <1>4, <1>7, <1>11, <1>12

LEMMA DrainEffect ==
  ASSUME Queues, DrainTimesOut
  PROVE  /\ TaskEffect(Ended(Unfinished), {}, holding, ready) /\ OtherTypes
         /\ CancelEffect(Unfinished, {}, ready) /\ handled' = handled
  <1>1. /\ CancelTasks(Unfinished, {}, ready) /\ life' = "cancelling"
        /\ UNCHANGED <<pollVars, shutdown, handled>>
    BY DEF DrainTimesOut
  <1>2. PICK F : F = Ended(Unfinished)
    OBVIOUS
  <1>3. Unfinished \subseteq Messages /\ F \subseteq Unfinished /\ F = F \cup {}
    BY <1>2 DEF Unfinished, Ended
  <1>4. life' \in {"up", "draining", "cancelling", "down"} /\ shutdown' \in BOOLEAN
    BY <1>1 DEF Queues, Typed, TypeOK
  <1>5. /\ Pass(F, holding, ready)
        /\ st' \in [Messages -> TaskStates] /\ OtherTypes
        /\ \A x \in F : st'[x] = "done"
        /\ \A x \in Messages : x \in Unfinished /\ x \notin F =>
              st[x] = "claude" /\ st'[x] = "cancelling"
        /\ \A x \in Messages : x \notin Unfinished => st'[x] = st[x]
    <2>1. PICK C, G : C = Unfinished /\ G = {}
      OBVIOUS
    <2>2. /\ C \subseteq Messages /\ G \subseteq Messages /\ CancelTasks(C, G, ready)
          /\ F = Ended(C) \cup G
      BY <1>1, <1>2, <1>3, <2>1
    <2>3. CancelEffect(C, G, ready) /\ OtherTypes
      BY <1>4, <2>2, CancelTasksFacts
    <2>. QED
      BY <2>1, <2>2, <2>3 DEF CancelEffect
  <1>6. \A x \in F : st[x] # "none"
    BY <1>3 DEF Unfinished
  <1>7. \A x \in Messages : x \notin F =>
          st'[x] = st[x] \/ (st[x] \in Running /\ st'[x] \in Running)
    BY <1>5 DEF Running
  <1>8. TaskEffect(F, {}, holding, ready)
    BY <1>1, <1>3, <1>5, <1>6, <1>7, EndEffect
  <1>9. CancelEffect(Unfinished, {}, ready)
    <2>1. PICK C, G : C = Unfinished /\ G = {}
      OBVIOUS
    <2>2. C \subseteq Messages /\ G \subseteq Messages /\ CancelTasks(C, G, ready)
      BY <1>1, <1>3, <2>1
    <2>3. CancelEffect(C, G, ready)
      BY <1>4, <2>2, CancelTasksFacts
    <2>. QED
      BY <2>1, <2>3
  <1>. QED
    BY <1>1, <1>2, <1>5, <1>8, <1>9

\* The ends of a task inside process_message.
Ends(m) == TimesOutLate(m) \/ Cancelled(m) \/ \E told \in {"replied", "unanswered"} : Reply(m, told)

LEMMA EndsEffect ==
  ASSUME Queues, NEW m \in Messages, Ends(m)
  PROVE  /\ TaskEffect({m}, {}, holding, ready) /\ OtherTypes
         /\ Others(m) /\ st'[m] = "done" /\ life' = life
         /\ st[m] \in Running /\ handled' = handled
         /\ outcome'[m] = "cancelled" => st[m] = "cancelling"
         /\ proc'[m] = "live" => st[m] # "claude"
  <1>1. PICK told \in {"failed", "cancelled", "replied", "unanswered"} :
          /\ EndWith({m}, told) /\ Pass({m}, holding, ready)
          /\ UNCHANGED <<pollVars, life, shutdown, handled>>
          /\ st[m] \in Running
          /\ told = "cancelled" => st[m] = "cancelling"
          /\ st[m] = "claude" => proc[m] = "exited"
          /\ proc' = proc \/ proc' = [proc EXCEPT ![m] = IF @ = "signalled" THEN "killed" ELSE @]
    <2>1. CASE TimesOutLate(m)
      BY <2>1 DEF TimesOutLate, lifeVars, Running
    <2>2. CASE Cancelled(m)
      BY <2>2 DEF Cancelled, lifeVars, Running
    <2>3. CASE \E told \in {"replied", "unanswered"} : Reply(m, told)
      BY <2>3 DEF Reply, lifeVars, Running
    <2>. QED
      BY <2>1, <2>2, <2>3 DEF Ends
  <1>2. /\ st' = [x \in Messages |-> IF x \in {m} THEN "done" ELSE st[x]]
        /\ outcome' = [x \in Messages |-> IF x \in {m} THEN told ELSE outcome[x]]
    BY <1>1 DEF EndWith
  <1>3. /\ proc \in [Messages -> {"none", "live", "signalled", "killed", "exited"}]
        /\ st \in [Messages -> TaskStates]
    BY DEF Queues, Typed, TypeOK
  <1>4. /\ proc' \in [Messages -> {"none", "live", "signalled", "killed", "exited"}]
        /\ \A x \in Messages : proc'[x] = "live" => proc[x] = "live"
    BY <1>1, <1>3
  <1>5. st' \in [Messages -> TaskStates] /\ OtherTypes
    BY <1>1, <1>2, <1>4 DEF Queues, Typed, TypeOK, TaskStates, OtherTypes
  <1>6. st[m] # "none" /\ st'[m] = "done" /\ \A x \in Messages : x # m => st'[x] = st[x]
    BY <1>1, <1>2 DEF Running
  <1>7. TaskEffect({m}, {}, holding, ready)
    BY <1>1, <1>5, <1>6, EndEffect
  <1>8. Others(m)
    BY <1>1, <1>2, <1>3 DEF Others
  <1>9. outcome'[m] = "cancelled" => st[m] = "cancelling"
    BY <1>1, <1>2
  <1>10. proc'[m] = "live" => st[m] # "claude"
    BY <1>1, <1>4
  <1>. QED
    BY <1>1, <1>5, <1>6, <1>7, <1>8, <1>9, <1>10

\* The steps inside process_message that end nothing, and those of the claude
\* processes, of the poll's failures and of the daemon's life.
Moves ==
  \/ \E m \in Messages : Answered(m) \/ TimesOut(m) \/ Terminated(m) \/ ClaudeExits(m)
  \/ PollTimesOut \/ PollRaises \/ Sigterm \/ PollEnds \/ GoDown \/ UNCHANGED vars

LEMMA MovesFacts ==
  ASSUME Queues, Moves
  PROVE  /\ UNCHANGED <<inbox, posted, dispatched, ready, waiters, holding, registry, handled,
                        outcome>>
         /\ response' = response \/ response' = None
         /\ st' \in [Messages -> TaskStates] /\ OtherTypes
         /\ \A x \in Messages :
              st'[x] = st[x] \/ (st[x] \in Running /\ st'[x] \in Running \ {"claude", "cancelling"}
                                 /\ st[x] # "cancelling")
         /\ \A x \in Messages : proc'[x] = "live" => proc[x] = "live" /\ (st[x] = "claude" => st'[x] = "claude")
         /\ life' \in {"up", "draining"} => life \in {"up", "draining"}
  <1>. USE DEF Queues, Typed, TypeOK, TaskStates, OtherTypes, Running, pollVars, taskVars, lifeVars
  <1>1. ASSUME NEW m \in Messages, Answered(m) PROVE
          /\ UNCHANGED <<inbox, posted, dispatched, ready, waiters, holding, registry, handled,
                        outcome, response, life, shutdown>>
          /\ st' = [st EXCEPT ![m] = "replying"] /\ st[m] = "claude" /\ proc[m] = "exited"
          /\ proc' = proc
    BY <1>1 DEF Answered
  <1>2. ASSUME NEW m \in Messages, TimesOut(m) PROVE
          /\ UNCHANGED <<inbox, posted, dispatched, ready, waiters, holding, registry, handled,
                        outcome, response, life, shutdown>>
          /\ st' = [st EXCEPT ![m] = "terminating"] /\ st[m] = "claude"
          /\ proc' = [proc EXCEPT ![m] = "signalled"]
    BY <1>2 DEF TimesOut
  <1>3. ASSUME NEW m \in Messages, Terminated(m) PROVE
          /\ UNCHANGED <<inbox, posted, dispatched, ready, waiters, holding, registry, handled,
                        outcome, response, life, shutdown>>
          /\ st' = [st EXCEPT ![m] = "replying"] /\ st[m] = "terminating"
          /\ proc' = [proc EXCEPT ![m] = IF @ = "signalled" THEN "killed" ELSE @]
    BY <1>3 DEF Terminated
  <1>4. ASSUME NEW m \in Messages, ClaudeExits(m) PROVE
          /\ UNCHANGED <<inbox, posted, dispatched, ready, waiters, holding, registry, handled,
                        outcome, response, life, shutdown, st>>
          /\ proc' = [proc EXCEPT ![m] = "exited"]
    BY <1>4 DEF ClaudeExits
  <1>5. CASE \E m \in Messages : Answered(m)
    BY <1>1, <1>5
  <1>6. CASE \E m \in Messages : TimesOut(m)
    BY <1>2, <1>6
  <1>7. CASE \E m \in Messages : Terminated(m)
    BY <1>3, <1>7
  <1>8. CASE \E m \in Messages : ClaudeExits(m)
    BY <1>4, <1>8
  <1>9. CASE PollTimesOut
    BY <1>9 DEF PollTimesOut
  <1>10. CASE PollRaises
    BY <1>10 DEF PollRaises
  <1>11. CASE Sigterm
    BY <1>11 DEF Sigterm
  <1>12. CASE PollEnds
    BY <1>12 DEF PollEnds
  <1>13. CASE GoDown
    BY <1>13 DEF GoDown
  <1>14. CASE UNCHANGED vars
    BY <1>14 DEF vars
  <1>. QED
    BY <1>5, <1>6, <1>7, <1>8, <1>9, <1>10, <1>11, <1>12, <1>13, <1>14 DEF Moves

\* Every step is one of these.
LEMMA Steps ==
  ASSUME [Next]_vars
  PROVE  \/ Moves \/ PollDrains \/ PollReceives \/ DrainTimesOut
         \/ \E m \in Messages :
              \/ Post(m) \/ Queue(m) \/ LogSend(m) \/ BeginAsk(m)
              \/ CancelMatched(m) \/ CancelIgnored(m) \/ Ends(m)
  BY DEF Next, TaskStep, Moves, Ends

LEMMA StepQueues == Queues /\ [Next]_vars => Queues'
  <1>. SUFFICES ASSUME Queues, [Next]_vars PROVE Queues'
    OBVIOUS
  <1>1. CASE Moves
    BY <1>1, MovesFacts, MoveQueues DEF Running
  <1>2. CASE DrainTimesOut
    BY <1>2, DrainEffect, TaskEffectQueues DEF OtherTypes
  <1>3. ASSUME NEW m \in Messages, LogSend(m) PROVE Queues'
    BY <1>3, LogSendEffect, TaskEffectQueues DEF OtherTypes
  <1>4. ASSUME NEW m \in Messages, BeginAsk(m) PROVE Queues'
    BY <1>4, BeginAskEffect, TaskEffectQueues DEF OtherTypes
  <1>5. ASSUME NEW m \in Messages, CancelMatched(m) PROVE Queues'
    BY <1>5, CancelMatchedEffect, TaskEffectQueues DEF OtherTypes
  <1>6. ASSUME NEW m \in Messages, CancelIgnored(m) PROVE Queues'
    BY <1>6, CancelIgnoredEffect, TaskEffectQueues DEF OtherTypes
  <1>7. ASSUME NEW m \in Messages, Ends(m) PROVE Queues'
    BY <1>7, EndsEffect, TaskEffectQueues DEF OtherTypes
  <1>. QED
    BY <1>1, <1>2, <1>3, <1>4, <1>5, <1>6, <1>7, PostQueues, QueueQueues, PollDrainsQueues,
       PollReceivesQueues, Steps

LEMMA QueuesAlways == Spec => []Queues
  BY InitQueues, StepQueues, PTL DEF Spec

\* The state stays of its shape, and the semaphore never has more tasks than
\* permits, whatever is cancelled while it waits, is woken or runs.
THEOREM TypeCorrect == Spec => []TypeOK
  <1>1. Queues => TypeOK
    BY DEF Queues, Typed
  <1>. QED
    BY <1>1, QueuesAlways, PTL

-----------------------------------------------------------------------------
(* What a step may not undo                                                *)

\* Where a task is that enters process_message, or begins to wait for that.
LEMMA AtHead ==
  ASSUME Queues, NEW m \in Messages, Turn(m) \/ Queue(m)
  PROVE  st[m] \in {"ready", "queued"} /\ m \in Range(dispatched) /\ m \notin Range(handled)
  <1>1. ready # <<>> /\ m = Head(ready) /\ ready \in Seq(Messages)
    BY DEF Turn, Queue, Queues, Typed, TypeOK
  <1>2. m \in Range(ready)
    BY <1>1, HeadTailRel
  <1>. QED
    BY <1>2 DEF Queues, Placed, PlacedAt, Running

LEMMA OverStays ==
  ASSUME Queues, [Next]_vars, NEW x \in Messages
  PROVE  /\ st[x] \in {"cancelling", "done"} => st'[x] \in {"cancelling", "done"}
         /\ st[x] = "done" => st'[x] = "done"
  <1>. DEFINE G == /\ st[x] \in {"cancelling", "done"} => st'[x] \in {"cancelling", "done"}
                   /\ st[x] = "done" => st'[x] = "done"
  <1>1. CASE Moves
    BY <1>1, MovesFacts DEF Running
  <1>2. CASE DrainTimesOut
    <2>1. CancelEffect(Unfinished, {}, ready)
      BY <1>2, DrainEffect
    <2>. QED
      BY <2>1 DEF CancelEffect, Ended, Unfinished
  <1>3. CASE PollDrains \/ \E m \in Messages : Post(m)
    BY <1>3 DEF PollDrains, Post, taskVars
  <1>4. CASE PollReceives
    <2>1. x \in Range(response) => st[x] = "none"
      BY <1>4 DEF PollReceives, Queues, Arriving, Polled
    <2>2. st'[x] = IF x \in Range(response) THEN "ready" ELSE st[x]
      BY <1>4 DEF PollReceives
    <2>. QED
      BY <2>1, <2>2
  <1>5. ASSUME NEW m \in Messages, Queue(m) PROVE G
    <2>1. st[m] \in {"ready", "queued"} /\ st' = [st EXCEPT ![m] = "queued"]
      BY <1>5, AtHead DEF Queue
    <2>2. st \in [Messages -> TaskStates]
      BY DEF Queues, Typed, TypeOK
    <2>. QED
      BY <2>1, <2>2
  <1>6. ASSUME NEW m \in Messages, LogSend(m) \/ CancelIgnored(m) PROVE G
    BY <1>6, LogSendEffect, CancelIgnoredEffect DEF Others
  <1>7. ASSUME NEW m \in Messages, BeginAsk(m) PROVE G
    <2>1. Turn(m) /\ Others(m)
      BY <1>7, BeginAskEffect
    <2>2. st[m] \in {"ready", "queued"}
      BY <2>1, AtHead
    <2>. QED
      BY <2>1, <2>2 DEF Others
  <1>8. ASSUME NEW m \in Messages, CancelMatched(m) PROVE G
    <2>1. CancelEffect({Target(m)}, {m}, Tail(ready))
      BY <1>8, CancelMatchedEffect
    <2>. QED
      BY <2>1 DEF CancelEffect
  <1>9. ASSUME NEW m \in Messages, Ends(m) PROVE G
    BY <1>9, EndsEffect DEF Others
  <1>. QED
    BY <1>1, <1>2, <1>3, <1>4, <1>5, <1>6, <1>7, <1>8, <1>9, Steps

\* Only the messages that entered process_message become handled.
LEMMA HandledStep ==
  ASSUME Queues, [Next]_vars
  PROVE  \/ handled' = handled
         \/ \E m \in Messages :
              /\ LogSend(m) \/ BeginAsk(m) \/ CancelMatched(m) \/ CancelIgnored(m)
              /\ Turn(m)
              /\ \A x : x \in Range(handled') <=> x \in Range(handled) \/ x = m
  <1>. DEFINE G == handled' = handled
              T(m) == /\ LogSend(m) \/ BeginAsk(m) \/ CancelMatched(m) \/ CancelIgnored(m)
                      /\ Turn(m)
                      /\ \A x : x \in Range(handled') <=> x \in Range(handled) \/ x = m
  <1>1. Moves \/ DrainTimesOut => G
    BY MovesFacts, DrainEffect
  <1>2. PollDrains \/ PollReceives \/ (\E m \in Messages : Post(m) \/ Queue(m)) => G
    BY DEF PollDrains, PollReceives, Post, Queue
  <1>3. ASSUME NEW m \in Messages, LogSend(m) \/ BeginAsk(m) \/ CancelMatched(m) \/ CancelIgnored(m)
        PROVE  T(m)
    <2>1. Turn(m)
      BY <1>3 DEF LogSend, BeginAsk, CancelMatched, CancelIgnored
    <2>. QED
      BY <1>3, <2>1, TurnTakes
  <1>4. ASSUME NEW m \in Messages, Ends(m) PROVE G
    BY <1>4, EndsEffect
  <1>. QED
    BY <1>1, <1>2, <1>3, <1>4, Steps

\* New tasks come behind all others.
LEMMA DispatchedStep ==
  ASSUME Queues, [Next]_vars, NEW a, NEW b \in Messages, b \in Range(dispatched),
         Before(a, b, dispatched')
  PROVE  Before(a, b, dispatched)
  <1>1. CASE PollReceives
    <2>1. /\ response # None /\ dispatched' = dispatched \o response
          /\ response \in Seq(Messages) /\ dispatched \in Seq(Messages)
      BY <1>1 DEF PollReceives, Queues, Typed, TypeOK
    <2>2. b \notin Range(response)
      BY <2>1 DEF Queues, Arriving, Placed, PlacedAt, Polled
    <2>3. Before(a, b, dispatched) \/ Before(a, b, response)
      BY <2>1, <2>2, ConcatRel
    <2>. QED
      BY <2>1, <2>2, <2>3, BeforeRange
  <1>2. ~PollReceives => dispatched' = dispatched
    <2>1. Moves => dispatched' = dispatched
      BY MovesFacts
    <2>2. DrainTimesOut => dispatched' = dispatched
      BY DEF DrainTimesOut, pollVars
    <2>3. PollDrains \/ (\E m \in Messages : Post(m) \/ Queue(m)) => dispatched' = dispatched
      BY DEF PollDrains, Post, Queue, pollVars
    <2>4. ASSUME NEW m \in Messages,
                 LogSend(m) \/ BeginAsk(m) \/ CancelMatched(m) \/ CancelIgnored(m)
          PROVE  dispatched' = dispatched
      BY <2>4 DEF LogSend, BeginAsk, CancelMatched, CancelIgnored, pollVars
    <2>5. ASSUME NEW m \in Messages, Ends(m) PROVE dispatched' = dispatched
      BY <2>5, EndsEffect DEF TaskEffect, pollVars
    <2>. QED
      BY <2>1, <2>2, <2>3, <2>4, <2>5, Steps
  <1>. QED
    BY <1>1, <1>2

-----------------------------------------------------------------------------
(* claude processes                                                        *)

LEMMA StepComputing ==
  ASSUME Queues, Computing, [Next]_vars
  PROVE  Computing'
  <1>. SUFFICES ASSUME NEW x \in Messages, proc'[x] = "live" PROVE st'[x] = "claude"
    BY DEF Computing
  <1>. DEFINE G == st'[x] = "claude"
  <1>0. proc[x] = "live" => st[x] = "claude"
    BY DEF Computing
  <1>1. CASE Moves
    BY <1>0, <1>1, MovesFacts
  <1>2. CASE DrainTimesOut
    <2>1. CancelEffect(Unfinished, {}, ready)
      BY <1>2, DrainEffect
    <2>. QED
      BY <1>0, <2>1 DEF CancelEffect
  <1>3. CASE PollDrains \/ \E m \in Messages : Post(m)
    BY <1>0, <1>3 DEF PollDrains, Post, taskVars
  <1>4. CASE PollReceives
    <2>1. x \in Range(response) => st[x] = "none"
      BY <1>4 DEF PollReceives, Queues, Arriving, Polled
    <2>2. st'[x] = (IF x \in Range(response) THEN "ready" ELSE st[x]) /\ proc' = proc
      BY <1>4 DEF PollReceives
    <2>. QED
      BY <1>0, <2>1, <2>2
  <1>5. ASSUME NEW m \in Messages, Queue(m) PROVE G
    <2>1. st[m] \in {"ready", "queued"} /\ st' = [st EXCEPT ![m] = "queued"] /\ proc' = proc
      BY <1>5, AtHead DEF Queue
    <2>2. st \in [Messages -> TaskStates]
      BY DEF Queues, Typed, TypeOK
    <2>. QED
      BY <1>0, <2>1, <2>2
  <1>6. ASSUME NEW m \in Messages, LogSend(m) \/ CancelIgnored(m) PROVE G
    <2>1. Turn(m) /\ Others(m) /\ proc' = proc
      BY <1>6, LogSendEffect, CancelIgnoredEffect
    <2>2. st[m] \in {"ready", "queued"}
      BY <2>1, AtHead
    <2>. QED
      BY <1>0, <2>1, <2>2 DEF Others
  <1>7. ASSUME NEW m \in Messages, BeginAsk(m) PROVE G
    BY <1>0, <1>7, BeginAskEffect DEF Others
  <1>8. ASSUME NEW m \in Messages, CancelMatched(m) PROVE G
    <2>1. CancelEffect({Target(m)}, {m}, Tail(ready)) /\ Turn(m)
      BY <1>8, CancelMatchedEffect DEF CancelMatched
    <2>2. st[m] \in {"ready", "queued"}
      BY <2>1, AtHead
    <2>. QED
      BY <1>0, <2>1, <2>2 DEF CancelEffect
  <1>9. ASSUME NEW m \in Messages, Ends(m) PROVE G
    <2>1. Others(m) /\ (proc'[m] = "live" => st[m] # "claude")
      BY <1>9, EndsEffect
    <2>2. CASE x # m
      BY <1>0, <2>1, <2>2 DEF Others
    <2>3. CASE x = m
      <3>1. proc'[m] = "live" => proc[m] = "live"
        <4>1. proc \in [Messages -> {"none", "live", "signalled", "killed", "exited"}]
          BY DEF Queues, Typed, TypeOK
        <4>. QED
          BY <1>9, <4>1 DEF Ends, TimesOutLate, Cancelled, Reply
      <3>. QED
        BY <1>0, <2>1, <2>3, <3>1
    <2>. QED
      BY <2>2, <2>3
  <1>. QED
    BY <1>1, <1>2, <1>3, <1>4, <1>5, <1>6, <1>7, <1>8, <1>9, Steps

LEMMA ComputingAlways == Spec => [](Queues /\ Computing)
  <1>1. Init => Computing
    BY DEF Init, Computing
  <1>. QED
    BY <1>1, InitQueues, StepQueues, StepComputing, PTL DEF Spec

\* However asks end, no more than CLAUDE_CONCURRENCY of them compute at a time, and
\* none ends with its process untold.
THEOREM ClaudesAccountedHolds == Spec => []ClaudesAccounted
  <1>1. ASSUME Queues, Computing PROVE ClaudesAccounted
    <2>1. LiveAsks \subseteq holding
      BY <1>1 DEF LiveAsks, Computing, Queues, Placed, PlacedAt, Running
    <2>2. /\ IsFiniteSet(holding) /\ Cardinality(holding) <= Concurrency
          /\ Cardinality(holding) \in Nat /\ Concurrency \in Nat
      BY <1>1, FS_CardinalityType, LimitsAssumption DEF Queues, Typed, TypeOK
    <2>3. Cardinality(LiveAsks) <= Cardinality(holding) /\ Cardinality(LiveAsks) \in Nat
      BY <2>1, <2>2, FS_Subset, FS_CardinalityType
    <2>4. ClaudeLimit
      BY <2>2, <2>3 DEF ClaudeLimit
    <2>5. NoStraySpawn
      BY <1>1 DEF NoStraySpawn, Computing
    <2>. QED
      BY <2>4, <2>5 DEF ClaudesAccounted
  <1>. QED
    BY <1>1, ComputingAlways, PTL

-----------------------------------------------------------------------------
(* Cancels                                                                 *)

Asked(x) == \E c \in Range(handled) : c.kind = "cancel" /\ c.corr = x.corr /\ c.from = x.from

Cancelling(x) == st[x] = "cancelling" \/ outcome[x] = "cancelled"

\* Not only the asks that were cancelled, also those about to be, have been
\* cancelled by their asker.
Owned ==
  life \in {"up", "draining"} =>
    \A x \in Messages : x.kind = "ask" /\ Cancelling(x) => Asked(x)

LEMMA StepOwned ==
  ASSUME Queues, Owned, [Next]_vars
  PROVE  Owned'
  <1>. SUFFICES ASSUME NEW x \in Messages, x.kind = "ask", Cancelling(x)',
                       life' \in {"up", "draining"}
                PROVE  Asked(x)'
    BY DEF Owned
  <1>1. life \in {"up", "draining"} /\ Cancelling(x) => Asked(x)'
    <2>1. \A c : c \in Range(handled) => c \in Range(handled')
      BY HandledStep
    <2>. QED
      BY <2>1 DEF Owned, Asked
  <1>2. CASE Moves
    <2>1. Cancelling(x) /\ life \in {"up", "draining"}
      BY <1>2, MovesFacts DEF Cancelling
    <2>. QED
      BY <1>1, <2>1
  <1>3. CASE DrainTimesOut
    BY <1>3 DEF DrainTimesOut
  <1>4. CASE PollDrains \/ \E m \in Messages : Post(m)
    <2>1. Cancelling(x) /\ life \in {"up", "draining"}
      BY <1>4 DEF Cancelling, PollDrains, Post, taskVars, lifeVars
    <2>. QED
      BY <1>1, <2>1
  <1>5. CASE PollReceives
    <2>1. /\ st'[x] = IF x \in Range(response) THEN "ready" ELSE st[x]
          /\ UNCHANGED <<life, outcome>>
      BY <1>5 DEF PollReceives, lifeVars
    <2>2. Cancelling(x) /\ life \in {"up", "draining"}
      BY <2>1 DEF Cancelling
    <2>. QED
      BY <1>1, <2>2
  <1>6. ASSUME NEW m \in Messages, Queue(m) PROVE Asked(x)'
    <2>1. st' = [st EXCEPT ![m] = "queued"] /\ UNCHANGED <<life, outcome>>
      BY <1>6 DEF Queue, lifeVars
    <2>2. st \in [Messages -> TaskStates]
      BY DEF Queues, Typed, TypeOK
    <2>3. Cancelling(x) /\ life \in {"up", "draining"}
      BY <2>1, <2>2 DEF Cancelling
    <2>. QED
      BY <1>1, <2>3
  <1>7. ASSUME NEW m \in Messages, LogSend(m) \/ CancelIgnored(m) PROVE Asked(x)'
    <2>1. Others(m) /\ st'[m] = "done" /\ outcome'[m] = "logged" /\ life' = life
      BY <1>7, LogSendEffect, CancelIgnoredEffect
    <2>2. Cancelling(x) /\ life \in {"up", "draining"}
      BY <2>1 DEF Cancelling, Others
    <2>. QED
      BY <1>1, <2>2
  <1>8. ASSUME NEW m \in Messages, BeginAsk(m) PROVE Asked(x)'
    <2>1. Others(m) /\ st'[m] = "claude" /\ outcome' = outcome /\ life' = life
      BY <1>8, BeginAskEffect
    <2>2. Cancelling(x) /\ life \in {"up", "draining"}
      BY <2>1 DEF Cancelling, Others
    <2>. QED
      BY <1>1, <2>2
  <1>9. ASSUME NEW m \in Messages, CancelMatched(m) PROVE Asked(x)'
    <2>1. /\ CancelEffect({Target(m)}, {m}, Tail(ready)) /\ life' = life
          /\ m.kind = "cancel" /\ Turn(m) /\ OwnTarget(m)
      BY <1>9, CancelMatchedEffect DEF CancelMatched
    <2>2. CASE x = Target(m)
      <3>1. x.corr = m.corr /\ x.from = m.from
        BY <2>1, <2>2, TargetFacts DEF OwnTarget
      <3>2. m \in Range(handled')
        BY <2>1, TurnTakes
      <3>. QED
        BY <2>1, <3>1, <3>2 DEF Asked
    <2>3. CASE x # Target(m)
      <3>1. x # m
        BY <2>1
      <3>2. Cancelling(x) /\ life \in {"up", "draining"}
        BY <2>1, <2>3, <3>1 DEF Cancelling, CancelEffect
      <3>. QED
        BY <1>1, <3>2
    <2>. QED
      BY <2>2, <2>3
  <1>10. ASSUME NEW m \in Messages, Ends(m) PROVE Asked(x)'
    <2>1. /\ Others(m) /\ st'[m] = "done" /\ life' = life
          /\ outcome'[m] = "cancelled" => st[m] = "cancelling"
      BY <1>10, EndsEffect
    <2>2. Cancelling(x) /\ life \in {"up", "draining"}
      BY <2>1 DEF Cancelling, Others
    <2>. QED
      BY <1>1, <2>2
  <1>. QED
    BY <1>2, <1>3, <1>4, <1>5, <1>6, <1>7, <1>8, <1>9, <1>10, Steps

\* An ask that has a task, is not over and that a cancel names, is found by it.
LEMMA StepStops ==
  ASSUME Queues, CancelStops, [Next]_vars
  PROVE  CancelStops'
  <1>. SUFFICES ASSUME NEW a \in Messages, NEW c \in Messages,
                       a.kind = "ask", c.kind = "cancel", c.corr = a.corr, c.from = a.from,
                       Before(a, c, dispatched'), c \in Range(handled')
                PROVE  st'[a] \in {"cancelling", "done"}
    BY DEF CancelStops, Before
  <1>1. CASE c \in Range(handled)
    <2>1. c \in Range(dispatched)
      BY <1>1 DEF Queues, Placed, PlacedAt, Running
    <2>2. Before(a, c, dispatched)
      BY <2>1, DispatchedStep
    <2>3. st[a] \in {"cancelling", "done"}
      BY <1>1, <2>2 DEF CancelStops
    <2>. QED
      BY <2>3, OverStays
  <1>2. CASE c \notin Range(handled)
    <2>1. /\ LogSend(c) \/ BeginAsk(c) \/ CancelMatched(c) \/ CancelIgnored(c)
          /\ Turn(c)
      BY <1>2, HandledStep
    <2>2. c \in Range(dispatched)
      BY <2>1, AtHead
    <2>3. Before(a, c, dispatched)
      BY <2>2, DispatchedStep
    <2>4. st[a] # "none"
      <3>1. a \in Range(dispatched)
        BY <2>3, BeforeRange DEF Queues, Typed, TypeOK
      <3>. QED
        BY <3>1 DEF Queues, Placed, PlacedAt
    <2>5. CASE st[a] = "done"
      BY <2>5, OverStays
    <2>6. CASE st[a] # "done"
      <3>1. a.corr \in Corrs /\ registry[a.corr] = a /\ a # None /\ a.corr # None
        BY <2>4, <2>6, MessageFacts, NoneAssumption DEF Queues, Registered
      <3>2. Target(c) = a /\ OwnTarget(c)
        BY <3>1 DEF Target, OwnTarget
      <3>3. CancelMatched(c)
        BY <2>1, <3>2 DEF LogSend, BeginAsk, CancelIgnored
      <3>4. CancelEffect({a}, {c}, Tail(ready))
        BY <3>2, <3>3, CancelMatchedEffect
      <3>. QED
        BY <3>4 DEF CancelEffect
    <2>. QED
      BY <2>5, <2>6
  <1>. QED
    BY <1>1, <1>2

\* A cancel hits the ask it names, at every stage and for good, and no ask but
\* its asker's.
THEOREM CancelsHitHolds == Spec => []CancelsHit
  <1>1. Init => Owned /\ CancelStops
    <2>1. PICK e : e = <<>> /\ (\A x : x \notin Range(e)) /\ (\A x, y : ~Before(x, y, e))
      BY EmptyRel
    <2>. QED
      BY <2>1 DEF Init, Owned, Cancelling, CancelStops
  <1>2. Queues /\ Owned /\ CancelStops /\ [Next]_vars => Owned' /\ CancelStops'
    BY StepOwned, StepStops
  <1>3. Owned /\ CancelStops => CancelsHit
    BY DEF Owned, Cancelling, Asked, CancelsHit, CancelByOwner
  <1>. QED
    BY <1>1, <1>2, <1>3, InitQueues, StepQueues, PTL DEF Spec

-----------------------------------------------------------------------------
(* The order of the queue                                                  *)

\* Who enters process_message has nobody before it that goes through the
\* semaphore and has yet to come.
LEMMA TurnInOrder ==
  ASSUME Queues, NEW a \in Messages, NEW b \in Messages, Turn(b), ~Bypass(a), ~Bypass(b),
         Before(a, b, dispatched), a \notin Range(handled), st[a] # "done"
  PROVE  FALSE
  <1>. USE DEF Queues
  <1>1. /\ ready # <<>> /\ b = Head(ready) /\ ready \in Seq(Messages)
        /\ dispatched \in Seq(Messages) /\ st \in [Messages -> TaskStates]
    BY DEF Turn, Typed, TypeOK
  <1>2. ~Before(b, a, dispatched) /\ a # b
    <2>1. \A x \in Messages : ~Before(x, x, dispatched)
      BY DEF Once
    <2>. QED
      BY <1>1, <2>1, Asymmetric
  <1>3. ~Ahead(b, a)
    BY <1>2 DEF Fifo
  <1>4. PlacedAt(a) /\ PlacedAt(b)
    BY DEF Placed
  <1>5. a \in Range(dispatched)
    BY <1>1, BeforeRange
  <1>6. st[a] \in {"ready", "queued"}
    BY <1>1, <1>4, <1>5 DEF PlacedAt, Running, TaskStates
  <1>7. a \in Range(ready) => Before(b, a, ready)
    <2>1. a \in Range(ready) => a \in Range(Tail(ready))
      BY <1>2, TurnTakes
    <2>. QED
      BY <2>1, TurnTakes
  <1>8. b \in Range(ready)
    BY <1>1, HeadTailRel
  <1>9. CASE b \in holding
    <2>1. Awake(b)
      BY <1>4, <1>8, <1>9 DEF PlacedAt, Awake
    <2>. QED
      BY <1>3, <1>4, <1>6, <1>7, <2>1 DEF Ahead, New, Awake, Asleep, PlacedAt
  <1>10. CASE b \notin holding
    <2>1. waiters = <<>> /\ Woken = {} /\ New(b)
      BY <1>4, <1>8, <1>10 DEF Turn, Open, PlacedAt, New
    <2>2. a \notin Range(waiters)
      BY <2>1, EmptyRel
    <2>3. a \notin holding \/ st[a] # "queued"
      BY <2>1 DEF Woken
    <2>4. New(a) /\ a \in Range(ready)
      BY <1>4, <1>6, <2>2, <2>3 DEF PlacedAt, New
    <2>. QED
      BY <1>3, <1>7, <2>1, <2>4 DEF Ahead
  <1>. QED
    BY <1>9, <1>10

LEMMA StepInOrder ==
  ASSUME Queues, HandledInOrder, [Next]_vars
  PROVE  HandledInOrder'
  <1>. SUFFICES ASSUME NEW a \in Messages, NEW b \in Messages, ~Bypass(a), ~Bypass(b),
                       Before(a, b, dispatched'), b \in Range(handled')
                PROVE  a \in Range(handled') \/ st'[a] = "done"
    BY DEF HandledInOrder, Before, Bypass
  <1>1. \A x : x \in Range(handled) => x \in Range(handled')
    BY HandledStep
  <1>2. a \in Range(handled) \/ st[a] = "done"
    <2>1. CASE b \in Range(handled)
      <3>1. b \in Range(dispatched)
        BY <2>1 DEF Queues, Placed, PlacedAt, Running
      <3>2. Before(a, b, dispatched)
        BY <3>1, DispatchedStep
      <3>. QED
        BY <2>1, <3>2 DEF HandledInOrder
    <2>2. CASE b \notin Range(handled)
      <3>1. Turn(b)
        BY <2>2, HandledStep
      <3>2. b \in Range(dispatched)
        BY <3>1, AtHead
      <3>3. Before(a, b, dispatched)
        BY <3>2, DispatchedStep
      <3>. QED
        BY <3>1, <3>3, TurnInOrder
    <2>. QED
      BY <2>1, <2>2
  <1>. QED
    BY <1>1, <1>2, OverStays

\* Asks and sends enter process_message in the order the relay handed them out, the
\* cancelled ones apart: the semaphore lets nobody overtake.
THEOREM HandledInOrderHolds == Spec => []HandledInOrder
  <1>1. Init => HandledInOrder
    <2>1. PICK e : e = <<>> /\ (\A x : x \notin Range(e)) /\ (\A x, y : ~Before(x, y, e))
      BY EmptyRel
    <2>. QED
      BY <2>1 DEF Init, HandledInOrder
  <1>2. Queues /\ HandledInOrder /\ [Next]_vars => HandledInOrder'
    BY StepInOrder
  <1>. QED
    BY <1>1, <1>2, InitQueues, StepQueues, PTL DEF Spec

=============================================================================
