---------------------------- MODULE PeerOpsProofs ----------------------------
(***************************************************************************)
(* Theorems of module PeerOps for every set of peers and processes, every  *)
(* number of operations and of crashes.                                    *)
(***************************************************************************)
EXTENDS PeerOps, SequenceTheorems, FiniteSetTheorems, WellFoundedInduction, TLAPS

-----------------------------------------------------------------------------
(* Sequences as the set of what is in them                                 *)

LEMMA SetOf ==
  ASSUME NEW S, NEW s \in Seq(S)
  PROVE  /\ Len(s) \in Nat /\ DOMAIN s = 1..Len(s)
         /\ \A i \in 1..Len(s) : s[i] \in S
         /\ \A x : x \in ToSet(s) <=> \E i \in 1..Len(s) : s[i] = x
         /\ ToSet(s) \subseteq S
  BY LenProperties, ElementOfSeq DEF ToSet

LEMMA SetOfEmpty == ToSet(<<>>) = {} /\ IsInjective(<<>>)
  <1>1. PICK e : e = <<>>
    OBVIOUS
  <1>2. e \in Seq(Nat) /\ Len(e) = 0
    BY <1>1, EmptySeq
  <1>3. DOMAIN e = 1..Len(e) /\ \A x : x \in ToSet(e) <=> \E i \in 1..Len(e) : e[i] = x
    BY <1>2, SetOf
  <1>4. DOMAIN e = {} /\ ToSet(e) = {}
    BY <1>2, <1>3
  <1>5. IsInjective(e)
    BY <1>4 DEF IsInjective
  <1>. QED
    BY <1>1, <1>4, <1>5

LEMMA SetOfAppend ==
  ASSUME NEW S, NEW s \in Seq(S), NEW e \in S
  PROVE  /\ Append(s, e) \in Seq(S) /\ Append(s, e) # <<>>
         /\ ToSet(Append(s, e)) = ToSet(s) \union {e}
         /\ IsInjective(s) /\ e \notin ToSet(s) => IsInjective(Append(s, e))
         /\ s # <<>> => Head(Append(s, e)) = Head(s)
  <1>1. PICK t : t = Append(s, e)
    OBVIOUS
  <1>2. PICK n \in Nat : n = Len(s)
    BY SetOf
  <1>3. /\ t \in Seq(S) /\ Len(t) = n + 1 /\ t[n + 1] = e
        /\ \A i \in 1..n : t[i] = s[i]
    BY <1>1, <1>2, AppendProperties
  <1>4. \A i : i \in 1..(n + 1) <=> i \in 1..n \/ i = n + 1
    OBVIOUS
  <1>5. \A x : x \in ToSet(s) <=> \E i \in 1..n : s[i] = x
    BY <1>2, SetOf
  <1>6. \A x : x \in ToSet(t) <=> \E i \in 1..(n + 1) : t[i] = x
    BY <1>3, SetOf
  <1>7. \A x : x \in ToSet(t) <=> x \in ToSet(s) \/ x = e
    BY <1>3, <1>4, <1>5, <1>6
  <1>8. ASSUME IsInjective(s), e \notin ToSet(s) PROVE IsInjective(t)
    <2>1. DOMAIN s = 1..n /\ DOMAIN t = 1..(n + 1)
      BY <1>2, <1>3, SetOf
    <2>2. \A i, j \in 1..n : s[i] = s[j] => i = j
      BY <1>8, <2>1 DEF IsInjective
    <2>3. \A i \in 1..n : s[i] # e
      BY <1>5, <1>8
    <2>4. \A i, j \in 1..(n + 1) : t[i] = t[j] => i = j
      BY <1>3, <1>4, <2>2, <2>3
    <2>. QED
      BY <2>1, <2>4 DEF IsInjective
  <1>9. t # <<>>
    BY <1>3, EmptySeq
  <1>10. s # <<>> => Head(t) = Head(s)
    <2>1. ASSUME s # <<>> PROVE Head(t) = Head(s)
      <3>1. n # 0
        BY <1>2, <2>1, EmptySeq
      <3>2. t[1] = s[1]
        BY <1>3, <3>1
      <3>. QED
        BY <1>9, <1>3, <2>1, <3>2, HeadTailProperties
    <2>. QED
      BY <2>1
  <1>. QED
    BY <1>1, <1>3, <1>7, <1>8, <1>9, <1>10

LEMMA SetOfTail ==
  ASSUME NEW S, NEW s \in Seq(S), s # <<>>
  PROVE  /\ Head(s) \in S /\ Head(s) \in ToSet(s) /\ Tail(s) \in Seq(S)
         /\ ToSet(s) = ToSet(Tail(s)) \union {Head(s)}
  <1>1. PICK n \in Nat : n = Len(s)
    BY SetOf
  <1>2. n # 0
    BY <1>1, EmptySeq
  <1>3. PICK t : t = Tail(s)
    OBVIOUS
  <1>4. /\ t \in Seq(S) /\ Len(t) = n - 1 /\ Head(s) = s[1]
        /\ \A i \in 1..(n - 1) : t[i] = s[i + 1]
    BY <1>1, <1>2, <1>3, HeadTailProperties
  <1>5. \A x : x \in ToSet(s) <=> \E i \in 1..n : s[i] = x
    BY <1>1, SetOf
  <1>6. \A x : x \in ToSet(t) <=> \E i \in 1..(n - 1) : t[i] = x
    BY <1>4, SetOf
  <1>7. \A i \in 1..n : i = 1 \/ (i - 1 \in 1..(n - 1) /\ i = (i - 1) + 1)
    BY <1>2
  <1>8. 1 \in 1..n /\ \A i \in 1..(n - 1) : i + 1 \in 1..n
    BY <1>2
  <1>9. \A x \in ToSet(s) : x = s[1] \/ x \in ToSet(t)
    <2>1. ASSUME NEW x \in ToSet(s) PROVE x = s[1] \/ x \in ToSet(t)
      <3>1. PICK i \in 1..n : s[i] = x
        BY <1>5, <2>1
      <3>2. CASE i = 1
        BY <3>1, <3>2
      <3>3. CASE i - 1 \in 1..(n - 1) /\ i = (i - 1) + 1
        BY <1>4, <1>6, <3>1, <3>3
      <3>. QED
        BY <1>7, <3>2, <3>3
    <2>. QED
      BY <2>1
  <1>10. \A x \in ToSet(t) : x \in ToSet(s)
    BY <1>4, <1>5, <1>6, <1>8
  <1>11. s[1] \in ToSet(s) /\ s[1] \in S
    BY <1>1, <1>5, <1>8, SetOf
  <1>. QED
    BY <1>3, <1>4, <1>9, <1>10, <1>11

\* A pair of files, as a loop visits them.
LEMMA SetOfPair ==
  ASSUME NEW S, NEW x \in S, NEW y \in S
  PROVE  /\ <<x, y>> \in Seq(S) /\ ToSet(<<x, y>>) = {x, y}
  <1>1. PICK s : s = <<x, y>>
    OBVIOUS
  <1>2. s \in Seq(S) /\ Len(s) = 2 /\ s[1] = x /\ s[2] = y
    BY <1>1
  <1>3. \A i : i \in 1..2 <=> i = 1 \/ i = 2
    OBVIOUS
  <1>4. \A z : z \in ToSet(s) <=> \E i \in 1..2 : s[i] = z
    BY <1>2, SetOf
  <1>5. \A z : z \in ToSet(s) <=> z = x \/ z = y
    BY <1>2, <1>3, <1>4
  <1>. QED
    BY <1>1, <1>2, <1>5

\* Every set of natural numbers that is not empty has a least element.
LEMMA LeastNatural ==
  ASSUME NEW T \in SUBSET Nat, T # {}
  PROVE  \E n \in T : \A k \in T : n <= k
  <1>1. IsWellFoundedOn(OpToRel(<, Nat), Nat)
    BY NatLessThanWellFounded
  <1>2. PICK n \in T : \A k \in T : ~ (<<k, n>> \in OpToRel(<, Nat))
    BY <1>1, WFMin, Zenon
  <1>3. \A k \in T : ~(k < n)
    BY <1>2 DEF OpToRel
  <1>. QED
    BY <1>3

\* The equation of the recursive function inside Only, up to n.
Keeps(kept, s, F, n) ==
  kept = [i \in 0..n |-> IF i = 0 THEN <<>>
                         ELSE IF s[i] \in F THEN Append(kept[i - 1], s[i]) ELSE kept[i - 1]]

LEMMA KeepsExists ==
  ASSUME NEW s, NEW F, NEW m \in Nat
  PROVE  \E kept : Keeps(kept, s, F, m)
  <1>. DEFINE Bad == {n \in Nat : ~ \E kept : Keeps(kept, s, F, n)}
  <1>1. SUFFICES ASSUME Bad # {} PROVE FALSE
    OBVIOUS
  <1>2. PICK n \in Bad : \A j \in Bad : n <= j
    <2>1. Bad \in SUBSET Nat
      OBVIOUS
    <2>. HIDE DEF Bad
    <2>. QED
      BY <1>1, <2>1, LeastNatural
  <1>3. CASE n = 0
    <2>1. Keeps([i \in 0..0 |-> <<>>], s, F, 0)
      BY DEF Keeps
    <2>. QED
      BY <1>3, <2>1
  <1>4. CASE n # 0
    <2>1. n \in Nat /\ n - 1 \in Nat /\ n - 1 \notin Bad
      BY <1>2, <1>4
    <2>2. PICK kept : Keeps(kept, s, F, n - 1)
      BY <2>1
    <2>. DEFINE Rhs(k, i) == IF i = 0 THEN <<>>
                             ELSE IF s[i] \in F THEN Append(k[i - 1], s[i]) ELSE k[i - 1]
                more == [i \in 0..n |-> IF i < n THEN kept[i] ELSE Rhs(kept, n)]
    <2>3. \A i \in 0..(n - 1) : kept[i] = Rhs(kept, i)
      BY <2>1, <2>2 DEF Keeps
    <2>4. \A i \in 0..n : more[i] = Rhs(more, i)
      <3>. SUFFICES ASSUME NEW i \in 0..n PROVE more[i] = Rhs(more, i)
        OBVIOUS
      <3>1. i # 0 => i - 1 \in 0..n /\ i - 1 < n /\ more[i - 1] = kept[i - 1]
        BY <2>1
      <3>2. CASE i < n
        BY <2>1, <2>3, <3>1, <3>2
      <3>3. CASE i = n
        BY <2>1, <1>4, <3>1, <3>3
      <3>. QED
        BY <2>1, <3>2, <3>3
    <2>5. more = [i \in 0..n |-> Rhs(more, i)]
      <3>. HIDE DEF Rhs
      <3>. QED
        BY <2>4
    <2>6. Keeps(more, s, F, n)
      BY <2>5 DEF Keeps
    <2>. QED
      BY <2>6
  <1>. QED
    BY <1>3, <1>4

LEMMA KeepsAt ==
  ASSUME NEW kept, NEW s, NEW F, NEW m \in Nat, Keeps(kept, s, F, m), NEW n \in 0..m
  PROVE  kept[n] = IF n = 0 THEN <<>>
                   ELSE IF s[n] \in F THEN Append(kept[n - 1], s[n]) ELSE kept[n - 1]
  <1>. DEFINE Rhs(i) == IF i = 0 THEN <<>>
                        ELSE IF s[i] \in F THEN Append(kept[i - 1], s[i]) ELSE kept[i - 1]
  <1>1. kept = [i \in 0..m |-> Rhs(i)]
    BY DEF Keeps
  <1>. HIDE DEF Rhs
  <1>2. kept[n] = Rhs(n)
    BY <1>1
  <1>. QED
    BY <1>2 DEF Rhs

LEMMA OnlyDef ==
  ASSUME NEW s, NEW F, Len(s) \in Nat
  PROVE  \E kept : Keeps(kept, s, F, Len(s)) /\ Only(s, F) = kept[Len(s)]
  <1>. DEFINE kept == CHOOSE k : Keeps(k, s, F, Len(s))
  <1>1. Keeps(kept, s, F, Len(s))
    BY KeepsExists
  <1>2. Only(s, F) = kept[Len(s)]
    BY DEF Only, Keeps
  <1>. QED
    BY <1>1, <1>2

\* What Only does: it keeps the elements of F, each as often as it was there.
LEMMA SetOfOnly ==
  ASSUME NEW S, NEW s \in Seq(S), NEW F
  PROVE  /\ Only(s, F) \in Seq(S)
         /\ ToSet(Only(s, F)) = ToSet(s) \intersect F
         /\ IsInjective(s) => IsInjective(Only(s, F))
  <1>1. Len(s) \in Nat /\ \A i \in 1..Len(s) : s[i] \in S
    BY SetOf
  <1>2. PICK kept : Keeps(kept, s, F, Len(s)) /\ Only(s, F) = kept[Len(s)]
    BY <1>1, OnlyDef
  <1>. DEFINE P(n) == /\ kept[n] \in Seq(S)
                      /\ \A x : x \in ToSet(kept[n]) <=>
                           x \in F /\ \E i \in 1..n : s[i] = x
                      /\ IsInjective(s) => IsInjective(kept[n])
              Bad == {n \in 0..Len(s) : ~P(n)}
  <1>3. kept[0] = <<>>
    BY <1>1, <1>2, KeepsAt
  <1>4. P(0)
    <2>1. kept[0] \in Seq(S) /\ IsInjective(kept[0]) /\ \A x : x \notin ToSet(kept[0])
      BY <1>3, SetOfEmpty, EmptySeq
    <2>. QED
      BY <2>1
  <1>5. ASSUME NEW n \in 1..Len(s), P(n - 1) PROVE P(n)
    <2>1. n - 1 \in 0..Len(s) /\ n \in 0..Len(s) /\ n # 0
      BY <1>1, <1>5
    <2>2. kept[n] = IF s[n] \in F THEN Append(kept[n - 1], s[n]) ELSE kept[n - 1]
      BY <1>1, <1>2, <2>1, KeepsAt
    <2>3. PICK t : t = kept[n - 1]
      OBVIOUS
    <2>4. /\ t \in Seq(S)
          /\ \A x : x \in ToSet(t) <=> x \in F /\ \E i \in 1..(n - 1) : s[i] = x
          /\ IsInjective(s) => IsInjective(t)
      BY <1>5, <2>3
    <2>5. \A i : i \in 1..n <=> i \in 1..(n - 1) \/ i = n
      BY <2>1
    <2>6. CASE s[n] \notin F
      <3>1. kept[n] = t
        BY <2>2, <2>3, <2>6
      <3>2. \A x : x \in F /\ (\E i \in 1..n : s[i] = x)
                     <=> x \in F /\ \E i \in 1..(n - 1) : s[i] = x
        BY <2>5, <2>6
      <3>. QED
        BY <2>4, <3>1, <3>2
    <2>7. CASE s[n] \in F
      <3>1. PICK u : u = kept[n]
        OBVIOUS
      <3>2. s[n] \in S /\ u = Append(t, s[n])
        BY <1>1, <1>5, <2>2, <2>3, <2>7, <3>1
      <3>3. /\ u \in Seq(S) /\ ToSet(u) = ToSet(t) \union {s[n]}
            /\ IsInjective(t) /\ s[n] \notin ToSet(t) => IsInjective(u)
        BY <2>4, <3>2, SetOfAppend
      <3>4. \A x : x \in ToSet(u) <=> x \in F /\ \E i \in 1..n : s[i] = x
        BY <2>4, <2>5, <2>7, <3>3
      <3>5. ASSUME IsInjective(s) PROVE IsInjective(u)
        <4>1. \A i, j \in 1..Len(s) : s[i] = s[j] => i = j
          BY <3>5, SetOf DEF IsInjective
        <4>2. \A i \in 1..(n - 1) : i \in 1..Len(s) /\ i # n
          BY <1>1, <1>5
        <4>3. s[n] \notin ToSet(t)
          BY <1>5, <2>4, <4>1, <4>2
        <4>. QED
          BY <2>4, <3>3, <3>5, <4>3
      <3>. QED
        BY <3>1, <3>3, <3>4, <3>5
    <2>. QED
      BY <2>6, <2>7
  <1>6. Bad = {}
    <2>. HIDE DEF P
    <2>1. SUFFICES ASSUME Bad # {} PROVE FALSE
      OBVIOUS
    <2>2. PICK n \in Bad : \A k \in Bad : n <= k
      <3>1. Bad \in SUBSET Nat
        BY <1>1
      <3>. HIDE DEF Bad
      <3>. QED
        BY <2>1, <3>1, LeastNatural
    <2>3. n \in 1..Len(s)
      BY <1>1, <1>4, <2>2
    <2>4. n - 1 \in 0..Len(s) /\ n - 1 \notin Bad
      BY <1>1, <2>2, <2>3
    <2>. QED
      BY <1>5, <2>2, <2>3, <2>4
  <1>7. P(Len(s))
    BY <1>1, <1>6
  <1>8. \A x : x \in ToSet(s) <=> \E i \in 1..Len(s) : s[i] = x
    BY SetOf
  <1>. QED
    BY <1>2, <1>7, <1>8

\* A finite set in some order.
LEMMA SetToSeqFacts ==
  ASSUME NEW S, IsFiniteSet(S)
  PROVE  /\ Cardinality(S) \in Nat /\ SetToSeq(S) \in [1..Cardinality(S) -> S]
         /\ SetToSeq(S) \in Seq(S) /\ Len(SetToSeq(S)) = Cardinality(S)
         /\ IsInjective(SetToSeq(S)) /\ ToSet(SetToSeq(S)) = S
  <1>1. PICK n \in Nat : n = Cardinality(S)
    BY FS_CardinalityType
  <1>2. ExistsBijection(1..n, S)
    BY <1>1, FS_CardinalityType
  <1>3. PICK g \in [1..n -> S] : IsInjective(g)
    BY <1>2 DEF ExistsBijection, Bijection, Injection, IsInjective
  <1>4. PICK f : f = SetToSeq(S)
    OBVIOUS
  <1>5. f \in [1..n -> S] /\ IsInjective(f)
    BY <1>1, <1>3, <1>4 DEF SetToSeq
  <1>6. f \in Seq(S) /\ Len(f) = n
    BY <1>5
  <1>7. IsFiniteSet(1..n) /\ Cardinality(1..n) = n
    BY FS_Interval
  <1>8. f \in Injection(1..n, S)
    BY <1>5 DEF Injection, IsInjective
  <1>9. f \in Surjection(1..n, S)
    BY <1>1, <1>7, <1>8, FS_Injection
  <1>10. \A x \in S : \E i \in 1..n : f[i] = x
    BY <1>9 DEF Surjection
  <1>11. ToSet(f) \subseteq S /\ \A x : x \in ToSet(f) <=> \E i \in 1..n : f[i] = x
    BY <1>6, SetOf
  <1>12. ToSet(f) = S
    BY <1>10, <1>11
  <1>. QED
    BY <1>1, <1>4, <1>5, <1>6, <1>12

-----------------------------------------------------------------------------
(* The operators of the model                                              *)

LEMMA PeersFinite == IsFiniteSet(Peers)
  BY PeersAssumption, FS_Union DEF Peers

LEMMA HalfOf ==
  ASSUME NEW n \in Nat
  PROVE  /\ \A i \in 1..(2 * n) : (i + 1) \div 2 \in 1..n
         /\ \A j \in 1..n : /\ 2 * j \in 1..(2 * n) /\ 2 * j - 1 \in 1..(2 * n)
                            /\ (2 * j + 1) \div 2 = j /\ ((2 * j - 1) + 1) \div 2 = j
                            /\ (2 * j) % 2 = 0 /\ (2 * j - 1) % 2 = 1
  OBVIOUS

\* The list of files that an operation visits: all that exist.
LEMMA ExistingFacts ==
  ASSUME NEW ids \in SUBSET Peers
  PROVE  /\ ExistingYamls(ids) \in Seq(Files)
         /\ ToSet(ExistingYamls(ids)) = {f \in Dirs \X ids : yaml[f] # None}
  <1>. DEFINE s == SetToSeq(ids)
              F == {f \in Files : yaml[f] # None}
  <1>1. IsFiniteSet(ids)
    BY PeersFinite, FS_Subset
  <1>2. PICK n \in Nat : n = Cardinality(ids)
    BY <1>1, SetToSeqFacts
  <1>3. s \in Seq(ids) /\ Len(s) = n /\ ToSet(s) = ids
    BY <1>1, <1>2, SetToSeqFacts
  <1>. HIDE DEF s
  <1>. DEFINE all == [i \in 1..2 * Len(s) |->
                        <<IF i % 2 = 1 THEN "agent" ELSE "project", s[(i + 1) \div 2]>>]
  <1>4. \A j \in 1..n : s[j] \in ids
    BY <1>3, SetOf
  <1>5. \A p \in ids : \E j \in 1..n : s[j] = p
    BY <1>3, SetOf
  <1>6. \A i \in 1..(2 * n) : all[i] \in Dirs \X ids
    BY <1>3, <1>4, HalfOf DEF Dirs
  <1>7. DOMAIN all = 1..(2 * n) /\ 2 * n \in Nat /\ all = [i \in 1..(2 * n) |-> all[i]]
    BY <1>3
  <1>8. all \in Seq(Dirs \X ids) /\ Len(all) = 2 * n
    <2>. HIDE DEF all
    <2>. QED
      BY <1>6, <1>7
  <1>9. \A f \in Dirs \X ids : \E i \in 1..(2 * n) : all[i] = f
    <2>1. SUFFICES ASSUME NEW f \in Dirs \X ids
                   PROVE  \E i \in 1..(2 * n) : all[i] = f
      BY Zenon
    <2>2. PICK d \in Dirs, p \in ids : f = <<d, p>>
      OBVIOUS
    <2>3. PICK j \in 1..n : s[j] = p
      BY <1>5
    <2>4. CASE d = "agent"
      <3>1. all[2 * j - 1] = <<d, p>> /\ 2 * j - 1 \in 1..(2 * n)
        BY <1>3, <2>3, <2>4, HalfOf
      <3>. QED
        BY <2>2, <3>1
    <2>5. CASE d = "project"
      <3>1. all[2 * j] = <<d, p>> /\ 2 * j \in 1..(2 * n)
        BY <1>3, <2>3, <2>5, HalfOf
      <3>. QED
        BY <2>2, <3>1
    <2>. QED
      BY <2>4, <2>5 DEF Dirs
  <1>10. ExistingYamls(ids) = Only(all, F)
    BY DEF ExistingYamls, s
  <1>11. Dirs \X ids \subseteq Files
    BY DEF Files
  <1>. HIDE DEF all
  <1>12. all \in Seq(Files)
    BY <1>8, <1>11, SeqMonotonic
  <1>13. Only(all, F) \in Seq(Files) /\ ToSet(Only(all, F)) = ToSet(all) \intersect F
    BY <1>12, SetOfOnly
  <1>14. ToSet(all) = Dirs \X ids
    <2>1. ToSet(all) \subseteq Dirs \X ids /\ \A f : f \in ToSet(all) <=> \E i \in 1..(2 * n) : all[i] = f
      BY <1>8, SetOf
    <2>. QED
      BY <1>9, <2>1
  <1>. QED
    BY <1>10, <1>11, <1>13, <1>14

\* The places of a plan.
LEMMA Steps ==
  ASSUME NEW o \in Operations, o.at \in 1..Len(Plan(o.op)), NEW st, Plan(o.op)[o.at] = st
  PROVE  /\ o.at \in Nat
         /\ o.op = "submit" => st = <<"formTokens", "write", "formRelay", "saveForm">>[o.at] /\ o.at \in 1..4
         /\ o.op = "add" => o.at \in 1..8 /\
              st = <<"tokens", "edit", "build", "write", "saveTokens", "saveSetup", "reloadRelay", "refresh">>[o.at]
         /\ o.op = "update" => o.at \in 1..5 /\
              st = <<"own", "list", "edit", "saveSetup", "refresh">>[o.at]
         /\ o.op = "remove" => o.at \in 1..7 /\
              st = <<"tokens", "edit", "saveSetup", "kill", "delete", "reloadRelay", "refresh">>[o.at]
         /\ o.op = "dirs" => o.at \in 1..3 /\ st = <<"own", "saveSetup", "refresh">>[o.at]
         /\ o.op = "teams" => o.at = 1 /\ st = "edit"
  <1>. USE DEF Plan, Plans, AddPlan, RemovePlan
  <1>1. CASE o.op = "submit"
    BY <1>1 DEF Operations
  <1>2. CASE o.op = "add"
    BY <1>2 DEF Operations
  <1>3. CASE o.op = "update"
    BY <1>3 DEF Operations
  <1>4. CASE o.op = "dirs"
    BY <1>4 DEF Operations
  <1>5. CASE o.op = "remove"
    BY <1>5 DEF Operations
  <1>6. CASE o.op = "teams"
    BY <1>6 DEF Operations
  <1>. QED
    BY <1>1, <1>2, <1>3, <1>4, <1>5, <1>6 DEF Operations

LEMMA StepPlaces ==
  ASSUME NEW o \in Operations, o.at \in 1..Len(Plan(o.op)), NEW st, Plan(o.op)[o.at] = st
  PROVE  /\ st = "formTokens" => o.op = "submit" /\ o.at = 1
         /\ st = "formRelay" => o.op = "submit" /\ o.at = 3
         /\ st = "saveForm" => o.op = "submit" /\ o.at = 4
         /\ st = "write" => (o.op = "submit" /\ o.at = 2) \/ (o.op = "add" /\ o.at = 4)
         /\ st = "tokens" => o.op \in {"add", "remove"} /\ o.at = 1
         /\ st = "edit" => \/ o.op \in {"add", "remove"} /\ o.at = 2
                           \/ o.op = "update" /\ o.at = 3
                           \/ o.op = "teams" /\ o.at = 1
         /\ st = "build" => o.op = "add" /\ o.at = 3
         /\ st = "saveTokens" => o.op = "add" /\ o.at = 5
         /\ st = "saveSetup" => \/ o.op = "add" /\ o.at = 6
                                \/ o.op = "remove" /\ o.at = 3
                                \/ o.op = "update" /\ o.at = 4
                                \/ o.op = "dirs" /\ o.at = 2
         /\ st = "own" => o.op \in {"update", "dirs"} /\ o.at = 1
         /\ st = "list" => o.op = "update" /\ o.at = 2
         /\ st = "kill" => o.op = "remove" /\ o.at = 4
         /\ st = "delete" => o.op = "remove" /\ o.at = 5
         /\ st = "reloadRelay" => (o.op = "add" /\ o.at = 7) \/ (o.op = "remove" /\ o.at = 6)
         /\ st = "refresh" => \/ o.op = "add" /\ o.at = 8
                              \/ o.op = "remove" /\ o.at = 7
                              \/ o.op = "update" /\ o.at = 5
                              \/ o.op = "dirs" /\ o.at = 3
  <1>1. o.op \in {"submit", "add", "update", "dirs", "remove", "teams"} /\ o.at \in Nat
    BY DEF Operations
  <1>2. CASE o.op = "submit"
    BY <1>2, Steps
  <1>3. CASE o.op = "add"
    <2>1. o.at \in 1..8 /\ st = <<"tokens", "edit", "build", "write", "saveTokens", "saveSetup",
                                  "reloadRelay", "refresh">>[o.at]
      BY <1>3, Steps
    <2>2. o.at \in {1, 2, 3, 4, 5, 6, 7, 8}
      BY <2>1
    <2>. QED
      BY <1>3, <2>1, <2>2
  <1>4. CASE o.op = "update"
    <2>1. o.at \in 1..5 /\ st = <<"own", "list", "edit", "saveSetup", "refresh">>[o.at]
      BY <1>4, Steps
    <2>2. o.at \in {1, 2, 3, 4, 5}
      BY <2>1
    <2>. QED
      BY <1>4, <2>1, <2>2
  <1>5. CASE o.op = "dirs"
    BY <1>5, Steps
  <1>6. CASE o.op = "remove"
    <2>1. o.at \in 1..7 /\ st = <<"tokens", "edit", "saveSetup", "kill", "delete", "reloadRelay",
                                  "refresh">>[o.at]
      BY <1>6, Steps
    <2>2. o.at \in {1, 2, 3, 4, 5, 6, 7}
      BY <2>1
    <2>. QED
      BY <1>6, <2>1, <2>2
  <1>7. CASE o.op = "teams"
    BY <1>7, Steps
  <1>. QED
    BY <1>1, <1>2, <1>3, <1>4, <1>5, <1>6, <1>7

LEMMA PlanLength ==
  ASSUME NEW o
  PROVE  /\ o.op = "submit" => Len(Plan(o.op)) = 4
         /\ o.op = "add" => Len(Plan(o.op)) = 8
         /\ o.op = "update" => Len(Plan(o.op)) = 5
         /\ o.op = "dirs" => Len(Plan(o.op)) = 3
         /\ o.op = "remove" => Len(Plan(o.op)) = 7
         /\ o.op = "teams" => Len(Plan(o.op)) = 1
  <1>1. PICK op : op = o.op
    OBVIOUS
  <1>2. /\ op = "submit" => Len(Plan(op)) = 4
        /\ op = "add" => Len(Plan(op)) = 8
        /\ op = "update" => Len(Plan(op)) = 5
        /\ op = "dirs" => Len(Plan(op)) = 3
        /\ op = "remove" => Len(Plan(op)) = 7
        /\ op = "teams" => Len(Plan(op)) = 1
    BY DEF Plan, Plans, AddPlan, RemovePlan
  <1>. QED
    BY <1>1, <1>2

-----------------------------------------------------------------------------
(* What a step does                                                        *)

\* What the fields of an operation hold while it runs.
Shaped(o) ==
  /\ o.op # "submit" => o.setup # None
  /\ o.op \in {"add", "update", "dirs", "remove"} => o.peer \in Peers
  /\ o.op \in {"update", "dirs"} => o.setup[o.peer] # None
  /\ o.op = "dirs" => o.gives = NoGift
  /\ o.op = "add" /\ o.at >= 4 => o.text # None

OnPlan(o) == o \in Operations /\ o.at \in 1..Len(Plan(o.op)) /\ Shaped(o)

LEMMA NotLast ==
  ASSUME NEW o, OnPlan(o)
  PROVE  /\ o.op = "submit" /\ o.at <= 3 => o.at < Len(Plan(o.op))
         /\ o.op = "add" /\ o.at <= 7 => o.at < Len(Plan(o.op))
         /\ o.op = "update" /\ o.at <= 4 => o.at < Len(Plan(o.op))
         /\ o.op = "dirs" /\ o.at <= 2 => o.at < Len(Plan(o.op))
         /\ o.op = "remove" /\ o.at <= 6 => o.at < Len(Plan(o.op))
  <1>1. PICK op, k, m : op = o.op /\ k = o.at /\ m = Len(Plan(op))
    OBVIOUS
  <1>2. k \in Nat
    BY <1>1 DEF OnPlan, Operations
  <1>3. /\ op = "submit" => m = 4
        /\ op = "add" => m = 8
        /\ op = "update" => m = 5
        /\ op = "dirs" => m = 3
        /\ op = "remove" => m = 7
    BY <1>1 DEF Plan, Plans, AddPlan, RemovePlan
  <1>4. /\ op = "submit" /\ k <= 3 => k < m
        /\ op = "add" /\ k <= 7 => k < m
        /\ op = "update" /\ k <= 4 => k < m
        /\ op = "dirs" /\ k <= 2 => k < m
        /\ op = "remove" /\ k <= 6 => k < m
    BY <1>2, <1>3
  <1>. QED
    BY <1>1, <1>4, Zenon

\* The fields that no step changes.
Same(o, o2) ==
  /\ o2 \in Operations /\ o2.op = o.op /\ o2.peer = o.peer /\ o2.n = o.n
  /\ o2.members = o.members /\ o2.setup = o.setup /\ o2.gives = o.gives

\* The yamls of these peers that exist.
Existing(S) == {f \in Dirs \X S : yaml[f] # None}

ProcsOK ==
  /\ proc \in [Procs -> Operations \union {None}]
  /\ \A x \in Procs : proc[x] # None => OnPlan(proc[x])

LEMMA AtPlan ==
  ASSUME ProcsOK, NEW x \in Procs, NEW st, At(x, st)
  PROVE  proc[x] # None /\ OnPlan(proc[x]) /\ Plan(proc[x].op)[proc[x].at] = st
  BY DEF ProcsOK, At

LEMMA BecomesFacts ==
  ASSUME ProcsOK, NEW x \in Procs, NEW o2, Becomes(x, o2)
  PROVE  proc'[x] = o2 /\ \A y \in Procs : y # x => proc'[y] = proc[y]
  BY DEF ProcsOK, Becomes

LEMMA SteppedFacts ==
  ASSUME NEW o, OnPlan(o)
  PROVE  /\ o.at < Len(Plan(o.op)) =>
              /\ Same(o, Stepped(o)) /\ Stepped(o).at = o.at + 1
              /\ Stepped(o).todo = o.todo /\ Stepped(o).tokens = o.tokens
              /\ Stepped(o).text = o.text
         /\ o.at = Len(Plan(o.op)) => Stepped(o) = None
  <1>1. o \in Operations /\ o.at + 1 \in Nat
    BY DEF OnPlan, Operations
  <1>2. ASSUME o.at < Len(Plan(o.op))
        PROVE  Stepped(o) = [o EXCEPT !.at = o.at + 1]
    BY <1>1, <1>2 DEF Stepped, Operations
  <1>3. [o EXCEPT !.at = o.at + 1] \in Operations
    BY <1>1 DEF Operations
  <1>4. LET s == [o EXCEPT !.at = o.at + 1] IN
        /\ s.op = o.op /\ s.peer = o.peer /\ s.n = o.n /\ s.members = o.members
        /\ s.setup = o.setup /\ s.at = o.at + 1 /\ s.todo = o.todo /\ s.tokens = o.tokens
        /\ s.text = o.text /\ s.gives = o.gives
    BY <1>1 DEF Operations
  <1>5. o.at = Len(Plan(o.op)) => Stepped(o) = None
    BY DEF Stepped
  <1>. QED
    BY <1>2, <1>3, <1>4, <1>5 DEF Same

\* A step of the plan is done and the operation has something new to remember.
WithTodo(r, todo) == [r EXCEPT !.todo = todo]
WithTokens(r, t) == [r EXCEPT !.tokens = t]
WithBoth(r, t, todo) == [r EXCEPT !.tokens = t, !.todo = todo]
WithText(r, y, todo) == [r EXCEPT !.text = y, !.todo = todo]
WithFirst(r, y) == [r EXCEPT !.text = IF @ = None THEN y ELSE @]

LEMMA SteppedTodo ==
  ASSUME NEW o, OnPlan(o), o.at < Len(Plan(o.op)), NEW todo \in Seq(Files),
         NEW s, s = WithTodo(Stepped(o), todo)
  PROVE  /\ Same(o, s) /\ s.at = o.at + 1
         /\ s.todo = todo /\ s.tokens = o.tokens /\ s.text = o.text
  <1>1. PICK r : r = Stepped(o)
    OBVIOUS
  <1>2. /\ r \in Operations /\ Same(o, r) /\ r.at = o.at + 1 /\ r.todo = o.todo
        /\ r.tokens = o.tokens /\ r.text = o.text
    BY <1>1, SteppedFacts DEF Same
  <1>3. s = [r EXCEPT !.todo = todo]
    BY <1>1 DEF WithTodo
  <1>. QED
    BY <1>2, <1>3 DEF Same, Operations

LEMMA SteppedTokens ==
  ASSUME NEW o, OnPlan(o), o.at < Len(Plan(o.op)), NEW t \in Seq(Bearers),
         NEW s, s = WithTokens(Stepped(o), t)
  PROVE  /\ Same(o, s) /\ s.at = o.at + 1
         /\ s.todo = o.todo /\ s.tokens = t /\ s.text = o.text
  <1>1. PICK r : r = Stepped(o)
    OBVIOUS
  <1>2. /\ r \in Operations /\ Same(o, r) /\ r.at = o.at + 1 /\ r.todo = o.todo
        /\ r.tokens = o.tokens /\ r.text = o.text
    BY <1>1, SteppedFacts DEF Same
  <1>3. s = [r EXCEPT !.tokens = t]
    BY <1>1 DEF WithTokens
  <1>. QED
    BY <1>2, <1>3 DEF Same, Operations

LEMMA SteppedBoth ==
  ASSUME NEW o, OnPlan(o), o.at < Len(Plan(o.op)), NEW t \in Seq(Bearers), NEW todo \in Seq(Files),
         NEW s, s = WithBoth(Stepped(o), t, todo)
  PROVE  /\ Same(o, s) /\ s.at = o.at + 1
         /\ s.todo = todo /\ s.tokens = t /\ s.text = o.text
  <1>1. PICK r : r = Stepped(o)
    OBVIOUS
  <1>2. /\ r \in Operations /\ Same(o, r) /\ r.at = o.at + 1 /\ r.todo = o.todo
        /\ r.tokens = o.tokens /\ r.text = o.text
    BY <1>1, SteppedFacts DEF Same
  <1>3. s = [r EXCEPT !.tokens = t, !.todo = todo]
    BY <1>1 DEF WithBoth
  <1>. QED
    BY <1>2, <1>3 DEF Same, Operations

LEMMA SteppedText ==
  ASSUME NEW o, OnPlan(o), o.at < Len(Plan(o.op)), NEW y \in Yamls, NEW todo \in Seq(Files),
         NEW s, s = WithText(Stepped(o), y, todo)
  PROVE  /\ Same(o, s) /\ s.at = o.at + 1
         /\ s.todo = todo /\ s.tokens = o.tokens /\ s.text = y
  <1>1. PICK r : r = Stepped(o)
    OBVIOUS
  <1>2. /\ r \in Operations /\ Same(o, r) /\ r.at = o.at + 1 /\ r.todo = o.todo
        /\ r.tokens = o.tokens /\ r.text = o.text
    BY <1>1, SteppedFacts DEF Same
  <1>3. s = [r EXCEPT !.text = y, !.todo = todo]
    BY <1>1 DEF WithText
  <1>. QED
    BY <1>2, <1>3 DEF Same, Operations

\* One file of a loop is done.
LEMMA VisitedFacts ==
  ASSUME NEW o, OnPlan(o), o.todo # <<>>
  PROVE  /\ Head(o.todo) \in Files /\ Head(o.todo) \in ToSet(o.todo)
         /\ ToSet(o.todo) = ToSet(Tail(o.todo)) \union {Head(o.todo)}
         /\ Same(o, Visited(o)) /\ Visited(o).at = o.at /\ Visited(o).todo = Tail(o.todo)
         /\ Visited(o).tokens = o.tokens /\ Visited(o).text = o.text
  <1>1. o \in Operations /\ o.todo \in Seq(Files)
    BY DEF OnPlan, Operations
  <1>2. /\ Head(o.todo) \in Files /\ Head(o.todo) \in ToSet(o.todo)
        /\ ToSet(o.todo) = ToSet(Tail(o.todo)) \union {Head(o.todo)}
        /\ Tail(o.todo) \in Seq(Files)
    BY <1>1, SetOfTail
  <1>3. PICK t \in Seq(Files) : t = Tail(o.todo)
    BY <1>2
  <1>4. PICK v : v = [o EXCEPT !.todo = t]
    OBVIOUS
  <1>5. Same(o, v) /\ v.at = o.at /\ v.todo = t /\ v.tokens = o.tokens /\ v.text = o.text
    BY <1>1, <1>3, <1>4 DEF Same, Operations
  <1>6. Visited(o) = v
    BY <1>3, <1>4 DEF Visited
  <1>. QED
    BY <1>2, <1>3, <1>5, <1>6

LEMMA VisitedText ==
  ASSUME NEW o, OnPlan(o), o.todo # <<>>, NEW y \in Yamls,
         NEW v, v = WithFirst(Visited(o), y)
  PROVE  /\ Same(o, v) /\ v.at = o.at /\ v.todo = Tail(o.todo) /\ v.tokens = o.tokens
         /\ v.text = IF o.text = None THEN y ELSE o.text
  <1>1. PICK r : r = Visited(o)
    OBVIOUS
  <1>2. /\ Same(o, r) /\ r.at = o.at /\ r.todo = Tail(o.todo) /\ r.tokens = o.tokens
        /\ r.text = o.text
    BY <1>1, VisitedFacts
  <1>3. v = [r EXCEPT !.text = IF @ = None THEN y ELSE @]
    BY <1>1 DEF WithFirst
  <1>. QED
    BY <1>2, <1>3 DEF Same, Operations

\* No bearer is in tokens.json twice: an operation that has not written its
\* number into the file yet is the only one that has it.
Numbered ==
  /\ \A b \in ToSet(tokens) : b[2] <= begun
  /\ \A x \in Procs : proc[x] # None =>
       /\ proc[x].n \in 1..begun /\ IsInjective(proc[x].tokens)
       /\ \A b \in ToSet(proc[x].tokens) : b[2] <= begun
       /\ proc[x].op = "add" /\ proc[x].at <= 5 =>
            /\ \A b \in ToSet(tokens) : b[2] # proc[x].n
            /\ \A y \in Procs : proc[y] # None =>
                 \A b \in ToSet(proc[y].tokens) : b[2] # proc[x].n
  /\ \A x, y \in Procs : proc[x] # None /\ proc[y] # None /\ x # y => proc[x].n # proc[y].n

TypeInv == TypeOK /\ ProcsOK /\ Numbered

LEMMA StateTypes ==
  ASSUME TypeInv
  PROVE  /\ setup \in Setups \union {None} /\ tokens \in Seq(Bearers) /\ IsInjective(tokens)
         /\ yaml \in [Files -> Yamls \union {None}] /\ begun \in Nat /\ ProcsOK
         /\ server \in [up : BOOLEAN, peers : Setups \union {None}]
         /\ \A p \in Peers, d \in Dirs : <<d, p>> \in Files
         /\ Listed \subseteq Peers /\ (setup # None => Listed = Named(setup))
         /\ \A p \in Listed : setup # None /\ setup[p] \in SetupEntries
  BY PeersAssumption DEF TypeInv, TypeOK, Files, Listed, Named, Setups

\* The yaml of a file that exists.
LEMMA YamlType ==
  ASSUME TypeInv, NEW f \in Files, yaml[f] # None
  PROVE  /\ yaml[f] \in Yamls /\ f[1] \in Dirs /\ f[2] \in Peers /\ f = <<f[1], f[2]>>
         /\ yaml[f].peers \in [Peers -> PeerEntries \union {None}]
         /\ yaml[f].team \in SUBSET Peers
  BY DEF TypeInv, TypeOK, Files, Yamls

LEMMA OpTypes ==
  ASSUME NEW o, OnPlan(o)
  PROVE  /\ o \in Operations /\ o # None /\ o.n \in Nat /\ o.at \in Nat /\ o.todo \in Seq(Files)
         /\ o.tokens \in Seq(Bearers) /\ o.members \subseteq Peers
         /\ o.peer \in Peers \union {None} /\ o.setup \in Setups \union {None}
         /\ o.text \in Yamls \union {None}
         /\ o.op \in {"submit", "add", "update", "dirs", "remove", "teams"}
         /\ Others(o) \subseteq Peers
  BY NoneAssumption DEF OnPlan, Operations, Others, Named

\* What is said of a peer at first, and when some of it is replaced.
LEMMA OriginalFacts ==
  ASSUME NEW n \in Nat
  PROVE  Original(n) \in Abouts
  BY DEF Original, Abouts

LEMMA WithFacts ==
  ASSUME NEW about \in Abouts, NEW gives, NEW K, \A k \in K : gives[k] \in Nat
  PROVE  /\ With(about, gives, K) \in Abouts
         /\ \A k \in Facts :
              With(about, gives, K)[k] = IF k \in K THEN gives[k] ELSE about[k]
  BY DEF With, Abouts

\* What an update gives is a name or a role; what of it does not go to the other
\* peers is what setup.json says already.
LEMMA GivenFacts ==
  ASSUME NEW o, OnPlan(o)
  PROVE  /\ Given(o) \subseteq Facts /\ Spread(o) \subseteq Given(o)
         /\ \A k \in Given(o) : o.gives[k] \in Nat
         /\ \A k \in Given(o) : k \notin Spread(o) => o.gives[k] = o.setup[o.peer].about[k]
         /\ o.op = "dirs" => Given(o) = {}
  <1>1. o.gives \in [Facts -> Nat \union {None}]
    BY DEF OnPlan, Operations, Gifts
  <1>2. \A k \in Given(o) : k \in Facts /\ o.gives[k] # None /\ o.gives[k] \in Nat
    BY <1>1 DEF Given
  <1>3. ASSUME o.op = "dirs" PROVE Given(o) = {}
    <2>1. o.gives = NoGift
      BY <1>3 DEF OnPlan, Shaped
    <2>. QED
      BY <2>1 DEF Given, NoGift
  <1>. QED
    BY <1>2, <1>3 DEF Spread

\* What an operation changes does not change while it runs.
LEMMA ChangesFacts ==
  ASSUME NEW o
  PROVE  /\ o.op # "update" => \A c : c \in Changes(o) <=> c = <<o.op, o.peer>>
         /\ o.op = "update" => \A c : c \in Changes(o) <=> \E k \in Spread(o) : c = <<k, o.peer>>
  BY DEF Changes

LEMMA SameChanges ==
  ASSUME NEW o, NEW o2, Same(o, o2)
  PROVE  /\ Given(o2) = Given(o) /\ Spread(o2) = Spread(o) /\ Changes(o2) = Changes(o)
         /\ o2.gives = o.gives
  <1>1. o2.op = o.op /\ o2.peer = o.peer /\ o2.setup = o.setup /\ o2.gives = o.gives
    BY DEF Same
  <1>2. Given(o2) = Given(o)
    BY <1>1 DEF Given
  <1>3. Spread(o2) = Spread(o)
    BY <1>1, <1>2 DEF Spread
  <1>. QED
    BY <1>1, <1>2, <1>3 DEF Changes

\* A yaml with another entry for one peer and another team.
WithEntry(c, p, entry, team) ==
  [c EXCEPT !.peers = [c.peers EXCEPT ![p] = entry], !.team = team]

\* What an edit makes of the yaml c, by what operation it is.
EditedInto(o, c, e) ==
  /\ e \in Yamls /\ e.bearer = c.bearer /\ e.about = c.about
  /\ o.op # "teams" => \A q \in Peers : q # o.peer => e.peers[q] = c.peers[q]
  /\ o.op = "add" =>
       /\ e.peers[o.peer] # None
       /\ e.peers[o.peer].secret = o.n /\ e.peers[o.peer].about = Original(o.n)
       /\ e.team = IF o.peer \in TeamJoiners THEN c.team \union {o.peer} ELSE c.team
  /\ o.op = "update" =>
       /\ e.peers[o.peer] # None
       /\ \A k \in Facts : e.peers[o.peer].about[k] =
                            IF k \in Spread(o) THEN o.gives[k] ELSE c.peers[o.peer].about[k]
       /\ e.peers[o.peer].secret = c.peers[o.peer].secret
       /\ e.team = c.team
  /\ o.op = "remove" => e.peers[o.peer] = None /\ e.team = c.team \ {o.peer}
  /\ o.op = "teams" => e.peers = c.peers /\ e.team = o.members

LEMMA EditedFacts ==
  ASSUME NEW o, OnPlan(o), NEW c \in Yamls, o.op \in {"add", "update", "remove", "teams"},
         o.op = "update" => c.peers[o.peer] # None
  PROVE  EditedInto(o, c, Edited(o, c))
  <1>. SUFFICES ASSUME NEW e, e = Edited(o, c)
                PROVE  EditedInto(o, c, e)
    OBVIOUS
  <1>1. /\ c.peers \in [Peers -> PeerEntries \union {None}] /\ c.team \subseteq Peers
        /\ c.bearer \in Bearers /\ c.about \in Abouts /\ o.n \in Nat /\ o.members \subseteq Peers
    BY OpTypes DEF Yamls
  <1>2. o.op # "teams" => o.peer \in Peers
    BY DEF OnPlan, Shaped
  <1>3. [secret |-> o.n, about |-> Original(o.n)] \in PeerEntries
    BY <1>1, OriginalFacts DEF PeerEntries
  <1>4. ASSUME NEW entry \in PeerEntries \union {None}, NEW team \in SUBSET Peers,
               e = WithEntry(c, o.peer, entry, team), o.op # "teams"
        PROVE  /\ e \in Yamls /\ e.bearer = c.bearer /\ e.about = c.about /\ e.team = team
               /\ e.peers[o.peer] = entry
               /\ \A q \in Peers : q # o.peer => e.peers[q] = c.peers[q]
    <2>1. PICK f : f = [c.peers EXCEPT ![o.peer] = entry]
      OBVIOUS
    <2>2. f \in [Peers -> PeerEntries \union {None}] /\ f[o.peer] = entry
          /\ \A q \in Peers : q # o.peer => f[q] = c.peers[q]
      BY <1>1, <1>2, <1>4, <2>1
    <2>3. e \in Yamls /\ e.bearer = c.bearer /\ e.about = c.about /\ e.team = team /\ e.peers = f
      BY <1>1, <1>4, <2>1, <2>2 DEF Yamls, WithEntry
    <2>. QED
      BY <2>2, <2>3
  <1>5. CASE o.op = "add"
    <2>1. PICK team \in SUBSET Peers :
            team = IF o.peer \in TeamJoiners THEN c.team \union {o.peer} ELSE c.team
      BY <1>1, <1>2, <1>5
    <2>2. PICK entry : entry = [secret |-> o.n, about |-> Original(o.n)]
      OBVIOUS
    <2>3. e = WithEntry(c, o.peer, entry, team)
      BY <1>5, <2>1, <2>2 DEF Edited, Yamls, WithEntry
    <2>4. entry \in PeerEntries /\ entry.secret = o.n /\ entry.about = Original(o.n) /\ entry # None
      BY <1>3, <2>2, NoneAssumption
    <2>5. /\ e \in Yamls /\ e.bearer = c.bearer /\ e.about = c.about /\ e.team = team
          /\ e.peers[o.peer] = entry
          /\ \A q \in Peers : q # o.peer => e.peers[q] = c.peers[q]
      BY <1>4, <1>5, <2>3, <2>4
    <2>. QED
      BY <1>5, <2>1, <2>4, <2>5 DEF EditedInto
  <1>6. CASE o.op = "update"
    <2>1. PICK b \in PeerEntries : b = c.peers[o.peer]
      BY <1>1, <1>2, <1>6
    <2>2. b.about \in Abouts
      BY <2>1 DEF PeerEntries
    <2>3. PICK a \in Abouts :
            /\ a = With(b.about, o.gives, Spread(o))
            /\ \A k \in Facts : a[k] = IF k \in Spread(o) THEN o.gives[k] ELSE b.about[k]
      BY <2>2, GivenFacts, WithFacts
    <2>4. PICK entry : entry = [b EXCEPT !.about = a]
      OBVIOUS
    <2>5. PICK team \in SUBSET Peers : team = c.team
      BY <1>1
    <2>6. e = WithEntry(c, o.peer, entry, team)
      BY <1>1, <1>2, <1>6, <2>1, <2>3, <2>4, <2>5 DEF Edited, Yamls, WithEntry, PeerEntries
    <2>7. entry \in PeerEntries /\ entry.about = a /\ entry.secret = b.secret /\ entry # None
      BY <2>1, <2>4, NoneAssumption DEF PeerEntries
    <2>8. /\ e \in Yamls /\ e.bearer = c.bearer /\ e.about = c.about /\ e.team = team
          /\ e.peers[o.peer] = entry
          /\ \A q \in Peers : q # o.peer => e.peers[q] = c.peers[q]
      BY <1>4, <1>6, <2>6, <2>7
    <2>. QED
      BY <1>6, <2>1, <2>3, <2>5, <2>7, <2>8 DEF EditedInto
  <1>7. CASE o.op = "remove"
    <2>1. PICK team \in SUBSET Peers : team = c.team \ {o.peer}
      BY <1>1
    <2>2. e = WithEntry(c, o.peer, None, team)
      BY <1>7, <2>1 DEF Edited, Yamls, WithEntry
    <2>3. /\ e \in Yamls /\ e.bearer = c.bearer /\ e.about = c.about /\ e.team = team
          /\ e.peers[o.peer] = None
          /\ \A q \in Peers : q # o.peer => e.peers[q] = c.peers[q]
      BY <1>4, <1>7, <2>2
    <2>. QED
      BY <1>7, <2>1, <2>3 DEF EditedInto
  <1>8. CASE o.op = "teams"
    BY <1>1, <1>8 DEF Edited, EditedInto, Yamls
  <1>. QED
    BY <1>5, <1>6, <1>7, <1>8

LEMMA DoesTokens ==
  ASSUME TypeInv, NEW x \in Procs, NEW o, o = proc[x], Tokens(x)
  PROVE  /\ OnPlan(o) /\ o.op \in {"add", "remove"} /\ o.at = 1
         /\ tokens' \in Seq(Bearers) /\ IsInjective(tokens')
         /\ o.op = "add" => tokens' = tokens
         /\ o.op = "remove" => ToSet(tokens') = {b \in ToSet(tokens) : b[1] # o.peer}
         /\ \E o2 : /\ Becomes(x, o2) /\ Same(o, o2) /\ o2.at = 2 /\ o2.text = o.text
                    /\ o2.tokens = tokens' /\ ToSet(o2.todo) = Existing(Others(o))
  <1>1. OnPlan(o) /\ o.op \in {"add", "remove"} /\ o.at = 1
    BY AtPlan, StepPlaces DEF Tokens, OnPlan, TypeInv
  <1>. DEFINE F == {b \in ToSet(tokens) : b[1] # o.peer}
              kept == IF o.op = "remove" THEN Only(tokens, F) ELSE tokens
  <1>2. tokens \in Seq(Bearers) /\ IsInjective(tokens)
    BY StateTypes
  <1>3. /\ Only(tokens, F) \in Seq(Bearers) /\ IsInjective(Only(tokens, F))
        /\ ToSet(Only(tokens, F)) = ToSet(tokens) \intersect F
    BY <1>2, SetOfOnly
  <1>4. kept \in Seq(Bearers) /\ IsInjective(kept)
    BY <1>2, <1>3
  <1>5. /\ tokens' = kept
        /\ Becomes(x, [Stepped(o) EXCEPT !.tokens = kept, !.todo = ExistingYamls(Others(o))])
    BY DEF Tokens
  <1>6. /\ ExistingYamls(Others(o)) \in Seq(Files)
        /\ ToSet(ExistingYamls(Others(o))) = Existing(Others(o))
    BY <1>1, OpTypes, ExistingFacts DEF Existing
  <1>7. o.at < Len(Plan(o.op))
    BY <1>1, NotLast
  <1>. HIDE DEF kept
  <1>8. PICK todo \in Seq(Files) : todo = ExistingYamls(Others(o))
    BY <1>6
  <1>9. \E o2 : /\ Becomes(x, o2) /\ Same(o, o2) /\ o2.at = 2 /\ o2.text = o.text
                /\ o2.tokens = tokens' /\ ToSet(o2.todo) = Existing(Others(o))
    <2>1. PICK t \in Seq(Bearers) : t = kept
      BY <1>4
    <2>2. PICK s : s = WithBoth(Stepped(o), t, todo)
      OBVIOUS
    <2>3. Same(o, s) /\ s.at = o.at + 1 /\ s.todo = todo /\ s.tokens = t /\ s.text = o.text
      BY <1>1, <1>7, <2>2, SteppedBoth
    <2>4. Becomes(x, s)
      BY <1>5, <1>8, <2>1, <2>2 DEF WithBoth
    <2>. QED
      BY <1>1, <1>5, <1>6, <1>8, <2>1, <2>3, <2>4
  <1>10. o.op = "remove" => ToSet(kept) = ToSet(tokens) \intersect F
    BY <1>3 DEF kept
  <1>11. o.op = "add" => kept = tokens
    BY DEF kept
  <1>. QED
    BY <1>1, <1>4, <1>5, <1>9, <1>10, <1>11

\* The two copies of a peer's yaml, as WriteNew, Delete and EditOwn visit them.
LEMMA TwoCopies ==
  ASSUME NEW p \in Peers, NEW s, s = <<<<"project", p>>, <<"agent", p>>>>
  PROVE  s \in Seq(Files) /\ ToSet(s) = {<<"project", p>>, <<"agent", p>>}
  <1>1. PICK f, g : f = <<"project", p>> /\ g = <<"agent", p>>
    OBVIOUS
  <1>2. f \in Files /\ g \in Files
    BY <1>1 DEF Files, Dirs
  <1>3. <<f, g>> \in Seq(Files) /\ ToSet(<<f, g>>) = {f, g}
    BY <1>2, SetOfPair
  <1>. QED
    BY <1>1, <1>3

LEMMA DoesList ==
  ASSUME TypeInv, NEW x \in Procs, NEW o, o = proc[x], List(x)
  PROVE  /\ OnPlan(o) /\ o.op = "update" /\ o.at = 2
         /\ \E o2 : /\ Becomes(x, o2) /\ Same(o, o2) /\ o2.at = 3 /\ o2.text = o.text
                    /\ o2.tokens = o.tokens /\ ToSet(o2.todo) = Existing(Others(o))
  <1>1. OnPlan(o) /\ o.op = "update" /\ o.at = 2
    BY AtPlan, StepPlaces DEF List, OnPlan, TypeInv
  <1>2. PICK todo \in Seq(Files) :
          todo = ExistingYamls(Others(o)) /\ ToSet(todo) = Existing(Others(o))
    BY <1>1, OpTypes, ExistingFacts DEF Existing
  <1>3. PICK s : s = WithTodo(Stepped(o), todo)
    OBVIOUS
  <1>4. Same(o, s) /\ s.at = o.at + 1 /\ s.todo = todo /\ s.tokens = o.tokens /\ s.text = o.text
    <2>1. o.at < Len(Plan(o.op))
      BY <1>1, NotLast
    <2>. QED
      BY <1>1, <1>3, <2>1, SteppedTodo
  <1>5. Becomes(x, s)
    BY <1>2, <1>3 DEF List, WithTodo
  <1>. QED
    BY <1>1, <1>2, <1>4, <1>5

\* One file of a loop has been visited.
Loops(o, o2, f) ==
  /\ f \in Files /\ Same(o, o2) /\ o2.at = o.at /\ o2.tokens = o.tokens
  /\ ToSet(o.todo) = ToSet(o2.todo) \union {f}

LEMMA WrittenYaml ==
  ASSUME TypeInv, NEW f \in Files, NEW c \in Yamls, WriteYaml(f, c)
  PROVE  /\ yaml' = [yaml EXCEPT ![f] = c] /\ yaml' \in [Files -> Yamls \union {None}]
         /\ DOMAIN daemon' = Peers /\ \A p \in Peers \ Daemons : daemon'[p] = None
  BY DEF TypeInv, TypeOK, WriteYaml, Files

LEMMA DoesEditYaml ==
  ASSUME TypeInv, NEW x \in Procs, NEW o, o = proc[x], EditYaml(x)
  PROVE  /\ OnPlan(o)
         /\ \/ o.op \in {"add", "remove"} /\ o.at = 2
            \/ o.op = "update" /\ o.at = 3
            \/ o.op = "teams" /\ o.at = 1
         /\ \/ /\ Becomes(x, None) /\ UNCHANGED <<yaml, daemon>>
               /\ cut' = cut \union Changes(o) /\ warned' = (warned \/ o.op = "remove")
            \/ \E f \in Files : \E o2 :
                 /\ Becomes(x, o2) /\ Loops(o, o2, f) /\ o2.text = o.text
                 /\ UNCHANGED <<cut, warned>> /\ yaml[f] # None
                 /\ \/ /\ o.op = "update" /\ yaml[f].peers[o.peer] = None
                       /\ UNCHANGED <<yaml, daemon>>
                    \/ /\ o.op = "update" => yaml[f].peers[o.peer] # None
                       /\ WriteYaml(f, Edited(o, yaml[f]))
         /\ warned' \in BOOLEAN
  <1>1. /\ OnPlan(o)
        /\ \/ o.op \in {"add", "remove"} /\ o.at = 2
           \/ o.op = "update" /\ o.at = 3
           \/ o.op = "teams" /\ o.at = 1
    BY AtPlan, StepPlaces DEF EditYaml, OnPlan, TypeInv
  <1>2. o.todo # <<>> /\ warned \in BOOLEAN /\ (o.op = "update" => o.peer \in Peers)
    BY <1>1 DEF EditYaml, TypeInv, TypeOK, OnPlan, Shaped
  <1>3. PICK f : f = Head(o.todo)
    OBVIOUS
  <1>4. Loops(o, Visited(o), f) /\ Visited(o).text = o.text /\ f \in Files
    BY <1>1, <1>2, <1>3, VisitedFacts DEF Loops
  <1>5. CASE yaml[f] = None
    BY <1>1, <1>2, <1>3, <1>5 DEF EditYaml
  <1>6. CASE yaml[f] # None
    <2>1. /\ Becomes(x, Visited(o)) /\ UNCHANGED <<cut, warned>>
          /\ IF o.op = "update" /\ o.peer \notin Named(yaml[f].peers)
             THEN UNCHANGED <<yaml, daemon>> ELSE WriteYaml(f, Edited(o, yaml[f]))
      BY <1>3, <1>6 DEF EditYaml
    <2>2. o.op = "update" => (o.peer \notin Named(yaml[f].peers) <=> yaml[f].peers[o.peer] = None)
      BY <1>2 DEF Named
    <2>3. \/ /\ o.op = "update" /\ yaml[f].peers[o.peer] = None
             /\ UNCHANGED <<yaml, daemon>>
          \/ /\ o.op = "update" => yaml[f].peers[o.peer] # None
             /\ WriteYaml(f, Edited(o, yaml[f]))
      BY <2>1, <2>2
    <2>4. warned' \in BOOLEAN
      BY <1>2, <2>1
    <2>. QED
      BY <1>1, <1>4, <1>6, <2>1, <2>3, <2>4
  <1>. QED
    BY <1>5, <1>6

\* A peer's own yaml says what is given.
Renamed(o, b, c) ==
  /\ c.bearer = b.bearer /\ c.peers = b.peers /\ c.team = b.team
  /\ \A k \in Facts : c.about[k] = IF k \in Given(o) THEN o.gives[k] ELSE b.about[k]

LEMMA DoesEditOwn ==
  ASSUME TypeInv, NEW x \in Procs, NEW o, o = proc[x], EditOwn(x)
  PROVE  /\ OnPlan(o) /\ o.op \in {"update", "dirs"} /\ o.at = 1
         /\ \E f \in Files : \E o2 :
              /\ Becomes(x, o2) /\ Loops(o, o2, f)
              /\ \/ yaml[f] = None /\ UNCHANGED <<yaml, daemon>> /\ o2.text = o.text
                 \/ \E c \in Yamls : yaml[f] # None /\ WriteYaml(f, c) /\ Renamed(o, yaml[f], c)
  <1>1. OnPlan(o) /\ o.op \in {"update", "dirs"} /\ o.at = 1 /\ o.n \in Nat
    BY AtPlan, StepPlaces, OpTypes DEF EditOwn, OnPlan, TypeInv
  <1>2. o.todo # <<>>
    BY DEF EditOwn
  <1>3. PICK f : f = Head(o.todo)
    OBVIOUS
  <1>4. Loops(o, Visited(o), f) /\ Visited(o).text = o.text /\ f \in Files
    BY <1>1, <1>2, <1>3, VisitedFacts DEF Loops
  <1>5. CASE yaml[f] = None
    <2>1. Becomes(x, Visited(o)) /\ UNCHANGED <<yaml, daemon>>
      BY <1>3, <1>5 DEF EditOwn
    <2>. QED
      BY <1>1, <1>4, <1>5, <2>1
  <1>6. CASE yaml[f] # None
    <2>1. PICK b \in Yamls : b = yaml[f]
      BY <1>4, <1>6, YamlType
    <2>2. PICK a \in Abouts :
            /\ a = With(b.about, o.gives, Given(o))
            /\ \A k \in Facts : a[k] = IF k \in Given(o) THEN o.gives[k] ELSE b.about[k]
      <3>1. b.about \in Abouts
        BY <2>1 DEF Yamls
      <3>. QED
        BY <1>1, <3>1, GivenFacts, WithFacts
    <2>3. PICK c : c = [b EXCEPT !.about = a]
      OBVIOUS
    <2>4. c \in Yamls /\ Renamed(o, b, c)
      BY <2>1, <2>2, <2>3 DEF Yamls, Renamed
    <2>5. c = [yaml[f] EXCEPT !.about = With(@, o.gives, Given(o))]
      BY <2>1, <2>2, <2>3 DEF Yamls
    <2>6. PICK v : v = WithFirst(Visited(o), c)
      OBVIOUS
    <2>7. WriteYaml(f, c) /\ Becomes(x, v)
      BY <1>3, <1>6, <2>5, <2>6 DEF EditOwn, WithFirst
    <2>8. Loops(o, v, f)
      BY <1>1, <1>2, <1>4, <2>4, <2>6, VisitedText, VisitedFacts DEF Loops
    <2>. QED
      BY <1>1, <1>4, <1>6, <2>1, <2>4, <2>7, <2>8
  <1>. QED
    BY <1>5, <1>6

\* The team of the new yaml is the one of some other yaml.
LEMMA CombinedTeamFacts ==
  ASSUME TypeInv, NEW o, OnPlan(o)
  PROVE  \E base :
           /\ CombinedTeam(o) = IF o.peer \in TeamJoiners THEN base \union {o.peer} ELSE base
           /\ \/ base = {} /\ \A f \in Existing(Others(o)) : yaml[f].team = {}
              \/ \E f \in Existing(Others(o)) : base = yaml[f].team
  <1>1. Others(o) \subseteq Peers
    BY OpTypes
  <1>2. PICK named : named = Only(ExistingYamls(Others(o)), {f \in Files : yaml[f] # None /\ yaml[f].team # {}})
    OBVIOUS
  <1>3. /\ named \in Seq(Files)
        /\ ToSet(named) = Existing(Others(o))
                            \intersect {f \in Files : yaml[f] # None /\ yaml[f].team # {}}
    BY <1>1, <1>2, ExistingFacts, SetOfOnly DEF Existing
  <1>4. \A f : f \in ToSet(named) <=> f \in Existing(Others(o)) /\ yaml[f].team # {}
    BY <1>1, <1>3 DEF Existing, Files
  <1>5. PICK base : base = IF named = <<>> THEN {} ELSE yaml[Head(named)].team
    OBVIOUS
  <1>6. CombinedTeam(o) = IF o.peer \in TeamJoiners THEN base \union {o.peer} ELSE base
    BY <1>2, <1>5 DEF CombinedTeam
  <1>7. CASE named = <<>>
    <2>1. ToSet(named) = {}
      BY <1>7, SetOfEmpty
    <2>. QED
      BY <1>4, <1>5, <1>6, <1>7, <2>1
  <1>8. CASE named # <<>>
    <2>1. Head(named) \in ToSet(named)
      BY <1>3, <1>8, SetOfTail
    <2>. QED
      BY <1>4, <1>5, <1>6, <1>8, <2>1
  <1>. QED
    BY <1>7, <1>8

\* The peers that the yaml of a new peer names.
NewPeers(o) ==
  [q \in Peers |-> IF q \in Others(o) THEN [secret |-> o.n, about |-> o.setup[q].about] ELSE None]

\* The yaml of a peer that is added.
LEMMA DoesBuild ==
  ASSUME TypeInv, NEW x \in Procs, NEW o, o = proc[x], Build(x)
  PROVE  /\ OnPlan(o) /\ o.op = "add" /\ o.at = 3
         /\ \E o2 :
              /\ Becomes(x, o2) /\ Same(o, o2) /\ o2.at = 4 /\ o2.tokens = o.tokens
              /\ ToSet(o2.todo) = {<<"project", o.peer>>, <<"agent", o.peer>>}
              /\ o2.text \in Yamls /\ o2.text.bearer = <<o.peer, o.n>> /\ o2.text.about = Original(o.n)
              /\ o2.text.team = CombinedTeam(o)
              /\ o2.text.peers = NewPeers(o)
  <1>1. OnPlan(o) /\ o.op = "add" /\ o.at = 3
    BY AtPlan, StepPlaces DEF Build, OnPlan, TypeInv
  <1>2. /\ o.n \in Nat /\ o.peer \in Peers /\ o.setup \in Setups
        /\ Others(o) \subseteq Peers
    BY <1>1, OpTypes DEF OnPlan, Shaped
  <1>3. CombinedTeam(o) \subseteq Peers
    <2>1. \A f \in Existing(Others(o)) : yaml[f].team \subseteq Peers
      BY <1>2, YamlType DEF Existing, Files
    <2>. QED
      BY <1>1, <1>2, <2>1, CombinedTeamFacts
  <1>4. PICK e : e = NewPeers(o)
    OBVIOUS
  <1>5. e \in [Peers -> PeerEntries \union {None}]
    <2>1. ASSUME NEW q \in Others(o) PROVE [secret |-> o.n, about |-> o.setup[q].about] \in PeerEntries
      <3>1. o.setup[q] \in SetupEntries
        BY <1>2 DEF Others, Named, Setups
      <3>. QED
        BY <1>2, <3>1 DEF SetupEntries, PeerEntries
    <2>. QED
      BY <1>4, <2>1 DEF NewPeers
  <1>6. PICK text : text = [bearer |-> <<o.peer, o.n>>, about |-> Original(o.n), team |-> CombinedTeam(o),
                            peers |-> e]
    OBVIOUS
  <1>7. text \in Yamls
    BY <1>2, <1>3, <1>5, <1>6, OriginalFacts DEF Yamls, Bearers
  <1>8. PICK todo : todo = <<<<"project", o.peer>>, <<"agent", o.peer>>>>
    OBVIOUS
  <1>9. todo \in Seq(Files) /\ ToSet(todo) = {<<"project", o.peer>>, <<"agent", o.peer>>}
    BY <1>2, <1>8, TwoCopies
  <1>10. PICK s : s = WithText(Stepped(o), text, todo)
    OBVIOUS
  <1>11. Same(o, s) /\ s.at = o.at + 1 /\ s.todo = todo /\ s.tokens = o.tokens /\ s.text = text
    <2>1. o.at < Len(Plan(o.op))
      BY <1>1, NotLast
    <2>. QED
      BY <1>1, <1>7, <1>9, <1>10, <2>1, SteppedText
  <1>12. Becomes(x, s)
    BY <1>4, <1>6, <1>8, <1>10 DEF Build, WithText, NewPeers
  <1>13. /\ text.bearer = <<o.peer, o.n>> /\ text.about = Original(o.n) /\ text.team = CombinedTeam(o)
         /\ text.peers = e
    BY <1>6
  <1>14. /\ Becomes(x, s) /\ Same(o, s) /\ s.at = 4 /\ s.tokens = o.tokens
         /\ ToSet(s.todo) = {<<"project", o.peer>>, <<"agent", o.peer>>}
         /\ s.text \in Yamls /\ s.text.bearer = <<o.peer, o.n>> /\ s.text.about = Original(o.n)
         /\ s.text.team = CombinedTeam(o) /\ s.text.peers = e
    BY <1>1, <1>7, <1>9, <1>11, <1>12, <1>13
  <1>. QED
    BY <1>1, <1>4, <1>14, Zenon

LEMMA FormYamlType ==
  ASSUME NEW p \in Peers, NEW n \in Nat
  PROVE  FormYaml(p, n) \in Yamls /\ FormEntry(p, n) \in SetupEntries
  <1>1. Original(n) \in Abouts /\ [secret |-> n, about |-> Original(n)] \in PeerEntries
    BY OriginalFacts DEF PeerEntries
  <1>2. /\ <<p, n>> \in Bearers /\ Founders \intersect TeamJoiners \subseteq Peers
        /\ [q \in Peers |-> IF q \in Founders \ {p} THEN [secret |-> n, about |-> Original(n)] ELSE None]
              \in [Peers -> PeerEntries \union {None}]
    BY <1>1 DEF Bearers, Peers
  <1>3. FormYaml(p, n) \in Yamls
    BY <1>1, <1>2 DEF FormYaml, Yamls
  <1>. QED
    BY <1>1, <1>2, <1>3 DEF FormEntry, SetupEntries

LEMMA DoesWriteNew ==
  ASSUME TypeInv, NEW x \in Procs, NEW o, o = proc[x], WriteNew(x)
  PROVE  /\ OnPlan(o) /\ ((o.op = "submit" /\ o.at = 2) \/ (o.op = "add" /\ o.at = 4))
         /\ \E f \in Files, c \in Yamls : \E o2 :
              /\ Becomes(x, o2) /\ Loops(o, o2, f) /\ o2.text = o.text /\ f \in ToSet(o.todo)
              /\ WriteYaml(f, c)
              /\ c = IF o.op = "submit" THEN FormYaml(f[2], o.n) ELSE o.text
  <1>1. OnPlan(o) /\ ((o.op = "submit" /\ o.at = 2) \/ (o.op = "add" /\ o.at = 4)) /\ o.n \in Nat
    BY AtPlan, StepPlaces, OpTypes DEF WriteNew, OnPlan, TypeInv
  <1>2. o.todo # <<>>
    BY DEF WriteNew
  <1>3. PICK f : f = Head(o.todo)
    OBVIOUS
  <1>4. /\ Loops(o, Visited(o), f) /\ Visited(o).text = o.text /\ f \in Files
        /\ f \in ToSet(o.todo)
    BY <1>1, <1>2, <1>3, VisitedFacts DEF Loops
  <1>5. PICK c : c = IF o.op = "submit" THEN FormYaml(f[2], o.n) ELSE o.text
    OBVIOUS
  <1>6. c \in Yamls
    <2>1. f[2] \in Peers
      BY <1>4 DEF Files
    <2>2. o.op = "add" => o.text \in Yamls
      BY <1>1, OpTypes DEF OnPlan, Shaped
    <2>. QED
      BY <1>1, <1>5, <2>1, <2>2, FormYamlType
  <1>7. WriteYaml(f, c) /\ Becomes(x, Visited(o))
    BY <1>3, <1>5 DEF WriteNew
  <1>. QED
    BY <1>1, <1>4, <1>5, <1>6, <1>7, Zenon

\* The operation goes on with the tokens.json that it has written.
WroteTokens(x, o, o2) ==
  /\ Becomes(x, o2) /\ Same(o, o2) /\ o2.at = 6 /\ o2.text = o.text
  /\ o2.todo = o.todo /\ o2.tokens = tokens'

LEMMA DoesSaveTokens ==
  ASSUME TypeInv, NEW x \in Procs, NEW o, o = proc[x], SaveTokens(x)
  PROVE  /\ OnPlan(o) /\ o.op = "add" /\ o.at = 5 /\ <<o.peer, o.n>> \in Bearers
         /\ \E o2 : WroteTokens(x, o, o2)
         /\ tokens' \in Seq(Bearers) /\ IsInjective(tokens') /\ tokens' # <<>>
         /\ ToSet(tokens') = ToSet(o.tokens) \union {<<o.peer, o.n>>}
         /\ o.tokens # <<>> => Head(tokens') = Head(o.tokens)
  <1>1. OnPlan(o) /\ o.op = "add" /\ o.at = 5 /\ o.n \in Nat /\ o.tokens \in Seq(Bearers)
    BY AtPlan, StepPlaces, OpTypes DEF SaveTokens, OnPlan, TypeInv
  <1>2. <<o.peer, o.n>> \in Bearers
    BY <1>1 DEF OnPlan, Shaped, Bearers
  <1>3. PICK t : t = Append(o.tokens, <<o.peer, o.n>>)
    OBVIOUS
  <1>4. /\ t \in Seq(Bearers) /\ t # <<>> /\ ToSet(t) = ToSet(o.tokens) \union {<<o.peer, o.n>>}
        /\ IsInjective(o.tokens) /\ <<o.peer, o.n>> \notin ToSet(o.tokens) => IsInjective(t)
        /\ o.tokens # <<>> => Head(t) = Head(o.tokens)
    <2>1. PICK e \in Bearers : e = <<o.peer, o.n>>
      BY <1>2
    <2>2. PICK s \in Seq(Bearers) : s = o.tokens
      BY <1>1
    <2>3. /\ Append(s, e) \in Seq(Bearers) /\ Append(s, e) # <<>>
          /\ ToSet(Append(s, e)) = ToSet(s) \union {e}
          /\ IsInjective(s) /\ e \notin ToSet(s) => IsInjective(Append(s, e))
          /\ s # <<>> => Head(Append(s, e)) = Head(s)
      BY SetOfAppend
    <2>4. t = Append(s, e)
      BY <1>3, <2>1, <2>2
    <2>. QED
      BY <2>1, <2>2, <2>3, <2>4
  <1>5. o # None /\ IsInjective(o.tokens) /\ \A b \in ToSet(o.tokens) : b[2] # o.n
    BY <1>1, OpTypes DEF TypeInv, Numbered
  <1>6. <<o.peer, o.n>> \notin ToSet(o.tokens)
    BY <1>5
  <1>7. PICK s : s = WithTokens(Stepped(o), t)
    OBVIOUS
  <1>8. Same(o, s) /\ s.at = o.at + 1 /\ s.todo = o.todo /\ s.tokens = t /\ s.text = o.text
    <2>1. o.at < Len(Plan(o.op))
      BY <1>1, NotLast
    <2>. QED
      BY <1>1, <1>4, <1>7, <2>1, SteppedTokens
  <1>9. Becomes(x, s) /\ tokens' = t
    BY <1>3, <1>7 DEF SaveTokens, WithTokens
  <1>10. WroteTokens(x, o, s)
    BY <1>1, <1>8, <1>9 DEF WroteTokens
  <1>. QED
    BY <1>1, <1>2, <1>4, <1>5, <1>6, <1>9, <1>10

\* A plain step of a plan that is not its last.
Advances(x, o) ==
  /\ Becomes(x, Stepped(o)) /\ Same(o, Stepped(o)) /\ Stepped(o).at = o.at + 1
  /\ Stepped(o).todo = o.todo /\ Stepped(o).tokens = o.tokens /\ Stepped(o).text = o.text

\* setup.json says something else of one peer, or nothing.
Relisted(s, s2, p, e) == s2[p] = e /\ \A q \in Peers : q # p => s2[q] = s[q]

LEMMA DoesSaveSetup ==
  ASSUME TypeInv, NEW x \in Procs, NEW o, o = proc[x], SaveSetup(x)
  PROVE  /\ OnPlan(o) /\ Advances(x, o)
         /\ \/ (o.op = "add" /\ o.at = 6) \/ (o.op = "remove" /\ o.at = 3)
            \/ (o.op = "update" /\ o.at = 4) \/ (o.op = "dirs" /\ o.at = 2)
         /\ o.setup \in Setups /\ o.peer \in Peers
         /\ \E e \in SetupEntries \union {None} :
              /\ Relisted(o.setup, setup', o.peer, e)
              /\ o.op = "add" => e # None /\ e.bearer = <<o.peer, o.n>> /\ e.about = Original(o.n)
              /\ o.op = "remove" => e = None
              /\ o.op \in {"update", "dirs"} =>
                   /\ e # None /\ e.bearer = o.setup[o.peer].bearer
                   /\ \A k \in Facts : e.about[k] = IF k \in Given(o) THEN o.gives[k]
                                                     ELSE o.setup[o.peer].about[k]
         /\ setup' \in Setups
         /\ cut' = cut \/ cut' = cut \ Changes(o)
  <1>1. /\ OnPlan(o)
        /\ \/ (o.op = "add" /\ o.at = 6) \/ (o.op = "remove" /\ o.at = 3)
           \/ (o.op = "update" /\ o.at = 4) \/ (o.op = "dirs" /\ o.at = 2)
    BY AtPlan, StepPlaces, OpTypes DEF SaveSetup, OnPlan, TypeInv
  <1>2. Advances(x, o)
    <2>1. o.at < Len(Plan(o.op))
      BY <1>1, NotLast
    <2>2. Becomes(x, Stepped(o))
      BY DEF SaveSetup
    <2>. QED
      BY <1>1, <2>1, <2>2, SteppedFacts DEF Advances
  <1>3. /\ o.setup \in Setups /\ o.peer \in Peers /\ o.n \in Nat /\ o.text \in Yamls \union {None}
        /\ o.op = "add" => o.text \in Yamls
    BY <1>1, OpTypes DEF OnPlan, Shaped
  <1>4. setup' = Saved(o) /\ (cut' = cut \/ cut' = cut \ Changes(o))
    BY DEF SaveSetup, MadeGood
  <1>5. ASSUME NEW e \in SetupEntries \union {None}, setup' = [o.setup EXCEPT ![o.peer] = e]
        PROVE  setup' \in Setups /\ Relisted(o.setup, setup', o.peer, e)
    BY <1>3, <1>5 DEF Setups, Relisted
  <1>6. CASE o.op = "add"
    <2>1. PICK e : e = [bearer |-> <<o.peer, o.n>>, about |-> Original(o.n), text |-> o.text]
      OBVIOUS
    <2>2. e \in SetupEntries /\ e.bearer = <<o.peer, o.n>> /\ e.about = Original(o.n)
      BY <1>3, <1>6, <2>1, OriginalFacts DEF SetupEntries, Bearers
    <2>3. setup' = [o.setup EXCEPT ![o.peer] = e]
      BY <1>4, <1>6, <2>1 DEF Saved
    <2>. QED
      BY <1>1, <1>2, <1>3, <1>4, <1>5, <1>6, <2>2, <2>3, NoneAssumption
  <1>7. CASE o.op = "remove"
    <2>1. setup' = [o.setup EXCEPT ![o.peer] = None]
      BY <1>4, <1>7 DEF Saved
    <2>. QED
      BY <1>1, <1>2, <1>3, <1>4, <1>5, <1>7, <2>1
  <1>8. CASE o.op \in {"update", "dirs"}
    <2>1. PICK c \in SetupEntries : c = o.setup[o.peer]
      BY <1>1, <1>3, <1>8 DEF OnPlan, Shaped, Setups
    <2>2. PICK a \in Abouts :
            /\ a = With(c.about, o.gives, Given(o))
            /\ \A k \in Facts : a[k] = IF k \in Given(o) THEN o.gives[k] ELSE c.about[k]
      <3>1. c.about \in Abouts
        BY <2>1 DEF SetupEntries
      <3>. QED
        BY <1>1, <3>1, GivenFacts, WithFacts
    <2>3. PICK text \in Yamls : text = IF o.text = None THEN c.text ELSE o.text
      BY <1>3, <2>1 DEF SetupEntries
    <2>4. PICK e : e = [c EXCEPT !.about = a, !.text = text]
      OBVIOUS
    <2>5. e \in SetupEntries /\ e.bearer = c.bearer /\ e.about = a
      BY <2>1, <2>2, <2>3, <2>4 DEF SetupEntries
    <2>6. setup' = [o.setup EXCEPT ![o.peer] = e]
      BY <1>3, <1>4, <1>8, <2>1, <2>2, <2>3, <2>4 DEF Saved, Setups, SetupEntries
    <2>7. /\ e # None /\ e \in SetupEntries \union {None}
          /\ setup' \in Setups /\ Relisted(o.setup, setup', o.peer, e)
      BY <1>5, <2>5, <2>6, NoneAssumption
    <2>8. /\ e.bearer = o.setup[o.peer].bearer
          /\ \A k \in Facts : e.about[k] = IF k \in Given(o) THEN o.gives[k]
                                            ELSE o.setup[o.peer].about[k]
      BY <2>1, <2>2, <2>5
    <2>. QED
      BY <1>1, <1>2, <1>3, <1>4, <1>8, <2>7, <2>8
  <1>. QED
    BY <1>1, <1>6, <1>7, <1>8

LEMMA DoesKill ==
  ASSUME TypeInv, NEW x \in Procs, NEW o, o = proc[x], Kill(x)
  PROVE  /\ OnPlan(o) /\ o.op = "remove" /\ o.at = 4
         /\ \E o2 : /\ Becomes(x, o2) /\ Same(o, o2) /\ o2.at = 5 /\ o2.text = o.text
                    /\ o2.tokens = o.tokens
                    /\ ToSet(o2.todo) = {<<"project", o.peer>>, <<"agent", o.peer>>}
         /\ DOMAIN daemon' = Peers /\ \A p \in Peers \ Daemons : daemon'[p] = None
  <1>1. OnPlan(o) /\ o.op = "remove" /\ o.at = 4
    BY AtPlan, StepPlaces, OpTypes DEF Kill, OnPlan, TypeInv
  <1>2. o.peer \in Peers
    BY <1>1 DEF OnPlan, Shaped
  <1>3. PICK todo : todo = <<<<"project", o.peer>>, <<"agent", o.peer>>>>
    OBVIOUS
  <1>4. todo \in Seq(Files) /\ ToSet(todo) = {<<"project", o.peer>>, <<"agent", o.peer>>}
    BY <1>2, <1>3, TwoCopies
  <1>5. PICK s : s = WithTodo(Stepped(o), todo)
    OBVIOUS
  <1>6. Same(o, s) /\ s.at = o.at + 1 /\ s.todo = todo /\ s.tokens = o.tokens /\ s.text = o.text
    <2>1. o.at < Len(Plan(o.op))
      BY <1>1, NotLast
    <2>. QED
      BY <1>1, <1>4, <1>5, <2>1, SteppedTodo
  <1>7. Becomes(x, s)
    BY <1>3, <1>5 DEF Kill, WithTodo
  <1>8. DOMAIN daemon' = Peers /\ \A p \in Peers \ Daemons : daemon'[p] = None
    <2>1. \/ daemon' = [daemon EXCEPT ![o.peer] = None]
          \/ daemon' = daemon
          \/ daemon' = [daemon EXCEPT ![o.peer].spared = TRUE] /\ daemon[o.peer] # None
      BY DEF Kill
    <2>2. o.peer \in Peers /\ (daemon[o.peer] # None => o.peer \in Daemons)
      BY <1>2 DEF TypeInv, TypeOK
    <2>. QED
      BY <2>1, <2>2 DEF TypeInv, TypeOK
  <1>. QED
    BY <1>1, <1>4, <1>6, <1>7, <1>8

LEMMA DoesDelete ==
  ASSUME TypeInv, NEW x \in Procs, NEW o, o = proc[x], Delete(x)
  PROVE  /\ OnPlan(o) /\ o.op = "remove" /\ o.at = 5
         /\ \E f \in Files : \E o2 :
              /\ Becomes(x, o2) /\ Loops(o, o2, f) /\ o2.text = o.text /\ f \in ToSet(o.todo)
              /\ yaml' = [yaml EXCEPT ![f] = None]
  <1>1. OnPlan(o) /\ o.op = "remove" /\ o.at = 5
    BY AtPlan, StepPlaces, OpTypes DEF Delete, OnPlan, TypeInv
  <1>2. o.todo # <<>>
    BY DEF Delete
  <1>3. PICK f : f = Head(o.todo)
    OBVIOUS
  <1>4. /\ Loops(o, Visited(o), f) /\ Visited(o).text = o.text /\ f \in Files
        /\ f \in ToSet(o.todo)
    BY <1>1, <1>2, <1>3, VisitedFacts DEF Loops
  <1>5. yaml' = [yaml EXCEPT ![f] = None] /\ Becomes(x, Visited(o))
    BY <1>3 DEF Delete
  <1>. QED
    BY <1>1, <1>4, <1>5

LEMMA DoesEndOfLoop ==
  ASSUME TypeInv, NEW x \in Procs, NEW o, o = proc[x], EndOfLoop(x)
  PROVE  /\ OnPlan(o) /\ o.todo = <<>>
         /\ \/ o.op \in {"add", "remove"} /\ o.at = 2
            \/ o.op = "update" /\ o.at = 3
            \/ o.op = "teams" /\ o.at = 1
            \/ o.op \in {"update", "dirs"} /\ o.at = 1
            \/ o.op = "submit" /\ o.at = 2
            \/ o.op = "add" /\ o.at = 4
            \/ o.op = "remove" /\ o.at = 5
         /\ o.op = "teams" => Becomes(x, None)
         /\ o.op # "teams" => Advances(x, o)
         /\ cut' = cut \/ cut' = cut \ Changes(o)
  <1>1. PICK loop \in {"edit", "own", "write", "delete"} : At(x, loop)
    BY DEF EndOfLoop
  <1>2. /\ OnPlan(o)
        /\ \/ o.op \in {"add", "remove"} /\ o.at = 2
           \/ o.op = "update" /\ o.at = 3
           \/ o.op = "teams" /\ o.at = 1
           \/ o.op \in {"update", "dirs"} /\ o.at = 1
           \/ o.op = "submit" /\ o.at = 2
           \/ o.op = "add" /\ o.at = 4
           \/ o.op = "remove" /\ o.at = 5
    BY <1>1, AtPlan, StepPlaces DEF OnPlan, TypeInv
  <1>3. o.todo = <<>> /\ Becomes(x, Stepped(o)) /\ (cut' = cut \/ cut' = cut \ Changes(o))
    BY DEF EndOfLoop, MadeGood
  <1>4. CASE o.op = "teams"
    <2>1. o.at = Len(Plan(o.op))
      BY <1>2, <1>4, PlanLength
    <2>. QED
      BY <1>2, <1>3, <1>4, <2>1, SteppedFacts
  <1>5. CASE o.op # "teams"
    <2>1. o.at < Len(Plan(o.op))
      BY <1>2, <1>5, NotLast
    <2>. QED
      BY <1>2, <1>3, <1>5, <2>1, SteppedFacts DEF Advances
  <1>. QED
    BY <1>4, <1>5

LEMMA DoesReload ==
  ASSUME TypeInv, NEW x \in Procs, NEW o, o = proc[x], ReloadRelay(x)
  PROVE  /\ OnPlan(o) /\ ((o.op = "add" /\ o.at = 7) \/ (o.op = "remove" /\ o.at = 6))
         /\ Advances(x, o)
  <1>1. OnPlan(o) /\ ((o.op = "add" /\ o.at = 7) \/ (o.op = "remove" /\ o.at = 6))
    BY AtPlan, StepPlaces DEF ReloadRelay, OnPlan, TypeInv
  <1>2. o.at < Len(Plan(o.op))
    BY <1>1, NotLast
  <1>3. Becomes(x, Stepped(o))
    BY DEF ReloadRelay
  <1>. QED
    BY <1>1, <1>2, <1>3, SteppedFacts DEF Advances

LEMMA DoesRefresh ==
  ASSUME TypeInv, NEW x \in Procs, NEW o, o = proc[x], Refresh(x)
  PROVE  /\ OnPlan(o) /\ Becomes(x, None)
         /\ \/ (o.op = "add" /\ o.at = 8) \/ (o.op = "remove" /\ o.at = 7)
            \/ (o.op = "update" /\ o.at = 5) \/ (o.op = "dirs" /\ o.at = 3)
         /\ \/ server' = [server EXCEPT !.peers = setup] /\ UNCHANGED relay
            \/ server.up /\ LoadSetups
            \/ UNCHANGED <<server, relay>>
  <1>1. /\ OnPlan(o)
        /\ \/ (o.op = "add" /\ o.at = 8) \/ (o.op = "remove" /\ o.at = 7)
           \/ (o.op = "update" /\ o.at = 5) \/ (o.op = "dirs" /\ o.at = 3)
    BY AtPlan, StepPlaces DEF Refresh, OnPlan, TypeInv
  <1>2. o.at = Len(Plan(o.op))
    BY <1>1, PlanLength
  <1>3. Becomes(x, Stepped(o))
    BY DEF Refresh
  <1>4. \/ server' = [server EXCEPT !.peers = setup] /\ UNCHANGED relay
        \/ server.up /\ LoadSetups
        \/ UNCHANGED <<server, relay>>
    BY DEF Refresh, RefreshSetup, AdminReload
  <1>. QED
    BY <1>1, <1>2, <1>3, <1>4, SteppedFacts

LEMMA DoesFormTokens ==
  ASSUME TypeInv, NEW x \in Procs, NEW o, o = proc[x], FormTokens(x)
  PROVE  /\ OnPlan(o) /\ o.op = "submit" /\ o.at = 1
         /\ \E o2 : /\ Becomes(x, o2) /\ Same(o, o2) /\ o2.at = 2 /\ o2.text = o.text
                    /\ o2.tokens = o.tokens /\ ToSet(o2.todo) = {"project"} \X Founders
         /\ tokens' \in Seq(Bearers) /\ IsInjective(tokens')
         /\ ToSet(tokens') = Founders \X {o.n}
         /\ yaml' = [f \in Files |-> None]
  <1>1. OnPlan(o) /\ o.op = "submit" /\ o.at = 1 /\ o.n \in Nat
    BY AtPlan, StepPlaces, OpTypes DEF FormTokens, OnPlan, TypeInv
  <1>2. PICK s : s = SetToSeq(Founders)
    OBVIOUS
  <1>3. PICK m \in Nat : m = Cardinality(Founders)
    BY PeersAssumption, SetToSeqFacts
  <1>4. /\ s \in Seq(Founders) /\ Len(s) = m /\ s \in [1..m -> Founders]
        /\ IsInjective(s) /\ ToSet(s) = Founders
    BY <1>2, <1>3, PeersAssumption, SetToSeqFacts
  <1>5. PICK t : t = [i \in 1..m |-> <<s[i], o.n>>]
    OBVIOUS
  <1>6. tokens' = t /\ yaml' = [f \in Files |-> None]
    BY <1>2, <1>3, <1>5 DEF FormTokens
  <1>7. t \in Seq(Bearers) /\ Len(t) = m
    BY <1>1, <1>4, <1>5 DEF Bearers, Peers
  <1>8. IsInjective(t)
    BY <1>4, <1>5 DEF IsInjective
  <1>9. ToSet(t) = Founders \X {o.n}
    <2>1. \A b : b \in ToSet(t) <=> \E i \in 1..m : t[i] = b
      BY <1>7, SetOf
    <2>2. \A p : p \in Founders <=> \E i \in 1..m : s[i] = p
      BY <1>4, SetOf
    <2>. QED
      BY <1>5, <2>1, <2>2
  <1>10. PICK todo : todo = SetToSeq({"project"} \X Founders)
    OBVIOUS
  <1>11. IsFiniteSet({"project"} \X Founders)
    BY PeersAssumption, FS_Product, FS_Singleton
  <1>12. todo \in Seq({"project"} \X Founders) /\ ToSet(todo) = {"project"} \X Founders
    BY <1>10, <1>11, SetToSeqFacts
  <1>13. todo \in Seq(Files)
    <2>1. {"project"} \X Founders \subseteq Files
      BY DEF Files, Dirs, Peers
    <2>. QED
      BY <1>12, <2>1, SeqMonotonic
  <1>14. PICK r : r = WithTodo(Stepped(o), todo)
    OBVIOUS
  <1>15. Same(o, r) /\ r.at = o.at + 1 /\ r.todo = todo /\ r.tokens = o.tokens /\ r.text = o.text
    <2>1. o.at < Len(Plan(o.op))
      BY <1>1, NotLast
    <2>. QED
      BY <1>1, <1>13, <1>14, <2>1, SteppedTodo
  <1>16. Becomes(x, r)
    BY <1>10, <1>14 DEF FormTokens, WithTodo
  <1>17. \E o2 : /\ Becomes(x, o2) /\ Same(o, o2) /\ o2.at = 2 /\ o2.text = o.text
                 /\ o2.tokens = o.tokens /\ ToSet(o2.todo) = {"project"} \X Founders
    BY <1>1, <1>12, <1>15, <1>16
  <1>. QED
    BY <1>1, <1>6, <1>7, <1>8, <1>9, <1>17

LEMMA DoesFormRelay ==
  ASSUME TypeInv, NEW x \in Procs, NEW o, o = proc[x], FormRelay(x)
  PROVE  OnPlan(o) /\ o.op = "submit" /\ o.at = 3 /\ Advances(x, o)
  <1>1. OnPlan(o) /\ o.op = "submit" /\ o.at = 3
    BY AtPlan, StepPlaces DEF FormRelay, OnPlan, TypeInv
  <1>2. o.at < Len(Plan(o.op))
    BY <1>1, NotLast
  <1>3. Becomes(x, Stepped(o))
    BY DEF FormRelay
  <1>. QED
    BY <1>1, <1>2, <1>3, SteppedFacts DEF Advances

FormSetup(n) == [p \in Peers |-> IF p \in Founders THEN FormEntry(p, n) ELSE None]

LEMMA DoesSaveForm ==
  ASSUME TypeInv, NEW x \in Procs, NEW o, o = proc[x], SaveForm(x)
  PROVE  /\ OnPlan(o) /\ o.op = "submit" /\ o.at = 4 /\ Becomes(x, None)
         /\ setup' = FormSetup(o.n) /\ setup' \in Setups
         /\ server' = [server EXCEPT !.peers = setup']
  <1>1. OnPlan(o) /\ o.op = "submit" /\ o.at = 4 /\ o.n \in Nat
    BY AtPlan, StepPlaces, OpTypes DEF SaveForm, OnPlan, TypeInv
  <1>2. o.at = Len(Plan(o.op))
    BY <1>1, PlanLength
  <1>3. Becomes(x, None)
    BY <1>1, <1>2, SteppedFacts DEF SaveForm
  <1>4. setup' = FormSetup(o.n) /\ server' = [server EXCEPT !.peers = setup']
    BY DEF SaveForm, FormSetup
  <1>5. FormSetup(o.n) \in Setups
    BY <1>1, FormYamlType DEF FormSetup, Setups, Peers
  <1>. QED
    BY <1>1, <1>3, <1>4, <1>5

-----------------------------------------------------------------------------
(* Type correctness                                                        *)

\* The types of everything but the operations in progress.
RestOK ==
  /\ setup \in Setups \union {None}
  /\ tokens \in Seq(Bearers) /\ IsInjective(tokens)
  /\ yaml \in [Files -> Yamls \union {None}]
  /\ server \in [up : BOOLEAN, peers : Setups \union {None}]
  /\ relay \in [state : {"down", "starting", "loaded", "up"}, tokens : SUBSET Bearers]
  /\ DOMAIN daemon = Peers /\ \A p \in Peers \ Daemons : daemon[p] = None
  /\ begun \in 0..MaxOps /\ crashes \in 0..MaxCrashes
  /\ warned \in BOOLEAN

LEMMA TypeParts == TypeInv <=> RestOK /\ ProcsOK /\ Numbered
  BY DEF TypeInv, TypeOK, RestOK, ProcsOK, OnPlan

LEMMA OnPlanNext ==
  ASSUME NEW o, OnPlan(o), NEW o2, Same(o, o2),
         o2.at = o.at \/ (o2.at = o.at + 1 /\ o.at < Len(Plan(o.op))),
         o2.op = "add" /\ o2.at >= 4 => o2.text # None
  PROVE  OnPlan(o2) /\ o2.at >= o.at
  <1>1. PICK k, m, k2 : k = o.at /\ m = Len(Plan(o.op)) /\ k2 = o2.at
    OBVIOUS
  <1>2. k \in Nat /\ m \in Nat /\ k \in 1..m /\ (k2 = k \/ (k2 = k + 1 /\ k < m))
    <2>1. o.op \in {"submit", "add", "update", "dirs", "remove", "teams"} /\ o.at \in Nat
      BY DEF OnPlan, Operations
    <2>2. m \in Nat
      BY <1>1, <2>1, PlanLength
    <2>. QED
      BY <1>1, <2>1, <2>2 DEF OnPlan
  <1>3. k2 \in 1..m /\ k2 >= k
    BY <1>2
  <1>4. o2.at \in 1..Len(Plan(o2.op)) /\ o2.at >= o.at
    BY <1>1, <1>3, Zenon DEF Same
  <1>5. Shaped(o2)
    BY DEF Shaped, Same, OnPlan
  <1>. QED
    BY <1>4, <1>5 DEF OnPlan, Same

LEMMA NumbersKept ==
  ASSUME TypeInv, NEW x \in Procs, NEW o, o = proc[x], OnPlan(o), NEW o2, Becomes(x, o2),
         begun' = begun,
         o2 # None => /\ OnPlan(o2) /\ o2.op = o.op /\ o2.n = o.n /\ o2.at >= o.at
                      /\ IsInjective(o2.tokens),
         \A b : b \in ToSet(tokens') \/ (o2 # None /\ b \in ToSet(o2.tokens)) =>
                  \/ b \in ToSet(tokens) \/ b \in ToSet(o.tokens)
                  \/ b[2] = o.n /\ (o.op = "add" => o2 # None /\ o2.at > 5)
  PROVE  ProcsOK' /\ Numbered'
  <1>1. ProcsOK /\ Numbered /\ begun \in Nat
    BY PeersAssumption DEF TypeInv, TypeOK
  <1>2. proc'[x] = o2 /\ \A y \in Procs : y # x => proc'[y] = proc[y]
    BY <1>1, BecomesFacts
  <1>3. ProcsOK'
    BY <1>1, <1>2 DEF ProcsOK, Becomes, OnPlan
  <1>4. o # None /\ o.n \in 1..begun /\ o.at \in Nat
    BY <1>1, OpTypes DEF Numbered
  <1>5. \A b : \/ b \in ToSet(tokens) \/ b \in ToSet(o.tokens) \/ b[2] = o.n
               => b[2] <= begun
    BY <1>1, <1>4 DEF Numbered
  <1>6. \A b \in ToSet(tokens') : b[2] <= begun
    BY <1>5
  <1>7. ASSUME NEW y \in Procs, proc'[y] # None
        PROVE  /\ proc'[y].n \in 1..begun /\ IsInjective(proc'[y].tokens)
               /\ \A b \in ToSet(proc'[y].tokens) : b[2] <= begun
    <2>1. CASE y = x
      BY <1>2, <1>4, <1>5, <1>7, <2>1
    <2>2. CASE y # x
      BY <1>1, <1>2, <1>7, <2>2 DEF Numbered
    <2>. QED
      BY <2>1, <2>2
  <1>8. \A y, z \in Procs : proc'[y] # None /\ proc'[z] # None /\ y # z => proc'[y].n # proc'[z].n
    BY <1>1, <1>2, <1>4 DEF Numbered
  <1>9. ASSUME NEW y \in Procs, proc'[y] # None, proc'[y].op = "add", proc'[y].at <= 5
        PROVE  /\ \A b \in ToSet(tokens') : b[2] # proc'[y].n
               /\ \A z \in Procs : proc'[z] # None =>
                    \A b \in ToSet(proc'[z].tokens) : b[2] # proc'[y].n
    <2>1. proc[y] # None /\ proc[y].op = "add" /\ proc[y].n = proc'[y].n
      BY <1>2, <1>4, <1>9
    <2>2. proc[y].at <= 5
      <3>1. CASE y = x
        <4>1. o2 # None /\ o2.at <= 5 /\ o2.at >= o.at /\ o2.at \in Nat
          BY <1>2, <1>9, <3>1, OpTypes
        <4>. QED
          BY <1>4, <3>1, <4>1
      <3>2. CASE y # x
        BY <1>2, <1>9, <3>2
      <3>. QED
        BY <3>1, <3>2
    <2>3. /\ \A b \in ToSet(tokens) : b[2] # proc'[y].n
          /\ \A z \in Procs : proc[z] # None => \A b \in ToSet(proc[z].tokens) : b[2] # proc'[y].n
      BY <1>1, <2>1, <2>2 DEF Numbered
    <2>4. o.op = "add" /\ o2 # None /\ o2.at > 5 => y # x
      <3>1. o2 # None => o2.at \in Nat
        BY OpTypes
      <3>. QED
        BY <1>2, <1>9, <3>1
    <2>5. ASSUME NEW b, b \in ToSet(tokens') \/ (o2 # None /\ b \in ToSet(o2.tokens))
          PROVE  b[2] # proc'[y].n
      <3>1. CASE b \in ToSet(tokens) \/ b \in ToSet(o.tokens)
        BY <1>4, <2>3, <3>1
      <3>2. CASE b[2] = o.n /\ (o.op = "add" => o2 # None /\ o2.at > 5)
        <4>1. CASE o.op = "add"
          <5>1. y # x
            BY <2>4, <3>2, <4>1
          <5>. QED
            BY <1>1, <1>4, <2>1, <3>2, <5>1 DEF Numbered
        <4>2. CASE o.op # "add"
          <5>1. y # x
            BY <2>1, <4>2
          <5>. QED
            BY <1>1, <1>4, <2>1, <3>2, <5>1 DEF Numbered
        <4>. QED
          BY <4>1, <4>2
      <3>. QED
        BY <2>5, <3>1, <3>2
    <2>. QED
      BY <1>2, <2>3, <2>5
  <1>. QED
    BY <1>3, <1>6, <1>7, <1>8, <1>9 DEF Numbered

\* A process that ends its operation, or dies in the middle of it.
LEMMA NumbersEnd ==
  ASSUME TypeInv, NEW x \in Procs, proc' = [proc EXCEPT ![x] = None], UNCHANGED <<tokens, begun>>
  PROVE  ProcsOK' /\ Numbered'
  <1>1. ProcsOK /\ Numbered
    BY DEF TypeInv
  <1>2. proc'[x] = None /\ \A y \in Procs : y # x => proc'[y] = proc[y]
    BY <1>1 DEF ProcsOK
  <1>3. ProcsOK'
    BY <1>1, <1>2 DEF ProcsOK, OnPlan
  <1>4. Numbered'
    BY <1>1, <1>2 DEF Numbered
  <1>. QED
    BY <1>3, <1>4

LEMMA NumbersSame ==
  ASSUME TypeInv, UNCHANGED <<proc, tokens, begun>>
  PROVE  ProcsOK' /\ Numbered'
  BY DEF TypeInv, ProcsOK, Numbered, OnPlan, Shaped

\* A step that leaves tokens.json alone and takes no bearers anew.
LEMMA NumbersPlain ==
  ASSUME TypeInv, NEW x \in Procs, NEW o, o = proc[x], OnPlan(o), NEW o2, Becomes(x, o2),
         Same(o, o2), o2.at = o.at \/ (o2.at = o.at + 1 /\ o.at < Len(Plan(o.op))),
         o2.op = "add" /\ o2.at >= 4 => o2.text # None,
         o2.tokens = o.tokens, UNCHANGED <<tokens, begun>>
  PROVE  ProcsOK' /\ Numbered'
  <1>1. OnPlan(o2) /\ o2.at >= o.at /\ o # None /\ IsInjective(o.tokens)
    BY OnPlanNext, OpTypes DEF TypeInv, Numbered
  <1>. QED
    BY <1>1, NumbersKept DEF Same

\* An operation begins with the next number.
LEMMA NumbersBegin ==
  ASSUME TypeInv, NEW x \in Procs, proc[x] = None, NEW o2, Becomes(x, o2), OnPlan(o2),
         o2.n = begun + 1, o2.tokens = <<>>, begun' = begun + 1, UNCHANGED tokens
  PROVE  ProcsOK' /\ Numbered'
  <1>1. ProcsOK /\ Numbered /\ begun \in Nat
    BY PeersAssumption DEF TypeInv, TypeOK
  <1>2. proc'[x] = o2 /\ \A y \in Procs : y # x => proc'[y] = proc[y]
    BY <1>1, BecomesFacts
  <1>3. ProcsOK'
    BY <1>1, <1>2 DEF ProcsOK, Becomes, OnPlan
  <1>4. ToSet(o2.tokens) = {} /\ IsInjective(o2.tokens)
    BY SetOfEmpty
  <1>5. tokens \in Seq(Bearers) /\ \A y \in Procs : proc[y] # None => proc[y].tokens \in Seq(Bearers)
    BY <1>1, StateTypes, OpTypes DEF ProcsOK
  <1>6. \A b \in Bearers : b[2] \in Nat
    BY DEF Bearers
  <1>7. /\ \A b \in ToSet(tokens) : b[2] \in Nat
        /\ \A y \in Procs : proc[y] # None => \A b \in ToSet(proc[y].tokens) : b[2] \in Nat
    BY <1>5, <1>6, SetOf
  <1>8. /\ \A b \in ToSet(tokens) : b[2] <= begun + 1 /\ b[2] # begun + 1
        /\ \A y \in Procs : proc[y] # None =>
             /\ proc[y].n \in 1..(begun + 1) /\ proc[y].n # begun + 1
             /\ \A b \in ToSet(proc[y].tokens) : b[2] <= begun + 1 /\ b[2] # begun + 1
    <2>1. \A n \in Nat : n <= begun => n <= begun + 1 /\ n # begun + 1
      BY <1>1
    <2>2. \A n \in 1..begun : n \in 1..(begun + 1) /\ n # begun + 1
      BY <1>1
    <2>. QED
      BY <1>1, <1>7, <2>1, <2>2 DEF Numbered
  <1>9. begun + 1 \in 1..(begun + 1)
    BY <1>1
  <1>10. ASSUME NEW y \in Procs, proc'[y] # None
         PROVE  /\ proc'[y].n \in 1..begun' /\ IsInjective(proc'[y].tokens)
                /\ \A b \in ToSet(proc'[y].tokens) : b[2] <= begun'
                /\ proc'[y].op = "add" /\ proc'[y].at <= 5 =>
                     /\ \A b \in ToSet(tokens') : b[2] # proc'[y].n
                     /\ \A z \in Procs : proc'[z] # None =>
                          \A b \in ToSet(proc'[z].tokens) : b[2] # proc'[y].n
    <2>1. CASE y = x
      BY <1>2, <1>4, <1>8, <1>9, <2>1
    <2>2. CASE y # x
      BY <1>1, <1>2, <1>4, <1>8, <1>10, <2>2 DEF Numbered
    <2>. QED
      BY <2>1, <2>2
  <1>11. \A y, z \in Procs : proc'[y] # None /\ proc'[z] # None /\ y # z => proc'[y].n # proc'[z].n
    BY <1>1, <1>2, <1>8 DEF Numbered
  <1>. QED
    BY <1>3, <1>8, <1>10, <1>11 DEF Numbered

\* What every operation has in common when it begins.
Begins(x, o2, op) ==
  /\ proc[x] = None /\ Becomes(x, o2) /\ OnPlan(o2) /\ o2.op = op /\ o2.at = 1
  /\ o2.n = begun + 1 /\ o2.setup = setup /\ o2.tokens = <<>> /\ o2.text = None
  /\ begun' = begun + 1 /\ begun' \in 0..MaxOps
  /\ UNCHANGED <<files, server, relay, daemon, crashes, cut, warned>>

\* An operation gives nothing but what an update does.
WithGift(r, gives, todo) == [r EXCEPT !.gives = gives, !.todo = todo]

LEMMA NewOperation ==
  ASSUME TypeInv, NEW op \in {"submit", "add", "update", "dirs", "remove", "teams"},
         NEW p \in Peers \union {None}, NEW members \in SUBSET Peers, NEW todo \in Seq(Files),
         op # "submit" => setup # None,
         op \in {"add", "update", "dirs", "remove"} => p \in Peers,
         op \in {"update", "dirs"} => setup[p] # None,
         NEW r, r = Operation(op, p, members),
         NEW gives \in Gifts, op = "dirs" => gives = NoGift
  PROVE  /\ OnPlan(WithGift(r, gives, todo)) /\ r = WithGift(r, NoGift, <<>>)
         /\ WithTodo(r, todo) = WithGift(r, NoGift, todo)
         /\ LET o == WithGift(r, gives, todo) IN
            /\ o.op = op /\ o.at = 1 /\ o.n = begun + 1 /\ o.setup = setup
            /\ o.tokens = <<>> /\ o.text = None /\ o.peer = p /\ o.members = members
            /\ o.todo = todo /\ o.gives = gives
  <1>1. PICK e : e = <<>>
    OBVIOUS
  <1>2. e \in Seq(Bearers) /\ e \in Seq(Files)
    BY <1>1, EmptySeq
  <1>3. begun + 1 \in Nat /\ setup \in Setups \union {None}
    BY StateTypes
  <1>12. PICK g : g = NoGift
    OBVIOUS
  <1>4. r = [op |-> op, peer |-> p, n |-> begun + 1, gives |-> g, members |-> members, at |-> 1,
             todo |-> e, setup |-> setup, tokens |-> e, text |-> None]
    BY <1>1, <1>12 DEF Operation
  <1>5. PICK o : o = [op |-> op, peer |-> p, n |-> begun + 1, gives |-> gives, members |-> members, at |-> 1,
                      todo |-> todo, setup |-> setup, tokens |-> e, text |-> None]
    OBVIOUS
  <1>6. WithGift(r, gives, todo) = o /\ WithTodo(r, todo) = WithGift(r, NoGift, todo)
    <2>1. WithGift(r, gives, todo) = o
      <3>1. PICK m : m = [r EXCEPT !.gives = gives]
        OBVIOUS
      <3>2. m = [op |-> op, peer |-> p, n |-> begun + 1, gives |-> gives, members |-> members,
                 at |-> 1, todo |-> e, setup |-> setup, tokens |-> e, text |-> None]
        BY <1>4, <3>1
      <3>3. [m EXCEPT !.todo = todo] = o
        BY <1>5, <3>2
      <3>. QED
        BY <3>1, <3>3 DEF WithGift
    <2>2. r.gives = g /\ DOMAIN r = DOMAIN o /\ r = [r EXCEPT !.gives = g]
      BY <1>4, <1>5
    <2>. QED
      BY <1>12, <2>1, <2>2 DEF WithGift, WithTodo
  <1>7. o \in Operations
    BY <1>2, <1>3, <1>5 DEF Operations
  <1>8. /\ o.op = op /\ o.at = 1 /\ o.n = begun + 1 /\ o.setup = setup
        /\ o.tokens = e /\ o.text = None /\ o.peer = p /\ o.members = members
        /\ o.todo = todo /\ o.gives = gives
    BY <1>5
  <1>9. r = WithGift(r, NoGift, <<>>)
    <2>1. r = [r EXCEPT !.gives = g] /\ r = [r EXCEPT !.todo = e]
      BY <1>4
    <2>. QED
      BY <1>1, <1>12, <2>1 DEF WithGift
  <1>10. o.at \in 1..Len(Plan(o.op))
    <2>1. PICK m : m = Len(Plan(o.op))
      OBVIOUS
    <2>2. m = 4 \/ m = 8 \/ m = 5 \/ m = 3 \/ m = 7 \/ m = 1
      BY <1>8, <2>1, PlanLength
    <2>3. 1 \in 1..m
      BY <2>2
    <2>. QED
      BY <1>8, <2>1, <2>3
  <1>11. Shaped(o)
    BY <1>8 DEF Shaped
  <1>. QED
    BY <1>1, <1>6, <1>7, <1>8, <1>9, <1>10, <1>11 DEF OnPlan

LEMMA NoGiftType == NoGift \in Gifts
  BY DEF NoGift, Gifts

\* An operation that has no file to visit yet.
LEMMA NewWithout ==
  ASSUME TypeInv, NEW op \in {"submit", "add", "remove"},
         NEW p \in Peers \union {None},
         op # "submit" => setup # None /\ p \in Peers,
         NEW r, r = Operation(op, p, {})
  PROVE  /\ OnPlan(r) /\ r.op = op /\ r.at = 1 /\ r.n = begun + 1 /\ r.setup = setup
         /\ r.tokens = <<>> /\ r.text = None /\ r.peer = p /\ r.todo = <<>>
  <1>1. PICK e \in Seq(Files) : e = <<>>
    BY EmptySeq
  <1>2. PICK none \in SUBSET Peers : none = {}
    OBVIOUS
  <1>3. r = Operation(op, p, none)
    BY <1>2
  <1>4. PICK o : o = WithGift(r, NoGift, e)
    OBVIOUS
  <1>5. /\ OnPlan(o) /\ r = WithGift(r, NoGift, <<>>) /\ o.op = op /\ o.at = 1 /\ o.n = begun + 1
        /\ o.setup = setup /\ o.tokens = <<>> /\ o.text = None /\ o.peer = p /\ o.todo = e
    BY <1>3, <1>4, NewOperation, NoGiftType
  <1>. QED
    BY <1>1, <1>4, <1>5

LEMMA DoesSubmit ==
  ASSUME TypeInv, Submit
  PROVE  /\ Server \in Procs /\ setup = None
         /\ begun = 0 \/ Resubmit
         /\ \E o2 : Begins(Server, o2, "submit") /\ o2.peer = None
  <1>1. PICK r : r = Operation("submit", None, {})
    OBVIOUS
  <1>2. /\ OnPlan(r) /\ r.op = "submit" /\ r.at = 1 /\ r.n = begun + 1 /\ r.setup = setup
        /\ r.tokens = <<>> /\ r.text = None /\ r.peer = None
    BY <1>1, NewWithout
  <1>3. begun' = begun + 1 /\ begun' \in 0..MaxOps
    BY PeersAssumption, StateTypes DEF Submit, TypeInv, TypeOK
  <1>. QED
    BY <1>1, <1>2, <1>3 DEF Submit, Begins, Procs

LEMMA DoesBeginAdd ==
  ASSUME TypeInv, NEW x \in Procs, NEW p \in Peers, BeginAdd(x, p)
  PROVE  /\ setup # None /\ p \notin Listed
         /\ OneAtATime => \A y \in Procs : proc[y] = None
         /\ \E o2 : Begins(x, o2, "add") /\ o2.peer = p /\ o2.todo = <<>>
  <1>1. PICK r : r = Operation("add", p, {})
    OBVIOUS
  <1>2. setup # None
    BY DEF BeginAdd, MayBegin
  <1>3. /\ OnPlan(r) /\ r.op = "add" /\ r.at = 1 /\ r.n = begun + 1 /\ r.setup = setup
        /\ r.tokens = <<>> /\ r.text = None /\ r.peer = p /\ r.todo = <<>>
    BY <1>1, <1>2, NewWithout
  <1>4. begun' = begun + 1 /\ begun' \in 0..MaxOps
    BY PeersAssumption, StateTypes DEF BeginAdd, MayBegin
  <1>. QED
    BY <1>1, <1>2, <1>3, <1>4 DEF BeginAdd, MayBegin, Begins

LEMMA DoesBeginUpdate ==
  ASSUME TypeInv, NEW p \in Peers, NEW op \in {"update", "dirs"},
         NEW gives \in Updates \union {NoGift}, BeginUpdate(p, op, gives)
  PROVE  /\ Server \in Procs /\ setup # None /\ p \in Listed
         /\ OneAtATime => \A y \in Procs : proc[y] = None
         /\ \E o2 : /\ Begins(Server, o2, op) /\ o2.peer = p
                    /\ ToSet(o2.todo) = {<<"project", p>>, <<"agent", p>>}
  <1>1. PICK r : r = Operation(op, p, {})
    OBVIOUS
  <1>2. PICK todo : todo = <<<<"project", p>>, <<"agent", p>>>>
    OBVIOUS
  <1>3. todo \in Seq(Files) /\ ToSet(todo) = {<<"project", p>>, <<"agent", p>>}
    BY <1>2, TwoCopies
  <1>4. setup # None /\ p \in Listed /\ setup[p] # None
    BY DEF BeginUpdate, MayBegin, Listed, Named
  <1>5. PICK o : o = WithGift(r, gives, todo)
    OBVIOUS
  <1>6. /\ OnPlan(o) /\ o.op = op /\ o.at = 1 /\ o.n = begun + 1 /\ o.setup = setup
        /\ o.tokens = <<>> /\ o.text = None /\ o.peer = p /\ o.todo = todo
    <2>1. PICK none \in SUBSET Peers : none = {}
      OBVIOUS
    <2>2. r = Operation(op, p, none) /\ gives \in Gifts /\ (op = "dirs" => gives = NoGift)
      BY <1>1, <2>1, PeersAssumption, NoGiftType DEF BeginUpdate
    <2>. QED
      BY <1>3, <1>4, <1>5, <2>2, NewOperation
  <1>7. begun' = begun + 1 /\ begun' \in 0..MaxOps
    BY PeersAssumption, StateTypes DEF BeginUpdate, MayBegin
  <1>8. Becomes(Server, o)
    BY <1>1, <1>2, <1>5 DEF BeginUpdate, WithGift
  <1>. QED
    BY <1>3, <1>4, <1>6, <1>7, <1>8 DEF BeginUpdate, MayBegin, Begins, Procs

LEMMA DoesBeginRemove ==
  ASSUME TypeInv, NEW p \in Peers, BeginRemove(p)
  PROVE  /\ Server \in Procs /\ setup # None /\ p \in Listed
         /\ OneAtATime => \A y \in Procs : proc[y] = None
         /\ \E o2 : Begins(Server, o2, "remove") /\ o2.peer = p
  <1>1. PICK r : r = Operation("remove", p, {})
    OBVIOUS
  <1>2. setup # None
    BY DEF BeginRemove, MayBegin
  <1>3. /\ OnPlan(r) /\ r.op = "remove" /\ r.at = 1 /\ r.n = begun + 1 /\ r.setup = setup
        /\ r.tokens = <<>> /\ r.text = None /\ r.peer = p /\ r.todo = <<>>
    BY <1>1, <1>2, NewWithout
  <1>4. begun' = begun + 1 /\ begun' \in 0..MaxOps
    BY PeersAssumption, StateTypes DEF BeginRemove, MayBegin
  <1>. QED
    BY <1>1, <1>2, <1>3, <1>4 DEF BeginRemove, MayBegin, Begins, Procs

LEMMA DoesBeginTeams ==
  ASSUME TypeInv, NEW members \in Memberships, BeginTeams(members)
  PROVE  /\ Server \in Procs /\ setup # None
         /\ OneAtATime => \A y \in Procs : proc[y] = None
         /\ \E o2 : /\ Begins(Server, o2, "teams") /\ o2.peer = None /\ o2.members = members
                    /\ ToSet(o2.todo) = Existing(Listed)
         /\ members \subseteq Listed
  <1>1. PICK r : r = Operation("teams", None, members)
    OBVIOUS
  <1>2. Listed \subseteq Peers /\ members \subseteq Peers
    BY PeersAssumption, StateTypes
  <1>3. PICK todo \in Seq(Files) :
          todo = ExistingYamls(Listed) /\ ToSet(todo) = Existing(Listed)
    BY <1>2, ExistingFacts DEF Existing
  <1>4. setup # None
    BY DEF BeginTeams, MayBegin
  <1>5. PICK o : o = WithTodo(r, todo)
    OBVIOUS
  <1>6. /\ OnPlan(o) /\ o.op = "teams" /\ o.at = 1 /\ o.n = begun + 1 /\ o.setup = setup
        /\ o.tokens = <<>> /\ o.text = None /\ o.peer = None /\ o.todo = todo
        /\ o.members = members
    <2>1. WithTodo(r, todo) = WithGift(r, NoGift, todo) /\ OnPlan(WithGift(r, NoGift, todo))
      BY <1>1, <1>2, <1>3, <1>4, NewOperation, NoGiftType
    <2>2. o = WithGift(r, NoGift, todo)
      BY <1>5, <2>1
    <2>. QED
      BY <1>1, <1>2, <1>3, <1>4, <2>2, NewOperation, NoGiftType
  <1>7. begun' = begun + 1 /\ begun' \in 0..MaxOps
    BY PeersAssumption, StateTypes DEF BeginTeams, MayBegin
  <1>8. Becomes(Server, o)
    BY <1>1, <1>3, <1>5 DEF BeginTeams, WithTodo
  <1>. QED
    BY <1>3, <1>4, <1>6, <1>7, <1>8 DEF BeginTeams, MayBegin, Begins, Procs

LEMMA BeginsType ==
  ASSUME TypeInv, NEW x \in Procs, NEW o2, NEW op, Begins(x, o2, op)
  PROVE  TypeInv'
  <1>1. ProcsOK' /\ Numbered'
    BY NumbersBegin DEF Begins, files
  <1>2. RestOK'
    BY TypeParts DEF RestOK, Begins, files
  <1>. QED
    BY <1>1, <1>2, TypeParts DEF TypeInv, TypeOK, RestOK, ProcsOK, OnPlan

LEMMA SameLength ==
  ASSUME TypeInv, NEW x \in Procs, NEW o, o = proc[x], OnPlan(o)
  PROVE  o # None /\ IsInjective(o.tokens) /\ o.n \in Nat
  BY OpTypes DEF TypeInv, Numbered

LEMMA AdvancesNumbers ==
  ASSUME TypeInv, NEW x \in Procs, NEW o, o = proc[x], OnPlan(o), Advances(x, o),
         o.at < Len(Plan(o.op)), o.op = "add" => o.at # 3, UNCHANGED <<tokens, begun>>
  PROVE  ProcsOK' /\ Numbered'
  <1>1. o.at \in Nat /\ (o.op = "add" /\ o.at >= 4 => o.text # None)
    BY OpTypes DEF OnPlan, Shaped
  <1>2. PICK s : s = Stepped(o)
    OBVIOUS
  <1>3. Same(o, s) /\ s.at = o.at + 1 /\ s.text = o.text /\ s.tokens = o.tokens /\ Becomes(x, s)
    BY <1>2 DEF Advances
  <1>4. s.op = "add" /\ s.at >= 4 => s.text # None
    <2>1. s.op = o.op
      BY <1>3 DEF Same
    <2>2. o.op = "add" /\ s.at >= 4 => o.at >= 4
      BY <1>1, <1>3
    <2>. QED
      BY <1>1, <1>3, <2>1, <2>2
  <1>. QED
    BY <1>3, <1>4, NumbersPlain

LEMMA LoopsNumbers ==
  ASSUME TypeInv, NEW x \in Procs, NEW o, o = proc[x], OnPlan(o), NEW o2, NEW f, Loops(o, o2, f),
         Becomes(x, o2), o.op = "add" => o2.text = o.text, UNCHANGED <<tokens, begun>>
  PROVE  ProcsOK' /\ Numbered'
  <1>1. Same(o, o2) /\ o2.at = o.at /\ o2.tokens = o.tokens
    BY DEF Loops
  <1>2. o2.op = "add" /\ o2.at >= 4 => o2.text # None
    BY <1>1 DEF OnPlan, Shaped, Same
  <1>. QED
    BY <1>1, <1>2, NumbersPlain

LEMMA ServerType ==
  ASSUME RestOK, LoadSetups \/ server' = [server EXCEPT !.peers = setup]
  PROVE  server' \in [up : BOOLEAN, peers : Setups \union {None}]
  <1>1. CASE LoadSetups
    BY <1>1 DEF RestOK, LoadSetups
  <1>2. CASE server' = [server EXCEPT !.peers = setup]
    BY <1>2 DEF RestOK
  <1>. QED
    BY <1>1, <1>2

LEMMA StartRelayType ==
  ASSUME RestOK, StartRelay
  PROVE  relay' \in [state : {"down", "starting", "loaded", "up"}, tokens : SUBSET Bearers]
  BY DEF RestOK, StartRelay

LEMMA LoadSetupsType ==
  ASSUME RestOK, LoadSetups
  PROVE  relay' \in [state : {"down", "starting", "loaded", "up"}, tokens : SUBSET Bearers]
  BY StartRelayType DEF RestOK, LoadSetups

LEMMA StepType ==
  ASSUME TypeInv, NEW x \in Procs, Step(x)
  PROVE  TypeInv'
  <1>. USE DEF files
  <1>1. PICK o : o = proc[x]
    OBVIOUS
  <1>2. RestOK /\ ProcsOK /\ Numbered
    BY TypeParts
  <1>3. SUFFICES RestOK' /\ ProcsOK' /\ Numbered'
    BY DEF TypeInv, TypeOK, RestOK, ProcsOK, OnPlan
  <1>4. CASE FormTokens(x)
    <2>1. /\ OnPlan(o) /\ o.op = "submit" /\ o.at = 1
          /\ tokens' \in Seq(Bearers) /\ IsInjective(tokens')
          /\ ToSet(tokens') = Founders \X {o.n}
          /\ yaml' = [f \in Files |-> None]
      BY <1>1, <1>4, DoesFormTokens
    <2>2. PICK o2 : Becomes(x, o2) /\ Same(o, o2) /\ o2.at = 2 /\ o2.tokens = o.tokens
      BY <1>1, <1>4, DoesFormTokens
    <2>3. o.at < Len(Plan(o.op)) /\ o # None /\ IsInjective(o.tokens)
      BY <1>1, <2>1, NotLast, SameLength
    <2>4. OnPlan(o2) /\ o2.at >= o.at
      BY <2>1, <2>2, <2>3, OnPlanNext DEF Same
    <2>5. \A b \in Founders \X {o.n} : b[2] = o.n
      OBVIOUS
    <2>6. begun' = begun
      BY <1>4 DEF FormTokens
    <2>7. ProcsOK' /\ Numbered'
      BY <1>1, <2>1, <2>2, <2>3, <2>4, <2>5, <2>6, NumbersKept DEF Same
    <2>8. RestOK'
      BY <1>2, <1>4, <2>1 DEF FormTokens, RestOK
    <2>. QED
      BY <2>7, <2>8
  <1>5. CASE FormRelay(x)
    <2>1. OnPlan(o) /\ o.op = "submit" /\ o.at = 3 /\ Advances(x, o)
      BY <1>1, <1>5, DoesFormRelay
    <2>2. ProcsOK' /\ Numbered'
      BY <1>1, <1>5, <2>1, NotLast, AdvancesNumbers DEF FormRelay
    <2>3. RestOK'
      BY <1>2, <1>5, StartRelayType DEF FormRelay, RestOK
    <2>. QED
      BY <2>2, <2>3
  <1>6. CASE SaveForm(x)
    <2>1. /\ Becomes(x, None) /\ setup' \in Setups /\ server' = [server EXCEPT !.peers = setup']
      BY <1>1, <1>6, DoesSaveForm
    <2>2. ProcsOK' /\ Numbered'
      BY <1>6, <2>1, NumbersEnd DEF SaveForm, Becomes
    <2>3. RestOK'
      BY <1>2, <1>6, <2>1 DEF SaveForm, RestOK
    <2>. QED
      BY <2>2, <2>3
  <1>7. CASE Tokens(x)
    <2>1. /\ OnPlan(o) /\ o.op \in {"add", "remove"} /\ o.at = 1
          /\ tokens' \in Seq(Bearers) /\ IsInjective(tokens')
          /\ o.op = "add" => tokens' = tokens
          /\ o.op = "remove" => ToSet(tokens') = {b \in ToSet(tokens) : b[1] # o.peer}
      BY <1>1, <1>7, DoesTokens
    <2>2. PICK o2 : Becomes(x, o2) /\ Same(o, o2) /\ o2.at = 2 /\ o2.tokens = tokens'
      BY <1>1, <1>7, DoesTokens
    <2>3. o.at < Len(Plan(o.op)) /\ o # None
      BY <1>1, <2>1, NotLast, SameLength
    <2>4. OnPlan(o2) /\ o2.at >= o.at
      BY <2>1, <2>2, <2>3, OnPlanNext DEF Same
    <2>5. begun' = begun
      BY <1>7 DEF Tokens
    <2>6. ProcsOK' /\ Numbered'
      BY <1>1, <2>1, <2>2, <2>4, <2>5, NumbersKept DEF Same
    <2>7. RestOK'
      BY <1>2, <1>7, <2>1 DEF Tokens, RestOK
    <2>. QED
      BY <2>6, <2>7
  <1>8. CASE List(x)
    <2>1. OnPlan(o) /\ o.op = "update" /\ o.at = 2
      BY <1>1, <1>8, DoesList
    <2>2. PICK o2 : Becomes(x, o2) /\ Same(o, o2) /\ o2.at = 3 /\ o2.tokens = o.tokens
      BY <1>1, <1>8, DoesList
    <2>3. ProcsOK' /\ Numbered'
      BY <1>1, <1>8, <2>1, <2>2, NotLast, NumbersPlain DEF List, Same
    <2>4. RestOK'
      BY <1>2, <1>8 DEF List, RestOK
    <2>. QED
      BY <2>3, <2>4
  <1>9. CASE EditYaml(x)
    <2>1. OnPlan(o) /\ o.op \in {"add", "remove", "update", "teams"} /\ warned' \in BOOLEAN
      BY <1>1, <1>9, DoesEditYaml
    <2>2. UNCHANGED <<setup, tokens, server, relay, begun, crashes>>
      BY <1>9 DEF EditYaml
    <2>3. CASE Becomes(x, None) /\ UNCHANGED <<yaml, daemon>>
      <3>1. ProcsOK' /\ Numbered'
        BY <2>2, <2>3, NumbersEnd DEF Becomes
      <3>2. RestOK'
        BY <1>2, <2>1, <2>2, <2>3 DEF RestOK
      <3>. QED
        BY <3>1, <3>2
    <2>4. CASE \E f \in Files : \E o2 :
                 /\ Becomes(x, o2) /\ Loops(o, o2, f) /\ o2.text = o.text
                 /\ UNCHANGED cut /\ yaml[f] # None
                 /\ \/ /\ o.op = "update" /\ yaml[f].peers[o.peer] = None
                       /\ UNCHANGED <<yaml, daemon>>
                    \/ /\ o.op = "update" => yaml[f].peers[o.peer] # None
                       /\ WriteYaml(f, Edited(o, yaml[f]))
      <3>1. PICK f, o2 :
                 /\ f \in Files /\ Becomes(x, o2) /\ Loops(o, o2, f) /\ o2.text = o.text /\ yaml[f] # None
                 /\ \/ UNCHANGED <<yaml, daemon>>
                    \/ /\ o.op = "update" => yaml[f].peers[o.peer] # None
                       /\ WriteYaml(f, Edited(o, yaml[f]))
        BY <2>4
      <3>2. ProcsOK' /\ Numbered'
        BY <1>1, <2>1, <2>2, <3>1, LoopsNumbers
      <3>3. yaml[f] \in Yamls
        BY <3>1, YamlType
      <3>4. /\ yaml' \in [Files -> Yamls \union {None}]
            /\ DOMAIN daemon' = Peers /\ \A p \in Peers \ Daemons : daemon'[p] = None
        <4>1. CASE UNCHANGED <<yaml, daemon>>
          BY <1>2, <4>1 DEF RestOK
        <4>2. CASE /\ o.op = "update" => yaml[f].peers[o.peer] # None
                   /\ WriteYaml(f, Edited(o, yaml[f]))
          <5>1. Edited(o, yaml[f]) \in Yamls
            BY <2>1, <3>3, <4>2, EditedFacts DEF EditedInto
          <5>. QED
            BY <3>1, <4>2, <5>1, WrittenYaml
        <4>. QED
          BY <3>1, <4>1, <4>2
      <3>5. RestOK'
        BY <1>2, <2>1, <2>2, <3>4 DEF RestOK
      <3>. QED
        BY <3>2, <3>5
    <2>. QED
      BY <1>1, <1>9, <2>3, <2>4, DoesEditYaml
  <1>10. CASE EditOwn(x)
    <2>1. OnPlan(o) /\ o.op \in {"update", "dirs"}
      BY <1>1, <1>10, DoesEditOwn
    <2>2. PICK f, o2 :
             /\ f \in Files /\ Becomes(x, o2) /\ Loops(o, o2, f)
             /\ UNCHANGED <<yaml, daemon>> \/ \E c \in Yamls : WriteYaml(f, c)
      BY <1>1, <1>10, DoesEditOwn
    <2>3. ProcsOK' /\ Numbered'
      BY <1>1, <1>10, <2>1, <2>2, LoopsNumbers DEF EditOwn
    <2>4. /\ yaml' \in [Files -> Yamls \union {None}]
          /\ DOMAIN daemon' = Peers /\ \A p \in Peers \ Daemons : daemon'[p] = None
      BY <1>2, <2>2, WrittenYaml DEF RestOK
    <2>5. RestOK'
      BY <1>2, <1>10, <2>4 DEF EditOwn, RestOK
    <2>. QED
      BY <2>3, <2>5
  <1>11. CASE Build(x)
    <2>1. OnPlan(o) /\ o.op = "add" /\ o.at = 3
      BY <1>1, <1>11, DoesBuild
    <2>2. PICK o2 : /\ Becomes(x, o2) /\ Same(o, o2) /\ o2.at = 4 /\ o2.tokens = o.tokens
                    /\ o2.text \in Yamls
      BY <1>1, <1>11, DoesBuild
    <2>3. o2.text # None
      BY <2>2, NoneAssumption
    <2>4. ProcsOK' /\ Numbered'
      BY <1>1, <1>11, <2>1, <2>2, <2>3, NotLast, NumbersPlain DEF Build
    <2>5. RestOK'
      BY <1>2, <1>11 DEF Build, RestOK
    <2>. QED
      BY <2>4, <2>5
  <1>12. CASE WriteNew(x)
    <2>1. OnPlan(o)
      BY <1>1, <1>12, DoesWriteNew
    <2>2. PICK f \in Files, c \in Yamls : \E o2 :
             Becomes(x, o2) /\ Loops(o, o2, f) /\ o2.text = o.text /\ WriteYaml(f, c)
      BY <1>1, <1>12, DoesWriteNew
    <2>3. ProcsOK' /\ Numbered'
      BY <1>1, <1>12, <2>1, <2>2, LoopsNumbers DEF WriteNew
    <2>4. /\ yaml' \in [Files -> Yamls \union {None}]
          /\ DOMAIN daemon' = Peers /\ \A p \in Peers \ Daemons : daemon'[p] = None
      BY <2>2, WrittenYaml
    <2>5. RestOK'
      BY <1>2, <1>12, <2>4 DEF WriteNew, RestOK
    <2>. QED
      BY <2>3, <2>5
  <1>13. CASE SaveTokens(x)
    <2>1. /\ OnPlan(o) /\ o.op = "add" /\ o.at = 5
          /\ tokens' \in Seq(Bearers) /\ IsInjective(tokens')
          /\ ToSet(tokens') = ToSet(o.tokens) \union {<<o.peer, o.n>>}
      BY <1>1, <1>13, DoesSaveTokens
    <2>2. PICK o2 : WroteTokens(x, o, o2)
      BY <1>1, <1>13, DoesSaveTokens
    <2>3. /\ Becomes(x, o2) /\ Same(o, o2) /\ o2.at = 6 /\ o2.text = o.text
          /\ o2.tokens = tokens'
      BY <2>2 DEF WroteTokens
    <2>4. o.at < Len(Plan(o.op)) /\ o # None /\ o.text # None
      BY <1>1, <2>1, NotLast, SameLength DEF OnPlan, Shaped
    <2>5. OnPlan(o2) /\ o2.at >= o.at
      BY <2>1, <2>3, <2>4, OnPlanNext DEF Same
    <2>6. begun' = begun
      BY <1>13 DEF SaveTokens
    <2>7. \A b \in ToSet(tokens') : b \in ToSet(o.tokens) \/ b[2] = o.n
      BY <2>1
    <2>8. o2 # None /\ o2.at > 5
      BY <2>3, <2>5, OpTypes
    <2>9. ProcsOK' /\ Numbered'
      BY <1>1, <2>1, <2>3, <2>5, <2>6, <2>7, <2>8, NumbersKept DEF Same
    <2>10. RestOK'
      BY <1>2, <1>13, <2>1 DEF SaveTokens, RestOK
    <2>. QED
      BY <2>9, <2>10
  <1>14. CASE SaveSetup(x)
    <2>1. /\ OnPlan(o) /\ Advances(x, o) /\ setup' \in Setups
          /\ \/ (o.op = "add" /\ o.at = 6) \/ (o.op = "remove" /\ o.at = 3)
             \/ (o.op = "update" /\ o.at = 4) \/ (o.op = "dirs" /\ o.at = 2)
      BY <1>1, <1>14, DoesSaveSetup
    <2>2. ProcsOK' /\ Numbered'
      BY <1>1, <1>14, <2>1, NotLast, AdvancesNumbers DEF SaveSetup
    <2>3. RestOK'
      BY <1>2, <1>14, <2>1 DEF SaveSetup, RestOK
    <2>. QED
      BY <2>2, <2>3
  <1>15. CASE Kill(x)
    <2>1. /\ OnPlan(o) /\ o.op = "remove" /\ o.at = 4
          /\ DOMAIN daemon' = Peers /\ \A p \in Peers \ Daemons : daemon'[p] = None
      BY <1>1, <1>15, DoesKill
    <2>2. PICK o2 : Becomes(x, o2) /\ Same(o, o2) /\ o2.at = 5 /\ o2.tokens = o.tokens
      BY <1>1, <1>15, DoesKill
    <2>3. ProcsOK' /\ Numbered'
      BY <1>1, <1>15, <2>1, <2>2, NotLast, NumbersPlain DEF Kill, Same
    <2>4. RestOK'
      BY <1>2, <1>15, <2>1 DEF Kill, RestOK
    <2>. QED
      BY <2>3, <2>4
  <1>16. CASE Delete(x)
    <2>1. OnPlan(o)
      BY <1>1, <1>16, DoesDelete
    <2>2. PICK f, o2 :
             /\ f \in Files /\ Becomes(x, o2) /\ Loops(o, o2, f) /\ o2.text = o.text
             /\ yaml' = [yaml EXCEPT ![f] = None]
      BY <1>1, <1>16, DoesDelete
    <2>3. ProcsOK' /\ Numbered'
      BY <1>1, <1>16, <2>1, <2>2, LoopsNumbers DEF Delete
    <2>4. RestOK'
      BY <1>2, <1>16, <2>2 DEF Delete, RestOK
    <2>. QED
      BY <2>3, <2>4
  <1>17. CASE EndOfLoop(x)
    <2>1. /\ OnPlan(o)
          /\ \/ o.op \in {"add", "remove"} /\ o.at = 2
             \/ o.op = "update" /\ o.at = 3
             \/ o.op = "teams" /\ o.at = 1
             \/ o.op \in {"update", "dirs"} /\ o.at = 1
             \/ o.op = "submit" /\ o.at = 2
             \/ o.op = "add" /\ o.at = 4
             \/ o.op = "remove" /\ o.at = 5
          /\ o.op = "teams" => Becomes(x, None)
          /\ o.op # "teams" => Advances(x, o)
      BY <1>1, <1>17, DoesEndOfLoop
    <2>2. ProcsOK' /\ Numbered'
      <3>1. CASE o.op = "teams"
        BY <1>17, <2>1, <3>1, NumbersEnd DEF EndOfLoop, Becomes
      <3>2. CASE o.op # "teams"
        <4>1. o.at < Len(Plan(o.op))
          BY <2>1, <3>2, NotLast
        <4>. QED
          BY <1>1, <1>17, <2>1, <3>2, <4>1, AdvancesNumbers DEF EndOfLoop
      <3>. QED
        BY <3>1, <3>2
    <2>3. RestOK'
      BY <1>2, <1>17 DEF EndOfLoop, RestOK
    <2>. QED
      BY <2>2, <2>3
  <1>18. CASE ReloadRelay(x)
    <2>1. /\ OnPlan(o) /\ ((o.op = "add" /\ o.at = 7) \/ (o.op = "remove" /\ o.at = 6))
          /\ Advances(x, o)
      BY <1>1, <1>18, DoesReload
    <2>2. ProcsOK' /\ Numbered'
      BY <1>1, <1>18, <2>1, NotLast, AdvancesNumbers DEF ReloadRelay
    <2>3. TokensOfFile \in SUBSET Bearers
      BY <1>2, SetOf DEF TokensOfFile, RestOK
    <2>4. warned' \in BOOLEAN
      BY <1>18 DEF ReloadRelay
    <2>5. relay' = [relay EXCEPT !.tokens = TokensOfFile] \/ relay' = relay
      BY <1>18 DEF ReloadRelay
    <2>6. RestOK'
      BY <1>2, <1>18, <2>3, <2>4, <2>5 DEF ReloadRelay, RestOK
    <2>. QED
      BY <2>2, <2>6
  <1>19. CASE Refresh(x)
    <2>1. Becomes(x, None)
      BY <1>1, <1>19, DoesRefresh
    <2>2. ProcsOK' /\ Numbered'
      BY <1>19, <2>1, NumbersEnd DEF Refresh, Becomes
    <2>3. \/ server' = [server EXCEPT !.peers = setup] /\ UNCHANGED relay
          \/ server.up /\ LoadSetups
          \/ UNCHANGED <<server, relay>>
      BY <1>1, <1>19, DoesRefresh
    <2>4. /\ server' \in [up : BOOLEAN, peers : Setups \union {None}]
          /\ relay' \in [state : {"down", "starting", "loaded", "up"}, tokens : SUBSET Bearers]
      BY <1>2, <2>3, ServerType, LoadSetupsType DEF RestOK
    <2>5. RestOK'
      BY <1>2, <1>19, <2>4 DEF Refresh, RestOK
    <2>. QED
      BY <2>2, <2>5
  <1>. QED
    BY <1>4, <1>5, <1>6, <1>7, <1>8, <1>9, <1>10, <1>11, <1>12, <1>13, <1>14, <1>15, <1>16, <1>17,
       <1>18, <1>19 DEF Step

LEMMA TypeNext ==
  ASSUME TypeInv, [Next]_vars
  PROVE  TypeInv'
  <1>. USE DEF files
  <1>1. RestOK /\ ProcsOK /\ Numbered
    BY TypeParts
  <1>2. ASSUME UNCHANGED <<proc, tokens, begun>>, RestOK' PROVE TypeInv'
    BY <1>2, NumbersSame DEF TypeInv, TypeOK, RestOK, ProcsOK, OnPlan
  <1>3. ASSUME NEW x \in Procs, proc' = [proc EXCEPT ![x] = None], UNCHANGED <<tokens, begun>>, RestOK'
        PROVE  TypeInv'
    BY <1>3, NumbersEnd DEF TypeInv, TypeOK, RestOK, ProcsOK, OnPlan
  <1>4. CASE Submit
    BY <1>4, DoesSubmit, BeginsType
  <1>5. CASE \E x \in Procs, p \in Peers : BeginAdd(x, p)
    BY <1>5, DoesBeginAdd, BeginsType
  <1>6. CASE \E p \in Peers, op \in {"update", "dirs"}, gives \in Updates \union {NoGift} :
                BeginUpdate(p, op, gives)
    BY <1>6, DoesBeginUpdate, BeginsType
  <1>7. CASE \E p \in Peers : BeginRemove(p)
    BY <1>7, DoesBeginRemove, BeginsType
  <1>8. CASE \E members \in Memberships : BeginTeams(members)
    BY <1>8, DoesBeginTeams, BeginsType
  <1>9. CASE \E x \in Procs : Step(x)
    BY <1>9, StepType
  <1>10. ASSUME NEW x \in Procs, Interrupted(x)
         PROVE  /\ proc' = [proc EXCEPT ![x] = None] /\ crashes' \in 0..MaxCrashes
                /\ warned' \in BOOLEAN
    BY <1>1, <1>10, PeersAssumption DEF Interrupted, RestOK
  <1>11. CASE \E x \in Procs : CliCrash(x)
    <2>1. PICK x \in Procs : CliCrash(x)
      BY <1>11
    <2>2. RestOK'
      BY <1>1, <1>10, <2>1 DEF CliCrash, RestOK
    <2>. QED
      BY <1>3, <1>10, <2>1, <2>2 DEF CliCrash
  <1>12. CASE ServerCrash
    <2>1. Server \in Procs
      BY DEF Procs
    <2>2. RestOK'
      BY <1>1, <1>10, <1>12, <2>1 DEF ServerCrash, RestOK, NoServer
    <2>. QED
      BY <1>3, <1>10, <1>12, <2>1, <2>2 DEF ServerCrash
  <1>13. CASE ServerStart
    <2>1. RestOK'
      BY <1>1, <1>13, ServerType, LoadSetupsType DEF ServerStart, RestOK
    <2>. QED
      BY <1>2, <1>13, <2>1 DEF ServerStart
  <1>14. CASE RelayLoads
    <2>1. TokensOfFile \in SUBSET Bearers
      BY <1>1, SetOf DEF TokensOfFile, RestOK
    <2>2. RestOK'
      BY <1>1, <1>14, <2>1 DEF RelayLoads, RestOK
    <2>. QED
      BY <1>2, <1>14, <2>2 DEF RelayLoads
  <1>15. CASE RelayListens
    <2>1. RestOK'
      BY <1>1, <1>15 DEF RelayListens, RestOK
    <2>. QED
      BY <1>2, <1>15, <2>1 DEF RelayListens
  <1>16. CASE RelayCrash
    <2>1. RestOK'
      BY <1>1, <1>16, PeersAssumption DEF RelayCrash, RestOK
    <2>. QED
      BY <1>2, <1>16, <2>1 DEF RelayCrash
  <1>17. CASE \E p \in Peers : Install(p)
    <2>1. PICK p \in Peers : Install(p)
      BY <1>17
    <2>2. server.peers \in Setups /\ server.peers[p] \in SetupEntries
      BY <1>1, <2>1 DEF Install, RestOK, Setups
    <2>3. PICK c \in Yamls : c = server.peers[p].text
      BY <2>2 DEF SetupEntries
    <2>4. PICK f \in Files : f = <<"agent", p>>
      BY DEF Files, Dirs
    <2>5. WriteYaml(f, c)
      BY <2>1, <2>3, <2>4 DEF Install
    <2>6. RestOK'
      BY <1>1, <2>1, <2>5, WrittenYaml DEF Install, RestOK
    <2>. QED
      BY <1>2, <2>1, <2>6 DEF Install
  <1>18. CASE \E p \in Peers : StartDaemon(p) \/ EndDaemon(p) \/ ArmWatcher(p) \/ Watch(p)
    <2>1. PICK p \in Peers : StartDaemon(p) \/ EndDaemon(p) \/ ArmWatcher(p) \/ Watch(p)
      BY <1>18
    <2>2. DOMAIN daemon' = Peers
      BY <1>1, <2>1 DEF StartDaemon, EndDaemon, ArmWatcher, Watch, RestOK
    <2>3. \A q \in Peers \ Daemons : daemon'[q] = None
      BY <1>1, <2>1 DEF StartDaemon, EndDaemon, ArmWatcher, Watch, RestOK
    <2>4. UNCHANGED <<files, server, relay, proc, begun, crashes, cut, warned>>
      BY <2>1 DEF StartDaemon, EndDaemon, ArmWatcher, Watch
    <2>5. RestOK'
      BY <1>1, <2>2, <2>3, <2>4 DEF RestOK
    <2>. QED
      BY <1>2, <2>4, <2>5
  <1>19. CASE UNCHANGED vars
    <2>1. RestOK'
      BY <1>1, <1>19 DEF vars, RestOK
    <2>. QED
      BY <1>2, <1>19, <2>1 DEF vars
  <1>. QED
    BY <1>4, <1>5, <1>6, <1>7, <1>8, <1>9, <1>11, <1>12, <1>13, <1>14, <1>15, <1>16, <1>17, <1>18,
       <1>19 DEF Next

LEMMA TypeInit == Init => TypeInv
  <1>. SUFFICES ASSUME Init PROVE TypeInv
    OBVIOUS
  <1>1. tokens \in Seq(Bearers) /\ ToSet(tokens) = {} /\ IsInjective(tokens)
    BY SetOfEmpty, EmptySeq DEF Init
  <1>2. RestOK
    <2>1. /\ setup \in Setups \union {None} /\ yaml \in [Files -> Yamls \union {None}]
          /\ server \in [up : BOOLEAN, peers : Setups \union {None}]
      BY DEF Init
    <2>2. relay \in [state : {"down", "starting", "loaded", "up"}, tokens : SUBSET Bearers]
      BY DEF Init
    <2>3. DOMAIN daemon = Peers /\ \A p \in Peers \ Daemons : daemon[p] = None
      BY DEF Init, NoDaemon
    <2>4. begun \in 0..MaxOps /\ crashes \in 0..MaxCrashes /\ warned \in BOOLEAN
      <3>1. MaxOps \in Nat /\ MaxCrashes \in Nat
        BY PeersAssumption
      <3>2. 0 \in 0..MaxOps /\ 0 \in 0..MaxCrashes
        BY <3>1
      <3>. QED
        BY <3>2 DEF Init
    <2>. QED
      BY <1>1, <2>1, <2>2, <2>3, <2>4 DEF RestOK
  <1>3. ProcsOK /\ Numbered
    BY <1>1 DEF Init, ProcsOK, Numbered
  <1>. QED
    BY <1>2, <1>3, TypeParts

\* peer_ops.py, setup_server.py: every file and every memory has its shape, and
\* no bearer is in tokens.json twice, however operations overlap and whatever
\* is cut short.
THEOREM TypeCorrect == Spec => []TypeOK
  <1>1. Spec => []TypeInv
    BY TypeInit, TypeNext, PTL DEF Spec
  <1>2. TypeInv => TypeOK
    BY DEF TypeInv
  <1>. QED
    BY <1>1, <1>2, PTL

-----------------------------------------------------------------------------
(* What the files say together.  The operators of this section and the     *)
(* next have every file as a parameter: s is setup.json, T the bearers of  *)
(* tokens.json, y the yamls.  A and R are the peers with an addition or    *)
(* removal that is under way or was cut short, U the facts <<k, peer>>     *)
(* that an update does or did spread, and t says whether a change of the   *)
(* team is.                                                                *)

Kept(s, R) == Named(s) \ R
Of(y, S) == {f \in Files : f[2] \in S /\ y[f] # None}

\* Of a peer that is not listed nothing is left but what an operation that is
\* not complete has put there, and no other yaml has it in its team.
Forgets(s, T, y, A, R) ==
  \A p \in Peers \ Named(s) :
    /\ \A f \in Of(y, Named(s)) :
         /\ p \notin A => y[f].peers[p] = None /\ p \notin y[f].team
         /\ p \notin TeamJoiners => p \notin y[f].team
    /\ p \notin A => \A b \in T : b[1] # p
    /\ p \notin A /\ p \notin R => \A f \in Files : f[2] = p => y[f] = None

Knows(s, y, R) ==
  \A q \in Kept(s, R), f \in Of(y, Named(s)) : f[2] # q => y[f].peers[q] # None

Secrets(s, y) ==
  \A f, g \in Of(y, Named(s)) :
    f[2] # g[2] /\ y[f].peers[g[2]] # None /\ y[g].peers[f[2]] # None =>
      y[f].peers[g[2]].secret = y[g].peers[f[2]].secret

BearersIn(s, T, y, R) ==
  /\ \A p \in Named(s) : s[p].bearer[1] = p
  /\ \A p \in Kept(s, R) : s[p].bearer \in T
  /\ \A f \in Of(y, Named(s)) : y[f].bearer = s[f[2]].bearer

Teams(s, y, R, t) ==
  ~t => \A f, g \in Of(y, Named(s)), m \in Kept(s, R) : m \in y[f].team => m \in y[g].team

AboutIs(s, y, q, k) ==
  \A f \in Of(y, Named(s)) :
    /\ f[2] = q => y[f].about[k] = s[q].about[k]
    /\ f[2] # q /\ y[f].peers[q] # None => y[f].peers[q].about[k] = s[q].about[k]
AboutAll(s, y, U) == \A q \in Named(s), k \in Facts : <<k, q>> \notin U => AboutIs(s, y, q, k)

Story(s, T, y, A, R, U, t) ==
  /\ Forgets(s, T, y, A, R) /\ Knows(s, y, R) /\ Secrets(s, y)
  /\ BearersIn(s, T, y, R) /\ Teams(s, y, R, t) /\ AboutAll(s, y, U)

\* One yaml is replaced, or deleted.
Rewritten(y, y2, f, c) ==
  /\ f \in Files /\ y2[f] = c /\ \A g \in Files : g # f => y2[g] = y[g]

\* While more is open, less has to hold.
LEMMA StoryWeaker ==
  ASSUME NEW s, NEW T, NEW y, NEW A, NEW R, NEW U, NEW t \in BOOLEAN,
         Story(s, T, y, A, R, U, t),
         NEW A2, NEW R2, NEW U2, NEW t2 \in BOOLEAN,
         A \subseteq A2, R \subseteq R2, U \subseteq U2, t => t2
  PROVE  Story(s, T, y, A2, R2, U2, t2)
  <1>1. Forgets(s, T, y, A2, R2)
    BY DEF Story, Forgets
  <1>2. Knows(s, y, R2)
    BY DEF Story, Knows, Kept
  <1>3. BearersIn(s, T, y, R2)
    BY DEF Story, BearersIn, Kept
  <1>4. Teams(s, y, R2, t2)
    BY DEF Story, Teams, Kept
  <1>5. AboutAll(s, y, U2)
    BY DEF Story, AboutAll
  <1>. QED
    BY <1>1, <1>2, <1>3, <1>4, <1>5 DEF Story

LEMMA SecretsKept ==
  ASSUME NEW s, NEW y, NEW y2, Secrets(s, y), Of(y2, Named(s)) = Of(y, Named(s)),
         \A g \in Of(y, Named(s)), q \in Named(s) : y2[g].peers[q] # None =>
            y[g].peers[q] # None /\ y2[g].peers[q].secret = y[g].peers[q].secret
  PROVE  Secrets(s, y2)
  <1>1. \A f \in Of(y, Named(s)) : f[2] \in Named(s)
    BY DEF Of
  <1>2. SUFFICES ASSUME NEW f \in Of(y, Named(s)), NEW g \in Of(y, Named(s)), f[2] # g[2],
                        y2[f].peers[g[2]] # None, y2[g].peers[f[2]] # None
                 PROVE  y2[f].peers[g[2]].secret = y2[g].peers[f[2]].secret
    BY DEF Secrets
  <1>3. PICK p, q : p = f[2] /\ q = g[2]
    OBVIOUS
  <1>4. /\ y[f].peers[q] # None /\ y2[f].peers[q].secret = y[f].peers[q].secret
        /\ y[g].peers[p] # None /\ y2[g].peers[p].secret = y[g].peers[p].secret
    BY <1>1, <1>2, <1>3
  <1>5. y[f].peers[q].secret = y[g].peers[p].secret
    BY <1>2, <1>3, <1>4 DEF Secrets
  <1>. QED
    BY <1>3, <1>4, <1>5

\* An addition edits the yaml of another peer.
LEMMA StoryEditAdd ==
  ASSUME NEW s, NEW T, NEW y, NEW A, NEW R, NEW U, NEW t, Story(s, T, y, A, R, U, t),
         NEW p \in Peers, p \notin Named(s), p \in A,
         NEW f, NEW y2, NEW c, Rewritten(y, y2, f, c), f \in Of(y, Named(s)), c # None,
         c.bearer = y[f].bearer, c.about = y[f].about,
         \A q \in Peers : q # p => c.peers[q] = y[f].peers[q],
         \A m : m # p => (m \in c.team <=> m \in y[f].team),
         p \in c.team => p \in TeamJoiners \/ p \in y[f].team
  PROVE  Story(s, T, y2, A, R, U, t)
  <1>1. Named(s) \subseteq Peers /\ Of(y2, Named(s)) = Of(y, Named(s))
    BY DEF Rewritten, Of, Named
  <1>2. Forgets(s, T, y2, A, R)
    BY <1>1 DEF Story, Forgets, Rewritten, Of
  <1>3. Knows(s, y2, R)
    BY <1>1 DEF Story, Knows, Rewritten, Of, Kept
  <1>4. Secrets(s, y2)
    <2>1. \A g \in Of(y, Named(s)), q \in Named(s) : y2[g].peers[q] # None =>
             y[g].peers[q] # None /\ y2[g].peers[q].secret = y[g].peers[q].secret
      BY <1>1 DEF Rewritten, Of
    <2>. QED
      BY <1>1, <2>1, SecretsKept DEF Story
  <1>5. BearersIn(s, T, y2, R)
    BY <1>1 DEF Story, BearersIn, Rewritten, Of
  <1>6. Teams(s, y2, R, t)
    BY <1>1 DEF Story, Teams, Rewritten, Of, Kept
  <1>7. AboutAll(s, y2, U)
    BY <1>1 DEF Story, AboutAll, AboutIs, Rewritten, Of
  <1>. QED
    BY <1>2, <1>3, <1>4, <1>5, <1>6, <1>7 DEF Story

\* An update edits the yaml of another peer.
LEMMA StoryEditUpdate ==
  ASSUME NEW s, NEW T, NEW y, NEW A, NEW R, NEW U, NEW t, Story(s, T, y, A, R, U, t),
         NEW p \in Peers, p \in Named(s),
         NEW f, NEW y2, NEW c, Rewritten(y, y2, f, c), f \in Of(y, Named(s)), c # None, f[2] # p,
         c.bearer = y[f].bearer, c.about = y[f].about, c.team = y[f].team,
         \A q \in Peers : q # p => c.peers[q] = y[f].peers[q],
         y[f].peers[p] # None, c.peers[p] # None, c.peers[p].secret = y[f].peers[p].secret,
         \A k \in Facts : <<k, p>> \in U \/ c.peers[p].about[k] = y[f].peers[p].about[k]
  PROVE  Story(s, T, y2, A, R, U, t)
  <1>1. Named(s) \subseteq Peers /\ Of(y2, Named(s)) = Of(y, Named(s))
    BY DEF Rewritten, Of, Named
  <1>2. Forgets(s, T, y2, A, R)
    BY <1>1 DEF Story, Forgets, Rewritten, Of
  <1>3. Knows(s, y2, R)
    BY <1>1 DEF Story, Knows, Rewritten, Of, Kept
  <1>4. Secrets(s, y2)
    <2>1. \A g \in Of(y, Named(s)), q \in Named(s) : y2[g].peers[q] # None =>
             y[g].peers[q] # None /\ y2[g].peers[q].secret = y[g].peers[q].secret
      BY <1>1 DEF Rewritten, Of
    <2>. QED
      BY <1>1, <2>1, SecretsKept DEF Story
  <1>5. BearersIn(s, T, y2, R)
    BY <1>1 DEF Story, BearersIn, Rewritten, Of
  <1>6. Teams(s, y2, R, t)
    BY <1>1 DEF Story, Teams, Rewritten, Of, Kept
  <1>7. AboutAll(s, y2, U)
    <2>. SUFFICES ASSUME NEW q \in Named(s), NEW k \in Facts, <<k, q>> \notin U,
                         NEW g \in Of(y, Named(s))
                  PROVE  /\ g[2] = q => y2[g].about[k] = s[q].about[k]
                         /\ g[2] # q /\ y2[g].peers[q] # None =>
                              y2[g].peers[q].about[k] = s[q].about[k]
      BY <1>1 DEF AboutAll, AboutIs
    <2>1. /\ g[2] = q => y[g].about[k] = s[q].about[k]
          /\ g[2] # q /\ y[g].peers[q] # None => y[g].peers[q].about[k] = s[q].about[k]
      BY DEF Story, AboutAll, AboutIs
    <2>2. CASE g # f
      BY <2>1, <2>2 DEF Rewritten, Of
    <2>3. CASE g = f /\ q # p
      BY <1>1, <2>1, <2>3 DEF Rewritten
    <2>4. CASE g = f /\ q = p
      BY <2>1, <2>4 DEF Rewritten
    <2>. QED
      BY <2>2, <2>3, <2>4
  <1>. QED
    BY <1>2, <1>3, <1>4, <1>5, <1>6, <1>7 DEF Story

\* A removal edits the yaml of another peer.
LEMMA StoryEditRemove ==
  ASSUME NEW s, NEW T, NEW y, NEW A, NEW R, NEW U, NEW t, Story(s, T, y, A, R, U, t),
         NEW p \in Peers, p \in Named(s), p \in R,
         NEW f, NEW y2, NEW c, Rewritten(y, y2, f, c), f \in Of(y, Named(s)), c # None, f[2] # p,
         c.bearer = y[f].bearer, c.about = y[f].about, c.team = y[f].team \ {p},
         \A q \in Peers : q # p => c.peers[q] = y[f].peers[q],
         c.peers[p] = None
  PROVE  Story(s, T, y2, A, R, U, t)
  <1>1. Named(s) \subseteq Peers /\ Of(y2, Named(s)) = Of(y, Named(s))
    BY DEF Rewritten, Of, Named
  <1>2. Forgets(s, T, y2, A, R)
    BY <1>1 DEF Story, Forgets, Rewritten, Of
  <1>3. Knows(s, y2, R)
    BY <1>1 DEF Story, Knows, Rewritten, Of, Kept
  <1>4. Secrets(s, y2)
    <2>1. \A g \in Of(y, Named(s)), q \in Named(s) : y2[g].peers[q] # None =>
             y[g].peers[q] # None /\ y2[g].peers[q].secret = y[g].peers[q].secret
      BY <1>1 DEF Rewritten, Of
    <2>. QED
      BY <1>1, <2>1, SecretsKept DEF Story
  <1>5. BearersIn(s, T, y2, R)
    BY <1>1 DEF Story, BearersIn, Rewritten, Of
  <1>6. Teams(s, y2, R, t)
    BY <1>1 DEF Story, Teams, Rewritten, Of, Kept
  <1>7. AboutAll(s, y2, U)
    <2>. SUFFICES ASSUME NEW q \in Named(s), NEW k \in Facts, <<k, q>> \notin U,
                         NEW g \in Of(y, Named(s))
                  PROVE  /\ g[2] = q => y2[g].about[k] = s[q].about[k]
                         /\ g[2] # q /\ y2[g].peers[q] # None =>
                              y2[g].peers[q].about[k] = s[q].about[k]
      BY <1>1 DEF AboutAll, AboutIs
    <2>1. /\ g[2] = q => y[g].about[k] = s[q].about[k]
          /\ g[2] # q /\ y[g].peers[q] # None => y[g].peers[q].about[k] = s[q].about[k]
      BY DEF Story, AboutAll, AboutIs
    <2>2. CASE g # f
      BY <2>1, <2>2 DEF Rewritten, Of
    <2>3. CASE g = f
      BY <1>1, <2>1, <2>3 DEF Rewritten
    <2>. QED
      BY <2>2, <2>3
  <1>. QED
    BY <1>2, <1>3, <1>4, <1>5, <1>6, <1>7 DEF Story

\* PUT /teams edits a yaml.
LEMMA StoryEditTeams ==
  ASSUME NEW s, NEW T, NEW y, NEW A, NEW R, NEW U, Story(s, T, y, A, R, U, TRUE),
         NEW f, NEW y2, NEW c, Rewritten(y, y2, f, c), f \in Of(y, Named(s)), c # None,
         c.bearer = y[f].bearer, c.about = y[f].about, c.peers = y[f].peers,
         c.team \subseteq Named(s)
  PROVE  Story(s, T, y2, A, R, U, TRUE)
  <1>1. Named(s) \subseteq Peers /\ Of(y2, Named(s)) = Of(y, Named(s))
    BY DEF Rewritten, Of, Named
  <1>2. Forgets(s, T, y2, A, R)
    BY <1>1 DEF Story, Forgets, Rewritten, Of
  <1>3. Knows(s, y2, R)
    BY <1>1 DEF Story, Knows, Rewritten, Of, Kept
  <1>4. Secrets(s, y2)
    <2>1. \A g \in Of(y, Named(s)), q \in Named(s) : y2[g].peers[q] # None =>
             y[g].peers[q] # None /\ y2[g].peers[q].secret = y[g].peers[q].secret
      BY <1>1 DEF Rewritten, Of
    <2>. QED
      BY <1>1, <2>1, SecretsKept DEF Story
  <1>5. BearersIn(s, T, y2, R)
    BY <1>1 DEF Story, BearersIn, Rewritten, Of
  <1>6. Teams(s, y2, R, TRUE)
    BY DEF Teams
  <1>7. AboutAll(s, y2, U)
    BY <1>1 DEF Story, AboutAll, AboutIs, Rewritten, Of
  <1>. QED
    BY <1>2, <1>3, <1>4, <1>5, <1>6, <1>7 DEF Story

\* An update edits the peer's own yaml; what it does not spread is as in setup.json.
LEMMA StoryEditOwn ==
  ASSUME NEW s, NEW T, NEW y, NEW A, NEW R, NEW U, NEW t, Story(s, T, y, A, R, U, t),
         NEW p \in Peers, p \in Named(s),
         NEW f, NEW y2, NEW c, Rewritten(y, y2, f, c), f \in Of(y, Named(s)), c # None, f[2] = p,
         c.bearer = y[f].bearer, c.peers = y[f].peers, c.team = y[f].team,
         \A k \in Facts : \/ <<k, p>> \in U \/ c.about[k] = y[f].about[k]
                         \/ c.about[k] = s[p].about[k]
  PROVE  Story(s, T, y2, A, R, U, t)
  <1>1. Named(s) \subseteq Peers /\ Of(y2, Named(s)) = Of(y, Named(s))
    BY DEF Rewritten, Of, Named
  <1>2. Forgets(s, T, y2, A, R)
    BY <1>1 DEF Story, Forgets, Rewritten, Of
  <1>3. Knows(s, y2, R)
    BY <1>1 DEF Story, Knows, Rewritten, Of, Kept
  <1>4. Secrets(s, y2)
    <2>1. \A g \in Of(y, Named(s)), q \in Named(s) : y2[g].peers[q] # None =>
             y[g].peers[q] # None /\ y2[g].peers[q].secret = y[g].peers[q].secret
      BY <1>1 DEF Rewritten, Of
    <2>. QED
      BY <1>1, <2>1, SecretsKept DEF Story
  <1>5. BearersIn(s, T, y2, R)
    BY <1>1 DEF Story, BearersIn, Rewritten, Of
  <1>6. Teams(s, y2, R, t)
    BY <1>1 DEF Story, Teams, Rewritten, Of, Kept
  <1>7. AboutAll(s, y2, U)
    BY <1>1 DEF Story, AboutAll, AboutIs, Rewritten, Of
  <1>. QED
    BY <1>2, <1>3, <1>4, <1>5, <1>6, <1>7 DEF Story

\* A listed peer's yaml is replaced by another copy of it.
LEMMA StoryCopy ==
  ASSUME NEW s, NEW T, NEW y, NEW A, NEW R, NEW U, NEW t, Story(s, T, y, A, R, U, t),
         NEW f, NEW y2, NEW c, Rewritten(y, y2, f, c), f[2] \in Named(s), c # None,
         NEW g \in Files, g[2] = f[2], c = y[g]
  PROVE  Story(s, T, y2, A, R, U, t)
  <1>. DEFINE h(k) == IF k = f THEN g ELSE k
  <1>1. Named(s) \subseteq Peers
    BY DEF Named
  <1>2. \A k \in Of(y2, Named(s)) : h(k) \in Of(y, Named(s)) /\ h(k)[2] = k[2] /\ y2[k] = y[h(k)]
    BY DEF Rewritten, Of
  <1>. HIDE DEF h
  <1>3. Forgets(s, T, y2, A, R)
    <2>1. \A p \in Peers \ Named(s) : \A k \in Files : k[2] = p => y2[k] = y[k]
      BY DEF Rewritten
    <2>. QED
      BY <1>2, <2>1 DEF Story, Forgets
  <1>4. Knows(s, y2, R)
    BY <1>2 DEF Story, Knows
  <1>5. Secrets(s, y2)
    <2>1. SUFFICES ASSUME NEW j \in Of(y2, Named(s)), NEW k \in Of(y2, Named(s)), j[2] # k[2],
                          y2[j].peers[k[2]] # None, y2[k].peers[j[2]] # None
                   PROVE  y2[j].peers[k[2]].secret = y2[k].peers[j[2]].secret
      BY DEF Secrets
    <2>2. /\ h(j) \in Of(y, Named(s)) /\ h(j)[2] = j[2] /\ y2[j] = y[h(j)]
          /\ h(k) \in Of(y, Named(s)) /\ h(k)[2] = k[2] /\ y2[k] = y[h(k)]
      BY <1>2, <2>1
    <2>. QED
      BY <2>1, <2>2 DEF Story, Secrets
  <1>6. BearersIn(s, T, y2, R)
    BY <1>2 DEF Story, BearersIn
  <1>7. Teams(s, y2, R, t)
    BY <1>2 DEF Story, Teams
  <1>8. AboutAll(s, y2, U)
    BY <1>2 DEF Story, AboutAll, AboutIs
  <1>. QED
    BY <1>3, <1>4, <1>5, <1>6, <1>7, <1>8 DEF Story

\* A yaml of a peer that is not listed is written or deleted.
LEMMA StoryUnlisted ==
  ASSUME NEW s, NEW T, NEW y, NEW A, NEW R, NEW U, NEW t, Story(s, T, y, A, R, U, t),
         NEW f, NEW y2, NEW c, Rewritten(y, y2, f, c), f[2] \notin Named(s),
         f[2] \in A \/ f[2] \in R
  PROVE  Story(s, T, y2, A, R, U, t)
  <1>1. /\ Named(s) \subseteq Peers /\ Of(y2, Named(s)) = Of(y, Named(s))
        /\ \A g \in Of(y, Named(s)) : y2[g] = y[g]
    BY DEF Rewritten, Of, Named
  <1>2. Forgets(s, T, y2, A, R)
    BY <1>1 DEF Story, Forgets, Rewritten
  <1>3. Knows(s, y2, R) /\ Secrets(s, y2) /\ BearersIn(s, T, y2, R) /\ Teams(s, y2, R, t)
    BY <1>1 DEF Story, Knows, Secrets, BearersIn, Teams
  <1>4. AboutAll(s, y2, U)
    BY <1>1 DEF Story, AboutAll, AboutIs
  <1>. QED
    BY <1>2, <1>3, <1>4 DEF Story

\* remove_peer_op takes a peer's bearers out of tokens.json.
LEMMA StoryTakeTokens ==
  ASSUME NEW s, NEW T, NEW y, NEW A, NEW R, NEW U, NEW t, Story(s, T, y, A, R, U, t),
         NEW p \in Peers, p \in R, NEW T2, T2 = {b \in T : b[1] # p}
  PROVE  Story(s, T2, y, A, R, U, t)
  <1>1. Forgets(s, T2, y, A, R)
    BY DEF Story, Forgets
  <1>2. BearersIn(s, T2, y, R)
    BY DEF Story, BearersIn, Kept
  <1>. QED
    BY <1>1, <1>2 DEF Story

\* add_peer_op appends the new peer's bearer to tokens.json.
LEMMA StoryGiveToken ==
  ASSUME NEW s, NEW T, NEW y, NEW A, NEW R, NEW U, NEW t, Story(s, T, y, A, R, U, t),
         NEW p \in Peers, p \in A, NEW b, b[1] = p, NEW T2, T2 = T \union {b}
  PROVE  Story(s, T2, y, A, R, U, t)
  <1>1. Forgets(s, T2, y, A, R)
    BY DEF Story, Forgets
  <1>2. BearersIn(s, T2, y, R)
    BY DEF Story, BearersIn
  <1>. QED
    BY <1>1, <1>2 DEF Story

\* What add_peer_op has made of another peer's yaml.
Added(o, c) ==
  /\ c.peers[o.peer] # None /\ c.peers[o.peer].secret = o.n
  /\ c.peers[o.peer].about = Original(o.n)
  /\ o.peer \in TeamJoiners => o.peer \in c.team

\* The new peer's own yaml, as it has to be when setup.json lists the peer.
NewText(o, s, y, A, R, t) ==
  LET c == o.text IN
  /\ c # None /\ c.bearer = <<o.peer, o.n>> /\ c.about = Original(o.n)
  /\ \A q \in Peers : /\ q \notin Named(s) => c.peers[q] = None
                      /\ q \in Named(s) => /\ c.peers[q] # None /\ c.peers[q].secret = o.n
                                           /\ c.peers[q].about = s[q].about
  /\ o.peer \in c.team <=> o.peer \in TeamJoiners
  /\ \A q \in Peers \ Named(s) : q # o.peer =>
       /\ q \notin A => q \notin c.team
       /\ q \notin TeamJoiners => q \notin c.team
  /\ ~t => \A f \in Of(y, Named(s)), m \in Kept(s, R) : m \in c.team <=> m \in y[f].team

\* setup.json lists the new peer.
LEMMA StoryList ==
  ASSUME NEW s, NEW T, NEW y, NEW A, NEW R, NEW U, NEW t, Story(s, T, y, A, R, U, t),
         NEW o, NEW p \in Peers, p = o.peer, p \notin Named(s), p \in A,
         \A f \in Of(y, Named(s)) : Added(o, y[f]),
         NewText(o, s, y, A, R, t),
         \A f \in Files : f[2] = p => y[f] = o.text,
         <<p, o.n>> \in T,
         NEW s2, NEW e, e # None, e.bearer = <<p, o.n>>, e.about = Original(o.n),
         Relisted(s, s2, p, e)
  PROVE  Story(s2, T, y, A, R, U, t)
  <1>1. s2[p] = e /\ \A q \in Peers : q # p => s2[q] = s[q]
    BY DEF Relisted
  <1>2. Named(s) \subseteq Peers /\ Named(s2) = Named(s) \union {p}
    BY <1>1 DEF Named
  <1>3. PICK c : c = o.text
    OBVIOUS
  <1>4. \A f \in Of(y, Named(s2)) : \/ f \in Of(y, Named(s)) /\ f[2] # p
                                    \/ f[2] = p /\ y[f] = c
    BY <1>2, <1>3 DEF Of
  <1>5. NewText(o, s, y, A, R, t) /\ p = o.peer /\ c = o.text
    BY <1>3
  <1>6. Forgets(s2, T, y, A, R)
    <2>1. ASSUME NEW q \in Peers \ Named(s2)
          PROVE  /\ \A f \in Of(y, Named(s2)) :
                       /\ q \notin A => y[f].peers[q] = None /\ q \notin y[f].team
                       /\ q \notin TeamJoiners => q \notin y[f].team
                 /\ q \notin A => \A b \in T : b[1] # q
                 /\ q \notin A /\ q \notin R => \A f \in Files : f[2] = q => y[f] = None
      <3>1. q \in Peers \ Named(s) /\ q # p
        BY <1>2
      <3>2. \A f \in Of(y, Named(s)) :
                       /\ q \notin A => y[f].peers[q] = None /\ q \notin y[f].team
                       /\ q \notin TeamJoiners => q \notin y[f].team
        BY <3>1 DEF Story, Forgets
      <3>3. /\ q \notin A => c.peers[q] = None /\ q \notin c.team
            /\ q \notin TeamJoiners => q \notin c.team
        BY <1>5, <3>1 DEF NewText
      <3>4. /\ q \notin A => \A b \in T : b[1] # q
            /\ q \notin A /\ q \notin R => \A f \in Files : f[2] = q => y[f] = None
        BY <3>1 DEF Story, Forgets
      <3>. QED
        BY <1>4, <3>2, <3>3, <3>4
    <2>. QED
      BY <2>1 DEF Forgets
  <1>7. Knows(s2, y, R)
    <2>1. SUFFICES ASSUME NEW q \in Kept(s2, R), NEW f \in Of(y, Named(s2)), f[2] # q
                   PROVE  y[f].peers[q] # None
      BY DEF Knows
    <2>2. CASE f[2] = p /\ y[f] = c
      <3>1. q \in Named(s)
        BY <1>2, <2>1, <2>2 DEF Kept
      <3>. QED
        BY <1>2, <1>5, <2>2, <3>1 DEF NewText
    <2>3. CASE f \in Of(y, Named(s)) /\ f[2] # p
      <3>1. CASE q = p
        BY <2>3, <3>1 DEF Added
      <3>2. CASE q # p
        <4>1. q \in Kept(s, R)
          BY <1>2, <3>2 DEF Kept
        <4>. QED
          BY <2>1, <2>3, <4>1 DEF Story, Knows
      <3>. QED
        BY <3>1, <3>2
    <2>. QED
      BY <1>4, <2>2, <2>3
  <1>8. Secrets(s2, y)
    <2>1. SUFFICES ASSUME NEW f \in Of(y, Named(s2)), NEW g \in Of(y, Named(s2)), f[2] # g[2],
                          y[f].peers[g[2]] # None, y[g].peers[f[2]] # None
                   PROVE  y[f].peers[g[2]].secret = y[g].peers[f[2]].secret
      BY DEF Secrets
    <2>2. ASSUME NEW k \in Of(y, Named(s)) PROVE y[k].peers[p].secret = o.n /\ k[2] \in Named(s)
      BY <2>2 DEF Added, Of
    <2>3. \A q \in Named(s) : c.peers[q].secret = o.n
      BY <1>2, <1>5 DEF NewText
    <2>4. CASE f \in Of(y, Named(s)) /\ f[2] # p /\ g \in Of(y, Named(s)) /\ g[2] # p
      BY <2>1, <2>4 DEF Story, Secrets
    <2>5. CASE f \in Of(y, Named(s)) /\ f[2] # p /\ g[2] = p /\ y[g] = c
      BY <2>2, <2>3, <2>5
    <2>6. CASE g \in Of(y, Named(s)) /\ g[2] # p /\ f[2] = p /\ y[f] = c
      BY <2>2, <2>3, <2>6
    <2>. QED
      BY <1>4, <2>1, <2>4, <2>5, <2>6
  <1>9. BearersIn(s2, T, y, R)
    <2>1. s2[p].bearer = <<p, o.n>> /\ c.bearer = <<p, o.n>>
      BY <1>1, <1>5 DEF NewText
    <2>2. \A q \in Named(s2) : s2[q].bearer[1] = q
      BY <1>1, <1>2, <2>1 DEF Story, BearersIn
    <2>3. \A q \in Kept(s2, R) : s2[q].bearer \in T
      BY <1>1, <1>2, <2>1 DEF Story, BearersIn, Kept
    <2>4. \A f \in Of(y, Named(s2)) : y[f].bearer = s2[f[2]].bearer
      <3>1. SUFFICES ASSUME NEW f \in Of(y, Named(s2)) PROVE y[f].bearer = s2[f[2]].bearer
        OBVIOUS
      <3>2. f[2] \in Peers
        BY <1>2 DEF Of
      <3>3. CASE f \in Of(y, Named(s)) /\ f[2] # p
        BY <1>1, <3>2, <3>3 DEF Story, BearersIn
      <3>4. CASE f[2] = p /\ y[f] = c
        BY <2>1, <3>4
      <3>. QED
        BY <1>4, <3>3, <3>4
    <2>. QED
      BY <2>2, <2>3, <2>4 DEF BearersIn
  <1>10. Teams(s2, y, R, t)
    <2>1. SUFFICES ASSUME ~t, NEW f \in Of(y, Named(s2)), NEW g \in Of(y, Named(s2)),
                          NEW m \in Kept(s2, R), m \in y[f].team
                   PROVE  m \in y[g].team
      BY DEF Teams
    <2>2. CASE m = p
      <3>1. p \in TeamJoiners
        <4>1. CASE f \in Of(y, Named(s))
          BY <2>1, <2>2, <4>1 DEF Story, Forgets
        <4>2. CASE y[f] = c
          BY <1>5, <2>1, <2>2, <4>2 DEF NewText
        <4>. QED
          BY <1>4, <4>1, <4>2
      <3>2. CASE g \in Of(y, Named(s))
        BY <2>2, <3>1, <3>2 DEF Added
      <3>3. CASE y[g] = c
        BY <1>5, <2>2, <3>1, <3>3 DEF NewText
      <3>. QED
        BY <1>4, <3>2, <3>3
    <2>3. CASE m # p
      <3>1. m \in Kept(s, R)
        BY <1>2, <2>3 DEF Kept
      <3>2. \A k \in Of(y, Named(s)) : m \in c.team <=> m \in y[k].team
        BY <1>5, <2>1, <3>1 DEF NewText
      <3>3. \A k, l \in Of(y, Named(s)) : m \in y[k].team => m \in y[l].team
        BY <2>1, <3>1 DEF Story, Teams
      <3>. QED
        BY <1>4, <2>1, <3>2, <3>3
    <2>. QED
      BY <2>2, <2>3
  <1>11. AboutAll(s2, y, U)
    <2>1. SUFFICES ASSUME NEW q \in Named(s2), NEW k \in Facts, <<k, q>> \notin U,
                          NEW f \in Of(y, Named(s2))
                   PROVE  /\ f[2] = q => y[f].about[k] = s2[q].about[k]
                          /\ f[2] # q /\ y[f].peers[q] # None =>
                               y[f].peers[q].about[k] = s2[q].about[k]
      BY DEF AboutAll, AboutIs
    <2>2. CASE q = p
      BY <1>1, <1>4, <1>5, <2>2 DEF NewText, Added
    <2>3. CASE q # p
      <3>1. q \in Named(s) /\ s2[q] = s[q]
        BY <1>1, <1>2, <2>3
      <3>2. c.peers[q].about = s[q].about
        BY <1>2, <1>5, <3>1 DEF NewText
      <3>3. CASE f \in Of(y, Named(s))
        BY <2>1, <3>1, <3>3 DEF Story, AboutAll, AboutIs
      <3>4. CASE f[2] = p /\ y[f] = c
        BY <2>3, <3>1, <3>2, <3>4
      <3>. QED
        BY <1>4, <3>3, <3>4
    <2>. QED
      BY <2>2, <2>3
  <1>. QED
    BY <1>6, <1>7, <1>8, <1>9, <1>10, <1>11 DEF Story

\* setup.json lists a peer no more.
LEMMA StoryUnlist ==
  ASSUME NEW s, NEW T, NEW y, NEW A, NEW R, NEW U, NEW t, Story(s, T, y, A, R, U, t),
         NEW p \in Peers, p \in Named(s), p \in R,
         \A b \in T : b[1] # p,
         \A f \in Of(y, Named(s)) : f[2] # p => y[f].peers[p] = None /\ p \notin y[f].team,
         NEW s2, Relisted(s, s2, p, None)
  PROVE  Story(s2, T, y, A, R, U, t)
  <1>1. s2[p] = None /\ \A q \in Peers : q # p => s2[q] = s[q]
    BY DEF Relisted
  <1>2. Named(s) \subseteq Peers /\ Named(s2) = Named(s) \ {p} /\ Kept(s2, R) = Kept(s, R)
    BY <1>1 DEF Named, Kept
  <1>3. \A f \in Of(y, Named(s2)) : f \in Of(y, Named(s)) /\ f[2] # p /\ s2[f[2]] = s[f[2]]
    BY <1>1, <1>2 DEF Of
  <1>4. Forgets(s2, T, y, A, R)
    BY <1>2, <1>3 DEF Story, Forgets
  <1>5. Knows(s2, y, R) /\ Secrets(s2, y) /\ Teams(s2, y, R, t)
    BY <1>2, <1>3 DEF Story, Knows, Secrets, Teams
  <1>6. \A q \in Named(s2) : q \in Named(s) /\ s2[q] = s[q]
    BY <1>1, <1>2
  <1>7. BearersIn(s2, T, y, R)
    BY <1>2, <1>3, <1>6 DEF Story, BearersIn, Kept
  <1>8. AboutAll(s2, y, U)
    <2>1. SUFFICES ASSUME NEW q \in Named(s2), NEW k \in Facts, <<k, q>> \notin U,
                          NEW f \in Of(y, Named(s2))
                   PROVE  /\ f[2] = q => y[f].about[k] = s2[q].about[k]
                          /\ f[2] # q /\ y[f].peers[q] # None =>
                               y[f].peers[q].about[k] = s2[q].about[k]
      BY DEF AboutAll, AboutIs
    <2>2. AboutIs(s, y, q, k) /\ f \in Of(y, Named(s)) /\ s2[q] = s[q]
      BY <1>3, <1>6, <2>1 DEF Story, AboutAll
    <2>. QED
      BY <2>2 DEF AboutIs
  <1>. QED
    BY <1>4, <1>5, <1>7, <1>8 DEF Story

\* setup.json takes over what an update says.
LEMMA StoryUpdate ==
  ASSUME NEW s, NEW T, NEW y, NEW A, NEW R, NEW U, NEW t, Story(s, T, y, A, R, U, t),
         NEW p \in Peers, p \in Named(s),
         NEW s2, NEW e, e # None, e.bearer = s[p].bearer,
         \A k \in Facts : <<k, p>> \in U \/ e.about[k] = s[p].about[k],
         Relisted(s, s2, p, e)
  PROVE  Story(s2, T, y, A, R, U, t)
  <1>1. s2[p] = e /\ \A q \in Peers : q # p => s2[q] = s[q]
    BY DEF Relisted
  <1>2. Named(s) \subseteq Peers /\ Named(s2) = Named(s)
    BY <1>1 DEF Named
  <1>3. \A q \in Named(s) : /\ s2[q].bearer = s[q].bearer
                           /\ \A k \in Facts : <<k, q>> \notin U => s2[q].about[k] = s[q].about[k]
    BY <1>1, <1>2
  <1>4. Forgets(s2, T, y, A, R) /\ Knows(s2, y, R) /\ Secrets(s2, y) /\ Teams(s2, y, R, t)
    BY <1>2 DEF Story, Forgets, Knows, Secrets, Teams, Kept
  <1>5. BearersIn(s2, T, y, R)
    BY <1>2, <1>3 DEF Story, BearersIn, Kept, Of
  <1>6. AboutAll(s2, y, U)
    BY <1>2, <1>3 DEF Story, AboutAll, AboutIs
  <1>. QED
    BY <1>2, <1>4, <1>5, <1>6 DEF Story

\* The form has been written.
LEMMA StoryForm ==
  ASSUME NEW n \in Nat, NEW T, NEW y, T = Founders \X {n},
         \A f \in Files : y[f] = IF f[1] = "project" /\ f[2] \in Founders
                                 THEN FormYaml(f[2], n) ELSE None
  PROVE  /\ Story(FormSetup(n), T, y, {}, {}, {}, FALSE)
         /\ Named(FormSetup(n)) = Founders
  <1>1. PICK s : s = FormSetup(n)
    OBVIOUS
  <1>2. Founders \subseteq Peers /\ \A p \in Founders : FormYaml(p, n) # None /\ FormEntry(p, n) # None
    BY FormYamlType, NoneAssumption DEF Peers
  <1>3. Named(s) = Founders /\ \A p \in Founders : s[p] = FormEntry(p, n)
    BY <1>1, <1>2 DEF Named, FormSetup
  <1>4. \A f \in Of(y, Founders) : f[2] \in Founders /\ y[f] = FormYaml(f[2], n)
    BY DEF Of
  <1>5. \A p \in Founders : LET c == FormYaml(p, n) IN
          /\ c.bearer = <<p, n>> /\ c.about = Original(n) /\ c.team = Founders \intersect TeamJoiners
          /\ \A q \in Peers : /\ q \notin Founders => c.peers[q] = None
                              /\ q \in Founders /\ q # p =>
                                   /\ c.peers[q] = [secret |-> n, about |-> Original(n)]
    BY <1>2 DEF FormYaml
  <1>6. \A p \in Founders : s[p].bearer = <<p, n>> /\ s[p].about = Original(n)
    <2>1. ASSUME NEW p \in Founders PROVE s[p].bearer = <<p, n>> /\ s[p].about = Original(n)
      <3>1. PICK e : e = FormEntry(p, n)
        OBVIOUS
      <3>2. s[p] = e
        BY <1>3, <3>1
      <3>3. e.bearer = <<p, n>> /\ e.about = Original(n)
        BY <3>1 DEF FormEntry
      <3>. QED
        BY <3>2, <3>3
    <2>. QED
      BY <2>1
  <1>7. [secret |-> n, about |-> Original(n)] # None
    BY OriginalFacts, NoneAssumption DEF PeerEntries
  <1>8. Forgets(s, T, y, {}, {})
    BY <1>2, <1>3, <1>4, <1>5 DEF Forgets
  <1>9. Knows(s, y, {})
    BY <1>2, <1>3, <1>4, <1>5, <1>7 DEF Knows, Kept
  <1>10. Secrets(s, y)
    BY <1>2, <1>3, <1>4, <1>5 DEF Secrets
  <1>11. BearersIn(s, T, y, {})
    <2>1. \A p \in Founders : <<p, n>>[1] = p /\ <<p, n>> \in T
      OBVIOUS
    <2>2. ASSUME NEW p \in Founders PROVE s[p].bearer[1] = p /\ s[p].bearer \in T
      <3>1. PICK b : b = <<p, n>>
        OBVIOUS
      <3>2. s[p].bearer = b
        BY <1>6, <3>1
      <3>3. b[1] = p /\ b \in T
        BY <3>1
      <3>. QED
        BY <3>2, <3>3
    <2>3. \A f \in Of(y, Founders) : y[f].bearer = s[f[2]].bearer
      BY <1>4, <1>5, <1>6
    <2>. QED
      BY <1>3, <2>2, <2>3 DEF BearersIn, Kept
  <1>12. Teams(s, y, {}, FALSE)
    BY <1>3, <1>4, <1>5 DEF Teams
  <1>13. AboutAll(s, y, {})
    BY <1>2, <1>3, <1>4, <1>5, <1>6 DEF AboutAll, AboutIs
  <1>. QED
    BY <1>1, <1>3, <1>8, <1>9, <1>10, <1>11, <1>12, <1>13 DEF Story

\* An operation is complete.
LEMMA StoryAddDone ==
  ASSUME NEW s, NEW T, NEW y, NEW A, NEW R, NEW U, NEW t, Story(s, T, y, A, R, U, t),
         NEW p, p \in Named(s)
  PROVE  Story(s, T, y, A \ {p}, R, U, t)
  BY DEF Story, Forgets

LEMMA StoryRemoveDone ==
  ASSUME NEW s, NEW T, NEW y, NEW A, NEW R, NEW U, NEW t, Story(s, T, y, A, R, U, t),
         NEW p, p \notin Named(s), \A f \in Files : f[2] = p => y[f] = None
  PROVE  Story(s, T, y, A, R \ {p}, U, t)
  <1>1. Kept(s, R \ {p}) = Kept(s, R)
    BY DEF Kept
  <1>2. Forgets(s, T, y, A, R \ {p})
    BY DEF Story, Forgets
  <1>3. Knows(s, y, R \ {p}) /\ BearersIn(s, T, y, R \ {p}) /\ Teams(s, y, R \ {p}, t)
    BY <1>1 DEF Story, Knows, BearersIn, Teams
  <1>. QED
    BY <1>2, <1>3 DEF Story

LEMMA StoryUpdateDone ==
  ASSUME NEW s, NEW T, NEW y, NEW A, NEW R, NEW U, NEW t, Story(s, T, y, A, R, U, t),
         NEW U2, \A q \in Named(s), k \in Facts :
                   <<k, q>> \in U2 \/ <<k, q>> \notin U \/ AboutIs(s, y, q, k)
  PROVE  Story(s, T, y, A, R, U2, t)
  BY DEF Story, AboutAll

LEMMA StoryTeamsDone ==
  ASSUME NEW s, NEW T, NEW y, NEW A, NEW R, NEW U, NEW t, Story(s, T, y, A, R, U, t),
         NEW members, \A f \in Of(y, Named(s)) : y[f].team = members
  PROVE  Story(s, T, y, A, R, U, FALSE)
  BY DEF Story, Teams

-----------------------------------------------------------------------------
(* How far an operation has come                                           *)

Left(o) == ToSet(o.todo)

\* setup.json is still as the operation has read it.
Before(o) ==
  \/ o.op = "add" /\ o.at <= 6
  \/ o.op = "remove" /\ o.at <= 3
  \/ o.op = "update" /\ o.at <= 4
  \/ o.op = "dirs" /\ o.at <= 2
  \/ o.op = "teams"

Snapshot(o, s, T) ==
  /\ Before(o) => o.setup = s
  /\ o.op = "add" => (Before(o) <=> o.peer \notin Named(s))
  /\ o.op = "remove" => (Before(o) <=> o.peer \in Named(s))
  /\ o.op \in {"update", "dirs"} => o.peer \in Named(s)
  /\ o.op = "teams" => o.members \subseteq Named(s)
  /\ o.op \in {"add", "remove"} /\ o.at >= 2 => ToSet(o.tokens) = T

LoopPart(o, s) ==
  /\ \/ o.op = "teams"
     \/ o.op \in {"add", "remove"} /\ o.at = 2
     \/ o.op = "update" /\ o.at = 3
     => \A f \in Left(o) : f[2] \in Named(s) /\ f[2] # o.peer
  /\ \/ o.op = "add" /\ o.at = 4
     \/ o.op = "remove" /\ o.at = 5
     \/ o.op \in {"update", "dirs"} /\ o.at = 1
     => \A f \in Left(o) : f[2] = o.peer

AddPart(o, s, T, y, A, R, t) ==
  o.op = "add" =>
    /\ o.at = 2 => \A f \in Of(y, Named(s)) : f \in Left(o) \/ Added(o, y[f])
    /\ o.at \in 3..6 => \A f \in Of(y, Named(s)) : Added(o, y[f])
    /\ o.at \in 4..6 => NewText(o, s, y, A, R, t)
    /\ o.at = 4 => \A f \in Files : f[2] = o.peer => f \in Left(o) \/ y[f] = o.text
    /\ o.at \in 5..6 => \A f \in Files : f[2] = o.peer => y[f] = o.text
    /\ o.at = 6 => <<o.peer, o.n>> \in T

\* What remove_peer_op has made of another peer's yaml.
Gone(o, c) == c.peers[o.peer] = None /\ o.peer \notin c.team

RemovePart(o, s, T, y) ==
  o.op = "remove" =>
    /\ o.at >= 2 => \A b \in T : b[1] # o.peer
    /\ o.at = 2 => \A f \in Of(y, Named(s)) : f[2] # o.peer => f \in Left(o) \/ Gone(o, y[f])
    /\ o.at = 3 => \A f \in Of(y, Named(s)) : f[2] # o.peer => Gone(o, y[f])
    /\ o.at = 5 => \A f \in Files : f[2] = o.peer => f \in Left(o) \/ y[f] = None
    /\ o.at >= 6 => \A f \in Files : f[2] = o.peer => y[f] = None

\* What update_peer_op has made of another peer's yaml.
Told(o, c) ==
  \/ c.peers[o.peer] = None
  \/ \A k \in Spread(o) : c.peers[o.peer].about[k] = o.gives[k]

\* What it has made of the peer's own one.
Renewed(o, c) == \A k \in Spread(o) : c.about[k] = o.gives[k]

UpdatePart(o, s, y) ==
  o.op = "update" =>
    /\ o.at = 1 => \A f \in Files : f[2] = o.peer /\ y[f] # None => f \in Left(o) \/ Renewed(o, y[f])
    /\ o.at \in 2..4 => \A f \in Files : f[2] = o.peer /\ y[f] # None => Renewed(o, y[f])
    /\ o.at = 3 => \A f \in Of(y, Named(s)) : f[2] # o.peer => f \in Left(o) \/ Told(o, y[f])
    /\ o.at = 4 => \A f \in Of(y, Named(s)) : f[2] # o.peer => Told(o, y[f])
    /\ o.at = 5 => \A k \in Spread(o) : AboutIs(s, y, o.peer, k)

TeamsPart(o, s, y) ==
  o.op = "teams" => \A f \in Of(y, Named(s)) : f \in Left(o) \/ y[f].team = o.members

Part(o, s, T, y, A, R, t) ==
  /\ Snapshot(o, s, T) /\ LoopPart(o, s) /\ AddPart(o, s, T, y, A, R, t)
  /\ RemovePart(o, s, T, y) /\ UpdatePart(o, s, y) /\ TeamsPart(o, s, y)

SubmitPart(o, T, y) ==
  o.at >= 2 =>
    /\ T = Founders \X {o.n}
    /\ \A f \in Left(o) : f[1] = "project" /\ f[2] \in Founders
    /\ \A f \in Files :
         /\ ~(f[1] = "project" /\ f[2] \in Founders) => y[f] = None
         /\ f[1] = "project" /\ f[2] \in Founders => f \in Left(o) \/ y[f] = FormYaml(f[2], o.n)
    /\ o.at >= 3 => Left(o) = {}

OpenFor(op) == {p \in Peers : <<op, p>> \in InChange}
OpenFacts == {c \in Facts \X Peers : c \in InChange}
TeamsOpen == ~NoneOpen({"teams"})
Opens(A, R, U, t) ==
  A = OpenFor("add") /\ R = OpenFor("remove") /\ U = OpenFacts /\ t = TeamsOpen

Alone == \A x, y \in Procs : proc[x] # None /\ proc[y] # None => x = y

\* The form is sent before everything else, and installed before any operation.
FormPart ==
  /\ setup = None => /\ cut = {} /\ server.peers = None
                     /\ \A x \in Procs : proc[x] # None => proc[x].op = "submit" /\ x = Server
  /\ setup # None => /\ begun >= 1
                     /\ \A x \in Procs : proc[x] # None => proc[x].op # "submit"
  /\ setup # None /\ begun <= 1 =>
       /\ \A x \in Procs : proc[x] = None
       /\ server.peers # None => server.peers = setup
       /\ \A p \in Named(setup) : yaml[<<"project", p>>] = setup[p].text

StoryNow ==
  setup # None =>
    \E A, R, U : \E t \in BOOLEAN : Opens(A, R, U, t) /\ Story(setup, TokensOfFile, yaml, A, R, U, t)

PartNow(o) ==
  IF o.op = "submit" THEN SubmitPart(o, TokensOfFile, yaml)
  ELSE \E A, R, U : \E t \in BOOLEAN :
         Opens(A, R, U, t) /\ Part(o, setup, TokensOfFile, yaml, A, R, t)

PartsNow == \A x \in Procs : proc[x] # None => PartNow(proc[x])

FilesInv == TypeInv /\ Alone /\ FormPart /\ StoryNow /\ PartsNow

\* What operations change is a fact of a peer, or of another kind.
LEMMA ChangesKind ==
  ASSUME NEW o, OnPlan(o), NEW c \in Changes(o)
  PROVE  /\ c[2] = o.peer
         /\ o.op = "update" => c[1] \in Facts
         /\ o.op # "update" => c = <<o.op, o.peer>> /\ c[1] = o.op /\ c \notin Facts \X Peers
  <1>1. CASE o.op = "update"
    <2>1. PICK k \in Spread(o) : c = <<k, o.peer>>
      BY <1>1, ChangesFacts
    <2>2. k \in Facts
      BY GivenFacts
    <2>. QED
      BY <1>1, <2>1, <2>2
  <1>2. CASE o.op # "update"
    <2>1. c = <<o.op, o.peer>>
      BY <1>2, ChangesFacts
    <2>2. o.op \notin Facts
      BY <1>2 DEF OnPlan, Operations, Facts
    <2>. QED
      BY <1>2, <2>1, <2>2
  <1>. QED
    BY <1>1, <1>2

LEMMA ChangeIs ==
  /\ \A c : c \in InChange <=> c \in cut \/ \E y \in Procs : proc[y] # None /\ c \in Changes(proc[y])
  /\ \A c : c \in InChange' <=> c \in cut' \/ \E y \in Procs : proc'[y] # None /\ c \in Changes(proc'[y])
  BY DEF InChange

\* What is open while an operation goes on.
LEMMA OpensIn ==
  ASSUME InChange' = InChange, NEW A, NEW R, NEW U, NEW t
  PROVE  Opens(A, R, U, t)' <=> Opens(A, R, U, t)
  BY DEF Opens, OpenFor, OpenFacts, TeamsOpen, NoneOpen

LEMMA OpensSame ==
  ASSUME UNCHANGED <<proc, cut>>, NEW A, NEW R, NEW U, NEW t
  PROVE  Opens(A, R, U, t)' <=> Opens(A, R, U, t)
  <1>1. InChange' = InChange
    BY DEF InChange
  <1>. QED
    BY <1>1, OpensIn

LEMMA OpensMid ==
  ASSUME TypeInv, NEW x \in Procs, NEW o, o = proc[x], OnPlan(o), NEW o2, Becomes(x, o2), Same(o, o2),
         cut' = cut \/ cut' = cut \ Changes(o)
  PROVE  InChange' = InChange
  <1>1. proc'[x] = o2 /\ \A y \in Procs : y # x => proc'[y] = proc[y]
    BY BecomesFacts DEF TypeInv
  <1>2. o # None /\ o2 # None
    BY NoneAssumption DEF Same, OnPlan
  <1>3. Changes(o2) = Changes(o)
    BY SameChanges
  <1>4. \A c : c \in cut' \/ c \in Changes(o) <=> c \in cut \/ c \in Changes(o)
    OBVIOUS
  <1>5. ASSUME NEW c PROVE c \in InChange' <=> c \in InChange
    <2>1. c \in InChange <=>
            c \in cut \/ c \in Changes(o) \/ \E y \in Procs : y # x /\ proc[y] # None /\ c \in Changes(proc[y])
      BY <1>2, ChangeIs
    <2>2. c \in InChange' <=>
            c \in cut' \/ c \in Changes(o) \/ \E y \in Procs : y # x /\ proc[y] # None /\ c \in Changes(proc[y])
      BY <1>1, <1>2, <1>3, ChangeIs
    <2>. QED
      BY <1>4, <2>1, <2>2
  <1>. QED
    BY <1>5

\* What is open when an operation ends.
LEMMA OpensEnd ==
  ASSUME TypeInv, NEW x \in Procs, NEW o, o = proc[x], o # None, proc' = [proc EXCEPT ![x] = None],
         \A c \in cut : c \in cut' \/ c \in Changes(o)
  PROVE  \A c \in InChange : c \in InChange' \/ c \in Changes(o)
  <1>1. proc'[x] = None /\ \A y \in Procs : y # x => proc'[y] = proc[y]
    BY DEF TypeInv, ProcsOK
  <1>. QED
    BY <1>1, ChangeIs

LEMMA OpensLeft ==
  ASSUME NEW o, OnPlan(o), \A c \in InChange : c \in InChange' \/ c \in Changes(o)
  PROVE  /\ \A op \in {"add", "remove"} :
              OpenFor(op) \ (IF op = o.op THEN {o.peer} ELSE {}) \subseteq OpenFor(op)'
         /\ OpenFacts \ Changes(o) \subseteq OpenFacts'
         /\ o.op # "update" => OpenFacts \subseteq OpenFacts'
         /\ TeamsOpen /\ o.op # "teams" => TeamsOpen'
  <1>1. ASSUME NEW op \in {"add", "remove"}
        PROVE  OpenFor(op) \ (IF op = o.op THEN {o.peer} ELSE {}) \subseteq OpenFor(op)'
    <2>1. SUFFICES ASSUME NEW p \in Peers, <<op, p>> \in InChange, op # o.op \/ p # o.peer
                   PROVE  <<op, p>> \in InChange'
      BY DEF OpenFor
    <2>2. PICK c : c = <<op, p>>
      OBVIOUS
    <2>3. c[1] = op /\ c[2] = p /\ c[1] \notin Facts
      BY <2>2 DEF Facts
    <2>4. c \notin Changes(o)
      BY <2>1, <2>3, ChangesKind
    <2>. QED
      BY <2>1, <2>2, <2>4
  <1>2. OpenFacts \ Changes(o) \subseteq OpenFacts'
    BY DEF OpenFacts
  <1>3. o.op # "update" => OpenFacts \subseteq OpenFacts'
    BY ChangesKind DEF OpenFacts
  <1>4. ASSUME TeamsOpen, o.op # "teams" PROVE TeamsOpen'
    <2>1. PICK c \in InChange : c[1] = "teams"
      BY <1>4 DEF TeamsOpen, NoneOpen
    <2>2. c \notin Changes(o)
      BY <1>4, <2>1, ChangesKind DEF Facts
    <2>. QED
      BY <2>1, <2>2 DEF TeamsOpen, NoneOpen
  <1>. QED
    BY <1>1, <1>2, <1>3, <1>4

\* What is open when nothing is made good.
LEMMA OpensMore ==
  ASSUME InChange \subseteq InChange'
  PROVE  /\ OpenFor("add") \subseteq OpenFor("add")' /\ OpenFor("remove") \subseteq OpenFor("remove")'
         /\ OpenFacts \subseteq OpenFacts' /\ (TeamsOpen => TeamsOpen')
  BY DEF OpenFor, OpenFacts, TeamsOpen, NoneOpen

\* What is open when an operation begins.
LEMMA OpensBegin ==
  ASSUME TypeInv, NEW x \in Procs, proc[x] = None, NEW o2, Becomes(x, o2), UNCHANGED cut
  PROVE  InChange \subseteq InChange'
  <1>1. proc'[x] = o2 /\ \A y \in Procs : y # x => proc'[y] = proc[y]
    BY BecomesFacts DEF TypeInv
  <1>. QED
    BY <1>1, ChangeIs

-----------------------------------------------------------------------------
(* The files after a step                                                  *)

\* What holds in the middle of an operation.
LEMMA Now ==
  ASSUME FilesInv, NEW x \in Procs, NEW o, o = proc[x], o # None, o.op # "submit"
  PROVE  /\ setup # None /\ setup \in Setups /\ begun >= 2 /\ OnPlan(o)
         /\ \A y \in Procs : y # x => proc[y] = None
         /\ \E A, R, U : \E t \in BOOLEAN :
              /\ Opens(A, R, U, t) /\ Story(setup, TokensOfFile, yaml, A, R, U, t)
              /\ Part(o, setup, TokensOfFile, yaml, A, R, t)
              /\ o.op = "add" => o.peer \in A
              /\ o.op = "remove" => o.peer \in R
              /\ o.op = "update" => \A k \in Spread(o) : <<k, o.peer>> \in U
              /\ o.op = "teams" => t
  <1>1. TypeInv /\ OnPlan(o) /\ setup # None
    BY DEF FilesInv, FormPart, TypeInv, ProcsOK
  <1>2. setup \in Setups /\ begun \in Nat
    BY <1>1, StateTypes
  <1>3. begun >= 2
    BY <1>1, <1>2 DEF FilesInv, FormPart
  <1>4. \A y \in Procs : y # x => proc[y] = None
    BY DEF FilesInv, Alone
  <1>5. PICK A, R, U : \E t \in BOOLEAN :
          Opens(A, R, U, t) /\ Story(setup, TokensOfFile, yaml, A, R, U, t)
    BY <1>1 DEF FilesInv, StoryNow
  <1>6. PICK t \in BOOLEAN : Opens(A, R, U, t) /\ Story(setup, TokensOfFile, yaml, A, R, U, t)
    BY <1>5
  <1>7. Part(o, setup, TokensOfFile, yaml, A, R, t)
    BY <1>6 DEF FilesInv, PartsNow, PartNow, Opens
  <1>8. \A c \in Changes(o) : c \in InChange
    BY ChangeIs
  <1>9. /\ o.op # "update" => <<o.op, o.peer>> \in InChange
        /\ o.op = "update" => \A k \in Spread(o) : <<k, o.peer>> \in InChange
    BY <1>8, ChangesFacts
  <1>10. /\ o.op = "add" => o.peer \in A
         /\ o.op = "remove" => o.peer \in R
         /\ o.op = "update" => \A k \in Spread(o) : <<k, o.peer>> \in U
         /\ o.op = "teams" => t
    <2>1. o.op \in {"add", "remove", "update"} => o.peer \in Peers
      BY <1>1 DEF OnPlan, Shaped
    <2>2. o.op = "add" => o.peer \in A
      BY <1>6, <1>9, <2>1 DEF Opens, OpenFor
    <2>3. o.op = "remove" => o.peer \in R
      BY <1>6, <1>9, <2>1 DEF Opens, OpenFor
    <2>4. o.op = "update" => \A k \in Spread(o) : <<k, o.peer>> \in U
      BY <1>1, <1>6, <1>9, <2>1, GivenFacts DEF Opens, OpenFacts
    <2>5. ASSUME o.op = "teams" PROVE t
      <3>1. PICK c : c = <<o.op, o.peer>>
        OBVIOUS
      <3>2. c[1] = "teams" /\ c \in InChange
        BY <1>9, <2>5, <3>1
      <3>. QED
        BY <1>6, <3>2 DEF Opens, TeamsOpen, NoneOpen
    <2>. QED
      BY <2>2, <2>3, <2>4, <2>5
  <1>. QED
    BY <1>1, <1>2, <1>3, <1>4, <1>6, <1>7, <1>10

\* An operation goes on.
LEMMA Goes ==
  ASSUME FilesInv, TypeInv', NEW x \in Procs, NEW o, o = proc[x], o # None, o.op # "submit",
         NEW o2, Becomes(x, o2), Same(o, o2), cut' = cut \/ cut' = cut \ Changes(o),
         setup' # None, begun' = begun,
         NEW A, NEW R, NEW U, NEW t \in BOOLEAN, Opens(A, R, U, t),
         Story(setup', TokensOfFile', yaml', A, R, U, t),
         Part(o2, setup', TokensOfFile', yaml', A, R, t)
  PROVE  FilesInv'
  <1>1. TypeInv /\ OnPlan(o) /\ begun >= 2 /\ begun \in Nat /\ \A y \in Procs : y # x => proc[y] = None
    BY Now, StateTypes DEF FilesInv
  <1>2. proc'[x] = o2 /\ \A y \in Procs : y # x => proc'[y] = None
    BY <1>1, BecomesFacts DEF TypeInv
  <1>3. Opens(A, R, U, t)'
    BY <1>1, OpensMid, OpensIn
  <1>4. StoryNow'
    BY <1>3 DEF StoryNow
  <1>5. o2 # None /\ o2.op # "submit"
    BY NoneAssumption DEF Same
  <1>6. PartsNow'
    BY <1>2, <1>3, <1>5 DEF PartsNow, PartNow
  <1>7. FormPart'
    BY <1>1, <1>2, <1>5 DEF FormPart
  <1>8. Alone'
    BY <1>2 DEF Alone
  <1>. QED
    BY <1>4, <1>6, <1>7, <1>8 DEF FilesInv

\* An operation ends.
LEMMA Ends ==
  ASSUME FilesInv, TypeInv', NEW x \in Procs, NEW o, o = proc[x], o # None, o.op # "submit",
         proc' = [proc EXCEPT ![x] = None], UNCHANGED <<files, begun>>,
         NEW A, NEW R, NEW U, NEW t \in BOOLEAN,
         A \subseteq OpenFor("add")', R \subseteq OpenFor("remove")', U \subseteq OpenFacts',
         t => TeamsOpen',
         Story(setup, TokensOfFile, yaml, A, R, U, t)
  PROVE  FilesInv'
  <1>1. setup # None /\ begun >= 2 /\ begun \in Nat /\ \A y \in Procs : y # x => proc[y] = None
    BY Now, StateTypes DEF FilesInv
  <1>2. \A y \in Procs : proc'[y] = None
    BY <1>1 DEF FilesInv, TypeInv, ProcsOK
  <1>3. PICK A2, R2, U2 : A2 = OpenFor("add")' /\ R2 = OpenFor("remove")' /\ U2 = OpenFacts'
    OBVIOUS
  <1>4. PICK t2 \in BOOLEAN : t2 = TeamsOpen'
    BY DEF TeamsOpen
  <1>5. Story(setup, TokensOfFile, yaml, A2, R2, U2, t2)
    BY <1>3, <1>4, StoryWeaker
  <1>6. StoryNow'
    BY <1>3, <1>4, <1>5 DEF StoryNow, Opens, files, TokensOfFile
  <1>7. FormPart'
    BY <1>1, <1>2 DEF FormPart, files
  <1>. QED
    BY <1>2, <1>6, <1>7 DEF FilesInv, Alone, PartsNow

\* An operation is cut short.
LEMMA CutShort ==
  ASSUME FilesInv, TypeInv', NEW x \in Procs, NEW o, o = proc[x], o # None, o.op # "submit",
         proc' = [proc EXCEPT ![x] = None], UNCHANGED <<files, begun>>,
         cut' = cut \union Changes(o)
  PROVE  FilesInv'
  <1>1. PICK A, R, U : \E t \in BOOLEAN :
          Opens(A, R, U, t) /\ Story(setup, TokensOfFile, yaml, A, R, U, t)
    BY Now
  <1>2. PICK t \in BOOLEAN : Opens(A, R, U, t) /\ Story(setup, TokensOfFile, yaml, A, R, U, t)
    BY <1>1
  <1>3. InChange \subseteq InChange'
    <2>1. \A c \in InChange : c \in InChange' \/ c \in Changes(o)
      BY OpensEnd DEF FilesInv
    <2>2. \A c \in Changes(o) : c \in InChange'
      BY ChangeIs
    <2>. QED
      BY <2>1, <2>2
  <1>4. /\ OpenFor("add") \subseteq OpenFor("add")' /\ OpenFor("remove") \subseteq OpenFor("remove")'
        /\ OpenFacts \subseteq OpenFacts' /\ (TeamsOpen => TeamsOpen')
    BY <1>3, OpensMore
  <1>. QED
    BY <1>2, <1>4, Ends DEF Opens

\* An operation ends after its last write.
LEMMA Complete ==
  ASSUME FilesInv, TypeInv', NEW x \in Procs, NEW o, o = proc[x], o # None,
         \/ o.op = "add" /\ o.at >= 7
         \/ o.op = "remove" /\ o.at >= 6
         \/ o.op = "update" /\ o.at = 5
         \/ o.op = "dirs" /\ o.at = 3,
         proc' = [proc EXCEPT ![x] = None], UNCHANGED <<files, begun, cut>>
  PROVE  FilesInv'
  <1>1. PICK A, R, U : \E t \in BOOLEAN :
          /\ Opens(A, R, U, t) /\ Story(setup, TokensOfFile, yaml, A, R, U, t)
          /\ Part(o, setup, TokensOfFile, yaml, A, R, t)
    BY Now
  <1>2. PICK t \in BOOLEAN :
          /\ Opens(A, R, U, t) /\ Story(setup, TokensOfFile, yaml, A, R, U, t)
          /\ Part(o, setup, TokensOfFile, yaml, A, R, t)
    BY <1>1
  <1>3. TypeInv /\ OnPlan(o) /\ setup \in Setups /\ o.peer \in Peers /\ o.at \in Nat
    BY Now, OpTypes DEF FilesInv, OnPlan, Shaped
  <1>4. \A c \in InChange : c \in InChange' \/ c \in Changes(o)
    BY <1>3, OpensEnd
  <1>5. /\ \A op \in {"add", "remove"} :
             OpenFor(op) \ (IF op = o.op THEN {o.peer} ELSE {}) \subseteq OpenFor(op)'
        /\ OpenFacts \ Changes(o) \subseteq OpenFacts'
        /\ o.op # "update" => OpenFacts \subseteq OpenFacts'
        /\ TeamsOpen => TeamsOpen'
    BY <1>3, <1>4, OpensLeft
  <1>6. CASE o.op = "add"
    <2>1. o.peer \in Named(setup)
      BY <1>2, <1>3, <1>6 DEF Part, Snapshot, Before
    <2>2. Story(setup, TokensOfFile, yaml, A \ {o.peer}, R, U, t)
      BY <1>2, <2>1, StoryAddDone
    <2>. QED
      BY <1>2, <1>5, <1>6, <2>2, Ends DEF Opens
  <1>7. CASE o.op = "remove"
    <2>1. o.peer \notin Named(setup) /\ \A f \in Files : f[2] = o.peer => yaml[f] = None
      BY <1>2, <1>3, <1>7 DEF Part, Snapshot, Before, RemovePart
    <2>2. Story(setup, TokensOfFile, yaml, A, R \ {o.peer}, U, t)
      BY <1>2, <2>1, StoryRemoveDone
    <2>. QED
      BY <1>2, <1>5, <1>7, <2>2, Ends DEF Opens
  <1>8. CASE o.op = "update"
    <2>1. \A k \in Spread(o) : AboutIs(setup, yaml, o.peer, k)
      BY <1>2, <1>3, <1>8 DEF Part, UpdatePart
    <2>2. PICK U2 : U2 = U \ Changes(o)
      OBVIOUS
    <2>3. ASSUME NEW q \in Named(setup), NEW k \in Facts
          PROVE  <<k, q>> \in U2 \/ <<k, q>> \notin U \/ AboutIs(setup, yaml, q, k)
      <3>1. <<k, q>> \in Changes(o) => k \in Spread(o) /\ q = o.peer
        BY <1>8, ChangesFacts
      <3>. QED
        BY <2>1, <2>2, <3>1
    <2>4. Story(setup, TokensOfFile, yaml, A, R, U2, t)
      BY <1>2, <2>3, StoryUpdateDone
    <2>. QED
      BY <1>2, <1>5, <1>8, <2>2, <2>4, Ends DEF Opens
  <1>9. CASE o.op = "dirs"
    BY <1>2, <1>5, <1>9, Ends DEF Opens
  <1>. QED
    BY <1>6, <1>7, <1>8, <1>9

\* A step of the relay, of a daemon, of an idle setup server.
LEMMA Elsewhere ==
  ASSUME FilesInv, TypeInv', UNCHANGED <<files, proc, cut, begun>>,
         server'.peers \in {None, setup, server.peers}
  PROVE  FilesInv'
  <1>1. \A A, R, U, t : Opens(A, R, U, t)' <=> Opens(A, R, U, t)
    BY OpensSame
  <1>2. StoryNow'
    BY <1>1 DEF FilesInv, StoryNow, files, TokensOfFile
  <1>3. PartsNow'
    BY <1>1 DEF FilesInv, PartsNow, PartNow, files, TokensOfFile
  <1>4. FormPart'
    BY DEF FilesInv, FormPart, files
  <1>. QED
    BY <1>2, <1>3, <1>4 DEF FilesInv, Alone

\* An operation begins, alone.
LEMMA BeginsAlone ==
  ASSUME FilesInv, NEW x \in Procs, NEW o2, NEW op, Begins(x, o2, op), op # "submit",
         setup # None, \A y \in Procs : proc[y] = None,
         \A A, R, t : Part(o2, setup, TokensOfFile, yaml, A, R, t)
  PROVE  FilesInv'
  <1>1. TypeInv /\ TypeInv' /\ begun \in Nat /\ begun >= 1
    BY BeginsType, StateTypes DEF FilesInv, FormPart
  <1>2. proc'[x] = o2 /\ (\A y \in Procs : y # x => proc'[y] = None) /\ o2.op # "submit"
    BY <1>1, BecomesFacts DEF TypeInv, Begins
  <1>3. PICK A, R, U : \E t \in BOOLEAN :
          Opens(A, R, U, t) /\ Story(setup, TokensOfFile, yaml, A, R, U, t)
    BY DEF FilesInv, StoryNow
  <1>4. PICK t \in BOOLEAN : Opens(A, R, U, t) /\ Story(setup, TokensOfFile, yaml, A, R, U, t)
    BY <1>3
  <1>5. PICK A2, R2, U2 : A2 = OpenFor("add")' /\ R2 = OpenFor("remove")' /\ U2 = OpenFacts'
    OBVIOUS
  <1>6. PICK t2 \in BOOLEAN : t2 = TeamsOpen'
    BY DEF TeamsOpen
  <1>7. A \subseteq A2 /\ R \subseteq R2 /\ U \subseteq U2 /\ (t => t2)
    BY <1>1, <1>4, <1>5, <1>6, OpensBegin, OpensMore DEF Opens, Begins
  <1>8. Story(setup, TokensOfFile, yaml, A2, R2, U2, t2)
    BY <1>4, <1>7, StoryWeaker
  <1>9. UNCHANGED <<setup, tokens, yaml, cut>> /\ begun' = begun + 1
    BY DEF Begins, files
  <1>10. Opens(A2, R2, U2, t2)'
    BY <1>5, <1>6 DEF Opens
  <1>11. StoryNow'
    BY <1>8, <1>9, <1>10 DEF StoryNow, TokensOfFile
  <1>12. PartsNow'
    BY <1>2, <1>9, <1>10 DEF PartsNow, PartNow, TokensOfFile
  <1>13. FormPart'
    BY <1>1, <1>2, <1>9 DEF FormPart
  <1>. QED
    BY <1>1, <1>2, <1>11, <1>12, <1>13 DEF FilesInv, Alone

\* The form goes on.
LEMMA FormGoes ==
  ASSUME FilesInv, TypeInv', NEW x \in Procs, NEW o, o = proc[x], o # None, o.op = "submit",
         NEW o2, Becomes(x, o2), Same(o, o2), UNCHANGED <<setup, cut, server, begun>>,
         SubmitPart(o2, TokensOfFile', yaml')
  PROVE  FilesInv'
  <1>1. TypeInv /\ setup = None /\ \A y \in Procs : y # x => proc[y] = None
    BY DEF FilesInv, FormPart, Alone
  <1>2. proc'[x] = o2 /\ \A y \in Procs : y # x => proc'[y] = None
    BY <1>1, BecomesFacts DEF TypeInv
  <1>3. PartsNow'
    BY <1>2 DEF PartsNow, PartNow, Same
  <1>4. FormPart'
    BY <1>1, <1>2 DEF FilesInv, FormPart, Same
  <1>. QED
    BY <1>1, <1>2, <1>3, <1>4 DEF FilesInv, StoryNow, Alone

-----------------------------------------------------------------------------
(* The files after each step of an operation                               *)

LEMMA RewrittenBy ==
  ASSUME TypeInv, NEW f \in Files, NEW c, yaml' = [yaml EXCEPT ![f] = c]
  PROVE  Rewritten(yaml, yaml', f, c)
  BY StateTypes DEF Rewritten

\* What is left to visit is what it was, but for the file that is done.
LEMMA LoopsLeft ==
  ASSUME NEW o, NEW o2, NEW f, Loops(o, o2, f)
  PROVE  /\ f \in Files /\ f \in Left(o) /\ \A g : g \in Left(o2) => g \in Left(o)
         /\ \A g : g \in Left(o) => g = f \/ g \in Left(o2)
         /\ Same(o, o2) /\ o2.at = o.at /\ o2.tokens = o.tokens
  BY DEF Loops, Left

LEMMA FilesTokens ==
  ASSUME FilesInv, TypeInv', NEW x \in Procs, NEW o, o = proc[x], o # None, Tokens(x)
  PROVE  FilesInv'
  <1>1. TypeInv /\ OnPlan(o) /\ o.op \in {"add", "remove"} /\ o.at = 1 /\ Others(o) \subseteq Peers
    BY DoesTokens, OpTypes DEF FilesInv
  <1>2. UNCHANGED <<setup, yaml, cut, begun>>
    BY DEF Tokens
  <1>3. PICK o2 : /\ Becomes(x, o2) /\ Same(o, o2) /\ o2.at = 2 /\ o2.text = o.text
                  /\ o2.tokens = tokens' /\ ToSet(o2.todo) = Existing(Others(o))
    BY <1>1, DoesTokens
  <1>4. PICK A, R, U : \E t \in BOOLEAN :
          /\ Opens(A, R, U, t) /\ Story(setup, TokensOfFile, yaml, A, R, U, t)
          /\ Part(o, setup, TokensOfFile, yaml, A, R, t) /\ (o.op = "remove" => o.peer \in R)
    BY Now, <1>1
  <1>5. PICK t \in BOOLEAN :
          /\ Opens(A, R, U, t) /\ Story(setup, TokensOfFile, yaml, A, R, U, t)
          /\ Part(o, setup, TokensOfFile, yaml, A, R, t) /\ (o.op = "remove" => o.peer \in R)
    BY <1>4
  <1>6. setup \in Setups /\ setup # None /\ o.peer \in Peers
    BY Now, <1>1 DEF OnPlan, Shaped
  <1>7. o.setup = setup /\ (o.op = "add" <=> o.peer \notin Named(setup))
    BY <1>1, <1>5 DEF Part, Snapshot, Before
  <1>8. \A f : f \in Left(o2) <=> f \in Of(yaml, Named(setup)) /\ f[2] # o.peer
    BY <1>1, <1>3, <1>7 DEF Left, Existing, Others, Of, Files, Dirs, Named
  <1>9. o2.op = o.op /\ o2.peer = o.peer /\ o2.setup = setup /\ ToSet(o2.tokens) = ToSet(tokens')
    BY <1>3, <1>7 DEF Same
  <1>10. CASE o.op = "add"
    <2>1. TokensOfFile' = TokensOfFile
      BY <1>1, <1>10, DoesTokens DEF TokensOfFile
    <2>2. Part(o2, setup, TokensOfFile, yaml, A, R, t)
      <3>1. Snapshot(o2, setup, TokensOfFile)
        BY <1>3, <1>7, <1>9, <1>10, <2>1 DEF Snapshot, Before, TokensOfFile
      <3>2. LoopPart(o2, setup)
        BY <1>3, <1>8, <1>9, <1>10 DEF LoopPart, Of
      <3>3. AddPart(o2, setup, TokensOfFile, yaml, A, R, t)
        <4>1. \A f \in Of(yaml, Named(setup)) : f \in Left(o2)
          BY <1>7, <1>8, <1>10 DEF Of
        <4>. QED
          BY <1>3, <4>1 DEF AddPart
      <3>. QED
        BY <1>9, <1>10, <3>1, <3>2, <3>3 DEF Part, RemovePart, UpdatePart, TeamsPart
    <2>. QED
      BY <1>1, <1>2, <1>3, <1>5, <1>6, <2>1, <2>2, Goes
  <1>11. CASE o.op = "remove"
    <2>1. TokensOfFile' = {b \in TokensOfFile : b[1] # o.peer}
      BY <1>1, <1>11, DoesTokens DEF TokensOfFile
    <2>2. Story(setup, TokensOfFile', yaml, A, R, U, t)
      BY <1>5, <1>6, <1>11, <2>1, StoryTakeTokens
    <2>3. Part(o2, setup, TokensOfFile', yaml, A, R, t)
      <3>1. Snapshot(o2, setup, TokensOfFile')
        BY <1>3, <1>7, <1>9, <1>11 DEF Snapshot, Before, TokensOfFile
      <3>2. LoopPart(o2, setup)
        BY <1>3, <1>8, <1>9, <1>11 DEF LoopPart, Of
      <3>3. RemovePart(o2, setup, TokensOfFile', yaml)
        BY <1>3, <1>8, <1>9, <2>1 DEF RemovePart
      <3>. QED
        BY <1>9, <1>11, <3>1, <3>2, <3>3 DEF Part, AddPart, UpdatePart, TeamsPart
    <2>. QED
      BY <1>1, <1>2, <1>3, <1>5, <1>6, <2>2, <2>3, Goes
  <1>. QED
    BY <1>1, <1>10, <1>11

LEMMA FilesList ==
  ASSUME FilesInv, TypeInv', NEW x \in Procs, NEW o, o = proc[x], o # None, List(x)
  PROVE  FilesInv'
  <1>1. TypeInv /\ OnPlan(o) /\ o.op = "update" /\ o.at = 2 /\ Others(o) \subseteq Peers
    BY DoesList, OpTypes DEF FilesInv
  <1>2. UNCHANGED <<setup, tokens, yaml, cut, begun>> /\ TokensOfFile' = TokensOfFile
    BY DEF List, files, TokensOfFile
  <1>3. PICK o2 : /\ Becomes(x, o2) /\ Same(o, o2) /\ o2.at = 3 /\ o2.text = o.text
                  /\ o2.tokens = o.tokens /\ ToSet(o2.todo) = Existing(Others(o))
    BY <1>1, DoesList
  <1>4. PICK A, R, U : \E t \in BOOLEAN :
          /\ Opens(A, R, U, t) /\ Story(setup, TokensOfFile, yaml, A, R, U, t)
          /\ Part(o, setup, TokensOfFile, yaml, A, R, t)
    BY Now, <1>1
  <1>5. PICK t \in BOOLEAN :
          /\ Opens(A, R, U, t) /\ Story(setup, TokensOfFile, yaml, A, R, U, t)
          /\ Part(o, setup, TokensOfFile, yaml, A, R, t)
    BY <1>4
  <1>6. setup \in Setups /\ setup # None /\ o.peer \in Peers
    BY Now, <1>1 DEF OnPlan, Shaped
  <1>7. o.setup = setup /\ o.peer \in Named(setup)
    BY <1>1, <1>5 DEF Part, Snapshot, Before
  <1>8. \A f : f \in Left(o2) <=> f \in Of(yaml, Named(setup)) /\ f[2] # o.peer
    BY <1>1, <1>3, <1>7 DEF Left, Existing, Others, Of, Files, Dirs, Named
  <1>9. /\ o2.op = o.op /\ o2.peer = o.peer /\ o2.setup = setup /\ o2.n = o.n
        /\ Spread(o2) = Spread(o) /\ o2.gives = o.gives
    BY <1>3, <1>7, SameChanges DEF Same
  <1>10. Snapshot(o2, setup, TokensOfFile)
    BY <1>1, <1>3, <1>7, <1>9 DEF Snapshot, Before
  <1>11. LoopPart(o2, setup)
    BY <1>1, <1>3, <1>8, <1>9 DEF LoopPart, Of
  <1>12. UpdatePart(o2, setup, yaml)
    BY <1>1, <1>3, <1>5, <1>8, <1>9 DEF UpdatePart, Part, Renewed
  <1>13. Part(o2, setup, TokensOfFile, yaml, A, R, t)
    BY <1>1, <1>9, <1>10, <1>11, <1>12 DEF Part, AddPart, RemovePart, TeamsPart
  <1>. QED
    BY <1>1, <1>2, <1>3, <1>5, <1>6, <1>13, Goes

\* An edit of another peer's yaml, by what operation it is.
LEMMA EditKeepsStory ==
  ASSUME TypeInv, NEW o, OnPlan(o), NEW A, NEW R, NEW U, NEW t,
         Story(setup, TokensOfFile, yaml, A, R, U, t),
         Part(o, setup, TokensOfFile, yaml, A, R, t), setup \in Setups,
         o.op = "add" => o.peer \in A,
         o.op = "remove" => o.peer \in R,
         o.op = "update" => \A k \in Spread(o) : <<k, o.peer>> \in U,
         o.op = "teams" => t,
         \/ o.op \in {"add", "remove"} /\ o.at = 2
         \/ o.op = "update" /\ o.at = 3
         \/ o.op = "teams" /\ o.at = 1,
         NEW f \in Of(yaml, Named(setup)), f[2] # o.peer,
         o.op = "update" => yaml[f].peers[o.peer] # None,
         NEW y2, NEW c, c = Edited(o, yaml[f]), Rewritten(yaml, y2, f, c), t \in BOOLEAN
  PROVE  /\ Story(setup, TokensOfFile, y2, A, R, U, t)
         /\ Of(y2, Named(setup)) = Of(yaml, Named(setup))
         /\ o.op = "add" => Added(o, c)
         /\ o.op = "remove" => Gone(o, c)
         /\ o.op = "update" => Told(o, c)
         /\ o.op = "teams" => c.team = o.members
  <1>1. f \in Files /\ yaml[f] # None
    BY DEF Of
  <1>2. PICK b : b = yaml[f]
    OBVIOUS
  <1>3. b \in Yamls /\ b.peers \in [Peers -> PeerEntries \union {None}] /\ b.team \in SUBSET Peers
    BY <1>1, <1>2, YamlType
  <1>4. o.n \in Nat /\ (o.op # "teams" => o.peer \in Peers)
    BY OpTypes DEF OnPlan, Shaped
  <1>5. EditedInto(o, b, c)
    <2>1. o.op \in {"add", "update", "remove", "teams"}
          /\ (o.op = "update" => b.peers[o.peer] # None)
      BY <1>2
    <2>. QED
      BY <1>2, <1>3, <2>1, EditedFacts
  <1>6. c # None
    BY <1>5, NoneAssumption DEF EditedInto
  <1>7. Of(y2, Named(setup)) = Of(yaml, Named(setup))
    BY <1>1, <1>6 DEF Of, Rewritten
  <1>8. CASE o.op = "add"
    <2>1. Added(o, c)
      BY <1>5, <1>8 DEF Added, EditedInto
    <2>2. o.peer \notin Named(setup)
      BY <1>8 DEF Part, Snapshot, Before
    <2>3. /\ \A m : m # o.peer => (m \in c.team <=> m \in b.team)
          /\ o.peer \in c.team => o.peer \in TeamJoiners \/ o.peer \in b.team
      BY <1>5, <1>8 DEF EditedInto
    <2>4. Story(setup, TokensOfFile, y2, A, R, U, t)
      BY <1>2, <1>4, <1>5, <1>6, <1>8, <2>2, <2>3, StoryEditAdd DEF EditedInto
    <2>. QED
      BY <1>7, <1>8, <2>1, <2>4
  <1>9. CASE o.op = "remove"
    <2>1. Gone(o, c)
      BY <1>5, <1>9 DEF Gone, EditedInto
    <2>2. o.peer \in Named(setup)
      BY <1>9 DEF Part, Snapshot, Before
    <2>3. Story(setup, TokensOfFile, y2, A, R, U, t)
      BY <1>2, <1>4, <1>5, <1>6, <1>9, <2>2, StoryEditRemove DEF EditedInto
    <2>. QED
      BY <1>7, <1>9, <2>1, <2>3
  <1>10. CASE o.op = "update"
    <2>1. Told(o, c)
      BY <1>5, <1>10, GivenFacts DEF Told, EditedInto
    <2>2. o.peer \in Named(setup)
      BY <1>10 DEF Part, Snapshot
    <2>3. Story(setup, TokensOfFile, y2, A, R, U, t)
      <3>1. \A k \in Facts : <<k, o.peer>> \in U \/ c.peers[o.peer].about[k] = b.peers[o.peer].about[k]
        BY <1>5, <1>10 DEF EditedInto
      <3>. QED
        BY <1>2, <1>4, <1>5, <1>6, <1>10, <2>2, <3>1, StoryEditUpdate DEF EditedInto
    <2>. QED
      BY <1>7, <1>10, <2>1, <2>3
  <1>11. CASE o.op = "teams"
    <2>1. o.members \subseteq Named(setup)
      BY <1>11 DEF Part, Snapshot
    <2>2. t = TRUE /\ Story(setup, TokensOfFile, yaml, A, R, U, TRUE)
      BY <1>11
    <2>3. c.bearer = yaml[f].bearer /\ c.about = yaml[f].about /\ c.peers = yaml[f].peers
          /\ c.team \subseteq Named(setup)
      BY <1>2, <1>5, <1>11, <2>1 DEF EditedInto
    <2>4. Story(setup, TokensOfFile, y2, A, R, U, TRUE)
      BY <1>6, <2>2, <2>3, StoryEditTeams
    <2>. QED
      BY <1>5, <1>7, <1>11, <2>2, <2>4 DEF EditedInto
  <1>. QED
    BY <1>8, <1>9, <1>10, <1>11

\* How far the operation has come after an edit.
LEMMA EditKeepsPart ==
  ASSUME NEW o, NEW o2, NEW f, Loops(o, o2, f), o2.text = o.text,
         NEW s, NEW T, NEW y, NEW y2, NEW A, NEW R, NEW t, Part(o, s, T, y, A, R, t),
         \/ o.op \in {"add", "remove"} /\ o.at = 2
         \/ o.op = "update" /\ o.at = 3
         \/ o.op = "teams" /\ o.at = 1,
         Of(y2, Named(s)) = Of(y, Named(s)),
         f[2] # o.peer, \A g \in Files : g # f => y2[g] = y[g],
         o.op = "add" => Added(o, y2[f]),
         o.op = "remove" => Gone(o, y2[f]),
         o.op = "update" => Told(o, y2[f]),
         o.op = "teams" => y2[f].team = o.members
  PROVE  Part(o2, s, T, y2, A, R, t)
  <1>1. /\ o2.op = o.op /\ o2.peer = o.peer /\ o2.n = o.n /\ o2.members = o.members
        /\ o2.setup = o.setup /\ o2.at = o.at /\ o2.tokens = o.tokens
        /\ f \in Left(o) /\ (\A g : g \in Left(o2) => g \in Left(o))
        /\ (\A g : g \in Left(o) => g = f \/ g \in Left(o2))
        /\ Spread(o2) = Spread(o) /\ o2.gives = o.gives
    BY LoopsLeft, SameChanges DEF Same
  <1>2. Of(y2, Named(s)) \subseteq Files
    BY DEF Of
  <1>3. Snapshot(o2, s, T)
    BY <1>1 DEF Part, Snapshot, Before
  <1>4. LoopPart(o2, s)
    BY <1>1 DEF Part, LoopPart
  <1>5. AddPart(o2, s, T, y2, A, R, t)
    BY <1>1, <1>2 DEF Part, AddPart, Added
  <1>6. RemovePart(o2, s, T, y2)
    BY <1>1, <1>2 DEF Part, RemovePart, Gone
  <1>7. UpdatePart(o2, s, y2)
    BY <1>1, <1>2 DEF Part, UpdatePart, Told, Renewed
  <1>8. TeamsPart(o2, s, y2)
    BY <1>1, <1>2 DEF Part, TeamsPart
  <1>. QED
    BY <1>3, <1>4, <1>5, <1>6, <1>7, <1>8 DEF Part

LEMMA FilesEditYaml ==
  ASSUME FilesInv, TypeInv', NEW x \in Procs, NEW o, o = proc[x], o # None, EditYaml(x)
  PROVE  FilesInv'
  <1>1. /\ TypeInv /\ OnPlan(o) /\ o.op # "submit"
        /\ \/ o.op \in {"add", "remove"} /\ o.at = 2
           \/ o.op = "update" /\ o.at = 3
           \/ o.op = "teams" /\ o.at = 1
    BY DoesEditYaml DEF FilesInv
  <1>2. UNCHANGED <<setup, tokens, begun>> /\ TokensOfFile' = TokensOfFile
    BY DEF EditYaml, TokensOfFile
  <1>3. CASE Becomes(x, None) /\ UNCHANGED <<yaml, daemon>> /\ cut' = cut \union Changes(o)
    BY <1>1, <1>2, <1>3, CutShort DEF Becomes, files
  <1>4. ASSUME NEW f \in Files, NEW o2,
               Becomes(x, o2), Loops(o, o2, f), o2.text = o.text, UNCHANGED cut, yaml[f] # None,
               \/ o.op = "update" /\ yaml[f].peers[o.peer] = None /\ UNCHANGED <<yaml, daemon>>
               \/ /\ o.op = "update" => yaml[f].peers[o.peer] # None
                  /\ WriteYaml(f, Edited(o, yaml[f]))
        PROVE  FilesInv'
    <2>1. PICK A, R, U : \E t \in BOOLEAN :
            /\ Opens(A, R, U, t) /\ Story(setup, TokensOfFile, yaml, A, R, U, t)
            /\ Part(o, setup, TokensOfFile, yaml, A, R, t)
            /\ (o.op = "add" => o.peer \in A) /\ (o.op = "remove" => o.peer \in R)
            /\ (o.op = "update" => \A k \in Spread(o) : <<k, o.peer>> \in U)
            /\ (o.op = "teams" => t)
      BY Now, <1>1
    <2>2. PICK t \in BOOLEAN :
            /\ Opens(A, R, U, t) /\ Story(setup, TokensOfFile, yaml, A, R, U, t)
            /\ Part(o, setup, TokensOfFile, yaml, A, R, t)
            /\ (o.op = "add" => o.peer \in A) /\ (o.op = "remove" => o.peer \in R)
            /\ (o.op = "update" => \A k \in Spread(o) : <<k, o.peer>> \in U)
            /\ (o.op = "teams" => t)
      BY <2>1
    <2>3. setup \in Setups /\ setup # None
      BY Now, <1>1
    <2>4. f \in Left(o) /\ Same(o, o2)
      BY <1>4, LoopsLeft
    <2>5. f[2] \in Named(setup) /\ f[2] # o.peer /\ f \in Of(yaml, Named(setup))
      BY <1>1, <1>4, <2>2, <2>4 DEF Part, LoopPart, Of
    <2>6. CASE o.op = "update" /\ yaml[f].peers[o.peer] = None /\ UNCHANGED yaml
      <3>1. Told(o, yaml[f])
        BY <2>6 DEF Told
      <3>2. Part(o2, setup, TokensOfFile, yaml, A, R, t)
        BY <1>1, <1>4, <2>2, <2>5, <2>6, <3>1, EditKeepsPart
      <3>. QED
        BY <1>1, <1>2, <1>4, <2>2, <2>3, <2>4, <2>6, <3>2, Goes
    <2>7. CASE (o.op = "update" => yaml[f].peers[o.peer] # None) /\ WriteYaml(f, Edited(o, yaml[f]))
      <3>1. PICK c : c = Edited(o, yaml[f])
        OBVIOUS
      <3>2. Rewritten(yaml, yaml', f, c)
        BY <1>1, <2>7, <3>1, RewrittenBy DEF WriteYaml
      <3>3. /\ Story(setup, TokensOfFile, yaml', A, R, U, t)
            /\ Of(yaml', Named(setup)) = Of(yaml, Named(setup))
            /\ o.op = "add" => Added(o, c)
            /\ o.op = "remove" => Gone(o, c)
            /\ o.op = "update" => Told(o, c)
            /\ o.op = "teams" => c.team = o.members
        BY <1>1, <2>2, <2>3, <2>5, <2>7, <3>1, <3>2, EditKeepsStory
      <3>4. Part(o2, setup, TokensOfFile, yaml', A, R, t)
        BY <1>1, <1>4, <2>2, <2>5, <3>2, <3>3, EditKeepsPart DEF Rewritten
      <3>. QED
        BY <1>1, <1>2, <1>4, <2>2, <2>3, <2>4, <3>3, <3>4, Goes
    <2>. QED
      BY <1>4, <2>6, <2>7
  <1>. QED
    BY <1>1, <1>3, <1>4, DoesEditYaml

LEMMA FilesEditOwn ==
  ASSUME FilesInv, TypeInv', NEW x \in Procs, NEW o, o = proc[x], o # None, EditOwn(x)
  PROVE  FilesInv'
  <1>1. TypeInv /\ OnPlan(o) /\ o.op \in {"update", "dirs"} /\ o.at = 1 /\ o.n \in Nat /\ o.peer \in Peers
    BY DoesEditOwn, OpTypes DEF FilesInv, OnPlan, Shaped
  <1>2. UNCHANGED <<setup, tokens, begun, cut>> /\ TokensOfFile' = TokensOfFile
    BY DEF EditOwn, TokensOfFile
  <1>3. ASSUME NEW f \in Files, NEW o2, Becomes(x, o2), Loops(o, o2, f),
               \/ yaml[f] = None /\ UNCHANGED <<yaml, daemon>>
               \/ \E c \in Yamls : yaml[f] # None /\ WriteYaml(f, c) /\ Renamed(o, yaml[f], c)
        PROVE  FilesInv'
    <2>1. PICK A, R, U : \E t \in BOOLEAN :
            /\ Opens(A, R, U, t) /\ Story(setup, TokensOfFile, yaml, A, R, U, t)
            /\ Part(o, setup, TokensOfFile, yaml, A, R, t)
            /\ (o.op = "update" => \A k \in Spread(o) : <<k, o.peer>> \in U)
      BY Now, <1>1
    <2>2. PICK t \in BOOLEAN :
            /\ Opens(A, R, U, t) /\ Story(setup, TokensOfFile, yaml, A, R, U, t)
            /\ Part(o, setup, TokensOfFile, yaml, A, R, t)
            /\ (o.op = "update" => \A k \in Spread(o) : <<k, o.peer>> \in U)
      BY <2>1
    <2>3. setup \in Setups /\ setup # None
      BY Now, <1>1
    <2>4. /\ o2.op = o.op /\ o2.peer = o.peer /\ o2.n = o.n /\ o2.setup = o.setup /\ o2.at = 1
          /\ f \in Left(o) /\ (\A g : g \in Left(o2) => g \in Left(o))
          /\ (\A g : g \in Left(o) => g = f \/ g \in Left(o2)) /\ Same(o, o2)
          /\ Spread(o2) = Spread(o) /\ o2.gives = o.gives
      BY <1>1, <1>3, LoopsLeft, SameChanges DEF Same
    <2>5. f[2] = o.peer /\ o.peer \in Named(setup) /\ o.setup = setup
      BY <1>1, <2>2, <2>4 DEF Part, LoopPart, Snapshot, Before
    <2>6. Snapshot(o2, setup, TokensOfFile) /\ LoopPart(o2, setup)
      BY <1>1, <2>2, <2>4 DEF Part, Snapshot, Before, LoopPart
    <2>7. ASSUME NEW y2, Story(setup, TokensOfFile, y2, A, R, U, t), yaml' = y2,
                 \A g \in Files : g # f => y2[g] = yaml[g],
                 y2[f] # None => Renewed(o, y2[f])
          PROVE  FilesInv'
      <3>1. UpdatePart(o2, setup, y2)
        BY <1>1, <2>2, <2>4, <2>5, <2>7 DEF Part, UpdatePart, Renewed
      <3>2. Part(o2, setup, TokensOfFile, y2, A, R, t)
        BY <1>1, <2>4, <2>6, <3>1 DEF Part, AddPart, RemovePart, TeamsPart
      <3>. QED
        BY <1>1, <1>2, <1>3, <2>2, <2>3, <2>4, <2>7, <3>2, Goes
    <2>8. CASE yaml[f] = None /\ UNCHANGED <<yaml, daemon>>
      <3>1. PICK y2 : y2 = yaml'
        OBVIOUS
      <3>. QED
        BY <2>2, <2>7, <2>8, <3>1
    <2>9. ASSUME NEW c \in Yamls, yaml[f] # None, WriteYaml(f, c), Renamed(o, yaml[f], c)
          PROVE  FilesInv'
      <3>1. Rewritten(yaml, yaml', f, c) /\ c # None /\ f \in Of(yaml, Named(setup))
        BY <1>1, <2>5, <2>9, RewrittenBy, NoneAssumption DEF WriteYaml, Of
      <3>2. \A g \in Files : g # f => yaml'[g] = yaml[g]
        BY <3>1 DEF Rewritten
      <3>3. /\ c.bearer = yaml[f].bearer /\ c.peers = yaml[f].peers /\ c.team = yaml[f].team
            /\ \A k \in Facts : c.about[k] = IF k \in Given(o) THEN o.gives[k] ELSE yaml[f].about[k]
        BY <2>9 DEF Renamed
      <3>4. ASSUME NEW k \in Facts
            PROVE  \/ <<k, o.peer>> \in U \/ c.about[k] = yaml[f].about[k]
                   \/ c.about[k] = setup[o.peer].about[k]
        <4>1. CASE k \in Spread(o)
          <5>1. o.op = "update"
            BY <1>1, <4>1, GivenFacts
          <5>. QED
            BY <2>2, <4>1, <5>1
        <4>2. CASE k \in Given(o) /\ k \notin Spread(o)
          BY <1>1, <2>5, <3>3, <4>2, GivenFacts
        <4>3. CASE k \notin Given(o)
          BY <3>3, <4>3
        <4>. QED
          BY <4>1, <4>2, <4>3
      <3>5. Story(setup, TokensOfFile, yaml', A, R, U, t)
        BY <1>1, <2>2, <2>5, <3>1, <3>3, <3>4, StoryEditOwn
      <3>6. Renewed(o, c) /\ yaml'[f] = c
        BY <1>1, <3>1, <3>3, GivenFacts DEF Renewed, Rewritten
      <3>. QED
        BY <2>7, <3>2, <3>5, <3>6
    <2>. QED
      BY <1>3, <2>8, <2>9
  <1>. QED
    BY <1>1, <1>3, DoesEditOwn

LEMMA FilesBuild ==
  ASSUME FilesInv, TypeInv', NEW x \in Procs, NEW o, o = proc[x], o # None, Build(x)
  PROVE  FilesInv'
  <1>1. TypeInv /\ OnPlan(o) /\ o.op = "add" /\ o.at = 3 /\ o.n \in Nat /\ o.peer \in Peers
    BY DoesBuild, OpTypes DEF FilesInv, OnPlan, Shaped
  <1>2. UNCHANGED <<setup, tokens, yaml, begun, cut>> /\ TokensOfFile' = TokensOfFile
    BY DEF Build, files, TokensOfFile
  <1>3. PICK o2 :
          /\ Becomes(x, o2) /\ Same(o, o2) /\ o2.at = 4 /\ o2.tokens = o.tokens
          /\ ToSet(o2.todo) = {<<"project", o.peer>>, <<"agent", o.peer>>}
          /\ o2.text \in Yamls /\ o2.text.bearer = <<o.peer, o.n>> /\ o2.text.about = Original(o.n)
          /\ o2.text.team = CombinedTeam(o)
          /\ o2.text.peers = NewPeers(o)
    BY <1>1, DoesBuild
  <1>4. PICK A, R, U : \E t \in BOOLEAN :
          /\ Opens(A, R, U, t) /\ Story(setup, TokensOfFile, yaml, A, R, U, t)
          /\ Part(o, setup, TokensOfFile, yaml, A, R, t)
    BY Now, <1>1
  <1>5. PICK t \in BOOLEAN :
          /\ Opens(A, R, U, t) /\ Story(setup, TokensOfFile, yaml, A, R, U, t)
          /\ Part(o, setup, TokensOfFile, yaml, A, R, t)
    BY <1>4
  <1>6. setup \in Setups /\ setup # None
    BY Now, <1>1
  <1>7. o.setup = setup /\ o.peer \notin Named(setup) /\ Others(o) = Named(setup) /\ Named(setup) \subseteq Peers
    BY <1>1, <1>5 DEF Part, Snapshot, Before, Others, Named
  <1>8. o2.op = "add" /\ o2.peer = o.peer /\ o2.n = o.n /\ o2.setup = setup
    BY <1>1, <1>3, <1>7 DEF Same
  <1>9. \A f \in Of(yaml, Named(setup)) : Added(o, yaml[f])
    BY <1>1, <1>5 DEF Part, AddPart
  <1>10. PICK base :
           /\ CombinedTeam(o) = IF o.peer \in TeamJoiners THEN base \union {o.peer} ELSE base
           /\ \/ base = {} /\ \A f \in Of(yaml, Named(setup)) : yaml[f].team = {}
              \/ \E f \in Of(yaml, Named(setup)) : base = yaml[f].team
    <2>1. Of(yaml, Named(setup)) = Existing(Others(o))
      BY <1>7 DEF Of, Existing, Files
    <2>. QED
      BY <1>1, <2>1, CombinedTeamFacts
  <1>11. PICK c : c = o2.text
    OBVIOUS
  <1>12. \A m : m # o.peer => (m \in c.team <=> m \in base)
    BY <1>3, <1>10, <1>11
  <1>13. o.peer \in c.team <=> o.peer \in TeamJoiners
    <2>1. o.peer \in base => o.peer \in TeamJoiners
      BY <1>1, <1>5, <1>7, <1>10 DEF Story, Forgets
    <2>. QED
      BY <1>3, <1>10, <1>11, <2>1
  <1>14. \A q \in Peers \ Named(setup) : q # o.peer =>
           /\ q \notin A => q \notin c.team
           /\ q \notin TeamJoiners => q \notin c.team
    BY <1>5, <1>10, <1>12 DEF Story, Forgets
  <1>15. ~t => \A f \in Of(yaml, Named(setup)), m \in Kept(setup, R) : m \in c.team <=> m \in yaml[f].team
    <2>1. \A m \in Kept(setup, R) : m # o.peer
      BY <1>7 DEF Kept
    <2>2. ~t => \A f, g \in Of(yaml, Named(setup)), m \in Kept(setup, R) :
                  m \in yaml[f].team => m \in yaml[g].team
      BY <1>5 DEF Story, Teams
    <2>. QED
      BY <1>10, <1>12, <2>1, <2>2
  <1>16. \A q \in Peers :
           /\ q \notin Named(setup) => c.peers[q] = None
           /\ q \in Named(setup) => /\ c.peers[q] # None /\ c.peers[q].secret = o.n
                                    /\ c.peers[q].about = setup[q].about
    <2>1. SUFFICES ASSUME NEW q \in Peers, q \in Named(setup)
                   PROVE  /\ c.peers[q] # None /\ c.peers[q].secret = o.n
                          /\ c.peers[q].about = setup[q].about
      BY <1>3, <1>7, <1>11 DEF NewPeers
    <2>2. c.peers[q] = [secret |-> o.n, about |-> setup[q].about]
      BY <1>3, <1>7, <1>11, <2>1 DEF NewPeers
    <2>3. setup[q].about \in Abouts
      BY <1>6, <2>1 DEF Setups, SetupEntries, Named
    <2>4. c.peers[q] \in PeerEntries
      BY <1>1, <2>2, <2>3 DEF PeerEntries
    <2>. QED
      BY <2>2, <2>4, NoneAssumption
  <1>17. NewText(o2, setup, yaml, A, R, t)
    <2>1. c # None /\ c.bearer = <<o2.peer, o2.n>> /\ c.about = Original(o2.n)
      BY <1>3, <1>8, <1>11, NoneAssumption
    <2>. QED
      BY <1>8, <1>11, <1>13, <1>14, <1>15, <1>16, <2>1 DEF NewText
  <1>18. \A f \in Files : f[2] = o.peer <=> f \in Left(o2)
    BY <1>1, <1>3 DEF Left, Files, Dirs
  <1>19. AddPart(o2, setup, TokensOfFile, yaml, A, R, t)
    BY <1>3, <1>8, <1>9, <1>17, <1>18 DEF AddPart, Added
  <1>20. Snapshot(o2, setup, TokensOfFile)
    BY <1>1, <1>3, <1>5, <1>7, <1>8 DEF Part, Snapshot, Before
  <1>21. LoopPart(o2, setup)
    BY <1>1, <1>3, <1>8 DEF LoopPart, Left
  <1>22. Part(o2, setup, TokensOfFile, yaml, A, R, t)
    BY <1>8, <1>19, <1>20, <1>21 DEF Part, RemovePart, UpdatePart, TeamsPart
  <1>. QED
    BY <1>1, <1>2, <1>3, <1>5, <1>6, <1>22, Goes

LEMMA FilesWriteNew ==
  ASSUME FilesInv, TypeInv', NEW x \in Procs, NEW o, o = proc[x], o # None, WriteNew(x)
  PROVE  FilesInv'
  <1>1. TypeInv /\ OnPlan(o) /\ ((o.op = "submit" /\ o.at = 2) \/ (o.op = "add" /\ o.at = 4))
    BY DoesWriteNew DEF FilesInv
  <1>2. UNCHANGED <<setup, tokens, begun, cut, server>> /\ TokensOfFile' = TokensOfFile
    BY DEF WriteNew, TokensOfFile
  <1>3. PICK f \in Files, c \in Yamls : \E o2 :
          /\ Becomes(x, o2) /\ Loops(o, o2, f) /\ o2.text = o.text /\ f \in ToSet(o.todo)
          /\ WriteYaml(f, c) /\ c = IF o.op = "submit" THEN FormYaml(f[2], o.n) ELSE o.text
    BY <1>1, DoesWriteNew
  <1>4. PICK o2 :
          /\ Becomes(x, o2) /\ Loops(o, o2, f) /\ o2.text = o.text /\ f \in ToSet(o.todo)
          /\ WriteYaml(f, c) /\ c = IF o.op = "submit" THEN FormYaml(f[2], o.n) ELSE o.text
    BY <1>3
  <1>5. Rewritten(yaml, yaml', f, c)
    BY <1>1, <1>4, RewrittenBy DEF WriteYaml
  <1>6. /\ o2.op = o.op /\ o2.peer = o.peer /\ o2.n = o.n /\ o2.setup = o.setup /\ o2.at = o.at
        /\ o2.tokens = o.tokens
        /\ f \in Left(o) /\ (\A g : g \in Left(o2) => g \in Left(o))
        /\ (\A g : g \in Left(o) => g = f \/ g \in Left(o2)) /\ Same(o, o2)
    BY <1>4, LoopsLeft DEF Same
  <1>7. CASE o.op = "submit" /\ o.at = 2
    <2>1. SubmitPart(o, TokensOfFile, yaml)
      BY <1>7 DEF FilesInv, PartsNow, PartNow
    <2>2. SubmitPart(o2, TokensOfFile, yaml')
      BY <1>4, <1>5, <1>6, <1>7, <2>1 DEF SubmitPart, Rewritten
    <2>. QED
      BY <1>2, <1>4, <1>6, <1>7, <2>2, FormGoes
  <1>8. CASE o.op = "add" /\ o.at = 4
    <2>1. PICK A, R, U : \E t \in BOOLEAN :
            /\ Opens(A, R, U, t) /\ Story(setup, TokensOfFile, yaml, A, R, U, t)
            /\ Part(o, setup, TokensOfFile, yaml, A, R, t) /\ o.peer \in A
      BY Now, <1>8
    <2>2. PICK t \in BOOLEAN :
            /\ Opens(A, R, U, t) /\ Story(setup, TokensOfFile, yaml, A, R, U, t)
            /\ Part(o, setup, TokensOfFile, yaml, A, R, t) /\ o.peer \in A
      BY <2>1
    <2>3. setup \in Setups /\ setup # None
      BY Now, <1>8
    <2>4. f[2] = o.peer /\ o.peer \notin Named(setup) /\ o.setup = setup
      BY <1>6, <1>8, <2>2 DEF Part, LoopPart, Snapshot, Before
    <2>5. Story(setup, TokensOfFile, yaml', A, R, U, t)
      BY <1>5, <2>2, <2>4, StoryUnlisted
    <2>6. /\ Of(yaml', Named(setup)) = Of(yaml, Named(setup))
          /\ \A g \in Of(yaml, Named(setup)) : yaml'[g] = yaml[g]
      BY <1>5, <2>4 DEF Rewritten, Of
    <2>7. NewText(o2, setup, yaml', A, R, t)
      <3>1. NewText(o, setup, yaml, A, R, t)
        BY <1>8, <2>2 DEF Part, AddPart
      <3>. QED
        BY <1>4, <1>6, <2>6, <3>1 DEF NewText
    <2>8. \A g \in Of(yaml', Named(setup)) : Added(o2, yaml'[g])
      BY <1>6, <1>8, <2>2, <2>6 DEF Part, AddPart, Added
    <2>9. \A g \in Files : g[2] = o.peer => g \in Left(o2) \/ yaml'[g] = o2.text
      BY <1>4, <1>5, <1>6, <1>8, <2>2 DEF Part, AddPart, Rewritten
    <2>10. AddPart(o2, setup, TokensOfFile, yaml', A, R, t)
      BY <1>6, <1>8, <2>7, <2>8, <2>9 DEF AddPart
    <2>11. Snapshot(o2, setup, TokensOfFile) /\ LoopPart(o2, setup)
      BY <1>6, <1>8, <2>2 DEF Part, Snapshot, Before, LoopPart
    <2>12. Part(o2, setup, TokensOfFile, yaml', A, R, t)
      BY <1>6, <1>8, <2>10, <2>11 DEF Part, RemovePart, UpdatePart, TeamsPart
    <2>. QED
      BY <1>2, <1>4, <1>6, <1>8, <2>2, <2>3, <2>5, <2>12, Goes
  <1>. QED
    BY <1>1, <1>7, <1>8

LEMMA FilesSaveTokens ==
  ASSUME FilesInv, TypeInv', NEW x \in Procs, NEW o, o = proc[x], o # None, SaveTokens(x)
  PROVE  FilesInv'
  <1>1. /\ TypeInv /\ OnPlan(o) /\ o.op = "add" /\ o.at = 5 /\ o.peer \in Peers
        /\ ToSet(tokens') = ToSet(o.tokens) \union {<<o.peer, o.n>>}
    BY DoesSaveTokens DEF FilesInv, OnPlan, Shaped
  <1>2. UNCHANGED <<setup, yaml, begun, cut>>
    BY DEF SaveTokens
  <1>3. PICK o2 : WroteTokens(x, o, o2)
    BY <1>1, DoesSaveTokens
  <1>4. PICK A, R, U : \E t \in BOOLEAN :
          /\ Opens(A, R, U, t) /\ Story(setup, TokensOfFile, yaml, A, R, U, t)
          /\ Part(o, setup, TokensOfFile, yaml, A, R, t) /\ o.peer \in A
    BY Now, <1>1
  <1>5. PICK t \in BOOLEAN :
          /\ Opens(A, R, U, t) /\ Story(setup, TokensOfFile, yaml, A, R, U, t)
          /\ Part(o, setup, TokensOfFile, yaml, A, R, t) /\ o.peer \in A
    BY <1>4
  <1>6. setup \in Setups /\ setup # None
    BY Now, <1>1
  <1>7. /\ Becomes(x, o2) /\ Same(o, o2) /\ o2.at = 6 /\ o2.text = o.text /\ o2.tokens = tokens'
        /\ o2.op = "add" /\ o2.peer = o.peer /\ o2.n = o.n /\ o2.setup = o.setup
    BY <1>1, <1>3 DEF WroteTokens, Same
  <1>8. PICK b : b = <<o.peer, o.n>>
    OBVIOUS
  <1>9. TokensOfFile' = TokensOfFile \union {b} /\ b[1] = o.peer
    BY <1>1, <1>5, <1>8 DEF TokensOfFile, Part, Snapshot
  <1>10. Story(setup, TokensOfFile', yaml, A, R, U, t)
    BY <1>1, <1>5, <1>9, StoryGiveToken
  <1>11. NewText(o2, setup, yaml, A, R, t)
    <2>1. NewText(o, setup, yaml, A, R, t)
      BY <1>1, <1>5 DEF Part, AddPart
    <2>. QED
      BY <1>7, <2>1 DEF NewText
  <1>12. AddPart(o2, setup, TokensOfFile', yaml, A, R, t)
    BY <1>1, <1>5, <1>7, <1>8, <1>9, <1>11 DEF Part, AddPart, Added
  <1>13. Snapshot(o2, setup, TokensOfFile') /\ LoopPart(o2, setup)
    BY <1>1, <1>5, <1>7 DEF Part, Snapshot, Before, LoopPart, TokensOfFile
  <1>14. Part(o2, setup, TokensOfFile', yaml, A, R, t)
    BY <1>7, <1>12, <1>13 DEF Part, RemovePart, UpdatePart, TeamsPart
  <1>. QED
    BY <1>1, <1>2, <1>5, <1>6, <1>7, <1>10, <1>14, Goes

LEMMA FilesSaveSetup ==
  ASSUME FilesInv, TypeInv', NEW x \in Procs, NEW o, o = proc[x], o # None, SaveSetup(x)
  PROVE  FilesInv'
  <1>1. /\ TypeInv /\ OnPlan(o) /\ Advances(x, o) /\ o.peer \in Peers
        /\ \/ (o.op = "add" /\ o.at = 6) \/ (o.op = "remove" /\ o.at = 3)
           \/ (o.op = "update" /\ o.at = 4) \/ (o.op = "dirs" /\ o.at = 2)
        /\ setup' \in Setups
        /\ cut' = cut \/ cut' = cut \ Changes(o)
    BY DoesSaveSetup DEF FilesInv
  <1>2. UNCHANGED <<tokens, yaml, begun>> /\ TokensOfFile' = TokensOfFile
    BY DEF SaveSetup, TokensOfFile
  <1>3. PICK o2 : o2 = Stepped(o)
    OBVIOUS
  <1>4. /\ Becomes(x, o2) /\ Same(o, o2) /\ o2.at = o.at + 1 /\ o2.tokens = o.tokens
        /\ o2.op = o.op /\ o2.peer = o.peer /\ o2.n = o.n /\ o2.setup = o.setup
        /\ Spread(o2) = Spread(o) /\ o2.gives = o.gives
    BY <1>1, <1>3, SameChanges DEF Advances, Same
  <1>5. PICK A, R, U : \E t \in BOOLEAN :
          /\ Opens(A, R, U, t) /\ Story(setup, TokensOfFile, yaml, A, R, U, t)
          /\ Part(o, setup, TokensOfFile, yaml, A, R, t)
          /\ (o.op = "add" => o.peer \in A) /\ (o.op = "remove" => o.peer \in R)
          /\ (o.op = "update" => \A k \in Spread(o) : <<k, o.peer>> \in U)
    BY Now, <1>1
  <1>6. PICK t \in BOOLEAN :
          /\ Opens(A, R, U, t) /\ Story(setup, TokensOfFile, yaml, A, R, U, t)
          /\ Part(o, setup, TokensOfFile, yaml, A, R, t)
          /\ (o.op = "add" => o.peer \in A) /\ (o.op = "remove" => o.peer \in R)
          /\ (o.op = "update" => \A k \in Spread(o) : <<k, o.peer>> \in U)
    BY <1>5
  <1>7. setup \in Setups /\ setup' # None
    BY Now, <1>1, NoneAssumption
  <1>8. o.setup = setup
    BY <1>1, <1>6 DEF Part, Snapshot, Before
  <1>9. PICK s : s = setup'
    OBVIOUS
  <1>10. PICK e \in SetupEntries \union {None} :
           /\ Relisted(setup, s, o.peer, e)
           /\ o.op = "add" => e # None /\ e.bearer = <<o.peer, o.n>> /\ e.about = Original(o.n)
           /\ o.op = "remove" => e = None
           /\ o.op \in {"update", "dirs"} =>
                /\ e # None /\ e.bearer = setup[o.peer].bearer
                /\ \A k \in Facts : e.about[k] = IF k \in Given(o) THEN o.gives[k]
                                                  ELSE setup[o.peer].about[k]
    BY <1>1, <1>8, <1>9, DoesSaveSetup
  <1>11. SUFFICES Story(s, TokensOfFile, yaml, A, R, U, t) /\ Part(o2, s, TokensOfFile, yaml, A, R, t)
    BY <1>1, <1>2, <1>4, <1>6, <1>7, <1>9, Goes
  <1>12. CASE o.op = "add" /\ o.at = 6
    <2>1. o.peer \notin Named(setup)
      BY <1>6, <1>12 DEF Part, Snapshot, Before
    <2>2. /\ \A f \in Of(yaml, Named(setup)) : Added(o, yaml[f])
          /\ NewText(o, setup, yaml, A, R, t) /\ <<o.peer, o.n>> \in TokensOfFile
          /\ \A f \in Files : f[2] = o.peer => yaml[f] = o.text
      BY <1>6, <1>12 DEF Part, AddPart
    <2>3. Story(s, TokensOfFile, yaml, A, R, U, t)
      BY <1>1, <1>6, <1>12, <1>10, <2>1, <2>2, StoryList
    <2>4. o.peer \in Named(s)
      BY <1>1, <1>12, <1>10 DEF Named, Relisted
    <2>5. Snapshot(o2, s, TokensOfFile) /\ LoopPart(o2, s)
      BY <1>4, <1>6, <1>12, <2>4 DEF Part, Snapshot, Before, LoopPart
    <2>6. Part(o2, s, TokensOfFile, yaml, A, R, t)
      BY <1>4, <1>12, <2>5 DEF Part, AddPart, RemovePart, UpdatePart, TeamsPart
    <2>. QED
      BY <2>3, <2>6
  <1>13. CASE o.op = "remove" /\ o.at = 3
    <2>1. o.peer \in Named(setup)
      BY <1>6, <1>13 DEF Part, Snapshot, Before
    <2>2. /\ \A b \in TokensOfFile : b[1] # o.peer
          /\ \A f \in Of(yaml, Named(setup)) : f[2] # o.peer =>
               yaml[f].peers[o.peer] = None /\ o.peer \notin yaml[f].team
      BY <1>6, <1>13 DEF Part, RemovePart, Gone
    <2>3. Story(s, TokensOfFile, yaml, A, R, U, t)
      BY <1>1, <1>6, <1>13, <1>10, <2>1, <2>2, StoryUnlist
    <2>4. o.peer \notin Named(s)
      BY <1>13, <1>10 DEF Named, Relisted
    <2>5. Snapshot(o2, s, TokensOfFile) /\ LoopPart(o2, s)
      BY <1>4, <1>6, <1>13, <2>4 DEF Part, Snapshot, Before, LoopPart
    <2>6. Part(o2, s, TokensOfFile, yaml, A, R, t)
      BY <1>4, <1>13, <2>2, <2>5 DEF Part, AddPart, RemovePart, UpdatePart, TeamsPart
    <2>. QED
      BY <2>3, <2>6
  <1>14. CASE o.op \in {"update", "dirs"}
    <2>1. /\ Relisted(setup, s, o.peer, e) /\ e # None /\ e.bearer = setup[o.peer].bearer
          /\ \A k \in Facts : e.about[k] = IF k \in Given(o) THEN o.gives[k]
                                            ELSE setup[o.peer].about[k]
      BY <1>14, <1>10
    <2>2. o.peer \in Named(setup)
      BY <1>6, <1>14 DEF Part, Snapshot, Before
    <2>3. ASSUME NEW k \in Facts PROVE <<k, o.peer>> \in U \/ e.about[k] = setup[o.peer].about[k]
      <3>1. CASE k \in Spread(o)
        <4>1. o.op = "update"
          BY <1>1, <1>14, <3>1, GivenFacts
        <4>. QED
          BY <1>6, <3>1, <4>1
      <3>2. CASE k \in Given(o) /\ k \notin Spread(o)
        BY <1>1, <1>8, <2>1, <3>2, GivenFacts
      <3>3. CASE k \notin Given(o)
        BY <2>1, <3>3
      <3>. QED
        BY <3>1, <3>2, <3>3
    <2>4. Story(s, TokensOfFile, yaml, A, R, U, t)
      BY <1>1, <1>6, <2>1, <2>2, <2>3, StoryUpdate
    <2>5. Named(s) = Named(setup) /\ s[o.peer] = e
      BY <1>1, <2>1, <2>2 DEF Named, Relisted
    <2>6. Snapshot(o2, s, TokensOfFile) /\ LoopPart(o2, s)
      BY <1>1, <1>4, <1>6, <1>14, <2>2, <2>5 DEF Part, Snapshot, Before, LoopPart
    <2>7. UpdatePart(o2, s, yaml)
      <3>1. SUFFICES ASSUME o.op = "update", o.at = 4, NEW k \in Spread(o)
                     PROVE  AboutIs(s, yaml, o.peer, k)
        BY <1>1, <1>4, <1>14 DEF UpdatePart
      <3>2. s[o.peer].about[k] = o.gives[k]
        BY <1>1, <2>1, <2>5, <3>1, GivenFacts
      <3>3. /\ \A f \in Files : f[2] = o.peer /\ yaml[f] # None => Renewed(o, yaml[f])
            /\ \A f \in Of(yaml, Named(setup)) : f[2] # o.peer => Told(o, yaml[f])
        BY <1>6, <3>1 DEF Part, UpdatePart
      <3>. QED
        BY <2>5, <3>1, <3>2, <3>3 DEF AboutIs, Told, Renewed, Of
    <2>8. Part(o2, s, TokensOfFile, yaml, A, R, t)
      BY <1>4, <1>14, <2>6, <2>7 DEF Part, AddPart, RemovePart, TeamsPart
    <2>. QED
      BY <2>4, <2>8
  <1>. QED
    BY <1>1, <1>12, <1>13, <1>14

LEMMA FilesKill ==
  ASSUME FilesInv, TypeInv', NEW x \in Procs, NEW o, o = proc[x], o # None, Kill(x)
  PROVE  FilesInv'
  <1>1. TypeInv /\ OnPlan(o) /\ o.op = "remove" /\ o.at = 4 /\ o.peer \in Peers
    BY DoesKill DEF FilesInv, OnPlan, Shaped
  <1>2. UNCHANGED <<setup, tokens, yaml, begun, cut>> /\ TokensOfFile' = TokensOfFile
    BY DEF Kill, files, TokensOfFile
  <1>3. PICK o2 : /\ Becomes(x, o2) /\ Same(o, o2) /\ o2.at = 5 /\ o2.text = o.text
                  /\ o2.tokens = o.tokens
                  /\ ToSet(o2.todo) = {<<"project", o.peer>>, <<"agent", o.peer>>}
    BY <1>1, DoesKill
  <1>4. PICK A, R, U : \E t \in BOOLEAN :
          /\ Opens(A, R, U, t) /\ Story(setup, TokensOfFile, yaml, A, R, U, t)
          /\ Part(o, setup, TokensOfFile, yaml, A, R, t)
    BY Now, <1>1
  <1>5. PICK t \in BOOLEAN :
          /\ Opens(A, R, U, t) /\ Story(setup, TokensOfFile, yaml, A, R, U, t)
          /\ Part(o, setup, TokensOfFile, yaml, A, R, t)
    BY <1>4
  <1>6. setup # None
    BY Now, <1>1
  <1>7. o2.op = "remove" /\ o2.peer = o.peer /\ o2.n = o.n
    BY <1>1, <1>3 DEF Same
  <1>8. \A f \in Files : f[2] = o.peer <=> f \in Left(o2)
    BY <1>1, <1>3 DEF Left, Files, Dirs
  <1>9. \A f \in Left(o2) : f[2] = o.peer
    BY <1>3 DEF Left
  <1>10. Snapshot(o2, setup, TokensOfFile) /\ LoopPart(o2, setup)
    BY <1>1, <1>3, <1>5, <1>7, <1>9 DEF Part, Snapshot, Before, LoopPart
  <1>11. RemovePart(o2, setup, TokensOfFile, yaml)
    BY <1>1, <1>3, <1>5, <1>7, <1>8 DEF Part, RemovePart
  <1>12. Part(o2, setup, TokensOfFile, yaml, A, R, t)
    BY <1>7, <1>10, <1>11 DEF Part, AddPart, UpdatePart, TeamsPart
  <1>. QED
    BY <1>1, <1>2, <1>3, <1>5, <1>6, <1>12, Goes

LEMMA FilesDelete ==
  ASSUME FilesInv, TypeInv', NEW x \in Procs, NEW o, o = proc[x], o # None, Delete(x)
  PROVE  FilesInv'
  <1>1. TypeInv /\ OnPlan(o) /\ o.op = "remove" /\ o.at = 5 /\ o.peer \in Peers
    BY DoesDelete DEF FilesInv, OnPlan, Shaped
  <1>2. UNCHANGED <<setup, tokens, begun, cut>> /\ TokensOfFile' = TokensOfFile
    BY DEF Delete, TokensOfFile
  <1>3. PICK f \in Files : \E o2 :
          /\ Becomes(x, o2) /\ Loops(o, o2, f) /\ o2.text = o.text /\ f \in ToSet(o.todo)
          /\ yaml' = [yaml EXCEPT ![f] = None]
    BY <1>1, DoesDelete
  <1>4. PICK o2 :
          /\ Becomes(x, o2) /\ Loops(o, o2, f) /\ o2.text = o.text /\ f \in ToSet(o.todo)
          /\ yaml' = [yaml EXCEPT ![f] = None]
    BY <1>3
  <1>5. PICK A, R, U : \E t \in BOOLEAN :
          /\ Opens(A, R, U, t) /\ Story(setup, TokensOfFile, yaml, A, R, U, t)
          /\ Part(o, setup, TokensOfFile, yaml, A, R, t) /\ o.peer \in R
    BY Now, <1>1
  <1>6. PICK t \in BOOLEAN :
          /\ Opens(A, R, U, t) /\ Story(setup, TokensOfFile, yaml, A, R, U, t)
          /\ Part(o, setup, TokensOfFile, yaml, A, R, t) /\ o.peer \in R
    BY <1>5
  <1>7. setup # None
    BY Now, <1>1
  <1>8. /\ o2.op = o.op /\ o2.peer = o.peer /\ o2.n = o.n /\ o2.at = 5 /\ o2.tokens = o.tokens
        /\ f \in Left(o) /\ (\A g : g \in Left(o2) => g \in Left(o))
        /\ (\A g : g \in Left(o) => g = f \/ g \in Left(o2)) /\ Same(o, o2)
    BY <1>1, <1>4, LoopsLeft DEF Same
  <1>9. Rewritten(yaml, yaml', f, None)
    BY <1>1, <1>4, RewrittenBy
  <1>10. f[2] = o.peer /\ o.peer \notin Named(setup)
    BY <1>1, <1>6, <1>8 DEF Part, LoopPart, Snapshot, Before
  <1>11. Story(setup, TokensOfFile, yaml', A, R, U, t)
    BY <1>6, <1>9, <1>10, StoryUnlisted
  <1>12. Snapshot(o2, setup, TokensOfFile) /\ LoopPart(o2, setup)
    BY <1>1, <1>6, <1>8 DEF Part, Snapshot, Before, LoopPart
  <1>13. RemovePart(o2, setup, TokensOfFile, yaml')
    BY <1>1, <1>6, <1>8, <1>9 DEF Part, RemovePart, Rewritten
  <1>14. Part(o2, setup, TokensOfFile, yaml', A, R, t)
    BY <1>1, <1>8, <1>12, <1>13 DEF Part, AddPart, UpdatePart, TeamsPart
  <1>. QED
    BY <1>1, <1>2, <1>4, <1>6, <1>7, <1>8, <1>11, <1>14, Goes

\* At the end of a loop nothing is left of it.
LEMMA EndKeepsPart ==
  ASSUME NEW o, NEW o2, Same(o, o2), o.at \in Nat, o2.at = o.at + 1, o2.tokens = o.tokens,
         o2.text = o.text, Left(o) = {}, Left(o2) = {},
         NEW s, NEW T, NEW y, NEW A, NEW R, NEW t, Part(o, s, T, y, A, R, t),
         \/ o.op \in {"add", "remove"} /\ o.at = 2
         \/ o.op = "update" /\ o.at = 3
         \/ o.op \in {"update", "dirs"} /\ o.at = 1
         \/ o.op = "add" /\ o.at = 4
         \/ o.op = "remove" /\ o.at = 5
  PROVE  Part(o2, s, T, y, A, R, t)
  <1>1. /\ o2.op = o.op /\ o2.peer = o.peer /\ o2.n = o.n /\ o2.members = o.members
        /\ o2.setup = o.setup /\ o2.gives = o.gives /\ Spread(o2) = Spread(o)
    BY SameChanges DEF Same
  <1>2. Snapshot(o2, s, T)
    BY <1>1 DEF Part, Snapshot, Before
  <1>3. LoopPart(o2, s)
    BY DEF LoopPart
  <1>4. AddPart(o2, s, T, y, A, R, t)
    <2>1. NewText(o, s, y, A, R, t) => NewText(o2, s, y, A, R, t)
      BY <1>1 DEF NewText
    <2>. QED
      BY <1>1, <2>1 DEF Part, AddPart, Added
  <1>5. RemovePart(o2, s, T, y)
    BY <1>1 DEF Part, RemovePart, Gone
  <1>6. UpdatePart(o2, s, y)
    BY <1>1 DEF Part, UpdatePart, Told, Renewed
  <1>7. TeamsPart(o2, s, y)
    BY <1>1 DEF TeamsPart
  <1>. QED
    BY <1>2, <1>3, <1>4, <1>5, <1>6, <1>7 DEF Part

LEMMA FilesEndOfLoop ==
  ASSUME FilesInv, TypeInv', NEW x \in Procs, NEW o, o = proc[x], o # None, EndOfLoop(x)
  PROVE  FilesInv'
  <1>1. /\ TypeInv /\ OnPlan(o) /\ o.todo = <<>> /\ o.at \in Nat
        /\ \/ o.op \in {"add", "remove"} /\ o.at = 2
           \/ o.op = "update" /\ o.at = 3
           \/ o.op = "teams" /\ o.at = 1
           \/ o.op \in {"update", "dirs"} /\ o.at = 1
           \/ o.op = "submit" /\ o.at = 2
           \/ o.op = "add" /\ o.at = 4
           \/ o.op = "remove" /\ o.at = 5
        /\ o.op = "teams" => Becomes(x, None)
        /\ o.op # "teams" => Advances(x, o)
        /\ cut' = cut \/ cut' = cut \ Changes(o)
    BY DoesEndOfLoop, OpTypes DEF FilesInv
  <1>2. UNCHANGED <<setup, tokens, yaml, begun, server>> /\ TokensOfFile' = TokensOfFile
    BY DEF EndOfLoop, files, TokensOfFile
  <1>3. Left(o) = {}
    BY <1>1, SetOfEmpty DEF Left
  <1>4. PICK o2 : o2 = Stepped(o)
    OBVIOUS
  <1>5. o.op # "teams" =>
          /\ Becomes(x, o2) /\ Same(o, o2) /\ o2.at = o.at + 1 /\ o2.tokens = o.tokens
          /\ o2.text = o.text /\ Left(o2) = {}
    BY <1>1, <1>3, <1>4 DEF Advances, Left
  <1>6. CASE o.op = "submit"
    <2>1. cut' = cut
      BY <1>1, <1>6 DEF FilesInv, FormPart
    <2>2. SubmitPart(o, TokensOfFile, yaml)
      BY <1>6 DEF FilesInv, PartsNow, PartNow
    <2>3. SubmitPart(o2, TokensOfFile, yaml)
      BY <1>1, <1>3, <1>5, <1>6, <2>2 DEF SubmitPart, Same
    <2>. QED
      BY <1>2, <1>5, <1>6, <2>1, <2>3, FormGoes
  <1>7. CASE o.op # "submit"
    <2>1. PICK A, R, U : \E t \in BOOLEAN :
            /\ Opens(A, R, U, t) /\ Story(setup, TokensOfFile, yaml, A, R, U, t)
            /\ Part(o, setup, TokensOfFile, yaml, A, R, t)
      BY Now, <1>7
    <2>2. PICK t \in BOOLEAN :
            /\ Opens(A, R, U, t) /\ Story(setup, TokensOfFile, yaml, A, R, U, t)
            /\ Part(o, setup, TokensOfFile, yaml, A, R, t)
      BY <2>1
    <2>3. setup # None
      BY Now, <1>7
    <2>4. CASE o.op # "teams"
      <3>1. Part(o2, setup, TokensOfFile, yaml, A, R, t)
        BY <1>1, <1>3, <1>5, <1>7, <2>2, <2>4, EndKeepsPart
      <3>. QED
        BY <1>1, <1>2, <1>5, <1>7, <2>2, <2>3, <2>4, <3>1, Goes
    <2>5. CASE o.op = "teams"
      <3>1. \A f \in Of(yaml, Named(setup)) : yaml[f].team = o.members
        BY <1>3, <2>2, <2>5 DEF Part, TeamsPart
      <3>2. Story(setup, TokensOfFile, yaml, A, R, U, FALSE)
        BY <2>2, <3>1, StoryTeamsDone
      <3>3. proc' = [proc EXCEPT ![x] = None] /\ (\A c \in cut : c \in cut' \/ c \in Changes(o))
        BY <1>1, <2>5 DEF Becomes
      <3>4. /\ OpenFor("add") \subseteq OpenFor("add")' /\ OpenFor("remove") \subseteq OpenFor("remove")'
            /\ OpenFacts \subseteq OpenFacts'
        BY <1>1, <2>5, <3>3, OpensEnd, OpensLeft
      <3>. QED
        BY <1>2, <1>7, <2>2, <3>2, <3>3, <3>4, Ends DEF Opens, files
    <2>. QED
      BY <2>4, <2>5
  <1>. QED
    BY <1>6, <1>7

LEMMA FilesReload ==
  ASSUME FilesInv, TypeInv', NEW x \in Procs, NEW o, o = proc[x], o # None, ReloadRelay(x)
  PROVE  FilesInv'
  <1>1. /\ TypeInv /\ OnPlan(o) /\ ((o.op = "add" /\ o.at = 7) \/ (o.op = "remove" /\ o.at = 6))
        /\ Advances(x, o)
    BY DoesReload DEF FilesInv
  <1>2. UNCHANGED <<setup, tokens, yaml, begun, cut>> /\ TokensOfFile' = TokensOfFile
    BY DEF ReloadRelay, files, TokensOfFile
  <1>3. PICK o2 : o2 = Stepped(o)
    OBVIOUS
  <1>4. /\ Becomes(x, o2) /\ Same(o, o2) /\ o2.at = o.at + 1 /\ o2.tokens = o.tokens
        /\ o2.op = o.op /\ o2.peer = o.peer
    BY <1>1, <1>3 DEF Advances, Same
  <1>5. PICK A, R, U : \E t \in BOOLEAN :
          /\ Opens(A, R, U, t) /\ Story(setup, TokensOfFile, yaml, A, R, U, t)
          /\ Part(o, setup, TokensOfFile, yaml, A, R, t)
    BY Now, <1>1
  <1>6. PICK t \in BOOLEAN :
          /\ Opens(A, R, U, t) /\ Story(setup, TokensOfFile, yaml, A, R, U, t)
          /\ Part(o, setup, TokensOfFile, yaml, A, R, t)
    BY <1>5
  <1>7. setup # None
    BY Now, <1>1
  <1>8. Snapshot(o2, setup, TokensOfFile) /\ LoopPart(o2, setup)
    BY <1>1, <1>4, <1>6 DEF Part, Snapshot, Before, LoopPart
  <1>9. Part(o2, setup, TokensOfFile, yaml, A, R, t)
    BY <1>1, <1>4, <1>6, <1>8 DEF Part, AddPart, RemovePart, UpdatePart, TeamsPart
  <1>. QED
    BY <1>1, <1>2, <1>4, <1>6, <1>7, <1>9, Goes

LEMMA FilesRefresh ==
  ASSUME FilesInv, TypeInv', NEW x \in Procs, NEW o, o = proc[x], o # None, Refresh(x)
  PROVE  FilesInv'
  <1>1. /\ TypeInv /\ Becomes(x, None)
        /\ \/ (o.op = "add" /\ o.at = 8) \/ (o.op = "remove" /\ o.at = 7)
           \/ (o.op = "update" /\ o.at = 5) \/ (o.op = "dirs" /\ o.at = 3)
    BY DoesRefresh DEF FilesInv
  <1>2. UNCHANGED <<files, begun, cut>>
    BY DEF Refresh
  <1>3. /\ proc' = [proc EXCEPT ![x] = None]
        /\ \/ (o.op = "add" /\ o.at >= 7) \/ (o.op = "remove" /\ o.at >= 6)
           \/ (o.op = "update" /\ o.at = 5) \/ (o.op = "dirs" /\ o.at = 3)
    BY <1>1 DEF Becomes
  <1>. QED
    BY <1>2, <1>3, Complete

LEMMA FilesFormTokens ==
  ASSUME FilesInv, TypeInv', NEW x \in Procs, NEW o, o = proc[x], o # None, FormTokens(x)
  PROVE  FilesInv'
  <1>1. /\ TypeInv /\ o.op = "submit" /\ o.at = 1
        /\ ToSet(tokens') = Founders \X {o.n} /\ yaml' = [f \in Files |-> None]
    BY DoesFormTokens DEF FilesInv
  <1>2. UNCHANGED <<setup, cut, server, begun>>
    BY DEF FormTokens
  <1>3. PICK o2 : /\ Becomes(x, o2) /\ Same(o, o2) /\ o2.at = 2
                  /\ ToSet(o2.todo) = {"project"} \X Founders
    BY <1>1, DoesFormTokens DEF FilesInv
  <1>4. SubmitPart(o2, TokensOfFile', yaml')
    <2>1. \A f \in Files : f[1] = "project" /\ f[2] \in Founders => f \in Left(o2)
      BY <1>3 DEF Left, Files
    <2>2. \A f \in Left(o2) : f[1] = "project" /\ f[2] \in Founders
      BY <1>3 DEF Left
    <2>3. TokensOfFile' = Founders \X {o2.n}
      BY <1>1, <1>3 DEF TokensOfFile, Same
    <2>. QED
      BY <1>1, <1>3, <2>1, <2>2, <2>3 DEF SubmitPart
  <1>. QED
    BY <1>1, <1>2, <1>3, <1>4, FormGoes

LEMMA FilesFormRelay ==
  ASSUME FilesInv, TypeInv', NEW x \in Procs, NEW o, o = proc[x], o # None, FormRelay(x)
  PROVE  FilesInv'
  <1>1. TypeInv /\ o.op = "submit" /\ o.at = 3 /\ Advances(x, o)
    BY DoesFormRelay DEF FilesInv
  <1>2. UNCHANGED <<setup, tokens, yaml, cut, server, begun>> /\ TokensOfFile' = TokensOfFile
    BY DEF FormRelay, files, TokensOfFile
  <1>3. SubmitPart(o, TokensOfFile, yaml)
    BY <1>1 DEF FilesInv, PartsNow, PartNow
  <1>4. PICK o2 : o2 = Stepped(o)
    OBVIOUS
  <1>5. Becomes(x, o2) /\ Same(o, o2) /\ o2.at = 4 /\ o2.n = o.n /\ Left(o2) = Left(o)
    BY <1>1, <1>4 DEF Advances, Left, Same
  <1>6. SubmitPart(o2, TokensOfFile, yaml)
    BY <1>1, <1>3, <1>5 DEF SubmitPart
  <1>. QED
    BY <1>1, <1>2, <1>5, <1>6, FormGoes

LEMMA FilesSaveForm ==
  ASSUME FilesInv, TypeInv', NEW x \in Procs, NEW o, o = proc[x], o # None, SaveForm(x)
  PROVE  FilesInv'
  <1>1. /\ TypeInv /\ o.op = "submit" /\ o.at = 4 /\ Becomes(x, None) /\ o.n \in Nat
        /\ setup' = FormSetup(o.n) /\ setup' \in Setups
        /\ server' = [server EXCEPT !.peers = setup']
    BY DoesSaveForm, OpTypes DEF FilesInv
  <1>2. UNCHANGED <<tokens, yaml, cut, begun>> /\ TokensOfFile' = TokensOfFile
    BY DEF SaveForm, TokensOfFile
  <1>3. setup = None /\ cut = {} /\ (\A y \in Procs : y # x => proc[y] = None) /\ begun >= 1
    <2>1. o.n \in 1..begun /\ begun \in Nat
      BY <1>1, StateTypes DEF TypeInv, Numbered
    <2>. QED
      BY <1>1, <2>1 DEF FilesInv, FormPart, Alone
  <1>4. \A y \in Procs : proc'[y] = None
    BY <1>1, <1>3, BecomesFacts DEF TypeInv
  <1>5. SubmitPart(o, TokensOfFile, yaml)
    BY <1>1 DEF FilesInv, PartsNow, PartNow
  <1>6. \A f \in Files : yaml[f] = IF f[1] = "project" /\ f[2] \in Founders THEN FormYaml(f[2], o.n) ELSE None
    BY <1>1, <1>5 DEF SubmitPart
  <1>7. Story(FormSetup(o.n), TokensOfFile, yaml, {}, {}, {}, FALSE) /\ Named(FormSetup(o.n)) = Founders
    <2>1. TokensOfFile = Founders \X {o.n}
      BY <1>1, <1>5 DEF SubmitPart
    <2>. QED
      BY <1>1, <1>6, <2>1, StoryForm
  <1>8. Opens({}, {}, {}, FALSE)'
    BY <1>2, <1>3, <1>4 DEF Opens, OpenFor, OpenFacts, TeamsOpen, NoneOpen, InChange
  <1>9. StoryNow'
    BY <1>1, <1>2, <1>7, <1>8 DEF StoryNow
  <1>10. server'.peers = setup'
    BY <1>1, StateTypes
  <1>11. \A p \in Named(setup)' : yaml'[<<"project", p>>] = setup'[p].text
    <2>1. SUFFICES ASSUME NEW p \in Founders PROVE yaml[<<"project", p>>] = FormSetup(o.n)[p].text
      BY <1>1, <1>2, <1>7
    <2>2. p \in Peers /\ <<"project", p>> \in Files
      BY DEF Peers, Files, Dirs
    <2>3. yaml[<<"project", p>>] = FormYaml(p, o.n)
      BY <1>6, <2>2
    <2>4. FormSetup(o.n)[p].text = FormYaml(p, o.n)
      BY <2>2 DEF FormSetup, FormEntry
    <2>. QED
      BY <2>3, <2>4
  <1>12. FormPart'
    BY <1>1, <1>2, <1>3, <1>4, <1>10, <1>11, NoneAssumption DEF FormPart
  <1>. QED
    BY <1>4, <1>9, <1>12 DEF FilesInv, Alone, PartsNow

LEMMA FilesStep ==
  ASSUME FilesInv, TypeInv', NEW x \in Procs, Step(x)
  PROVE  FilesInv'
  <1>1. PICK o : o = proc[x]
    OBVIOUS
  <1>2. o # None
    BY <1>1 DEF Step, FormTokens, FormRelay, SaveForm, Tokens, List, EditYaml, EditOwn, Build,
      WriteNew, SaveTokens, SaveSetup, Kill, Delete, EndOfLoop, ReloadRelay, Refresh, At
  <1>. QED
    BY <1>1, <1>2, FilesFormTokens, FilesFormRelay, FilesSaveForm, FilesTokens, FilesList,
      FilesEditYaml, FilesEditOwn, FilesBuild, FilesWriteNew, FilesSaveTokens, FilesSaveSetup,
      FilesKill, FilesDelete, FilesEndOfLoop, FilesReload, FilesRefresh DEF Step

\* A process dies.
LEMMA FilesInterrupted ==
  ASSUME FilesInv, TypeInv', NEW x \in Procs, Interrupted(x), UNCHANGED <<files, begun>>,
         server' = server \/ server' = NoServer
  PROVE  FilesInv'
  <1>1. TypeInv /\ proc' = [proc EXCEPT ![x] = None] /\ server'.peers \in {None, server.peers}
    BY DEF FilesInv, Interrupted, NoServer
  <1>2. PICK o : o = proc[x]
    OBVIOUS
  <1>3. cut' = IF o # None /\ o.op # "submit" /\ Plan(o.op)[o.at] \notin {"reloadRelay", "refresh"}
               THEN cut \union Changes(o) ELSE cut
    BY <1>2 DEF Interrupted
  <1>4. CASE o = None
    <2>1. proc' = proc /\ cut' = cut
      BY <1>1, <1>2, <1>3, <1>4 DEF TypeInv, ProcsOK
    <2>. QED
      BY <1>1, <2>1, Elsewhere
  <1>5. CASE o # None /\ o.op = "submit"
    <2>1. UNCHANGED <<setup, cut>> /\ setup = None
      BY <1>2, <1>3, <1>5 DEF FilesInv, FormPart, files
    <2>2. \A y \in Procs : proc'[y] = None
      BY <1>1, <1>2, <1>5 DEF FilesInv, Alone, TypeInv, ProcsOK
    <2>3. FormPart'
      BY <1>1, <2>1, <2>2 DEF FilesInv, FormPart
    <2>. QED
      BY <2>1, <2>2, <2>3 DEF FilesInv, Alone, StoryNow, PartsNow
  <1>6. CASE o # None /\ o.op # "submit" /\ Plan(o.op)[o.at] \notin {"reloadRelay", "refresh"}
    BY <1>1, <1>2, <1>3, <1>6, CutShort
  <1>7. CASE o # None /\ o.op # "submit" /\ Plan(o.op)[o.at] \in {"reloadRelay", "refresh"}
    <2>1. OnPlan(o)
      BY <1>1, <1>2, <1>7 DEF TypeInv, ProcsOK
    <2>2. PICK st : st = Plan(o.op)[o.at] /\ st \in {"reloadRelay", "refresh"}
      BY <1>7
    <2>3. \/ (o.op = "add" /\ o.at \in {7, 8}) \/ (o.op = "remove" /\ o.at \in {6, 7})
          \/ (o.op = "update" /\ o.at = 5) \/ (o.op = "dirs" /\ o.at = 3)
      BY <2>1, <2>2, StepPlaces DEF OnPlan
    <2>4. \/ (o.op = "add" /\ o.at >= 7) \/ (o.op = "remove" /\ o.at >= 6)
          \/ (o.op = "update" /\ o.at = 5) \/ (o.op = "dirs" /\ o.at = 3)
      BY <2>3
    <2>5. cut' = cut
      BY <1>3, <1>7
    <2>. QED
      BY <1>1, <1>2, <1>7, <2>4, <2>5, Complete
  <1>. QED
    BY <1>4, <1>5, <1>6, <1>7

LEMMA FilesSubmit ==
  ASSUME FilesInv, Submit
  PROVE  FilesInv'
  <1>1. TypeInv /\ Server \in Procs /\ setup = None
    BY DoesSubmit DEF FilesInv
  <1>2. PICK o2 : Begins(Server, o2, "submit") /\ o2.peer = None
    BY <1>1, DoesSubmit
  <1>3. TypeInv'
    BY <1>1, <1>2, BeginsType
  <1>4. \A y \in Procs : y # Server => proc[y] = None
    BY <1>1 DEF FilesInv, FormPart
  <1>5. proc'[Server] = o2 /\ (\A y \in Procs : y # Server => proc'[y] = None) /\ o2.op = "submit" /\ o2.at = 1
    BY <1>1, <1>2, <1>4, BecomesFacts DEF TypeInv, Begins
  <1>6. UNCHANGED <<setup, cut, server>>
    BY <1>2 DEF Begins, files
  <1>7. PartsNow'
    BY <1>5 DEF PartsNow, PartNow, SubmitPart
  <1>8. FormPart'
    BY <1>1, <1>5, <1>6 DEF FilesInv, FormPart
  <1>. QED
    BY <1>1, <1>3, <1>5, <1>6, <1>7, <1>8 DEF FilesInv, Alone, StoryNow

LEMMA FilesBegin ==
  ASSUME FilesInv, OneAtATime,
         \/ \E x \in Procs, p \in Peers : BeginAdd(x, p)
         \/ \E p \in Peers, op \in {"update", "dirs"}, gives \in Updates \union {NoGift} :
               BeginUpdate(p, op, gives)
         \/ \E p \in Peers : BeginRemove(p)
         \/ \E members \in Memberships : BeginTeams(members)
  PROVE  FilesInv'
  <1>1. TypeInv
    BY DEF FilesInv
  <1>2. setup # None => Listed = Named(setup)
    BY DEF Listed
  <1>3. ASSUME NEW x \in Procs, NEW p \in Peers, BeginAdd(x, p) PROVE FilesInv'
    <2>1. setup # None /\ p \notin Named(setup) /\ \A y \in Procs : proc[y] = None
      BY <1>1, <1>2, <1>3, DoesBeginAdd
    <2>2. PICK o2 : Begins(x, o2, "add") /\ o2.peer = p /\ o2.todo = <<>>
      BY <1>1, <1>3, DoesBeginAdd
    <2>3. o2.op = "add" /\ o2.at = 1 /\ o2.setup = setup
      BY <2>2 DEF Begins
    <2>4. \A A, R, t : Part(o2, setup, TokensOfFile, yaml, A, R, t)
      BY <2>1, <2>2, <2>3 DEF Part, Snapshot, Before, LoopPart, AddPart, RemovePart, UpdatePart, TeamsPart
    <2>. QED
      BY <2>1, <2>2, <2>4, BeginsAlone
  <1>4. ASSUME NEW p \in Peers, NEW op \in {"update", "dirs"}, NEW gives \in Updates \union {NoGift},
               BeginUpdate(p, op, gives)
        PROVE  FilesInv'
    <2>1. Server \in Procs /\ setup # None /\ p \in Named(setup) /\ \A y \in Procs : proc[y] = None
      BY <1>1, <1>2, <1>4, DoesBeginUpdate
    <2>2. PICK o2 : /\ Begins(Server, o2, op) /\ o2.peer = p
                    /\ ToSet(o2.todo) = {<<"project", p>>, <<"agent", p>>}
      BY <1>1, <1>4, DoesBeginUpdate
    <2>3. o2.op = op /\ o2.at = 1 /\ o2.setup = setup
      BY <2>2 DEF Begins
    <2>4. /\ \A f \in Left(o2) : f[2] = p
          /\ \A f \in Files : f[2] = p => f \in Left(o2)
      BY <2>2 DEF Left, Files, Dirs
    <2>5. \A A, R, t : Part(o2, setup, TokensOfFile, yaml, A, R, t)
      BY <2>1, <2>2, <2>3, <2>4
        DEF Part, Snapshot, Before, LoopPart, AddPart, RemovePart, UpdatePart, TeamsPart
    <2>. QED
      BY <2>1, <2>2, <2>5, BeginsAlone
  <1>5. ASSUME NEW p \in Peers, BeginRemove(p) PROVE FilesInv'
    <2>1. Server \in Procs /\ setup # None /\ p \in Named(setup) /\ \A y \in Procs : proc[y] = None
      BY <1>1, <1>2, <1>5, DoesBeginRemove
    <2>2. PICK o2 : Begins(Server, o2, "remove") /\ o2.peer = p
      BY <1>1, <1>5, DoesBeginRemove
    <2>3. o2.op = "remove" /\ o2.at = 1 /\ o2.setup = setup
      BY <2>2 DEF Begins
    <2>4. \A A, R, t : Part(o2, setup, TokensOfFile, yaml, A, R, t)
      BY <2>1, <2>2, <2>3 DEF Part, Snapshot, Before, LoopPart, AddPart, RemovePart, UpdatePart, TeamsPart
    <2>. QED
      BY <2>1, <2>2, <2>4, BeginsAlone
  <1>6. ASSUME NEW members \in Memberships, BeginTeams(members) PROVE FilesInv'
    <2>1. /\ Server \in Procs /\ setup # None /\ members \subseteq Named(setup)
          /\ \A y \in Procs : proc[y] = None
      BY <1>1, <1>2, <1>6, DoesBeginTeams
    <2>2. PICK o2 : /\ Begins(Server, o2, "teams") /\ o2.peer = None /\ o2.members = members
                    /\ ToSet(o2.todo) = Existing(Listed)
      BY <1>1, <1>6, DoesBeginTeams
    <2>3. o2.op = "teams" /\ o2.at = 1 /\ o2.setup = setup
      BY <2>2 DEF Begins
    <2>4. Named(setup) \subseteq Peers
      BY DEF Named
    <2>5. \A f : f \in Left(o2) <=> f \in Of(yaml, Named(setup))
      BY <1>2, <2>1, <2>2, <2>4 DEF Left, Existing, Of, Files
    <2>6. \A f \in Left(o2) : f[2] \in Named(setup) /\ f[2] # o2.peer
      BY <2>2, <2>4, <2>5, NoneAssumption DEF Of
    <2>7. \A A, R, t : Part(o2, setup, TokensOfFile, yaml, A, R, t)
      BY <2>1, <2>2, <2>3, <2>5, <2>6
        DEF Part, Snapshot, Before, LoopPart, AddPart, RemovePart, UpdatePart, TeamsPart
    <2>. QED
      BY <2>1, <2>2, <2>7, BeginsAlone
  <1>. QED
    BY <1>3, <1>4, <1>5, <1>6

\* install.sh, run before any operation, copies the yaml that is there.
LEMMA FilesInstall ==
  ASSUME FilesInv, TypeInv', ~LateInstall, NEW p \in Peers, Install(p)
  PROVE  FilesInv'
  <1>1. /\ TypeInv /\ server.peers # None /\ server.peers[p] # None /\ begun = 1
        /\ UNCHANGED <<setup, tokens, server, proc, cut, begun>>
    BY DEF FilesInv, Install
  <1>2. /\ setup # None /\ server.peers = setup /\ \A x \in Procs : proc[x] = None
    BY <1>1 DEF FilesInv, FormPart
  <1>3. PICK c : c = setup[p].text
    OBVIOUS
  <1>4. p \in Named(setup) /\ c = yaml[<<"project", p>>]
    BY <1>1, <1>2, <1>3 DEF FilesInv, FormPart, Named
  <1>5. <<"agent", p>> \in Files /\ <<"project", p>> \in Files /\ <<"agent", p>> # <<"project", p>>
    BY StateTypes, <1>1 DEF Dirs
  <1>6. yaml' = [yaml EXCEPT ![<<"agent", p>>] = c]
    BY <1>2, <1>3 DEF Install, WriteYaml
  <1>7. c # None
    <2>1. setup[p] \in SetupEntries
      BY <1>1, <1>2, StateTypes DEF Setups
    <2>. QED
      BY <1>3, <2>1, NoneAssumption DEF SetupEntries
  <1>8. Rewritten(yaml, yaml', <<"agent", p>>, c)
    BY <1>1, <1>5, <1>6, RewrittenBy
  <1>9. PICK A, R, U : \E t \in BOOLEAN :
          Opens(A, R, U, t) /\ Story(setup, TokensOfFile, yaml, A, R, U, t)
    BY <1>2 DEF FilesInv, StoryNow
  <1>10. PICK t \in BOOLEAN : Opens(A, R, U, t) /\ Story(setup, TokensOfFile, yaml, A, R, U, t)
    BY <1>9
  <1>11. Story(setup, TokensOfFile, yaml', A, R, U, t)
    <2>1. PICK f : f = <<"agent", p>>
      OBVIOUS
    <2>2. PICK g : g = <<"project", p>>
      OBVIOUS
    <2>3. f[2] = p /\ g[2] = p
      BY <2>1, <2>2
    <2>. QED
      BY <1>4, <1>5, <1>7, <1>8, <1>10, <2>1, <2>2, <2>3, StoryCopy
  <1>12. Opens(A, R, U, t)'
    BY <1>1, <1>10, OpensSame
  <1>13. StoryNow'
    BY <1>1, <1>11, <1>12 DEF StoryNow, TokensOfFile
  <1>14. \A q \in Named(setup) : yaml'[<<"project", q>>] = yaml[<<"project", q>>]
    <2>1. SUFFICES ASSUME NEW q \in Peers PROVE yaml'[<<"project", q>>] = yaml[<<"project", q>>]
      BY DEF Named
    <2>2. <<"project", q>> \in Files /\ <<"project", q>> # <<"agent", p>>
      BY <1>1, StateTypes DEF Dirs
    <2>. QED
      BY <1>8, <2>2 DEF Rewritten
  <1>15. FormPart'
    BY <1>1, <1>2, <1>14 DEF FilesInv, FormPart
  <1>. QED
    BY <1>1, <1>2, <1>13, <1>15 DEF FilesInv, Alone, PartsNow

LEMMA FilesNext ==
  ASSUME FilesInv, [Next]_vars, OneAtATime, ~LateInstall
  PROVE  FilesInv'
  <1>1. TypeInv /\ TypeInv'
    BY TypeNext DEF FilesInv
  <1>2. CASE UNCHANGED vars
    BY <1>1, <1>2, Elsewhere DEF vars
  <1>3. CASE Submit
    BY <1>3, FilesSubmit
  <1>4. CASE \/ \E x \in Procs, p \in Peers : BeginAdd(x, p)
             \/ \E p \in Peers, op \in {"update", "dirs"}, gives \in Updates \union {NoGift} :
                   BeginUpdate(p, op, gives)
             \/ \E p \in Peers : BeginRemove(p)
             \/ \E members \in Memberships : BeginTeams(members)
    BY <1>4, FilesBegin
  <1>5. ASSUME NEW x \in Procs, Step(x) PROVE FilesInv'
    BY <1>1, <1>5, FilesStep
  <1>6. ASSUME NEW x \in Procs, CliCrash(x) PROVE FilesInv'
    BY <1>1, <1>6, FilesInterrupted DEF CliCrash
  <1>7. CASE ServerCrash
    <2>1. Server \in Procs
      BY DEF Procs
    <2>. QED
      BY <1>1, <1>7, <2>1, FilesInterrupted DEF ServerCrash
  <1>8. CASE ServerStart
    <2>1. UNCHANGED <<files, proc, cut, begun>> /\ server'.peers = setup
      BY <1>8 DEF ServerStart, LoadSetups
    <2>. QED
      BY <1>1, <2>1, Elsewhere
  <1>9. CASE RelayLoads \/ RelayListens \/ RelayCrash
    <2>1. UNCHANGED <<files, proc, cut, begun, server>>
      BY <1>9 DEF RelayLoads, RelayListens, RelayCrash
    <2>. QED
      BY <1>1, <2>1, Elsewhere
  <1>10. ASSUME NEW p \in Peers, Install(p) PROVE FilesInv'
    BY <1>1, <1>10, FilesInstall
  <1>11. ASSUME NEW p \in Peers, StartDaemon(p) \/ EndDaemon(p) \/ ArmWatcher(p) \/ Watch(p)
         PROVE  FilesInv'
    <2>1. UNCHANGED <<files, proc, cut, begun, server>>
      BY <1>11 DEF StartDaemon, EndDaemon, ArmWatcher, Watch
    <2>. QED
      BY <1>1, <2>1, Elsewhere
  <1>. QED
    BY <1>2, <1>3, <1>4, <1>5, <1>6, <1>7, <1>8, <1>9, <1>10, <1>11 DEF Next

LEMMA FilesInit == Init => FilesInv
  BY TypeInit DEF Init, FilesInv, Alone, FormPart, StoryNow, PartsNow

-----------------------------------------------------------------------------
(* What the files promise                                                  *)

\* The story, told of two files of listed peers.
LEMMA TwoFiles ==
  ASSUME FilesInv, NEW p \in Settled, NEW q \in Settled, NEW d \in Dirs, NEW e \in Dirs,
         NEW f, NEW g, f = <<d, p>>, g = <<e, q>>, yaml[f] # None, yaml[g] # None
  PROVE  /\ p # q => /\ yaml[f].peers[q] # None /\ yaml[g].peers[p] # None
                     /\ yaml[f].peers[q].secret = yaml[g].peers[p].secret
         /\ NoneOpen({"teams"}) => \A m \in Settled : m \in yaml[f].team <=> m \in yaml[g].team
         /\ \A k \in Facts : <<k, q>> \notin InChange /\ p # q =>
              yaml[f].peers[q].about[k] = yaml[g].about[k]
  <1>1. setup # None /\ Listed = Named(setup) /\ Settled \subseteq Peers
    BY DEF Settled, Listed, Named
  <1>2. PICK A, R, U : \E t \in BOOLEAN :
          Opens(A, R, U, t) /\ Story(setup, TokensOfFile, yaml, A, R, U, t)
    BY <1>1 DEF FilesInv, StoryNow
  <1>3. PICK t \in BOOLEAN : Opens(A, R, U, t) /\ Story(setup, TokensOfFile, yaml, A, R, U, t)
    BY <1>2
  <1>4. \A m \in Settled : m \in Kept(setup, R) /\ m \in Named(setup)
    BY <1>1, <1>3 DEF Settled, Opens, OpenFor, Kept
  <1>5. f \in Of(yaml, Named(setup)) /\ f[2] = p /\ g \in Of(yaml, Named(setup)) /\ g[2] = q
    BY <1>1, <1>4 DEF Of, Files
  <1>6. p # q => yaml[f].peers[q] # None /\ yaml[g].peers[p] # None
    BY <1>3, <1>4, <1>5 DEF Story, Knows
  <1>7. p # q => yaml[f].peers[q].secret = yaml[g].peers[p].secret
    BY <1>3, <1>5, <1>6 DEF Story, Secrets
  <1>8. NoneOpen({"teams"}) => \A m \in Settled : m \in yaml[f].team <=> m \in yaml[g].team
    BY <1>3, <1>4, <1>5 DEF Story, Teams, Opens, TeamsOpen
  <1>9. ASSUME NEW k \in Facts, <<k, q>> \notin InChange, p # q
        PROVE  yaml[f].peers[q].about[k] = yaml[g].about[k]
    <2>1. <<k, q>> \notin U
      BY <1>3, <1>9 DEF Opens, OpenFacts
    <2>2. AboutIs(setup, yaml, q, k)
      BY <1>3, <1>4, <2>1 DEF Story, AboutAll
    <2>. QED
      BY <1>5, <1>6, <1>9, <2>2 DEF AboutIs
  <1>. QED
    BY <1>6, <1>7, <1>8, <1>9

LEMMA FilesInvAgree == FilesInv => FilesAgree
  <1>1. SUFFICES ASSUME FilesInv PROVE FilesAgree
    OBVIOUS
  <1>2. PairsAgree
    <2>1. SUFFICES ASSUME NEW p \in Settled, NEW q \in Settled, NEW d \in Dirs, NEW e \in Dirs,
                          p # q, yaml[<<d, p>>] # None, yaml[<<e, q>>] # None
                   PROVE  /\ q \in Named(yaml[<<d, p>>].peers) /\ p \in Named(yaml[<<e, q>>].peers)
                          /\ yaml[<<d, p>>].peers[q].secret = yaml[<<e, q>>].peers[p].secret
      BY DEF PairsAgree
    <2>2. p \in Peers /\ q \in Peers
      BY DEF Settled, Listed, Named
    <2>. QED
      BY <1>1, <2>1, <2>2, TwoFiles DEF Named
  <1>3. SharedFactsAgree
    <2>1. ASSUME NoneOpen({"teams"}), NEW p \in Settled, NEW q \in Settled, NEW d \in Dirs, NEW e \in Dirs,
                 yaml[<<d, p>>] # None, yaml[<<e, q>>] # None
          PROVE  yaml[<<d, p>>].team \intersect Settled = yaml[<<e, q>>].team \intersect Settled
      <3>1. \A m \in Settled : m \in yaml[<<d, p>>].team <=> m \in yaml[<<e, q>>].team
        BY <1>1, <2>1, TwoFiles
      <3>. QED
        BY <3>1
    <2>2. ASSUME NEW p \in Settled, NEW q \in Settled, NEW d \in Dirs, NEW e \in Dirs, NEW k \in Facts,
                 p # q, <<k, q>> \notin InChange, yaml[<<d, p>>] # None, yaml[<<e, q>>] # None
          PROVE  yaml[<<d, p>>].peers[q].about[k] = yaml[<<e, q>>].about[k]
      BY <1>1, <2>2, TwoFiles
    <2>3. NoneOpen({"teams"}) =>
            \A p, q \in Settled, d, e \in Dirs :
              yaml[<<d, p>>] # None /\ yaml[<<e, q>>] # None =>
                yaml[<<d, p>>].team \intersect Settled = yaml[<<e, q>>].team \intersect Settled
      BY <2>1
    <2>4. \A p, q \in Settled, d, e \in Dirs, k \in Facts :
            p # q /\ <<k, q>> \notin InChange /\ yaml[<<d, p>>] # None /\ yaml[<<e, q>>] # None =>
              yaml[<<d, p>>].peers[q].about[k] = yaml[<<e, q>>].about[k]
      BY <2>2
    <2>. QED
      BY <2>3, <2>4, Zenon DEF SharedFactsAgree
  <1>4. BearersMatch
    <2>1. SUFFICES ASSUME NEW p \in Settled
                   PROVE  /\ setup[p].bearer \in TokensOfFile
                          /\ \A d \in Dirs : yaml[<<d, p>>] # None =>
                               yaml[<<d, p>>].bearer = setup[p].bearer
      BY DEF BearersMatch
    <2>2. setup # None /\ Listed = Named(setup) /\ p \in Listed /\ p \in Peers
      BY DEF Settled, Listed, Named
    <2>3. PICK A, R, U : \E t \in BOOLEAN :
            Opens(A, R, U, t) /\ Story(setup, TokensOfFile, yaml, A, R, U, t)
      BY <1>1, <2>2 DEF FilesInv, StoryNow
    <2>4. PICK t \in BOOLEAN : Opens(A, R, U, t) /\ Story(setup, TokensOfFile, yaml, A, R, U, t)
      BY <2>3
    <2>5. p \in Kept(setup, R)
      BY <2>2, <2>4 DEF Settled, Opens, OpenFor, Kept
    <2>6. ASSUME NEW d \in Dirs, NEW f, f = <<d, p>>, yaml[f] # None
          PROVE  yaml[f].bearer = setup[p].bearer
      <3>1. f \in Of(yaml, Named(setup)) /\ f[2] = p
        BY <2>2, <2>6 DEF Of, Files
      <3>. QED
        BY <2>4, <3>1 DEF Story, BearersIn
    <2>. QED
      BY <2>4, <2>5, <2>6 DEF Story, BearersIn
  <1>. QED
    BY <1>2, <1>3, <1>4 DEF FilesAgree

LEMMA FilesInvRemoved == FilesInv => RemovedLeavesNothing
  <1>1. SUFFICES ASSUME FilesInv, NEW p \in Peers \ Listed, setup # None, ~Open({"add", "remove"}, p)
                 PROVE  /\ \A f \in Files :
                             yaml[f] # None =>
                               /\ f[2] # p
                               /\ f[2] \in Listed =>
                                    p \notin Named(yaml[f].peers) /\ p \notin yaml[f].team
                        /\ \A b \in TokensOfFile : b[1] # p
    BY DEF RemovedLeavesNothing
  <1>2. Listed = Named(setup)
    BY <1>1 DEF Listed
  <1>3. PICK A, R, U : \E t \in BOOLEAN :
          Opens(A, R, U, t) /\ Story(setup, TokensOfFile, yaml, A, R, U, t)
    BY <1>1 DEF FilesInv, StoryNow
  <1>4. PICK t \in BOOLEAN : Opens(A, R, U, t) /\ Story(setup, TokensOfFile, yaml, A, R, U, t)
    BY <1>3
  <1>5. p \notin A /\ p \notin R
    BY <1>1, <1>4 DEF Opens, OpenFor, Open
  <1>. QED
    BY <1>1, <1>2, <1>4, <1>5 DEF Story, Forgets, Of, Named

\* peer_ops.py: the copies of secrets, bearers, names and teams in the yamls,
\* tokens.json and setup.json agree between any two writes of an operation,
\* after every crash and whatever is tried again, as long as operations do not
\* overlap and the install scripts are run before the first of them.
THEOREM FilesAgreeHolds ==
  ASSUME OneAtATime, ~LateInstall
  PROVE  Spec => []FilesAgree
  <1>1. FilesInv /\ [Next]_vars => FilesInv'
    BY FilesNext
  <1>. QED
    BY <1>1, FilesInit, FilesInvAgree, PTL DEF Spec

\* peer_ops.py, remove_peer_op: under the same conditions nothing remains of a
\* removed peer, nor of one that was never added.
THEOREM RemovedLeavesNothingHolds ==
  ASSUME OneAtATime, ~LateInstall
  PROVE  Spec => []RemovedLeavesNothing
  <1>1. FilesInv /\ [Next]_vars => FilesInv'
    BY FilesNext
  <1>. QED
    BY <1>1, FilesInit, FilesInvRemoved, PTL DEF Spec

-----------------------------------------------------------------------------
(* What the relay holds                                                    *)

\* tokens.json may be another one than the relay's, until the relay reloads.
Reloading(o) ==
  \/ o.op = "add" /\ o.at \in 6..7
  \/ o.op = "remove" /\ o.at \in 2..6

Following == relay.state \in {"loaded", "up"} /\ ~warned

Follows ==
  Following =>
    \/ relay.tokens = TokensOfFile
    \/ \E x \in Procs : proc[x] # None /\ Reloading(proc[x])

\* The bearers that the operation may show are known to the relay, but for
\* the one it has made itself, which it shows only if there is no other.
RelayPart(o) ==
  /\ o.op = "submit" => setup = None /\ (o.at <= 3 => relay.state = "down")
  /\ o.op \in {"add", "remove"} /\ o.at >= 2 => ToSet(o.tokens) = TokensOfFile
  /\ Reloading(o) =>
       /\ Following => \A b \in ToSet(o.tokens) : b # <<o.peer, o.n>> => b \in relay.tokens
       /\ o.tokens # <<>> /\ Head(o.tokens) = <<o.peer, o.n>> =>
            \A b \in ToSet(o.tokens) : b = <<o.peer, o.n>>

RelayParts == \A x \in Procs : proc[x] # None => RelayPart(proc[x])

RelayInv ==
  /\ TypeInv /\ Alone /\ Follows /\ RelayParts
  /\ begun = 0 => setup = None /\ relay.state = "down"

LEMMA Begun ==
  ASSUME TypeInv, NEW x \in Procs, proc[x] # None
  PROVE  begun \in Nat /\ begun >= 1 /\ OnPlan(proc[x])
  <1>1. begun \in Nat /\ proc[x].n \in 1..begun /\ OnPlan(proc[x])
    BY StateTypes DEF TypeInv, Numbered, ProcsOK
  <1>. QED
    BY <1>1

\* An operation goes on.
LEMMA RelayGoes ==
  ASSUME RelayInv, TypeInv', NEW x \in Procs, NEW o, o = proc[x], o # None, begun' = begun,
         NEW o2, o2 # None, Becomes(x, o2), RelayPart(o2)',
         Following' => relay'.tokens = TokensOfFile' \/ Reloading(o2)
  PROVE  RelayInv'
  <1>1. TypeInv /\ \A y \in Procs : y # x => proc[y] = None
    BY DEF RelayInv, Alone
  <1>2. proc'[x] = o2 /\ \A y \in Procs : y # x => proc'[y] = None
    BY <1>1, BecomesFacts DEF TypeInv
  <1>3. Follows'
    BY <1>2 DEF Follows, Reloading
  <1>4. RelayParts'
    BY <1>2 DEF RelayParts, RelayPart, Reloading
  <1>5. begun' # 0
    BY <1>1, Begun
  <1>. QED
    BY <1>2, <1>3, <1>4, <1>5 DEF RelayInv, Alone

\* A step that touches neither tokens.json nor the relay.
LEMMA RelayPlain ==
  ASSUME RelayInv, TypeInv', NEW x \in Procs, NEW o, o = proc[x], o # None,
         UNCHANGED <<tokens, relay, warned, begun>>,
         NEW o2, Becomes(x, o2), Same(o, o2), o2.tokens = o.tokens,
         o.op = "submit" => UNCHANGED setup /\ (o2.at <= 3 => o.at <= 3),
         o.op \in {"add", "remove"} /\ o2.at >= 2 => o.at >= 2,
         Reloading(o2) <=> Reloading(o)
  PROVE  RelayInv'
  <1>1. o2 # None /\ o2.op = o.op /\ o2.peer = o.peer /\ o2.n = o.n
    BY NoneAssumption DEF Same
  <1>2. RelayPart(o) /\ TokensOfFile' = TokensOfFile /\ (Following' <=> Following)
    BY DEF RelayInv, RelayParts, TokensOfFile, Following
  <1>3. RelayPart(o2)'
    BY <1>1, <1>2 DEF RelayPart, Reloading
  <1>4. Following => relay.tokens = TokensOfFile \/ Reloading(o)
    BY DEF RelayInv, Follows, Alone
  <1>. QED
    BY <1>1, <1>2, <1>3, <1>4, RelayGoes

\* Nobody is in the middle of an operation any more.
LEMMA RelayEnds ==
  ASSUME RelayInv, TypeInv', NEW x \in Procs, proc[x] # None, proc' = [proc EXCEPT ![x] = None],
         begun' = begun, Following' => relay'.tokens = TokensOfFile'
  PROVE  RelayInv'
  <1>1. TypeInv /\ \A y \in Procs : y # x => proc[y] = None
    BY DEF RelayInv, Alone
  <1>2. \A y \in Procs : proc'[y] = None
    BY <1>1 DEF TypeInv, ProcsOK
  <1>3. begun' # 0
    BY <1>1, Begun
  <1>. QED
    BY <1>2, <1>3 DEF RelayInv, Alone, Follows, RelayParts

LEMMA NotReloading ==
  ASSUME RelayInv, NEW x \in Procs, proc[x] # None, ~Reloading(proc[x])
  PROVE  Following => relay.tokens = TokensOfFile
  BY DEF RelayInv, Follows, Alone

\* A relay that is started holds nothing yet.
LEMMA Started ==
  ASSUME StartRelay \/ LoadSetups \/ UNCHANGED relay
  PROVE  relay' = relay \/ relay'.state = "starting"
  BY DEF StartRelay, LoadSetups

LEMMA RelayTokens ==
  ASSUME RelayInv, TypeInv', NEW x \in Procs, NEW o, o = proc[x], o # None, Tokens(x)
  PROVE  RelayInv'
  <1>1. TypeInv /\ OnPlan(o) /\ o.op \in {"add", "remove"} /\ o.at = 1
    BY DoesTokens DEF RelayInv
  <1>2. UNCHANGED <<relay, begun, warned>>
    BY DEF Tokens
  <1>3. PICK o2 : Becomes(x, o2) /\ Same(o, o2) /\ o2.at = 2 /\ o2.tokens = tokens'
    BY <1>1, DoesTokens
  <1>4. o2 # None /\ o2.op = o.op /\ o2.peer = o.peer /\ o2.n = o.n
    BY <1>3, NoneAssumption DEF Same
  <1>5. (Following' <=> Following) /\ (Following => relay.tokens = TokensOfFile)
    BY <1>1, <1>2, NotReloading DEF Following, Reloading
  <1>6. CASE o.op = "add"
    <2>1. TokensOfFile' = TokensOfFile
      BY <1>1, <1>6, DoesTokens DEF TokensOfFile
    <2>2. RelayPart(o2)'
      BY <1>3, <1>4, <1>6 DEF RelayPart, Reloading, TokensOfFile
    <2>. QED
      BY <1>2, <1>3, <1>4, <1>5, <2>1, <2>2, RelayGoes
  <1>7. CASE o.op = "remove"
    <2>1. TokensOfFile' = {b \in TokensOfFile : b[1] # o.peer} /\ tokens' \in Seq(Bearers)
      BY <1>1, <1>7, DoesTokens DEF TokensOfFile
    <2>2. o2.tokens # <<>> => Head(o2.tokens) \in TokensOfFile'
      BY <1>3, <2>1, SetOfTail DEF TokensOfFile
    <2>3. <<o.peer, o.n>> \notin TokensOfFile'
      BY <2>1
    <2>4. ToSet(o2.tokens) = TokensOfFile'
      BY <1>3 DEF TokensOfFile
    <2>5. RelayPart(o2)'
      BY <1>2, <1>3, <1>4, <1>5, <1>7, <2>1, <2>2, <2>3, <2>4 DEF RelayPart, Reloading
    <2>6. Reloading(o2)
      BY <1>3, <1>4, <1>7 DEF Reloading
    <2>. QED
      BY <1>2, <1>3, <1>4, <2>5, <2>6, RelayGoes
  <1>. QED
    BY <1>1, <1>6, <1>7

LEMMA RelaySaveTokens ==
  ASSUME RelayInv, TypeInv', NEW x \in Procs, NEW o, o = proc[x], o # None, SaveTokens(x)
  PROVE  RelayInv'
  <1>1. /\ TypeInv /\ OnPlan(o) /\ o.op = "add" /\ o.at = 5 /\ o.tokens \in Seq(Bearers)
        /\ ToSet(tokens') = ToSet(o.tokens) \union {<<o.peer, o.n>>}
        /\ o.tokens # <<>> => Head(tokens') = Head(o.tokens)
    BY DoesSaveTokens, OpTypes DEF RelayInv
  <1>2. UNCHANGED <<relay, begun, warned>>
    BY DEF SaveTokens
  <1>3. PICK o2 : WroteTokens(x, o, o2)
    BY <1>1, DoesSaveTokens
  <1>4. /\ Becomes(x, o2) /\ o2 # None /\ o2.at = 6 /\ o2.tokens = tokens'
        /\ o2.op = "add" /\ o2.peer = o.peer /\ o2.n = o.n
    BY <1>1, <1>3, NoneAssumption DEF WroteTokens, Same
  <1>5. (Following' <=> Following) /\ (Following => relay.tokens = TokensOfFile)
    BY <1>1, <1>2, NotReloading DEF Following, Reloading
  <1>6. PICK b : b = <<o.peer, o.n>>
    OBVIOUS
  <1>7. ToSet(o.tokens) = TokensOfFile
    BY <1>1 DEF RelayInv, RelayParts, RelayPart
  <1>8. b \notin ToSet(o.tokens)
    <2>1. \A c \in ToSet(tokens) : c[2] # o.n
      BY <1>1 DEF TypeInv, Numbered
    <2>. QED
      BY <1>6, <1>7, <2>1 DEF TokensOfFile
  <1>9. Head(tokens') = b => \A c \in ToSet(tokens') : c = b
    <2>1. CASE o.tokens = <<>>
      BY <1>1, <1>6, <2>1, SetOfEmpty
    <2>2. CASE o.tokens # <<>>
      BY <1>1, <1>6, <1>8, <2>2, SetOfTail
    <2>. QED
      BY <2>1, <2>2
  <1>10. RelayPart(o2)'
    BY <1>1, <1>2, <1>4, <1>5, <1>6, <1>7, <1>9 DEF RelayPart, Reloading, TokensOfFile
  <1>11. Reloading(o2)
    BY <1>4 DEF Reloading
  <1>. QED
    BY <1>2, <1>4, <1>10, <1>11, RelayGoes

LEMMA RelayReload ==
  ASSUME RelayInv, TypeInv', NEW x \in Procs, NEW o, o = proc[x], o # None, ReloadRelay(x)
  PROVE  RelayInv'
  <1>1. /\ TypeInv /\ OnPlan(o) /\ ((o.op = "add" /\ o.at = 7) \/ (o.op = "remove" /\ o.at = 6))
        /\ Advances(x, o)
    BY DoesReload DEF RelayInv
  <1>2. PICK o2 : o2 = Stepped(o)
    OBVIOUS
  <1>3. /\ Becomes(x, o2) /\ o2 # None /\ o2.at = o.at + 1 /\ o2.op = o.op /\ o2.tokens = o.tokens
    BY <1>1, <1>2, NoneAssumption DEF Advances, Same
  <1>4. UNCHANGED <<tokens, begun>> /\ TokensOfFile' = TokensOfFile
    BY DEF ReloadRelay, files, TokensOfFile
  <1>5. ToSet(o.tokens) = TokensOfFile
    BY <1>1 DEF RelayInv, RelayParts, RelayPart
  <1>6. RelayPart(o2)'
    BY <1>1, <1>3, <1>4, <1>5 DEF RelayPart, Reloading
  <1>7. Following' => relay'.tokens = TokensOfFile'
    <2>1. CASE Accepted(o)
      <3>1. relay' = [relay EXCEPT !.tokens = TokensOfFile]
        BY <2>1 DEF ReloadRelay
      <3>2. relay'.tokens = TokensOfFile
        BY <1>1, <3>1 DEF TypeInv, TypeOK
      <3>. QED
        BY <1>4, <3>2
    <2>2. CASE ~Accepted(o)
      BY <2>2 DEF ReloadRelay, Following
    <2>. QED
      BY <2>1, <2>2
  <1>. QED
    BY <1>3, <1>4, <1>6, <1>7, RelayGoes

LEMMA RelayEditYaml ==
  ASSUME RelayInv, TypeInv', NEW x \in Procs, NEW o, o = proc[x], o # None, EditYaml(x)
  PROVE  RelayInv'
  <1>1. /\ TypeInv /\ OnPlan(o) /\ o.op # "submit"
        /\ \/ o.op \in {"add", "remove"} /\ o.at = 2
           \/ o.op = "update" /\ o.at = 3
           \/ o.op = "teams" /\ o.at = 1
    BY DoesEditYaml DEF RelayInv
  <1>2. UNCHANGED <<tokens, relay, begun>> /\ TokensOfFile' = TokensOfFile
    BY DEF EditYaml, TokensOfFile
  <1>3. CASE Becomes(x, None) /\ warned' = (warned \/ o.op = "remove")
    <2>1. CASE o.op = "remove"
      <3>1. ~Following'
        BY <1>3, <2>1 DEF Following
      <3>. QED
        BY <1>2, <1>3, <3>1, RelayEnds DEF Becomes
    <2>2. CASE o.op # "remove"
      <3>1. ~Reloading(o) /\ warned \in BOOLEAN
        BY <1>1, <2>2 DEF Reloading, TypeInv, TypeOK
      <3>2. warned' = warned
        BY <1>3, <2>2, <3>1
      <3>3. Following => relay.tokens = TokensOfFile
        BY <3>1, NotReloading
      <3>4. Following' => relay'.tokens = TokensOfFile'
        BY <1>2, <3>2, <3>3 DEF Following
      <3>. QED
        BY <1>2, <1>3, <3>4, RelayEnds DEF Becomes
    <2>. QED
      BY <2>1, <2>2
  <1>4. ASSUME NEW f, NEW o2, Becomes(x, o2), Loops(o, o2, f), UNCHANGED warned
        PROVE  RelayInv'
    <2>1. Same(o, o2) /\ o2.at = o.at /\ o2.tokens = o.tokens /\ o2.op = o.op
      BY <1>4 DEF Loops, Same
    <2>. QED
      BY <1>1, <1>2, <1>4, <2>1, RelayPlain DEF Reloading
  <1>. QED
    BY <1>1, <1>3, <1>4, DoesEditYaml

\* The rest of the loops.
LEMMA RelayLoops ==
  ASSUME RelayInv, TypeInv', NEW x \in Procs, NEW o, o = proc[x], o # None,
         EditOwn(x) \/ WriteNew(x) \/ Delete(x)
  PROVE  RelayInv'
  <1>1. TypeInv /\ UNCHANGED <<tokens, relay, warned, begun, setup>>
    BY DEF RelayInv, EditOwn, WriteNew, Delete
  <1>2. PICK f \in Files : \E o2 : Becomes(x, o2) /\ Loops(o, o2, f)
    <2>1. CASE EditOwn(x)
      BY <1>1, <2>1, DoesEditOwn
    <2>2. CASE WriteNew(x)
      BY <1>1, <2>2, DoesWriteNew
    <2>3. CASE Delete(x)
      BY <1>1, <2>3, DoesDelete
    <2>. QED
      BY <2>1, <2>2, <2>3
  <1>3. PICK o2 : Becomes(x, o2) /\ Loops(o, o2, f)
    BY <1>2
  <1>4. Same(o, o2) /\ o2.at = o.at /\ o2.tokens = o.tokens /\ o2.op = o.op
    BY <1>3 DEF Loops, Same
  <1>. QED
    BY <1>1, <1>3, <1>4, RelayPlain DEF Reloading

\* The steps that are not in a loop and have nothing to do with the relay.
LEMMA RelayAdvances ==
  ASSUME RelayInv, TypeInv', NEW x \in Procs, NEW o, o = proc[x], o # None,
         List(x) \/ Build(x) \/ SaveSetup(x) \/ Kill(x)
  PROVE  RelayInv'
  <1>1. TypeInv /\ UNCHANGED <<tokens, relay, warned, begun>>
    BY DEF RelayInv, List, Build, SaveSetup, Kill, files
  <1>2. /\ OnPlan(o) /\ o.at \in Nat
        /\ \/ o.op \in {"update", "dirs"}
           \/ o.op = "add" /\ o.at \in {3, 6}
           \/ o.op = "remove" /\ o.at \in {3, 4}
    BY <1>1, DoesList, DoesBuild, DoesSaveSetup, DoesKill, OpTypes
  <1>3. PICK o2 : Becomes(x, o2) /\ Same(o, o2) /\ o2.at = o.at + 1 /\ o2.tokens = o.tokens
    <2>1. CASE List(x)
      BY <1>1, <2>1, DoesList
    <2>2. CASE Build(x)
      BY <1>1, <2>2, DoesBuild
    <2>3. CASE SaveSetup(x)
      BY <1>1, <2>3, DoesSaveSetup DEF Advances
    <2>4. CASE Kill(x)
      BY <1>1, <2>4, DoesKill
    <2>. QED
      BY <2>1, <2>2, <2>3, <2>4
  <1>4. o2.op = o.op
    BY <1>3 DEF Same
  <1>. QED
    BY <1>1, <1>2, <1>3, <1>4, RelayPlain DEF Reloading

LEMMA RelayEndOfLoop ==
  ASSUME RelayInv, TypeInv', NEW x \in Procs, NEW o, o = proc[x], o # None, EndOfLoop(x)
  PROVE  RelayInv'
  <1>1. /\ TypeInv /\ OnPlan(o) /\ o.at \in Nat
        /\ \/ o.op \in {"add", "remove"} /\ o.at = 2
           \/ o.op = "update" /\ o.at = 3
           \/ o.op = "teams" /\ o.at = 1
           \/ o.op \in {"update", "dirs"} /\ o.at = 1
           \/ o.op = "submit" /\ o.at = 2
           \/ o.op = "add" /\ o.at = 4
           \/ o.op = "remove" /\ o.at = 5
        /\ o.op = "teams" => Becomes(x, None)
        /\ o.op # "teams" => Advances(x, o)
    BY DoesEndOfLoop, OpTypes DEF RelayInv
  <1>2. UNCHANGED <<tokens, relay, warned, begun, setup>> /\ TokensOfFile' = TokensOfFile
    BY DEF EndOfLoop, files, TokensOfFile
  <1>3. CASE o.op = "teams"
    <2>1. Following' => relay'.tokens = TokensOfFile'
      BY <1>2, <1>3, NotReloading DEF Following, Reloading
    <2>. QED
      BY <1>1, <1>2, <1>3, <2>1, RelayEnds DEF Becomes
  <1>4. CASE o.op # "teams"
    <2>1. PICK o2 : o2 = Stepped(o)
      OBVIOUS
    <2>2. Becomes(x, o2) /\ Same(o, o2) /\ o2.at = o.at + 1 /\ o2.tokens = o.tokens /\ o2.op = o.op
      BY <1>1, <1>4, <2>1 DEF Advances, Same
    <2>. QED
      BY <1>1, <1>2, <1>4, <2>2, RelayPlain DEF Reloading
  <1>. QED
    BY <1>3, <1>4

LEMMA RelayForm ==
  ASSUME RelayInv, TypeInv', NEW x \in Procs, NEW o, o = proc[x], o # None,
         FormTokens(x) \/ FormRelay(x) \/ SaveForm(x)
  PROVE  RelayInv'
  <1>1. TypeInv /\ RelayPart(o) /\ begun' = begun /\ warned' = warned
    BY DEF RelayInv, RelayParts, FormTokens, FormRelay, SaveForm
  <1>2. CASE FormTokens(x)
    <2>1. PICK o2 : Becomes(x, o2) /\ Same(o, o2) /\ o2.at = 2
      BY <1>1, <1>2, DoesFormTokens
    <2>2. o.op = "submit" /\ o.at = 1 /\ o2.op = "submit" /\ o2 # None
      BY <1>1, <1>2, <2>1, DoesFormTokens, NoneAssumption DEF Same
    <2>3. setup' = setup /\ relay' = relay /\ relay.state = "down" /\ setup = None
      BY <1>1, <1>2, <2>2 DEF RelayPart, FormTokens
    <2>4. RelayPart(o2)' /\ ~Following'
      BY <2>2, <2>3 DEF RelayPart, Reloading, Following
    <2>. QED
      BY <1>1, <2>1, <2>2, <2>4, RelayGoes
  <1>3. CASE FormRelay(x)
    <2>1. o.op = "submit" /\ o.at = 3 /\ Advances(x, o)
      BY <1>1, <1>3, DoesFormRelay
    <2>2. PICK o2 : o2 = Stepped(o)
      OBVIOUS
    <2>3. Becomes(x, o2) /\ Same(o, o2) /\ o2.at = 4 /\ o2.op = "submit" /\ o2 # None
      BY <2>1, <2>2, NoneAssumption DEF Advances, Same
    <2>4. relay.state = "down" /\ setup = None /\ setup' = setup /\ StartRelay
      BY <1>1, <1>3, <2>1 DEF RelayPart, FormRelay, files
    <2>5. RelayPart(o2)' /\ ~Following'
      BY <2>3, <2>4, Started DEF RelayPart, Reloading, Following
    <2>. QED
      BY <1>1, <2>3, <2>5, RelayGoes
  <1>4. CASE SaveForm(x)
    <2>1. o.op = "submit" /\ Becomes(x, None)
      BY <1>1, <1>4, DoesSaveForm
    <2>2. UNCHANGED <<tokens, relay>> /\ TokensOfFile' = TokensOfFile
      BY <1>4 DEF SaveForm, TokensOfFile
    <2>3. Following' => relay'.tokens = TokensOfFile'
      BY <1>1, <2>1, <2>2, NotReloading DEF Following, Reloading
    <2>. QED
      BY <1>1, <2>1, <2>3, RelayEnds DEF Becomes
  <1>. QED
    BY <1>2, <1>3, <1>4

LEMMA RelayRefresh ==
  ASSUME RelayInv, TypeInv', NEW x \in Procs, NEW o, o = proc[x], o # None, Refresh(x)
  PROVE  RelayInv'
  <1>1. /\ TypeInv /\ Becomes(x, None)
        /\ \/ (o.op = "add" /\ o.at = 8) \/ (o.op = "remove" /\ o.at = 7)
           \/ (o.op = "update" /\ o.at = 5) \/ (o.op = "dirs" /\ o.at = 3)
        /\ relay' = relay \/ relay'.state = "starting"
    BY DoesRefresh, Started DEF RelayInv
  <1>2. UNCHANGED <<tokens, begun, warned>> /\ TokensOfFile' = TokensOfFile
    BY DEF Refresh, files, TokensOfFile
  <1>3. Following' => relay'.tokens = TokensOfFile'
    BY <1>1, <1>2, NotReloading DEF Following, Reloading
  <1>. QED
    BY <1>1, <1>2, <1>3, RelayEnds DEF Becomes


LEMMA RelayStep ==
  ASSUME RelayInv, TypeInv', NEW x \in Procs, Step(x)
  PROVE  RelayInv'
  <1>1. PICK o : o = proc[x]
    OBVIOUS
  <1>2. o # None
    BY <1>1 DEF Step, FormTokens, FormRelay, SaveForm, Tokens, List, EditYaml, EditOwn, Build,
      WriteNew, SaveTokens, SaveSetup, Kill, Delete, EndOfLoop, ReloadRelay, Refresh, At
  <1>. QED
    BY <1>1, <1>2, RelayForm, RelayTokens, RelayEditYaml, RelayLoops, RelayAdvances,
      RelaySaveTokens, RelayEndOfLoop, RelayReload, RelayRefresh DEF Step

\* A step of nobody's operation.
LEMMA RelayElsewhere ==
  ASSUME RelayInv, TypeInv', UNCHANGED <<setup, tokens, proc, begun>>,
         begun = 0 \/ setup = None => relay' = relay \/ relay.state # "down" \/ relay'.state = "down",
         Following' => \/ Following /\ relay'.tokens = relay.tokens
                       \/ relay'.tokens = TokensOfFile
  PROVE  RelayInv'
  <1>1. TypeInv /\ TokensOfFile' = TokensOfFile
    BY DEF RelayInv, TokensOfFile
  <1>2. Follows'
    BY <1>1 DEF RelayInv, Follows
  <1>3. ASSUME NEW x \in Procs, NEW o, o = proc[x], o # None
        PROVE  RelayPart(o)'
    <2>1. RelayPart(o) /\ o.at \in Nat
      BY <1>1, <1>3, OpTypes DEF RelayInv, RelayParts, TypeInv, ProcsOK
    <2>2. o.op = "submit" => setup' = None /\ (o.at <= 3 => relay'.state = "down")
      BY <2>1 DEF RelayPart
    <2>3. Reloading(o) => ToSet(o.tokens) = TokensOfFile
      BY <2>1 DEF RelayPart, Reloading
    <2>4. Reloading(o) /\ Following' =>
            \A b \in ToSet(o.tokens) : b # <<o.peer, o.n>> => b \in relay'.tokens
      <3>1. CASE Following /\ relay'.tokens = relay.tokens
        BY <2>1, <3>1 DEF RelayPart
      <3>2. CASE relay'.tokens = TokensOfFile
        BY <2>3, <3>2
      <3>. QED
        BY <3>1, <3>2
    <2>. QED
      BY <1>1, <2>1, <2>2, <2>4 DEF RelayPart
  <1>4. RelayParts'
    BY <1>3 DEF RelayParts
  <1>5. begun' = 0 => setup' = None /\ relay'.state = "down"
    BY DEF RelayInv
  <1>. QED
    BY <1>2, <1>4, <1>5 DEF RelayInv, Alone

\* A process dies.  A removal or an addition that never reloads the relay is
\* one that "warned" stands for.
LEMMA RelayInterrupted ==
  ASSUME RelayInv, TypeInv', NEW x \in Procs, Interrupted(x),
         UNCHANGED <<setup, tokens, begun, relay>>
  PROVE  RelayInv'
  <1>1. /\ TypeInv /\ proc' = [proc EXCEPT ![x] = None] /\ TokensOfFile' = TokensOfFile
        /\ warned \in BOOLEAN
    BY DEF RelayInv, Interrupted, TokensOfFile, TypeInv, TypeOK
  <1>2. PICK o : o = proc[x]
    OBVIOUS
  <1>3. warned' = (warned \/ (o # None /\ o.op \in {"add", "remove"} /\ ~At(x, "refresh")))
    BY <1>2 DEF Interrupted
  <1>4. Following' => Following /\ relay'.tokens = relay.tokens
    BY <1>3 DEF Following
  <1>5. CASE o = None
    <2>1. proc' = proc
      BY <1>1, <1>2, <1>5 DEF TypeInv, ProcsOK
    <2>. QED
      BY <1>4, <2>1, RelayElsewhere
  <1>6. CASE o # None
    <2>1. OnPlan(o) /\ o.at \in Nat
      BY <1>1, <1>2, <1>6, OpTypes DEF TypeInv, ProcsOK
    <2>2. Reloading(o) => ~Following'
      <3>1. SUFFICES ASSUME Reloading(o) PROVE ~Following'
        OBVIOUS
      <3>2. ~At(x, "refresh")
        <4>1. SUFFICES ASSUME At(x, "refresh") PROVE FALSE
          OBVIOUS
        <4>2. (o.op = "add" => o.at = 8) /\ (o.op = "remove" => o.at = 7)
          BY <1>1, <1>2, <2>1, <4>1, AtPlan, StepPlaces DEF TypeInv, OnPlan
        <4>. QED
          BY <3>1, <4>2 DEF Reloading
      <3>3. warned'
        BY <1>3, <1>6, <3>1, <3>2 DEF Reloading
      <3>. QED
        BY <3>3 DEF Following
    <2>3. ~Reloading(o) => (Following => relay.tokens = TokensOfFile)
      BY <1>2, <1>6, NotReloading
    <2>4. Following' => relay'.tokens = TokensOfFile'
      BY <1>1, <1>4, <2>2, <2>3
    <2>. QED
      BY <1>1, <1>2, <1>6, <2>4, RelayEnds
  <1>. QED
    BY <1>5, <1>6

LEMMA RelayServerStart ==
  ASSUME RelayInv, TypeInv', ServerStart
  PROVE  RelayInv'
  <1>1. /\ UNCHANGED <<setup, tokens, proc, begun, warned>>
        /\ relay' = relay \/ relay'.state = "starting"
    BY Started DEF ServerStart, LoadSetups, files
  <1>2. setup = None => relay' = relay
    BY DEF ServerStart, LoadSetups
  <1>3. begun = 0 => setup = None
    BY DEF RelayInv
  <1>4. Following' => Following /\ relay'.tokens = relay.tokens
    BY <1>1 DEF Following
  <1>. QED
    BY <1>1, <1>2, <1>3, <1>4, RelayElsewhere

\* The relay itself.
LEMMA RelayOwn ==
  ASSUME RelayInv, TypeInv', RelayLoads \/ RelayListens \/ RelayCrash
  PROVE  RelayInv'
  <1>1. UNCHANGED <<setup, tokens, proc, begun>> /\ (relay.state # "down" \/ relay'.state = "down")
    BY DEF RelayLoads, RelayListens, RelayCrash, files
  <1>2. Following' => \/ Following /\ relay'.tokens = relay.tokens
                      \/ relay'.tokens = TokensOfFile
    <2>1. CASE RelayLoads
      BY <2>1 DEF RelayLoads
    <2>2. CASE RelayListens
      <3>1. relay'.tokens = relay.tokens
        BY <2>2 DEF RelayListens, RelayInv, TypeInv, TypeOK
      <3>2. relay.state = "loaded" /\ warned' = warned
        BY <2>2 DEF RelayListens
      <3>. QED
        BY <3>1, <3>2 DEF Following
    <2>3. CASE RelayCrash
      BY <2>3 DEF RelayCrash, Following
    <2>. QED
      BY <2>1, <2>2, <2>3
  <1>. QED
    BY <1>1, <1>2, RelayElsewhere

\* An operation begins, alone.
LEMMA RelayBegins ==
  ASSUME RelayInv, NEW x \in Procs, NEW o2, NEW op, Begins(x, o2, op),
         \A y \in Procs : proc[y] = None,
         op = "submit" => begun = 0
  PROVE  RelayInv'
  <1>1. TypeInv /\ TypeInv' /\ begun \in Nat
    BY BeginsType, StateTypes DEF RelayInv
  <1>2. /\ UNCHANGED <<setup, tokens, relay, warned>> /\ begun' = begun + 1
        /\ o2.op = op /\ o2.at = 1
    BY DEF Begins, files
  <1>3. proc'[x] = o2 /\ \A y \in Procs : y # x => proc'[y] = None
    BY <1>1, BecomesFacts DEF TypeInv, Begins
  <1>4. TokensOfFile' = TokensOfFile /\ (Following' <=> Following)
    BY <1>2 DEF TokensOfFile, Following
  <1>5. Following => relay.tokens = TokensOfFile
    BY DEF RelayInv, Follows
  <1>6. Follows'
    BY <1>2, <1>4, <1>5 DEF Follows
  <1>7. RelayPart(o2)'
    BY <1>2 DEF RelayInv, RelayPart, Reloading
  <1>8. RelayParts'
    BY <1>3, <1>7 DEF RelayParts
  <1>9. begun' # 0
    BY <1>1, <1>2
  <1>. QED
    BY <1>1, <1>3, <1>6, <1>8, <1>9 DEF RelayInv, Alone

LEMMA RelayNext ==
  ASSUME RelayInv, [Next]_vars, OneAtATime, ~Resubmit
  PROVE  RelayInv'
  <1>1. TypeInv /\ TypeInv'
    BY TypeNext DEF RelayInv
  <1>2. CASE UNCHANGED <<setup, tokens, proc, begun, relay, warned>>
    <2>1. Following' <=> Following
      BY <1>2 DEF Following
    <2>. QED
      BY <1>1, <1>2, <2>1, RelayElsewhere
  <1>3. CASE Submit
    <2>1. PICK o2 : Begins(Server, o2, "submit") /\ Server \in Procs
      BY <1>1, <1>3, DoesSubmit
    <2>2. begun = 0
      BY <1>1, <1>3, DoesSubmit
    <2>3. \A y \in Procs : proc[y] = None
      BY <1>1, <2>2, Begun
    <2>. QED
      BY <2>1, <2>2, <2>3, RelayBegins
  <1>4. ASSUME NEW x \in Procs, NEW p \in Peers, BeginAdd(x, p) PROVE RelayInv'
    <2>1. PICK o2 : Begins(x, o2, "add")
      BY <1>1, <1>4, DoesBeginAdd
    <2>. QED
      BY <1>1, <1>4, <2>1, DoesBeginAdd, RelayBegins
  <1>5. ASSUME NEW p \in Peers, NEW op \in {"update", "dirs"}, NEW gives \in Updates \union {NoGift},
               BeginUpdate(p, op, gives)
        PROVE  RelayInv'
    <2>1. PICK o2 : Begins(Server, o2, op) /\ Server \in Procs
      BY <1>1, <1>5, DoesBeginUpdate
    <2>. QED
      BY <1>1, <1>5, <2>1, DoesBeginUpdate, RelayBegins
  <1>6. ASSUME NEW p \in Peers, BeginRemove(p) PROVE RelayInv'
    <2>1. PICK o2 : Begins(Server, o2, "remove") /\ Server \in Procs
      BY <1>1, <1>6, DoesBeginRemove
    <2>. QED
      BY <1>1, <1>6, <2>1, DoesBeginRemove, RelayBegins
  <1>7. ASSUME NEW members \in Memberships, BeginTeams(members) PROVE RelayInv'
    <2>1. PICK o2 : Begins(Server, o2, "teams") /\ Server \in Procs
      BY <1>1, <1>7, DoesBeginTeams
    <2>. QED
      BY <1>1, <1>7, <2>1, DoesBeginTeams, RelayBegins
  <1>8. ASSUME NEW x \in Procs, Step(x) PROVE RelayInv'
    BY <1>1, <1>8, RelayStep
  <1>9. ASSUME NEW x \in Procs, CliCrash(x) PROVE RelayInv'
    BY <1>1, <1>9, RelayInterrupted DEF CliCrash, files
  <1>10. CASE ServerCrash
    <2>1. Server \in Procs
      BY DEF Procs
    <2>. QED
      BY <1>1, <1>10, <2>1, RelayInterrupted DEF ServerCrash, files
  <1>11. CASE ServerStart
    BY <1>1, <1>11, RelayServerStart
  <1>12. CASE RelayLoads \/ RelayListens \/ RelayCrash
    BY <1>1, <1>12, RelayOwn
  <1>13. ASSUME NEW p \in Peers,
                Install(p) \/ StartDaemon(p) \/ EndDaemon(p) \/ ArmWatcher(p) \/ Watch(p)
         PROVE  RelayInv'
    BY <1>2, <1>13 DEF Install, StartDaemon, EndDaemon, ArmWatcher, Watch, files
  <1>14. CASE UNCHANGED vars
    BY <1>2, <1>14 DEF vars, files
  <1>. QED
    BY <1>3, <1>4, <1>5, <1>6, <1>7, <1>8, <1>9, <1>10, <1>11, <1>12, <1>13, <1>14 DEF Next

LEMMA RelayInit == Init => RelayInv
  BY TypeInit DEF Init, RelayInv, Alone, Follows, Following, RelayParts

LEMMA RelayInvFollows == RelayInv => RelayFollowsFile
  <1>1. SUFFICES ASSUME RelayInv PROVE RelayFollowsFile
    OBVIOUS
  <1>2. ASSUME NEW x \in Procs, proc[x] # None
        PROVE  /\ OnPlan(proc[x]) /\ RelayPart(proc[x])
               /\ At(x, "refresh") => ~Reloading(proc[x])
               /\ At(x, "reloadRelay") => Reloading(proc[x])
    <2>1. PICK o : o = proc[x]
      OBVIOUS
    <2>2. ProcsOK /\ OnPlan(o) /\ RelayPart(o) /\ o.at \in Nat
      BY <1>1, <1>2, <2>1, OpTypes DEF RelayInv, RelayParts, TypeInv, ProcsOK
    <2>3. At(x, "refresh") => (o.op = "add" => o.at = 8) /\ (o.op = "remove" => o.at = 7)
      BY <2>1, <2>2, AtPlan, StepPlaces DEF OnPlan
    <2>4. At(x, "reloadRelay") => (o.op = "add" /\ o.at = 7) \/ (o.op = "remove" /\ o.at = 6)
      BY <2>1, <2>2, AtPlan, StepPlaces DEF OnPlan
    <2>. QED
      BY <2>1, <2>2, <2>3, <2>4 DEF Reloading
  <1>3. RelayHoldsFile
    <2>1. SUFFICES ASSUME relay.state = "up", ~warned,
                          \A x \in Procs : \/ proc[x] = None \/ At(x, "refresh")
                                           \/ proc[x].op \notin {"submit", "add", "remove"}
                   PROVE  relay.tokens = TokensOfFile
      BY DEF RelayHoldsFile
    <2>2. Following
      BY <2>1 DEF Following
    <2>3. ~\E x \in Procs : proc[x] # None /\ Reloading(proc[x])
      BY <1>2, <2>1 DEF Reloading
    <2>. QED
      BY <1>1, <2>2, <2>3 DEF RelayInv, Follows
  <1>4. BearerIsKnown
    <2>1. SUFFICES ASSUME NEW x \in Procs, relay.state = "up", ~warned, At(x, "reloadRelay"),
                          NEW b \in ToSet(proc[x].tokens), b # <<proc[x].peer, proc[x].n>>
                   PROVE  AnyBearer(proc[x]) \in relay.tokens
      BY DEF BearerIsKnown
    <2>2. PICK o : o = proc[x]
      OBVIOUS
    <2>3. o # None /\ OnPlan(o) /\ RelayPart(o) /\ Reloading(o) /\ Following
      BY <1>2, <2>1, <2>2 DEF At, Following
    <2>4. o.tokens \in Seq(Bearers) /\ o.tokens # <<>>
      BY <2>1, <2>2, <2>3, OpTypes, SetOfEmpty
    <2>5. Head(o.tokens) \in ToSet(o.tokens)
      BY <2>4, SetOfTail
    <2>6. Head(o.tokens) # <<o.peer, o.n>>
      BY <2>1, <2>2, <2>3, <2>4 DEF RelayPart
    <2>. QED
      BY <2>2, <2>3, <2>5, <2>6 DEF RelayPart, AnyBearer
  <1>. QED
    BY <1>3, <1>4 DEF RelayFollowsFile

\* peer_ops.py, _reload_relay and relay/main.py, reload_tokens: between operations
\* the relay lets in the bearers of tokens.json, and it knows the one that an
\* operation shows it, if operations do not overlap and the form is sent once.
THEOREM RelayFollowsFileHolds ==
  ASSUME OneAtATime, ~Resubmit
  PROVE  Spec => []RelayFollowsFile
  <1>1. RelayInv /\ [Next]_vars => RelayInv'
    BY RelayNext
  <1>. QED
    BY <1>1, RelayInit, RelayInvFollows, PTL DEF Spec
=============================================================================
