------------------------------ MODULE MCRelay ------------------------------
(* Small instances of Relay for TLC.                                       *)
EXTENDS Relay, TLC

CONSTANTS alice, bob, c1, c2, n1, n2, n3, n4, n5, n6, r1, r2, r3, r4, d1, d2

MCAgents == {alice, bob}
MCCorrs == {c1, c2}
MCNonces == {n1, n2, n3, n4, n5, n6}
TwoReaders == {d1, d2}
BobReads == [d \in {d1, d2} |-> bob]
ThreeRequests == {r1, r2, r3}
FourRequests == {r1, r2, r3, r4}
RequestSymmetry == Permutations(Requests)
ReaderSymmetry == RequestSymmetry \union Permutations(Readers)

Message(endpoint, from, to, corr, nonce, ts) ==
  [endpoint |-> endpoint, sender |-> from, from |-> from, to |-> to,
   corr |-> corr, nonce |-> nonce, ts |-> ts]

Send1 == Message("send", alice, bob, None, n1, 0)
Ask1  == Message("ask", alice, bob, c1, n2, 0)
Ask2  == Message("ask", alice, bob, c2, n3, 0)
Reply1 == Message("reply", bob, alice, c1, n4, 0)
Reply1Again == Message("reply", bob, alice, c1, n5, 0)
NoCorr == [Ask1 EXCEPT !.corr = None]

\* Every endpoint, retransmissions (an element may be posted many times), two
\* replies to one ask, and an envelope the first checks reject.
MixedTraffic == {Send1, Ask1, Ask2, Reply1, Reply1Again}

\* The clock that stamps this one is one unit ahead of the relay's.
EarlySend == Message("send", alice, bob, None, n6, 1)

\* For the runs in which time passes.
AgingTraffic == {Send1, EarlySend, Ask1, Ask2, Reply1, NoCorr}

=============================================================================
