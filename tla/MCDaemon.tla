------------------------------ MODULE MCDaemon ------------------------------
(* Small instances of Daemon for TLC: what its correspondents alice and bob *)
(* send, one definition per message.                                        *)
EXTENDS Daemon

CONSTANTS alice, bob, k1, k2, i1, i2, i3, i4, i5, i6

Correspondents == {alice, bob}
TwoAsks == {k1, k2}
SixIds == {i1, i2, i3, i4, i5, i6}

Message(i, kind, from, corr) ==
  [id |-> i, kind |-> kind, from |-> from, corr |-> corr, tagged |-> FALSE]

AskOfAlice == Message(i1, "ask", alice, k1)
AskOfBob == Message(i2, "ask", bob, k2)
PlainSend == Message(i3, "send", bob, None)
SendOfAlice == Message(i5, "send", alice, None)
TaskUpdate == [Message(i3, "send", bob, None) EXCEPT !.tagged = TRUE]
CancelOfAlice == Message(i4, "cancel", alice, k1)
CancelByOther == Message(i6, "cancel", bob, k1)

MixedTraffic == {AskOfAlice, AskOfBob, PlainSend, CancelOfAlice, CancelByOther}
CancelTraffic == {AskOfAlice, AskOfBob, TaskUpdate, CancelOfAlice, CancelByOther}
QueueTraffic == {AskOfAlice, AskOfBob, PlainSend, SendOfAlice}

=============================================================================
