---------------------------- MODULE MCDaemonLock ----------------------------
(* Small instances of DaemonLock for TLC.                                  *)
EXTENDS DaemonLock, TLC

CONSTANTS d1, d2, d3, t1, r1, p1, p2, p3, p4

TwoDaemons == {d1, d2}
ThreeDaemons == {d1, d2, d3}
OneTool == {t1}
OneRemover == {r1}
TwoPids == {p1, p2}
ThreePids == {p1, p2, p3}
FourPids == {p1, p2, p3, p4}
NoSet == {}

\* Neither daemons nor PIDs are told apart.
LockSymmetry == Permutations(Daemons) \cup Permutations(Pids)

=============================================================================
