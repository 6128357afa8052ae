------------------------------ MODULE MCTasks ------------------------------
(* Instances of Tasks: two peers that delegate a task or two.              *)
EXTENDS Tasks, TLC

CONSTANTS alice, bob, t1, t2

Both == {alice, bob}
OneTask == {t1}
TwoTasks == {t1, t2}
PeerSymmetry == Permutations(Both)
=============================================================================
