----------------------------- MODULE MCPeerOps -----------------------------
(* Instances of PeerOps: two peers of the form and a newcomer.             *)
EXTENDS PeerOps, TLC

CONSTANTS a, b, c, d, cli

Two == {a, b}
One == {c}
Pair == {c, d}
BandC == {b, c}
Three == {a, b, c}
OneCli == {cli}
NoPeers == {}
AllOps == {"add", "update", "dirs", "remove", "teams"}
AddRemove == {"add", "remove"}
SomeTeams == {{}, {b, c}}
TeamOfB == {{b}}
AandC == {a, c}
FounderTeam == {{a}}
\* The form's role again; another name and another role.
OldRole == [name |-> None, role |-> 1]
NewNameAndRole == [name |-> 9, role |-> 9]
TwoUpdates == {OldRole, NewNameAndRole}
=============================================================================
