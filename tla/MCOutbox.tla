------------------------------ MODULE MCOutbox ------------------------------
(* Small instances of Outbox for TLC: an MCP server with its tool calls,   *)
(* and the daemon with its monitor.                                        *)
EXTENDS Outbox

CONSTANTS m1, m2, k1, k2, mon

OneMessage == {m1}
TwoMessages == {m1, m2}
SecondIsReply == {m2}
OneCheck == {k1}
TwoChecks == {k1, k2}
DaemonMonitor == {mon}
NoSet == {}

\* Tool calls of one server share a process, the monitor has its own.
ServerAndDaemon == [f \in {m1, m2, k1, k2, mon} |-> IF f = mon THEN "daemon" ELSE "server"]

=============================================================================
