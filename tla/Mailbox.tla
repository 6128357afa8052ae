------------------------------ MODULE Mailbox ------------------------------
(***************************************************************************)
(* What the relay promises the agents about their inboxes: each message is *)
(* put into its recipient's queue at most once, unless it was accepted     *)
(* before its own timestamp; it leaves from the front, into the hand of    *)
(* one reader; and a reader is given what it has in hand, in the order it  *)
(* was put, or loses all of it when its call fails.                        *)
(***************************************************************************)
EXTENDS Naturals, Sequences

CONSTANTS
  Agents, Messages,
  Readers,   \* clients that empty queues
  Owner,     \* the agent each reader reads for
  Errors,    \* whether a reader's call may fail
  Crashes    \* whether the service may restart

VARIABLES
  queue,   \* messages waiting for each agent
  hand,    \* messages a reader's call has taken and not given
  taken,   \* messages given to each reader, in order
  seen,    \* every message ever put
  early    \* messages that may be put again

vars == <<queue, hand, taken, seen, early>>

Init ==
  /\ queue = [a \in Agents |-> <<>>]
  /\ hand = [d \in Readers |-> <<>>]
  /\ taken = [d \in Readers |-> <<>>]
  /\ seen = {}
  /\ early = {}

Put(a, m) ==
  /\ m \in seen => m \in early
  /\ seen' = seen \cup {m}
  /\ queue' = [queue EXCEPT ![a] = Append(@, m)]
  /\ UNCHANGED <<hand, taken, early>>

Stamp(m) ==
  /\ early' = early \cup {m}
  /\ UNCHANGED <<queue, hand, taken, seen>>

\* The first n messages leave the queue of a.
Leave(a, n) == queue' = [queue EXCEPT ![a] = SubSeq(@, n + 1, Len(@))]

Front(a, n) == SubSeq(queue[a], 1, n)

Take(d, n) ==
  /\ Leave(Owner[d], n)
  /\ hand' = [hand EXCEPT ![d] = @ \o Front(Owner[d], n)]
  /\ UNCHANGED <<taken, seen, early>>

\* The reader is given what is in its hand and the next n messages.
Give(d, n) ==
  /\ Leave(Owner[d], n)
  /\ taken' = [taken EXCEPT ![d] = @ \o (hand[d] \o Front(Owner[d], n))]
  /\ hand' = [hand EXCEPT ![d] = <<>>]
  /\ UNCHANGED <<seen, early>>

\* The reader's call fails: what is in its hand and the next n messages are
\* gone.
Lose(d, n) ==
  /\ Errors
  /\ Leave(Owner[d], n)
  /\ hand' = [hand EXCEPT ![d] = <<>>]
  /\ UNCHANGED <<taken, seen, early>>

Crash ==
  /\ Crashes
  /\ hand' = [d \in Readers |-> <<>>]
  /\ UNCHANGED <<queue, taken, seen, early>>

Next ==
  \/ \E a \in Agents, m \in Messages : Put(a, m)
  \/ \E m \in Messages : Stamp(m)
  \/ \E d \in Readers : \E n \in 0..Len(queue[Owner[d]]) :
       Take(d, n) \/ Give(d, n) \/ Lose(d, n)
  \/ Crash

Spec == Init /\ [][Next]_vars

=============================================================================
