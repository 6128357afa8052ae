--------------------------- MODULE MCConversation ---------------------------
(***************************************************************************)
(* Two peers.  Alice asks Bob, whose claude asks back, whose claude asks   *)
(* Bob again: with one permit each, a circle.  A send of Alice's comes in  *)
(* between.                                                                *)
(***************************************************************************)
EXTENDS Conversation

Message(id, kind, from, to, parent) ==
  [id |-> id, kind |-> kind, from |-> from, to |-> to, parent |-> parent]

CONSTANTS Alice, Bob

Circle == { Message(1, "ask", Alice, Bob, None),
            Message(2, "ask", Bob, Alice, 1),
            Message(3, "ask", Alice, Bob, 2),
            Message(4, "send", Alice, Bob, None) }
=============================================================================
