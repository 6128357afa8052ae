------------------------------ MODULE MCScribe ------------------------------
(* Instances of Scribe: one or two scribes on a repository of few commits. *)
EXTENDS Scribe, TLC

CONSTANTS doc, pd

One == {doc}
Two == {doc, pd}
=============================================================================
