----------------------------- MODULE TermHistory -----------------------------
(***************************************************************************)
(* What the academic periods promise to the rest of the system: one term is *)
(* active, and the log of activations explains how it became so.            *)
(***************************************************************************)
EXTENDS Naturals, Sequences

CONSTANTS Term,    \* semesters
          NoTerm   \* no semester has been activated yet

VARIABLES active,  \* the active term
          history  \* the activations, oldest first: [from, to]

Init == active = NoTerm /\ history = <<>>

\* An activation moves to another term and is recorded once.
Activate(t) == /\ t # active
               /\ active' = t
               /\ history' = Append(history, [from |-> active, to |-> t])

Next == \E t \in Term : Activate(t)

Spec == Init /\ [][Next]_<<active, history>>
==============================================================================
