------------------------------ MODULE MC_Turns ------------------------------
(* Instances of Turns for TLC: the sets are given in the .cfg files.       *)
EXTENDS Turns, TLC

Symmetry == Permutations(Turns) \cup Permutations(Sessions)

-----------------------------------------------------------------------------
(* What the comments say of the active user, and does not hold of it.      *)

\* "methods called without an explicit user_id still operate on the right
\* user's session collection": with no call failing, a turn that answers has
\* its exchange appended to its user's session, and changes nothing else.
AnswersAreRecorded ==
  [][\A t \in Turns : turn[t].pc # "answered" /\ turn'[t].pc = "answered" =>
       LET u   == turn[t].user
           s   == turn[t].session
           doc == IF store[u][s] = None THEN NewSession ELSE store[u][s]
           exchange == <<[turn |-> t, role |-> "user"], [turn |-> t, role |-> "agent"]>>
       IN store' = [store EXCEPT ![u][s] = [doc EXCEPT !.msgs = @ \o exchange]]]_vars
=============================================================================
