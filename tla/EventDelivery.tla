---------------------------- MODULE EventDelivery ----------------------------
(***************************************************************************)
(* What the cron event queue promises: an event that was posted for an     *)
(* agent stays until that agent has handled it in a cycle that succeeded.  *)
(* It may be handled more than once; it is never dropped unhandled.        *)
(***************************************************************************)
CONSTANTS Events, Agents, None

VARIABLES
  stage,     \* stage[e]: "unused", "pending", "handled" (still queued) or "gone"
  owner      \* owner[e]: the agent e was posted for, or None

TypeOK == /\ stage \in [Events -> {"unused", "pending", "handled", "gone"}]
          /\ owner \in [Events -> Agents \cup {None}]

Init == /\ stage = [e \in Events |-> "unused"]
        /\ owner = [e \in Events |-> None]

Post(e, a) ==
  /\ stage[e] = "unused"
  /\ stage' = [stage EXCEPT ![e] = "pending"]
  /\ owner' = [owner EXCEPT ![e] = a]

\* a handles the events of S, and D of them are taken off the queue.
Handle(a, S, D) ==
  /\ \A e \in S : owner[e] = a /\ stage[e] \in {"pending", "handled"}
  /\ D \subseteq S
  /\ stage' = [e \in Events |-> IF e \in D THEN "gone"
                                ELSE IF e \in S THEN "handled" ELSE stage[e]]
  /\ UNCHANGED owner

\* Events handled before are taken off the queue.
Retire(D) ==
  /\ \A e \in D : stage[e] = "handled"
  /\ stage' = [e \in Events |-> IF e \in D THEN "gone" ELSE stage[e]]
  /\ UNCHANGED owner

Next ==
  \/ \E e \in Events, a \in Agents : Post(e, a)
  \/ \E a \in Agents, S \in SUBSET Events : \E D \in SUBSET S : Handle(a, S, D)
  \/ \E D \in SUBSET Events : Retire(D)

Spec == Init /\ [][Next]_<<stage, owner>>
=============================================================================
