----------------------------- MODULE MCStopHook -----------------------------
(* Two goals with one duty each; one item for the agent of the first goal,   *)
(* one for a human of the second.                                            *)
EXTENDS StopHook

CONSTANTS g1, g2, d1, p, i1, i2
MCMusts == [g \in Goals |-> {d1}]
MCGoalOf == [i \in Items |-> IF i = i1 THEN g1 ELSE g2]
MCOwner == [i \in Items |-> IF i = i1 THEN "agent" ELSE "human"]
=============================================================================
