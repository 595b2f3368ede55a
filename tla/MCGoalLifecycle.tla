-------------------------- MODULE MCGoalLifecycle --------------------------
(* Two goals, the second with one duty more; item i1 is bound to it.         *)
EXTENDS GoalLifecycle

CONSTANTS g1, g2, d1, d2, p, q
MCMusts == [g \in Goals |-> IF g = g1 THEN {d1} ELSE {d1, d2}]
MCLists == {{p}, {q}}
MCGoalOf == [i \in Items |-> g2]
MCOwner == [i \in Items |-> "human"]
=============================================================================
