------------------------------ MODULE GoalEngine ------------------------------
(***************************************************************************)
(* The goal list of GoalEngine.  A completed goal is never looked at again *)
(* by the loop, so the list holds the pending goals only, in its order.    *)
(*                                                                         *)
(* A goal is known by what the rest of the loop sees of it: its priority,  *)
(* the kind of text the router makes of its title, and who added it.       *)
(***************************************************************************)
EXTENDS Naturals, Sequences, FiniteSets, SequencesExt

CONSTANT MaxGoals \* bound: pending goals; one added beyond it is forgotten

ASSUME GoalBound == MaxGoals \in Nat

\* What handle() may answer, without confirmation, to a title of each kind.
Kinds == {"simple", "shell", "gated", "unknown"}
Answers(kind) ==
    CASE kind = "simple" -> {"approve"}
      [] kind = "shell" -> {"approve", "denied", "raised"}
      [] kind = "gated" -> {"require_confirmation", "denied"}
      [] kind = "unknown" -> {"denied"}

\* Mutant: the goal is appended and the list left as it is.
AddGoalLast(goals, goal) ==
    IF Len(goals) >= MaxGoals THEN goals ELSE Append(goals, goal)

\* Appended, and the list sorted by descending priority; the sort is stable.
AddGoal(goals, goal) ==
    LET ahead == {i \in DOMAIN goals : goals[i].priority >= goal.priority}
    IN IF Len(goals) >= MaxGoals THEN goals
       ELSE InsertAt(goals, Cardinality(ahead) + 1, goal)

IsOrdered(goals) ==
    \A i, j \in DOMAIN goals : i < j => goals[i].priority >= goals[j].priority

\* The goal at work is the current one: the first that is pending.
CompleteCurrent(goals) == Tail(goals)

CompleteGoals(goals, origins) ==
    LET left[n \in 0..Len(goals)] ==
          IF n = 0 THEN <<>>
          ELSE IF goals[n].origin \in origins THEN left[n - 1]
          ELSE Append(left[n - 1], goals[n])
    IN left[Len(goals)]
=============================================================================
