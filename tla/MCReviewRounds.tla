--------------------------- MODULE MCReviewRounds ---------------------------
EXTENDS ReviewRounds
Major(unit, key) == [severity |-> "major", nominated |-> TRUE, unit |-> unit, key |-> key]
Critical(unit) == [severity |-> "critical", nominated |-> FALSE, unit |-> unit, key |-> "other"]
PlanDefect == [severity |-> "major", nominated |-> FALSE, unit |-> 2, key |-> "plan-defect"]
MCFilings ==
    {<<>>, <<Major(2, "defect")>>, <<Critical(NoUnit)>>, <<PlanDefect>>,
     <<Major(NoUnit, "defect"), Major(2, "other")>>}

(* Two rounds of an old release, the second of which completed, or did not.*)
Rounds == <<Filed(Critical(1), 1), Filed(Major(2, "defect"), 2)>>
MCLegacy ==
    {[findings |-> Rounds, round |-> 2, succeeded |-> TRUE, count |-> 1],
     [findings |-> Rounds, round |-> 2, succeeded |-> TRUE, count |-> 2],
     [findings |-> Rounds, round |-> 2, succeeded |-> FALSE, count |-> 0]}
=============================================================================
