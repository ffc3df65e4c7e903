--------------------------- MODULE MCControlLoop ---------------------------
EXTENDS ControlLoop
(* Findings in one unit, findings in no unit, and a defect of the plan.    *)
MCShapes == {[plan |-> FALSE, units |-> {1}], [plan |-> TRUE, units |-> {}]}
=============================================================================
