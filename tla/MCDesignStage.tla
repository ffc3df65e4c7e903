--------------------------- MODULE MCDesignStage ---------------------------
EXTENDS DesignStage
Unit(seq, behavioral, deps) ==
    [seq |-> seq, behavioral |-> behavioral, tested |-> TRUE, migration |-> FALSE, deps |-> deps]
Answer(rows, docs) == [units |-> rows, docs |-> docs, schema |-> FALSE, addressed |-> TRUE]
(* A unit that needs docs; two units out of order, one after the other;    *)
(* and answers that are refused: units that wait for each other, a gap, a  *)
(* migration that comes last.                                              *)
MCAnswers ==
    {Answer(<<Unit(1, FALSE, {})>>, TRUE),
     Answer(<<Unit(2, TRUE, {1}), Unit(1, FALSE, {})>>, FALSE),
     Answer(<<Unit(1, FALSE, {2}), Unit(2, FALSE, {1})>>, FALSE),
     Answer(<<Unit(2, FALSE, {})>>, FALSE),
     [Answer(<<Unit(1, FALSE, {}), [Unit(2, FALSE, {}) EXCEPT !.migration = TRUE]>>, FALSE)
        EXCEPT !.schema = TRUE]}
=============================================================================
