-------------------------- MODULE MCClarifyQuestions --------------------------
EXTENDS ClarifyQuestions, TLC
CONSTANTS p1, p2

\* q1 asks about x; q2 normalizes an Other answer to q1, with and without a new
\* policy axis, repeats q1, or asks about y; q3 normalizes the answer to q1 as well.
Q(q, cell, target, text, axes, norm) ==
    [q |-> q, cell |-> cell, target |-> target, text |-> text, axes |-> axes, norm |-> norm]

MCDraft == {Q("q1", "c", "x", "t1", {"status"}, None),
            Q("q2", "c", "x", "t2", {"status"}, "q1"),
            Q("q2", "c", "x", "t2", {"status", "amount"}, "q1"),
            Q("q2", "d", "y", "t1", {}, None),
            Q("q3", "c", "x", "t2", {"status"}, "q1")}

MCFrontier == [v \in Version |-> IF v = 1 THEN {"c", "d"} ELSE {"c"}]
MCFrontierAlways == [v \in Version |-> {"c", "d"}]
=============================================================================
