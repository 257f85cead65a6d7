------------------------------ MODULE MCBreaks ----------------------------
(* One or two opens of a file, of one or two clients; one or two runs of    *)
(* BreakNode, or two CHANGE_NOTIFYs.                                        *)
EXTENDS Breaks

CONSTANTS c1, c2, h1, h2, b1, b2, q1, q2, k1, k2

Asks(a, b) == [h \in Handle |-> IF h = h1 THEN a ELSE b]
AskFor(c, level, key) == [client |-> c, level |-> level, key |-> key]
Plan(a, b, breakers, notifies) == [ask |-> Asks(a, b), breakers |-> breakers, notifies |-> notifies]

MCPlans ==
    {Plan(AskFor(c1, "excl", None), AskFor(c2, "lease", k1), {b1, b2}, {}),
     Plan(AskFor(c1, "II", None), AskFor(c1, "lease", None), {b1, b2}, {}),
     Plan(AskFor(c1, "lease", k1), AskFor(c1, "lease", k1), {b1}, {}),
     Plan(AskFor(c1, "excl", k1), AskFor(c2, "none", k2), {b1, b2}, {}),
     Plan(AskFor(c1, "none", None), AskFor(c1, "none", None), {}, {q1, q2}),
     Plan(AskFor(c1, "excl", None), None, {b1}, {q1})}
============================================================================
