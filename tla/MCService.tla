------------------------------ MODULE MCService ------------------------------
(* Instances of Service.  Characters: "-" is 1, "/" is 2, "a" is 3.         *)
EXTENDS Service

CONSTANTS a, b, c, f, g, t1, t2

root == <<2>>
top == <<2, 3>>
side == <<2, 3, 1>>
below == <<2, 3, 2, 3>>
MCPaths == {root, top, side, below}
MCKeys == Factories \X MCPaths
MCShared == {f} \X MCPaths
MCReusable == {<<g, top>>}

Ask(url, matched) == [url |-> url, matched |-> matched]
Mount1(p, x) == [path |-> p, factory |-> x]
Scenario(cs, th, qa, qb, ms, fs, n) ==
    [requests |-> [x \in Clients |-> IF x = a THEN qa ELSE IF x = b THEN qb ELSE <<>>],
     mounting |-> ms,
     plan |-> [connect |-> cs, thread |-> [x \in Clients |-> IF x = a THEN th[1] ELSE th[2]],
               filter |-> fs, sources |-> n]]

MCScenarios == {
    Scenario({a, b}, <<t1, t2>>, <<Ask(top, TRUE), Ask(below, TRUE)>>, <<Ask(top, FALSE)>>, <<Mount1(top, f)>>, FALSE, 0),
    Scenario({a}, <<t1, t1>>, <<Ask(top, TRUE), Ask(below, FALSE)>>, <<>>,
        <<Mount1(top, f), Mount1(root, g), Mount1(below, g), Mount1(side, f), Mount1(top, None)>>, FALSE, 0),
    Scenario({a, b}, <<t1, t1>>, <<Ask(top, TRUE)>>, <<Ask(top, TRUE)>>, <<Mount1(top, f), Mount1(top, g)>>, FALSE, 0),
    Scenario({a, b, c}, <<t1, t1>>, <<>>, <<>>, <<>>, TRUE, 0),
    Scenario({a, c}, <<None, t2>>, <<Ask(<<>>, TRUE)>>, <<>>, <<Mount1(root, f)>>, FALSE, 2)}
===============================================================================
