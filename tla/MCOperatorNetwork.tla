------------------------ MODULE MCOperatorNetwork ------------------------
(* A network with every kind of operator over orders (1) and parents (2).  *)
(* Orders are bound, projected and filtered by value 1 (3, 4, 5); the      *)
(* orders of a parent are grouped and collected (7), the parents without   *)
(* an order of value 1 found (8), both put together (9), the orders of     *)
(* value 1 counted per parent (10), and what 9 and 10 say of a parent      *)
(* joined, as a DISTINCT output (12).                                      *)
EXTENDS OperatorNetwork

MCNumOps == 12
MCKind == <<"scan", "scan", "map", "map", "filter", "join",
            "group", "anti", "union", "parent", "join", "distinct">>
MCInputs == << <<>>, <<>>, <<1>>, <<3>>, <<4>>, <<2, 3>>,
               <<6>>, <<2, 5>>, <<7, 8>>, <<2, 5>>, <<10, 9>>, <<11>> >>
MCRelation == [n \in 1..12 |-> IF n = 1 THEN "orders" ELSE IF n = 2 THEN "parents" ELSE "none"]
MCOutputs == {9, 12}

MCRows(r) == IF r = "orders" THEN {<<1, 1>>, <<1, 2>>, <<2, 1>>} ELSE {[g |-> 1]}
MCRow(n, t) == IF n = 3 THEN [g |-> t[1], v |-> t[2]] ELSE [g |-> t.g, one |-> (t.v = 1)]
MCPass(n, t) == t.one
MCKeyOf(n, side, t) == t.g
MCMerge(n, l, r) == IF n = 6 THEN [g |-> l.g, v |-> r.v] ELSE [g |-> l.g, orders |-> l.n, row |-> r]
MCGroupOf(n, t) == t.g
MCAggOf(n, t) == t.v
=============================================================================
