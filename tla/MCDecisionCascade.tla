------------------------ MODULE MCDecisionCascade ------------------------
(* The chain of tests/world_decision_relations.rs: orders are approved, an  *)
(* approved order with a gate is reviewed, a reviewed one dispatched.  Here *)
(* several orders and gates may name one entity, so that candidates can     *)
(* have several supports and disagree, and an order may also be flagged     *)
(* (as urgent as accepting it) or held (what is left when nothing else is). *)
EXTENDS DecisionCascade

MCRows(r, k) ==
    CASE r = "orders" /\ k = 1 -> {[e |-> 1, q |-> 1], [e |-> 1, q |-> 2]}
      [] r = "orders" /\ k = 2 -> {[e |-> 1, q |-> 0], [e |-> 1, q |-> 1], [e |-> 2, q |-> 1]}
      [] r = "gates" /\ k = 1 -> {[e |-> 1, a |-> 1], [e |-> 2, a |-> 1]}
      [] r = "gates" /\ k = 2 -> {[e |-> 1, a |-> 2]}

Present(base, r) == {k \in Key : base[r][k] # NoRow}

MCSource(d, base, win) ==
    CASE d = 1 -> {[e |-> base["orders"][k].e, t |-> [q |-> base["orders"][k].q], id |-> <<k>>] :
                     k \in Present(base, "orders")}
      [] d = 2 -> {[e |-> x[1].e, t |-> [q |-> x[1].v, a |-> base["gates"][x[2]].a], id |-> <<x[1].e, x[2]>>] :
                     x \in {x \in {w \in win : w.d = 1} \X Present(base, "gates") :
                               base["gates"][x[2]].e = x[1].e}}
      [] d = 3 -> {[e |-> w.e, t |-> [q |-> w.v], id |-> <<w.e>>] : w \in {w \in win : w.d = 2}}

(* Another program over the same rows: a gate closes an entity, and orders  *)
(* are reviewed for which no closed entity exists (an anti-join).          *)
ExcludingSource(d, base, win) ==
    CASE d = 1 -> {[e |-> base["gates"][k].e, t |-> [q |-> base["gates"][k].a], id |-> <<k>>] :
                     k \in Present(base, "gates")}
      [] d = 2 -> {[e |-> base["orders"][k].e, t |-> [q |-> base["orders"][k].q, a |-> 1], id |-> <<k>>] :
                     k \in {k \in Present(base, "orders") :
                               ~\E w \in win : w.d = 1 /\ w.e = base["orders"][k].e}}

MCProposal(d) == IF d = 1 THEN {"accepted", "flagged", "held"} ELSE {"accepted"}
MCPriority(d, p) == IF p = "held" THEN 2 ELSE 1
MCGuard(d, p, t) ==
    CASE p = "accepted" -> t.q > 0
      [] p = "flagged"  -> t.q = 2
      [] p = "held"     -> TRUE
MCValueOf(d, p, t) ==
    IF p # "accepted" THEN 0 ELSE IF d = 2 THEN t.q + t.a ELSE t.q
MCValue(d) == CASE d = 1 -> 0..2 [] OTHER -> 2..4
(* A held order has the least digest: only its priority makes it lose. *)
MCTie(d, e, p, v) ==
    CASE p = "accepted" -> v * 2
      [] p = "flagged"  -> 4 * v + 3
      [] p = "held"     -> v
=============================================================================
