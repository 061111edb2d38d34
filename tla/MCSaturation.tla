---------------------------- MODULE MCSaturation ----------------------------
EXTENDS Saturation

MCWorlds == 1..3
Both == {"P1", "P6"}
C(g, w) == [gen |-> g, to |-> w]
Table(even, odd, rank, declares) ==
    [offers |-> [h \in {0, 1} |-> IF h = 0 THEN even ELSE odd],
     regimes |-> 1, rank |-> rank, declares |-> declares]

\* One offer per world at most: quiet, a hidden move or a visible one.
Single == {{}} \cup {{c} : c \in [gen : {"tau", "act"}, to : MCWorlds]}
\* Worlds 2 and 3 are interchangeable: world 1 moves to 1 or 2 if it moves.
Plain == {f \in [MCWorlds -> Single] : \A c \in f[1] : c.to # 3}

RunTask == [kind |-> "run", contract |-> "bisimilar", pairs |-> 0,
            boundary |-> "same", mode |-> "visible", good |-> MCWorlds]
Tight == [hidden |-> 2, states |-> 3, visible |-> 2]
Budgets == {Tight, [Tight EXCEPT !.hidden = 1], [Tight EXCEPT !.states = 2]}
Itself(P) == [p \in P |-> {p}]

\* Runs of every plain table, under every declaration and budget.
PlainRuns ==
    [tasks |-> {RunTask}, budgets |-> Budgets,
     against |-> Itself({Table(f, f, "target", d) : f \in Plain, d \in {Both, {"P1"}, {"P6"}}})]

\* Runs with two offers at world 1, offers that depend on history, keys that
\* depend on the phase or collide, and steps the profile or the commit refuses.
First == {{C("tau", 2), C("act", 3)}, {C("tau", 2), C("tau", 1)}, {C("act", 2), C("tau", 2)},
          {C("mixed", 2)}, {C("broken", 2)}, {C("tau", 2)}}
TwistedTables ==
    {Table([w \in MCWorlds |-> CASE w = 1 -> a [] w = 2 -> b [] OTHER -> {C("tau", 1)}],
           [w \in MCWorlds |-> CASE w = 1 -> o [] w = 2 -> b [] OTHER -> {C("tau", 1)}],
           r, Both) :
        a \in First, o \in First \cup {{}}, b \in {{C("tau", 1)}, {C("tau", 3)}, {C("act", 1)}},
        r \in {"target", "parity", "none"}}
TwistedRuns == [tasks |-> {RunTask}, budgets |-> {[Tight EXCEPT !.visible = 3]},
                against |-> Itself(TwistedTables)]

\* A plain table against its revision at one world.
CompareTask(k, n, b) ==
    [RunTask EXCEPT !.kind = "compare", !.contract = k, !.pairs = n, !.boundary = b]
Sound(f) == Table(f, f, "target", Both)
Comparisons ==
    [tasks |-> {CompareTask(k, 3, "same") : k \in {"bisimilar", "refines"}}, budgets |-> {Tight},
     against |-> [p \in {Sound(f) : f \in Plain} |->
                    {Sound([p.offers[0] EXCEPT ![w] = o]) : w \in MCWorlds, o \in Single}]]
Refusals ==
    [tasks |-> {CompareTask("bisimilar", n, b) : n \in {1, 3}, b \in {"same", "different"}},
     budgets |-> {Tight, [Tight EXCEPT !.hidden = 0]},
     against |-> [p \in {Sound(f) : f \in [MCWorlds -> {{C("act", 2)}, {C("tau", 2)}}]} |->
                    {Table(f, f, "target", d) : d \in {Both, {"P1"}},
                        f \in [MCWorlds -> {{C("act", 2)}, {C("mixed", 3)}}]}]]

\* No regime at all: nothing is offered anywhere, and nothing is scanned.
NoRegimes(d) == [Table([w \in MCWorlds |-> {}], [w \in MCWorlds |-> {}], "target", d)
                    EXCEPT !.regimes = 0]

CloseTasks == [kind : {"close"}, contract : {"bisimilar"}, pairs : {0}, boundary : {"same"},
               mode : {"visible", "raw"}, good : {MCWorlds \ {w} : w \in MCWorlds}]
Closures == [tasks |-> CloseTasks, budgets |-> {Tight, [Tight EXCEPT !.hidden = 0]},
             against |-> Itself({Sound(f) : f \in Plain})]
TwistedClosures == [tasks |-> {t \in CloseTasks : t.good = {1, 2}}, budgets |-> {Tight},
                    against |-> Itself(TwistedTables)]

\* Presentations without a regime, run, closed, and compared with those that have one.
Unscanned ==
    [tasks |-> {RunTask} \cup CloseTasks
               \cup {CompareTask(k, 3, "same") : k \in {"bisimilar", "refines"}},
     budgets |-> {Tight},
     against |-> [p \in {NoRegimes(Both), NoRegimes({})} |->
                    {NoRegimes(Both)} \cup {Sound([w \in MCWorlds |-> o]) : o \in Single}]]

MCFamilies == {PlainRuns, TwistedRuns, Comparisons, Refusals, Closures, TwistedClosures, Unscanned}
=============================================================================
