----------------------------- MODULE Saturation -----------------------------
(***************************************************************************)
(* Divergence-sensitive saturation of the settlement calendar              *)
(* (soc-core, saturate/).  A presentation offers candidates at a           *)
(* configuration; a tick keys them, commits the least and moves on.  A     *)
(* saturated step hides the administrative ("tau") commits in front of one *)
(* realizing commit and ends with a realizing step, quiescence, certified  *)
(* divergence, or an honest "unknown".  Three analyses drive it: a run, a  *)
(* comparison of two revisions in lockstep, and a closure check of a       *)
(* predicate.                                                              *)
(*                                                                         *)
(* A setup fixes what the caller supplies: the task, the presentations and *)
(* the budgets; a family is a set of tasks and budgets, and for each       *)
(* implementation the specifications it is held against.  An offer and a   *)
(* key may depend on history and on phase only through their parity; that  *)
(* is enough to falsify the two hypotheses, P1 (offers ignore history) and *)
(* P6 (keys ignore phase).  Offers are what all regimes of a presentation  *)
(* propose and Adm admits; a presentation may have no regime at all.       *)
(***************************************************************************)
EXTENDS Integers, Sequences, FiniteSets

CONSTANTS Worlds, Start, Families

Sides == {"impl", "spec"}
Generators == <<"tau", "act", "mixed", "broken">>
Candidate == [gen : {Generators[i] : i \in DOMAIN Generators}, to : Worlds]
Config == [world : Worlds, hist : Nat]

\* What a setup holds: PresentationV1, SaturationBudget and the call's arguments.
Budget == [hidden : Nat, states : Nat, visible : Nat]
Task == [kind : {"run", "compare", "close"},
         contract : {"bisimilar", "refines"}, pairs : Nat, boundary : {"same", "different"},
         mode : {"visible", "raw"}, good : SUBSET Worlds]
IsPresentation(p) ==
    /\ DOMAIN p.offers = {0, 1}
    /\ \A h \in {0, 1} : p.offers[h] \in [Worlds -> SUBSET Candidate]
    /\ p.regimes \in Nat
    /\ p.regimes = 0 => \A h \in {0, 1}, w \in Worlds : p.offers[h][w] = {}
    /\ p.rank \in {"target", "parity", "none"}
    /\ p.declares \subseteq {"P1", "P6"}

ASSUME WorldsAssumption == Worlds \subseteq Nat /\ IsFiniteSet(Worlds) /\ Start \in Worlds
ASSUME FamiliesAssumption ==
    \A f \in Families : /\ f.tasks \subseteq Task
                        /\ f.budgets \subseteq Budget
                        /\ \A i \in DOMAIN f.against :
                              /\ IsPresentation(i)
                              /\ \A s \in f.against[i] : IsPresentation(s)

VARIABLES
    setup,      \* the call being analysed
    pc,         \* "loop": top of the driver's loop; "tick": inside sat_step;
                \* "collect": sat_step returned; "done"
    side,       \* the system whose sat_step is running
    at,         \* per side, the configuration the next saturated step starts from
    phase,      \* per side, the calendar phase
    sat,        \* sat_step's locals: current, consumed, visited
    verdict,    \* per side, what the last sat_step returned
    journal,    \* committed steps appended by run_saturated
    visible,    \* exported observations (run), agreed prefix (compare)
    seen,       \* pairs of worlds walked (compare)
    result      \* what the analysis returned

vars == <<setup, pc, side, at, phase, sat, verdict, journal, visible, seen, result>>

task == setup.task
budget == setup.budget
Pres(s) == IF s = "impl" THEN setup.impl ELSE setup.spec

-----------------------------------------------------------------------------
(* The tick: enumerate, key, select the least.                             *)

Offers(p, c) == p.offers[c.hist % 2][c.world]

Tie(a) == CHOOSE i \in 1..Len(Generators) : Generators[i] = a.gen

\* The keyer's priority and tie-break; Key.phase is the same for a whole tick.
KeyOf(p, a, ph) ==
    CASE p.rank = "target" -> <<a.to, Tie(a)>>
      [] p.rank = "parity" -> <<IF ph % 2 = 0 THEN a.to ELSE 0 - a.to, Tie(a)>>
      [] p.rank = "none"   -> <<0, 0>>

Before(k, l) == k[1] < l[1] \/ (k[1] = l[1] /\ k[2] < l[2])

\* Frontier::insert refuses a key that already holds a different candidate.
Clash(p, c, ph) ==
    \E a, b \in Offers(p, c) : a # b /\ KeyOf(p, a, ph) = KeyOf(p, b, ph)

Select(p, c, ph) ==
    CHOOSE a \in Offers(p, c) :
        \A b \in Offers(p, c) \ {a} : Before(KeyOf(p, a, ph), KeyOf(p, b, ph))

\* oracle::apply: the world moves, the history grows, the policy stays.
Applied(c, a) == [world |-> a.to, hist |-> c.hist + 1]

\* A committed step; its observation is the digest of the witness and both ends.
StepOf(c, a) == [gen |-> a.gen, src |-> c.world, dst |-> a.to]

Label(step) ==
    CASE step.gen = "tau" -> "administrative"
      [] step.gen = "act" -> "realizing"
      [] OTHER            -> "error"

-----------------------------------------------------------------------------
(* sat_step.                                                               *)

Config0 == [world |-> Start, hist |-> 0]
NoStep == [gen |-> "none", src |-> Start, dst |-> Start]
NoVerdict == [is |-> "none", why |-> "none", obs |-> NoStep, next |-> Config0, stem |-> 0]
Unknown(why) == [NoVerdict EXCEPT !.is = "unknown", !.why = why]

\* Mutant of Visit: the index counts the step that leaves the state.
VisitLate(p, c, index) ==
    [index |-> IF index = 0 THEN 0 ELSE index + 1,
     offers |-> IF "P1" \in p.declares THEN Offers(p, c) ELSE {}]

\* record_visit: the offers are kept only as the baseline of the P1 check.
Visit(p, c, index) ==
    [index |-> index, offers |-> IF "P1" \in p.declares THEN Offers(p, c) ELSE {}]

EnterSat(s, c) ==
    /\ side' = s
    /\ sat' = [now |-> c, consumed |-> <<>>,
               visited |-> [w \in {c.world} |-> Visit(Pres(s), c, 0)]]
    /\ pc' = "tick"

\* close_lasso: what a revisited state means, under the declared hypotheses.
CloseLasso(p, c, len, previous) ==
    CASE "P1" \notin p.declares -> Unknown("undeclared P1")
      [] "P1" \in p.declares /\ "P6" \notin p.declares -> Unknown("undeclared P6")
      [] /\ {"P1", "P6"} \subseteq p.declares
         /\ previous.offers # Offers(p, c) -> Unknown("violated P1")
      [] /\ {"P1", "P6"} \subseteq p.declares
         /\ previous.offers = Offers(p, c)
         /\ \E a \in Offers(p, c) : KeyOf(p, a, phase[side] + previous.index)
                                  # KeyOf(p, a, phase[side] + len) -> Unknown("violated P6")
      [] OTHER -> [NoVerdict EXCEPT !.is = "divergent", !.next = c, !.stem = previous.index]

\* Mutant of Advance: one phase per saturated step.
AdvanceOne(ph, consumed) == ph + 1

\* Advance the calendar by the steps a saturated step consumed.
Advance(ph, consumed) == ph + Len(consumed)

Return(v, consumed) ==
    /\ verdict' = [verdict EXCEPT ![side] = v]
    /\ sat' = [sat EXCEPT !.consumed = consumed]
    /\ phase' = [phase EXCEPT ![side] = Advance(@, consumed)]
    /\ pc' = "collect"

TickPhase == phase[side] + Len(sat.consumed)
Frontier == Offers(Pres(side), sat.now)
Conflict == Clash(Pres(side), sat.now, TickPhase)
Chosen == Select(Pres(side), sat.now, TickPhase)
Committed == StepOf(sat.now, Chosen)
\* The frontier has a least candidate: it is the one the tick commits.
Ticks == pc = "tick" /\ Frontier # {} /\ ~Conflict

\* Mutant of TickKeyConflict: the conflict is not a stop.
TickKeyConflictRetry == pc = "tick" /\ Conflict /\ UNCHANGED vars

TickKeyConflict ==
    /\ pc = "tick" /\ Conflict
    /\ Return(Unknown("conflict"), sat.consumed)
    /\ UNCHANGED <<setup, side, at, journal, visible, seen, result>>

TickRejected ==
    /\ Ticks /\ Chosen.gen = "broken"
    /\ Return(Unknown("commit"), sat.consumed)
    /\ UNCHANGED <<setup, side, at, journal, visible, seen, result>>

TickQuiescent ==
    /\ pc = "tick" /\ Frontier = {}
    /\ Return([NoVerdict EXCEPT !.is = "quiescent", !.next = sat.now], sat.consumed)
    /\ UNCHANGED <<setup, side, at, journal, visible, seen, result>>

TickUnlabelled ==
    /\ Ticks /\ Chosen.gen # "broken" /\ Label(Committed) = "error"
    /\ Return(Unknown("profile"), Append(sat.consumed, Committed))
    /\ UNCHANGED <<setup, side, at, journal, visible, seen, result>>

TickRealizing ==
    /\ Ticks /\ Label(Committed) = "realizing"
    /\ Return([NoVerdict EXCEPT !.is = "realizing", !.obs = Committed,
                                !.next = Applied(sat.now, Chosen)],
              Append(sat.consumed, Committed))
    /\ UNCHANGED <<setup, side, at, journal, visible, seen, result>>

\* Mutant of StatesFull: the bound is off by one.
StatesFullEarly == Cardinality(DOMAIN sat.visited) + 1 >= budget.states

\* The three bounds of an administrative step, in the order the code tests them.
Revisits(c) == c.world \in DOMAIN sat.visited
StatesFull == Cardinality(DOMAIN sat.visited) >= budget.states
HiddenSpent(consumed) == Len(consumed) > budget.hidden

TickHidden ==
    LET c == Applied(sat.now, Chosen)
        consumed == Append(sat.consumed, Committed)
        p == Pres(side)
    IN  /\ Ticks /\ Label(Committed) = "administrative"
        /\ \/ /\ Revisits(c)
              /\ Return(CloseLasso(p, c, Len(consumed), sat.visited[c.world]), consumed)
           \/ /\ ~Revisits(c) /\ StatesFull
              /\ Return(Unknown("states"), consumed)
           \/ /\ ~Revisits(c) /\ ~StatesFull /\ HiddenSpent(consumed)
              /\ Return(Unknown("hidden"), consumed)
           \/ /\ ~Revisits(c) /\ ~StatesFull /\ ~HiddenSpent(consumed)
              /\ sat' = [now |-> c, consumed |-> consumed,
                         visited |-> [w \in DOMAIN sat.visited \cup {c.world} |->
                                        IF w = c.world THEN Visit(p, c, Len(consumed))
                                                       ELSE sat.visited[w]]]
              /\ UNCHANGED <<verdict, phase, pc>>
        /\ UNCHANGED <<setup, side, at, journal, visible, seen, result>>

-----------------------------------------------------------------------------
(* run_saturated.                                                          *)

Finish(is, why, world) ==
    /\ pc' = "done"
    /\ result' = [is |-> is, why |-> why, world |-> world]

RunLoop ==
    /\ task.kind = "run" /\ pc = "loop"
    /\ \/ /\ Len(visible) >= budget.visible
          /\ Finish("unknown", "visible", at["impl"].world)
          /\ UNCHANGED <<side, sat>>
       \/ /\ Len(visible) < budget.visible
          /\ EnterSat("impl", at["impl"])
          /\ UNCHANGED result
    /\ UNCHANGED <<setup, at, phase, verdict, journal, visible, seen>>

RunCollect ==
    LET v == verdict["impl"]
    IN  /\ task.kind = "run" /\ pc = "collect"
        /\ journal' = journal \o sat.consumed
        /\ \/ /\ v.is = "realizing"
              /\ visible' = Append(visible, v.obs)
              /\ at' = [at EXCEPT !["impl"] = v.next]
              /\ pc' = "loop"
              /\ UNCHANGED result
           \/ /\ v.is # "realizing"
              /\ Finish(v.is, v.why, at["impl"].world)
              /\ UNCHANGED <<visible, at>>
        /\ UNCHANGED <<setup, side, phase, sat, verdict, seen>>

-----------------------------------------------------------------------------
(* check_saturated: two systems in lockstep, one visible step at a time.   *)

Undeclared == setup.impl.declares \cap setup.spec.declares # {"P1", "P6"}

CompareOpen ==
    /\ task.kind = "compare" /\ pc = "open"
    /\ \/ task.boundary = "different" /\ Finish("unknown", "boundary", Start)
       \/ /\ task.boundary = "same" /\ Undeclared
          /\ Finish("unknown", "undeclared", Start)
       \/ /\ task.boundary = "same" /\ ~Undeclared
          /\ pc' = "loop" /\ UNCHANGED result
    /\ UNCHANGED <<setup, side, at, phase, sat, verdict, journal, visible, seen>>

Pair == <<at["impl"].world, at["spec"].world>>
\* Both sides stand where they stood before: they repeat what they agreed on.
Closes(pair) == pair \in seen

CompareLoop ==
    /\ task.kind = "compare" /\ pc = "loop"
    /\ seen' = seen \cup {Pair}
    /\ \/ /\ Closes(Pair)
          /\ Finish("holds", "repeats", Start)
          /\ UNCHANGED <<side, sat>>
       \/ /\ ~Closes(Pair) /\ Cardinality(seen') > task.pairs
          /\ Finish("unknown", "pairs", Start)
          /\ UNCHANGED <<side, sat>>
       \/ /\ ~Closes(Pair) /\ Cardinality(seen') <= task.pairs
          /\ EnterSat("impl", at["impl"])
          /\ UNCHANGED result
    /\ UNCHANGED <<setup, at, phase, verdict, journal, visible>>

CompareOther ==
    /\ task.kind = "compare" /\ pc = "collect" /\ side = "impl"
    /\ EnterSat("spec", at["spec"])
    /\ UNCHANGED <<setup, at, phase, verdict, journal, visible, seen, result>>

\* How two established steps disagree, if they do.
Mismatch(i, s) ==
    CASE i.is = "realizing" /\ s.is = "realizing" ->
            IF i.obs = s.obs THEN "none" ELSE "observation"
      [] i.is # "realizing" /\ i.is = s.is -> "none"
      [] {i.is, s.is} = {"divergent", "quiescent"} -> "divergence"
      [] OTHER -> "summand"

\* Mutant of Excused: the clause ignores the contract.
ExcusedAlways(s) == s.is = "divergent"

\* Under Refines a diverging specification asks nothing of the implementation.
Excused(s) == task.contract = "refines" /\ s.is = "divergent"

CompareCollect ==
    LET i == verdict["impl"]
        s == verdict["spec"]
        established == i.is # "unknown" /\ s.is # "unknown"
    IN  /\ task.kind = "compare" /\ pc = "collect" /\ side = "spec"
        /\ \/ /\ i.is = "unknown"
              /\ Finish("unknown", "impl", Start)
              /\ UNCHANGED <<at, visible>>
           \/ /\ i.is # "unknown" /\ s.is = "unknown"
              /\ Finish("unknown", "spec", Start)
              /\ UNCHANGED <<at, visible>>
           \/ /\ established /\ Excused(s)
              /\ Finish("holds", "excused", Start)
              /\ UNCHANGED <<at, visible>>
           \/ /\ established /\ ~Excused(s) /\ Mismatch(i, s) # "none"
              /\ Finish("fails", Mismatch(i, s), Start)
              /\ UNCHANGED <<at, visible>>
           \/ /\ established /\ ~Excused(s) /\ Mismatch(i, s) = "none" /\ i.is # "realizing"
              /\ Finish("holds", "ended", Start)
              /\ UNCHANGED <<at, visible>>
           \/ /\ established /\ Mismatch(i, s) = "none" /\ i.is = "realizing"
              /\ visible' = Append(visible, i.obs)
              /\ at' = [t \in Sides |-> verdict[t].next]
              /\ pc' = "loop"
              /\ UNCHANGED result
        /\ UNCHANGED <<setup, side, phase, sat, verdict, journal, seen>>

-----------------------------------------------------------------------------
(* check_closure: a predicate on worlds along the saturated trajectory.    *)

CloseOpen ==
    /\ task.kind = "close" /\ pc = "open"
    /\ \/ Start \notin task.good /\ Finish("violated", "initial", Start)
       \/ Start \in task.good /\ pc' = "loop" /\ UNCHANGED result
    /\ UNCHANGED <<setup, side, at, phase, sat, verdict, journal, visible, seen>>

CloseLoop ==
    /\ task.kind = "close" /\ pc = "loop"
    /\ \/ /\ Len(visible) >= budget.visible
          /\ Finish("unknown", "visible", at["impl"].world)
          /\ UNCHANGED <<side, sat>>
       \/ /\ Len(visible) < budget.visible
          /\ EnterSat("impl", at["impl"])
          /\ UNCHANGED result
    /\ UNCHANGED <<setup, at, phase, verdict, journal, visible, seen>>

\* Mutant of InScope: raw mode reads the intermediates only.
InScopeInner(v, consumed) ==
    {i \in 1..Len(consumed) : IF task.mode = "raw" THEN i < Len(consumed)
                              ELSE v.is = "realizing" /\ i = Len(consumed)}

\* The committed steps whose destination the mode puts in scope.
InScope(v, consumed) ==
    {i \in 1..Len(consumed) : task.mode = "raw" \/ (v.is = "realizing" /\ i = Len(consumed))}

Offending(v, consumed) == {i \in InScope(v, consumed) : consumed[i].dst \notin task.good}

CloseCollect ==
    LET v == verdict["impl"]
        bad == Offending(v, sat.consumed)
    IN  /\ task.kind = "close" /\ pc = "collect"
        /\ \/ /\ bad # {}
              /\ LET i == CHOOSE j \in bad : \A k \in bad : j <= k
                 IN  Finish("violated",
                            IF v.is = "realizing" /\ i = Len(sat.consumed)
                            THEN "successor" ELSE "intermediate",
                            sat.consumed[i].dst)
              /\ UNCHANGED <<at, visible>>
           \/ /\ bad = {} /\ v.is = "realizing"
              /\ visible' = Append(visible, v.obs)
              /\ at' = [at EXCEPT !["impl"] = v.next]
              /\ pc' = "loop"
              /\ UNCHANGED result
           \/ /\ bad = {} /\ v.is \in {"quiescent", "divergent"}
              /\ Finish("closed", v.is, at["impl"].world)
              /\ UNCHANGED <<at, visible>>
           \/ /\ bad = {} /\ v.is = "unknown"
              /\ Finish("unknown", v.why, at["impl"].world)
              /\ UNCHANGED <<at, visible>>
        /\ UNCHANGED <<setup, side, phase, sat, verdict, journal, seen>>

-----------------------------------------------------------------------------
Init ==
    /\ \E f \in Families : \E i \in DOMAIN f.against :
          \E t \in f.tasks, b \in f.budgets, s \in f.against[i] :
              setup = [task |-> t, budget |-> b, impl |-> i, spec |-> s]
    /\ pc = IF setup.task.kind = "run" THEN "loop" ELSE "open"
    /\ side = "impl"
    /\ at = [s \in Sides |-> Config0]
    /\ phase = [s \in Sides |-> 0]
    /\ sat = [now |-> Config0, consumed |-> <<>>, visited |-> <<>>]
    /\ verdict = [s \in Sides |-> NoVerdict]
    /\ journal = <<>> /\ visible = <<>> /\ seen = {}
    /\ result = [is |-> "none", why |-> "none", world |-> Start]

Next ==
    \/ TickKeyConflict \/ TickRejected \/ TickQuiescent
    \/ TickUnlabelled \/ TickRealizing \/ TickHidden
    \/ RunLoop \/ RunCollect
    \/ CompareOpen \/ CompareLoop \/ CompareOther \/ CompareCollect
    \/ CloseOpen \/ CloseLoop \/ CloseCollect

Spec == Init /\ [][Next]_vars
FairSpec == Spec /\ WF_vars(Next)

-----------------------------------------------------------------------------
(* The independent checkers of the two certificates.                       *)

AllAdministrative(steps) == \A i \in 1..Len(steps) : Label(steps[i]) = "administrative"

\* walk_path: the steps chain from src; the world they end in.
Chains(steps, src) ==
    /\ steps # <<>> => steps[1].src = src
    /\ \A i \in 1..(Len(steps) - 1) : steps[i].dst = steps[i + 1].src
EndOf(steps, src) == IF steps = <<>> THEN src ELSE steps[Len(steps)].dst

\* enumerate_admissible did some work: it counts a unit for every regime, and
\* one for every candidate a regime proposes.
Scanned(p) == p.regimes > 0

\* The last two: the frontier is enumerated again, with some work, and is empty.
CheckQuiescence(p, src, terminal, steps) ==
    /\ AllAdministrative(steps)
    /\ Chains(steps, src)
    /\ EndOf(steps, src) = terminal.world
    /\ Scanned(p)
    /\ Offers(p, terminal) = {}

CheckDivergence(p, src, stem, cycleWorld, steps) ==
    /\ {"P1", "P6"} \subseteq p.declares
    /\ AllAdministrative(steps)
    /\ Chains(steps, src)
    /\ stem < Len(steps)
    /\ EndOf(SubSeq(steps, 1, stem), src) = cycleWorld
    /\ EndOf(steps, src) = cycleWorld

-----------------------------------------------------------------------------
(* References: the unsaturated run, and the orbit of one world.            *)

\* What one tick does: nothing to commit, nothing it can commit, or a step.
MoveOf(p, c, ph) ==
    IF Offers(p, c) = {} THEN [is |-> "quiescent", step |-> NoStep]
    ELSE IF Clash(p, c, ph) THEN [is |-> "refused", step |-> NoStep]
    ELSE LET a == Select(p, c, ph)
         IN  IF a.gen = "broken" THEN [is |-> "refused", step |-> NoStep]
             ELSE [is |-> a.gen, step |-> StepOf(c, a)]

\* run_reason: one tick per phase from the start, no hiding, no budget.
Unsaturated(p) ==
    LET walk[n \in Nat] ==
            IF n = 0 THEN [c |-> Config0, step |-> NoStep]
            ELSE LET c == walk[n - 1].c
                     m == MoveOf(p, c, n - 1)
                 IN  IF m.is \in {"quiescent", "refused"} THEN [c |-> c, step |-> NoStep]
                     ELSE [c |-> [world |-> m.step.dst, hist |-> c.hist + 1], step |-> m.step]
    IN  walk

\* The presentation really satisfies P1 and P6, whatever it declares.
Honest(p) == p.offers[0] = p.offers[1] /\ p.rank # "parity"

NumWorlds == Cardinality(Worlds)

\* One more move m of an orbit o: hidden, or the end of the saturated step.
Extend(o, m) ==
    IF m.is = "tau" THEN [o EXCEPT !.at = m.step.dst, !.hidden = @ + 1]
    ELSE [o EXCEPT !.obs = m.step,
                   !.is = CASE m.is = "quiescent" -> "quiescent"
                            [] m.is = "act" -> "realizing"
                            [] OTHER -> "unknown"]

ExtendAll(orbits, moves) == [w \in Worlds |-> Extend(orbits[w], moves[orbits[w].at])]

\* The first n moves of an honest presentation from every world.
Path(p) ==
    LET path[n \in Nat] ==
            IF n = 0
            THEN [w \in Worlds |-> [is |-> "divergent", obs |-> NoStep, at |-> w, hidden |-> 0]]
            ELSE ExtendAll(path[n - 1],
                           [w \in Worlds |-> MoveOf(p, [world |-> w, hist |-> 0], 0)])
    IN  path

\* NumWorlds hidden moves that no other move follows close a cycle.
Orbits(p) == Path(p)[NumWorlds]

\* Two saturated steps keep the contract and, if both realize, meet in R.
Keep(contract, i, s, R) ==
    \/ s.is = "divergent" /\ contract = "refines"
    \/ i.is = s.is /\ i.is # "realizing"
    \/ i.is = "realizing" /\ s.is = "realizing" /\ i.obs = s.obs /\ <<i.obs.dst, s.obs.dst>> \in R

\* The pairs of worlds that keep the contract for k saturated steps: the
\* approximants of the largest relation that keeps it forever.
Agreement(contract, impl, spec) ==
    LET agree[k \in Nat] ==
            IF k = 0 THEN Worlds \X Worlds
            ELSE {pair \in Worlds \X Worlds :
                    Keep(contract, impl[pair[1]], spec[pair[2]], agree[k - 1])}
    IN  agree

-----------------------------------------------------------------------------
(* Properties.                                                             *)

\* sat_step's answer is the truth about an honest presentation: what it
\* establishes is what the orbit does, with the same observation and exactly
\* the hidden commits in front of it, and it never gives up when the budgets
\* cover the worlds and both hypotheses are declared.  For any presentation it
\* consumes at most one commit past its hidden-step budget.
VerdictSound ==
    LET p == Pres(side)
        v == verdict[side]
        o == Orbits(p)[at[side].world]
    IN  /\ Len(sat.consumed) <= budget.hidden + 1
        /\ pc = "collect" /\ Honest(p) =>
          /\ v.is # "unknown" => v.is = o.is
          /\ v.is = "realizing" => v.obs = o.obs /\ Len(sat.consumed) = o.hidden + 1
          /\ v.is = "quiescent" => v.next.world = o.at /\ Len(sat.consumed) = o.hidden
          /\ v.is = "unknown" => \/ o.is = "unknown"
                                 \/ o.is = "divergent" /\ p.declares # {"P1", "P6"}
                                 \/ budget.states < NumWorlds
                                 \/ budget.hidden < NumWorlds - 1

\* Every certificate sat_step mints passes its independent checker, also for
\* presentations that break the hypotheses they declare, with one exception:
\* where there is no regime to scan, sat_step certifies quiescence and the
\* checker refuses the certificate (EnumerationNotScanned).
CertificatesCheck ==
    LET p == Pres(side)
        v == verdict[side]
        src == at[side].world
    IN  pc = "collect" =>
          /\ v.is = "quiescent" =>
                (CheckQuiescence(p, src, v.next, sat.consumed) <=> Scanned(p))
          /\ v.is = "divergent" => CheckDivergence(p, src, v.stem, v.next.world, sat.consumed)

\* The realizing commits of the journal, by position.
Acts == {i \in 1..Len(journal) : journal[i].gen = "act"}

\* A saturated run commits exactly what the unsaturated run commits, in the
\* same order and keyed at the same phases, even when keys depend on the phase
\* and offers on history; it exports exactly the realizing ones, and reports
\* quiescence only where the unsaturated run is stuck.
RunIsUnsaturatedRun ==
    task.kind = "run" =>
        LET walk == Unsaturated(setup.impl)
        IN  /\ \A i \in 1..Len(journal) : journal[i] = walk[i].step
            /\ Len(visible) = Cardinality(Acts)
            /\ \A i \in Acts : visible[Cardinality({j \in Acts : j <= i})] = journal[i]
            /\ pc \in {"loop", "done"} => phase["impl"] = Len(journal)
            /\ result.is = "quiescent" => Offers(setup.impl, walk[Len(journal)].c) = {}

\* Comparing two honest systems: "holds" means they agree at every depth,
\* "fails" means the reported prefix is the shortest disagreement, and the
\* walk decides whenever its budgets cover the worlds.
ComparisonSound ==
    LET agree == Agreement(task.contract, Orbits(setup.impl), Orbits(setup.spec))
        agrees(k) == <<Start, Start>> \in agree[k]
    IN  (task.kind = "compare" /\ pc = "done" /\ Honest(setup.impl) /\ Honest(setup.spec)) =>
          /\ result.is = "holds" => agrees(NumWorlds + 1)
          /\ result.is = "fails" => agrees(Len(visible)) /\ ~agrees(Len(visible) + 1)
          /\ result.is = "unknown" =>
                \/ result.why \in {"boundary", "undeclared"}
                \/ \E s \in Sides, w \in Worlds : Orbits(Pres(s))[w].is = "unknown"
                \/ task.pairs < NumWorlds
                \/ budget.states < NumWorlds
                \/ budget.hidden < NumWorlds - 1

\* A closure verdict along the true trajectory: "violated" names the first
\* state in scope that fails the predicate, and "closed" means no state in
\* scope ever fails it (for an honest presentation).
ClosureSound ==
    LET walk == Unsaturated(setup.impl)
        scoped(n) == n = 0 \/ (walk[n].step # NoStep
                               /\ (task.mode = "raw" \/ walk[n].step.gen = "act"))
        fails(n) == scoped(n) /\ walk[n].c.world \notin task.good
    IN  task.kind = "close" /\ pc = "done" =>
          /\ result.is = "violated" =>
                \E n \in 0..phase["impl"] : /\ fails(n) /\ walk[n].c.world = result.world
                                             /\ \A k \in 0..(n - 1) : ~fails(k)
          /\ result.is = "closed" /\ Honest(setup.impl) =>
                \A n \in 0..(phase["impl"] + NumWorlds) : ~fails(n)

\* Every analysis returns: lassos, repeated pairs and budgets end each loop.
AnalysisEnds == <>(pc = "done")
=============================================================================
