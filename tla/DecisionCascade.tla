-------------------------- MODULE DecisionCascade --------------------------
(***************************************************************************)
(* Candidates, settlements and the cascade of decisions in a world's       *)
(* network (crates/brix-kb/src/world/network.rs, from the point where      *)
(* apply_chunk has the net deltas of the relations; OperatorNetwork is the *)
(* part before), and the chunked application of a batch                    *)
(* (apply_ops_chunked of session.rs).                                      *)
(*                                                                         *)
(* A decide block proposes candidates for entities from the rows of its    *)
(* source relation and settles each entity on the least one.  The winners  *)
(* are rows of a relation themselves, so after the base operations the     *)
(* network publishes changed winners, stage by stage, until nothing moves. *)
(* A batch may be applied in chunks, with the network persisted between    *)
(* them; a chunked run that meets an error of the batch is repeated whole. *)
(*                                                                         *)
(* Data.  The relations between the base rows and the decide blocks are    *)
(* the constant operator Source: the rows a decide block reads, as a set   *)
(* of [e, t, id] (entity, row, derivation).  Incremental maintenance of    *)
(* that set is the subject of OperatorNetwork; here a chunk's net deltas   *)
(* are the difference of the set before and after.  The digest that breaks *)
(* ties between candidates is the constant Tie.                            *)
(***************************************************************************)
EXTENDS Integers, Sequences, FiniteSets, SequencesExt

CONSTANTS
    NumDecides,           \* decide blocks, each reading only winners of lower ones
    Entity,               \* entities decisions are made for
    Rels, Key,            \* base relations and their keys
    Rows(_, _),           \* the rows a key of a relation may hold
    NoRow,                \* absence of a row
    Source(_, _, _),      \* the rows a decide block reads, of base rows and winner rows
    Proposal(_),          \* names of a decide block's proposals
    Priority(_, _),       \* a proposal's priority
    Guard(_, _, _),       \* whether a proposal's guard accepts a row
    ValueOf(_, _, _),     \* the value a proposal computes from a row
    Value(_),             \* the values a decide block's proposals may have
    Tie(_, _, _, _),      \* the tie-breaking digest of a candidate
    None,                 \* no settlement
    MaxOps                \* bound on the operations of a batch

Decide == 1..NumDecides

(* Base rows, winner rows, and the winner rows of strata below a block. *)
BaseRow == (UNION {UNION {Rows(r, k) : k \in Key} : r \in Rels}) \cup {NoRow}
Bases ==
    {b \in [Rels -> [Key -> BaseRow]] :
        \A r \in Rels, k \in Key : b[r][k] \in Rows(r, k) \cup {NoRow}}
EmptyBase == [r \in Rels |-> [k \in Key |-> NoRow]]
WinnerRows == UNION {[d : {d}, e : Entity, p : Proposal(d), v : Value(d)] : d \in Decide}
OnePerDecision(win) == \A w, u \in win : w.d = u.d /\ w.e = u.e => w = u
Below(win, d) == {w \in win : w.d < d}

ASSUME CascadeAssumption ==
    /\ NumDecides \in Nat \ {0} /\ MaxOps \in Nat
    /\ IsFiniteSet(Rels) /\ IsFiniteSet(Key)

(* What the relations compute: nothing from nothing; an entity of each row  *)
(* and values its proposals may have; and a derivation has one row.        *)
ASSUME SourceAssumption ==
    \A d \in Decide :
        /\ Source(d, EmptyBase, {}) = {}
        /\ \A win \in SUBSET Below(WinnerRows, d) : OnePerDecision(win) =>
              \A base \in Bases :
                 LET rows == Source(d, base, win)
                 IN  /\ \A x \in rows :
                          /\ x.e \in Entity
                          /\ \A p \in Proposal(d) : Guard(d, p, x.t) => ValueOf(d, p, x.t) \in Value(d)
                     /\ \A x, y \in rows : x.e = y.e /\ x.id = y.id => x = y

(* No two candidates of an entity have the same calendar key. *)
ASSUME TieAssumption ==
    \A d \in Decide, e \in Entity : \A p, q \in Proposal(d), v, w \in Value(d) :
        /\ Priority(d, p) \in Nat /\ Tie(d, e, p, v) \in Nat
        /\ Priority(d, p) = Priority(d, q) /\ Tie(d, e, p, v) = Tie(d, e, q, w) => p = q /\ v = w

-----------------------------------------------------------------------------
(* The network, and what a chunk does to it.                               *)
(*   base    the base rows                                                 *)
(*   win     the winner rows the operators behind the winner scans hold    *)
(*   rec     the winner scans' own records of them, in memory only         *)
(*   cand    per decide block, the supports [e, p, v, id] of candidates    *)
(*   tree    per decide block and entity, the settlement or None           *)

EmptyNet ==
    [base |-> EmptyBase,
     win  |-> {}, rec |-> {},
     cand |-> [d \in Decide |-> {}],
     tree |-> [d \in Decide |-> [e \in Entity |-> None]]]

(* compute_candidate_calendar_key and settle: the least candidate by       *)
(* priority, then digest (the phase is always 0).                          *)
Before(d, e, c, b) ==
    \/ Priority(d, c.p) < Priority(d, b.p)
    \/ Priority(d, c.p) = Priority(d, b.p) /\ Tie(d, e, c.p, c.v) < Tie(d, e, b.p, b.v)
Settle(d, e, supports) ==
    LET live == {[p |-> s.p, v |-> s.v] : s \in {s \in supports : s.e = e}}
    IN  IF live = {} THEN None
        ELSE CHOOSE c \in live : \A b \in live \ {c} : Before(d, e, c, b)

WinnerRow(d, e, s) == [d |-> d, e |-> e, p |-> s.p, v |-> s.v]

(* The relations are acyclic (relation_dag.rs rejects cycles through decisions), *)
(* so a decide block sees winners of lower strata only.                     *)
Reads(n, d) == Source(d, n.base, Below(n.win, d))

(* The frontier work of a decide block between the networks n and m.  All  *)
(* retractions come first; they remove a derivation from every candidate   *)
(* of its entity.  An insertion supports the candidates whose guard passes. *)
Proposed(d, rows) ==
    UNION {{[e |-> x.e, p |-> p, v |-> ValueOf(d, p, x.t), id |-> x.id] :
               p \in {p \in Proposal(d) : Guard(d, p, x.t)}} : x \in rows}
Supports(n, m, d) ==
    LET gone == {[e |-> x.e, id |-> x.id] : x \in Reads(n, d) \ Reads(m, d)}
    IN  {s \in n.cand[d] : [e |-> s.e, id |-> s.id] \notin gone}
        \cup Proposed(d, Reads(m, d) \ Reads(n, d))

(* The entities of the rows that came or went. *)
Touched(n, m) ==
    UNION {LET old == Reads(n, d)
               new == Reads(m, d)
           IN  {<<d, x.e>> : x \in (old \ new) \cup (new \ old)} : d \in Decide}

(* "conflicting support values": two supports of one candidate disagree. *)
Conflict(S) == \E s, r \in S : s.e = r.e /\ s.p = r.p /\ s.v # r.v
Refused(n, m) == \E d \in Decide : LET S == Supports(n, m, d) IN Conflict(S)

(* Touched entities are settled again and the decision tree updated. *)
Settled(n, m) ==
    LET touched == Touched(n, m)
        cand    == [d \in Decide |-> Supports(n, m, d)]
    IN  [m EXCEPT !.cand = cand,
                  !.tree = [d \in Decide |-> [e \in Entity |->
                      IF <<d, e>> \in touched THEN Settle(d, e, cand[d]) ELSE @[d][e]]]]

(* The base operations of a chunk reach the scans. *)
WithOps(n, s) ==
    [n EXCEPT !.base = [r \in Rels |-> [k \in Key |->
        IF \E i \in DOMAIN s : s[i].r = r /\ s[i].k = k
        THEN (CHOOSE op \in {s[i] : i \in DOMAIN s} : op.r = r /\ op.k = k).row
        ELSE @[r][k]]]]

(* The winners of the decisions in D reach the winner scans: the row the    *)
(* scan has on record is retracted, the present winner inserted.           *)
WithWinners(n, D) ==
    LET old == {w \in n.rec : [d |-> w.d, e |-> w.e] \in D}
        new == {WinnerRow(x.d, x.e, n.tree[x.d][x.e]) : x \in {x \in D : n.tree[x.d][x.e] # None}}
    IN  [n EXCEPT !.win = (@ \ old) \cup new, !.rec = (@ \ old) \cup new]

(* BatchCtx.decisions: the settlement an entity had when the batch (or the *)
(* stage) first touched it.                                                *)
Track(t, n, m) ==
    LET new == Touched(n, m) \ {<<x.d, x.e>> : x \in t}
    IN  t \cup {[d |-> x[1], e |-> x[2], was |-> n.tree[x[1]][x[2]]] : x \in new}

(* seed_winner_scan_records: a restored network has no records; before the *)
(* cascade publishes anything, the winner row an entity had before the     *)
(* batch is put back.  Mutant: it is not. *)
SeedNothing(n, t) == n
Seed(n, t) ==
    LET lacking == {x \in t : x.was # None /\ ~\E w \in n.rec : w.d = x.d /\ w.e = x.e}
    IN  [n EXCEPT !.rec = @ \cup {WinnerRow(x.d, x.e, x.was) : x \in lacking}]

(* finish_batch: the decisions that are not what they were. *)
Changes(n, t) ==
    {[d |-> x.d, e |-> x.e, now |-> n.tree[x.d][x.e]] : x \in {x \in t : x.was # n.tree[x.d][x.e]}}
Names(changes) == {[d |-> x.d, e |-> x.e] : x \in changes}

(* A report: the decisions set and the decisions removed, and merging the  *)
(* next stage's into it (merge_stage_report).                              *)
NoReport == [set |-> {}, gone |-> {}]
(* Mutant: the next stage's report replaces it. *)
MergeLast(rep, changes) ==
    [set |-> {x \in changes : x.now # None}, gone |-> Names({x \in changes : x.now = None})]
Merge(rep, changes) ==
    LET set == {x \in changes : x.now # None}
    IN  [set  |-> {x \in rep.set : [d |-> x.d, e |-> x.e] \notin Names(set)} \cup set,
         gone |-> rep.gone \cup Names(changes \ set)]

(* encode_decision_delta: a decision both set and removed counts as set. *)
Encode(rep) ==
    rep.set \cup {[d |-> x.d, e |-> x.e, now |-> None] : x \in rep.gone \ Names(rep.set)}

-----------------------------------------------------------------------------
VARIABLES
    net,     \* the network of the session
    staged,  \* the clone a batch works on
    phase,   \* "idle", "chunks" or "stages"
    mode,    \* how the batch runs: "chunked", "whole", or "again" after a chunked run failed
    goal,    \* what it is for: "commit", or "rebuild" of the network from the base rows
    ops,     \* the operations of the batch
    done,    \* how many of them are applied
    track,   \* BatchCtx.decisions
    last,    \* the changes the last stage reported
    report   \* the merged report

batch == <<phase, mode, goal, ops, done, track, last, report>>
vars == <<net, staged, batch>>

NoBatch ==
    /\ phase' = "idle" /\ mode' = "whole" /\ goal' = "commit" /\ ops' = <<>> /\ done' = 0
    /\ track' = {} /\ last' = {} /\ report' = NoReport

Init ==
    /\ net = EmptyNet /\ staged = EmptyNet
    /\ phase = "idle" /\ mode = "whole" /\ goal = "commit" /\ ops = <<>> /\ done = 0
    /\ track = {} /\ last = {} /\ report = NoReport

(* Operations as validate_and_normalize leaves them: one per key. *)
Operation == UNION {UNION {{[r |-> r, k |-> k, row |-> row] : row \in Rows(r, k) \cup {NoRow}} :
                 k \in Key} : r \in Rels}
Batches ==
    {s \in UNION {[1..n -> Operation] : n \in 1..MaxOps} :
        \A i, j \in DOMAIN s : s[i].r = s[j].r /\ s[i].k = s[j].k => i = j}

(* A batch with execution limits, or one the chunk policy keeps whole, is   *)
(* applied at once; any other in chunks.                                   *)
BeginBatch(s, m) ==
    /\ phase = "idle"
    /\ m = "whole" \/ Len(s) > 1
    /\ phase' = "chunks" /\ mode' = m /\ goal' = "commit" /\ ops' = s /\ done' = 0
    /\ staged' = net
    /\ UNCHANGED <<net, track, last, report>>

(* next_base_facts: the base rows, page by page.                           *)
(* Mutant: the cursor skips the row a page ends at. *)
FactsSkipping(base) ==
    LET all == {op \in Operation : op.row # NoRow /\ base[op.r][op.k] = op.row}
    IN  IF Cardinality(all) < 2 THEN all ELSE all \ {CHOOSE op \in all : TRUE}
Facts(base) == {op \in Operation : op.row # NoRow /\ base[op.r][op.k] = op.row}
(* apply_base_facts: the state of a world cannot be restored, so all its    *)
(* base rows are applied to an empty network as one batch.                 *)
BeginRebuild(m) ==
    /\ phase = "idle"
    /\ Cardinality(Facts(net.base)) > (IF m = "whole" THEN 0 ELSE 1)
    /\ phase' = "chunks" /\ mode' = m /\ goal' = "rebuild" /\ done' = 0
    /\ ops' = SetToSeq(Facts(net.base))
    /\ staged' = EmptyNet
    /\ UNCHANGED <<net, track, last, report>>

(* The sizes a chunk may have; the first of a chunked run is not all.      *)
ChunkSize ==
    IF mode # "chunked" THEN {Len(ops)}
    ELSE 1..(IF done = 0 THEN Len(ops) - 1 ELSE Len(ops) - done)

(* An error of the batch itself: a chunked run starts again, whole; any     *)
(* other fails the batch.                                                  *)
(* Mutants: the error of a chunked run counts; it is tried again in chunks. *)
OnRefusalFinal == NoBatch /\ staged' = net /\ UNCHANGED net
OnRefusalRetry ==
    IF mode = "chunked"
    THEN /\ phase' = "chunks" /\ done' = 0
         /\ staged' = (IF goal = "commit" THEN net ELSE EmptyNet)
         /\ track' = {} /\ last' = {} /\ report' = NoReport
         /\ UNCHANGED <<net, mode, goal, ops>>
    ELSE NoBatch /\ staged' = net /\ UNCHANGED net
OnRefusal ==
    IF mode = "chunked"
    THEN /\ mode' = "again" /\ phase' = "chunks" /\ done' = 0
         /\ staged' = (IF goal = "commit" THEN net ELSE EmptyNet)
         /\ track' = {} /\ last' = {} /\ report' = NoReport
         /\ UNCHANGED <<net, goal, ops>>
    ELSE NoBatch /\ staged' = net /\ UNCHANGED net

ApplyChunk(size) ==
    /\ phase = "chunks" /\ done < Len(ops) /\ size \in ChunkSize
    /\ LET m == WithOps(staged, SubSeq(ops, done + 1, done + size))
       IN  IF Refused(staged, m) THEN OnRefusal
           ELSE /\ staged' = Settled(staged, m)
                /\ track' = Track(track, staged, m)
                /\ done' = done + size
                /\ UNCHANGED <<net, phase, mode, goal, ops, last, report>>

(* Persisting between two chunks fails, or the process dies: the batch is   *)
(* an error and nothing of it is kept.                                     *)
EnvironmentFails ==
    /\ phase = "chunks" /\ 0 < done /\ done < Len(ops)
    /\ NoBatch /\ staged' = net /\ UNCHANGED net

(* A bounded batch runs into one of its limits. *)
Exhausted ==
    /\ phase # "idle" /\ mode = "whole" /\ goal = "commit"
    /\ NoBatch /\ staged' = net /\ UNCHANGED net

(* finish_batch_cascade: the base operations are done. *)
Finish ==
    /\ phase = "chunks" /\ done = Len(ops)
    /\ staged' = Seed(staged, track)
    /\ last' = Changes(staged, track)
    /\ report' = Merge(NoReport, Changes(staged, track))
    /\ phase' = "stages" /\ track' = {}
    /\ UNCHANGED <<net, mode, goal, ops, done>>

(* A stage: the winners that changed are published, as a chunk of its own. *)
Published == Names(last)

Stage ==
    /\ phase = "stages" /\ Published # {}
    /\ LET m == WithWinners(staged, Published)
           t == Track({}, staged, m)
           n == Settled(staged, m)
       IN  IF Refused(staged, m) THEN OnRefusal
           ELSE /\ staged' = Seed(n, t)
                /\ last' = Changes(n, t)
                /\ report' = Merge(report, Changes(n, t))
                /\ UNCHANGED <<net, phase, mode, goal, ops, done, track>>

(* Nothing left to publish.  A commit records the delta with the revision. *)
DecisionDelta == Encode(report)
Commit ==
    /\ phase = "stages" /\ Published = {}
    /\ net' = staged /\ UNCHANGED staged
    /\ NoBatch

(* restore_state: a new session restores the network; the winner scans have *)
(* no records.                                                             *)
Restore ==
    /\ phase = "idle" /\ net.rec # {}
    /\ net' = [net EXCEPT !.rec = {}] /\ staged' = net'
    /\ UNCHANGED batch

Step ==
    \/ \E size \in 1..Len(ops) : ApplyChunk(size)
    \/ EnvironmentFails \/ Exhausted \/ Finish \/ Stage \/ Commit

Next ==
    \/ phase = "idle" /\ \E s \in Batches, m \in {"chunked", "whole"} : BeginBatch(s, m)
    \/ \E m \in {"chunked", "whole"} : BeginRebuild(m)
    \/ Restore
    \/ Step

Spec == Init /\ [][Next]_vars
(* A batch is applied by one call of one thread: it keeps stepping.  This is *)
(* weak fairness of Step, which is possible whenever the phase is not "idle". *)
FairSpec == Spec /\ ([]<>(phase = "idle") \/ []<><<phase # "idle">>_vars)
-----------------------------------------------------------------------------
(* The reference evaluator: winners are computed over and over from the     *)
(* base rows, starting with none, until they stay (one round per stratum).  *)

RefSupports(base, win, d) == Proposed(d, Source(d, base, Below(win, d)))
RefTree(base, win) ==
    [d \in Decide |-> LET S == RefSupports(base, win, d) IN [e \in Entity |-> Settle(d, e, S)]]
Winners(tree) ==
    {WinnerRow(x[1], x[2], tree[x[1]][x[2]]) : x \in {x \in Decide \X Entity : tree[x[1]][x[2]] # None}}
RefRounds(base) ==
    LET win[i \in 0..(NumDecides + 1)] == IF i = 0 THEN {} ELSE Winners(RefTree(base, win[i - 1]))
    IN  [i \in 0..(NumDecides + 1) |-> win[i]]

(* A batch applied whole: what the run of its stages ends with. *)
Ran(n, m, rep) ==
    LET t == Track({}, n, m)
        c == Settled(n, m)
    IN  [ok |-> ~Refused(n, m), net |-> Seed(c, t), last |-> Changes(c, t), report |-> Merge(rep, Changes(c, t))]
WholeRun(n, s) ==
    LET run[i \in 0..NumDecides] ==
            IF i = 0 THEN Ran(n, WithOps(n, s), NoReport)
            ELSE LET o == run[i - 1]
                 IN  IF o.ok /\ o.last # {}
                     THEN Ran(o.net, WithWinners(o.net, Names(o.last)), o.report) ELSE o
    IN  run[NumDecides]

-----------------------------------------------------------------------------
(* Properties. *)

(* Between batches candidates and settlements are those the reference       *)
(* evaluator computes from the base rows, whatever chunks, stages, failed   *)
(* runs, restores and rebuilds led there; the operators behind a decision's *)
(* winner scan hold the winner row of every settlement and no other, also   *)
(* when the scan lost its records to a restore, and what the scan has on    *)
(* record is among them; and nothing of a batch is left.                   *)
SettlesAsReference ==
    phase = "idle" =>
        LET rounds == RefRounds(net.base)
            win    == rounds[NumDecides]
        IN  /\ net.tree = RefTree(net.base, win)
            /\ \A d \in Decide : net.cand[d] = RefSupports(net.base, win, d)
            /\ rounds[NumDecides + 1] = win
            /\ net.win = Winners(net.tree) /\ net.rec \subseteq net.win
            /\ staged = net /\ track = {} /\ report = NoReport

(* What a batch commits (settlements, candidates, winner rows and decision  *)
(* delta) does not depend on where its chunks ended ("identical for any     *)
(* chunking", apply_ops_chunked), and a batch is refused only when it would *)
(* be refused whole.                                                       *)
Refusal ==
    /\ phase # "idle" /\ phase' = "idle"
    /\ ~(Commit \/ EnvironmentFails \/ Exhausted)
ChunksDoNotMatter ==
    [][LET o == WholeRun(IF goal = "commit" THEN net ELSE EmptyNet, ops)
       IN  /\ Commit => /\ o.ok
                         /\ [o.net EXCEPT !.rec = {}] = [staged EXCEPT !.rec = {}]
                         /\ Encode(o.report) = DecisionDelta
           /\ Refusal => ~o.ok]_vars

(* A decision the batch changed is named by the decision delta, and for the *)
(* decisions of the first stratum the delta is exact.                       *)
DeltaNamesChanges ==
    [][Commit /\ goal = "commit" =>
         /\ \A d \in Decide, e \in Entity :
               net.tree[d][e] # net'.tree[d][e] => [d |-> d, e |-> e] \in Names(DecisionDelta)
         /\ {x \in DecisionDelta : x.d = 1} =
               {[d |-> 1, e |-> e, now |-> net'.tree[1][e]] :
                  e \in {e \in Entity : net.tree[1][e] # net'.tree[1][e]}}]_vars

(* A network rebuilt from the base rows (apply_base_facts), in chunks or     *)
(* whole, also after a chunked run that failed, is the one the session had:  *)
(* it loses and invents no base row, candidate, settlement or winner row.   *)
(* The winner scans' records, which a restore drops too, are left out.      *)
RebuildExact ==
    [][Commit /\ goal = "rebuild" => [net' EXCEPT !.rec = {}] = [net EXCEPT !.rec = {}]]_vars

(* A batch in flight ends: the stages come to rest. *)
BatchEnds == phase # "idle" ~> phase = "idle"

(* The persisted network is a cache ("never authoritative"): when it is     *)
(* lost, the base rows of the world are accepted as one batch, as they were *)
(* accepted batch by batch.                                                *)
Replayable ==
    phase = "idle" /\ Facts(net.base) # {} => WholeRun(EmptyNet, SetToSeq(Facts(net.base))).ok

(* The decision delta of a revision is the net change of its settlements    *)
(* (verify.rs recomputes it as the difference of the settlements).         *)
DeltaIsNet ==
    [][Commit /\ goal = "commit" =>
         DecisionDelta = UNION {{[d |-> d, e |-> e, now |-> net'.tree[d][e]] :
                            e \in {e \in Entity : net.tree[d][e] # net'.tree[d][e]}} : d \in Decide}]_vars
=============================================================================
