-------------------------- MODULE OperatorNetwork --------------------------
(***************************************************************************)
(* Incremental maintenance of a world's operator network: apply_chunk of   *)
(* crates/brix-kb/src/world/network.rs up to the point where the candidate *)
(* frontier takes over (that part is DecisionCascade).  A batch of base    *)
(* operations becomes deltas at the scans; a round-robin loop lets each    *)
(* ready operator work through its queue for a quantum; operators that     *)
(* report once per batch (GroupedCount, ParentCount, DisjointUnion) are    *)
(* put aside while an ancestor has work.  The batch runs on a clone, which *)
(* replaces the network when the loop has come to rest.                    *)
(*                                                                         *)
(* Data.  Rows are values the program's operators compute with; the        *)
(* program is given by the constants.  A derivation is its compact form:   *)
(* a root and the leaves it bottoms out in.  An index (join side, support  *)
(* index) is the set of its entries; a bucket is read in digest order,     *)
(* which is any order here.  Of the grouped projections count, sum and     *)
(* collect are modelled.  Persistence of the indexes is left out.          *)
(***************************************************************************)
EXTENDS Integers, Sequences, FiniteSets, SequencesExt

CONSTANTS
    NumOps,            \* operators are 1..NumOps, each above its inputs
    Kind,              \* operator -> its kind
    Inputs,            \* operator -> the sequence of its inputs
    Relation,          \* operator -> the base relation a scan reads
    Outputs,           \* operators whose output is a stored derived relation
    Rels,              \* base relations
    Key,               \* keys of base rows
    Rows(_),           \* the rows a base relation may hold
    Row(_, _),         \* Bind, Project: the row an operator makes of a row
    Pass(_, _),        \* Filter: whether a row passes
    KeyOf(_, _, _),    \* index key of a row on a side of an operator
    Merge(_, _, _),    \* the row a join makes of two
    GroupOf(_, _),     \* group key of a row
    AggOf(_, _),       \* the number a row adds to its group's sum
    NoRow,             \* absence of a row
    NoOp,              \* no operator is running
    Quantum,           \* scheduling_quantum
    CollectLimit,      \* limit of the collect projection
    MaxOps             \* bound on the operations of a batch

Op == 1..NumOps
OpOf(kind) == {n \in Op : Kind[n] = kind}
GroupOps == OpOf("group") \cup OpOf("parent") \cup OpOf("union")
TwoSided == OpOf("join") \cup OpOf("anti") \cup OpOf("parent") \cup OpOf("union")

ASSUME NetworkAssumption ==
    /\ NumOps \in Nat \ {0} /\ NoOp \notin Op
    /\ \A n \in Op : /\ Inputs[n] \in Seq(Op)
                     /\ \A i \in DOMAIN Inputs[n] : Inputs[n][i] < n
                     /\ \A i, j \in DOMAIN Inputs[n] : Inputs[n][i] = Inputs[n][j] => i = j
    /\ Quantum \in Nat \ {0} /\ CollectLimit \in Nat

(* A node of the DAG has the inputs of its kind, a scan reads a relation of *)
(* the program, and no join reads one relation through two scans (the      *)
(* lowering makes one scan per relation and binds the inputs of a join).   *)
ASSUME ProgramAssumption ==
    /\ \A n \in Op :
          \/ Kind[n] = "scan" /\ Len(Inputs[n]) = 0 /\ Relation[n] \in Rels
          \/ Kind[n] \in {"map", "filter", "distinct", "group"} /\ Len(Inputs[n]) = 1
          \/ Kind[n] \in {"join", "anti", "parent", "union"} /\ Len(Inputs[n]) = 2
    /\ \A n \in OpOf("join") : \A i, j \in DOMAIN Inputs[n] :
          /\ Kind[Inputs[n][i]] = "scan" /\ Kind[Inputs[n][j]] = "scan"
          /\ Relation[Inputs[n][i]] = Relation[Inputs[n][j]]
          => i = j
    /\ Outputs \subseteq Op

(* A node's inputs, everything above it (the least set with its inputs that *)
(* is closed under inputs), and the operators it feeds.                    *)
InputsOf(n) == {Inputs[n][i] : i \in DOMAIN Inputs[n]}
Ancestors ==
    [n \in Op |-> {m \in Op : \A S \in SUBSET Op :
        InputsOf(n) \subseteq S /\ (\A x \in S : InputsOf(x) \subseteq S) => m \in S}]
Consumers(n) == {m \in Op : n \in InputsOf(m)}

(* The sequences that list each element of a finite set once; the nodes of  *)
(* the DAG are visited in ascending order.                                 *)
Orders(S) == {s \in UNION {[1..m -> S] : m \in {Cardinality(S)} \cap Nat} :
                 /\ {s[i] : i \in DOMAIN s} = S
                 /\ \A i, j \in DOMAIN s : s[i] = s[j] => i = j}
Ascending(S) == {s \in Orders(S) : \A i, j \in DOMAIN s : i < j => s[i] < s[j]}

-----------------------------------------------------------------------------
(* Derivations. *)

Base(r, k) == [root |-> <<"base", r>>, leaves |-> << <<"base", k>> >>]
Unary(n, d) == [root |-> <<"op", n>>, leaves |-> d.leaves]
Joined(n, d, e) == [root |-> <<"op", n>>, leaves |-> d.leaves \o e.leaves]
Distinct(n, t) == [root |-> <<"op", n>>, leaves |-> << <<"distinct", t>> >>]
Group(n, k) == [root |-> <<"op", n>>, leaves |-> << <<"group", k>> >>]

Delta(sign, t, d) == [sign |-> sign, t |-> t, d |-> d]
Ins(t, d) == Delta("+", t, d)
Ret(t, d) == Delta("-", t, d)
Entry(x) == [t |-> x.t, d |-> x.d]

(* A join takes a delta for its left side when the derivation is rooted at *)
(* the left input, or is a base row of the relation the left input scans.  *)
IsLeft(n, d) ==
    LET left == Inputs[n][1]
    IN  \/ d.root = <<"op", left>>
        \/ Kind[left] = "scan" /\ d.root = <<"base", Relation[left]>>

-----------------------------------------------------------------------------
(* Indexes. *)

NoAcc == [sum |-> 0, items |-> {}]

Bucket(S, n, side, k) == {e \in S : KeyOf(n, side, e.t) = k}

(* indexed_side_apply: within the bucket of its key an entry is found by   *)
(* its derivation.                                                         *)
SideApply(S, n, side, x) ==
    LET k == KeyOf(n, side, x.t)
        others == {e \in S : ~(e.d = x.d /\ KeyOf(n, side, e.t) = k)}
    IN  IF x.sign = "+" THEN others \cup {Entry(x)} ELSE others

(* SupportIndex add and remove. *)
Support(S, x) == IF x.sign = "+" THEN S \cup {Entry(x)} ELSE S \ {Entry(x)}
Supported(S, t) == Cardinality({e \in S : e.t = t})

(* The accumulators of a group operator, one per group that has members. *)
AccOf(A, k) == IF \E i \in A : i.k = k THEN (CHOOSE i \in A : i.k = k).a ELSE NoAcc
SetAcc(A, k, count, a) ==
    {i \in A : i.k # k} \cup (IF count = 0 THEN {} ELSE {[k |-> k, a |-> a]})

(* GroupAccumulator::apply_delta: the sum, and the collected items by      *)
(* derivation.                                                             *)
Accumulate(a, n, x) ==
    LET rest == {i \in a.items : i.d # x.d}
        v    == AggOf(n, x.t)
    IN  IF x.sign = "+" THEN [sum |-> a.sum + v, items |-> rest \cup {[d |-> x.d, v |-> v]}]
                        ELSE [sum |-> a.sum - v, items |-> rest]

(* build_grouped_tuple; the collected list is given by its members. *)
GroupRow(k, count, a) ==
    [g |-> k, n |-> count, sum |-> a.sum, list |-> a.items]
(* parent_count_tuple *)
CountRow(k, count) == [g |-> k, n |-> count]

-----------------------------------------------------------------------------
VARIABLES
    net,       \* the network: base rows, index sides, accumulators, relations
    staged,    \* the clone a batch works on
    phase,     \* "idle", or where the batch is: "scan" or "run"
    fed,       \* the (relation, key) pairs of the batch's operations so far
    queue,     \* operator -> its work items
    ready,     \* operators waiting for a slice, in order
    deferred,  \* group operators put aside
    cur,       \* the operator whose slice it is
    slice,     \* work units of the slice
    out,       \* deltas the slice has produced
    before,    \* keys touched in the slice with the row they had, for group and union
    ran        \* history: operators that have had a slice in this batch

loop == <<queue, ready, deferred, cur, slice, out, before, ran>>
vars == <<net, staged, phase, fed, loop>>

InitNet ==
    [base |-> [r \in Rels |-> [k \in Key |-> NoRow]],
     side |-> [n \in Op |-> [s \in 1..2 |-> {}]],
     acc  |-> [n \in Op |-> {}],
     rel  |-> [n \in Op |-> {}]]

Idle ==
    /\ phase = "idle" /\ fed = {}
    /\ queue = [n \in Op |-> <<>>] /\ ready = <<>> /\ deferred = {}
    /\ cur = NoOp /\ slice = 0 /\ out = <<>> /\ before = {} /\ ran = {}

Init == net = InitNet /\ staged = InitNet /\ Idle

Pending(q, n) == q[n] # <<>>
Waiting == {ready[i] : i \in DOMAIN ready}
(* Mutant: only the direct inputs are looked at. *)
PendingInput(q, n) == \E m \in InputsOf(n) : Pending(q, m)
(* has_pending_ancestor *)
PendingAncestor(q, n) == \E m \in Ancestors[n] : Pending(q, m)

(* Work items: a delta, the side it is tagged with (0 for none), and the   *)
(* matches still to come when it continues an interrupted join.            *)
Item(x, side) == [x |-> x, side |-> side, fresh |-> TRUE, rest |-> {}]
Continuation(it, rest) == [x |-> it.x, side |-> it.side, fresh |-> FALSE, rest |-> rest]

SideFor(n, m) ==
    IF Kind[m] \in {"anti", "union", "parent"}
    THEN IF Inputs[m][1] = n THEN 1 ELSE 2
    ELSE 0

-----------------------------------------------------------------------------
(* The batch reaches the scans. *)

BeginBatch ==
    /\ phase = "idle"
    /\ phase' = "scan" /\ staged' = net
    /\ UNCHANGED <<net, fed, loop>>

(* One operation: an upsert of row, or a remove when row is NoRow.  A      *)
(* changed row is retracted before the new one is inserted.                *)
(* Mutant: the old row stays. *)
ScanInsertOnly(r, k, row) ==
    LET old == staged.base[r][k]
    IN  IF row = old THEN <<>>
        ELSE IF row = NoRow THEN <<Item(Ret(old, Base(r, k)), 0)>> ELSE <<Item(Ins(row, Base(r, k)), 0)>>
ScanDeltas(r, k, row) ==
    LET old == staged.base[r][k]
    IN  IF row = old THEN <<>>
        ELSE (IF old = NoRow THEN <<>> ELSE <<Item(Ret(old, Base(r, k)), 0)>>)
          \o (IF row = NoRow THEN <<>> ELSE <<Item(Ins(row, Base(r, k)), 0)>>)

ScansOf(r) == {n \in OpOf("scan") : Relation[n] = r}

Ingest(r, k, row) ==
    /\ phase = "scan" /\ Cardinality(fed) < MaxOps /\ <<r, k>> \notin fed
    /\ fed' = fed \cup {<<r, k>>}
    /\ LET xs == ScanDeltas(r, k, row)
       IN  /\ queue' = [n \in Op |-> IF n \in ScansOf(r) /\ xs # <<>> THEN queue[n] \o xs ELSE queue[n]]
           /\ \E new \in Ascending({n \in ScansOf(r) : xs # <<>>} \ Waiting) :
                  ready' = ready \o new
    /\ staged' = [staged EXCEPT !.base[r][k] = row]
    /\ UNCHANGED <<net, phase, deferred, cur, slice, out, before, ran>>

EndScan ==
    /\ phase = "scan" /\ phase' = "run"
    /\ UNCHANGED <<net, staged, fed, loop>>

-----------------------------------------------------------------------------
(* The loop over the ready operators. *)

NextReady == Head(ready)

(* Mutant: any operator is put aside. *)
DeferAny ==
    /\ phase = "run" /\ cur = NoOp /\ ready # <<>>
    /\ PendingAncestor(queue, NextReady)
    /\ ready' = Tail(ready)
    /\ deferred' = deferred \cup {NextReady}
    /\ UNCHANGED <<net, staged, phase, fed, queue, cur, slice, out, before, ran>>
Defer ==
    /\ phase = "run" /\ cur = NoOp /\ ready # <<>>
    /\ NextReady \in GroupOps /\ PendingAncestor(queue, NextReady)
    /\ ready' = Tail(ready)
    /\ deferred' = deferred \cup {NextReady}
    /\ UNCHANGED <<net, staged, phase, fed, queue, cur, slice, out, before, ran>>

Begin ==
    /\ phase = "run" /\ cur = NoOp /\ ready # <<>>
    /\ ~(NextReady \in GroupOps /\ PendingAncestor(queue, NextReady))
    /\ ready' = Tail(ready)
    /\ cur' = NextReady
    /\ ran' = ran \cup {NextReady}
    /\ UNCHANGED <<net, staged, phase, fed, queue, deferred, slice, out, before>>

(* The slice goes on while its queue and its quantum last; a group operator *)
(* takes all it has.                                                       *)
SliceLeft == Pending(queue, cur) /\ (cur \in GroupOps \/ slice < Quantum)
Working(kind) == phase = "run" /\ cur \in OpOf(kind) /\ SliceLeft

-----------------------------------------------------------------------------
(* One work item. *)

Current == Head(queue[cur])

(* The side of a two-sided operator an item belongs to, and its index key. *)
SideOf(n, it) ==
    IF Kind[n] = "join" THEN IF IsLeft(n, it.x.d) THEN 1 ELSE 2 ELSE it.side
KeyAt(n, it) == KeyOf(n, SideOf(n, it), it.x.t)

(* Rows in the bucket of the item's own side, before and after it. *)
OldCount(n, it) ==
    Cardinality(Bucket(staged.side[n][SideOf(n, it)], n, SideOf(n, it), KeyAt(n, it)))
NewCount(n, it) ==
    Cardinality(Bucket(SideApply(staged.side[n][SideOf(n, it)], n, SideOf(n, it), it.x),
                       n, SideOf(n, it), KeyAt(n, it)))
Opposite(n, it) ==
    Bucket(staged.side[n][3 - SideOf(n, it)], n, 3 - SideOf(n, it), KeyAt(n, it))

(* The rows of the other side an item has to be combined with.  An         *)
(* anti-join's right side matters to the left rows when the last row goes  *)
(* or the first one comes, a parent count's whenever the count changes.    *)
Touched(n, it) ==
    CASE Kind[n] = "join" -> IF it.fresh THEN Opposite(n, it) ELSE it.rest
      [] Kind[n] = "anti" /\ SideOf(n, it) = 2
           /\ (OldCount(n, it) = 0) # (NewCount(n, it) = 0) -> Opposite(n, it)
      [] Kind[n] = "parent" /\ SideOf(n, it) = 2
           /\ OldCount(n, it) # NewCount(n, it) -> Opposite(n, it)
      [] OTHER -> {}

(* A join takes what is left of its quantum, and at least one. *)
TakeCount(n, it) ==
    LET all  == Cardinality(Touched(n, it))
        room == IF Quantum > slice + 2 THEN Quantum - slice - 1 ELSE 1
    IN  IF Kind[n] = "join" /\ room < all THEN room ELSE all

(* What every item has in common: it leaves the queue (the rest of an      *)
(* interrupted join goes back in front), its output is appended, its work  *)
(* is counted.  The matches of a join count, the rows an anti-join or a    *)
(* parent count goes over count for the limits only.                       *)
Consume(rest, emit, newSide) ==
    /\ queue' = [queue EXCEPT ![cur] = rest \o Tail(@)]
    /\ out' = out \o emit
    /\ slice' = slice + 1 + (IF Kind[cur] = "join" THEN TakeCount(cur, Current) ELSE 0)
    /\ staged' = [staged EXCEPT !.side[cur] = newSide]
    /\ UNCHANGED <<net, phase, fed, ready, deferred, cur, ran>>

Same == staged.side[cur]
Applied == [Same EXCEPT ![SideOf(cur, Current)] = SideApply(@, cur, SideOf(cur, Current), Current.x)]

ScanStep ==
    /\ Working("scan")
    /\ Consume(<<>>, <<Current.x>>, Same)
    /\ UNCHANGED before

(* Bind and Project *)
MapStep ==
    /\ Working("map")
    /\ LET x == Current.x
       IN  Consume(<<>>, <<Delta(x.sign, Row(cur, x.t), Unary(cur, x.d))>>, Same)
    /\ UNCHANGED before

FilterStep ==
    /\ Working("filter")
    /\ LET x == Current.x
       IN  Consume(<<>>, IF Pass(cur, x.t) THEN <<Delta(x.sign, x.t, Unary(cur, x.d))>> ELSE <<>>, Same)
    /\ UNCHANGED before

JoinStep ==
    /\ Working("join")
    /\ LET x    == Current.x
           left == SideOf(cur, Current) = 1
           T    == Touched(cur, Current)
           Pair(e) == IF left THEN Delta(x.sign, Merge(cur, x.t, e.t), Joined(cur, x.d, e.d))
                              ELSE Delta(x.sign, Merge(cur, e.t, x.t), Joined(cur, e.d, x.d))
       IN  \E p \in Orders(T) : \E take \in {TakeCount(cur, Current)} \cap (0..Len(p)) :
              LET page == SubSeq(p, 1, take)
                  rest == T \ {page[i] : i \in DOMAIN page}
              IN  Consume(IF rest = {} THEN <<>> ELSE <<Continuation(Current, rest)>>,
                          [i \in DOMAIN page |-> Pair(page[i])],
                          IF Current.fresh THEN Applied ELSE Same)
    /\ UNCHANGED before

AntiStep ==
    /\ Working("anti")
    /\ LET x == Current.x
           changed == OldCount(cur, Current) # NewCount(cur, Current)
       IN  IF Current.side = 1
           THEN Consume(<<>>, IF changed /\ Opposite(cur, Current) = {}
                              THEN <<Delta(x.sign, x.t, Unary(cur, x.d))>> ELSE <<>>, Applied)
           ELSE LET sign == IF OldCount(cur, Current) = 0 THEN "-" ELSE "+"
                IN  \E p \in Orders(Touched(cur, Current)) :
                       Consume(<<>>, [i \in DOMAIN p |-> Delta(sign, p[i].t, Unary(cur, p[i].d))], Applied)
    /\ UNCHANGED before

ParentStep ==
    /\ Working("parent")
    /\ LET x   == Current.x
           old == OldCount(cur, Current)
           new == NewCount(cur, Current)
           Parent(e) == KeyOf(cur, 1, e.t)
       IN  IF Current.side = 1
           THEN Consume(<<>>, IF old # new
                              THEN <<Delta(x.sign, CountRow(Parent(x), Cardinality(Opposite(cur, Current))),
                                           Unary(cur, x.d))>>
                              ELSE <<>>, Applied)
           ELSE \E p \in Orders(Touched(cur, Current)) :
                   Consume(<<>>, [i \in 1..(2 * Len(p)) |->
                                    LET e == p[(i + 1) \div 2]
                                    IN  IF i % 2 = 1 THEN Ret(CountRow(Parent(e), old), Unary(cur, e.d))
                                                     ELSE Ins(CountRow(Parent(e), new), Unary(cur, e.d))],
                           Applied)
    /\ UNCHANGED before

DistinctStep ==
    /\ Working("distinct")
    /\ LET x   == Current.x
           S   == Same[1]
           old == Supported(S, x.t)
           new == Supported(Support(S, x), x.t)
       IN  Consume(<<>>, IF (x.sign = "+" /\ old = 0) \/ (x.sign = "-" /\ old > 0 /\ new = 0)
                         THEN <<Delta(x.sign, x.t, Distinct(cur, x.t))>> ELSE <<>>,
                   [Same EXCEPT ![1] = Support(@, x)])
    /\ UNCHANGED before

(* The row a key has now, if any, for the operators that report once per    *)
(* slice: an optional row is a set of at most one.                         *)
The(rows) == CHOOSE t \in rows : TRUE
UnionRows(n, k) == {e.t : e \in Bucket(staged.side[n][1], n, 1, k) \cup Bucket(staged.side[n][2], n, 2, k)}
UnionCount(n, k) == Cardinality(Bucket(staged.side[n][1], n, 1, k))
                    + Cardinality(Bucket(staged.side[n][2], n, 2, k))
RowNow(n, k) ==
    IF Kind[n] = "union"
    THEN IF UnionCount(n, k) = 0 THEN {} ELSE {The(UnionRows(n, k))}
    ELSE LET count == Supported(staged.side[n][1], k)
         IN  IF count = 0 THEN {} ELSE {GroupRow(k, count, AccOf(staged.acc[n], k))}

(* The row is remembered when the slice first meets its key. *)
Remember(k) ==
    before' = IF \E b \in before : b.k = k THEN before
              ELSE before \cup {[k |-> k, row |-> RowNow(cur, k)]}

UnionStep ==
    /\ Working("union")
    /\ Remember(KeyAt(cur, Current))
    /\ Consume(<<>>, <<>>, Applied)

(* GroupedCount: the group's supports, and its accumulator when their      *)
(* number changed.                                                         *)
GroupDelta == Delta(Current.x.sign, GroupOf(cur, Current.x.t), Current.x.d)
GroupCount == Supported(Support(Same[1], GroupDelta), GroupDelta.t)
GroupGrows == GroupCount # Supported(Same[1], GroupDelta.t)
Collected == {i \in AccOf(staged.acc[cur], GroupDelta.t).items : i.d # Current.x.d}
(* Mutant: one too many. *)
CollectOver == Current.x.sign = "+" /\ GroupGrows /\ Cardinality(Collected) > CollectLimit
(* A collect refuses to take more than its limit. *)
CollectFull == Current.x.sign = "+" /\ GroupGrows /\ Cardinality(Collected) >= CollectLimit
(* A sum refuses what is not a number. *)
NotANumber == GroupGrows /\ AggOf(cur, Current.x.t) \notin Int
GroupRefuses == CollectFull \/ NotANumber

GroupStep ==
    /\ Working("group")
    /\ ~GroupRefuses
    /\ Remember(GroupDelta.t)
    /\ LET k == GroupDelta.t
           a == Accumulate(AccOf(staged.acc[cur], k), cur, Current.x)
       IN  staged' = [staged EXCEPT !.side[cur] = [Same EXCEPT ![1] = Support(@, GroupDelta)],
                                    !.acc[cur] = IF GroupGrows THEN SetAcc(@, k, GroupCount, a) ELSE @]
    /\ queue' = [queue EXCEPT ![cur] = Tail(@)]
    /\ slice' = slice + 1
    /\ UNCHANGED <<net, phase, fed, ready, deferred, cur, ran, out>>

-----------------------------------------------------------------------------
(* The end of a slice. *)

(* A key whose row is no longer the one remembered is reported. *)
Changed(old, new, d) ==
    IF new = old THEN <<>>
    ELSE (IF old = {} THEN <<>> ELSE <<Ret(The(old), d)>>) \o (IF new = {} THEN <<>> ELSE <<Ins(The(new), d)>>)

Report(b) ==
    /\ phase = "run" /\ cur \in OpOf("group") \cup OpOf("union") /\ ~SliceLeft /\ b \in before
    /\ ~(Kind[cur] = "union" /\ UnionCount(cur, b.k) > 1)
    /\ before' = before \ {b}
    /\ out' = out \o Changed(b.row, RowNow(cur, b.k), Group(cur, b.k))
    /\ UNCHANGED <<net, staged, phase, fed, queue, ready, deferred, cur, slice, ran>>

(* net_effect: unless all deltas have one sign, an entry keeps its balance,  *)
(* once, retractions first, each in the order of its first appearance (the  *)
(* set holds this one sequence).                                           *)
Times(s, sign, e) == Cardinality({i \in DOMAIN s : s[i].sign = sign /\ Entry(s[i]) = e})
Surplus(s, sign, other) ==
    {e \in {Entry(s[i]) : i \in DOMAIN s} : Times(s, sign, e) > Times(s, other, e)}
FirstAt(s, sign, e) ==
    CHOOSE i \in DOMAIN s : /\ s[i].sign = sign /\ Entry(s[i]) = e
                            /\ \A j \in 1..(i - 1) : ~(s[j].sign = sign /\ Entry(s[j]) = e)
Kept(s, sign, other) ==
    {p \in Orders(Surplus(s, sign, other)) :
        \A i, j \in DOMAIN p : i < j => FirstAt(s, sign, p[i]) < FirstAt(s, sign, p[j])}
Signed(sign, p) == [i \in DOMAIN p |-> Delta(sign, p[i].t, p[i].d)]

NetEffect(s) ==
    IF \E sign \in {"+", "-"} : \A i \in DOMAIN s : s[i].sign = sign THEN {s}
    ELSE {Signed("-", pg[1]) \o Signed("+", pg[2]) : pg \in Kept(s, "-", "+") \X Kept(s, "+", "-")}

Produced == IF Kind[cur] = "parent" THEN NetEffect(out) ELSE {out}

(* A counted derived relation follows the deltas one by one. *)
Stored(S, s) ==
    LET at[i \in 0..Len(s)] == IF i = 0 THEN S ELSE Support(at[i - 1], s[i])
    IN  at[Len(s)]

(* The operator itself waits again when its quantum ended first; deferred  *)
(* groups without a pending ancestor are let back in.                      *)
(* Mutants: a plain operator always waits again; nobody is let back in.    *)
AgainWhenDone(q) == IF cur \in GroupOps THEN <<>> ELSE <<cur>>
Again(q) == IF Pending(q, cur) THEN <<cur>> ELSE <<>>
NotWoken(q) == {}
Woken(q) == {n \in deferred : ~PendingAncestor(q, n)}

(* The output goes to the stored relation and to every consumer. *)
FedBy(ds) == IF ds = <<>> THEN {} ELSE Consumers(cur)
Delivered(ds) ==
    [n \in Op |-> IF n \in FedBy(ds)
                  THEN queue[n] \o [i \in DOMAIN ds |-> Item(ds[i], SideFor(cur, n))]
                  ELSE queue[n]]

EndSlice ==
    /\ phase = "run" /\ cur # NoOp /\ ~SliceLeft /\ before = {}
    /\ \E ds \in Produced :
       LET q == Delivered(ds)
       IN  /\ queue' = q
           /\ \E p \in Ascending(FedBy(ds) \ Waiting) :
               \E w \in Ascending({n \in Woken(q) : Pending(q, n)} \ (Waiting \cup FedBy(ds) \cup {cur})) :
                  ready' = ready \o p \o Again(q) \o w
           /\ deferred' = deferred \ Woken(q)
           /\ staged' = [staged EXCEPT !.rel[cur] =
                            IF cur \in Outputs /\ Kind[cur] # "distinct" THEN Stored(@, ds) ELSE @]
    /\ cur' = NoOp /\ slice' = 0 /\ out' = <<>>
    /\ UNCHANGED <<net, phase, fed, before, ran>>

-----------------------------------------------------------------------------
(* The end of a batch. *)

BackToIdle ==
    /\ phase' = "idle" /\ fed' = {}
    /\ queue' = [n \in Op |-> <<>>] /\ ready' = <<>> /\ deferred' = {}
    /\ cur' = NoOp /\ slice' = 0 /\ out' = <<>> /\ before' = {} /\ ran' = {}

(* Nothing is ready: the clone replaces the network. *)
Publish ==
    /\ phase = "run" /\ cur = NoOp /\ ready = <<>>
    /\ net' = staged /\ UNCHANGED staged
    /\ BackToIdle

(* An error drops the clone: a limit of the caller's is passed (max_work,  *)
(* max_matches, max_expressions: any item may be the one too many;         *)
(* max_queued_deltas: looked at after the scans and after every slice), a  *)
(* collect is full, a key of a union has two rows.                         *)
Discard == net' = net /\ staged' = net /\ BackToIdle

Exhausted == phase # "idle" /\ (cur # NoOp => SliceLeft) /\ Discard
GroupRefused == Working("group") /\ GroupRefuses /\ Discard
UnionRefused ==
    /\ phase = "run" /\ cur \in OpOf("union") /\ ~SliceLeft
    /\ \E b \in before : UnionCount(cur, b.k) > 1
    /\ Discard

SliceStep ==
    \/ ScanStep \/ MapStep \/ FilterStep \/ JoinStep \/ AntiStep \/ ParentStep
    \/ DistinctStep \/ UnionStep \/ GroupStep
    \/ \E b \in before : Report(b)
    \/ EndSlice

LoopStep ==
    \/ Defer \/ Begin \/ SliceStep
    \/ Publish \/ Exhausted \/ GroupRefused \/ UnionRefused

BatchStep ==
    \/ BeginBatch
    \/ \E r \in Rels, k \in Key : \E row \in Rows(r) \cup {NoRow} : Ingest(r, k, row)
    \/ EndScan

Next == BatchStep \/ LoopStep

Spec == Init /\ [][Next]_vars
(* Once a batch is begun apply_chunk is an ordinary loop of one thread: it  *)
(* keeps stepping.  This is weak fairness of the steps of a batch, one of  *)
(* which is possible whenever the phase is not "idle" (TLC checks that     *)
(* there is no deadlock).                                                  *)
FairSpec == Spec /\ ([]<>(phase = "idle") \/ []<><<phase # "idle">>_vars)

-----------------------------------------------------------------------------
(* The reference evaluator: every operator's rows from the base rows alone. *)

RefAcc(n, es) ==
    [sum |-> FoldSet(LAMBDA e, sum : AggOf(n, e.t) + sum, 0, es),
     items |-> {[d |-> e.d, v |-> AggOf(n, e.t)] : e \in es}]
Groups(n, es) == {GroupOf(n, e.t) : e \in es}
Members(n, k, es) == {e \in es : GroupOf(n, e.t) = k}

ScanRows(n, base) ==
    {[t |-> base[Relation[n]][k], d |-> Base(Relation[n], k)] :
       k \in {k \in Key : base[Relation[n]][k] # NoRow}}

(* The rows of an operator from those of its inputs. *)
Evaluate(n, in) ==
    CASE Kind[n] = "map" -> {[t |-> Row(n, e.t), d |-> Unary(n, e.d)] : e \in in[1]}
      [] Kind[n] = "filter" ->
           {[t |-> e.t, d |-> Unary(n, e.d)] : e \in {e \in in[1] : Pass(n, e.t)}}
      [] Kind[n] = "join" ->
           {[t |-> Merge(n, p[1].t, p[2].t), d |-> Joined(n, p[1].d, p[2].d)] :
              p \in {p \in in[1] \X in[2] : KeyOf(n, 1, p[1].t) = KeyOf(n, 2, p[2].t)}}
      [] Kind[n] = "anti" ->
           {[t |-> e.t, d |-> Unary(n, e.d)] :
              e \in {e \in in[1] : Bucket(in[2], n, 2, KeyOf(n, 1, e.t)) = {}}}
      [] Kind[n] = "union" ->
           {[t |-> e.t, d |-> Group(n, KeyOf(n, 1, e.t))] : e \in in[1]}
           \cup {[t |-> e.t, d |-> Group(n, KeyOf(n, 2, e.t))] : e \in in[2]}
      [] Kind[n] = "parent" ->
           {[t |-> CountRow(KeyOf(n, 1, e.t), Cardinality(Bucket(in[2], n, 2, KeyOf(n, 1, e.t)))),
             d |-> Unary(n, e.d)] : e \in in[1]}
      [] Kind[n] = "distinct" -> {[t |-> e.t, d |-> Distinct(n, e.t)] : e \in in[1]}
      [] Kind[n] = "group" ->
           {[t |-> GroupRow(k, Cardinality(Members(n, k, in[1])), RefAcc(n, Members(n, k, in[1]))),
             d |-> Group(n, k)] : k \in Groups(n, in[1])}

Reference(base) ==
    LET ref[n \in Op] ==
        IF Kind[n] = "scan" THEN ScanRows(n, base)
        ELSE Evaluate(n, [i \in DOMAIN Inputs[n] |-> ref[Inputs[n][i]]])
    IN  ref

(* The base rows the reference refuses: a collect past its limit, two rows  *)
(* for a key of a union.                                                   *)
Lawful(base) ==
    LET ref == Reference(base)
    IN  /\ \A n \in OpOf("group") : \A e \in ref[n] : e.t.n <= CollectLimit
        /\ \A n \in OpOf("union") :
              /\ \A k \in {e.d : e \in ref[n]} :
                    Cardinality({e \in ref[Inputs[n][1]] : Group(n, KeyOf(n, 1, e.t)) = k})
                    + Cardinality({e \in ref[Inputs[n][2]] : Group(n, KeyOf(n, 2, e.t)) = k}) = 1

-----------------------------------------------------------------------------
(* Properties. *)

(* The variables of the loop have their types and hang together: only     *)
(* operators of the program are scheduled, only group operators are put    *)
(* aside, and between batches nothing is left over.                        *)
TypeOK ==
    /\ phase \in {"idle", "scan", "run"}
    /\ ready \in Seq(Op) /\ deferred \subseteq GroupOps /\ cur \in Op \cup {NoOp} /\ ran \subseteq Op
    /\ DOMAIN queue = Op

(* When no operator is ready the batch is done: no delta is left in the    *)
(* queue of an operator that was put aside (the loop ends on an empty ready *)
(* list and never looks at deferred_groups again).                         *)
NoDeltaLeftBehind ==
    phase = "run" /\ cur = NoOp /\ ready = <<>> => \A n \in Op : queue[n] = <<>>

(* Every index an operator keeps (join and anti-join sides, union and parent *)
(* sides, supports, groups and their accumulators) is what the reference    *)
(* rows ref make it.                                                       *)
IndexesAre(ref) ==
    \A n \in Op :
        CASE n \in TwoSided -> \A s \in 1..2 : net.side[n][s] = ref[Inputs[n][s]]
          [] Kind[n] = "distinct" -> net.side[n][1] = ref[Inputs[n][1]]
          [] Kind[n] = "group" ->
               LET es == ref[Inputs[n][1]]
               IN  /\ net.side[n][1] = {[t |-> GroupOf(n, e.t), d |-> e.d] : e \in es}
                   /\ net.acc[n] = {[k |-> k, a |-> RefAcc(n, Members(n, k, es))] : k \in Groups(n, es)}
          [] OTHER -> net.side[n] = [s \in 1..2 |-> {}]

(* The derived relations show no row too many and none too few. *)
RelationsAre(ref) ==
    \A n \in Outputs :
        IF Kind[n] = "distinct" THEN {e.t : e \in net.side[n][1]} = {e.t : e \in ref[n]}
        ELSE net.rel[n] = ref[n]

(* Between batches every index and every derived relation is what the       *)
(* reference evaluator computes from the base rows, whatever batches,       *)
(* orders, interruptions and aborted batches came before.                  *)
NetworkMaintained ==
    phase = "idle" => LET ref == Reference(net.base) IN IndexesAre(ref) /\ RelationsAre(ref)

(* A batch that was accepted leaves base rows the reference accepts. *)
AcceptedIsLawful == phase = "idle" => Lawful(net.base)

(* An operator that reports once per batch is given one slice per batch, so *)
(* what it reports is the effect of the whole batch.                       *)
GroupsRunOnce == [][Begin /\ NextReady \in GroupOps => NextReady \notin ran]_vars

(* A batch in flight is published or refused: the loop terminates. *)
BatchEnds == phase # "idle" ~> phase = "idle"
=============================================================================
