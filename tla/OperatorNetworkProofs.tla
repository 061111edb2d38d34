----------------------- MODULE OperatorNetworkProofs -----------------------
(***************************************************************************)
(* What OperatorNetwork guarantees for every program, quantum and batch.   *)
(*                                                                         *)
(* Scheduling: no delta is left behind when the loop ends, and an operator *)
(* that reports once per batch has one slice per batch.  The inductive     *)
(* invariant IInv says where pending work may be (the ready list, the      *)
(* deferred set, the running operator), that an operator put aside has a   *)
(* pending ancestor whenever the loop chooses, and that nothing above a    *)
(* group operator that has run can produce any more.  The ancestor order   *)
(* is well founded because inputs have smaller numbers: the least pending  *)
(* operator has no pending ancestor.                                       *)
(*                                                                         *)
(* Maintenance: between batches the indexes and the derived relations are  *)
(* what the reference evaluator computes, and the base rows obey its laws. *)
(* Two notions carry the proof.  Path(m, S, s, T): the deltas s, one after *)
(* the other, lead the rows of operator m from S to T, each inserting a    *)
(* derivation that is absent or retracting a row that is there.  Run: the  *)
(* same for the queue of an operator and the rows of all its inputs.  The  *)
(* inductive invariant MInv says that there are rows, those every operator *)
(* has sent on so far, such that every operator is Sound between them: it  *)
(* has taken in some P of its inputs, its indexes are those of P, its      *)
(* queue is a Run from P to what its inputs have sent, and what its slice  *)
(* has produced is a Path from what it has sent to what it makes of P.     *)
(* In between an interrupted join shows part of what it makes of P (Half), *)
(* and an operator that reports at the end of its slice still shows the    *)
(* rows it remembered (Shown).  With every queue empty, the rows are those *)
(* of the reference.                                                       *)
(***************************************************************************)
EXTENDS OperatorNetwork, TLAPS, NaturalsInduction, WellFoundedInduction, FiniteSetTheorems

-----------------------------------------------------------------------------
(* The graph. *)

(* The inputs of an operator are among its ancestors, and so are the        *)
(* inputs of its ancestors.                                                *)
LEMMA AncestorsClosed ==
    ASSUME NEW n \in Op
    PROVE  /\ Ancestors[n] \subseteq Op
           /\ InputsOf(n) \subseteq Ancestors[n]
           /\ \A m \in Ancestors[n] : InputsOf(m) \subseteq Ancestors[n]
<1>1. \A m \in Op : InputsOf(m) \subseteq Op
  BY NetworkAssumption DEF InputsOf
<1> QED
  BY <1>1 DEF Ancestors

(* Every ancestor has a smaller number. *)
LEMMA AncestorsBelow ==
    ASSUME NEW n \in Op
    PROVE  \A m \in Ancestors[n] : m < n
<1> DEFINE S == {m \in Op : m < n}
<1>1. \A x \in Op : \A m \in InputsOf(x) : m \in Op /\ m < x
  BY NetworkAssumption DEF InputsOf
<1>2. \A m \in Op : m \in Int
  BY NetworkAssumption DEF Op
<1>3. InputsOf(n) \subseteq S /\ (\A x \in S : InputsOf(x) \subseteq S)
  BY <1>1, <1>2
<1>4. S \in SUBSET Op
  OBVIOUS
<1> QED
  BY <1>3, <1>4 DEF Ancestors

(* An operator does not feed itself, nor what is above it. *)
LEMMA ConsumersBelow ==
    ASSUME NEW c \in Op
    PROVE  /\ Consumers(c) \subseteq Op
           /\ c \notin Consumers(c)
           /\ \A n \in Op : c \notin Ancestors[n] =>
                 n \notin Consumers(c) /\ Ancestors[n] \cap Consumers(c) = {}
<1>1. \A m \in Op : m \in Int
  BY NetworkAssumption DEF Op
<1>2. c \notin Consumers(c)
  BY AncestorsClosed, AncestorsBelow, <1>1 DEF Consumers
<1> QED
  BY <1>2, AncestorsClosed DEF Consumers

(* Where something is pending, something without a pending ancestor is. *)
LEMMA LeastPending ==
    ASSUME NEW q, \E n \in Op : Pending(q, n)
    PROVE  \E n \in Op : Pending(q, n) /\ ~PendingAncestor(q, n)
<1> DEFINE T == {n \in Op : Pending(q, n)}
<1>1. Op \subseteq Nat
  BY NetworkAssumption DEF Op
<1>2. T \subseteq Nat /\ T # {}
  BY <1>1
<1> DEFINE R == OpToRel(<, Nat)
<1>3. PICK x \in T : \A y \in T : ~(<<y, x>> \in R)
  <2>1. IsWellFoundedOn(R, Nat)
    BY NatLessThanWellFounded, Zenon
  <2> HIDE DEF R
  <2> QED
    BY <1>2, <2>1, WFMin, Zenon
<1>4. \A y \in T : ~(y < x)
  <2>1. \A y \in T : <<y, x>> \in Nat \X Nat /\ <<y, x>>[1] = y /\ <<y, x>>[2] = x
    BY <1>2
  <2> QED
    BY <2>1, <1>3, Zenon DEF OpToRel
<1>5. \A m \in Ancestors[x] : m \in Op /\ m < x
  BY AncestorsClosed, AncestorsBelow
<1> QED
  BY <1>4, <1>5 DEF PendingAncestor

-----------------------------------------------------------------------------
(* Sequences. *)

IsList(s) == \E S : s \in Seq(S)
RangeOf(s) == {s[i] : i \in DOMAIN s}
NoDup(s) == \A i, j \in DOMAIN s : s[i] = s[j] => i = j

LEMMA ConcatIsList ==
    ASSUME NEW s, NEW t, IsList(s), IsList(t)
    PROVE  IsList(s \o t) /\ (t # <<>> => s \o t # <<>>)
<1>1. PICK S : s \in Seq(S)
  BY DEF IsList
<1>2. PICK T : t \in Seq(T)
  BY DEF IsList
<1>3. s \in Seq(S \cup T) /\ t \in Seq(S \cup T)
  BY <1>1, <1>2
<1>4. s \o t \in Seq(S \cup T) /\ Len(s \o t) = Len(s) + Len(t)
  BY <1>3
<1>5. t # <<>> => Len(t) > 0
  BY <1>3
<1> QED
  BY <1>3, <1>4, <1>5 DEF IsList

(* An arrangement of a set of operators is a sequence of them. *)
LEMMA AscendingSeq ==
    ASSUME NEW S \in SUBSET Op, NEW p \in Ascending(S)
    PROVE  p \in Seq(Op) /\ RangeOf(p) = S /\ NoDup(p)
<1>1. PICK m \in Nat : p \in [1..m -> S]
  BY DEF Ascending, Orders
<1>2. p \in Seq(Op)
  BY <1>1
<1> QED
  BY <1>2 DEF Ascending, Orders, RangeOf, NoDup

LEMMA OrdersSeq ==
    ASSUME NEW S, NEW p \in Orders(S)
    PROVE  p \in Seq(S)
<1>1. PICK m \in Nat : p \in [1..m -> S]
  BY DEF Orders
<1> QED
  BY <1>1

(* Appending operators that do not wait yet. *)
LEMMA AppendNew ==
    ASSUME NEW s \in Seq(Op), NEW p \in Seq(Op), NoDup(s), NoDup(p),
           RangeOf(s) \cap RangeOf(p) = {}
    PROVE  s \o p \in Seq(Op) /\ RangeOf(s \o p) = RangeOf(s) \cup RangeOf(p) /\ NoDup(s \o p)
<1>1. /\ s \o p \in Seq(Op)
      /\ Len(s \o p) = Len(s) + Len(p) /\ Len(s) \in Nat /\ Len(p) \in Nat
      /\ DOMAIN s = 1..Len(s) /\ DOMAIN p = 1..Len(p) /\ DOMAIN (s \o p) = 1..(Len(s) + Len(p))
  OBVIOUS
<1>2. /\ \A i \in 1..Len(s) : (s \o p)[i] = s[i]
      /\ \A i \in 1..Len(p) : (s \o p)[Len(s) + i] = p[i]
      /\ \A i \in (Len(s) + 1)..(Len(s) + Len(p)) : (s \o p)[i] = p[i - Len(s)]
  OBVIOUS
<1>3. \A i \in 1..(Len(s) + Len(p)) : i \in 1..Len(s) \/ i \in (Len(s) + 1)..(Len(s) + Len(p))
  BY <1>1
<1>4. \A i \in (Len(s) + 1)..(Len(s) + Len(p)) : i - Len(s) \in 1..Len(p)
  BY <1>1
<1>5. \A i \in 1..Len(p) : Len(s) + i \in 1..(Len(s) + Len(p))
  BY <1>1
<1>6. \A i \in 1..Len(s) : i \in 1..(Len(s) + Len(p))
  BY <1>1
<1>7. RangeOf(s \o p) = RangeOf(s) \cup RangeOf(p)
  <2>1. \A i \in DOMAIN (s \o p) : (s \o p)[i] \in RangeOf(s) \cup RangeOf(p)
    BY <1>1, <1>2, <1>3, <1>4 DEF RangeOf
  <2>2. \A i \in DOMAIN s : s[i] \in RangeOf(s \o p)
    BY <1>1, <1>2, <1>6 DEF RangeOf
  <2>3. \A i \in DOMAIN p : p[i] \in RangeOf(s \o p)
    BY <1>1, <1>2, <1>5 DEF RangeOf
  <2> QED
    BY <2>1, <2>2, <2>3 DEF RangeOf
<1>8. ASSUME NEW i \in DOMAIN (s \o p), NEW j \in DOMAIN (s \o p), (s \o p)[i] = (s \o p)[j]
      PROVE  i = j
  <2>1. CASE i \in 1..Len(s) /\ j \in 1..Len(s)
    BY <1>1, <1>2, <1>8, <2>1 DEF NoDup
  <2>2. CASE i \in (Len(s) + 1)..(Len(s) + Len(p)) /\ j \in (Len(s) + 1)..(Len(s) + Len(p))
    <3>1. p[i - Len(s)] = p[j - Len(s)]
      BY <1>2, <1>8, <2>2
    <3>2. i - Len(s) = j - Len(s)
      BY <1>1, <1>4, <2>2, <3>1 DEF NoDup
    <3> QED
      BY <1>1, <2>2, <3>2
  <2>3. CASE i \in 1..Len(s) /\ j \in (Len(s) + 1)..(Len(s) + Len(p))
    <3>1. (s \o p)[i] \in RangeOf(s) /\ (s \o p)[j] \in RangeOf(p)
      BY <1>1, <1>2, <1>4, <2>3 DEF RangeOf
    <3> QED
      BY <3>1, <1>8
  <2>4. CASE j \in 1..Len(s) /\ i \in (Len(s) + 1)..(Len(s) + Len(p))
    <3>1. (s \o p)[j] \in RangeOf(s) /\ (s \o p)[i] \in RangeOf(p)
      BY <1>1, <1>2, <1>4, <2>4 DEF RangeOf
    <3> QED
      BY <3>1, <1>8
  <2> QED
    BY <1>1, <1>3, <2>1, <2>2, <2>3, <2>4
<1> QED
  BY <1>1, <1>7, <1>8 DEF NoDup

(* Taking the first operator off the list. *)
LEMMA TailOfList ==
    ASSUME NEW s \in Seq(Op), s # <<>>, NoDup(s)
    PROVE  /\ Head(s) \in RangeOf(s) /\ Tail(s) \in Seq(Op) /\ NoDup(Tail(s))
           /\ RangeOf(Tail(s)) = RangeOf(s) \ {Head(s)}
<1>1. /\ Len(s) \in Nat \ {0} /\ Tail(s) \in Seq(Op) /\ Len(Tail(s)) = Len(s) - 1
      /\ DOMAIN s = 1..Len(s) /\ DOMAIN Tail(s) = 1..(Len(s) - 1)
      /\ Head(s) = s[1] /\ \A i \in 1..(Len(s) - 1) : Tail(s)[i] = s[i + 1]
  OBVIOUS
<1>2. \A i \in 1..(Len(s) - 1) : i + 1 \in 1..Len(s) /\ i + 1 # 1
  BY <1>1
<1>3. \A i \in 1..Len(s) : i = 1 \/ (i - 1 \in 1..(Len(s) - 1) /\ (i - 1) + 1 = i)
  BY <1>1
<1>4. Head(s) \in RangeOf(s) /\ 1 \in DOMAIN s
  BY <1>1 DEF RangeOf
<1>5. RangeOf(Tail(s)) \subseteq RangeOf(s) \ {Head(s)}
  BY <1>1, <1>2, <1>4 DEF RangeOf, NoDup
<1>6. RangeOf(s) \ {Head(s)} \subseteq RangeOf(Tail(s))
  <2>1. ASSUME NEW i \in DOMAIN s, s[i] # Head(s) PROVE s[i] \in RangeOf(Tail(s))
    <3>1. i - 1 \in 1..(Len(s) - 1) /\ (i - 1) + 1 = i
      BY <1>1, <1>3, <2>1
    <3>2. Tail(s)[i - 1] = s[i]
      BY <1>1, <3>1
    <3> QED
      BY <1>1, <3>1, <3>2 DEF RangeOf
  <2> QED
    BY <2>1 DEF RangeOf
<1>7. NoDup(Tail(s))
  <2>1. ASSUME NEW i \in 1..(Len(s) - 1), NEW j \in 1..(Len(s) - 1), Tail(s)[i] = Tail(s)[j] PROVE i = j
    <3>1. i + 1 = j + 1
      BY <1>1, <1>2, <2>1 DEF NoDup
    <3> QED
      BY <1>1, <3>1
  <2> QED
    BY <1>1, <2>1 DEF NoDup
<1> QED
  BY <1>1, <1>4, <1>5, <1>6, <1>7

-----------------------------------------------------------------------------
(* The inductive invariant. *)

Shape ==
    /\ phase \in {"idle", "scan", "run"}
    /\ DOMAIN queue = Op /\ (\A n \in Op : IsList(queue[n])) /\ IsList(out)
    /\ ready \in Seq(Op) /\ NoDup(ready)
    /\ deferred \subseteq GroupOps /\ cur \in Op \cup {NoOp} /\ ran \subseteq Op

(* Pending work is known to the loop. *)
Accounted == \A n \in Op : Pending(queue, n) => n \in Waiting \cup deferred \cup {cur}

(* Who waits has something to do. *)
WaitersPending == \A n \in Waiting : n # cur /\ Pending(queue, n)

(* Between slices, who is put aside still has a reason. *)
AsideWaits == cur = NoOp => \A n \in deferred : PendingAncestor(queue, n)

(* A group operator that has run is finished, and so is all above it. *)
DoneAbove ==
    \A n \in ran \cap GroupOps :
        /\ \A m \in Ancestors[n] : ~Pending(queue, m) /\ m # cur
        /\ n # cur => ~Pending(queue, n)

AtRest == phase # "run" => cur = NoOp /\ deferred = {} /\ ran = {}

IInv == Shape /\ Accounted /\ WaitersPending /\ AsideWaits /\ DoneAbove /\ AtRest

LEMMA GroupOpsAreOps == GroupOps \subseteq Op
BY DEF GroupOps, OpOf

LEMMA WaitingIsRange == Waiting = RangeOf(ready)
BY DEF Waiting, RangeOf

LEMMA WaitingIsRangeNext == Waiting' = RangeOf(ready')
BY DEF Waiting, RangeOf

LEMMA EmptyList == IsList(<<>>) /\ RangeOf(<<>>) = {} /\ NoDup(<<>>)
<1>1. IsList(<<>>)
  <2>1. <<>> \in Seq({})
    OBVIOUS
  <2> QED
    BY <2>1 DEF IsList
<1>2. DOMAIN <<>> = {}
  OBVIOUS
<1>3. RangeOf(<<>>) = {} /\ NoDup(<<>>)
  BY <1>2 DEF RangeOf, NoDup
<1> QED
  BY <1>1, <1>3

LEMMA SingletonList ==
    ASSUME NEW x
    PROVE  IsList(<<x>>)
<1>1. <<x>> \in Seq({x})
  OBVIOUS
<1> QED
  BY <1>1 DEF IsList

(* Nothing queued, nothing ready. *)
LEMMA NothingGoingOn ==
    ASSUME phase' \in {"idle", "scan", "run"},
           queue' = [n \in Op |-> <<>>], ready' = <<>>, deferred' = {}, cur' = NoOp,
           out' = <<>>, ran' = {}
    PROVE  IInv'
<1>1. \A n \in Op : queue'[n] = <<>>
  OBVIOUS
<1>2. DOMAIN queue' = Op
  OBVIOUS
<1>3. Waiting' = {}
  BY WaitingIsRangeNext, EmptyList
<1>4. Shape'
  BY <1>1, <1>2, EmptyList DEF Shape
<1> QED
  BY <1>1, <1>3, <1>4 DEF IInv, Accounted, WaitersPending, AsideWaits, DoneAbove, AtRest, Pending

LEMMA InitIInv == Init => IInv
<1> SUFFICES ASSUME Init PROVE IInv
  OBVIOUS
<1>1. \A n \in Op : queue[n] = <<>>
  BY DEF Init, Idle
<1>2. DOMAIN queue = Op
  BY DEF Init, Idle
<1>3. Waiting = {}
  BY WaitingIsRange, EmptyList DEF Init, Idle
<1>4. Shape
  BY <1>1, <1>2, EmptyList DEF Shape, Init, Idle
<1> QED
  BY <1>1, <1>3, <1>4 DEF Init, Idle, IInv, Accounted, WaitersPending, AsideWaits, DoneAbove, AtRest, Pending

(* What a work item leaves of the invariant's variables. *)
LEMMA ItemKeeps ==
    ASSUME IInv, phase = "run", cur \in Op, Pending(queue, cur),
           NEW rest, NEW emit, IsList(rest), IsList(emit),
           queue' = [queue EXCEPT ![cur] = rest \o Tail(queue[cur])],
           out' = out \o emit,
           UNCHANGED <<phase, ready, deferred, cur, ran>>
    PROVE  IInv'
<1>1. DOMAIN queue' = Op /\ (\A n \in Op : n # cur => queue'[n] = queue[n])
      /\ queue'[cur] = rest \o Tail(queue[cur])
  BY DEF IInv, Shape
<1>2. IsList(Tail(queue[cur]))
  <2>1. PICK S : queue[cur] \in Seq(S)
    BY DEF IInv, Shape, IsList
  <2>2. Tail(queue[cur]) \in Seq(S)
    BY <2>1 DEF Pending
  <2> QED
    BY <2>2 DEF IsList
<1>3. \A n \in Op : IsList(queue'[n])
  BY <1>1, <1>2, ConcatIsList DEF IInv, Shape
<1>4. IsList(out')
  BY ConcatIsList DEF IInv, Shape
<1>5. Shape'
  BY <1>1, <1>3, <1>4 DEF IInv, Shape
<1>6. Waiting' = Waiting
  BY DEF Waiting
<1>7. NoOp \notin Op
  BY NetworkAssumption
<1>8. Waiting \subseteq Op
  BY DEF Waiting, IInv, Shape
<1>9. Accounted'
  BY <1>1, <1>6 DEF IInv, Accounted, Pending
<1>10. WaitersPending'
  BY <1>1, <1>6, <1>8 DEF IInv, WaitersPending, Pending
<1>11. AsideWaits' /\ AtRest'
  BY <1>7 DEF AsideWaits, AtRest
<1>12. DoneAbove'
  BY <1>1, AncestorsClosed, GroupOpsAreOps DEF IInv, DoneAbove, Pending
<1> QED
  BY <1>5, <1>9, <1>10, <1>11, <1>12 DEF IInv

LEMMA UnchangedKeeps ==
    ASSUME IInv, UNCHANGED <<queue, ready, deferred, cur, out, ran>>,
           phase' \in {"idle", "scan", "run"}, phase' # "run" => phase # "run"
    PROVE  IInv'
BY DEF IInv, Shape, Accounted, WaitersPending, AsideWaits, DoneAbove, AtRest, Waiting, Pending, PendingAncestor

LEMMA IngestKeeps ==
    ASSUME IInv, NEW r, NEW k, NEW row, Ingest(r, k, row)
    PROVE  IInv'
<1> DEFINE xs == ScanDeltas(r, k, row)
           N  == {n \in ScansOf(r) : xs # <<>>}
<1>1. queue' = [n \in Op |-> IF n \in ScansOf(r) /\ xs # <<>> THEN queue[n] \o xs ELSE queue[n]]
  BY DEF Ingest
<1>2. PICK new \in Ascending(N \ Waiting) : ready' = ready \o new
  BY DEF Ingest
<1>3. IsList(xs)
  BY EmptyList, SingletonList, ConcatIsList DEF ScanDeltas
<1>4. N \subseteq Op
  BY DEF ScansOf, OpOf
<1> HIDE DEF xs
<1>5. /\ phase = "scan" /\ phase' = "scan" /\ cur = NoOp /\ cur' = NoOp
      /\ deferred = {} /\ deferred' = {} /\ ran = {} /\ ran' = {} /\ out' = out
  BY DEF Ingest, IInv, AtRest
<1>6. DOMAIN queue' = Op /\ \A n \in Op : queue'[n] = IF n \in N THEN queue[n] \o xs ELSE queue[n]
  BY <1>1
<1>7. \A n \in Op : IsList(queue'[n]) /\ (n \in N => Pending(queue', n)) /\ (Pending(queue, n) => Pending(queue', n))
  BY <1>3, <1>6, ConcatIsList DEF IInv, Shape, Pending
<1>8. /\ ready' \in Seq(Op) /\ NoDup(ready') /\ Waiting' = Waiting \cup N
  <2>1. new \in Seq(Op) /\ RangeOf(new) = N \ Waiting /\ NoDup(new)
    BY <1>2, <1>4, AscendingSeq
  <2>2. ready \in Seq(Op) /\ NoDup(ready) /\ RangeOf(ready) \cap RangeOf(new) = {}
    BY <2>1, WaitingIsRange DEF IInv, Shape
  <2>3. ready' \in Seq(Op) /\ NoDup(ready') /\ RangeOf(ready') = RangeOf(ready) \cup RangeOf(new)
    BY <1>2, <2>1, <2>2, AppendNew
  <2> QED
    BY <2>1, <2>3, WaitingIsRange, WaitingIsRangeNext
<1>9. Waiting \subseteq Op /\ NoOp \notin Op
  BY NetworkAssumption DEF Waiting, IInv, Shape
<1>10. Shape'
  BY <1>5, <1>6, <1>7, <1>8 DEF IInv, Shape
<1>11. Accounted'
  BY <1>5, <1>6, <1>8 DEF IInv, Accounted, Pending
<1>12. WaitersPending'
  BY <1>4, <1>5, <1>7, <1>8, <1>9 DEF IInv, WaitersPending
<1>13. AsideWaits' /\ DoneAbove' /\ AtRest'
  BY <1>5 DEF AsideWaits, DoneAbove, AtRest
<1> QED
  BY <1>10, <1>11, <1>12, <1>13 DEF IInv

LEMMA DeferKeeps ==
    ASSUME IInv, Defer
    PROVE  IInv'
<1>1. /\ phase = "run" /\ phase' = phase /\ cur = NoOp /\ cur' = NoOp /\ ready # <<>>
      /\ NextReady \in GroupOps /\ PendingAncestor(queue, NextReady)
      /\ ready' = Tail(ready) /\ deferred' = deferred \cup {NextReady}
      /\ queue' = queue /\ ran' = ran /\ out' = out
  BY DEF Defer
<1>2. /\ ready' \in Seq(Op) /\ NoDup(ready') /\ Waiting' = Waiting \ {NextReady}
  BY <1>1, TailOfList, WaitingIsRange, WaitingIsRangeNext DEF IInv, Shape, NextReady
<1>3. Shape'
  BY <1>1, <1>2 DEF IInv, Shape
<1>4. Accounted' /\ WaitersPending'
  BY <1>1, <1>2 DEF IInv, Accounted, WaitersPending, Pending
<1>6. DoneAbove'
  BY <1>1 DEF IInv, DoneAbove, Pending
<1>5. AsideWaits' /\ AtRest'
  BY <1>1 DEF IInv, AsideWaits, AtRest, PendingAncestor, Pending
<1> QED
  BY <1>3, <1>4, <1>5, <1>6 DEF IInv

(* A group operator that is given a slice has not had one. *)
LEMMA BeginFirst ==
    ASSUME IInv, Begin, NextReady \in GroupOps
    PROVE  NextReady \notin ran
<1>1. NextReady \in Waiting /\ cur = NoOp
  BY TailOfList, WaitingIsRange DEF Begin, NextReady, IInv, Shape
<1> QED
  BY <1>1, GroupOpsAreOps, NetworkAssumption DEF IInv, WaitersPending, DoneAbove

LEMMA BeginKeeps ==
    ASSUME IInv, Begin
    PROVE  IInv'
<1>1. /\ phase = "run" /\ phase' = phase /\ cur = NoOp /\ cur' = NextReady /\ ready # <<>>
      /\ ~(NextReady \in GroupOps /\ PendingAncestor(queue, NextReady))
      /\ ready' = Tail(ready) /\ deferred' = deferred
      /\ queue' = queue /\ ran' = ran \cup {NextReady} /\ out' = out
  BY DEF Begin
<1>2. /\ ready' \in Seq(Op) /\ NoDup(ready') /\ Waiting' = Waiting \ {NextReady} /\ NextReady \in Waiting
  BY <1>1, TailOfList, WaitingIsRange, WaitingIsRangeNext DEF IInv, Shape, NextReady
<1>3. Waiting \subseteq Op /\ NextReady \in Op /\ NoOp \notin Op
  BY <1>2, NetworkAssumption DEF Waiting, IInv, Shape
<1>4. Shape'
  BY <1>1, <1>2, <1>3 DEF IInv, Shape
<1>5. Accounted' /\ WaitersPending'
  BY <1>1, <1>2, <1>3 DEF IInv, Accounted, WaitersPending, Pending
<1>6. AsideWaits' /\ AtRest'
  BY <1>1, <1>3 DEF AsideWaits, AtRest
<1>7. DoneAbove'
  <2>1. ASSUME NEW n \in ran \cap GroupOps PROVE NextReady \notin Ancestors[n] /\ n # NextReady
    BY <1>2, <2>1, BeginFirst DEF IInv, WaitersPending, DoneAbove
  <2>2. ASSUME NEW n \in ran \cap GroupOps
        PROVE  /\ \A m \in Ancestors[n] : ~Pending(queue, m) /\ m # NextReady
               /\ ~Pending(queue, n)
    BY <1>1, <1>3, <2>1, GroupOpsAreOps DEF IInv, DoneAbove
  <2>3. NextReady \in GroupOps =>
          \A m \in Ancestors[NextReady] : ~Pending(queue, m) /\ m # NextReady
    <3>1. \A m \in Ancestors[NextReady] : m < NextReady /\ m \in Op
      BY <1>3, AncestorsBelow, AncestorsClosed
    <3>2. \A m \in Op : m \in Int
      BY NetworkAssumption DEF Op
    <3> QED
      BY <1>1, <1>3, <3>1, <3>2 DEF PendingAncestor
  <2> QED
    BY <1>1, <2>2, <2>3 DEF DoneAbove, Pending
<1> QED
  BY <1>4, <1>5, <1>6, <1>7 DEF IInv

LEMMA StepsKeep ==
    ASSUME IInv, \/ ScanStep \/ MapStep \/ FilterStep \/ JoinStep \/ AntiStep \/ ParentStep
                 \/ DistinctStep \/ UnionStep \/ GroupStep
    PROVE  IInv'
<1> DEFINE Working1 == phase = "run" /\ cur \in Op /\ Pending(queue, cur)
<1>0. \A kind : Working(kind) => Working1
  BY DEF Working, SliceLeft, OpOf
<1>a. ASSUME NEW rest, NEW emit, NEW side, IsList(rest), IsList(emit), Working1, Consume(rest, emit, side)
      PROVE  IInv'
  BY <1>a, ItemKeeps DEF Consume
<1>1. CASE ScanStep
  BY <1>0, <1>1, <1>a, EmptyList, SingletonList DEF ScanStep
<1>2. CASE MapStep
  BY <1>0, <1>2, <1>a, EmptyList, SingletonList DEF MapStep
<1>3. CASE FilterStep
  BY <1>0, <1>3, <1>a, EmptyList, SingletonList DEF FilterStep
<1>4. CASE JoinStep
  <2> DEFINE x == Current.x
             T == Touched(cur, Current)
             left == SideOf(cur, Current) = 1
             Pair(e) == IF left THEN Delta(x.sign, Merge(cur, x.t, e.t), Joined(cur, x.d, e.d))
                                ELSE Delta(x.sign, Merge(cur, e.t, x.t), Joined(cur, e.d, x.d))
             page(p, take) == SubSeq(p, 1, take)
             rest(p, take) == T \ {page(p, take)[i] : i \in DOMAIN page(p, take)}
             side == IF Current.fresh THEN Applied ELSE Same
  <2>1. PICK p \in Orders(T) : \E take \in {TakeCount(cur, Current)} \cap (0..Len(p)) :
          Consume(IF rest(p, take) = {} THEN <<>> ELSE <<Continuation(Current, rest(p, take))>>,
                  [i \in DOMAIN page(p, take) |-> Pair(page(p, take)[i])], side)
    BY <1>4 DEF JoinStep
  <2>2. PICK take \in 0..Len(p) :
          Consume(IF rest(p, take) = {} THEN <<>> ELSE <<Continuation(Current, rest(p, take))>>,
                  [i \in DOMAIN page(p, take) |-> Pair(page(p, take)[i])], side)
    BY <2>1
  <2>3. page(p, take) \in Seq(T)
    <3>1. p \in Seq(T)
      BY OrdersSeq
    <3> QED
      BY <3>1
  <2> DEFINE emit == [i \in DOMAIN page(p, take) |-> Pair(page(p, take)[i])]
             again == IF rest(p, take) = {} THEN <<>> ELSE <<Continuation(Current, rest(p, take))>>
  <2>4. IsList(emit)
    <3> HIDE DEF Pair, page
    <3>1. emit \in Seq({emit[i] : i \in DOMAIN page(p, take)})
      BY <2>3
    <3> QED
      BY <3>1 DEF IsList
  <2>5. IsList(again)
    BY EmptyList, SingletonList
  <2>6. Working1
    BY <1>0, <1>4 DEF JoinStep
  <2>7. Consume(again, emit, side)
    BY <2>2
  <2> HIDE DEF emit, again, side
  <2> QED
    BY <1>a, <2>4, <2>5, <2>6, <2>7
<1>5. CASE AntiStep
  <2> DEFINE x == Current.x
             changed == OldCount(cur, Current) # NewCount(cur, Current)
             one == IF changed /\ Opposite(cur, Current) = {} THEN <<Delta(x.sign, x.t, Unary(cur, x.d))>> ELSE <<>>
             sign == IF OldCount(cur, Current) = 0 THEN "-" ELSE "+"
             Emit(p) == [i \in DOMAIN p |-> Delta(sign, p[i].t, Unary(cur, p[i].d))]
             T == Touched(cur, Current)
  <2>1. Working1
    BY <1>0, <1>5 DEF AntiStep
  <2>2. CASE Consume(<<>>, one, Applied)
    <3>1. IsList(one)
      BY EmptyList, SingletonList
    <3> HIDE DEF one
    <3> QED
      BY <1>a, <2>1, <2>2, <3>1, EmptyList
  <2>3. CASE \E p \in Orders(T) : Consume(<<>>, Emit(p), Applied)
    <3>1. PICK p \in Orders(T) : Consume(<<>>, Emit(p), Applied)
      BY <2>3
    <3>2. IsList(Emit(p))
      <4>1. p \in Seq(T)
        BY OrdersSeq
      <4>2. Emit(p) \in Seq({Emit(p)[i] : i \in DOMAIN p})
        BY <4>1
      <4> QED
        BY <4>2 DEF IsList
    <3> HIDE DEF Emit
    <3> QED
      BY <1>a, <2>1, <3>1, <3>2, EmptyList
  <2> QED
    BY <1>5, <2>2, <2>3 DEF AntiStep
<1>6. CASE ParentStep
  <2> DEFINE x == Current.x
             old == OldCount(cur, Current)
             new == NewCount(cur, Current)
             Parent(e) == KeyOf(cur, 1, e.t)
             one == IF old # new
                    THEN <<Delta(x.sign, CountRow(Parent(x), Cardinality(Opposite(cur, Current))), Unary(cur, x.d))>>
                    ELSE <<>>
             At(p, i) == LET e == p[(i + 1) \div 2]
                         IN  IF i % 2 = 1 THEN Ret(CountRow(Parent(e), old), Unary(cur, e.d))
                                          ELSE Ins(CountRow(Parent(e), new), Unary(cur, e.d))
             Emit(p) == [i \in 1..(2 * Len(p)) |-> At(p, i)]
             T == Touched(cur, Current)
  <2>1. Working1
    BY <1>0, <1>6 DEF ParentStep
  <2>2. CASE Consume(<<>>, one, Applied)
    <3>1. IsList(one)
      BY EmptyList, SingletonList
    <3> HIDE DEF one
    <3> QED
      BY <1>a, <2>1, <2>2, <3>1, EmptyList
  <2>3. CASE \E p \in Orders(T) : Consume(<<>>, Emit(p), Applied)
    <3>1. PICK p \in Orders(T) : Consume(<<>>, Emit(p), Applied)
      BY <2>3
    <3>2. IsList(Emit(p))
      <4>1. p \in Seq(T)
        BY OrdersSeq
      <4>2. 2 * Len(p) \in Nat
        BY <4>1
      <4> HIDE DEF At
      <4>3. Emit(p) \in Seq({Emit(p)[i] : i \in 1..(2 * Len(p))})
        BY <4>2
      <4> QED
        BY <4>3 DEF IsList
    <3> HIDE DEF Emit
    <3> QED
      BY <1>a, <2>1, <3>1, <3>2, EmptyList
  <2>4. Consume(<<>>, one, Applied) \/ \E p \in Orders(T) : Consume(<<>>, Emit(p), Applied)
    BY <1>6 DEF ParentStep
  <2> QED
    BY <2>2, <2>3, <2>4
<1>7. CASE DistinctStep
  <2> DEFINE x == Current.x
             old == Supported(Same[1], x.t)
             new == Supported(Support(Same[1], x), x.t)
             one == IF (x.sign = "+" /\ old = 0) \/ (x.sign = "-" /\ old > 0 /\ new = 0)
                    THEN <<Delta(x.sign, x.t, Distinct(cur, x.t))>> ELSE <<>>
             side == [Same EXCEPT ![1] = Support(@, x)]
  <2>1. Working1 /\ Consume(<<>>, one, side)
    BY <1>0, <1>7 DEF DistinctStep
  <2>2. IsList(one)
    BY EmptyList, SingletonList
  <2> HIDE DEF one, side
  <2> QED
    BY <1>a, <2>1, <2>2, EmptyList
<1>8. CASE UnionStep
  BY <1>0, <1>8, <1>a, EmptyList DEF UnionStep
<1>9. CASE GroupStep
  <2>1. Working1
    BY <1>0, <1>9 DEF GroupStep
  <2>2. /\ queue' = [queue EXCEPT ![cur] = Tail(queue[cur])]
        /\ UNCHANGED <<phase, ready, deferred, cur, ran, out>>
    BY <1>9 DEF GroupStep
  <2>3. \E S : queue[cur] \in Seq(S)
    BY <2>1 DEF IInv, Shape, IsList
  <2>4. <<>> \o Tail(queue[cur]) = Tail(queue[cur])
    BY <2>1, <2>3 DEF Pending
  <2>5. \E S : out \in Seq(S)
    BY DEF IInv, Shape, IsList
  <2>6. out \o <<>> = out
    BY <2>5
  <2> QED
    BY <2>1, <2>2, <2>4, <2>6, EmptyList, ItemKeeps
<1> QED
  BY <1>1, <1>2, <1>3, <1>4, <1>5, <1>6, <1>7, <1>8, <1>9

LEMMA ReportKeeps ==
    ASSUME IInv, NEW b, Report(b)
    PROVE  IInv'
<1> DEFINE ch == Changed(b.row, RowNow(cur, b.k), Group(cur, b.k))
<1>1. out' = out \o ch /\ UNCHANGED <<phase, queue, ready, deferred, cur, ran>>
  BY DEF Report
<1>2. IsList(ch)
  BY EmptyList, SingletonList, ConcatIsList DEF Changed
<1> HIDE DEF ch
<1>3. IsList(out')
  BY <1>1, <1>2, ConcatIsList DEF IInv, Shape
<1>4. Shape'
  BY <1>1, <1>3 DEF IInv, Shape
<1> QED
  BY <1>1, <1>4 DEF IInv, Accounted, WaitersPending, AsideWaits, DoneAbove, AtRest, Waiting, Pending, PendingAncestor

(* What a slice hands on is a sequence. *)
LEMMA ProducedList ==
    ASSUME IsList(out), NEW ds \in Produced
    PROVE  IsList(ds)
<1>1. CASE Kind[cur] # "parent"
  BY <1>1 DEF Produced
<1>2. CASE Kind[cur] = "parent"
  <2>1. ds \in NetEffect(out)
    BY <1>2 DEF Produced
  <2>2. ASSUME NEW S, NEW p \in Orders(S), NEW sign
        PROVE  IsList(Signed(sign, p))
    <3>1. p \in Seq(S)
      BY OrdersSeq
    <3>2. Signed(sign, p) \in Seq({Signed(sign, p)[i] : i \in DOMAIN p})
      BY <3>1 DEF Signed
    <3> QED
      BY <3>2 DEF IsList
  <2>3. CASE \E pg \in Kept(out, "-", "+") \X Kept(out, "+", "-") : ds = Signed("-", pg[1]) \o Signed("+", pg[2])
    <3>1. PICK p \in Kept(out, "-", "+"), g \in Kept(out, "+", "-") : ds = Signed("-", p) \o Signed("+", g)
      BY <2>3
    <3>2. p \in Orders(Surplus(out, "-", "+")) /\ g \in Orders(Surplus(out, "+", "-"))
      BY DEF Kept
    <3> QED
      BY <2>2, <3>1, <3>2, ConcatIsList
  <2> QED
    BY <2>1, <2>3 DEF NetEffect
<1> QED
  BY <1>1, <1>2

LEMMA EndSliceKeeps ==
    ASSUME IInv, EndSlice
    PROVE  IInv'
<1>1. /\ phase = "run" /\ phase' = "run" /\ cur # NoOp /\ cur' = NoOp /\ ~SliceLeft
      /\ out' = <<>> /\ ran' = ran
  BY DEF EndSlice
<1>2. PICK ds \in Produced :
        /\ queue' = Delivered(ds)
        /\ \E p \in Ascending(FedBy(ds) \ Waiting) :
            \E w \in Ascending({n \in Woken(Delivered(ds)) : Pending(Delivered(ds), n)}
                                \ (Waiting \cup FedBy(ds) \cup {cur})) :
               ready' = ready \o p \o Again(Delivered(ds)) \o w
        /\ deferred' = deferred \ Woken(Delivered(ds))
  BY DEF EndSlice
<1> DEFINE F == FedBy(ds)
           W == {n \in Woken(queue') : Pending(queue', n)} \ (Waiting \cup F \cup {cur})
           A == IF Pending(queue', cur) THEN {cur} ELSE {}
<1>3. cur \in Op /\ Waiting \subseteq Op /\ NoOp \notin Op
  BY <1>1, NetworkAssumption DEF IInv, Shape, Waiting
<1>4. F \subseteq Op /\ cur \notin F /\ (ds = <<>> => F = {}) /\ F \subseteq Consumers(cur)
  BY <1>3, ConsumersBelow DEF FedBy
<1>5. DOMAIN queue' = Op /\ \A n \in Op : n \notin F => queue'[n] = queue[n]
  BY <1>2 DEF Delivered
<1>6. \A n \in Op : IsList(queue'[n]) /\ (n \in F => queue'[n] # <<>>)
  <2>1. IsList(ds)
    BY ProducedList DEF IInv, Shape
  <2> DEFINE items(n) == [i \in DOMAIN ds |-> Item(ds[i], SideFor(cur, n))]
  <2>2. ASSUME NEW n \in Op, ds # <<>> PROVE IsList(items(n)) /\ items(n) # <<>>
    <3>1. PICK S : ds \in Seq(S)
      BY <2>1 DEF IsList
    <3>2. items(n) \in Seq({items(n)[i] : i \in DOMAIN ds}) /\ DOMAIN items(n) = DOMAIN ds
      BY <3>1
    <3>3. 1 \in DOMAIN ds
      BY <3>1, <2>2
    <3> QED
      BY <3>2, <3>3 DEF IsList
  <2>3. ASSUME NEW n \in F PROVE queue'[n] = queue[n] \o items(n) /\ ds # <<>>
    BY <1>2, <1>4, <2>3 DEF Delivered
  <2> HIDE DEF items, F
  <2>4. ASSUME NEW n \in F PROVE IsList(queue'[n]) /\ queue'[n] # <<>>
    BY <1>4, <2>2, <2>3, ConcatIsList DEF IInv, Shape
  <2> QED
    BY <1>5, <2>4 DEF IInv, Shape
<1>7. deferred \subseteq Op /\ Woken(queue') \subseteq deferred
  BY GroupOpsAreOps DEF IInv, Shape, Woken
<1>8. PICK p \in Ascending(F \ Waiting), w \in Ascending(W) : ready' = ready \o p \o Again(queue') \o w
  BY <1>2
<1> HIDE DEF F, W
<1>9. ready' \in Seq(Op) /\ NoDup(ready') /\ Waiting' = Waiting \cup F \cup A \cup W
  <2>1. p \in Seq(Op) /\ RangeOf(p) = F \ Waiting /\ NoDup(p)
    BY <1>4, AscendingSeq
  <2>2. W \subseteq Op /\ W \cap (Waiting \cup F \cup {cur}) = {}
    BY <1>7 DEF W
  <2>3. w \in Seq(Op) /\ RangeOf(w) = W /\ NoDup(w)
    BY <2>2, AscendingSeq
  <2>4. Again(queue') \in Seq(Op) /\ RangeOf(Again(queue')) = A /\ NoDup(Again(queue'))
    <3>1. CASE Pending(queue', cur)
      <4>1. Again(queue') = <<cur>>
        BY <3>1 DEF Again
      <4>2. <<cur>> \in Seq(Op) /\ DOMAIN <<cur>> = 1..1 /\ <<cur>>[1] = cur
        BY <1>3
      <4>3. RangeOf(<<cur>>) = {cur} /\ NoDup(<<cur>>)
        BY <4>2 DEF RangeOf, NoDup
      <4> QED
        BY <3>1, <4>1, <4>2, <4>3
    <3>2. CASE ~Pending(queue', cur)
      <4>1. Again(queue') = <<>>
        BY <3>2 DEF Again
      <4>2. <<>> \in Seq(Op)
        OBVIOUS
      <4> QED
        BY <3>2, <4>1, <4>2, EmptyList
    <3> QED
      BY <3>1, <3>2
  <2>5. ready \in Seq(Op) /\ NoDup(ready) /\ RangeOf(ready) = Waiting /\ cur \notin Waiting
    BY WaitingIsRange DEF IInv, Shape, WaitersPending
  <2>6. /\ ready \o p \in Seq(Op) /\ NoDup(ready \o p) /\ RangeOf(ready \o p) = Waiting \cup F
    BY <2>1, <2>5, AppendNew
  <2>7. /\ (ready \o p) \o Again(queue') \in Seq(Op) /\ NoDup((ready \o p) \o Again(queue'))
        /\ RangeOf((ready \o p) \o Again(queue')) = Waiting \cup F \cup A
    <3>1. RangeOf(ready \o p) \cap RangeOf(Again(queue')) = {}
      BY <1>4, <2>4, <2>5, <2>6
    <3> HIDE DEF A
    <3> QED
      BY <2>4, <2>6, <3>1, AppendNew
  <2>8. /\ ready' \in Seq(Op) /\ NoDup(ready')
        /\ RangeOf(ready') = Waiting \cup F \cup A \cup W
    <3>1. RangeOf((ready \o p) \o Again(queue')) \cap RangeOf(w) = {}
      BY <2>2, <2>3, <2>7
    <3> HIDE DEF A
    <3> QED
      BY <1>8, <2>3, <2>7, <3>1, AppendNew
  <2> QED
    BY <2>8, WaitingIsRangeNext
<1>10. Shape'
  BY <1>1, <1>2, <1>5, <1>6, <1>9, EmptyList DEF IInv, Shape
<1>11. Accounted'
  <2>1. SUFFICES ASSUME NEW n \in Op, Pending(queue', n), n \notin F, n # cur, n \notin Waiting
                 PROVE  n \in deferred' \cup W
    BY <1>9 DEF Accounted
  <2>2. n \in deferred
    BY <1>5, <2>1 DEF IInv, Accounted, Pending
  <2> QED
    BY <1>2, <2>1, <2>2 DEF W
<1>12. WaitersPending'
  <2>1. \A n \in Waiting : Pending(queue', n)
    BY <1>3, <1>5, <1>6 DEF IInv, WaitersPending, Pending
  <2>2. \A n \in F \cup A \cup W : Pending(queue', n)
    BY <1>4, <1>6 DEF W, Pending
  <2>3. Waiting' \subseteq Op
    BY <1>9 DEF Waiting
  <2> QED
    BY <1>1, <1>3, <1>9, <2>1, <2>2, <2>3 DEF WaitersPending
<1>13. AsideWaits' /\ AtRest'
  BY <1>1, <1>2 DEF AsideWaits, AtRest, Woken, PendingAncestor, Pending
<1>14. DoneAbove'
  <2>1. SUFFICES ASSUME NEW n \in ran \cap GroupOps
                 PROVE  /\ \A m \in Ancestors[n] : ~Pending(queue', m) /\ m # NoOp
                        /\ ~Pending(queue', n)
    BY <1>1 DEF DoneAbove
  <2>2. n \in Op /\ Ancestors[n] \subseteq Op /\ cur \notin Ancestors[n]
    BY GroupOpsAreOps, AncestorsClosed DEF IInv, DoneAbove
  <2>3. n \notin F /\ Ancestors[n] \cap F = {}
    BY <1>3, <1>4, <2>2, ConsumersBelow
  <2>4. n = cur => ~Pending(queue, n)
    BY <1>1, <2>1 DEF SliceLeft
  <2> QED
    BY <1>3, <1>5, <2>1, <2>2, <2>3, <2>4 DEF IInv, DoneAbove, Pending
<1> QED
  BY <1>10, <1>11, <1>12, <1>13, <1>14 DEF IInv

LEMMA NextKeeps ==
    ASSUME IInv, [Next]_vars
    PROVE  IInv'
<1>1. CASE BatchStep
  <2>1. CASE BeginBatch \/ EndScan
    BY <2>1, UnchangedKeeps DEF BeginBatch, EndScan, loop
  <2>2. CASE \E r \in Rels, k \in Key : \E row \in Rows(r) \cup {NoRow} : Ingest(r, k, row)
    BY <2>2, IngestKeeps
  <2> QED
    BY <1>1, <2>1, <2>2 DEF BatchStep
<1>2. CASE LoopStep
  <2>1. CASE Defer
    BY <2>1, DeferKeeps
  <2>2. CASE Begin
    BY <2>2, BeginKeeps
  <2>3. CASE SliceStep
    BY <2>3, StepsKeep, ReportKeeps, EndSliceKeeps DEF SliceStep
  <2>4. CASE Publish \/ Exhausted \/ GroupRefused \/ UnionRefused
    BY <2>4, NothingGoingOn DEF Publish, Exhausted, GroupRefused, UnionRefused, Discard, BackToIdle
  <2> QED
    BY <1>2, <2>1, <2>2, <2>3, <2>4 DEF LoopStep
<1>3. CASE UNCHANGED vars
  BY <1>3, UnchangedKeeps DEF vars, loop, IInv, Shape
<1> QED
  BY <1>1, <1>2, <1>3 DEF Next

LEMMA Invariance == Spec => []IInv
BY InitIInv, NextKeeps, PTL DEF Spec

(* The loop of apply_chunk keeps its types: only operators of the program   *)
(* are scheduled and only group operators are put aside.                   *)
THEOREM TypeCorrect == Spec => []TypeOK
<1>1. IInv => TypeOK
  BY DEF IInv, Shape, TypeOK
<1> QED
  BY <1>1, Invariance, PTL

(* The least operator with pending work would have to be waiting. *)
LEMMA NothingLeft == IInv => NoDeltaLeftBehind
<1> SUFFICES ASSUME IInv, phase = "run", cur = NoOp, ready = <<>>, \E n \in Op : Pending(queue, n)
             PROVE  FALSE
  BY DEF NoDeltaLeftBehind, Pending
<1>1. PICK n \in Op : Pending(queue, n) /\ ~PendingAncestor(queue, n)
  BY LeastPending
<1>2. Waiting = {} /\ n # NoOp
  BY WaitingIsRange, EmptyList, NetworkAssumption
<1>3. n \in deferred
  BY <1>1, <1>2 DEF IInv, Accounted
<1> QED
  BY <1>1, <1>3 DEF IInv, AsideWaits

(* For every program, quantum and batch: when apply_chunk finds no ready    *)
(* operator, no operator has a delta left, the deferred ones included.     *)
THEOREM LoopDrains == Spec => []NoDeltaLeftBehind
BY NothingLeft, Invariance, PTL

(* For every program, quantum and batch: an operator that reports once per  *)
(* batch is given one slice per batch.                                     *)
THEOREM GroupsReportOnce == Spec => GroupsRunOnce
<1>1. IInv /\ [Next]_vars => [Begin /\ NextReady \in GroupOps => NextReady \notin ran]_vars
  BY BeginFirst
<1> QED
  BY <1>1, Invariance, PTL DEF Spec, GroupsRunOnce
-----------------------------------------------------------------------------
(* Numbers and lists. *)

LEMMA LeastNumber ==
    ASSUME NEW T \in SUBSET Nat, T # {}
    PROVE  \E x \in T : \A y \in T : x <= y
<1> DEFINE R == OpToRel(<, Nat)
<1>1. IsWellFoundedOn(R, Nat)
  BY NatLessThanWellFounded, Zenon
<1>2. PICK x \in T : \A y \in T : ~(<<y, x>> \in R)
  <2> HIDE DEF R
  <2> QED
    BY <1>1, WFMin, Zenon
<1>3. \A y \in T : ~(y < x)
  <2>1. \A y \in T : <<y, x>> \in Nat \X Nat /\ <<y, x>>[1] = y /\ <<y, x>>[2] = x
    OBVIOUS
  <2> QED
    BY <2>1, <1>2, Zenon DEF OpToRel
<1> QED
  BY <1>3

LEMMA NumberInduction ==
    ASSUME NEW S, 0 \in S, \A n \in Nat : n \in S => n + 1 \in S
    PROVE  \A n \in Nat : n \in S
<1> SUFFICES ASSUME Nat \ S # {} PROVE FALSE
  OBVIOUS
<1>1. PICK x \in Nat \ S : \A y \in Nat \ S : x <= y
  BY LeastNumber
<1>2. x - 1 \in Nat /\ x - 1 \in S
  BY <1>1
<1> QED
  BY <1>1, <1>2

(* What is true of an operator when it is true of its inputs is true of     *)
(* every operator.                                                         *)
LEMMA OpInduction ==
    ASSUME NEW S, \A n \in Op : (\A m \in Op : m < n => m \in S) => n \in S
    PROVE  Op \subseteq S
<1> SUFFICES ASSUME Op \ S # {} PROVE FALSE
  OBVIOUS
<1>1. Op \subseteq Nat
  BY NetworkAssumption DEF Op
<1>2. PICK x \in Op \ S : \A y \in Op \ S : x <= y
  BY <1>1, LeastNumber
<1> QED
  BY <1>1, <1>2

LEMMA ListFacts ==
    ASSUME NEW s, IsList(s)
    PROVE  Len(s) \in Nat /\ DOMAIN s = 1..Len(s) /\ (s = <<>> <=> Len(s) = 0)
<1>1. PICK S : s \in Seq(S)
  BY DEF IsList
<1> QED
  BY <1>1

LEMMA ListConcat ==
    ASSUME NEW s, NEW t, IsList(s), IsList(t)
    PROVE  /\ IsList(s \o t) /\ Len(s \o t) = Len(s) + Len(t)
           /\ \A i \in 1..Len(s) : (s \o t)[i] = s[i]
           /\ \A i \in 1..Len(t) : (s \o t)[Len(s) + i] = t[i]
           /\ \A i \in (Len(s) + 1)..(Len(s) + Len(t)) : (s \o t)[i] = t[i - Len(s)]
           /\ s \o <<>> = s /\ <<>> \o t = t
<1>1. PICK S : s \in Seq(S)
  BY DEF IsList
<1>2. PICK T : t \in Seq(T)
  BY DEF IsList
<1>3. s \in Seq(S \cup T) /\ t \in Seq(S \cup T)
  BY <1>1, <1>2
<1>4. IsList(s \o t)
  BY <1>3 DEF IsList
<1> QED
  BY <1>3, <1>4

LEMMA ListTail ==
    ASSUME NEW s, IsList(s), s # <<>>
    PROVE  /\ IsList(Tail(s)) /\ Len(Tail(s)) = Len(s) - 1 /\ Head(s) = s[1] /\ Len(s) \in Nat \ {0}
           /\ \A i \in 1..(Len(s) - 1) : Tail(s)[i] = s[i + 1]
<1>1. PICK S : s \in Seq(S)
  BY DEF IsList
<1>2. IsList(Tail(s))
  BY <1>1 DEF IsList
<1> QED
  BY <1>1, <1>2

LEMMA ListOne ==
    ASSUME NEW x
    PROVE  IsList(<<x>>) /\ Len(<<x>>) = 1 /\ <<x>>[1] = x /\ DOMAIN <<x>> = {1} /\ Len(<<>>) = 0
BY SingletonList

(* A function on 1..n is a list. *)
LEMMA MadeList ==
    ASSUME NEW n \in Nat, NEW s, DOMAIN s = 1..n, s = [i \in 1..n |-> s[i]]
    PROVE  IsList(s) /\ Len(s) = n
<1>1. PICK S : s \in [1..n -> S]
  <2>1. s \in [1..n -> {s[i] : i \in 1..n}]
    OBVIOUS
  <2> QED
    BY <2>1
<1>2. s \in Seq(S) /\ Len(s) = n
  BY <1>1
<1>3. IsList(s)
  BY <1>2, Zenon DEF IsList
<1> QED
  BY <1>2, <1>3

(* Lists with beginnings of one length are equal when both parts are.      *)
SameConcat(a, b, c, d) == a \o b = c \o d
LEMMA ConcatInjective ==
    ASSUME NEW a, NEW b, NEW c, NEW d, IsList(a), IsList(b), IsList(c), IsList(d), Len(a) = Len(c),
           SameConcat(a, b, c, d)
    PROVE  a = c /\ b = d
<1>1. /\ \A i \in 1..Len(a) : (a \o b)[i] = a[i]
      /\ \A i \in 1..Len(b) : (a \o b)[Len(a) + i] = b[i]
      /\ Len(a \o b) = Len(a) + Len(b)
  BY ListConcat
<1>2. /\ \A i \in 1..Len(c) : (c \o d)[i] = c[i]
      /\ \A i \in 1..Len(d) : (c \o d)[Len(c) + i] = d[i]
      /\ Len(c \o d) = Len(c) + Len(d)
  BY ListConcat
<1>9. a \o b = c \o d
  BY DEF SameConcat
<1>3. Len(a) \in Nat /\ Len(b) \in Nat /\ Len(c) \in Nat /\ Len(d) \in Nat
  BY ListFacts
<1>4. Len(b) = Len(d)
  BY <1>1, <1>2, <1>3, <1>9
<1>5. (\A i \in 1..Len(a) : a[i] = c[i]) /\ (\A i \in 1..Len(b) : b[i] = d[i])
  BY <1>1, <1>2, <1>4, <1>9
<1>8. \A S : \A p, q \in Seq(S) : Len(p) = Len(q) /\ (\A i \in 1..Len(p) : p[i] = q[i]) => p = q
  OBVIOUS
<1>6. PICK A, B, C, D : a \in Seq(A) /\ b \in Seq(B) /\ c \in Seq(C) /\ d \in Seq(D)
  BY DEF IsList
<1>7. a \in Seq(A \cup C) /\ c \in Seq(A \cup C) /\ b \in Seq(B \cup D) /\ d \in Seq(B \cup D)
  BY <1>6
<1> QED
  BY <1>4, <1>5, <1>7, <1>8
-----------------------------------------------------------------------------
(* Streams of deltas. *)

(* The number of leaves of an operator's derivations (leaf_counts), and     *)
(* what its derivations are rooted at.                                     *)
WidthAt(w, n) ==
    IF Kind[n] = "join" THEN w[Inputs[n][1]] + w[Inputs[n][2]]
    ELSE IF Kind[n] \in {"map", "filter", "anti", "parent"} THEN w[Inputs[n][1]] ELSE 1
IsWidth(w, N) == w \in [N -> Nat] /\ \A n \in N : w[n] = WidthAt(w, n)
Width == CHOOSE w : IsWidth(w, Op)
RootOf(m) == IF Kind[m] = "scan" THEN <<"base", Relation[m]>> ELSE <<"op", m>>
Formed(m, d) ==
    /\ d \in [root : {RootOf(m)}, leaves : {d.leaves}]
    /\ IsList(d.leaves) /\ Len(d.leaves) = Width[m]

(* One delta, as it may come: a derivation is inserted when it is absent,   *)
(* and what is retracted is there.                                         *)
Step(m, S, x, T) ==
    /\ Formed(m, x.d)
    /\ \/ x.sign = "+" /\ (\A e \in S : e.d # x.d) /\ T = S \cup {Entry(x)}
       \/ x.sign = "-" /\ Entry(x) \in S /\ T = S \ {Entry(x)}

Follows(m, h, s) == \A i \in 1..Len(s) : Step(m, h[i - 1], s[i], h[i])
Path(m, S, s, T) == \E h : h[0] = S /\ h[Len(s)] = T /\ Follows(m, h, s)

(* A set of rows is finite and has one row per derivation. *)
Tidy(m, S) ==
    /\ IsFiniteSet(S)
    /\ \A e \in S : Formed(m, e.d)
    /\ \A e, f \in S : e.d = f.d => e = f

(* No rows are tidy. *)
LEMMA TidyEmpty ==
    ASSUME NEW m
    PROVE  Tidy(m, {})
BY FS_EmptySet DEF Tidy

(* A delta keeps the rows tidy. *)
LEMMA StepTidy ==
    ASSUME NEW m, NEW S, NEW x, NEW T, Tidy(m, S), Step(m, S, x, T)
    PROVE  Tidy(m, T)
<1>1. Entry(x).d = x.d
  BY DEF Entry
<1>2. CASE T = S \cup {Entry(x)} /\ \A e \in S : e.d # x.d
  <2>1. IsFiniteSet(T)
    BY <1>2, FS_AddElement DEF Tidy
  <2> QED
    BY <1>1, <1>2, <2>1 DEF Tidy, Step
<1>3. CASE T = S \ {Entry(x)}
  <2>1. IsFiniteSet(T)
    BY <1>3, FS_RemoveElement DEF Tidy
  <2> QED
    BY <1>3, <2>1 DEF Tidy
<1> QED
  BY <1>2, <1>3 DEF Step

(* No deltas lead nowhere. *)
LEMMA PathNil ==
    ASSUME NEW m, NEW S, NEW T
    PROVE  Path(m, S, <<>>, T) <=> S = T
<1>1. Len(<<>>) = 0 /\ 1..0 = {}
  OBVIOUS
<1>2. ASSUME S = T PROVE Path(m, S, <<>>, T)
  <2> DEFINE h == [i \in {0} |-> S]
  <2>1. h[0] = S
    OBVIOUS
  <2> HIDE DEF h
  <2> QED
    BY <1>1, <1>2, <2>1 DEF Path, Follows
<1> QED
  BY <1>1, <1>2 DEF Path

(* One delta. *)
LEMMA PathOne ==
    ASSUME NEW m, NEW S, NEW x, NEW T, Step(m, S, x, T)
    PROVE  Path(m, S, <<x>>, T)
<1> DEFINE h == [i \in 0..1 |-> IF i = 0 THEN S ELSE T]
<1>1. h[0] = S /\ h[1] = T
  OBVIOUS
<1>2. Len(<<x>>) = 1 /\ <<x>>[1] = x /\ 1 - 1 = 0 /\ \A i \in 1..1 : i = 1
  OBVIOUS
<1> HIDE DEF h
<1> QED
  BY <1>1, <1>2 DEF Path, Follows

(* Deltas after deltas. *)
LEMMA PathConcat ==
    ASSUME NEW m, NEW S, NEW s, NEW T, NEW r, NEW U, IsList(s), IsList(r),
           Path(m, S, s, T), Path(m, T, r, U)
    PROVE  Path(m, S, s \o r, U)
<1>1. PICK g : g[0] = S /\ g[Len(s)] = T /\ Follows(m, g, s)
  BY DEF Path
<1>2. PICK f : f[0] = T /\ f[Len(r)] = U /\ Follows(m, f, r)
  BY DEF Path
<1> DEFINE a == Len(s)
           b == Len(r)
           h == [i \in 0..(a + b) |-> IF i <= a THEN g[i] ELSE f[i - a]]
<1>3. /\ a \in Nat /\ b \in Nat /\ Len(s \o r) = a + b
      /\ \A i \in 1..a : (s \o r)[i] = s[i]
      /\ \A i \in (a + 1)..(a + b) : (s \o r)[i] = r[i - a]
  BY ListConcat, ListFacts
<1>4. a - a = 0
  BY <1>3
<1> HIDE DEF a, b
<1>5. /\ \A i \in 0..a : h[i] = g[i]
      /\ \A i \in a..(a + b) : h[i] = f[i - a]
  <2>1. \A i \in 0..a : h[i] = g[i]
    BY <1>3
  <2>2. \A i \in (a + 1)..(a + b) : h[i] = f[i - a]
    BY <1>3
  <2>3. h[a] = f[a - a]
    BY <1>1, <1>2, <1>3, <1>4, <2>1 DEF a
  <2>4. \A i \in a..(a + b) : i = a \/ i \in (a + 1)..(a + b)
    BY <1>3
  <2> HIDE DEF h
  <2> QED
    BY <2>1, <2>2, <2>3, <2>4
<1> HIDE DEF h
<1>6. h[0] = S /\ h[a + b] = U
  <2>1. 0 \in 0..a /\ a + b \in a..(a + b) /\ (a + b) - a = b
    BY <1>3
  <2> QED
    BY <1>1, <1>2, <1>5, <2>1 DEF b
<1>7. ASSUME NEW i \in 1..(a + b) PROVE Step(m, h[i - 1], (s \o r)[i], h[i])
  <2>1. CASE i \in 1..a
    <3>1. i - 1 \in 0..a /\ i \in 0..a
      BY <1>3, <2>1
    <3>2. Step(m, g[i - 1], s[i], g[i])
      BY <1>1, <2>1 DEF Follows, a
    <3> QED
      BY <1>3, <1>5, <2>1, <3>1, <3>2
  <2>2. CASE i \in (a + 1)..(a + b)
    <3>1. i - 1 \in a..(a + b) /\ i \in a..(a + b) /\ i - a \in 1..b /\ (i - 1) - a = (i - a) - 1
      BY <1>3, <2>2
    <3>2. Step(m, f[(i - a) - 1], r[i - a], f[i - a])
      BY <1>2, <3>1 DEF Follows, b
    <3>3. h[i - 1] = f[(i - a) - 1] /\ h[i] = f[i - a] /\ (s \o r)[i] = r[i - a]
      BY <1>3, <1>5, <2>2, <3>1
    <3> QED
      BY <3>2, <3>3
  <2>3. i \in 1..a \/ i \in (a + 1)..(a + b)
    BY <1>3
  <2> QED
    BY <2>1, <2>2, <2>3
<1> QED
  BY <1>3, <1>6, <1>7 DEF Path, Follows

(* Deltas keep the rows tidy. *)
LEMMA PathTidy ==
    ASSUME NEW m, NEW S, NEW s, NEW T, IsList(s), Tidy(m, S), Path(m, S, s, T)
    PROVE  Tidy(m, T)
<1>1. PICK h : h[0] = S /\ h[Len(s)] = T /\ Follows(m, h, s)
  BY DEF Path
<1>2. Len(s) \in Nat
  BY ListFacts
<1> DEFINE N == {i \in Nat : i <= Len(s) => Tidy(m, h[i])}
<1>3. 0 \in N
  BY <1>1
<1>4. ASSUME NEW i \in Nat, i \in N PROVE i + 1 \in N
  <2>1. SUFFICES ASSUME i + 1 <= Len(s) PROVE Tidy(m, h[i + 1])
    OBVIOUS
  <2>2. i + 1 \in 1..Len(s) /\ (i + 1) - 1 = i /\ i <= Len(s)
    BY <1>2, <2>1
  <2>3. Step(m, h[i], s[i + 1], h[i + 1])
    BY <1>1, <2>2 DEF Follows
  <2> QED
    BY <1>4, <2>2, <2>3, StepTidy
<1>5. \A i \in Nat : i \in N
  <2> HIDE DEF N
  <2> QED
    BY <1>3, <1>4, NumberInduction
<1> QED
  BY <1>1, <1>2, <1>5

(* Insertions of new derivations, in any order. *)
LEMMA PathInsert ==
    ASSUME NEW m, NEW S, NEW s, IsList(s),
           \A i \in 1..Len(s) : s[i].sign = "+" /\ Formed(m, s[i].d) /\ \A e \in S : e.d # s[i].d,
           \A i, j \in 1..Len(s) : s[i].d = s[j].d => i = j
    PROVE  Path(m, S, s, S \cup {Entry(s[i]) : i \in 1..Len(s)})
<1> DEFINE a == Len(s)
           U(i) == {Entry(s[j]) : j \in 1..i}
           h == [i \in 0..a |-> S \cup U(i)]
<1>1. a \in Nat
  BY ListFacts
<1>2. \A i \in 0..a : h[i] = S \cup U(i)
  OBVIOUS
<1> HIDE DEF h
<1>3. h[0] = S
  <2>1. 0 \in 0..a /\ 1..0 = {}
    BY <1>1
  <2>2. U(0) = {}
    BY <2>1
  <2> HIDE DEF U
  <2>3. h[0] = S \cup U(0)
    BY <1>2, <2>1
  <2> QED
    BY <2>2, <2>3, Zenon
<1>4. h[a] = S \cup {Entry(s[i]) : i \in 1..a}
  <2>1. a \in 0..a
    BY <1>1
  <2> QED
    BY <1>2, <2>1
<1>5. ASSUME NEW i \in 1..a PROVE Step(m, h[i - 1], s[i], h[i])
  <2>1. i - 1 \in 0..a /\ i \in 0..a /\ 1..i = (1..(i - 1)) \cup {i} /\ (\A j \in 1..(i - 1) : j \in 1..a /\ j # i)
    BY <1>1
  <2>2. h[i - 1] = S \cup U(i - 1) /\ h[i] = S \cup U(i)
    <3> HIDE DEF U
    <3> QED
      BY <1>2, <2>1
  <2>3. h[i] = h[i - 1] \cup {Entry(s[i])}
    BY <2>1, <2>2
  <2>4. \A e \in h[i - 1] : e.d # s[i].d
    <3>1. \A j \in 1..(i - 1) : Entry(s[j]).d = s[j].d
      BY DEF Entry
    <3>2. \A j \in 1..(i - 1) : Entry(s[j]).d # s[i].d
      BY <2>1, <3>1
    <3> QED
      BY <2>2, <3>2
  <2> QED
    BY <2>3, <2>4 DEF Step
<1> QED
  BY <1>3, <1>4, <1>5 DEF Path, Follows

(* Retractions of what is there, in any order. *)
LEMMA PathRetract ==
    ASSUME NEW m, NEW S, NEW s, IsList(s),
           \A i \in 1..Len(s) : s[i].sign = "-" /\ Formed(m, s[i].d) /\ Entry(s[i]) \in S,
           \A i, j \in 1..Len(s) : s[i].d = s[j].d => i = j
    PROVE  Path(m, S, s, S \ {Entry(s[i]) : i \in 1..Len(s)})
<1> DEFINE a == Len(s)
           U(i) == {Entry(s[j]) : j \in 1..i}
           h == [i \in 0..a |-> S \ U(i)]
<1>1. a \in Nat
  BY ListFacts
<1>2. \A i \in 0..a : h[i] = S \ U(i)
  OBVIOUS
<1> HIDE DEF h
<1>3. h[0] = S
  <2>1. 0 \in 0..a /\ 1..0 = {}
    BY <1>1
  <2>2. U(0) = {}
    BY <2>1
  <2> HIDE DEF U
  <2> QED
    BY <1>2, <2>1, <2>2
<1>4. h[a] = S \ {Entry(s[i]) : i \in 1..a}
  <2>1. a \in 0..a
    BY <1>1
  <2> QED
    BY <1>2, <2>1
<1>5. ASSUME NEW i \in 1..a PROVE Step(m, h[i - 1], s[i], h[i])
  <2>1. i - 1 \in 0..a /\ i \in 0..a /\ 1..i = (1..(i - 1)) \cup {i} /\ (\A j \in 1..(i - 1) : j \in 1..a /\ j # i)
    BY <1>1
  <2>2. h[i - 1] = S \ U(i - 1) /\ h[i] = S \ U(i)
    <3> HIDE DEF U
    <3> QED
      BY <1>2, <2>1
  <2>3. h[i] = h[i - 1] \ {Entry(s[i])}
    BY <2>1, <2>2
  <2>4. Entry(s[i]) \in h[i - 1]
    <3>1. \A j \in 1..a : Entry(s[j]).d = s[j].d
      BY DEF Entry
    <3>2. \A j \in 1..(i - 1) : Entry(s[j]) # Entry(s[i])
      BY <2>1, <3>1
    <3> QED
      BY <2>2, <3>2
  <2> QED
    BY <2>3, <2>4 DEF Step
<1> QED
  BY <1>3, <1>4, <1>5 DEF Path, Follows

(* A stored relation ends where the stream ends. *)
LEMMA StoredIs ==
    ASSUME NEW m, NEW S, NEW s, NEW T, IsList(s), Path(m, S, s, T)
    PROVE  Stored(S, s) = T
<1> DEFINE a == Len(s)
           At(f) == f = [i \in 0..a |-> IF i = 0 THEN S ELSE Support(f[i - 1], s[i])]
           at == CHOOSE f : At(f)
<1>1. PICK h : h[0] = S /\ h[a] = T /\ Follows(m, h, s)
  BY DEF Path
<1>2. a \in Nat
  BY ListFacts
<1>3. \A i \in 1..a : h[i] = Support(h[i - 1], s[i])
  BY <1>1 DEF Follows, Step, Support
<1>4. Stored(S, s) = at[a]
  BY DEF Stored
<1> DEFINE g == [i \in 0..a |-> h[i]]
<1>5. At(g)
  <2>1. \A i \in 0..a : i = 0 \/ (i \in 1..a /\ i - 1 \in 0..a)
    BY <1>2
  <2>2. \A i \in 0..a : g[i] = IF i = 0 THEN S ELSE Support(g[i - 1], s[i])
    BY <1>1, <1>3, <2>1
  <2>3. g = [i \in 0..a |-> g[i]]
    OBVIOUS
  <2> HIDE DEF g
  <2> QED
    BY <2>2, <2>3, Zenon
<1>6. At(at)
  <2> HIDE DEF At
  <2> QED
    BY <1>5
<1>7. \A i \in 0..a : at[i] = IF i = 0 THEN S ELSE Support(at[i - 1], s[i])
  <2> HIDE DEF at
  <2> QED
    BY <1>6
<1> HIDE DEF at, At, g
<1> DEFINE N == {i \in Nat : i <= a => at[i] = h[i]}
<1>8. 0 \in N
  <2>1. 0 \in 0..a
    BY <1>2
  <2> QED
    BY <1>1, <1>7, <2>1
<1>9. ASSUME NEW i \in Nat, i \in N PROVE i + 1 \in N
  <2>1. SUFFICES ASSUME i + 1 <= a PROVE at[i + 1] = h[i + 1]
    OBVIOUS
  <2>2. i + 1 \in 1..a /\ (i + 1) - 1 = i /\ i <= a /\ i + 1 \in 0..a /\ i + 1 # 0
    BY <1>2, <2>1
  <2>3. at[i + 1] = Support(at[i], s[i + 1]) /\ h[i + 1] = Support(h[i], s[i + 1])
    BY <1>3, <1>7, <2>2
  <2> QED
    BY <1>9, <2>2, <2>3
<1>10. \A i \in Nat : i \in N
  <2> HIDE DEF N
  <2> QED
    BY <1>8, <1>9, NumberInduction
<1> QED
  BY <1>1, <1>2, <1>4, <1>10

(* A listing names each element of its set once. *)
LEMMA OrdersFacts ==
    ASSUME NEW X, NEW p \in Orders(X)
    PROVE  /\ IsList(p) /\ Len(p) \in Nat /\ DOMAIN p = 1..Len(p)
           /\ \A i \in 1..Len(p) : p[i] \in X
           /\ \A x \in X : \E i \in 1..Len(p) : p[i] = x
           /\ \A i, j \in 1..Len(p) : p[i] = p[j] => i = j
<1>1. p \in Seq(X)
  BY OrdersSeq
<1>2. IsList(p) /\ Len(p) \in Nat /\ DOMAIN p = 1..Len(p)
  BY <1>1 DEF IsList
<1> QED
  BY <1>2 DEF Orders

(* What a stream does to an entry is the balance of its signs. *)
In(e, S) == IF e \in S THEN 1 ELSE 0
SignedUpTo(s, sign, e, i) == {j \in 1..i : s[j].sign = sign /\ Entry(s[j]) = e}
(* Of one entry, insertions and retractions alternate, so their difference *)
(* says whether it came or went.                                           *)
LEMMA Balance ==
    ASSUME NEW m, NEW S, NEW s, NEW T, IsList(s), Path(m, S, s, T), NEW e
    PROVE  /\ Times(s, "+", e) \in Nat /\ Times(s, "-", e) \in Nat
           /\ Times(s, "+", e) - Times(s, "-", e) = In(e, T) - In(e, S)
           /\ Times(s, "+", e) > 0 \/ Times(s, "-", e) > 0 => e \in {Entry(s[i]) : i \in DOMAIN s}
<1> DEFINE a == Len(s)
           A(i) == SignedUpTo(s, "+", e, i)
           B(i) == SignedUpTo(s, "-", e, i)
<1>1. PICK h : h[0] = S /\ h[a] = T /\ Follows(m, h, s)
  BY DEF Path
<1>2. a \in Nat /\ DOMAIN s = 1..a
  BY ListFacts
<1> DEFINE Good(i) == /\ IsFiniteSet(A(i)) /\ IsFiniteSet(B(i))
                      /\ Cardinality(A(i)) - Cardinality(B(i)) = In(e, h[i]) - In(e, S)
           N == {i \in Nat : i <= a => Good(i)}
<1>3. 0 \in N
  <2>1. A(0) = {} /\ B(0) = {}
    BY DEF SignedUpTo
  <2> HIDE DEF A, B
  <2>2. Cardinality(A(0)) = 0 /\ Cardinality(B(0)) = 0 /\ IsFiniteSet(A(0)) /\ IsFiniteSet(B(0))
    BY <2>1, FS_EmptySet
  <2>3. In(e, h[0]) = In(e, S) /\ In(e, S) \in Int
    BY <1>1 DEF In
  <2> QED
    BY <2>2, <2>3
<1>4. ASSUME NEW i \in Nat, i \in N PROVE i + 1 \in N
  <2>1. SUFFICES ASSUME i + 1 <= a PROVE Good(i + 1)
    OBVIOUS
  <2>2. i + 1 \in 1..a /\ (i + 1) - 1 = i /\ i <= a /\ 1..(i + 1) = (1..i) \cup {i + 1} /\ i + 1 \notin 1..i
    BY <1>2, <2>1
  <2>3. Step(m, h[i], s[i + 1], h[i + 1])
    BY <1>1, <2>2 DEF Follows
  <2>4. Good(i)
    BY <1>4, <2>2
  <2>5. Cardinality(A(i)) \in Nat /\ Cardinality(B(i)) \in Nat
    <3> HIDE DEF A, B
    <3> QED
      BY <2>4, FS_CardinalityType
  <2>6. i + 1 \notin A(i) /\ i + 1 \notin B(i)
    BY <2>2 DEF SignedUpTo
  <2>7. CASE Entry(s[i + 1]) # e
    <3>1. A(i + 1) = A(i) /\ B(i + 1) = B(i)
      BY <2>2, <2>7 DEF SignedUpTo
    <3>2. In(e, h[i + 1]) = In(e, h[i])
      BY <2>3, <2>7 DEF Step, In
    <3> HIDE DEF A, B
    <3> QED
      BY <2>4, <3>1, <3>2
  <2>8. CASE Entry(s[i + 1]) = e /\ s[i + 1].sign = "+"
    <3>1. A(i + 1) = A(i) \cup {i + 1} /\ B(i + 1) = B(i)
      BY <2>2, <2>8 DEF SignedUpTo
    <3>2. In(e, h[i + 1]) = 1 /\ In(e, h[i]) = 0
      <4>1. Entry(s[i + 1]).d = s[i + 1].d
        BY DEF Entry
      <4> QED
        BY <2>3, <2>8, <4>1 DEF Step, In
    <3> HIDE DEF A, B
    <3>3. IsFiniteSet(A(i + 1)) /\ Cardinality(A(i + 1)) = Cardinality(A(i)) + 1
      BY <2>4, <2>6, <3>1, FS_AddElement
    <3> QED
      BY <2>4, <2>5, <3>1, <3>2, <3>3 DEF In
  <2>9. CASE Entry(s[i + 1]) = e /\ s[i + 1].sign = "-"
    <3>1. B(i + 1) = B(i) \cup {i + 1} /\ A(i + 1) = A(i)
      BY <2>2, <2>9 DEF SignedUpTo
    <3>2. In(e, h[i + 1]) = 0 /\ In(e, h[i]) = 1
      BY <2>3, <2>9 DEF Step, In
    <3> HIDE DEF A, B
    <3>3. IsFiniteSet(B(i + 1)) /\ Cardinality(B(i + 1)) = Cardinality(B(i)) + 1
      BY <2>4, <2>6, <3>1, FS_AddElement
    <3> QED
      BY <2>4, <2>5, <3>1, <3>2, <3>3 DEF In
  <2> QED
    BY <2>3, <2>7, <2>8, <2>9 DEF Step
<1>5. \A i \in Nat : i \in N
  <2> HIDE DEF N
  <2> QED
    BY <1>3, <1>4, NumberInduction
<1>6. Good(a)
  BY <1>2, <1>5
<1>7. Times(s, "+", e) = Cardinality(A(a)) /\ Times(s, "-", e) = Cardinality(B(a))
  BY <1>2 DEF Times, SignedUpTo
<1>8. Cardinality(A(a)) \in Nat /\ Cardinality(B(a)) \in Nat
      /\ (Cardinality(A(a)) > 0 => A(a) # {}) /\ (Cardinality(B(a)) > 0 => B(a) # {})
  <2> HIDE DEF A, B
  <2> QED
    BY <1>6, FS_CardinalityType, FS_EmptySet
<1>9. A(a) # {} \/ B(a) # {} => e \in {Entry(s[i]) : i \in DOMAIN s}
  BY <1>2 DEF SignedUpTo
<1> HIDE DEF A, B
<1> QED
  BY <1>1, <1>6, <1>7, <1>8, <1>9

(* What net_effect keeps is what really came and what really went. *)
LEMMA SurplusIs ==
    ASSUME NEW m, NEW S, NEW s, NEW T, IsList(s), Path(m, S, s, T)
    PROVE  Surplus(s, "+", "-") = T \ S /\ Surplus(s, "-", "+") = S \ T
<1>1. ASSUME NEW e
      PROVE  /\ Times(s, "+", e) > Times(s, "-", e) <=> (e \in T /\ e \notin S)
             /\ Times(s, "-", e) > Times(s, "+", e) <=> (e \in S /\ e \notin T)
             /\ Times(s, "+", e) # Times(s, "-", e) => e \in {Entry(s[i]) : i \in DOMAIN s}
  <2>1. /\ Times(s, "+", e) \in Nat /\ Times(s, "-", e) \in Nat
        /\ Times(s, "+", e) - Times(s, "-", e) = In(e, T) - In(e, S)
        /\ Times(s, "+", e) > 0 \/ Times(s, "-", e) > 0 => e \in {Entry(s[i]) : i \in DOMAIN s}
    BY Balance
  <2>2. /\ Times(s, "+", e) > Times(s, "-", e) <=> (e \in T /\ e \notin S)
        /\ Times(s, "-", e) > Times(s, "+", e) <=> (e \in S /\ e \notin T)
    BY <2>1 DEF In
  <2> QED
    BY <2>1, <2>2
<1>2. \A e : /\ Times(s, "+", e) > Times(s, "-", e) <=> (e \in T /\ e \notin S)
             /\ Times(s, "-", e) > Times(s, "+", e) <=> (e \in S /\ e \notin T)
  BY <1>1
<1>3. \A e : (e \in T /\ e \notin S) \/ (e \in S /\ e \notin T) => e \in {Entry(s[i]) : i \in DOMAIN s}
  <2>1. ASSUME NEW e, (e \in T /\ e \notin S) \/ (e \in S /\ e \notin T)
        PROVE  e \in {Entry(s[i]) : i \in DOMAIN s}
    <3>1. Times(s, "+", e) \in Nat /\ Times(s, "-", e) \in Nat
      BY Balance
    <3>2. Times(s, "+", e) # Times(s, "-", e)
      BY <1>2, <2>1, <3>1
    <3> QED
      BY <1>1, <3>2
  <2> QED
    BY <2>1
<1> DEFINE E == {Entry(s[i]) : i \in DOMAIN s}
<1>4. Surplus(s, "+", "-") = {e \in E : Times(s, "+", e) > Times(s, "-", e)}
      /\ Surplus(s, "-", "+") = {e \in E : Times(s, "-", e) > Times(s, "+", e)}
  BY DEF Surplus
<1>5. \A e : (e \in T /\ e \notin S) \/ (e \in S /\ e \notin T) => e \in E
  BY <1>3
<1> HIDE DEF E
<1> QED
  BY <1>2, <1>4, <1>5

(* Signs given to the members of a set, one by one. *)
IsEntry(e) == e = [t |-> e.t, d |-> e.d]
(* A listing turned into deltas of one sign. *)
LEMMA SignedFacts ==
    ASSUME NEW X, NEW p \in Orders(X), NEW sign, \A x \in X : IsEntry(x)
    PROVE  /\ IsList(Signed(sign, p)) /\ Len(Signed(sign, p)) = Len(p)
           /\ \A i \in 1..Len(p) : /\ Signed(sign, p)[i].sign = sign /\ Signed(sign, p)[i].d = p[i].d
                                   /\ Entry(Signed(sign, p)[i]) = p[i]
           /\ {Entry(Signed(sign, p)[i]) : i \in 1..Len(Signed(sign, p))} = X
<1>1. /\ Len(p) \in Nat /\ DOMAIN p = 1..Len(p) /\ (\A i \in 1..Len(p) : p[i] \in X)
      /\ \A x \in X : \E i \in 1..Len(p) : p[i] = x
  BY OrdersFacts
<1> DEFINE q == Signed(sign, p)
<1>2. q = [i \in 1..Len(p) |-> Delta(sign, p[i].t, p[i].d)]
  BY <1>1 DEF Signed
<1>3. DOMAIN q = 1..Len(p) /\ \A i \in 1..Len(p) : q[i] = Delta(sign, p[i].t, p[i].d)
  BY <1>2
<1>4. q = [i \in 1..Len(p) |-> q[i]]
  BY <1>2
<1> HIDE DEF q
<1>5. IsList(q) /\ Len(q) = Len(p)
  BY <1>1, <1>3, <1>4, MadeList
<1>6. \A i \in 1..Len(p) : q[i].sign = sign /\ q[i].t = p[i].t /\ q[i].d = p[i].d
  BY <1>3 DEF Delta
<1>7. \A i \in 1..Len(p) : Entry(q[i]) = [t |-> p[i].t, d |-> p[i].d]
  BY <1>6 DEF Entry
<1>8. \A i \in 1..Len(p) : Entry(q[i]) = p[i]
  BY <1>1, <1>7, Zenon DEF IsEntry
<1>9. {Entry(q[i]) : i \in 1..Len(p)} = X
  BY <1>1, <1>8
<1> QED
  BY <1>5, <1>6, <1>8, <1>9 DEF q

(* net_effect leads from and to the same rows. *)
LEMMA NetEffectPath ==
    ASSUME NEW m, NEW S, NEW s, NEW T, NEW r, IsList(s), Tidy(m, S), Path(m, S, s, T), r \in NetEffect(s)
    PROVE  IsList(r) /\ Path(m, S, r, T)
<1>1. CASE r = s
  BY <1>1
<1>2. CASE \E pg \in Kept(s, "-", "+") \X Kept(s, "+", "-") : r = Signed("-", pg[1]) \o Signed("+", pg[2])
  <2>1. PICK p \in Kept(s, "-", "+"), g \in Kept(s, "+", "-") : r = Signed("-", p) \o Signed("+", g)
    BY <1>2
  <2>2. Surplus(s, "+", "-") = T \ S /\ Surplus(s, "-", "+") = S \ T
    BY SurplusIs
  <2>3. p \in Orders(S \ T) /\ g \in Orders(T \ S)
    BY <2>1, <2>2 DEF Kept
  <2>4. \A e \in (S \ T) \cup (T \ S) : IsEntry(e)
    <3>1. \A e \in (S \ T) \cup (T \ S) : \E i \in DOMAIN s : e = Entry(s[i])
      BY <2>2 DEF Surplus
    <3>2. \A x : IsEntry(Entry(x))
      BY DEF Entry, IsEntry
    <3> QED
      BY <3>1, <3>2, Zenon
  <2>5. Tidy(m, T)
    BY PathTidy
  <2> DEFINE X == S \ T
             Y == T \ S
  <2>13. (\A e \in X : IsEntry(e)) /\ (\A e \in Y : IsEntry(e)) /\ p \in Orders(X) /\ g \in Orders(Y)
    BY <2>3, <2>4
  <2> HIDE DEF X, Y
  <2> DEFINE u == Signed("-", p)
             v == Signed("+", g)
  <2>6. /\ IsList(u) /\ Len(u) = Len(p) /\ {Entry(u[i]) : i \in 1..Len(u)} = X
        /\ \A i \in 1..Len(p) : u[i].sign = "-" /\ u[i].d = p[i].d /\ Entry(u[i]) = p[i]
    BY <2>13, SignedFacts
  <2>7. /\ IsList(v) /\ Len(v) = Len(g) /\ {Entry(v[i]) : i \in 1..Len(v)} = Y
        /\ \A i \in 1..Len(g) : v[i].sign = "+" /\ v[i].d = g[i].d /\ Entry(v[i]) = g[i]
    BY <2>13, SignedFacts
  <2> HIDE DEF u, v
  <2>8. /\ \A i \in 1..Len(p) : p[i] \in S \ T
        /\ \A i, j \in 1..Len(p) : p[i] = p[j] => i = j
        /\ \A i \in 1..Len(g) : g[i] \in T \ S
        /\ \A i, j \in 1..Len(g) : g[i] = g[j] => i = j
    BY <2>3, OrdersFacts
  <2>9. Path(m, S, u, S \ (S \ T))
    <3>1. \A i \in 1..Len(u) : u[i].sign = "-" /\ Formed(m, u[i].d) /\ Entry(u[i]) \in S
      BY <2>6, <2>8 DEF Tidy
    <3>2. \A i, j \in 1..Len(u) : u[i].d = u[j].d => i = j
      BY <2>6, <2>8 DEF Tidy
    <3>3. Path(m, S, u, S \ {Entry(u[i]) : i \in 1..Len(u)})
      BY <2>6, <3>1, <3>2, PathRetract
    <3> QED
      BY <2>6, <3>3 DEF X
  <2>10. Path(m, S \ (S \ T), v, (S \ (S \ T)) \cup (T \ S))
    <3> DEFINE C == S \ (S \ T)
    <3>1. \A i \in 1..Len(v) : v[i].sign = "+" /\ Formed(m, v[i].d) /\ \A e \in C : e.d # v[i].d
      BY <2>5, <2>7, <2>8 DEF Tidy
    <3>2. \A i, j \in 1..Len(v) : v[i].d = v[j].d => i = j
      BY <2>5, <2>7, <2>8 DEF Tidy
    <3> HIDE DEF C
    <3>3. Path(m, C, v, C \cup {Entry(v[i]) : i \in 1..Len(v)})
      BY <2>7, <3>1, <3>2, PathInsert
    <3> QED
      BY <2>7, <3>3 DEF C, Y
  <2>11. (S \ (S \ T)) \cup (T \ S) = T
    OBVIOUS
  <2>12. Path(m, S, u \o v, T)
    BY <2>6, <2>7, <2>9, <2>10, <2>11, PathConcat
  <2> QED
    BY <2>1, <2>6, <2>7, <2>12, ListConcat DEF u, v
<1> QED
  BY <1>1, <1>2 DEF NetEffect
-----------------------------------------------------------------------------
(* The queue of an operator leads from the rows it has worked in to the     *)
(* rows its inputs have delivered.                                         *)

Sides(n) == IF n \in TwoSided THEN {1, 2} ELSE {1}
Lane(n, it) == IF n \in TwoSided THEN SideOf(n, it) ELSE 1
Source(n, i) == IF Kind[n] = "scan" THEN n ELSE Inputs[n][i]

Move(n, P, it, Q) ==
    /\ it.fresh
    /\ Lane(n, it) \in Sides(n)
    /\ Step(Source(n, Lane(n, it)), P[Lane(n, it)], it.x, Q[Lane(n, it)])
    /\ \A i \in Sides(n) : i # Lane(n, it) => Q[i] = P[i]

Agree(n, P, Q) == \A i \in Sides(n) : P[i] = Q[i]
Run(n, P, q, Q) ==
    \E h : /\ Agree(n, h[0], P) /\ Agree(n, h[Len(q)], Q)
           /\ \A j \in 1..Len(q) : Move(n, h[j - 1], q[j], h[j])

(* Only the lanes an operator has matter to a work item, *)
LEMMA MoveAgrees ==
    ASSUME NEW n, NEW P, NEW P2, NEW it, NEW Q, NEW Q2, Move(n, P, it, Q), Agree(n, P, P2), Agree(n, Q, Q2)
    PROVE  Move(n, P2, it, Q2)
<1> DEFINE i == Lane(n, it)
<1>1. i \in Sides(n) /\ P[i] = P2[i] /\ Q[i] = Q2[i]
  BY DEF Move, Agree
<1>2. Step(Source(n, i), P2[i], it.x, Q2[i])
  BY <1>1 DEF Move
<1>3. \A j \in Sides(n) : j # i => Q2[j] = P2[j]
  BY DEF Move, Agree
<1> QED
  BY <1>1, <1>2, <1>3 DEF Move

(* and to a queue. *)
LEMMA RunAgrees ==
    ASSUME NEW n, NEW P, NEW P2, NEW q, NEW Q, NEW Q2, Run(n, P, q, Q), Agree(n, P, P2), Agree(n, Q, Q2)
    PROVE  Run(n, P2, q, Q2)
<1>1. PICK h : /\ Agree(n, h[0], P) /\ Agree(n, h[Len(q)], Q)
               /\ \A j \in 1..Len(q) : Move(n, h[j - 1], q[j], h[j])
  BY DEF Run
<1>2. Agree(n, h[0], P2) /\ Agree(n, h[Len(q)], Q2)
  BY <1>1 DEF Agree
<1> QED
  BY <1>1, <1>2 DEF Run

(* An empty queue leaves the inputs as they are. *)
LEMMA RunNil ==
    ASSUME NEW n, NEW P, NEW Q
    PROVE  Run(n, P, <<>>, Q) <=> Agree(n, P, Q)
<1>1. Len(<<>>) = 0 /\ 1..0 = {}
  OBVIOUS
<1>2. ASSUME Agree(n, P, Q) PROVE Run(n, P, <<>>, Q)
  <2> DEFINE h == [i \in {0} |-> P]
  <2>1. h[0] = P
    OBVIOUS
  <2> HIDE DEF h
  <2>2. Agree(n, h[0], P) /\ Agree(n, h[0], Q)
    BY <1>2, <2>1 DEF Agree
  <2> QED
    BY <1>1, <2>2 DEF Run
<1>3. ASSUME Run(n, P, <<>>, Q) PROVE Agree(n, P, Q)
  BY <1>1, <1>3 DEF Run, Agree
<1> QED
  BY <1>2, <1>3

(* The first item of a queue, and the rest. *)
LEMMA RunHead ==
    ASSUME NEW n, NEW P, NEW q, NEW Q, IsList(q), q # <<>>, Run(n, P, q, Q)
    PROVE  \E R : Move(n, P, Head(q), R) /\ Run(n, R, Tail(q), Q)
<1>1. PICK h : /\ Agree(n, h[0], P) /\ Agree(n, h[Len(q)], Q)
               /\ \A j \in 1..Len(q) : Move(n, h[j - 1], q[j], h[j])
  BY DEF Run
<1> DEFINE a == Len(q)
<1>2. /\ IsList(Tail(q)) /\ Len(Tail(q)) = a - 1 /\ Head(q) = q[1] /\ a \in Nat \ {0}
      /\ \A i \in 1..(a - 1) : Tail(q)[i] = q[i + 1]
  BY ListTail
<1>3. Move(n, P, Head(q), h[1])
  <2>1. 1 \in 1..a /\ 1 - 1 = 0
    BY <1>2
  <2>2. Move(n, h[0], q[1], h[1])
    BY <1>1, <2>1
  <2>3. Agree(n, h[1], h[1])
    BY DEF Agree
  <2> QED
    BY <1>1, <1>2, <2>2, <2>3, MoveAgrees
<1> DEFINE g == [i \in 0..(a - 1) |-> h[i + 1]]
<1>4. \A i \in 0..(a - 1) : g[i] = h[i + 1]
  OBVIOUS
<1> HIDE DEF g
<1>5. g[0] = h[1] /\ g[a - 1] = h[a]
  <2>1. 0 \in 0..(a - 1) /\ a - 1 \in 0..(a - 1) /\ 0 + 1 = 1 /\ (a - 1) + 1 = a
    BY <1>2
  <2> HIDE DEF a
  <2> QED
    BY <1>4, <2>1
<1>6. ASSUME NEW j \in 1..(a - 1) PROVE Move(n, g[j - 1], Tail(q)[j], g[j])
  <2>1. j + 1 \in 1..a /\ (j + 1) - 1 = j /\ j - 1 \in 0..(a - 1) /\ j \in 0..(a - 1) /\ (j - 1) + 1 = j
    BY <1>2
  <2>2. Move(n, h[j], q[j + 1], h[j + 1])
    BY <1>1, <2>1
  <2> HIDE DEF a
  <2> QED
    BY <1>2, <1>4, <2>1, <2>2
<1>7. Agree(n, g[0], h[1])
  BY <1>5 DEF Agree
<1>8. Run(n, h[1], Tail(q), Q)
  BY <1>1, <1>2, <1>5, <1>6, <1>7 DEF Run
<1> QED
  BY <1>3, <1>8

(* A queue behind a queue. *)
LEMMA RunConcat ==
    ASSUME NEW n, NEW S, NEW s, NEW T, NEW r, NEW U, IsList(s), IsList(r),
           Run(n, S, s, T), Run(n, T, r, U)
    PROVE  Run(n, S, s \o r, U)
<1>1. PICK g : /\ Agree(n, g[0], S) /\ Agree(n, g[Len(s)], T)
               /\ \A j \in 1..Len(s) : Move(n, g[j - 1], s[j], g[j])
  BY DEF Run
<1>2. PICK f : /\ Agree(n, f[0], T) /\ Agree(n, f[Len(r)], U)
               /\ \A j \in 1..Len(r) : Move(n, f[j - 1], r[j], f[j])
  BY DEF Run
<1> DEFINE a == Len(s)
           b == Len(r)
           h == [i \in 0..(a + b) |-> IF i <= a THEN g[i] ELSE f[i - a]]
<1>3. /\ a \in Nat /\ b \in Nat /\ Len(s \o r) = a + b
      /\ \A i \in 1..a : (s \o r)[i] = s[i]
      /\ \A i \in (a + 1)..(a + b) : (s \o r)[i] = r[i - a]
  BY ListConcat, ListFacts
<1> HIDE DEF a, b
<1>4. \A i \in 0..a : h[i] = g[i] /\ Agree(n, h[i], g[i])
  <2>1. \A i \in 0..a : h[i] = g[i]
    BY <1>3
  <2> HIDE DEF h
  <2> QED
    BY <2>1 DEF Agree
<1>5. \A i \in (a + 1)..(a + b) : h[i] = f[i - a] /\ Agree(n, h[i], f[i - a])
  <2>1. \A i \in (a + 1)..(a + b) : h[i] = f[i - a]
    BY <1>3
  <2> HIDE DEF h
  <2> QED
    BY <2>1 DEF Agree
<1> HIDE DEF h
<1>6. Agree(n, h[a], f[0])
  <2>1. a \in 0..a /\ h[a] = g[a]
    BY <1>3, <1>4
  <2> QED
    BY <1>1, <1>2, <2>1 DEF Agree, a
<1>7. Agree(n, h[0], S)
  <2>1. 0 \in 0..a
    BY <1>3
  <2> QED
    BY <1>1, <1>4, <2>1 DEF Agree
<1>8. Agree(n, h[a + b], U)
  <2>1. CASE b = 0
    <3>1. a + b = a
      BY <1>3, <2>1
    <3>2. Agree(n, f[0], U)
      BY <1>2, <2>1 DEF b
    <3> QED
      BY <1>6, <3>1, <3>2 DEF Agree
  <2>2. CASE b # 0
    <3>1. a + b \in (a + 1)..(a + b) /\ (a + b) - a = b
      BY <1>3, <2>2
    <3>2. h[a + b] = f[b]
      BY <1>5, <3>1
    <3> QED
      BY <1>2, <3>2 DEF Agree, b
  <2> QED
    BY <2>1, <2>2
<1>9. ASSUME NEW i \in 1..(a + b) PROVE Move(n, h[i - 1], (s \o r)[i], h[i])
  <2>1. CASE i \in 1..a
    <3>1. i - 1 \in 0..a /\ i \in 0..a
      BY <1>3, <2>1
    <3>2. Move(n, g[i - 1], s[i], g[i])
      BY <1>1, <2>1 DEF a
    <3> QED
      BY <1>3, <1>4, <2>1, <3>1, <3>2
  <2>2. CASE i = a + 1
    <3>1. i - a = 1 /\ 1 \in 1..b /\ 1 - 1 = 0 /\ i - 1 = a /\ i \in (a + 1)..(a + b)
      BY <1>3, <2>2
    <3>2. Move(n, f[0], r[1], f[1])
      BY <1>2, <3>1 DEF b
    <3>3. h[i] = f[1] /\ (s \o r)[i] = r[1]
      BY <1>3, <1>5, <3>1
    <3>4. Agree(n, f[0], h[i - 1]) /\ Agree(n, f[1], h[i])
      BY <1>6, <3>1, <3>3 DEF Agree
    <3>5. Move(n, h[i - 1], r[1], h[i])
      BY <3>2, <3>4, MoveAgrees
    <3> QED
      BY <3>3, <3>5
  <2>3. CASE i \in (a + 2)..(a + b)
    <3>1. /\ i - 1 \in (a + 1)..(a + b) /\ i \in (a + 1)..(a + b) /\ i - a \in 1..b
          /\ (i - 1) - a = (i - a) - 1
      BY <1>3, <2>3
    <3>2. Move(n, f[(i - a) - 1], r[i - a], f[i - a])
      BY <1>2, <3>1 DEF b
    <3>3. h[i - 1] = f[(i - a) - 1] /\ h[i] = f[i - a] /\ (s \o r)[i] = r[i - a]
      BY <1>3, <1>5, <3>1
    <3> QED
      BY <3>2, <3>3
  <2>4. i \in 1..a \/ i = a + 1 \/ i \in (a + 2)..(a + b)
    BY <1>3
  <2> QED
    BY <2>1, <2>2, <2>3, <2>4
<1> QED
  BY <1>3, <1>7, <1>8, <1>9 DEF Run

(* A stream that reaches one side of an operator. *)
LEMMA RunLift ==
    ASSUME NEW n, NEW i \in Sides(n), NEW P, NEW s, NEW Q, NEW r, IsList(s),
           Path(Source(n, i), P[i], s, Q[i]), \A j \in Sides(n) : j # i => Q[j] = P[j],
           Len(r) = Len(s), \A j \in 1..Len(s) : r[j].fresh /\ r[j].x = s[j] /\ Lane(n, r[j]) = i
    PROVE  Run(n, P, r, Q)
<1>1. PICK g : g[0] = P[i] /\ g[Len(s)] = Q[i] /\ Follows(Source(n, i), g, s)
  BY DEF Path
<1> DEFINE a == Len(s)
           h == [j \in 0..a |-> [k \in Sides(n) |-> IF k = i THEN g[j] ELSE P[k]]]
<1>2. a \in Nat
  BY ListFacts
<1>3. \A j \in 0..a : h[j][i] = g[j] /\ \A k \in Sides(n) : k # i => h[j][k] = P[k]
  OBVIOUS
<1> HIDE DEF h
<1>4. Agree(n, h[0], P) /\ Agree(n, h[a], Q)
  <2>1. 0 \in 0..a /\ a \in 0..a
    BY <1>2
  <2> QED
    BY <1>1, <1>3, <2>1 DEF Agree
<1>5. ASSUME NEW j \in 1..a PROVE Move(n, h[j - 1], r[j], h[j])
  <2>1. j - 1 \in 0..a /\ j \in 0..a
    BY <1>2
  <2>2. Step(Source(n, i), g[j - 1], s[j], g[j])
    BY <1>1 DEF Follows
  <2>3. r[j].fresh /\ r[j].x = s[j] /\ Lane(n, r[j]) = i
    OBVIOUS
  <2>4. Step(Source(n, i), h[j - 1][i], r[j].x, h[j][i])
    BY <1>3, <2>1, <2>2, <2>3
  <2> QED
    BY <1>3, <2>1, <2>3, <2>4 DEF Move
<1> QED
  BY <1>4, <1>5 DEF Run
-----------------------------------------------------------------------------
(* The program. *)

(* What the assumptions say of one operator. *)
LEMMA InputFacts ==
    ASSUME NEW n \in Op
    PROVE  /\ n \in Nat /\ n >= 1
           /\ Kind[n] \in {"scan", "map", "filter", "distinct", "group", "join", "anti", "parent", "union"}
           /\ n \in TwoSided <=> Kind[n] \in {"join", "anti", "parent", "union"}
           /\ Kind[n] = "scan" => Relation[n] \in Rels /\ DOMAIN Inputs[n] = {}
           /\ Kind[n] # "scan" => Inputs[n][1] \in Op /\ Inputs[n][1] < n /\ 1 \in DOMAIN Inputs[n]
           /\ n \in TwoSided => /\ Inputs[n][2] \in Op /\ Inputs[n][2] < n /\ DOMAIN Inputs[n] = {1, 2}
                                /\ Inputs[n][1] # Inputs[n][2]
           /\ Kind[n] # "scan" /\ n \notin TwoSided => DOMAIN Inputs[n] = {1}
<1>1. n \in Nat /\ n >= 1
  BY NetworkAssumption DEF Op
<1>2. \/ Kind[n] = "scan" /\ Len(Inputs[n]) = 0 /\ Relation[n] \in Rels
      \/ Kind[n] \in {"map", "filter", "distinct", "group"} /\ Len(Inputs[n]) = 1
      \/ Kind[n] \in {"join", "anti", "parent", "union"} /\ Len(Inputs[n]) = 2
  BY ProgramAssumption
<1>3. Inputs[n] \in Seq(Op) /\ (\A i \in DOMAIN Inputs[n] : Inputs[n][i] < n)
      /\ \A i, j \in DOMAIN Inputs[n] : Inputs[n][i] = Inputs[n][j] => i = j
  BY NetworkAssumption
<1>4. n \in TwoSided <=> Kind[n] \in {"join", "anti", "parent", "union"}
  BY DEF TwoSided, OpOf
<1>5. DOMAIN Inputs[n] = 1..Len(Inputs[n]) /\ \A i \in DOMAIN Inputs[n] : Inputs[n][i] \in Op
  BY <1>3
<1>6. CASE Kind[n] = "scan" /\ Len(Inputs[n]) = 0 /\ Relation[n] \in Rels
  <2>1. 1..0 = {}
    OBVIOUS
  <2> QED
    BY <1>1, <1>4, <1>5, <1>6, <2>1
<1>7. CASE Kind[n] \in {"map", "filter", "distinct", "group"} /\ Len(Inputs[n]) = 1
  <2>1. 1..1 = {1}
    OBVIOUS
  <2> QED
    BY <1>1, <1>3, <1>4, <1>5, <1>7, <2>1
<1>8. CASE Kind[n] \in {"join", "anti", "parent", "union"} /\ Len(Inputs[n]) = 2
  <2>1. 1..2 = {1, 2}
    OBVIOUS
  <2> QED
    BY <1>1, <1>3, <1>4, <1>5, <1>8, <2>1
<1> QED
  BY <1>2, <1>6, <1>7, <1>8

(* The number of leaves of an operator's derivations is well defined. *)
LEMMA WidthIs == IsWidth(Width, Op)
<1> DEFINE Made == {k \in Nat : k <= NumOps => \E w : IsWidth(w, 1..k)}
<1>1. 0 \in Made
  <2>1. 1..0 = {}
    OBVIOUS
  <2>2. IsWidth([n \in {} |-> 0], {})
    BY DEF IsWidth
  <2> QED
    BY <2>1, <2>2
<1>2. ASSUME NEW k \in Nat, k \in Made PROVE k + 1 \in Made
  <2>1. SUFFICES ASSUME k + 1 <= NumOps PROVE \E w : IsWidth(w, 1..(k + 1))
    OBVIOUS
  <2>2. NumOps \in Nat
    BY NetworkAssumption
  <2>3. PICK w : IsWidth(w, 1..k)
    BY <1>2, <2>1, <2>2
  <2> DEFINE v == [n \in 1..(k + 1) |-> IF n <= k THEN w[n] ELSE WidthAt(w, k + 1)]
  <2>4. \A n \in 1..k : v[n] = w[n] /\ w[n] \in Nat /\ w[n] = WidthAt(w, n)
    BY <2>3 DEF IsWidth
  <2>5. v[k + 1] = WidthAt(w, k + 1)
    OBVIOUS
  <2>6. DOMAIN v = 1..(k + 1) /\ v = [n \in 1..(k + 1) |-> v[n]]
    OBVIOUS
  <2> HIDE DEF v
  <2>7. ASSUME NEW n \in 1..(k + 1)
        PROVE  WidthAt(v, n) = WidthAt(w, n) /\ WidthAt(w, n) \in Nat
    <3>1. n \in Op /\ n \in Nat
      BY <2>1, <2>2 DEF Op
    <3>2. /\ Kind[n] # "scan" => Inputs[n][1] \in Op /\ Inputs[n][1] < n
          /\ n \in TwoSided => Inputs[n][2] \in Op /\ Inputs[n][2] < n
          /\ n \in TwoSided <=> Kind[n] \in {"join", "anti", "parent", "union"}
      BY <3>1, InputFacts
    <3>3. \A x \in Op : x < n => x \in 1..k
      BY <3>1 DEF Op
    <3>4. /\ Kind[n] # "scan" => v[Inputs[n][1]] = w[Inputs[n][1]] /\ w[Inputs[n][1]] \in Nat
          /\ Kind[n] = "join" => v[Inputs[n][2]] = w[Inputs[n][2]] /\ w[Inputs[n][2]] \in Nat
      BY <2>4, <3>2, <3>3
    <3> QED
      BY <3>4 DEF WidthAt
  <2>8. \A n \in 1..(k + 1) : n \in 1..k \/ n = k + 1
    OBVIOUS
  <2>9. \A n \in 1..(k + 1) : v[n] = WidthAt(v, n) /\ v[n] \in Nat
    BY <2>4, <2>5, <2>7, <2>8
  <2>10. v \in [1..(k + 1) -> Nat]
    BY <2>6, <2>9
  <2>11. IsWidth(v, 1..(k + 1))
    BY <2>9, <2>10 DEF IsWidth
  <2> QED
    BY <2>11
<1>3. \A k \in Nat : k \in Made
  <2> HIDE DEF Made
  <2> QED
    BY <1>1, <1>2, NumberInduction
<1>4. \E w : IsWidth(w, Op)
  BY <1>3, NetworkAssumption DEF Op
<1> QED
  BY <1>4 DEF Width

(* The equations of the number of leaves. *)
LEMMA WidthFacts ==
    ASSUME NEW n \in Op
    PROVE  /\ Width[n] \in Nat
           /\ Kind[n] = "join" => Width[n] = Width[Inputs[n][1]] + Width[Inputs[n][2]]
           /\ Kind[n] \in {"map", "filter", "anti", "parent"} => Width[n] = Width[Inputs[n][1]]
           /\ Kind[n] \in {"scan", "distinct", "group", "union"} => Width[n] = 1
BY WidthIs DEF IsWidth, WidthAt

(* Derivations of an operator are its own, and say what they come from.    *)
LEMMA UnaryFacts ==
    ASSUME NEW n \in Op, Kind[n] \in {"map", "filter", "anti", "parent"},
           NEW d, Formed(Inputs[n][1], d)
    PROVE  /\ Formed(n, Unary(n, d))
           /\ \A e : Formed(Inputs[n][1], e) /\ Unary(n, e) = Unary(n, d) => e = d
<1>1. Width[n] = Width[Inputs[n][1]]
  BY WidthFacts
<1>2. Unary(n, d) \in [root : {RootOf(n)}, leaves : {Unary(n, d).leaves}] /\ Unary(n, d).leaves = d.leaves
  BY DEF Unary, RootOf
<1>3. Formed(n, Unary(n, d))
  BY <1>1, <1>2 DEF Formed
<1>4. ASSUME NEW e, Formed(Inputs[n][1], e), Unary(n, e) = Unary(n, d) PROVE e = d
  <2>1. e.leaves = d.leaves
    BY <1>4 DEF Unary
  <2>2. e \in [root : {RootOf(Inputs[n][1])}, leaves : {d.leaves}]
        /\ d \in [root : {RootOf(Inputs[n][1])}, leaves : {d.leaves}]
    BY <1>4, <2>1 DEF Formed
  <2> QED
    BY <2>2
<1> QED
  BY <1>3, <1>4

(* A join's derivation determines both it was made of: their lengths are   *)
(* fixed.                                                                  *)
LEMMA JoinedFacts ==
    ASSUME NEW n \in Op, Kind[n] = "join",
           NEW d, Formed(Inputs[n][1], d), NEW e, Formed(Inputs[n][2], e)
    PROVE  /\ Formed(n, Joined(n, d, e))
           /\ \A f, g : Formed(Inputs[n][1], f) /\ Formed(Inputs[n][2], g) /\ Joined(n, f, g) = Joined(n, d, e)
                           => f = d /\ g = e
<1>1. Width[n] = Width[Inputs[n][1]] + Width[Inputs[n][2]]
  BY WidthFacts
<1> DEFINE j == Joined(n, d, e)
<1>2. j \in [root : {RootOf(n)}, leaves : {j.leaves}] /\ j.leaves = d.leaves \o e.leaves
  BY DEF Joined, RootOf
<1>3. IsList(d.leaves \o e.leaves) /\ Len(d.leaves \o e.leaves) = Width[n]
  BY <1>1, ListConcat DEF Formed
<1>4. Formed(n, j)
  BY <1>2, <1>3 DEF Formed
<1>5. ASSUME NEW f, NEW g, Formed(Inputs[n][1], f), Formed(Inputs[n][2], g), Joined(n, f, g) = j
      PROVE  f = d /\ g = e
  <2>1. f.leaves \o g.leaves = d.leaves \o e.leaves
    BY <1>5 DEF Joined
  <2>2. f.leaves = d.leaves /\ g.leaves = e.leaves
    <3>1. IsList(f.leaves) /\ IsList(g.leaves) /\ IsList(d.leaves) /\ IsList(e.leaves) /\ Len(f.leaves) = Len(d.leaves)
      BY <1>5 DEF Formed
    <3> DEFINE p == f.leaves
               q == g.leaves
               r == d.leaves
               s == e.leaves
    <3>2. IsList(p) /\ IsList(q) /\ IsList(r) /\ IsList(s) /\ Len(p) = Len(r)
      BY <3>1
    <3> HIDE DEF p, q, r, s
    <3>3. SameConcat(p, q, r, s)
      BY <2>1 DEF p, q, r, s, SameConcat
    <3>4. p = r /\ q = s
      BY <3>2, <3>3, ConcatInjective
    <3> QED
      BY <3>4 DEF p, q, r, s
  <2>3. f \in [root : {RootOf(Inputs[n][1])}, leaves : {d.leaves}]
        /\ d \in [root : {RootOf(Inputs[n][1])}, leaves : {d.leaves}]
    BY <1>5, <2>2 DEF Formed
  <2>4. g \in [root : {RootOf(Inputs[n][2])}, leaves : {e.leaves}]
        /\ e \in [root : {RootOf(Inputs[n][2])}, leaves : {e.leaves}]
    BY <1>5, <2>2 DEF Formed
  <2> QED
    BY <2>3, <2>4
<1> QED
  BY <1>4, <1>5

(* The derivation of a distinct row or of a group determines its key. *)
LEMMA KeyedFacts ==
    ASSUME NEW n \in Op, NEW k
    PROVE  /\ Kind[n] = "distinct" => Formed(n, Distinct(n, k))
           /\ Kind[n] \in {"group", "union"} => Formed(n, Group(n, k))
           /\ \A l : Distinct(n, l) = Distinct(n, k) => l = k
           /\ \A l : Group(n, l) = Group(n, k) => l = k
<1> DEFINE d == Distinct(n, k)
           g == Group(n, k)
<1>1. /\ d.leaves = << <<"distinct", k>> >> /\ g.leaves = << <<"group", k>> >>
      /\ d \in [root : {<<"op", n>>}, leaves : {d.leaves}] /\ g \in [root : {<<"op", n>>}, leaves : {g.leaves}]
  BY DEF Distinct, Group
<1>2. IsList(d.leaves) /\ Len(d.leaves) = 1 /\ IsList(g.leaves) /\ Len(g.leaves) = 1
  BY <1>1, SingletonList
<1>3. Kind[n] \in {"distinct", "group", "union"} => Width[n] = 1 /\ RootOf(n) = <<"op", n>>
  BY WidthFacts DEF RootOf
<1>4. ASSUME NEW l, Distinct(n, l) = Distinct(n, k) PROVE l = k
  <2>1. << <<"distinct", l>> >> = << <<"distinct", k>> >>
    BY <1>4 DEF Distinct
  <2> QED
    BY <2>1
<1>5. ASSUME NEW l, Group(n, l) = Group(n, k) PROVE l = k
  <2>1. << <<"group", l>> >> = << <<"group", k>> >>
    BY <1>5 DEF Group
  <2> QED
    BY <2>1
<1> HIDE DEF d, g
<1>6. Kind[n] = "distinct" => Formed(n, d)
  BY <1>1, <1>2, <1>3 DEF Formed
<1>7. Kind[n] \in {"group", "union"} => Formed(n, g)
  BY <1>1, <1>2, <1>3 DEF Formed
<1> QED
  BY <1>4, <1>5, <1>6, <1>7 DEF d, g

(* The derivation of a base row determines its key. *)
LEMMA BaseFacts ==
    ASSUME NEW n \in Op, Kind[n] = "scan", NEW k
    PROVE  Formed(n, Base(Relation[n], k)) /\ \A l : Base(Relation[n], l) = Base(Relation[n], k) => l = k
<1> DEFINE d == Base(Relation[n], k)
<1>1. d.leaves = << <<"base", k>> >> /\ d \in [root : {RootOf(n)}, leaves : {d.leaves}]
  BY DEF Base, RootOf
<1>2. IsList(d.leaves) /\ Len(d.leaves) = 1
  BY <1>1, SingletonList
<1>3. Width[n] = 1
  BY WidthFacts
<1>4. ASSUME NEW l, Base(Relation[n], l) = Base(Relation[n], k) PROVE l = k
  <2>1. << <<"base", l>> >> = << <<"base", k>> >>
    BY <1>4 DEF Base
  <2> QED
    BY <2>1
<1> HIDE DEF d
<1>5. Formed(n, d)
  BY <1>1, <1>2, <1>3 DEF Formed
<1> QED
  BY <1>4, <1>5 DEF d
-----------------------------------------------------------------------------
(* One delta at an operator: what it emits leads from the rows of its old   *)
(* inputs to the rows of its new ones.                                     *)

LEMMA EntryFacts ==
    ASSUME NEW x
    PROVE  Entry(x).t = x.t /\ Entry(x).d = x.d
BY DEF Entry

LEMMA DeltaFacts ==
    ASSUME NEW sign, NEW t, NEW d
    PROVE  /\ Delta(sign, t, d).sign = sign /\ Delta(sign, t, d).t = t /\ Delta(sign, t, d).d = d
           /\ Entry(Delta(sign, t, d)) = [t |-> t, d |-> d]
BY DEF Delta, Entry

(* On tidy rows indexed_side_apply does what the delta says. *)
LEMMA SideApplyIs ==
    ASSUME NEW m, NEW S, NEW x, NEW T, NEW n, NEW i, Tidy(m, S), Step(m, S, x, T)
    PROVE  SideApply(S, n, i, x) = T
<1>1. CASE x.sign = "+"
  <2>1. T = S \cup {Entry(x)} /\ \A e \in S : e.d # x.d
    BY <1>1 DEF Step
  <2>2. {e \in S : ~(e.d = x.d /\ KeyOf(n, i, e.t) = KeyOf(n, i, x.t))} = S
    BY <2>1
  <2> QED
    BY <1>1, <2>1, <2>2 DEF SideApply
<1>2. CASE x.sign # "+"
  <2>1. T = S \ {Entry(x)} /\ Entry(x) \in S
    BY <1>2 DEF Step
  <2>2. \A e \in S : (e.d = x.d /\ KeyOf(n, i, e.t) = KeyOf(n, i, x.t)) <=> e = Entry(x)
    BY <2>1, EntryFacts DEF Tidy
  <2>3. {e \in S : ~(e.d = x.d /\ KeyOf(n, i, e.t) = KeyOf(n, i, x.t))} = T
    BY <2>1, <2>2
  <2> QED
    BY <1>2, <2>3 DEF SideApply
<1> QED
  BY <1>1, <1>2

(* A bucket of a finite index is finite. *)
LEMMA BucketFinite ==
    ASSUME NEW m, NEW S, NEW n, NEW i, NEW k, Tidy(m, S)
    PROVE  /\ IsFiniteSet(Bucket(S, n, i, k)) /\ Cardinality(Bucket(S, n, i, k)) \in Nat
           /\ Cardinality(Bucket(S, n, i, k)) = 0 <=> Bucket(S, n, i, k) = {}
<1>1. Bucket(S, n, i, k) \in SUBSET S
  BY DEF Bucket
<1>2. IsFiniteSet(Bucket(S, n, i, k))
  BY <1>1, FS_Subset DEF Tidy
<1> QED
  BY <1>2, FS_CardinalityType, FS_EmptySet

(* A delta touches one bucket, by one entry. *)
LEMMA BucketStep ==
    ASSUME NEW m, NEW S, NEW x, NEW T, NEW n, NEW i, NEW k, Tidy(m, S), Step(m, S, x, T)
    PROVE  /\ k # KeyOf(n, i, x.t) => Bucket(T, n, i, k) = Bucket(S, n, i, k)
           /\ k = KeyOf(n, i, x.t) =>
                /\ x.sign = "+" => /\ Bucket(T, n, i, k) = Bucket(S, n, i, k) \cup {Entry(x)}
                                   /\ Cardinality(Bucket(T, n, i, k)) = Cardinality(Bucket(S, n, i, k)) + 1
                /\ x.sign = "-" => /\ Bucket(T, n, i, k) = Bucket(S, n, i, k) \ {Entry(x)}
                                   /\ Cardinality(Bucket(T, n, i, k)) = Cardinality(Bucket(S, n, i, k)) - 1
                /\ Cardinality(Bucket(T, n, i, k)) # Cardinality(Bucket(S, n, i, k))
<1> DEFINE B == Bucket(S, n, i, k)
           C == Bucket(T, n, i, k)
<1>1. x.sign = "+" \/ x.sign = "-"
  BY DEF Step
<1>2. CASE k # KeyOf(n, i, x.t)
  BY <1>2, EntryFacts DEF Step, Bucket
<1>3. CASE k = KeyOf(n, i, x.t)
  <2>1. IsFiniteSet(B) /\ Cardinality(B) \in Nat
    BY BucketFinite
  <2>2. x.sign = "+" => C = B \cup {Entry(x)} /\ Entry(x) \notin B
    BY <1>3, EntryFacts DEF Step, Bucket
  <2>3. x.sign = "-" => C = B \ {Entry(x)} /\ Entry(x) \in B
    BY <1>3, EntryFacts DEF Step, Bucket
  <2> HIDE DEF B, C
  <2>4. x.sign = "+" => Cardinality(C) = Cardinality(B) + 1
    BY <2>1, <2>2, FS_AddElement
  <2>5. x.sign = "-" => Cardinality(C) = Cardinality(B) - 1
    BY <2>1, <2>3, FS_RemoveElement
  <2>6. Cardinality(C) # Cardinality(B)
    BY <1>1, <2>1, <2>4, <2>5
  <2> QED
    BY <1>3, <2>2, <2>3, <2>4, <2>5, <2>6 DEF B, C
<1> QED
  BY <1>2, <1>3

(* A delta seen through a filter. *)
LEMMA StepRestrict ==
    ASSUME NEW m, NEW S, NEW x, NEW T, NEW F, Step(m, S, x, T)
    PROVE  /\ Entry(x) \in F => Step(m, S \cap F, x, T \cap F)
           /\ Entry(x) \notin F => S \cap F = T \cap F
BY DEF Step

(* Part of tidy rows is tidy. *)
LEMMA TidySubset ==
    ASSUME NEW m, NEW S, NEW F \in SUBSET S, Tidy(m, S)
    PROVE  Tidy(m, F)
BY FS_Subset DEF Tidy

(* The image of a delta under a map that keeps derivations apart.          *)
Image(f, S) == {f[e] : e \in S}
Rerooted(n, g, S) == {[t |-> g[e], d |-> Unary(n, e.d)] : e \in S}

(* A delta seen through a one-to-one map of derivations. *)
LEMMA ImageStep ==
    ASSUME NEW m, NEW n, NEW S, NEW x, NEW T, NEW y, NEW f, Tidy(m, S), Step(m, S, x, T),
           y.sign = x.sign, Formed(n, y.d), f[Entry(x)] = Entry(y),
           \A e \in S : f[e].d = y.d => e.d = x.d
    PROVE  Step(n, Image(f, S), y, Image(f, T))
<1> DEFINE I(X) == {f[e] : e \in X}
<1>0. Image(f, S) = I(S) /\ Image(f, T) = I(T)
  BY DEF Image
<1>1. CASE x.sign = "+"
  <2>1. T = S \cup {Entry(x)} /\ \A e \in S : e.d # x.d
    BY <1>1 DEF Step
  <2>2. I(T) = I(S) \cup {Entry(y)}
    BY <2>1
  <2>3. \A z \in I(S) : z.d # y.d
    BY <2>1
  <2> QED
    BY <1>0, <1>1, <2>2, <2>3 DEF Step
<1>2. CASE x.sign = "-"
  <2>1. T = S \ {Entry(x)} /\ Entry(x) \in S
    BY <1>2 DEF Step
  <2>2. Entry(y) \in I(S)
    BY <2>1
  <2>3. \A e \in S : f[e] = Entry(y) => e = Entry(x)
    BY <2>1, EntryFacts DEF Tidy
  <2>4. I(T) = I(S) \ {Entry(y)}
    BY <2>1, <2>3
  <2> QED
    BY <1>0, <1>2, <2>2, <2>4 DEF Step
<1> QED
  BY <1>1, <1>2 DEF Step
-----------------------------------------------------------------------------
(* What an operator evaluates to, one kind after the other. *)

(* The cases of Evaluate, one by one. *)
LEMMA EvaluateMap ==
    ASSUME NEW n, NEW P, Kind[n] = "map"
    PROVE  Evaluate(n, P) = {[t |-> Row(n, e.t), d |-> Unary(n, e.d)] : e \in P[1]}
BY DEF Evaluate

LEMMA EvaluateFilter ==
    ASSUME NEW n, NEW P, Kind[n] = "filter"
    PROVE  Evaluate(n, P) = {[t |-> e.t, d |-> Unary(n, e.d)] : e \in {e \in P[1] : Pass(n, e.t)}}
BY DEF Evaluate

LEMMA EvaluateJoin ==
    ASSUME NEW n, NEW P, Kind[n] = "join"
    PROVE  Evaluate(n, P) =
             {[t |-> Merge(n, p[1].t, p[2].t), d |-> Joined(n, p[1].d, p[2].d)] :
              p \in {p \in P[1] \X P[2] : KeyOf(n, 1, p[1].t) = KeyOf(n, 2, p[2].t)}}
BY DEF Evaluate

LEMMA EvaluateAnti ==
    ASSUME NEW n, NEW P, Kind[n] = "anti"
    PROVE  Evaluate(n, P) =
             {[t |-> e.t, d |-> Unary(n, e.d)] :
                e \in {e \in P[1] : Bucket(P[2], n, 2, KeyOf(n, 1, e.t)) = {}}}
BY DEF Evaluate

LEMMA EvaluateUnion ==
    ASSUME NEW n, NEW P, Kind[n] = "union"
    PROVE  Evaluate(n, P) =
             {[t |-> e.t, d |-> Group(n, KeyOf(n, 1, e.t))] : e \in P[1]}
             \cup {[t |-> e.t, d |-> Group(n, KeyOf(n, 2, e.t))] : e \in P[2]}
BY DEF Evaluate

LEMMA EvaluateParent ==
    ASSUME NEW n, NEW P, Kind[n] = "parent"
    PROVE  Evaluate(n, P) =
             {[t |-> CountRow(KeyOf(n, 1, e.t), Cardinality(Bucket(P[2], n, 2, KeyOf(n, 1, e.t)))),
               d |-> Unary(n, e.d)] : e \in P[1]}
BY DEF Evaluate

LEMMA EvaluateDistinct ==
    ASSUME NEW n, NEW P, Kind[n] = "distinct"
    PROVE  Evaluate(n, P) = {[t |-> e.t, d |-> Distinct(n, e.t)] : e \in P[1]}
BY DEF Evaluate

LEMMA EvaluateGroup ==
    ASSUME NEW n, NEW P, Kind[n] = "group"
    PROVE  Evaluate(n, P) =
             {[t |-> GroupRow(k, Cardinality(Members(n, k, P[1])), RefAcc(n, Members(n, k, P[1]))),
               d |-> Group(n, k)] : k \in Groups(n, P[1])}
BY DEF Evaluate

(* The output of an operator that makes one row of one row follows its     *)
(* input.                                                                  *)
LEMMA UnaryImage ==
    ASSUME NEW n \in Op, Kind[n] \in {"map", "filter", "anti", "parent"}, NEW S, NEW x, NEW T,
           Tidy(Inputs[n][1], S), Step(Inputs[n][1], S, x, T), NEW g
    PROVE  Step(n, Rerooted(n, g, S), Delta(x.sign, g[Entry(x)], Unary(n, x.d)), Rerooted(n, g, T))
<1> DEFINE m == Inputs[n][1]
           y == Delta(x.sign, g[Entry(x)], Unary(n, x.d))
           D == S \cup T \cup {Entry(x)}
           f == [e \in D |-> [t |-> g[e], d |-> Unary(n, e.d)]]
<1>1. y.sign = x.sign /\ y.d = Unary(n, x.d) /\ Entry(y) = [t |-> g[Entry(x)], d |-> Unary(n, x.d)]
  BY DeltaFacts
<1>2. Formed(m, x.d) /\ (\A e \in S : Formed(m, e.d))
  BY DEF Step, Tidy
<1>3. Formed(n, y.d) /\ (\A e \in S : Unary(n, e.d) = y.d => e.d = x.d)
  BY <1>1, <1>2, UnaryFacts
<1>4. \A e \in D : f[e] = [t |-> g[e], d |-> Unary(n, e.d)] /\ f[e].d = Unary(n, e.d)
  OBVIOUS
<1>5. f[Entry(x)] = Entry(y)
  BY <1>1, <1>4, EntryFacts
<1>6. Image(f, S) = Rerooted(n, g, S) /\ Image(f, T) = Rerooted(n, g, T)
  <2> HIDE DEF f
  <2> QED
    BY <1>4 DEF Image, Rerooted
<1>7. \A e \in S : f[e].d = y.d => e.d = x.d
  BY <1>3, <1>4
<1> HIDE DEF f, y, m
<1>8. Step(n, Image(f, S), y, Image(f, T))
  BY <1>1, <1>3, <1>5, <1>7, ImageStep DEF m
<1> QED
  BY <1>6, <1>8 DEF y

(* What Bind and Project emit. *)
LEMMA MapPath ==
    ASSUME NEW n \in Op, Kind[n] = "map", NEW P, NEW x, NEW Q,
           Tidy(Inputs[n][1], P[1]), Step(Inputs[n][1], P[1], x, Q[1])
    PROVE  Path(n, Evaluate(n, P), <<Delta(x.sign, Row(n, x.t), Unary(n, x.d))>>, Evaluate(n, Q))
<1> DEFINE D == P[1] \cup Q[1] \cup {Entry(x)}
           g == [e \in D |-> Row(n, e.t)]
           I(X) == Rerooted(n, g, X)
<1>1. \A e \in D : g[e] = Row(n, e.t)
  OBVIOUS
<1> HIDE DEF g
<1>2. I(P[1]) = Evaluate(n, P) /\ I(Q[1]) = Evaluate(n, Q) /\ g[Entry(x)] = Row(n, x.t)
  <2>1. I(P[1]) = Evaluate(n, P)
    BY <1>1, EvaluateMap DEF Rerooted
  <2>2. I(Q[1]) = Evaluate(n, Q)
    BY <1>1, EvaluateMap DEF Rerooted
  <2> QED
    BY <1>1, <2>1, <2>2, EntryFacts
<1>3. Step(n, I(P[1]), Delta(x.sign, g[Entry(x)], Unary(n, x.d)), I(Q[1]))
  BY UnaryImage
<1> HIDE DEF I
<1>4. Step(n, Evaluate(n, P), Delta(x.sign, Row(n, x.t), Unary(n, x.d)), Evaluate(n, Q))
  BY <1>2, <1>3
<1> QED
  BY <1>4, PathOne

(* What Filter emits. *)
LEMMA FilterPath ==
    ASSUME NEW n \in Op, Kind[n] = "filter", NEW P, NEW x, NEW Q,
           Tidy(Inputs[n][1], P[1]), Step(Inputs[n][1], P[1], x, Q[1])
    PROVE  Path(n, Evaluate(n, P),
                   IF Pass(n, x.t) THEN <<Delta(x.sign, x.t, Unary(n, x.d))>> ELSE <<>>, Evaluate(n, Q))
<1> DEFINE m == Inputs[n][1]
           D == P[1] \cup Q[1] \cup {Entry(x)}
           F == {e \in D : Pass(n, e.t)}
           g == [e \in D |-> e.t]
           I(X) == Rerooted(n, g, X)
<1>1. \A e \in D : g[e] = e.t
  OBVIOUS
<1> HIDE DEF g
<1>2. I(P[1] \cap F) = Evaluate(n, P) /\ I(Q[1] \cap F) = Evaluate(n, Q) /\ g[Entry(x)] = x.t
  <2>1. I(P[1] \cap F) = Evaluate(n, P)
    BY <1>1, EvaluateFilter DEF Rerooted
  <2>2. I(Q[1] \cap F) = Evaluate(n, Q)
    BY <1>1, EvaluateFilter DEF Rerooted
  <2> QED
    BY <1>1, <2>1, <2>2, EntryFacts
<1>3. CASE Pass(n, x.t)
  <2>1. Entry(x) \in F
    BY <1>3, EntryFacts
  <2> HIDE DEF F
  <2>2. Step(m, P[1] \cap F, x, Q[1] \cap F) /\ Tidy(m, P[1] \cap F)
    BY <2>1, StepRestrict, TidySubset
  <2>3. Step(n, I(P[1] \cap F), Delta(x.sign, g[Entry(x)], Unary(n, x.d)), I(Q[1] \cap F))
    BY <2>2, UnaryImage
  <2> HIDE DEF I
  <2>4. Step(n, Evaluate(n, P), Delta(x.sign, x.t, Unary(n, x.d)), Evaluate(n, Q))
    BY <1>2, <2>3
  <2> QED
    BY <1>3, <2>4, PathOne
<1>4. CASE ~Pass(n, x.t)
  <2>1. Entry(x) \notin F
    BY <1>4, EntryFacts
  <2> HIDE DEF F
  <2>2. P[1] \cap F = Q[1] \cap F
    BY <2>1 DEF Step
  <2> HIDE DEF I
  <2>3. Evaluate(n, P) = Evaluate(n, Q)
    BY <1>2, <2>2
  <2> QED
    BY <1>4, <2>3, PathNil
<1> QED
  BY <1>3, <1>4

(* Deltas of one sign, one for each member of a list. *)
Listed(s) == {Entry(s[i]) : i \in 1..Len(s)}
Made(y, B) == {Entry(y[e]) : e \in B}
Spread(n, p, B, y, s) ==
    /\ IsList(p) /\ \A i \in 1..Len(p) : p[i] \in B
    /\ \A i, j \in 1..Len(p) : p[i] = p[j] => i = j
    /\ IsList(s) /\ Len(s) = Len(p) /\ \A i \in 1..Len(p) : s[i] = y[p[i]]
    /\ \A e \in B : Formed(n, y[e].d)
    /\ \A e, f \in B : y[e].d = y[f].d => e = f
(* Deltas for each row of a bucket. *)
LEMMA SpreadFacts ==
    ASSUME NEW n, NEW p, NEW B, NEW y, NEW s, Spread(n, p, B, y, s)
    PROVE  /\ \A i \in 1..Len(s) : Formed(n, s[i].d)
           /\ \A i, j \in 1..Len(s) : s[i].d = s[j].d => i = j
           /\ Listed(s) = Made(y, RangeOf(p))
<1>1. DOMAIN p = 1..Len(p)
  BY ListFacts DEF Spread
<1>2. Listed(s) = Made(y, RangeOf(p))
  BY <1>1 DEF Made, RangeOf, Listed, Spread
<1> QED
  BY <1>2 DEF Spread

(* All of them insertions. *)
LEMMA SpreadInsert ==
    ASSUME NEW n, NEW S, NEW p, NEW B, NEW y, NEW s, Spread(n, p, B, y, s),
           \A e \in B : y[e].sign = "+" /\ \A z \in S : z.d # y[e].d
    PROVE  Path(n, S, s, S \cup Made(y, RangeOf(p)))
<1>1. /\ \A i \in 1..Len(s) : Formed(n, s[i].d)
      /\ \A i, j \in 1..Len(s) : s[i].d = s[j].d => i = j
      /\ Listed(s) = Made(y, RangeOf(p))
  BY SpreadFacts
<1>2. \A i \in 1..Len(s) : s[i].sign = "+" /\ Formed(n, s[i].d) /\ \A z \in S : z.d # s[i].d
  BY <1>1 DEF Spread
<1>3. Path(n, S, s, S \cup {Entry(s[i]) : i \in 1..Len(s)})
  BY <1>1, <1>2, PathInsert DEF Spread
<1> QED
  BY <1>1, <1>3 DEF Listed

(* All of them retractions. *)
LEMMA SpreadRetract ==
    ASSUME NEW n, NEW S, NEW p, NEW B, NEW y, NEW s, Spread(n, p, B, y, s),
           \A e \in B : y[e].sign = "-" /\ Entry(y[e]) \in S
    PROVE  Path(n, S, s, S \ Made(y, RangeOf(p)))
<1>1. /\ \A i \in 1..Len(s) : Formed(n, s[i].d)
      /\ \A i, j \in 1..Len(s) : s[i].d = s[j].d => i = j
      /\ Listed(s) = Made(y, RangeOf(p))
  BY SpreadFacts
<1>2. \A i \in 1..Len(s) : s[i].sign = "-" /\ Formed(n, s[i].d) /\ Entry(s[i]) \in S
  BY <1>1 DEF Spread
<1>3. Path(n, S, s, S \ {Entry(s[i]) : i \in 1..Len(s)})
  BY <1>1, <1>2, PathRetract DEF Spread
<1> QED
  BY <1>1, <1>3 DEF Listed

(* What an anti-join emits for a delta of its left side. *)
LEMMA AntiLeftPath ==
    ASSUME NEW n \in Op, Kind[n] = "anti", NEW P, NEW x, NEW Q,
           Tidy(Inputs[n][1], P[1]), Step(Inputs[n][1], P[1], x, Q[1]), Q[2] = P[2]
    PROVE  Path(n, Evaluate(n, P),
                   IF Bucket(P[2], n, 2, KeyOf(n, 1, x.t)) = {}
                   THEN <<Delta(x.sign, x.t, Unary(n, x.d))>> ELSE <<>>, Evaluate(n, Q))
<1> DEFINE m == Inputs[n][1]
           Alone(t) == Bucket(P[2], n, 2, KeyOf(n, 1, t)) = {}
           D == P[1] \cup Q[1] \cup {Entry(x)}
           F == {e \in D : Alone(e.t)}
           g == [e \in D |-> e.t]
           I(X) == Rerooted(n, g, X)
<1>1. \A e \in D : g[e] = e.t
  OBVIOUS
<1> HIDE DEF g, Alone
<1>2. I(P[1] \cap F) = Evaluate(n, P) /\ I(Q[1] \cap F) = Evaluate(n, Q) /\ g[Entry(x)] = x.t
  <2>1. I(P[1] \cap F) = Evaluate(n, P)
    <3>1. Evaluate(n, P) = {[t |-> e.t, d |-> Unary(n, e.d)] : e \in {e \in P[1] : Alone(e.t)}}
      BY EvaluateAnti DEF Alone
    <3> QED
      BY <1>1, <3>1 DEF Rerooted
  <2>2. I(Q[1] \cap F) = Evaluate(n, Q)
    <3>1. Evaluate(n, Q) = {[t |-> e.t, d |-> Unary(n, e.d)] : e \in {e \in Q[1] : Alone(e.t)}}
      BY EvaluateAnti DEF Alone
    <3> QED
      BY <1>1, <3>1 DEF Rerooted
  <2> QED
    BY <1>1, <2>1, <2>2, EntryFacts
<1>3. CASE Alone(x.t)
  <2>1. Entry(x) \in F
    BY <1>3, EntryFacts
  <2> HIDE DEF F
  <2>2. Step(m, P[1] \cap F, x, Q[1] \cap F) /\ Tidy(m, P[1] \cap F)
    BY <2>1, StepRestrict, TidySubset
  <2>3. Step(n, I(P[1] \cap F), Delta(x.sign, g[Entry(x)], Unary(n, x.d)), I(Q[1] \cap F))
    BY <2>2, UnaryImage
  <2> HIDE DEF I
  <2>4. Step(n, Evaluate(n, P), Delta(x.sign, x.t, Unary(n, x.d)), Evaluate(n, Q))
    BY <1>2, <2>3
  <2> QED
    BY <1>3, <2>4, PathOne DEF Alone
<1>4. CASE ~Alone(x.t)
  <2>1. Entry(x) \notin F
    BY <1>4, EntryFacts
  <2> HIDE DEF F
  <2>2. P[1] \cap F = Q[1] \cap F
    BY <2>1 DEF Step
  <2> HIDE DEF I
  <2>3. Evaluate(n, P) = Evaluate(n, Q)
    BY <1>2, <2>2
  <2> QED
    BY <1>4, <2>3, PathNil DEF Alone
<1> QED
  BY <1>3, <1>4
Parted(S, A, B, U) == A \subseteq S /\ B \subseteq S /\ A \cap B = {} /\ U = A \cup B
RerootedApart(n, g, A, B, U) ==
    /\ Rerooted(n, g, U) = Rerooted(n, g, A) \cup Rerooted(n, g, B)
    /\ Rerooted(n, g, A) = Rerooted(n, g, U) \ Rerooted(n, g, B)
    /\ \A z \in Rerooted(n, g, A) : \A e \in B : z.d # Unary(n, e.d)
(* Derivations of different rows stay different under an operator's root. *)
LEMMA RerootedParts ==
    ASSUME NEW n \in Op, Kind[n] \in {"map", "filter", "anti", "parent"}, NEW S, Tidy(Inputs[n][1], S), NEW g,
           NEW A, NEW B, NEW U, Parted(S, A, B, U)
    PROVE  RerootedApart(n, g, A, B, U)
<1>0. A \subseteq S /\ B \subseteq S /\ A \cap B = {} /\ U = A \cup B
  BY DEF Parted
<1>1. \A e, f \in S : Unary(n, e.d) = Unary(n, f.d) => e = f
  <2>1. ASSUME NEW e \in S, NEW f \in S, Unary(n, e.d) = Unary(n, f.d) PROVE e = f
    <3>1. Formed(Inputs[n][1], e.d) /\ Formed(Inputs[n][1], f.d)
      BY DEF Tidy
    <3>2. e.d = f.d
      BY <2>1, <3>1, UnaryFacts
    <3> QED
      BY <3>2 DEF Tidy
  <2> QED
    BY <2>1
<1>2. \A z \in Rerooted(n, g, A) : \A e \in B : z.d # Unary(n, e.d)
  BY <1>0, <1>1 DEF Rerooted
<1>3. Rerooted(n, g, U) = Rerooted(n, g, A) \cup Rerooted(n, g, B)
  BY <1>0 DEF Rerooted
<1>4. \A z \in Rerooted(n, g, B) : \E e \in B : z.d = Unary(n, e.d)
  BY DEF Rerooted
<1>5. Rerooted(n, g, A) \cap Rerooted(n, g, B) = {}
  BY <1>2, <1>4
<1> QED
  BY <1>2, <1>3, <1>5 DEF RerootedApart

(* A list made of another, member by member. *)
LEMMA ListMade ==
    ASSUME NEW X, NEW p \in Orders(X), NEW s, DOMAIN s = DOMAIN p, s = [i \in DOMAIN p |-> s[i]]
    PROVE  IsList(s) /\ Len(s) = Len(p)
<1>1. Len(p) \in Nat /\ DOMAIN p = 1..Len(p)
  BY OrdersFacts
<1> QED
  BY <1>1, MadeList

LEMMA OrdersOfNothing ==
    ASSUME NEW p \in Orders({})
    PROVE  Len(p) = 0
<1>1. Len(p) \in Nat /\ \A i \in 1..Len(p) : p[i] \in {}
  BY OrdersFacts
<1>2. ~(1 \in 1..Len(p))
  BY <1>1
<1> QED
  BY <1>1, <1>2

AntiSent(n, old, p) == [i \in DOMAIN p |-> Delta(IF old = 0 THEN "-" ELSE "+", p[i].t, Unary(n, p[i].d))]
AntiTouched(old, new, opp) == IF (old = 0) # (new = 0) THEN opp ELSE {}
(* What an anti-join emits when the first row of its right bucket comes or *)
(* the last one goes.                                                      *)
LEMMA AntiRightPath ==
    ASSUME NEW n \in Op, Kind[n] = "anti", NEW P, NEW x, NEW Q,
           Tidy(Inputs[n][1], P[1]), Tidy(Inputs[n][2], P[2]), Step(Inputs[n][2], P[2], x, Q[2]), Q[1] = P[1],
           NEW old, old = Cardinality(Bucket(P[2], n, 2, KeyOf(n, 2, x.t))),
           NEW new, new = Cardinality(Bucket(Q[2], n, 2, KeyOf(n, 2, x.t))),
           NEW p \in Orders(AntiTouched(old, new, Bucket(P[1], n, 1, KeyOf(n, 2, x.t)))),
           NEW s, s = AntiSent(n, old, p)
    PROVE  IsList(s) /\ Path(n, Evaluate(n, P), s, Evaluate(n, Q))
<1> USE DEF AntiSent, AntiTouched
<1> DEFINE k == KeyOf(n, 2, x.t)
           sign == IF old = 0 THEN "-" ELSE "+"
           B == Bucket(P[1], n, 1, k)
           g == [e \in P[1] |-> e.t]
           y == [e \in B |-> Delta(sign, e.t, Unary(n, e.d))]
           A == {e \in P[1] : Bucket(P[2], n, 2, KeyOf(n, 1, e.t)) = {}}
           C == {e \in P[1] : Bucket(Q[2], n, 2, KeyOf(n, 1, e.t)) = {}}
<1>1. \A e \in P[1] : g[e] = e.t
  OBVIOUS
<1>2. Evaluate(n, P) = Rerooted(n, g, A) /\ Evaluate(n, Q) = Rerooted(n, g, C)
  <2>1. Evaluate(n, P) = {[t |-> e.t, d |-> Unary(n, e.d)] : e \in A}
    BY EvaluateAnti
  <2>2. Evaluate(n, Q) = {[t |-> e.t, d |-> Unary(n, e.d)] : e \in C}
    BY EvaluateAnti
  <2>3. A \subseteq P[1] /\ C \subseteq P[1]
    OBVIOUS
  <2> HIDE DEF A, C, g
  <2>4. Evaluate(n, P) = Rerooted(n, g, A)
    BY <1>1, <2>1, <2>3 DEF Rerooted
  <2>5. Evaluate(n, Q) = Rerooted(n, g, C)
    BY <1>1, <2>2, <2>3 DEF Rerooted
  <2> QED
    BY <2>4, <2>5
<1>3. Tidy(Inputs[n][2], Q[2])
  BY StepTidy
<1>4. /\ \A e \in B : (e \in A <=> old = 0) /\ (e \in C <=> new = 0)
      /\ \A e \in P[1] : e \notin B => (e \in A <=> e \in C)
      /\ A \subseteq P[1] /\ C \subseteq P[1] /\ B \subseteq P[1]
  <2>1. \A e \in B : e \in P[1] /\ KeyOf(n, 1, e.t) = k
    BY DEF Bucket
  <2>2. (Bucket(P[2], n, 2, k) = {} <=> old = 0) /\ (Bucket(Q[2], n, 2, k) = {} <=> new = 0)
    BY <1>3, BucketFinite
  <2>3. \A e \in P[1] : e \notin B => KeyOf(n, 1, e.t) # k
    BY DEF Bucket
  <2>4. \A l : l # k => Bucket(Q[2], n, 2, l) = Bucket(P[2], n, 2, l)
    BY BucketStep
  <2> HIDE DEF B, k
  <2> QED
    BY <2>1, <2>2, <2>3, <2>4
<1> HIDE DEF A, C, g, k
<1>5. IsList(s) /\ Len(s) = Len(p) /\ DOMAIN p = 1..Len(p)
  <2>1. DOMAIN s = DOMAIN p /\ s = [i \in DOMAIN p |-> s[i]]
    OBVIOUS
  <2> QED
    BY <2>1, ListMade, OrdersFacts
<1>6. CASE (old = 0) = (new = 0)
  <2>1. A = C
    BY <1>4, <1>6
  <2>2. p \in Orders({})
    BY <1>6
  <2>3. Len(s) = 0
    BY <1>5, <2>2, OrdersOfNothing
  <2>4. s = <<>>
    BY <1>5, <2>3, ListFacts
  <2> QED
    BY <1>2, <1>5, <2>1, <2>4, PathNil
<1>7. CASE (old = 0) # (new = 0)
  <2>1. p \in Orders(B)
    BY <1>7 DEF k
  <2>2. \A e \in B : y[e] = Delta(sign, e.t, Unary(n, e.d))
    OBVIOUS
  <2>3. \A e \in B : y[e].sign = sign /\ y[e].d = Unary(n, e.d) /\ Entry(y[e]) = [t |-> e.t, d |-> Unary(n, e.d)]
    BY <2>2, DeltaFacts
  <2>4. IsList(p) /\ (\A i \in 1..Len(p) : p[i] \in B) /\ RangeOf(p) = B
        /\ \A i, j \in 1..Len(p) : p[i] = p[j] => i = j
    <3>1. /\ IsList(p) /\ DOMAIN p = 1..Len(p) /\ (\A i \in 1..Len(p) : p[i] \in B)
          /\ (\A e \in B : \E i \in 1..Len(p) : p[i] = e)
          /\ \A i, j \in 1..Len(p) : p[i] = p[j] => i = j
      BY <2>1, OrdersFacts
    <3> HIDE DEF B
    <3> QED
      BY <3>1 DEF RangeOf
  <2>5. Made(y, B) = Rerooted(n, g, B)
    <3>1. \A e \in B : Entry(y[e]) = [t |-> g[e], d |-> Unary(n, e.d)]
      BY <1>1, <1>4, <2>3
    <3> HIDE DEF y, B
    <3> QED
      BY <3>1 DEF Made, Rerooted
  <2> HIDE DEF B
  <2>6. Spread(n, p, B, y, s)
    <3>1. \A e \in B : Formed(Inputs[n][1], e.d)
      BY <1>4 DEF Tidy
    <3>2. \A e \in B : Formed(n, y[e].d)
      <4>1. \A e \in B : Formed(n, Unary(n, e.d))
        BY <3>1, UnaryFacts
      <4> QED
        BY <2>3, <4>1
    <3>3. ASSUME NEW e \in B, NEW f \in B, y[e].d = y[f].d PROVE e = f
      <4>1. Unary(n, e.d) = Unary(n, f.d)
        BY <2>3, <3>3
      <4>2. e.d = f.d
        BY <3>1, <4>1, UnaryFacts
      <4> QED
        BY <1>4, <4>2 DEF Tidy
    <3>4. \A i \in 1..Len(p) : s[i] = y[p[i]]
      BY <1>5, <2>2, <2>4
    <3> QED
      BY <1>5, <2>4, <3>2, <3>3, <3>4 DEF Spread
  <2>7. CASE old = 0
    <3>1. A = C \cup B /\ C \cap B = {}
      BY <1>4, <1>7, <2>7
    <3>2. Rerooted(n, g, C) = Rerooted(n, g, A) \ Rerooted(n, g, B)
      <4>1. Parted(P[1], C, B, A)
        BY <1>4, <3>1 DEF Parted
      <4>2. RerootedApart(n, g, C, B, A)
        BY <4>1, RerootedParts
      <4> QED
        BY <4>2 DEF RerootedApart
    <3>3. \A e \in B : Entry(y[e]) \in Rerooted(n, g, A)
      BY <1>1, <1>4, <2>3, <3>1 DEF Rerooted
    <3>4. Path(n, Rerooted(n, g, A), s, Rerooted(n, g, A) \ Made(y, RangeOf(p)))
      <4>1. \A e \in B : y[e].sign = "-" /\ Entry(y[e]) \in Rerooted(n, g, A)
        BY <2>3, <2>7, <3>3
      <4> HIDE DEF y
      <4> QED
        BY <2>6, <4>1, SpreadRetract
    <3> QED
      BY <1>2, <1>5, <2>4, <2>5, <3>2, <3>4
  <2>8. CASE old # 0
    <3>1. C = A \cup B /\ A \cap B = {}
      BY <1>4, <1>7, <2>8
    <3>2. /\ Rerooted(n, g, C) = Rerooted(n, g, A) \cup Rerooted(n, g, B)
          /\ \A z \in Rerooted(n, g, A) : \A e \in B : z.d # Unary(n, e.d)
      <4>1. Parted(P[1], A, B, C)
        BY <1>4, <3>1 DEF Parted
      <4>2. RerootedApart(n, g, A, B, C)
        BY <4>1, RerootedParts
      <4> QED
        BY <4>2 DEF RerootedApart
    <3>4. Path(n, Rerooted(n, g, A), s, Rerooted(n, g, A) \cup Made(y, RangeOf(p)))
      <4>1. \A e \in B : y[e].sign = "+" /\ \A z \in Rerooted(n, g, A) : z.d # y[e].d
        BY <2>3, <2>8, <3>2
      <4> HIDE DEF y
      <4> QED
        BY <2>6, <4>1, SpreadInsert
    <3> QED
      BY <1>2, <1>5, <2>4, <2>5, <3>2, <3>4
  <2> QED
    BY <2>7, <2>8
<1> QED
  BY <1>6, <1>7

(* The deltas of a parent count come in pairs. *)
LEMMA Halves ==
    ASSUME NEW L \in Nat, NEW i \in 1..(2 * L)
    PROVE  /\ (i + 1) \div 2 \in 1..L
           /\ i % 2 = 1 => i = 2 * ((i + 1) \div 2) - 1
           /\ i % 2 # 1 => i = 2 * ((i + 1) \div 2)
OBVIOUS

(* What a parent count emits for a delta of its left side. *)
LEMMA ParentLeftPath ==
    ASSUME NEW n \in Op, Kind[n] = "parent", NEW P, NEW x, NEW Q,
           Tidy(Inputs[n][1], P[1]), Step(Inputs[n][1], P[1], x, Q[1]), Q[2] = P[2]
    PROVE  Path(n, Evaluate(n, P),
                   <<Delta(x.sign, CountRow(KeyOf(n, 1, x.t), Cardinality(Bucket(P[2], n, 2, KeyOf(n, 1, x.t)))),
                           Unary(n, x.d))>>, Evaluate(n, Q))
<1> DEFINE Count(t) == CountRow(KeyOf(n, 1, t), Cardinality(Bucket(P[2], n, 2, KeyOf(n, 1, t))))
           D == P[1] \cup Q[1] \cup {Entry(x)}
           g == [e \in D |-> Count(e.t)]
           I(X) == Rerooted(n, g, X)
<1> HIDE DEF Count
<1>1. \A e \in D : g[e] = Count(e.t)
  OBVIOUS
<1> HIDE DEF g
<1>2. I(P[1]) = Evaluate(n, P) /\ I(Q[1]) = Evaluate(n, Q) /\ g[Entry(x)] = Count(x.t)
  <2>1. I(P[1]) = Evaluate(n, P)
    <3>1. Evaluate(n, P) = {[t |-> Count(e.t), d |-> Unary(n, e.d)] : e \in P[1]}
      BY EvaluateParent DEF Count
    <3> QED
      BY <1>1, <3>1 DEF Rerooted
  <2>2. I(Q[1]) = Evaluate(n, Q)
    <3>1. Evaluate(n, Q) = {[t |-> Count(e.t), d |-> Unary(n, e.d)] : e \in Q[1]}
      BY EvaluateParent DEF Count
    <3> QED
      BY <1>1, <3>1 DEF Rerooted
  <2> QED
    BY <1>1, <2>1, <2>2, EntryFacts
<1>3. Step(n, I(P[1]), Delta(x.sign, g[Entry(x)], Unary(n, x.d)), I(Q[1]))
  BY UnaryImage
<1> HIDE DEF I
<1>4. Step(n, Evaluate(n, P), Delta(x.sign, Count(x.t), Unary(n, x.d)), Evaluate(n, Q))
  BY <1>2, <1>3
<1> QED
  BY <1>4, PathOne DEF Count

(* Some rows as they were, some as they will be. *)
Mixed(n, g, A, f, C) == Rerooted(n, g, A) \cup Rerooted(n, f, C)
(* Half of a pair: the row with the old count goes. *)
LEMMA MixedRetract ==
    ASSUME NEW n \in Op, Kind[n] = "parent", NEW S, Tidy(Inputs[n][1], S), NEW g, NEW f,
           NEW A \in SUBSET S, NEW C \in SUBSET S, NEW B, NEW e, e \in A, e \notin C, B = A \ {e}
    PROVE  Step(n, Mixed(n, g, A, f, C), Ret(g[e], Unary(n, e.d)), Mixed(n, g, B, f, C))
<1> DEFINE y == Ret(g[e], Unary(n, e.d))
           z == [t |-> g[e], d |-> Unary(n, e.d)]
<1>1. y.sign = "-" /\ y.d = Unary(n, e.d) /\ Entry(y) = z
  BY DeltaFacts DEF Ret
<1>2. \A a \in S : Formed(Inputs[n][1], a.d)
  BY DEF Tidy
<1>3. Formed(n, y.d)
  BY <1>1, <1>2, UnaryFacts
<1>4. \A a \in S : Unary(n, a.d) = Unary(n, e.d) => a = e
  <2>1. \A a \in S : Unary(n, a.d) = Unary(n, e.d) => a.d = e.d
    BY <1>2, UnaryFacts
  <2> QED
    BY <2>1 DEF Tidy
<1>5. z \in Rerooted(n, g, A)
  BY DEF Rerooted
<1>6. z \notin Rerooted(n, f, C)
  BY <1>4 DEF Rerooted
<1>7. Rerooted(n, g, B) = Rerooted(n, g, A) \ {z}
  BY <1>4 DEF Rerooted
<1> HIDE DEF y, z
<1>8. Mixed(n, g, B, f, C) = Mixed(n, g, A, f, C) \ {z}
  BY <1>6, <1>7 DEF Mixed
<1>9. Step(n, Mixed(n, g, A, f, C), y, Mixed(n, g, B, f, C))
  BY <1>1, <1>3, <1>5, <1>8 DEF Step, Mixed
<1> QED
  BY <1>9 DEF y

(* The other half: the row with the new count comes. *)
LEMMA MixedInsert ==
    ASSUME NEW n \in Op, Kind[n] = "parent", NEW S, Tidy(Inputs[n][1], S), NEW g, NEW f,
           NEW A \in SUBSET S, NEW C \in SUBSET S, NEW B, NEW e, e \in S, e \notin A, e \notin C, B = C \cup {e}
    PROVE  Step(n, Mixed(n, g, A, f, C), Ins(f[e], Unary(n, e.d)), Mixed(n, g, A, f, B))
<1> DEFINE y == Ins(f[e], Unary(n, e.d))
           z == [t |-> f[e], d |-> Unary(n, e.d)]
<1>1. y.sign = "+" /\ y.d = Unary(n, e.d) /\ Entry(y) = z
  BY DeltaFacts DEF Ins
<1>2. \A a \in S : Formed(Inputs[n][1], a.d)
  BY DEF Tidy
<1>3. Formed(n, y.d)
  BY <1>1, <1>2, UnaryFacts
<1>4. \A a \in S : Unary(n, a.d) = Unary(n, e.d) => a = e
  <2>1. \A a \in S : Unary(n, a.d) = Unary(n, e.d) => a.d = e.d
    BY <1>2, UnaryFacts
  <2> QED
    BY <2>1 DEF Tidy
<1>5. (\A a \in Rerooted(n, g, A) : a.d # y.d) /\ (\A a \in Rerooted(n, f, C) : a.d # y.d)
  BY <1>1, <1>4 DEF Rerooted
<1>7. Rerooted(n, f, B) = Rerooted(n, f, C) \cup {z}
  BY DEF Rerooted
<1> HIDE DEF y, z
<1>8. Mixed(n, g, A, f, B) = Mixed(n, g, A, f, C) \cup {z}
  BY <1>7 DEF Mixed
<1>9. Step(n, Mixed(n, g, A, f, C), y, Mixed(n, g, A, f, B))
  BY <1>1, <1>3, <1>5, <1>8 DEF Step, Mixed
<1> QED
  BY <1>9 DEF y
ParentSent(n, old, new, p) ==
    [i \in 1..(2 * Len(p)) |->
        LET e == p[(i + 1) \div 2]
        IN  IF i % 2 = 1 THEN Ret(CountRow(KeyOf(n, 1, e.t), old), Unary(n, e.d))
                         ELSE Ins(CountRow(KeyOf(n, 1, e.t), new), Unary(n, e.d))]
(* What a parent count emits when the count of a bucket changes. *)
LEMMA ParentRightPath ==
    ASSUME NEW n \in Op, Kind[n] = "parent", NEW P, NEW x, NEW Q,
           Tidy(Inputs[n][1], P[1]), Tidy(Inputs[n][2], P[2]), Step(Inputs[n][2], P[2], x, Q[2]), Q[1] = P[1],
           NEW old, old = Cardinality(Bucket(P[2], n, 2, KeyOf(n, 2, x.t))),
           NEW new, new = Cardinality(Bucket(Q[2], n, 2, KeyOf(n, 2, x.t))),
           NEW p \in Orders(Bucket(P[1], n, 1, KeyOf(n, 2, x.t))),
           NEW s, s = ParentSent(n, old, new, p)
    PROVE  IsList(s) /\ Path(n, Evaluate(n, P), s, Evaluate(n, Q))
<1> USE DEF ParentSent
<1> DEFINE k == KeyOf(n, 2, x.t)
           B == Bucket(P[1], n, 1, k)
           L == Len(p)
           g == [e \in P[1] |-> CountRow(KeyOf(n, 1, e.t), Cardinality(Bucket(P[2], n, 2, KeyOf(n, 1, e.t))))]
           f == [e \in P[1] |-> CountRow(KeyOf(n, 1, e.t), Cardinality(Bucket(Q[2], n, 2, KeyOf(n, 1, e.t))))]
           A(i) == {e \in P[1] : \A j \in 1..L : p[j] = e => i <= 2 * j - 2}
           C(i) == {e \in P[1] : \E j \in 1..L : p[j] = e /\ 2 * j <= i}
           h == [i \in 0..(2 * L) |-> Mixed(n, g, A(i), f, C(i))]
<1>1. /\ L \in Nat /\ (\A i \in 1..L : p[i] \in B) /\ (\A e \in B : \E i \in 1..L : p[i] = e)
      /\ \A i, j \in 1..L : p[i] = p[j] => i = j
  BY OrdersFacts
<1>2. B \subseteq P[1] /\ (\A e \in B : KeyOf(n, 1, e.t) = k) /\ (\A e \in P[1] : e \notin B => KeyOf(n, 1, e.t) # k)
  BY DEF Bucket
<1>3. /\ Evaluate(n, P) = Rerooted(n, g, P[1]) /\ Evaluate(n, Q) = Rerooted(n, f, P[1])
      /\ \A e \in B : g[e] = CountRow(KeyOf(n, 1, e.t), old) /\ f[e] = CountRow(KeyOf(n, 1, e.t), new)
      /\ \A e \in P[1] : e \notin B => g[e] = f[e]
  <2> DEFINE Count(R, t) == Cardinality(Bucket(R, n, 2, KeyOf(n, 1, t)))
  <2>1. \A e \in P[1] : g[e] = CountRow(KeyOf(n, 1, e.t), Count(P[2], e.t))
    OBVIOUS
  <2>2. \A e \in P[1] : f[e] = CountRow(KeyOf(n, 1, e.t), Count(Q[2], e.t))
    OBVIOUS
  <2>3. Evaluate(n, P) = {[t |-> CountRow(KeyOf(n, 1, e.t), Count(P[2], e.t)), d |-> Unary(n, e.d)] : e \in P[1]}
    BY EvaluateParent
  <2>4. Evaluate(n, Q) = {[t |-> CountRow(KeyOf(n, 1, e.t), Count(Q[2], e.t)), d |-> Unary(n, e.d)] : e \in P[1]}
    BY EvaluateParent
  <2>5. \A e \in B : Count(P[2], e.t) = old /\ Count(Q[2], e.t) = new
    BY <1>2
  <2>6. \A l : l # k => Bucket(Q[2], n, 2, l) = Bucket(P[2], n, 2, l)
    BY BucketStep
  <2>7. \A e \in P[1] : e \notin B => Count(P[2], e.t) = Count(Q[2], e.t)
    BY <1>2, <2>6
  <2> HIDE DEF g, f, Count, B
  <2>8. Evaluate(n, P) = Rerooted(n, g, P[1])
    BY <2>1, <2>3 DEF Rerooted
  <2>9. Evaluate(n, Q) = Rerooted(n, f, P[1])
    BY <2>2, <2>4 DEF Rerooted
  <2> QED
    BY <1>2, <2>1, <2>2, <2>5, <2>7, <2>8, <2>9
<1> HIDE DEF g, f, B
<1>4. /\ DOMAIN s = 1..(2 * L) /\ s = [i \in 1..(2 * L) |-> s[i]]
      /\ \A i \in 1..(2 * L) : LET e == p[(i + 1) \div 2]
                               IN  s[i] = IF i % 2 = 1 THEN Ret(CountRow(KeyOf(n, 1, e.t), old), Unary(n, e.d))
                                                       ELSE Ins(CountRow(KeyOf(n, 1, e.t), new), Unary(n, e.d))
  OBVIOUS
<1>5. IsList(s) /\ Len(s) = 2 * L
  <2>1. 2 * L \in Nat
    BY <1>1
  <2> QED
    BY <1>4, <2>1, MadeList
<1>6. \A i \in 0..(2 * L) : h[i] = Mixed(n, g, A(i), f, C(i)) /\ A(i) \in SUBSET P[1] /\ C(i) \in SUBSET P[1]
  OBVIOUS
<1>7. A(0) = P[1] /\ C(0) = {} /\ A(2 * L) = P[1] \ B /\ C(2 * L) = B
  BY <1>1, <1>2
<1>8. h[0] = Evaluate(n, P)
  <2>1. Rerooted(n, f, {}) = {}
    BY DEF Rerooted
  <2>2. 0 \in 0..(2 * L)
    BY <1>1
  <2> HIDE DEF h, A, C
  <2>3. h[0] = Rerooted(n, g, P[1]) \cup Rerooted(n, f, {})
    BY <1>6, <1>7, <2>2 DEF Mixed
  <2> QED
    BY <1>3, <2>1, <2>3
<1>9. h[2 * L] = Evaluate(n, Q)
  <2>1. Rerooted(n, g, P[1] \ B) \cup Rerooted(n, f, B) = Rerooted(n, f, P[1])
    <3>1. Rerooted(n, g, P[1] \ B) = Rerooted(n, f, P[1] \ B)
      BY <1>3 DEF Rerooted
    <3>2. Rerooted(n, f, P[1] \ B) \cup Rerooted(n, f, B) = Rerooted(n, f, P[1])
      BY <1>2 DEF Rerooted
    <3> QED
      BY <3>1, <3>2
  <2>2. 2 * L \in 0..(2 * L)
    BY <1>1
  <2> HIDE DEF h, A, C
  <2>3. h[2 * L] = Rerooted(n, g, P[1] \ B) \cup Rerooted(n, f, B)
    BY <1>6, <1>7, <2>2 DEF Mixed
  <2> QED
    BY <1>3, <2>1, <2>3
<1>10. ASSUME NEW i \in 1..(2 * L) PROVE Step(n, h[i - 1], s[i], h[i])
  <2> DEFINE j == (i + 1) \div 2
             e == p[j]
  <2>1. j \in 1..L /\ (i % 2 = 1 => i = 2 * j - 1) /\ (i % 2 # 1 => i = 2 * j)
    BY <1>1, Halves
  <2>2. i - 1 \in 0..(2 * L) /\ i \in 0..(2 * L)
    BY <1>1
  <2>3. e \in B /\ e \in P[1] /\ \A l \in 1..L : p[l] = e <=> l = j
    BY <1>1, <1>2, <2>1
  <2>4. s[i] = IF i % 2 = 1 THEN Ret(g[e], Unary(n, e.d)) ELSE Ins(f[e], Unary(n, e.d))
    BY <1>3, <1>4, <2>3
  <2> HIDE DEF j
  <2>5. CASE i % 2 = 1
    <3>1. i = 2 * j - 1
      BY <2>1, <2>5
    <3>2. e \in A(i - 1) /\ e \notin C(i - 1)
      BY <2>1, <2>3, <3>1
    <3>3. A(i) = A(i - 1) \ {e}
      <4>1. ASSUME NEW a \in P[1] PROVE (a \in A(i)) <=> (a \in A(i - 1) /\ a # e)
        <5>1. CASE a = e
          BY <2>1, <2>3, <3>1, <5>1
        <5>2. CASE a # e
          <6>1. \A l \in 1..L : p[l] = a => l # j
            BY <5>2
          <6>2. \A l \in 1..L : l # j => (i <= 2 * l - 2 <=> i - 1 <= 2 * l - 2)
            BY <1>1, <2>1, <3>1
          <6> QED
            BY <5>2, <6>1, <6>2
        <5> QED
          BY <5>1, <5>2
      <4> QED
        BY <4>1
    <3>4. C(i) = C(i - 1)
      <4>1. \A l \in 1..L : 2 * l <= i <=> 2 * l <= i - 1
        BY <1>1, <2>1, <3>1
      <4> QED
        BY <4>1
    <3> HIDE DEF A, C, h, e
    <3>5. Step(n, Mixed(n, g, A(i - 1), f, C(i - 1)), Ret(g[e], Unary(n, e.d)), Mixed(n, g, A(i), f, C(i - 1)))
      BY <1>6, <2>2, <3>2, <3>3, MixedRetract
    <3> QED
      BY <1>6, <2>2, <2>4, <2>5, <3>4, <3>5
  <2>6. CASE i % 2 # 1
    <3>1. i = 2 * j
      BY <2>1, <2>6
    <3>2. e \notin A(i - 1) /\ e \notin C(i - 1)
      BY <2>1, <2>3, <3>1
    <3>3. C(i) = C(i - 1) \cup {e}
      <4>1. ASSUME NEW a \in P[1] PROVE (a \in C(i)) <=> (a \in C(i - 1) \/ a = e)
        <5>1. CASE a = e
          BY <2>1, <2>3, <3>1, <5>1
        <5>2. CASE a # e
          <6>1. \A l \in 1..L : p[l] = a => l # j
            BY <5>2
          <6>2. \A l \in 1..L : l # j => (2 * l <= i <=> 2 * l <= i - 1)
            BY <1>1, <2>1, <3>1
          <6> QED
            BY <5>2, <6>1, <6>2
        <5> QED
          BY <5>1, <5>2
      <4> QED
        BY <2>3, <4>1
    <3>4. A(i) = A(i - 1)
      <4>1. \A l \in 1..L : i <= 2 * l - 2 <=> i - 1 <= 2 * l - 2
        BY <1>1, <2>1, <3>1
      <4> QED
        BY <4>1
    <3> HIDE DEF A, C, h, e
    <3>5. Step(n, Mixed(n, g, A(i - 1), f, C(i - 1)), Ins(f[e], Unary(n, e.d)), Mixed(n, g, A(i - 1), f, C(i)))
      BY <1>6, <2>2, <2>3, <3>2, <3>3, MixedInsert
    <3> QED
      BY <1>6, <2>2, <2>4, <2>6, <3>4, <3>5
  <2> QED
    BY <2>5, <2>6
<1> HIDE DEF h
<1> QED
  BY <1>5, <1>8, <1>9, <1>10 DEF Path, Follows

(* A support index does what the delta says. *)
LEMMA SupportIs ==
    ASSUME NEW m, NEW S, NEW x, NEW T, Step(m, S, x, T)
    PROVE  Support(S, x) = T
BY DEF Step, Support

(* A row is supported when some entry has it. *)
LEMMA SupportedFacts ==
    ASSUME NEW S, IsFiniteSet(S), NEW t
    PROVE  Supported(S, t) \in Nat /\ (Supported(S, t) = 0 <=> \A e \in S : e.t # t)
<1> DEFINE B == {e \in S : e.t = t}
<1>1. B \in SUBSET S
  OBVIOUS
<1>2. IsFiniteSet(B)
  BY <1>1, FS_Subset
<1>3. B = {} <=> \A e \in S : e.t # t
  OBVIOUS
<1> HIDE DEF B
<1>4. Cardinality(B) \in Nat /\ (Cardinality(B) = 0 <=> B = {})
  BY <1>2, FS_CardinalityType, FS_EmptySet
<1> QED
  BY <1>3, <1>4 DEF Supported, B

(* What Distinct emits: the first support of a row comes, the last one     *)
(* goes.                                                                   *)
LEMMA DistinctPath ==
    ASSUME NEW n \in Op, Kind[n] = "distinct", NEW P, NEW x, NEW Q,
           Tidy(Inputs[n][1], P[1]), Step(Inputs[n][1], P[1], x, Q[1]),
           NEW old, old = Supported(P[1], x.t), NEW new, new = Supported(Q[1], x.t)
    PROVE  Path(n, Evaluate(n, P),
                   IF (x.sign = "+" /\ old = 0) \/ (x.sign = "-" /\ old > 0 /\ new = 0)
                   THEN <<Delta(x.sign, x.t, Distinct(n, x.t))>> ELSE <<>>, Evaluate(n, Q))
<1> DEFINE m == Inputs[n][1]
           y == Delta(x.sign, x.t, Distinct(n, x.t))
           z == [t |-> x.t, d |-> Distinct(n, x.t)]
           I(X) == {[t |-> e.t, d |-> Distinct(n, e.t)] : e \in X}
<1>1. Evaluate(n, P) = I(P[1]) /\ Evaluate(n, Q) = I(Q[1])
  BY EvaluateDistinct
<1>2. Tidy(m, Q[1])
  BY StepTidy
<1>3. /\ old \in Nat /\ (old = 0 <=> \A e \in P[1] : e.t # x.t)
      /\ new \in Nat /\ (new = 0 <=> \A e \in Q[1] : e.t # x.t)
  BY <1>2, SupportedFacts DEF Tidy
<1>4. y.sign = x.sign /\ y.d = Distinct(n, x.t) /\ Entry(y) = z
  BY DeltaFacts
<1>5. Formed(n, y.d) /\ \A t : Distinct(n, t) = y.d => t = x.t
  BY <1>4, KeyedFacts
<1>6. Entry(x).t = x.t
  BY EntryFacts
<1>7. \A X : \A a \in I(X) : a.d = y.d => \E e \in X : e.t = x.t
  BY <1>5
<1> HIDE DEF y
<1>8. CASE x.sign = "+"
  <2>1. Q[1] = P[1] \cup {Entry(x)}
    BY <1>8 DEF Step
  <2>2. I(Q[1]) = I(P[1]) \cup {z}
    BY <1>6, <2>1
  <2>3. CASE old = 0
    <3>1. \A a \in I(P[1]) : a.d # y.d
      BY <1>3, <1>7, <2>3
    <3> HIDE DEF I, z
    <3>2. Step(n, I(P[1]), y, I(Q[1]))
      BY <1>4, <1>5, <1>8, <2>2, <3>1 DEF Step
    <3>3. Step(n, Evaluate(n, P), y, Evaluate(n, Q))
      BY <1>1, <3>2
    <3> QED
      BY <1>8, <2>3, <3>3, PathOne DEF y
  <2>4. CASE old # 0
    <3>1. PICK e \in P[1] : e.t = x.t
      BY <1>3, <2>4
    <3>2. z \in I(P[1])
      BY <3>1
    <3> HIDE DEF I
    <3>3. Evaluate(n, P) = Evaluate(n, Q)
      BY <1>1, <2>2, <3>2
    <3> QED
      BY <1>8, <2>4, <3>3, PathNil
  <2> QED
    BY <2>3, <2>4
<1>9. CASE x.sign = "-"
  <2>1. Q[1] = P[1] \ {Entry(x)} /\ Entry(x) \in P[1]
    BY <1>9 DEF Step
  <2>2. old > 0
    BY <1>3, <1>6, <2>1
  <2>3. CASE new = 0
    <3>1. \A e \in P[1] : e \in Q[1] <=> e.t # x.t
      BY <1>3, <1>6, <2>1, <2>3
    <3>2. z \in I(P[1])
      BY <1>6, <2>1
    <3>3. I(Q[1]) = I(P[1]) \ {z}
      <4>1. \A e \in P[1] : [t |-> e.t, d |-> Distinct(n, e.t)] = z <=> e.t = x.t
        OBVIOUS
      <4> QED
        BY <2>1, <3>1, <4>1
    <3> HIDE DEF I, z
    <3>4. Step(n, I(P[1]), y, I(Q[1]))
      BY <1>4, <1>5, <1>9, <3>2, <3>3 DEF Step
    <3>5. Step(n, Evaluate(n, P), y, Evaluate(n, Q))
      BY <1>1, <3>4
    <3> QED
      BY <1>9, <2>2, <2>3, <3>5, PathOne DEF y
  <2>4. CASE new # 0
    <3>1. PICK e \in Q[1] : e.t = x.t
      BY <1>3, <2>4
    <3>2. I(Q[1]) = I(P[1])
      BY <1>6, <2>1, <3>1
    <3> HIDE DEF I
    <3>3. Evaluate(n, P) = Evaluate(n, Q)
      BY <1>1, <3>2
    <3> QED
      BY <1>9, <2>4, <3>3, PathNil
  <2> QED
    BY <2>3, <2>4
<1> QED
  BY <1>8, <1>9 DEF Step
-----------------------------------------------------------------------------
(* Joins. *)

(* What a row on side i makes with a row of the other side. *)
Paired(n, i, a, b) ==
    IF i = 1 THEN [t |-> Merge(n, a.t, b.t), d |-> Joined(n, a.d, b.d)]
             ELSE [t |-> Merge(n, b.t, a.t), d |-> Joined(n, b.d, a.d)]
Match(n, i, x, X) == {Paired(n, i, x, e) : e \in X}

(* A join that has worked a delta in but still has to report the matches    *)
(* in X shows the rows of before for those.                                *)
Half(n, P, i, x, X) ==
    IF x.sign = "+" THEN Evaluate(n, P) \ Match(n, i, x, X) ELSE Evaluate(n, P) \cup Match(n, i, x, X)
Halfway(n, P, i, x, X) ==
    /\ i \in {1, 2} /\ Formed(Inputs[n][i], x.d)
    /\ X \subseteq Bucket(P[3 - i], n, 3 - i, KeyOf(n, i, x.t))
    /\ \/ x.sign = "+" /\ Entry(x) \in P[i]
       \/ x.sign = "-" /\ \A e \in P[i] : e.d # x.d
BothTidy(n, P) == Tidy(Inputs[n][1], P[1]) /\ Tidy(Inputs[n][2], P[2])

(* The derivation of a match determines both rows. *)
LEMMA PairedFacts ==
    ASSUME NEW n \in Op, Kind[n] = "join", NEW i \in {1, 2},
           NEW a, Formed(Inputs[n][i], a.d), NEW b, Formed(Inputs[n][3 - i], b.d)
    PROVE  /\ Formed(n, Paired(n, i, a, b).d)
           /\ \A e, f : /\ Formed(Inputs[n][i], e.d) /\ Formed(Inputs[n][3 - i], f.d)
                        /\ Paired(n, i, e, f).d = Paired(n, i, a, b).d
                        => e.d = a.d /\ f.d = b.d
<1>1. CASE i = 1
  <2>1. Formed(Inputs[n][1], a.d) /\ Formed(Inputs[n][2], b.d)
    BY <1>1
  <2>2. \A e, f : Paired(n, i, e, f).d = Joined(n, e.d, f.d)
    BY <1>1 DEF Paired
  <2>3. Formed(n, Joined(n, a.d, b.d))
    BY <2>1, JoinedFacts
  <2>4. ASSUME NEW e, NEW f, Formed(Inputs[n][i], e.d), Formed(Inputs[n][3 - i], f.d),
               Paired(n, i, e, f).d = Paired(n, i, a, b).d
        PROVE  e.d = a.d /\ f.d = b.d
    <3>1. Formed(Inputs[n][1], e.d) /\ Formed(Inputs[n][2], f.d) /\ Joined(n, e.d, f.d) = Joined(n, a.d, b.d)
      BY <1>1, <2>2, <2>4
    <3> QED
      BY <2>1, <3>1, JoinedFacts
  <2> QED
    BY <2>2, <2>3, <2>4
<1>2. CASE i = 2
  <2>1. Formed(Inputs[n][2], a.d) /\ Formed(Inputs[n][1], b.d)
    BY <1>2
  <2>2. \A e, f : Paired(n, i, e, f).d = Joined(n, f.d, e.d)
    BY <1>2 DEF Paired
  <2>3. Formed(n, Joined(n, b.d, a.d))
    BY <2>1, JoinedFacts
  <2>4. ASSUME NEW e, NEW f, Formed(Inputs[n][i], e.d), Formed(Inputs[n][3 - i], f.d),
               Paired(n, i, e, f).d = Paired(n, i, a, b).d
        PROVE  e.d = a.d /\ f.d = b.d
    <3>1. Formed(Inputs[n][2], e.d) /\ Formed(Inputs[n][1], f.d) /\ Joined(n, f.d, e.d) = Joined(n, b.d, a.d)
      BY <1>2, <2>2, <2>4
    <3> QED
      BY <2>1, <3>1, JoinedFacts
  <2> QED
    BY <2>2, <2>3, <2>4
<1> QED
  BY <1>1, <1>2

(* The rows of a join, seen from either side. *)
LEMMA CrossIs ==
    ASSUME NEW n, Kind[n] = "join", NEW P, NEW i \in {1, 2}, NEW z
    PROVE  z \in Evaluate(n, P) <=>
             \E a \in P[i], b \in P[3 - i] : KeyOf(n, i, a.t) = KeyOf(n, 3 - i, b.t) /\ z = Paired(n, i, a, b)
<1> DEFINE M(a, b) == [t |-> Merge(n, a.t, b.t), d |-> Joined(n, a.d, b.d)]
<1>1. z \in Evaluate(n, P) <=>
        \E a \in P[1], b \in P[2] : KeyOf(n, 1, a.t) = KeyOf(n, 2, b.t) /\ z = M(a, b)
  <2>1. Evaluate(n, P) = {M(p[1], p[2]) : p \in {p \in P[1] \X P[2] : KeyOf(n, 1, p[1].t) = KeyOf(n, 2, p[2].t)}}
    BY EvaluateJoin
  <2> HIDE DEF M
  <2>3. ASSUME z \in Evaluate(n, P)
        PROVE  \E a \in P[1], b \in P[2] : KeyOf(n, 1, a.t) = KeyOf(n, 2, b.t) /\ z = M(a, b)
    <3>1. PICK p \in P[1] \X P[2] : KeyOf(n, 1, p[1].t) = KeyOf(n, 2, p[2].t) /\ z = M(p[1], p[2])
      BY <2>1, <2>3
    <3>2. p[1] \in P[1] /\ p[2] \in P[2]
      OBVIOUS
    <3> QED
      BY <3>1, <3>2
  <2>4. ASSUME NEW a \in P[1], NEW b \in P[2], KeyOf(n, 1, a.t) = KeyOf(n, 2, b.t), z = M(a, b)
        PROVE  z \in Evaluate(n, P)
    <3> DEFINE p == <<a, b>>
    <3>1. p \in P[1] \X P[2] /\ p[1] = a /\ p[2] = b
      OBVIOUS
    <3> HIDE DEF p
    <3>2. p \in {r \in P[1] \X P[2] : KeyOf(n, 1, r[1].t) = KeyOf(n, 2, r[2].t)} /\ z = M(p[1], p[2])
      BY <2>4, <3>1
    <3> QED
      BY <2>1, <3>2
  <2> QED
    BY <2>3, <2>4
<1>2. CASE i = 1
  <2>1. \A a, b : Paired(n, i, a, b) = M(a, b)
    BY <1>2 DEF Paired
  <2> HIDE DEF M
  <2> QED
    BY <1>1, <1>2, <2>1
<1>3. CASE i = 2
  <2>1. \A a, b : Paired(n, i, a, b) = M(b, a)
    BY <1>3 DEF Paired
  <2> HIDE DEF M
  <2> QED
    BY <1>1, <1>3, <2>1
<1> QED
  BY <1>2, <1>3

(* The matches of one row. *)
LEMMA MatchIs ==
    ASSUME NEW n, NEW i, NEW x, NEW X, NEW z
    PROVE  /\ z \in Match(n, i, x, X) <=> \E e \in X : z = Paired(n, i, x, e)
           /\ \A b : Paired(n, i, Entry(x), b) = Paired(n, i, x, b)
BY EntryFacts DEF Match, Paired

(* A delta that has been worked in is halfway there. *)
LEMMA JoinStart ==
    ASSUME NEW n \in Op, Kind[n] = "join", NEW P, NEW x, NEW Q, NEW i \in {1, 2}, BothTidy(n, P),
           Step(Inputs[n][i], P[i], x, Q[i]), Q[3 - i] = P[3 - i],
           NEW B, B = Bucket(Q[3 - i], n, 3 - i, KeyOf(n, i, x.t))
    PROVE  Half(n, Q, i, x, B) = Evaluate(n, P) /\ Halfway(n, Q, i, x, B) /\ BothTidy(n, Q)
<1>1. Tidy(Inputs[n][i], P[i]) /\ Tidy(Inputs[n][3 - i], P[3 - i])
  BY DEF BothTidy
<1>2. Tidy(Inputs[n][i], Q[i]) /\ Tidy(Inputs[n][3 - i], Q[3 - i])
  BY <1>1, StepTidy
<1>3. BothTidy(n, Q)
  BY <1>2 DEF BothTidy
<1>4. Halfway(n, Q, i, x, B)
  <2>1. x.sign = "-" => \A e \in Q[i] : e.d # x.d
    BY <1>1, EntryFacts DEF Step, Tidy
  <2> QED
    BY <2>1 DEF Halfway, Step
<1>5. \A b : b \in B <=> b \in P[3 - i] /\ KeyOf(n, 3 - i, b.t) = KeyOf(n, i, x.t)
  BY DEF Bucket
<1>6. Entry(x).t = x.t /\ Entry(x).d = x.d /\ Formed(Inputs[n][i], x.d)
  BY EntryFacts DEF Step
<1> DEFINE J(R, z) == \E a \in R, b \in P[3 - i] : KeyOf(n, i, a.t) = KeyOf(n, 3 - i, b.t) /\ z = Paired(n, i, a, b)
<1>7. \A z : (z \in Evaluate(n, P) <=> J(P[i], z)) /\ (z \in Evaluate(n, Q) <=> J(Q[i], z))
  BY CrossIs
<1>8. \A z : z \in Match(n, i, x, B) <=> J({Entry(x)}, z)
  <2>1. ASSUME NEW z, z \in Match(n, i, x, B) PROVE J({Entry(x)}, z)
    <3>1. PICK b \in B : z = Paired(n, i, Entry(x), b)
      BY <2>1, MatchIs
    <3> QED
      BY <1>5, <1>6, <3>1
  <2>2. ASSUME NEW z, J({Entry(x)}, z) PROVE z \in Match(n, i, x, B)
    <3>1. PICK b \in P[3 - i] : KeyOf(n, i, Entry(x).t) = KeyOf(n, 3 - i, b.t) /\ z = Paired(n, i, Entry(x), b)
      BY <2>2
    <3>2. b \in B
      BY <1>5, <1>6, <3>1
    <3>3. Paired(n, i, Entry(x), b) = Paired(n, i, x, b)
      BY MatchIs
    <3> QED
      BY <3>1, <3>2, <3>3 DEF Match
  <2> QED
    BY <2>1, <2>2
<1>9. CASE x.sign = "+"
  <2>1. Q[i] = P[i] \cup {Entry(x)} /\ \A e \in P[i] : e.d # x.d
    BY <1>9 DEF Step
  <2>2. \A z : J(Q[i], z) <=> J(P[i], z) \/ J({Entry(x)}, z)
    BY <2>1
  <2>3. ASSUME NEW z, J(P[i], z), J({Entry(x)}, z) PROVE FALSE
    <3>1. PICK a \in P[i], b \in P[3 - i] : z = Paired(n, i, a, b)
      BY <2>3
    <3>2. PICK c \in P[3 - i] : z = Paired(n, i, Entry(x), c)
      BY <2>3
    <3>3. /\ Formed(Inputs[n][i], a.d) /\ Formed(Inputs[n][3 - i], b.d) /\ Formed(Inputs[n][i], Entry(x).d)
          /\ Formed(Inputs[n][3 - i], c.d)
      BY <1>1, <1>6 DEF Tidy
    <3>4. Paired(n, i, a, b).d = Paired(n, i, Entry(x), c).d
      BY <3>1, <3>2
    <3>5. a.d = Entry(x).d
      <4> HIDE DEF J
      <4> QED
        BY <3>3, <3>4, PairedFacts
    <3> QED
      BY <1>6, <2>1, <3>5
  <2> HIDE DEF J
  <2>4. \A z : z \in Evaluate(n, P) <=> z \in Evaluate(n, Q) /\ z \notin Match(n, i, x, B)
    BY <1>7, <1>8, <2>2, <2>3
  <2>5. Evaluate(n, P) = Evaluate(n, Q) \ Match(n, i, x, B)
    BY <2>4
  <2> QED
    BY <1>3, <1>4, <1>9, <2>5 DEF Half
<1>10. CASE x.sign = "-"
  <2>1. P[i] = Q[i] \cup {Entry(x)}
    BY <1>10 DEF Step
  <2>2. \A z : J(P[i], z) <=> J(Q[i], z) \/ J({Entry(x)}, z)
    BY <2>1
  <2> HIDE DEF J
  <2>4. \A z : z \in Evaluate(n, P) <=> z \in Evaluate(n, Q) \/ z \in Match(n, i, x, B)
    BY <1>7, <1>8, <2>2
  <2>5. Evaluate(n, P) = Evaluate(n, Q) \cup Match(n, i, x, B)
    BY <2>4
  <2> QED
    BY <1>3, <1>4, <1>10, <2>5 DEF Half
<1> QED
  BY <1>9, <1>10 DEF Step

(* With nothing left to come the join shows everything. *)
LEMMA HalfDone ==
    ASSUME NEW n, NEW P, NEW i, NEW x
    PROVE  Half(n, P, i, x, {}) = Evaluate(n, P)
<1>1. Match(n, i, x, {}) = {}
  BY DEF Match
<1> QED
  BY <1>1 DEF Half

(* A page of matches goes some of the rest of the way. *)
LEMMA JoinPage ==
    ASSUME NEW n \in Op, Kind[n] = "join", NEW P, BothTidy(n, P), NEW i, NEW x, NEW X, Halfway(n, P, i, x, X),
           NEW p, IsList(p), \A j \in 1..Len(p) : p[j] \in X,
           \A j, l \in 1..Len(p) : p[j] = p[l] => j = l,
           NEW s, IsList(s), Len(s) = Len(p),
           \A j \in 1..Len(p) : s[j] = Delta(x.sign, Paired(n, i, x, p[j]).t, Paired(n, i, x, p[j]).d),
           NEW Y, Y = X \ RangeOf(p)
    PROVE  Path(n, Half(n, P, i, x, X), s, Half(n, P, i, x, Y)) /\ Halfway(n, P, i, x, Y)
<1> DEFINE y == [e \in X |-> Delta(x.sign, Paired(n, i, x, e).t, Paired(n, i, x, e).d)]
           R == RangeOf(p)
<1>1. i \in {1, 2} /\ Formed(Inputs[n][i], x.d)
  BY DEF Halfway
<1>2. Tidy(Inputs[n][i], P[i]) /\ Tidy(Inputs[n][3 - i], P[3 - i])
  BY <1>1 DEF BothTidy
<1>3. \A e \in X : e \in P[3 - i] /\ KeyOf(n, 3 - i, e.t) = KeyOf(n, i, x.t) /\ Formed(Inputs[n][3 - i], e.d)
  BY <1>2 DEF Halfway, Bucket, Tidy
<1>4. \A e \in X : Formed(n, Paired(n, i, x, e).d)
  BY <1>1, <1>3, PairedFacts
<1>5. \A e, f \in X : Paired(n, i, x, e).d = Paired(n, i, x, f).d => e = f
  <2>1. ASSUME NEW e \in X, NEW f \in X, Paired(n, i, x, e).d = Paired(n, i, x, f).d PROVE e = f
    <3>1. e.d = f.d
      BY <1>1, <1>3, <2>1, PairedFacts
    <3> QED
      BY <1>2, <1>3, <3>1 DEF Tidy
  <2> QED
    BY <2>1
<1>6. /\ \A e \in X : y[e] = Delta(x.sign, Paired(n, i, x, e).t, Paired(n, i, x, e).d)
  OBVIOUS
<1>7. \A e \in X : y[e].sign = x.sign /\ y[e].d = Paired(n, i, x, e).d /\ Entry(y[e]) = Paired(n, i, x, e)
  <2>1. \A e \in X : Entry(y[e]) = [t |-> Paired(n, i, x, e).t, d |-> Paired(n, i, x, e).d]
    BY <1>6, DeltaFacts
  <2>2. \A e : [t |-> Paired(n, i, x, e).t, d |-> Paired(n, i, x, e).d] = Paired(n, i, x, e)
    BY DEF Paired
  <2>3. \A e \in X : Entry(y[e]) = Paired(n, i, x, e)
    BY <2>1, <2>2
  <2>4. \A e \in X : y[e].sign = x.sign /\ y[e].d = Paired(n, i, x, e).d
    BY <1>6, DeltaFacts
  <2> QED
    BY <2>3, <2>4
<1> HIDE DEF y
<1>8. R \subseteq X /\ Y \subseteq X /\ X = Y \cup R /\ Y \cap R = {}
  <2>1. DOMAIN p = 1..Len(p)
    BY ListFacts
  <2>2. R \subseteq X
    BY <2>1 DEF RangeOf
  <2> QED
    BY <2>2
<1>9. Made(y, R) = Match(n, i, x, R)
  <2> HIDE DEF R
  <2> QED
    BY <1>7, <1>8 DEF Made, Match
<1>10. Spread(n, p, X, y, s)
  <2>1. \A e \in X : Formed(n, y[e].d)
    BY <1>4, <1>7
  <2>2. \A e, f \in X : y[e].d = y[f].d => e = f
    BY <1>5, <1>7
  <2>3. \A j \in 1..Len(p) : s[j] = y[p[j]]
    BY <1>6
  <2> QED
    BY <2>1, <2>2, <2>3 DEF Spread
<1>18. R = RangeOf(p)
  OBVIOUS
<1> HIDE DEF R
<1>11. Halfway(n, P, i, x, Y)
  BY <1>8 DEF Halfway
<1>12. Match(n, i, x, X) = Match(n, i, x, Y) \cup Match(n, i, x, R)
  BY <1>8 DEF Match
<1>13. Match(n, i, x, Y) \cap Match(n, i, x, R) = {}
  <2>1. \A e \in Y, f \in R : Paired(n, i, x, e) # Paired(n, i, x, f)
    BY <1>5, <1>8
  <2> QED
    BY <2>1 DEF Match
<1>14. \A z \in Evaluate(n, P) : \E a \in P[i], b \in P[3 - i] : KeyOf(n, i, a.t) = KeyOf(n, 3 - i, b.t) /\ z = Paired(n, i, a, b)
  BY <1>1, CrossIs
<1>15. ASSUME NEW z \in Evaluate(n, P), NEW e \in X, z.d = Paired(n, i, x, e).d
       PROVE  \E a \in P[i] : a.d = x.d /\ z = Paired(n, i, a, e)
  <2>1. PICK a \in P[i], b \in P[3 - i] : z = Paired(n, i, a, b)
    BY <1>14
  <2>2. Formed(Inputs[n][i], a.d) /\ Formed(Inputs[n][3 - i], b.d)
    BY <1>2 DEF Tidy
  <2>3. Paired(n, i, a, b).d = Paired(n, i, x, e).d
    BY <1>15, <2>1
  <2>4. a.d = x.d /\ b.d = e.d
    BY <1>1, <1>3, <2>2, <2>3, PairedFacts
  <2>5. b = e
    BY <1>2, <1>3, <2>4 DEF Tidy
  <2> QED
    BY <2>1, <2>4, <2>5
<1>16. CASE x.sign = "+"
  <2>1. Entry(x) \in P[i]
    BY <1>16 DEF Halfway
  <2>2. \A e \in X : Paired(n, i, x, e) \in Evaluate(n, P)
    <3>1. ASSUME NEW e \in X PROVE Paired(n, i, Entry(x), e) \in Evaluate(n, P)
      <4>1. e \in P[3 - i] /\ KeyOf(n, i, Entry(x).t) = KeyOf(n, 3 - i, e.t)
        BY <1>3, EntryFacts
      <4> QED
        BY <1>1, <2>1, <4>1, CrossIs
    <3>2. \A e : Paired(n, i, Entry(x), e) = Paired(n, i, x, e)
      BY EntryFacts DEF Paired
    <3> QED
      BY <3>1, <3>2
  <2>3. Match(n, i, x, R) \subseteq Evaluate(n, P)
    BY <1>8, <2>2 DEF Match
  <2>4. ASSUME NEW z \in Half(n, P, i, x, X), NEW e \in X, z.d = Paired(n, i, x, e).d PROVE FALSE
    <3>1. z \in Evaluate(n, P) /\ z \notin Match(n, i, x, X)
      BY <1>16 DEF Half
    <3>2. PICK a \in P[i] : a.d = x.d /\ z = Paired(n, i, a, e)
      BY <1>15, <2>4, <3>1
    <3>3. a = Entry(x)
      BY <1>2, <2>1, <3>2, EntryFacts DEF Tidy
    <3>4. z = Paired(n, i, x, e)
      BY <3>2, <3>3, EntryFacts DEF Paired
    <3> QED
      BY <3>1, <3>4 DEF Match
  <2>5. \A e \in X : y[e].sign = "+" /\ \A z \in Half(n, P, i, x, X) : z.d # y[e].d
    BY <1>7, <1>16, <2>4
  <2>6. Path(n, Half(n, P, i, x, X), s, Half(n, P, i, x, X) \cup Made(y, R))
    <3>1. Path(n, Half(n, P, i, x, X), s, Half(n, P, i, x, X) \cup Made(y, RangeOf(p)))
      BY <1>10, <2>5, SpreadInsert
    <3> QED
      BY <1>18, <3>1
  <2>7. Half(n, P, i, x, Y) = Half(n, P, i, x, X) \cup Made(y, R)
    <3> DEFINE E == Evaluate(n, P)
               M(Z) == Match(n, i, x, Z)
    <3>1. Half(n, P, i, x, Y) = E \ M(Y) /\ Half(n, P, i, x, X) = E \ M(X)
      BY <1>16 DEF Half
    <3>2. M(X) = M(Y) \cup M(R) /\ M(Y) \cap M(R) = {} /\ M(R) \subseteq E /\ Made(y, R) = M(R)
      BY <1>9, <1>12, <1>13, <2>3
    <3> HIDE DEF E, M
    <3>3. E \ M(Y) = (E \ M(X)) \cup M(R)
      BY <3>2
    <3> QED
      BY <3>1, <3>2, <3>3
  <2> QED
    BY <1>11, <2>6, <2>7
<1>17. CASE x.sign = "-"
  <2>1. \A e \in P[i] : e.d # x.d
    BY <1>17 DEF Halfway
  <2>2. Match(n, i, x, R) \cap Evaluate(n, P) = {}
    <3>1. \A e \in X : Paired(n, i, x, e) \notin Evaluate(n, P)
      BY <1>15, <2>1
    <3> QED
      BY <1>8, <3>1 DEF Match
  <2>3. \A e \in R : Paired(n, i, x, e) \in Match(n, i, x, X)
    BY <1>8 DEF Match
  <2>4. \A e \in R : y[e].sign = "-" /\ Entry(y[e]) \in Half(n, P, i, x, X)
    BY <1>7, <1>8, <1>17, <2>3 DEF Half
  <2>5. Spread(n, p, R, y, s)
    <3>1. \A j \in 1..Len(p) : p[j] \in R
      <4>1. DOMAIN p = 1..Len(p)
        BY ListFacts
      <4> QED
        BY <4>1 DEF R, RangeOf
    <3> QED
      BY <1>8, <1>10, <3>1 DEF Spread
  <2>6. Path(n, Half(n, P, i, x, X), s, Half(n, P, i, x, X) \ Made(y, R))
    <3>1. Path(n, Half(n, P, i, x, X), s, Half(n, P, i, x, X) \ Made(y, RangeOf(p)))
      BY <2>4, <2>5, SpreadRetract
    <3> QED
      BY <1>18, <3>1
  <2>7. Half(n, P, i, x, Y) = Half(n, P, i, x, X) \ Made(y, R)
    <3> DEFINE E == Evaluate(n, P)
               M(Z) == Match(n, i, x, Z)
    <3>1. Half(n, P, i, x, Y) = E \cup M(Y) /\ Half(n, P, i, x, X) = E \cup M(X)
      BY <1>17 DEF Half
    <3>2. M(X) = M(Y) \cup M(R) /\ M(Y) \cap M(R) = {} /\ M(R) \cap E = {} /\ Made(y, R) = M(R)
      BY <1>9, <1>12, <1>13, <2>2
    <3> HIDE DEF E, M
    <3>3. E \cup M(Y) = (E \cup M(X)) \ M(R)
      BY <3>2
    <3> QED
      BY <3>1, <3>2, <3>3
  <2> QED
    BY <1>11, <2>6, <2>7
<1> QED
  BY <1>16, <1>17 DEF Halfway
-----------------------------------------------------------------------------
(* Sums. *)

Picked(s) == CHOOSE x \in s : TRUE
SumStep(n, f, s) == IF s = {} THEN 0 ELSE AggOf(n, Picked(s).t) + f[s \ {Picked(s)}]
IsFold(n, S, f) == f = [s \in SUBSET S |-> SumStep(n, f, s)]
FoldOf(n, S) == CHOOSE f : IsFold(n, S, f)
SumOf(n, S) == RefAcc(n, S).sum

(* The sum of the reference is a fold. *)
LEMMA SumOfIs ==
    ASSUME NEW n, NEW S
    PROVE  SumOf(n, S) = FoldOf(n, S)[S]
<1>1. SumOf(n, S) = FoldSet(LAMBDA e, sum : AggOf(n, e.t) + sum, 0, S)
  BY DEF SumOf, RefAcc
<1> QED
  BY <1>1 DEF FoldSet, MapThenFoldSet, FoldOf, IsFold, SumStep, Picked

(* A fold takes out one element at a time. *)
LEMMA PickedFacts ==
    ASSUME NEW s, IsFiniteSet(s), s # {}
    PROVE  /\ Picked(s) \in s /\ IsFiniteSet(s \ {Picked(s)})
           /\ Cardinality(s) \in Nat \ {0} /\ Cardinality(s \ {Picked(s)}) = Cardinality(s) - 1
<1>1. Picked(s) \in s
  BY DEF Picked
<1>2. Cardinality(s) \in Nat /\ Cardinality(s) # 0
  BY FS_CardinalityType, FS_EmptySet
<1> QED
  BY <1>1, <1>2, FS_RemoveElement

(* There is such a function for every finite set, one cardinality after the *)
(* other.                                                                  *)
LEMMA FoldExists ==
    ASSUME NEW n, NEW S, IsFiniteSet(S)
    PROVE  IsFold(n, S, FoldOf(n, S))
<1> DEFINE Upto(c) == {s \in SUBSET S : Cardinality(s) <= c}
           Part(f, c) == f = [s \in Upto(c) |-> SumStep(n, f, s)]
           C == {c \in Nat : \E f : Part(f, c)}
<1>1. \A s \in SUBSET S : IsFiniteSet(s) /\ Cardinality(s) \in Nat /\ (Cardinality(s) = 0 <=> s = {})
  BY FS_Subset, FS_CardinalityType, FS_EmptySet
<1>2. 0 \in C
  <2> DEFINE f == [s \in Upto(0) |-> 0]
  <2>1. \A s \in Upto(0) : s = {}
    BY <1>1
  <2>2. \A s \in Upto(0) : SumStep(n, f, s) = 0
    BY <2>1 DEF SumStep
  <2>3. Part(f, 0)
    BY <2>2
  <2> QED
    BY <2>3
<1>3. ASSUME NEW c \in Nat, c \in C PROVE c + 1 \in C
  <2>1. PICK f : Part(f, c)
    BY <1>3
  <2> DEFINE g == [s \in Upto(c + 1) |-> SumStep(n, f, s)]
  <2>2. \A s \in Upto(c + 1) : g[s] = SumStep(n, f, s)
    OBVIOUS
  <2>3. \A s \in Upto(c) : s \in Upto(c + 1) /\ f[s] = SumStep(n, f, s)
    <3>1. \A s \in Upto(c) : f[s] = SumStep(n, f, s)
      BY <2>1
    <3>2. \A s \in Upto(c) : s \in Upto(c + 1)
      BY <1>1
    <3> QED
      BY <3>1, <3>2
  <2>4. ASSUME NEW s \in Upto(c + 1), s # {} PROVE s \ {Picked(s)} \in Upto(c)
    <3>1. s \in SUBSET S /\ IsFiniteSet(s) /\ Cardinality(s) <= c + 1
      BY <1>1
    <3>2. Cardinality(s) \in Nat \ {0} /\ Cardinality(s \ {Picked(s)}) = Cardinality(s) - 1
      BY <2>4, <3>1, PickedFacts
    <3> QED
      BY <3>1, <3>2
  <2> HIDE DEF g, Upto
  <2>5. \A s \in Upto(c + 1) : SumStep(n, f, s) = SumStep(n, g, s)
    <3>1. ASSUME NEW s \in Upto(c + 1), s # {} PROVE f[s \ {Picked(s)}] = g[s \ {Picked(s)}]
      BY <2>2, <2>3, <2>4, <3>1
    <3> QED
      BY <3>1 DEF SumStep
  <2>6. Part(g, c + 1)
    <3>1. g = [s \in Upto(c + 1) |-> SumStep(n, f, s)]
      BY DEF g
    <3> QED
      BY <2>5, <3>1
  <2> QED
    BY <2>6
<1>4. Cardinality(S) \in C
  <2>1. Cardinality(S) \in Nat
    BY FS_CardinalityType
  <2> HIDE DEF C
  <2> QED
    BY <1>2, <1>3, <2>1, NumberInduction
<1>5. Upto(Cardinality(S)) = SUBSET S
  <2>1. \A s \in SUBSET S : Cardinality(s) <= Cardinality(S)
    BY FS_Subset
  <2> QED
    BY <2>1
<1>6. PICK f : Part(f, Cardinality(S))
  BY <1>4
<1>7. IsFold(n, S, f)
  <2> HIDE DEF Upto
  <2> QED
    BY <1>5, <1>6 DEF IsFold
<1> QED
  BY <1>7, Zenon DEF FoldOf

(* The equation of the fold. *)
LEMMA FoldAt ==
    ASSUME NEW n, NEW S, IsFiniteSet(S), NEW s \in SUBSET S
    PROVE  FoldOf(n, S)[s] = SumStep(n, FoldOf(n, S), s)
<1>1. IsFold(n, S, FoldOf(n, S))
  BY FoldExists
<1> QED
  BY <1>1 DEF IsFold

(* The fold over a set does not depend on the set it is part of. *)
LEMMA FoldsAgree ==
    ASSUME NEW n, NEW S, IsFiniteSet(S), NEW s \in SUBSET S
    PROVE  FoldOf(n, S)[s] = SumOf(n, s)
<1> DEFINE Alike(c) == \A R, T : IsFiniteSet(R) /\ IsFiniteSet(T) =>
                        \A r \in SUBSET R : r \in SUBSET T /\ Cardinality(r) = c => FoldOf(n, R)[r] = FoldOf(n, T)[r]
           C == {c \in Nat : Alike(c)}
<1>1. 0 \in C
  <2> SUFFICES ASSUME NEW R, NEW T, IsFiniteSet(R), IsFiniteSet(T), NEW r \in SUBSET R, r \in SUBSET T,
                      Cardinality(r) = 0
               PROVE  FoldOf(n, R)[r] = FoldOf(n, T)[r]
    OBVIOUS
  <2>1. r = {}
    BY FS_Subset, FS_EmptySet
  <2> QED
    BY <2>1, FoldAt DEF SumStep
<1>2. ASSUME NEW c \in Nat, c \in C PROVE c + 1 \in C
  <2> SUFFICES ASSUME NEW R, NEW T, IsFiniteSet(R), IsFiniteSet(T), NEW r \in SUBSET R, r \in SUBSET T,
                      Cardinality(r) = c + 1
               PROVE  FoldOf(n, R)[r] = FoldOf(n, T)[r]
    OBVIOUS
  <2>1. IsFiniteSet(r) /\ r # {}
    BY FS_Subset, FS_EmptySet
  <2>2. r \ {Picked(r)} \in SUBSET R /\ r \ {Picked(r)} \in SUBSET T /\ Cardinality(r \ {Picked(r)}) = c
    <3>1. Picked(r) \in r /\ Cardinality(r \ {Picked(r)}) = Cardinality(r) - 1
      BY <2>1, PickedFacts
    <3>2. Cardinality(r) - 1 = c
      OBVIOUS
    <3> QED
      BY <3>1, <3>2
  <2>3. FoldOf(n, R)[r \ {Picked(r)}] = FoldOf(n, T)[r \ {Picked(r)}]
    BY <1>2, <2>2
  <2>4. FoldOf(n, R)[r] = SumStep(n, FoldOf(n, R), r) /\ FoldOf(n, T)[r] = SumStep(n, FoldOf(n, T), r)
    BY FoldAt
  <2> QED
    BY <2>1, <2>3, <2>4 DEF SumStep
<1>3. IsFiniteSet(s) /\ Cardinality(s) \in Nat
  BY FS_Subset, FS_CardinalityType
<1>4. Cardinality(s) \in C
  <2> HIDE DEF C
  <2> QED
    BY <1>1, <1>2, <1>3, NumberInduction
<1>5. FoldOf(n, S)[s] = FoldOf(n, s)[s]
  BY <1>3, <1>4
<1> QED
  BY <1>5, SumOfIs

(* So the sum has an equation of its own. *)
LEMMA SumUnfold ==
    ASSUME NEW n, NEW s, IsFiniteSet(s)
    PROVE  SumOf(n, s) = IF s = {} THEN 0 ELSE AggOf(n, Picked(s).t) + SumOf(n, s \ {Picked(s)})
<1>1. SumOf(n, s) = SumStep(n, FoldOf(n, s), s)
  BY SumOfIs, FoldAt
<1>2. FoldOf(n, s)[s \ {Picked(s)}] = SumOf(n, s \ {Picked(s)})
  BY FoldsAgree
<1> QED
  BY <1>1, <1>2 DEF SumStep

(* A sum loses what is taken out. *)
Numbers(n, s) == \A e \in s : AggOf(n, e.t) \in Int
(* Sums of numbers are numbers, and any element can be taken out first. *)
LEMMA SumFacts ==
    ASSUME NEW n, NEW S, IsFiniteSet(S), Numbers(n, S)
    PROVE  /\ SumOf(n, S) \in Int
           /\ \A y \in S : SumOf(n, S) = AggOf(n, y.t) + SumOf(n, S \ {y})
<1> DEFINE Good(s) == /\ SumOf(n, s) \in Int
                      /\ \A y \in s : SumOf(n, s) = AggOf(n, y.t) + SumOf(n, s \ {y})
           Fine(c) == \A s : IsFiniteSet(s) /\ Numbers(n, s) /\ Cardinality(s) <= c => Good(s)
           C == {c \in Nat : Fine(c)}
<1>1. 0 \in C
  <2> SUFFICES ASSUME NEW s, IsFiniteSet(s), Cardinality(s) <= 0 PROVE Good(s)
    OBVIOUS
  <2>1. s = {}
    BY FS_CardinalityType, FS_EmptySet
  <2> QED
    BY <2>1, SumUnfold
<1>2. ASSUME NEW c \in Nat, c \in C PROVE c + 1 \in C
  <2> SUFFICES ASSUME NEW s, IsFiniteSet(s), Numbers(n, s), Cardinality(s) <= c + 1 PROVE Good(s)
    OBVIOUS
  <2>1. CASE s = {}
    BY <2>1, SumUnfold
  <2>2. CASE s # {}
    <3> DEFINE x == Picked(s)
    <3>1. x \in s /\ SumOf(n, s) = AggOf(n, x.t) + SumOf(n, s \ {x})
      BY <2>2, PickedFacts, SumUnfold
    <3> HIDE DEF x
    <3>2. \A y \in s : Good(s \ {y})
      <4> SUFFICES ASSUME NEW y \in s PROVE Good(s \ {y})
        OBVIOUS
      <4>1. IsFiniteSet(s \ {y}) /\ Cardinality(s \ {y}) = Cardinality(s) - 1 /\ Cardinality(s) \in Nat
        BY FS_RemoveElement, FS_CardinalityType
      <4>2. Numbers(n, s \ {y}) /\ Cardinality(s \ {y}) <= c
        BY <4>1 DEF Numbers
      <4> HIDE DEF Good
      <4> QED
        BY <1>2, <4>1, <4>2
    <3>3. \A y \in s : AggOf(n, y.t) \in Int
      BY DEF Numbers
    <3>4. SumOf(n, s) \in Int
      BY <3>1, <3>2, <3>3
    <3>5. ASSUME NEW y \in s, y # x PROVE SumOf(n, s) = AggOf(n, y.t) + SumOf(n, s \ {y})
      <4>1. (s \ {x}) \ {y} = (s \ {y}) \ {x}
        OBVIOUS
      <4> DEFINE r == (s \ {y}) \ {x}
      <4>2. SumOf(n, s \ {x}) = AggOf(n, y.t) + SumOf(n, (s \ {x}) \ {y})
        BY <3>1, <3>2, <3>5
      <4>3. SumOf(n, s \ {y}) = AggOf(n, x.t) + SumOf(n, (s \ {y}) \ {x})
        BY <3>1, <3>2, <3>5
      <4>4. SumOf(n, r) \in Int
        <5>1. Good(s \ {y}) /\ IsFiniteSet(s \ {y})
          BY <3>2, FS_RemoveElement
        <5>2. IsFiniteSet(r) /\ Cardinality(r) = Cardinality(s \ {y}) - 1 /\ Cardinality(s \ {y}) = Cardinality(s) - 1
          BY <3>1, <3>5, <5>1, FS_RemoveElement
        <5>3. Cardinality(s) \in Nat /\ Numbers(n, r)
          BY FS_CardinalityType DEF Numbers
        <5>4. Cardinality(r) <= c
          BY <5>2, <5>3
        <5> HIDE DEF Good, r
        <5>5. Good(r)
          BY <1>2, <5>2, <5>3, <5>4
        <5> QED
          BY <5>5 DEF Good
      <4>5. SumOf(n, s \ {x}) = AggOf(n, y.t) + SumOf(n, r) /\ SumOf(n, s \ {y}) = AggOf(n, x.t) + SumOf(n, r)
        BY <4>1, <4>2, <4>3
      <4>6. AggOf(n, x.t) \in Int /\ AggOf(n, y.t) \in Int
        BY <3>1, <3>3
      <4> HIDE DEF r
      <4> QED
        BY <3>1, <4>4, <4>5, <4>6
    <3> QED
      BY <3>1, <3>4, <3>5
  <2> QED
    BY <2>1, <2>2
<1>3. Cardinality(S) \in C /\ Cardinality(S) \in Nat
  <2>1. Cardinality(S) \in Nat
    BY FS_CardinalityType
  <2> HIDE DEF C
  <2> QED
    BY <1>1, <1>2, <2>1, NumberInduction
<1>4. Good(S)
  <2> HIDE DEF Good
  <2> QED
    BY <1>3
<1> QED
  BY <1>4
-----------------------------------------------------------------------------
(* Groups. *)

Regrouped(n, S) == {[t |-> GroupOf(n, e.t), d |-> e.d] : e \in S}
Accs(n, S) == {[k |-> k, a |-> RefAcc(n, Members(n, k, S))] : k \in Groups(n, S)}

(* A one-to-one image has as many elements. *)
LEMMA InjectiveImage ==
    ASSUME NEW S, IsFiniteSet(S), NEW f, \A a, b \in S : f[a] = f[b] => a = b
    PROVE  IsFiniteSet(Image(f, S)) /\ Cardinality(Image(f, S)) = Cardinality(S)
<1> DEFINE T == Image(f, S)
           g == [e \in S |-> f[e]]
<1>1. \A e \in S : g[e] = f[e] /\ f[e] \in T
  BY DEF Image
<1>2. \A z \in T : \E e \in S : g[e] = z
  BY DEF Image
<1>3. g \in [S -> T]
  BY <1>1
<1> HIDE DEF T, g
<1>4. g \in Bijection(S, T)
  BY <1>1, <1>2, <1>3 DEF Bijection, Injection, Surjection, IsInjective
<1>5. ExistsBijection(S, T)
  BY <1>4 DEF ExistsBijection
<1> QED
  BY <1>5, FS_Bijection DEF T

(* A group is finite. *)
LEMMA MembersFinite ==
    ASSUME NEW m, NEW S, NEW n, NEW k, Tidy(m, S)
    PROVE  /\ Tidy(m, Members(n, k, S)) /\ IsFiniteSet(Members(n, k, S)) /\ Cardinality(Members(n, k, S)) \in Nat
           /\ Cardinality(Members(n, k, S)) = 0 <=> k \notin Groups(n, S)
           /\ k \notin Groups(n, S) <=> Members(n, k, S) = {}
<1>1. Members(n, k, S) \in SUBSET S /\ (k \notin Groups(n, S) <=> Members(n, k, S) = {})
  BY DEF Members, Groups
<1>2. Tidy(m, Members(n, k, S)) /\ IsFiniteSet(Members(n, k, S))
  BY <1>1, TidySubset DEF Tidy
<1> QED
  BY <1>1, <1>2, FS_CardinalityType, FS_EmptySet

(* The supports of a group count its members. *)
LEMMA SupportedIs ==
    ASSUME NEW m, NEW S, NEW n, NEW k, Tidy(m, S)
    PROVE  Supported(Regrouped(n, S), k) = Cardinality(Members(n, k, S))
<1> DEFINE M == Members(n, k, S)
           f == [e \in M |-> [t |-> GroupOf(n, e.t), d |-> e.d]]
<1>1. IsFiniteSet(M)
  BY MembersFinite
<1>2. \A e \in M : f[e] = [t |-> GroupOf(n, e.t), d |-> e.d] /\ e \in S
  BY DEF Members
<1>3. \A a, b \in M : f[a] = f[b] => a = b
  BY <1>2 DEF Tidy
<1>4. Image(f, M) = {z \in Regrouped(n, S) : z.t = k}
  <2>1. \A e \in S : e \in M <=> GroupOf(n, e.t) = k
    BY DEF Members
  <2>2. \A e \in M : f[e] \in Regrouped(n, S) /\ f[e].t = k
    BY <1>2, <2>1 DEF Regrouped
  <2>3. \A z \in Regrouped(n, S) : z.t = k => \E e \in M : z = f[e]
    BY <1>2, <2>1 DEF Regrouped
  <2> HIDE DEF f, M
  <2> QED
    BY <2>2, <2>3 DEF Image
<1> HIDE DEF f, M
<1>5. Cardinality(Image(f, M)) = Cardinality(M)
  BY <1>1, <1>3, InjectiveImage
<1> QED
  BY <1>4, <1>5 DEF Supported, M

(* A group collects as many items as it has members. *)
LEMMA ItemsCount ==
    ASSUME NEW m, NEW S, NEW n, Tidy(m, S)
    PROVE  Cardinality(RefAcc(n, S).items) = Cardinality(S)
<1> DEFINE f == [e \in S |-> [d |-> e.d, v |-> AggOf(n, e.t)]]
<1>1. \A e \in S : f[e] = [d |-> e.d, v |-> AggOf(n, e.t)]
  OBVIOUS
<1>2. IsFiniteSet(S) /\ \A a, b \in S : f[a] = f[b] => a = b
  BY <1>1 DEF Tidy
<1>3. Image(f, S) = RefAcc(n, S).items
  BY <1>1 DEF Image, RefAcc
<1> HIDE DEF f
<1> QED
  BY <1>2, <1>3, InjectiveImage

(* A delta touches one group, by one member. *)
LEMMA MembersStep ==
    ASSUME NEW m, NEW S, NEW x, NEW T, NEW n, NEW k, Tidy(m, S), Step(m, S, x, T)
    PROVE  /\ k # GroupOf(n, x.t) => Members(n, k, T) = Members(n, k, S)
           /\ k = GroupOf(n, x.t) =>
                /\ Step(m, Members(n, k, S), x, Members(n, k, T))
                /\ x.sign = "+" => Cardinality(Members(n, k, T)) = Cardinality(Members(n, k, S)) + 1
                /\ x.sign = "-" => Cardinality(Members(n, k, T)) = Cardinality(Members(n, k, S)) - 1
                /\ Cardinality(Members(n, k, T)) # Cardinality(Members(n, k, S))
<1> DEFINE B == Members(n, k, S)
           C == Members(n, k, T)
<1>1. x.sign = "+" \/ x.sign = "-"
  BY DEF Step
<1>2. CASE k # GroupOf(n, x.t)
  BY <1>2, EntryFacts DEF Step, Members
<1>3. CASE k = GroupOf(n, x.t)
  <2>1. IsFiniteSet(B) /\ Cardinality(B) \in Nat
    BY MembersFinite
  <2>2. x.sign = "+" => C = B \cup {Entry(x)} /\ Entry(x) \notin B
    BY <1>3, EntryFacts DEF Step, Members
  <2>3. x.sign = "-" => C = B \ {Entry(x)} /\ Entry(x) \in B
    BY <1>3, EntryFacts DEF Step, Members
  <2>7. Step(m, B, x, C)
    <3>1. B \subseteq S
      BY DEF Members
    <3> HIDE DEF B, C
    <3> QED
      BY <2>2, <2>3, <3>1 DEF Step
  <2> HIDE DEF B, C
  <2>4. x.sign = "+" => Cardinality(C) = Cardinality(B) + 1
    BY <2>1, <2>2, FS_AddElement
  <2>5. x.sign = "-" => Cardinality(C) = Cardinality(B) - 1
    BY <2>1, <2>3, FS_RemoveElement
  <2>6. Cardinality(C) # Cardinality(B)
    BY <1>1, <2>1, <2>4, <2>5
  <2> QED
    BY <1>3, <2>4, <2>5, <2>6, <2>7 DEF B, C
<1> QED
  BY <1>2, <1>3

(* The support index of the groups follows the input. *)
LEMMA RegroupStep ==
    ASSUME NEW m, NEW S, NEW x, NEW T, NEW n, Tidy(m, S), Step(m, S, x, T)
    PROVE  Support(Regrouped(n, S), Delta(x.sign, GroupOf(n, x.t), x.d)) = Regrouped(n, T)
<1> DEFINE y == Delta(x.sign, GroupOf(n, x.t), x.d)
           D == S \cup T \cup {Entry(x)}
           E(e) == [t |-> GroupOf(n, e.t), d |-> e.d]
           f == [e \in D |-> E(e)]
<1>1. \A e \in D : f[e] = E(e) /\ f[e].d = e.d
  OBVIOUS
<1>2. y.sign = x.sign /\ y.d = x.d /\ Entry(y) = [t |-> GroupOf(n, x.t), d |-> x.d]
  BY DeltaFacts
<1>3. f[Entry(x)] = Entry(y) /\ Formed(m, y.d) /\ \A e \in S : f[e].d = y.d => e.d = x.d
  BY <1>1, <1>2, EntryFacts DEF Step
<1>4. Image(f, S) = Regrouped(n, S) /\ Image(f, T) = Regrouped(n, T)
  <2>1. S \subseteq D /\ T \subseteq D
    OBVIOUS
  <2>2. Regrouped(n, S) = {E(e) : e \in S} /\ Regrouped(n, T) = {E(e) : e \in T}
    BY DEF Regrouped
  <2> HIDE DEF f, D, E
  <2>3. Image(f, S) = {E(e) : e \in S}
    BY <1>1, <2>1 DEF Image
  <2>4. Image(f, T) = {E(e) : e \in T}
    BY <1>1, <2>1 DEF Image
  <2> QED
    BY <2>2, <2>3, <2>4
<1> HIDE DEF f, y
<1>5. Step(m, Image(f, S), y, Image(f, T))
  BY <1>2, <1>3, ImageStep
<1> QED
  BY <1>4, <1>5, SupportIs DEF y

(* The two parts of an accumulator. *)
LEMMA RefAccIs ==
    ASSUME NEW n, NEW S
    PROVE  /\ RefAcc(n, S) = [sum |-> SumOf(n, S), items |-> {[d |-> e.d, v |-> AggOf(n, e.t)] : e \in S}]
           /\ S = {} => RefAcc(n, S) = NoAcc
<1>1. RefAcc(n, S) = [sum |-> SumOf(n, S), items |-> {[d |-> e.d, v |-> AggOf(n, e.t)] : e \in S}]
  BY DEF RefAcc, SumOf
<1>2. ASSUME S = {} PROVE RefAcc(n, S) = NoAcc
  <2>1. SumOf(n, S) = 0
    BY <1>2, SumUnfold, FS_EmptySet
  <2>2. {[d |-> e.d, v |-> AggOf(n, e.t)] : e \in S} = {}
    BY <1>2
  <2> QED
    BY <1>1, <2>1, <2>2 DEF NoAcc
<1> QED
  BY <1>1, <1>2

(* The accumulator stored for a group is its reference. *)
LEMMA AccOfIs ==
    ASSUME NEW n, NEW S, NEW k
    PROVE  AccOf(Accs(n, S), k) = RefAcc(n, Members(n, k, S))
<1> DEFINE A == Accs(n, S)
           E(l) == [k |-> l, a |-> RefAcc(n, Members(n, l, S))]
<1>5. A = {E(l) : l \in Groups(n, S)}
  BY DEF Accs
<1>6. \A l : E(l).k = l /\ E(l).a = RefAcc(n, Members(n, l, S))
  OBVIOUS
<1> HIDE DEF A, E
<1>1. \A i \in A : i.k \in Groups(n, S) /\ i.a = RefAcc(n, Members(n, i.k, S))
  BY <1>5, <1>6
<1>2. \A l \in Groups(n, S) : \E i \in A : i.k = l
  BY <1>5, <1>6
<1>3. CASE k \in Groups(n, S)
  <2>1. \E i \in A : i.k = k
    BY <1>2, <1>3
  <2> DEFINE j == CHOOSE i \in A : i.k = k
  <2>2. j \in A /\ j.k = k
    BY <2>1
  <2>3. AccOf(A, k) = j.a
    BY <2>1 DEF AccOf
  <2> HIDE DEF j
  <2> QED
    BY <1>1, <2>2, <2>3 DEF A
<1>4. CASE k \notin Groups(n, S)
  <2>1. AccOf(A, k) = NoAcc
    BY <1>1, <1>4 DEF AccOf
  <2>2. Members(n, k, S) = {}
    BY <1>4 DEF Members, Groups
  <2> QED
    BY <2>1, <2>2, RefAccIs DEF A
<1> QED
  BY <1>3, <1>4

(* The running sum and the collected items follow the reference. *)
LEMMA AccumulateIs ==
    ASSUME NEW m, NEW S, NEW x, NEW T, NEW n, Tidy(m, S), Step(m, S, x, T), Numbers(n, S), AggOf(n, x.t) \in Int
    PROVE  Accumulate(RefAcc(n, S), n, x) = RefAcc(n, T)
<1> DEFINE v == AggOf(n, x.t)
           I(X) == {[d |-> e.d, v |-> AggOf(n, e.t)] : e \in X}
           rest == {i \in I(S) : i.d # x.d}
<1>1. RefAcc(n, S) = [sum |-> SumOf(n, S), items |-> I(S)] /\ RefAcc(n, T) = [sum |-> SumOf(n, T), items |-> I(T)]
  BY RefAccIs
<1>2. RefAcc(n, S).sum = SumOf(n, S) /\ RefAcc(n, S).items = I(S)
  BY <1>1
<1>3. Entry(x).t = x.t /\ Entry(x).d = x.d
  BY EntryFacts
<1>4. IsFiniteSet(S) /\ IsFiniteSet(T) /\ Tidy(m, T)
  BY StepTidy DEF Tidy
<1>5. SumOf(n, S) \in Int
  BY <1>4, SumFacts
<1>6. CASE x.sign = "+"
  <2>1. T = S \cup {Entry(x)} /\ (\A e \in S : e.d # x.d)
    BY <1>6 DEF Step
  <2>2. rest = I(S)
    BY <2>1
  <2>3. I(T) = I(S) \cup {[d |-> x.d, v |-> v]}
    BY <1>3, <2>1
  <2>4. Numbers(n, T) /\ Entry(x) \in T /\ T \ {Entry(x)} = S
    BY <1>3, <2>1 DEF Numbers
  <2>5. SumOf(n, T) = v + SumOf(n, S)
    BY <1>3, <1>4, <2>4, SumFacts
  <2>6. SumOf(n, T) = SumOf(n, S) + v
    BY <1>5, <2>5
  <2> HIDE DEF I
  <2> QED
    BY <1>1, <1>2, <1>6, <2>2, <2>3, <2>6 DEF Accumulate
<1>7. CASE x.sign = "-"
  <2>1. T = S \ {Entry(x)} /\ Entry(x) \in S
    BY <1>7 DEF Step
  <2>2. \A e \in S : e.d = x.d <=> e = Entry(x)
    BY <1>3, <2>1 DEF Tidy
  <2>3. rest = I(T)
    BY <2>1, <2>2
  <2>4. SumOf(n, S) = v + SumOf(n, T)
    BY <1>3, <1>4, <2>1, SumFacts
  <2>5. SumOf(n, T) \in Int
    <3>1. Numbers(n, T)
      BY <2>1 DEF Numbers
    <3> QED
      BY <1>4, <3>1, SumFacts
  <2>6. SumOf(n, T) = SumOf(n, S) - v
    BY <2>4, <2>5
  <2>7. x.sign # "+"
    BY <1>7
  <2> HIDE DEF I
  <2> QED
    BY <1>1, <1>2, <2>7, <2>3, <2>6 DEF Accumulate
<1> QED
  BY <1>6, <1>7 DEF Step

(* Storing the accumulator of the group a delta touches, or dropping it. *)
LEMMA SetAccIs ==
    ASSUME NEW m, NEW S, NEW x, NEW T, NEW n, Tidy(m, S), Step(m, S, x, T), NEW k, k = GroupOf(n, x.t)
    PROVE  SetAcc(Accs(n, S), k, Cardinality(Members(n, k, T)), RefAcc(n, Members(n, k, T))) = Accs(n, T)
<1> DEFINE E(R, l) == [k |-> l, a |-> RefAcc(n, Members(n, l, R))]
<1>1. Tidy(m, T)
  BY StepTidy
<1>2. Cardinality(Members(n, k, T)) = 0 <=> k \notin Groups(n, T)
  BY <1>1, MembersFinite
<1>3. \A l : l # k => Members(n, l, T) = Members(n, l, S)
  BY MembersStep
<1>4. \A l : l # k => (l \in Groups(n, T) <=> l \in Groups(n, S))
  <2>1. \A l : (l \notin Groups(n, S) <=> Members(n, l, S) = {}) /\ (l \notin Groups(n, T) <=> Members(n, l, T) = {})
    BY <1>1, MembersFinite
  <2> QED
    BY <1>3, <2>1
<1>5. \A l : l # k => E(T, l) = E(S, l)
  BY <1>3
<1>6. \A l, R : E(R, l).k = l
  OBVIOUS
<1>7. Accs(n, S) = {E(S, l) : l \in Groups(n, S)} /\ Accs(n, T) = {E(T, l) : l \in Groups(n, T)}
  BY DEF Accs
<1> HIDE DEF E
<1>8. {i \in Accs(n, S) : i.k # k} = {E(T, l) : l \in Groups(n, T) \ {k}}
  BY <1>4, <1>5, <1>6, <1>7
<1>9. {E(T, l) : l \in Groups(n, T)} = {E(T, l) : l \in Groups(n, T) \ {k}}
         \cup (IF k \in Groups(n, T) THEN {E(T, k)} ELSE {})
  OBVIOUS
<1>10. SetAcc(Accs(n, S), k, Cardinality(Members(n, k, T)), RefAcc(n, Members(n, k, T)))
       = {i \in Accs(n, S) : i.k # k} \cup (IF k \in Groups(n, T) THEN {E(T, k)} ELSE {})
  BY <1>2 DEF SetAcc, E
<1> QED
  BY <1>7, <1>8, <1>9, <1>10
-----------------------------------------------------------------------------
(* Operators that report once per slice. *)

Tagged(n, k, R) == {[t |-> r, d |-> Group(n, k)] : r \in R}
RowsAt(n, P, k) ==
    IF Kind[n] = "union" THEN {e.t : e \in Bucket(P[1], n, 1, k) \cup Bucket(P[2], n, 2, k)}
    ELSE IF k \in Groups(n, P[1])
         THEN {GroupRow(k, Cardinality(Members(n, k, P[1])), RefAcc(n, Members(n, k, P[1])))} ELSE {}
AtMostOne(R) == R = {} \/ \E r : R = {r}

(* What has been reported when the keys in b are still to be: the rows of   *)
(* before for those.                                                       *)
Keyed(b) == \A c, e \in b : c.k = e.k => c = e
ShownAt(n, P, b, k) == IF \E c \in b : c.k = k THEN (CHOOSE c \in b : c.k = k).row ELSE RowsAt(n, P, k)
Shown(n, P, b) ==
    {z \in Evaluate(n, P) : \A c \in b : z.d # Group(n, c.k)} \cup UNION {Tagged(n, c.k, c.row) : c \in b}

(* A row reported for a key carries the key. *)
LEMMA TaggedFacts ==
    ASSUME NEW n \in Op, NEW k, NEW R, NEW z
    PROVE  /\ z \in Tagged(n, k, R) => z.d = Group(n, k)
           /\ \A l, Q : z \in Tagged(n, k, R) /\ z \in Tagged(n, l, Q) => l = k
           /\ \A l : z \in Tagged(n, k, R) /\ z.d = Group(n, l) => l = k
<1>1. \A l, Q : z \in Tagged(n, l, Q) => z.d = Group(n, l)
  BY DEF Tagged
<1> QED
  BY <1>1, KeyedFacts

(* The rows of a group or a union, key by key. *)
LEMMA EvaluateKeyed ==
    ASSUME NEW n \in Op, Kind[n] \in {"group", "union"}, NEW P, NEW z
    PROVE  z \in Evaluate(n, P) <=> \E k : z \in Tagged(n, k, RowsAt(n, P, k))
<1>1. CASE Kind[n] = "union"
  <2> DEFINE E(i, e) == [t |-> e.t, d |-> Group(n, KeyOf(n, i, e.t))]
  <2>1. Evaluate(n, P) = {E(1, e) : e \in P[1]} \cup {E(2, e) : e \in P[2]}
    BY <1>1, EvaluateUnion
  <2>2. z \in Evaluate(n, P) <=> (\E e \in P[1] : z = E(1, e)) \/ (\E e \in P[2] : z = E(2, e))
    BY <2>1
  <2>3. \A k : z \in Tagged(n, k, RowsAt(n, P, k)) <=>
               \/ \E e \in P[1] : KeyOf(n, 1, e.t) = k /\ z = [t |-> e.t, d |-> Group(n, k)]
               \/ \E e \in P[2] : KeyOf(n, 2, e.t) = k /\ z = [t |-> e.t, d |-> Group(n, k)]
    BY <1>1 DEF Tagged, RowsAt, Bucket
  <2>4. ASSUME z \in Evaluate(n, P) PROVE \E k : z \in Tagged(n, k, RowsAt(n, P, k))
    <3>1. CASE \E e \in P[1] : z = E(1, e)
      <4>1. PICK e \in P[1] : z = E(1, e)
        BY <3>1
      <4> QED
        BY <2>3, <4>1
    <3>2. CASE \E e \in P[2] : z = E(2, e)
      <4>1. PICK e \in P[2] : z = E(2, e)
        BY <3>2
      <4> QED
        BY <2>3, <4>1
    <3> QED
      BY <2>2, <2>4, <3>1, <3>2
  <2>5. ASSUME NEW k, z \in Tagged(n, k, RowsAt(n, P, k)) PROVE z \in Evaluate(n, P)
    BY <2>2, <2>3, <2>5
  <2> QED
    BY <2>4, <2>5
<1>2. CASE Kind[n] = "group"
  <2> DEFINE G(k) == GroupRow(k, Cardinality(Members(n, k, P[1])), RefAcc(n, Members(n, k, P[1])))
  <2>1. Evaluate(n, P) = {[t |-> G(k), d |-> Group(n, k)] : k \in Groups(n, P[1])}
    BY <1>2, EvaluateGroup
  <2>2. \A k : RowsAt(n, P, k) = IF k \in Groups(n, P[1]) THEN {G(k)} ELSE {}
    BY <1>2 DEF RowsAt
  <2> HIDE DEF G
  <2> QED
    BY <2>1, <2>2 DEF Tagged
<1> QED
  BY <1>1, <1>2

(* So are the rows shown while some keys are remembered. *)
LEMMA ShownIs ==
    ASSUME NEW n \in Op, Kind[n] \in {"group", "union"}, NEW P, NEW b, Keyed(b), NEW z
    PROVE  z \in Shown(n, P, b) <=> \E k : z \in Tagged(n, k, ShownAt(n, P, b, k))
<1>1. \A k : (\E c \in b : c.k = k) => \E c \in b : c.k = k /\ ShownAt(n, P, b, k) = c.row
  <2> SUFFICES ASSUME NEW k, \E c \in b : c.k = k PROVE \E c \in b : c.k = k /\ ShownAt(n, P, b, k) = c.row
    OBVIOUS
  <2> DEFINE j == CHOOSE c \in b : c.k = k
  <2>1. j \in b /\ j.k = k
    OBVIOUS
  <2>2. ShownAt(n, P, b, k) = j.row
    BY DEF ShownAt
  <2> HIDE DEF j
  <2> QED
    BY <2>1, <2>2
<1>2. \A k : ~(\E c \in b : c.k = k) => ShownAt(n, P, b, k) = RowsAt(n, P, k)
  BY DEF ShownAt
<1>3. \A c \in b : ShownAt(n, P, b, c.k) = c.row
  BY <1>1 DEF Keyed
<1>4. z \in Shown(n, P, b) <=> \/ z \in Evaluate(n, P) /\ \A c \in b : z.d # Group(n, c.k)
                               \/ \E c \in b : z \in Tagged(n, c.k, c.row)
  BY DEF Shown
<1>5. ASSUME z \in Shown(n, P, b) PROVE \E k : z \in Tagged(n, k, ShownAt(n, P, b, k))
  <2>1. CASE \E c \in b : z \in Tagged(n, c.k, c.row)
    BY <1>3, <2>1
  <2>2. CASE z \in Evaluate(n, P) /\ \A c \in b : z.d # Group(n, c.k)
    <3>1. PICK k : z \in Tagged(n, k, RowsAt(n, P, k))
      BY <2>2, EvaluateKeyed
    <3>2. z.d = Group(n, k)
      BY <3>1, TaggedFacts
    <3>3. ~(\E c \in b : c.k = k)
      BY <2>2, <3>2
    <3> QED
      BY <1>2, <3>1, <3>3
  <2> QED
    BY <1>4, <1>5, <2>1, <2>2
<1>6. ASSUME NEW k, z \in Tagged(n, k, ShownAt(n, P, b, k)) PROVE z \in Shown(n, P, b)
  <2>1. CASE \E c \in b : c.k = k
    BY <1>1, <1>4, <1>6, <2>1
  <2>2. CASE ~(\E c \in b : c.k = k)
    <3>1. z \in Tagged(n, k, RowsAt(n, P, k))
      BY <1>2, <1>6, <2>2
    <3>2. z \in Evaluate(n, P)
      BY <3>1, EvaluateKeyed
    <3>3. \A c \in b : z.d # Group(n, c.k)
      BY <2>2, <3>1, TaggedFacts
    <3> QED
      BY <1>4, <3>2, <3>3
  <2> QED
    BY <2>1, <2>2
<1> QED
  BY <1>5, <1>6

(* What is shown is determined key by key. *)
LEMMA ShownSame ==
    ASSUME NEW n \in Op, Kind[n] \in {"group", "union"}, NEW P, NEW b, Keyed(b), NEW Q, NEW c, Keyed(c),
           \A k : ShownAt(n, P, b, k) = ShownAt(n, Q, c, k)
    PROVE  Shown(n, P, b) = Shown(n, Q, c)
<1>1. \A z : z \in Shown(n, P, b) <=> \E k : z \in Tagged(n, k, ShownAt(n, P, b, k))
  BY ShownIs
<1>2. \A z : z \in Shown(n, Q, c) <=> \E k : z \in Tagged(n, k, ShownAt(n, Q, c, k))
  BY ShownIs
<1>3. \A z : z \in Shown(n, P, b) <=> z \in Shown(n, Q, c)
  BY <1>1, <1>2
<1> QED
  BY <1>3

(* Nothing remembered: everything shows. *)
LEMMA ShownNone ==
    ASSUME NEW n, NEW P
    PROVE  Shown(n, P, {}) = Evaluate(n, P) /\ Keyed({})
BY DEF Shown, Keyed

Recalled(b, k, row) == IF \E c \in b : c.k = k THEN b ELSE b \cup {[k |-> k, row |-> row]}
Recall(n, P, b, Q, k, c) ==
    /\ Keyed(c) /\ Shown(n, Q, c) = Shown(n, P, b) /\ b \subseteq c
    /\ (\E e \in c : e.k = k)
    /\ \A e \in c : e \in b \/ (e.row = RowsAt(n, P, k) /\ \A f \in b : f.k # k)
OnlyAt(n, P, Q, k) == \A l : l # k => RowsAt(n, Q, l) = RowsAt(n, P, l)
(* A key remembered before it changes: nothing shows yet. *)
LEMMA RememberShown ==
    ASSUME NEW n \in Op, Kind[n] \in {"group", "union"}, NEW P, NEW b, Keyed(b), NEW Q, NEW k,
           OnlyAt(n, P, Q, k),
           NEW c, c = Recalled(b, k, RowsAt(n, P, k))
    PROVE  /\ Keyed(c) /\ Shown(n, Q, c) = Shown(n, P, b)
           /\ b \subseteq c /\ (\A e \in c : e \in b \/ e.row = RowsAt(n, P, k)) /\ \E e \in c : e.k = k
<1> USE DEF Recalled, OnlyAt
<1> DEFINE j == [k |-> k, row |-> RowsAt(n, P, k)]
<1>1. j.k = k /\ j.row = RowsAt(n, P, k)
  OBVIOUS
<1> HIDE DEF j
<1>2. CASE \E e \in b : e.k = k
  <2>1. c = b
    BY <1>2
  <2>2. \A l : ShownAt(n, P, b, l) = ShownAt(n, Q, c, l)
    BY <1>2, <2>1 DEF ShownAt
  <2>3. Keyed(c)
    BY <2>1
  <2> QED
    BY <1>2, <2>1, <2>2, <2>3, ShownSame
<1>3. CASE ~(\E e \in b : e.k = k)
  <2>1. c = b \cup {j}
    BY <1>3 DEF j
  <2>2. Keyed(c)
    BY <1>1, <1>3, <2>1 DEF Keyed
  <2>3. ASSUME NEW l PROVE ShownAt(n, P, b, l) = ShownAt(n, Q, c, l)
    <3>1. CASE l = k
      <4>1. (CHOOSE e \in c : e.k = l) = j
        <5> DEFINE i == CHOOSE e \in c : e.k = l
        <5>1. i \in c /\ i.k = k
          BY <1>1, <2>1, <3>1
        <5> HIDE DEF i
        <5>2. i = j
          BY <1>1, <2>1, <2>2, <5>1 DEF Keyed
        <5> QED
          BY <5>2 DEF i
      <4>2. \E e \in c : e.k = l
        BY <1>1, <2>1, <3>1
      <4> QED
        BY <1>1, <1>3, <3>1, <4>1, <4>2 DEF ShownAt
    <3>2. CASE l # k /\ \E e \in b : e.k = l
      <4> DEFINE i == CHOOSE e \in b : e.k = l
                 h == CHOOSE e \in c : e.k = l
      <4>1. i \in b /\ i.k = l
        BY <3>2
      <4>2. h \in c /\ h.k = l
        BY <2>1, <3>2
      <4>3. ShownAt(n, P, b, l) = i.row /\ ShownAt(n, Q, c, l) = h.row
        BY <2>1, <3>2 DEF ShownAt
      <4> HIDE DEF h, i
      <4>4. h = i
        BY <2>1, <2>2, <4>1, <4>2 DEF Keyed
      <4> QED
        BY <4>3, <4>4
    <3>3. CASE l # k /\ ~(\E e \in b : e.k = l)
      <4>1. ~(\E e \in c : e.k = l)
        BY <1>1, <2>1, <3>3
      <4> QED
        BY <3>3, <4>1 DEF ShownAt
    <3> QED
      BY <3>1, <3>2, <3>3
  <2>4. Shown(n, P, b) = Shown(n, Q, c)
    BY <2>2, <2>3, ShownSame
  <2> QED
    BY <1>1, <2>1, <2>2, <2>4
<1> QED
  BY <1>2, <1>3

(* The report of one key leads from its old row to its new one. *)
LEMMA ChangedPath ==
    ASSUME NEW n \in Op, Kind[n] \in {"group", "union"}, NEW k, NEW O, \A z \in O : z.d # Group(n, k),
           NEW old, AtMostOne(old), NEW new, AtMostOne(new)
    PROVE  /\ IsList(Changed(old, new, Group(n, k)))
           /\ Path(n, O \cup Tagged(n, k, old), Changed(old, new, Group(n, k)), O \cup Tagged(n, k, new))
<1> DEFINE d == Group(n, k)
           u == IF old = {} THEN <<>> ELSE <<Ret(The(old), d)>>
           v == IF new = {} THEN <<>> ELSE <<Ins(The(new), d)>>
<1>1. Formed(n, d)
  BY KeyedFacts
<1>2. Tagged(n, k, {}) = {} /\ \A r : Tagged(n, k, {r}) = {[t |-> r, d |-> d]}
  BY DEF Tagged
<1>3. \A r : The({r}) = r
  BY DEF The
<1>4. IsList(<<>>) /\ \A x : IsList(<<x>>)
  BY EmptyList, ListOne
<1> HIDE DEF d
<1>5. Path(n, O \cup Tagged(n, k, old), u, O) /\ IsList(u)
  <2>1. CASE old = {}
    <3>1. O \cup Tagged(n, k, old) = O
      BY <1>2, <2>1
    <3> QED
      BY <1>4, <2>1, <3>1, PathNil
  <2>2. CASE old # {}
    <3>1. PICK r : old = {r}
      BY <2>2 DEF AtMostOne
    <3> DEFINE x == Ret(r, d)
               z == [t |-> r, d |-> d]
    <3>2. x.sign = "-" /\ x.d = d /\ Entry(x) = z
      BY DeltaFacts DEF Ret
    <3>3. O \cup Tagged(n, k, old) = O \cup {z}
      BY <1>2, <3>1
    <3>4. z.d = d
      OBVIOUS
    <3>5. z \notin O
      BY <3>4 DEF d
    <3>6. u = <<x>>
      BY <1>3, <2>2, <3>1
    <3> HIDE DEF x, z, u
    <3>7. Step(n, O \cup {z}, x, O)
      BY <1>1, <3>2, <3>5 DEF Step
    <3> QED
      BY <1>4, <3>3, <3>6, <3>7, PathOne
  <2> QED
    BY <2>1, <2>2
<1>6. Path(n, O, v, O \cup Tagged(n, k, new)) /\ IsList(v)
  <2>1. CASE new = {}
    <3>1. O \cup Tagged(n, k, new) = O
      BY <1>2, <2>1
    <3> QED
      BY <1>4, <2>1, <3>1, PathNil
  <2>2. CASE new # {}
    <3>1. PICK r : new = {r}
      BY <2>2 DEF AtMostOne
    <3> DEFINE x == Ins(r, d)
               z == [t |-> r, d |-> d]
    <3>2. x.sign = "+" /\ x.d = d /\ Entry(x) = z
      BY DeltaFacts DEF Ins
    <3>3. O \cup Tagged(n, k, new) = O \cup {z}
      BY <1>2, <3>1
    <3>5. \A e \in O : e.d # x.d
      BY <3>2 DEF d
    <3>6. v = <<x>>
      BY <1>3, <2>2, <3>1
    <3> HIDE DEF x, z, v
    <3>7. Step(n, O, x, O \cup {z})
      BY <1>1, <3>2, <3>5 DEF Step
    <3> QED
      BY <1>4, <3>3, <3>6, <3>7, PathOne
  <2> QED
    BY <2>1, <2>2
<1>7. CASE new = old
  <2>1. Changed(old, new, d) = <<>>
    BY <1>7 DEF Changed
  <2> QED
    BY <1>4, <1>7, <2>1, PathNil DEF d
<1>8. CASE new # old
  <2>1. Changed(old, new, d) = u \o v
    BY <1>8 DEF Changed
  <2> HIDE DEF u, v
  <2>2. IsList(u \o v) /\ Path(n, O \cup Tagged(n, k, old), u \o v, O \cup Tagged(n, k, new))
    BY <1>5, <1>6, PathConcat, ListConcat
  <2> QED
    BY <2>1, <2>2 DEF d
<1> QED
  BY <1>7, <1>8

(* A remembered key shows the row remembered. *)
LEMMA ShownAtIs ==
    ASSUME NEW n, NEW P, NEW b, Keyed(b), NEW k
    PROVE  /\ \A c \in b : c.k = k => ShownAt(n, P, b, k) = c.row
           /\ ~(\E c \in b : c.k = k) => ShownAt(n, P, b, k) = RowsAt(n, P, k)
<1>1. ASSUME NEW c \in b, c.k = k PROVE ShownAt(n, P, b, k) = c.row
  <2> DEFINE j == CHOOSE e \in b : e.k = k
  <2>1. j \in b /\ j.k = k
    BY <1>1
  <2>2. ShownAt(n, P, b, k) = j.row
    BY <1>1 DEF ShownAt
  <2> HIDE DEF j
  <2>3. j = c
    BY <1>1, <2>1 DEF Keyed
  <2> QED
    BY <2>2, <2>3
<1>2. ~(\E c \in b : c.k = k) => ShownAt(n, P, b, k) = RowsAt(n, P, k)
  BY DEF ShownAt
<1> QED
  BY <1>1, <1>2

(* A reported key shows the row it has. *)
LEMMA ReportPath ==
    ASSUME NEW n \in Op, Kind[n] \in {"group", "union"}, NEW P, NEW b, Keyed(b), NEW c \in b,
           AtMostOne(c.row), AtMostOne(RowsAt(n, P, c.k))
    PROVE  /\ IsList(Changed(c.row, RowsAt(n, P, c.k), Group(n, c.k))) /\ Keyed(b \ {c})
           /\ Path(n, Shown(n, P, b), Changed(c.row, RowsAt(n, P, c.k), Group(n, c.k)), Shown(n, P, b \ {c}))
<1> DEFINE k == c.k
           r == b \ {c}
           O == {z \in Shown(n, P, b) : z.d # Group(n, k)}
<1>1. Keyed(r)
  BY DEF Keyed
<1>2. ShownAt(n, P, b, k) = c.row
  BY ShownAtIs
<1>3. ~(\E e \in r : e.k = k)
  BY DEF Keyed
<1>4. ShownAt(n, P, r, k) = RowsAt(n, P, k)
  <2> HIDE DEF r
  <2> QED
    BY <1>1, <1>3, ShownAtIs
<1>5. ASSUME NEW l, l # k PROVE ShownAt(n, P, r, l) = ShownAt(n, P, b, l)
  <2>1. CASE \E e \in b : e.k = l
    <3>1. PICK e \in b : e.k = l
      BY <2>1
    <3>2. e \in r
      BY <1>5, <3>1
    <3> HIDE DEF r
    <3>3. ShownAt(n, P, r, l) = e.row /\ ShownAt(n, P, b, l) = e.row
      BY <1>1, <3>1, <3>2, ShownAtIs
    <3> QED
      BY <3>3
  <2>2. CASE ~(\E e \in b : e.k = l)
    <3>1. ~(\E e \in r : e.k = l)
      BY <2>2
    <3> HIDE DEF r
    <3>3. ShownAt(n, P, r, l) = RowsAt(n, P, l) /\ ShownAt(n, P, b, l) = RowsAt(n, P, l)
      BY <1>1, <2>2, <3>1, ShownAtIs
    <3> QED
      BY <3>3
  <2> QED
    BY <2>1, <2>2
<1> HIDE DEF r
<1>6. \A z : z \in Shown(n, P, b) <=> \E l : z \in Tagged(n, l, ShownAt(n, P, b, l))
  BY ShownIs
<1>7. \A z : z \in Shown(n, P, r) <=> \E l : z \in Tagged(n, l, ShownAt(n, P, r, l))
  BY <1>1, ShownIs
<1>8. \A z, l, R : z \in Tagged(n, l, R) => z.d = Group(n, l) /\ (l # k <=> z.d # Group(n, k))
  BY TaggedFacts, KeyedFacts
<1>9. Shown(n, P, b) = O \cup Tagged(n, k, c.row)
  BY <1>2, <1>6, <1>8
<1>10. Shown(n, P, r) = O \cup Tagged(n, k, RowsAt(n, P, k))
  <2>1. ASSUME NEW z \in Shown(n, P, r) PROVE z \in O \cup Tagged(n, k, RowsAt(n, P, k))
    <3>1. PICK l : z \in Tagged(n, l, ShownAt(n, P, r, l))
      BY <1>7
    <3>2. CASE l = k
      BY <1>4, <3>1, <3>2
    <3>3. CASE l # k
      BY <1>5, <1>6, <1>8, <3>1, <3>3
    <3> QED
      BY <3>2, <3>3
  <2>2. ASSUME NEW z \in O PROVE z \in Shown(n, P, r)
    <3>1. PICK l : z \in Tagged(n, l, ShownAt(n, P, b, l))
      BY <1>6
    <3>2. l # k
      BY <1>8, <2>2, <3>1
    <3> QED
      BY <1>5, <1>7, <3>1, <3>2
  <2>3. \A z \in Tagged(n, k, RowsAt(n, P, k)) : z \in Shown(n, P, r)
    BY <1>4, <1>7
  <2> QED
    BY <2>1, <2>2, <2>3
<1>11. \A z \in O : z.d # Group(n, k)
  OBVIOUS
<1> HIDE DEF O
<1>12. /\ IsList(Changed(c.row, RowsAt(n, P, k), Group(n, k)))
       /\ Path(n, O \cup Tagged(n, k, c.row), Changed(c.row, RowsAt(n, P, k), Group(n, k)), O \cup Tagged(n, k, RowsAt(n, P, k)))
  BY <1>11, ChangedPath
<1> QED
  BY <1>1, <1>9, <1>10, <1>12 DEF r

(* How the rows of a key follow the rows of the inputs. *)
LEMMA GroupRowsStep ==
    ASSUME NEW n \in Op, Kind[n] = "group", NEW P, NEW x, NEW Q,
           Tidy(Inputs[n][1], P[1]), Step(Inputs[n][1], P[1], x, Q[1]), NEW k
    PROVE  AtMostOne(RowsAt(n, P, k)) /\ (k # GroupOf(n, x.t) => RowsAt(n, Q, k) = RowsAt(n, P, k))
<1>1. AtMostOne(RowsAt(n, P, k))
  BY DEF AtMostOne, RowsAt
<1>2. ASSUME k # GroupOf(n, x.t) PROVE RowsAt(n, Q, k) = RowsAt(n, P, k)
  <2>1. Members(n, k, Q[1]) = Members(n, k, P[1])
    BY <1>2, MembersStep
  <2>2. k \in Groups(n, Q[1]) <=> k \in Groups(n, P[1])
    BY <2>1 DEF Groups, Members
  <2> QED
    BY <2>1, <2>2 DEF RowsAt
<1> QED
  BY <1>1, <1>2

(* A delta of a union touches one key. *)
LEMMA UnionRowsStep ==
    ASSUME NEW n \in Op, Kind[n] = "union", NEW P, NEW x, NEW Q, BothTidy(n, P), NEW i \in {1, 2},
           Step(Inputs[n][i], P[i], x, Q[i]), Q[3 - i] = P[3 - i], NEW k, k # KeyOf(n, i, x.t)
    PROVE  /\ Bucket(Q[1], n, 1, k) = Bucket(P[1], n, 1, k)
           /\ Bucket(Q[2], n, 2, k) = Bucket(P[2], n, 2, k)
           /\ RowsAt(n, Q, k) = RowsAt(n, P, k)
<1>1. Tidy(Inputs[n][i], P[i])
  BY DEF BothTidy
<1>2. Bucket(Q[i], n, i, k) = Bucket(P[i], n, i, k)
  BY <1>1, BucketStep
<1>3. Bucket(Q[3 - i], n, 3 - i, k) = Bucket(P[3 - i], n, 3 - i, k)
  OBVIOUS
<1>4. Bucket(Q[1], n, 1, k) = Bucket(P[1], n, 1, k) /\ Bucket(Q[2], n, 2, k) = Bucket(P[2], n, 2, k)
  <2>1. CASE i = 1
    BY <1>2, <1>3, <2>1
  <2>2. CASE i = 2
    BY <1>2, <1>3, <2>2
  <2> QED
    BY <2>1, <2>2
<1> QED
  BY <1>4 DEF RowsAt

(* A key of a union with at most one row. *)
CountAt(n, P, k) == Cardinality(Bucket(P[1], n, 1, k)) + Cardinality(Bucket(P[2], n, 2, k))
(* A key with at most one entry has at most one row. *)
LEMMA UnionRowIs ==
    ASSUME NEW n \in Op, Kind[n] = "union", NEW P, BothTidy(n, P), NEW k
    PROVE  /\ CountAt(n, P, k) \in Nat
           /\ CountAt(n, P, k) = 0 <=> RowsAt(n, P, k) = {}
           /\ CountAt(n, P, k) <= 1 => AtMostOne(RowsAt(n, P, k))
<1> DEFINE A == Bucket(P[1], n, 1, k)
           B == Bucket(P[2], n, 2, k)
<1>1. IsFiniteSet(A) /\ Cardinality(A) \in Nat /\ (Cardinality(A) = 0 <=> A = {})
  BY BucketFinite DEF BothTidy
<1>2. IsFiniteSet(B) /\ Cardinality(B) \in Nat /\ (Cardinality(B) = 0 <=> B = {})
  BY BucketFinite DEF BothTidy
<1>3. RowsAt(n, P, k) = {e.t : e \in A \cup B}
  BY DEF RowsAt
<1>4. CountAt(n, P, k) = Cardinality(A) + Cardinality(B)
  BY DEF CountAt
<1> HIDE DEF A, B
<1>5. CountAt(n, P, k) \in Nat /\ (CountAt(n, P, k) = 0 <=> A \cup B = {})
  BY <1>1, <1>2, <1>4
<1>6. A \cup B = {} <=> RowsAt(n, P, k) = {}
  BY <1>3
<1>7. ASSUME CountAt(n, P, k) <= 1 PROVE AtMostOne(RowsAt(n, P, k))
  <2>1. CASE A = {} /\ B = {}
    BY <1>6, <2>1 DEF AtMostOne
  <2>2. CASE A # {}
    <3>1. Cardinality(A) = 1 /\ B = {}
      BY <1>1, <1>2, <1>4, <1>7, <2>2
    <3>2. PICK e : A = {e}
      BY <1>1, <3>1, FS_Singleton
    <3>3. RowsAt(n, P, k) = {e.t}
      BY <1>3, <3>1, <3>2
    <3> QED
      BY <3>3 DEF AtMostOne
  <2>3. CASE B # {}
    <3>1. Cardinality(B) = 1 /\ A = {}
      BY <1>1, <1>2, <1>4, <1>7, <2>3
    <3>2. PICK e : B = {e}
      BY <1>2, <3>1, FS_Singleton
    <3>3. RowsAt(n, P, k) = {e.t}
      BY <1>3, <3>1, <3>2
    <3> QED
      BY <3>3 DEF AtMostOne
  <2> QED
    BY <2>1, <2>2, <2>3
<1> QED
  BY <1>5, <1>6, <1>7
-----------------------------------------------------------------------------
(* An operator in the middle of a batch.  It has taken in P of its inputs;  *)
(* what is in its queue takes P to G.  It has sent on the rows R; what its  *)
(* slice has produced takes R to what it shows now.                        *)

Mid(q) == q # <<>> /\ ~Head(q).fresh
Todo(q) == IF Mid(q) THEN Tail(q) ELSE q

Now(n, P, q, b) ==
    IF Kind[n] = "scan" THEN P[1]
    ELSE IF Mid(q) THEN Half(n, P, SideOf(n, Head(q)), Head(q).x, Head(q).rest)
    ELSE IF Kind[n] \in {"group", "union"} THEN Shown(n, P, b)
    ELSE Evaluate(n, P)

InputsTidy(n, P) == \A i \in Sides(n) : Tidy(Source(n, i), P[i])

GroupIndexed(n, sd, ac, S) ==
    /\ sd[1] = Regrouped(n, S) /\ ac = Accs(n, S) /\ Numbers(n, S)
    /\ \A k : Cardinality(Members(n, k, S)) <= CollectLimit
Indexed(n, sd, ac, P) ==
    /\ DOMAIN sd = {1, 2}
    /\ n \in TwoSided => sd[1] = P[1] /\ sd[2] = P[2]
    /\ Kind[n] = "distinct" => sd[1] = P[1]
    /\ Kind[n] = "group" => GroupIndexed(n, sd, ac, P[1])
    /\ Kind[n] \in {"scan", "map", "filter"} => sd = [s \in 1..2 |-> {}]

(* The remembered keys: none but for group and union, each with at most one *)
(* row; a key of a union that is not remembered has at most one row.       *)
Remembered(n, P, b) ==
    /\ Keyed(b) /\ \A c \in b : AtMostOne(c.row)
    /\ Kind[n] \notin {"group", "union"} => b = {}
    /\ Kind[n] = "union" => \A k : (\A c \in b : c.k # k) => CountAt(n, P, k) <= 1

Interrupted(n, P, q) ==
    Mid(q) => Kind[n] = "join" /\ Halfway(n, P, SideOf(n, Head(q)), Head(q).x, Head(q).rest)

Fit(n, q, o, b, sd, ac, G, P, R) ==
    /\ IsList(q) /\ IsList(o) /\ InputsTidy(n, P) /\ Tidy(n, R)
    /\ Indexed(n, sd, ac, P) /\ Remembered(n, P, b) /\ Interrupted(n, P, q)
    /\ Run(n, P, Todo(q), G)
    /\ Path(n, R, o, Now(n, P, q, b))
Sound(n, q, o, b, sd, ac, G, R) == \E P : Fit(n, q, o, b, sd, ac, G, P, R)

(* No interrupted join is behind the front of a queue. *)
LEMMA RunFresh ==
    ASSUME NEW n, NEW P, NEW q, NEW Q, IsList(q), Run(n, P, q, Q)
    PROVE  ~Mid(q) /\ Todo(q) = q
<1>1. PICK h : \A j \in 1..Len(q) : Move(n, h[j - 1], q[j], h[j])
  BY DEF Run
<1>2. ASSUME q # <<>> PROVE Head(q).fresh
  <2>1. Head(q) = q[1] /\ Len(q) \in Nat \ {0}
    BY <1>2, ListTail
  <2>2. 1 \in 1..Len(q)
    BY <2>1
  <2>3. Move(n, h[1 - 1], q[1], h[1])
    BY <1>1, <2>2
  <2> QED
    BY <2>1, <2>3 DEF Move
<1> QED
  BY <1>2 DEF Mid, Todo

(* The next item of a queue that is not interrupted. *)
Taken(n, P, q, Q, G) ==
    /\ Move(n, P, Head(q), Q) /\ InputsTidy(n, Q)
    /\ IsList(Tail(q)) /\ ~Mid(Tail(q)) /\ Todo(Tail(q)) = Tail(q) /\ Run(n, Q, Tail(q), G)
(* The first item of a queue that is not interrupted can be taken. *)
LEMMA FitHead ==
    ASSUME NEW n, NEW q, NEW o, NEW b, NEW sd, NEW ac, NEW G, NEW P, NEW R,
           Fit(n, q, o, b, sd, ac, G, P, R), q # <<>>, ~Mid(q)
    PROVE  \E Q : Taken(n, P, q, Q, G)
<1>1. IsList(q) /\ Run(n, P, q, G) /\ InputsTidy(n, P)
  BY DEF Fit, Todo
<1>2. PICK Q : Move(n, P, Head(q), Q) /\ Run(n, Q, Tail(q), G)
  BY <1>1, RunHead
<1>3. IsList(Tail(q))
  BY <1>1, ListTail
<1>4. ~Mid(Tail(q)) /\ Todo(Tail(q)) = Tail(q)
  BY <1>2, <1>3, RunFresh
<1>5. ASSUME NEW i \in Sides(n) PROVE Tidy(Source(n, i), Q[i])
  <2>0. Tidy(Source(n, i), P[i])
    BY <1>1 DEF InputsTidy
  <2>1. CASE i = Lane(n, Head(q))
    <3>1. Step(Source(n, i), P[i], Head(q).x, Q[i])
      BY <1>2, <2>1 DEF Move
    <3> QED
      BY <2>0, <3>1, StepTidy
  <2>2. CASE i # Lane(n, Head(q))
    BY <1>2, <2>0, <2>2 DEF Move
  <2> QED
    BY <2>1, <2>2
<1>6. InputsTidy(n, Q)
  BY <1>5 DEF InputsTidy
<1> QED
  BY <1>2, <1>3, <1>4, <1>6 DEF Taken

(* What is produced is appended. *)
LEMMA Produces ==
    ASSUME NEW n, NEW R, NEW o, NEW A, NEW e, NEW B, IsList(o), IsList(e), Path(n, R, o, A), Path(n, A, e, B)
    PROVE  IsList(o \o e) /\ Path(n, R, o \o e, B)
BY PathConcat, ListConcat

(* An item taken whole: what is left to show for the new state. *)
LEMMA FitTaken ==
    ASSUME NEW n, NEW q, NEW o, NEW b, NEW sd, NEW ac, NEW G, NEW P, NEW R, NEW Q,
           Fit(n, q, o, b, sd, ac, G, P, R), Taken(n, P, q, Q, G),
           NEW e, IsList(e), NEW b2, NEW sd2, NEW ac2,
           Path(n, Now(n, P, q, b), e, Now(n, Q, Tail(q), b2)),
           Indexed(n, sd2, ac2, Q), Remembered(n, Q, b2)
    PROVE  Sound(n, Tail(q), o \o e, b2, sd2, ac2, G, R)
<1>1. IsList(o \o e) /\ Path(n, R, o \o e, Now(n, Q, Tail(q), b2))
  BY Produces DEF Fit
<1>2. Interrupted(n, Q, Tail(q))
  BY DEF Taken, Interrupted
<1>3. Run(n, Q, Todo(Tail(q)), G)
  BY DEF Taken
<1>4. Fit(n, Tail(q), o \o e, b2, sd2, ac2, G, Q, R)
  BY <1>1, <1>2, <1>3 DEF Fit, Taken
<1> QED
  BY <1>4 DEF Sound

(* What of Sound the state says of the operator whose slice it is. *)
SoundNow(G, R) == Sound(cur, queue[cur], out, before, staged.side[cur], staged.acc[cur], G, R)
SoundNext(G, R) == Sound(cur, queue'[cur], out', before', staged'.side[cur], staged'.acc[cur], G, R)

IsNet(w) ==
    /\ DOMAIN w = {"base", "side", "acc", "rel"}
    /\ DOMAIN w.side = Op /\ DOMAIN w.acc = Op /\ DOMAIN w.rel = Op
    /\ DOMAIN w.base = Rels /\ \A r \in Rels : DOMAIN w.base[r] = Key

AtItem == cur \in Op /\ DOMAIN queue = Op /\ IsNet(staged) /\ Pending(queue, cur)

(* What Consume changes and what it leaves. *)
LEMMA ConsumeFacts ==
    ASSUME AtItem, NEW rest, NEW emit, NEW ns, Consume(rest, emit, ns)
    PROVE  /\ queue'[cur] = rest \o Tail(queue[cur]) /\ out' = out \o emit /\ cur' = cur
           /\ staged'.side[cur] = ns /\ staged'.acc[cur] = staged.acc[cur]
           /\ IsNet(staged') /\ staged'.base = staged.base /\ staged'.rel = staged.rel /\ DOMAIN queue' = Op
           /\ \A n \in Op : n # cur => /\ queue'[n] = queue[n] /\ staged'.side[n] = staged.side[n]
                                       /\ staged'.acc[n] = staged.acc[n]
BY DEF AtItem, Consume, IsNet

(* Only joins are interrupted. *)
LEMMA NotInterrupted ==
    ASSUME NEW n, Kind[n] # "join", NEW q, NEW o, NEW b, NEW sd, NEW ac, NEW G, NEW P, NEW R,
           Fit(n, q, o, b, sd, ac, G, P, R)
    PROVE  ~Mid(q)
BY DEF Fit, Interrupted

(* An operator that keeps nothing or a support index: one input. *)
LEMMA OneInput ==
    ASSUME NEW n \in Op, Kind[n] \in {"map", "filter", "distinct", "group"}, NEW P, NEW q, NEW Q, NEW G,
           InputsTidy(n, P), Taken(n, P, q, Q, G)
    PROVE  Tidy(Inputs[n][1], P[1]) /\ Step(Inputs[n][1], P[1], Head(q).x, Q[1])
<1>1. n \notin TwoSided /\ Kind[n] # "scan"
  BY InputFacts
<1>2. Sides(n) = {1} /\ Lane(n, Head(q)) = 1 /\ Source(n, 1) = Inputs[n][1]
  BY <1>1 DEF Sides, Lane, Source
<1>3. Step(Source(n, 1), P[1], Head(q).x, Q[1])
  BY <1>2 DEF Taken, Move
<1> QED
  BY <1>2, <1>3 DEF InputsTidy

(* An item of Bind, Project or Filter. *)
LEMMA PlainItem ==
    ASSUME NEW n \in Op, Kind[n] \in {"map", "filter"}, NEW q, NEW o, NEW b, NEW sd, NEW ac, NEW G, NEW R,
           Sound(n, q, o, b, sd, ac, G, R), q # <<>>, NEW x, x = Head(q).x, NEW e,
           e = IF Kind[n] = "map" THEN <<Delta(x.sign, Row(n, x.t), Unary(n, x.d))>>
               ELSE IF Pass(n, x.t) THEN <<Delta(x.sign, x.t, Unary(n, x.d))>> ELSE <<>>
    PROVE  Sound(n, Tail(q), o \o e, b, sd, ac, G, R)
<1>1. PICK P : Fit(n, q, o, b, sd, ac, G, P, R)
  BY DEF Sound
<1>2. ~Mid(q)
  BY <1>1, NotInterrupted
<1>3. PICK Q : Taken(n, P, q, Q, G)
  BY <1>1, <1>2, FitHead
<1>4. Tidy(Inputs[n][1], P[1]) /\ Step(Inputs[n][1], P[1], x, Q[1])
  BY <1>1, <1>3, OneInput DEF Fit
<1>5. Path(n, Evaluate(n, P), e, Evaluate(n, Q))
  BY <1>4, MapPath, FilterPath
<1>6. IsList(e)
  BY ListOne, EmptyList
<1>7. Now(n, P, q, b) = Evaluate(n, P) /\ Now(n, Q, Tail(q), b) = Evaluate(n, Q)
  BY <1>2, <1>3 DEF Now, Taken
<1>8. Indexed(n, sd, ac, Q)
  <2>1. n \notin TwoSided
    BY InputFacts
  <2> QED
    BY <1>1, <2>1 DEF Fit, Indexed
<1>9. Remembered(n, Q, b)
  BY <1>1 DEF Fit, Remembered
<1>10. Path(n, Now(n, P, q, b), e, Now(n, Q, Tail(q), b))
  BY <1>5, <1>7
<1> QED
  BY <1>1, <1>3, <1>6, <1>8, <1>9, <1>10, FitTaken

(* An item of a scan. *)
LEMMA ScanItem ==
    ASSUME NEW n \in Op, Kind[n] = "scan", NEW q, NEW o, NEW b, NEW sd, NEW ac, NEW G, NEW R,
           Sound(n, q, o, b, sd, ac, G, R), q # <<>>
    PROVE  Sound(n, Tail(q), o \o <<Head(q).x>>, b, sd, ac, G, R)
<1> DEFINE e == <<Head(q).x>>
<1>1. PICK P : Fit(n, q, o, b, sd, ac, G, P, R)
  BY DEF Sound
<1>2. ~Mid(q)
  BY <1>1, NotInterrupted
<1>3. PICK Q : Taken(n, P, q, Q, G)
  BY <1>1, <1>2, FitHead
<1>a. n \notin TwoSided
  BY InputFacts
<1>4. Step(n, P[1], Head(q).x, Q[1])
  BY <1>3, <1>a DEF Taken, Move, Lane, Source
<1>5. Path(n, P[1], e, Q[1])
  BY <1>4, PathOne
<1>6. IsList(e)
  BY ListOne
<1>7. Now(n, P, q, b) = P[1] /\ Now(n, Q, Tail(q), b) = Q[1]
  BY DEF Now
<1>8. Indexed(n, sd, ac, Q)
  BY <1>1, <1>a DEF Fit, Indexed
<1>9. Remembered(n, Q, b)
  BY <1>1 DEF Fit, Remembered
<1> HIDE DEF e
<1>10. Path(n, Now(n, P, q, b), e, Now(n, Q, Tail(q), b))
  BY <1>5, <1>7
<1>11. Sound(n, Tail(q), o \o e, b, sd, ac, G, R)
  BY <1>1, <1>3, <1>6, <1>8, <1>9, <1>10, FitTaken
<1> QED
  BY <1>11 DEF e

(* An item of Distinct. *)
LEMMA DistinctItem ==
    ASSUME NEW n \in Op, Kind[n] = "distinct", NEW q, NEW o, NEW b, NEW sd, NEW ac, NEW G, NEW R,
           Sound(n, q, o, b, sd, ac, G, R), q # <<>>, NEW x, x = Head(q).x,
           NEW old, old = Supported(sd[1], x.t), NEW new, new = Supported(Support(sd[1], x), x.t),
           NEW e, e = IF (x.sign = "+" /\ old = 0) \/ (x.sign = "-" /\ old > 0 /\ new = 0)
                      THEN <<Delta(x.sign, x.t, Distinct(n, x.t))>> ELSE <<>>,
           NEW sd2, sd2 = [sd EXCEPT ![1] = Support(sd[1], x)]
    PROVE  Sound(n, Tail(q), o \o e, b, sd2, ac, G, R)
<1>1. PICK P : Fit(n, q, o, b, sd, ac, G, P, R)
  BY DEF Sound
<1>2. ~Mid(q)
  BY <1>1, NotInterrupted
<1>3. PICK Q : Taken(n, P, q, Q, G)
  BY <1>1, <1>2, FitHead
<1>4. Tidy(Inputs[n][1], P[1]) /\ Step(Inputs[n][1], P[1], x, Q[1])
  BY <1>1, <1>3, OneInput DEF Fit
<1>a. sd[1] = P[1] /\ DOMAIN sd = {1, 2}
  BY <1>1 DEF Fit, Indexed
<1>b. Support(sd[1], x) = Q[1]
  BY <1>4, <1>a, SupportIs
<1>5. Path(n, Evaluate(n, P), e, Evaluate(n, Q))
  <2>1. old = Supported(P[1], x.t) /\ new = Supported(Q[1], x.t)
    BY <1>a, <1>b
  <2> QED
    BY <1>4, <2>1, DistinctPath
<1>6. IsList(e)
  BY ListOne, EmptyList
<1>7. Now(n, P, q, b) = Evaluate(n, P) /\ Now(n, Q, Tail(q), b) = Evaluate(n, Q)
  BY <1>2, <1>3 DEF Now, Taken
<1>8. Indexed(n, sd2, ac, Q)
  <2>1. n \notin TwoSided
    BY InputFacts
  <2>2. sd2[1] = Q[1] /\ DOMAIN sd2 = {1, 2}
    BY <1>a, <1>b
  <2> QED
    BY <2>1, <2>2 DEF Indexed
<1>9. Remembered(n, Q, b)
  BY <1>1 DEF Fit, Remembered
<1>10. Path(n, Now(n, P, q, b), e, Now(n, Q, Tail(q), b))
  BY <1>5, <1>7
<1> QED
  BY <1>1, <1>3, <1>6, <1>8, <1>9, <1>10, FitTaken

(* An item for one side of an operator with two inputs. *)
TakenSide(n, P, q, Q, i) ==
    /\ i \in {1, 2} /\ i = SideOf(n, Head(q)) /\ BothTidy(n, P)
    /\ Step(Inputs[n][i], P[i], Head(q).x, Q[i]) /\ Q[3 - i] = P[3 - i]
(* A two-sided operator takes an item on one side. *)
LEMMA TwoInputs ==
    ASSUME NEW n \in TwoSided, NEW P, NEW q, NEW Q, NEW G, InputsTidy(n, P), Taken(n, P, q, Q, G)
    PROVE  TakenSide(n, P, q, Q, SideOf(n, Head(q)))
<1>1. n \in Op /\ Kind[n] # "scan"
  <2>1. n \in Op
    BY DEF TwoSided, OpOf
  <2> QED
    BY <2>1, InputFacts
<1>2. Sides(n) = {1, 2} /\ Lane(n, Head(q)) = SideOf(n, Head(q)) /\ \A i : Source(n, i) = Inputs[n][i]
  BY <1>1 DEF Sides, Lane, Source
<1> DEFINE i == SideOf(n, Head(q))
<1>3. i \in {1, 2} /\ Step(Source(n, i), P[i], Head(q).x, Q[i])
      /\ \A j \in {1, 2} : j # i => Q[j] = P[j]
  BY <1>2 DEF Taken, Move
<1>4. 3 - i \in {1, 2} /\ 3 - i # i
  BY <1>3
<1>5. BothTidy(n, P)
  BY <1>2 DEF InputsTidy, BothTidy
<1> QED
  BY <1>2, <1>3, <1>4, <1>5 DEF TakenSide

AppliedTo(sd, n, i, x) == [sd EXCEPT ![i] = SideApply(sd[i], n, i, x)]
(* The index of that side follows; the other one stays. *)
LEMMA TwoApplied ==
    ASSUME NEW n \in TwoSided, NEW P, NEW q, NEW Q, NEW i, TakenSide(n, P, q, Q, i),
           NEW sd, NEW ac, Indexed(n, sd, ac, P),
           NEW sd2, sd2 = AppliedTo(sd, n, i, Head(q).x)
    PROVE  /\ Indexed(n, sd2, ac, Q) /\ sd[i] = P[i] /\ sd[3 - i] = P[3 - i]
           /\ SideApply(sd[i], n, i, Head(q).x) = Q[i]
<1>0. i \in {1, 2} /\ n \in Op
  BY DEF TakenSide, TwoSided, OpOf
<1>a. Kind[n] \in {"join", "anti", "parent", "union"}
  BY <1>0, InputFacts
<1>1. DOMAIN sd = {1, 2} /\ sd[1] = P[1] /\ sd[2] = P[2]
  BY DEF Indexed
<1>2. sd[i] = P[i] /\ sd[3 - i] = P[3 - i]
  BY <1>0, <1>1
<1>3. Tidy(Inputs[n][i], P[i]) /\ Step(Inputs[n][i], P[i], Head(q).x, Q[i]) /\ Q[3 - i] = P[3 - i]
  BY <1>0 DEF TakenSide, BothTidy
<1>4. SideApply(sd[i], n, i, Head(q).x) = Q[i]
  BY <1>2, <1>3, SideApplyIs
<1>5. DOMAIN sd2 = {1, 2} /\ sd2[i] = Q[i] /\ sd2[3 - i] = Q[3 - i]
  BY <1>0, <1>1, <1>2, <1>3, <1>4 DEF AppliedTo
<1>6. sd2[1] = Q[1] /\ sd2[2] = Q[2]
  BY <1>0, <1>5
<1> QED
  BY <1>a, <1>2, <1>4, <1>5, <1>6 DEF Indexed

(* What an item for one side reads of the indexes. *)
Counted(n, i, x, sd, old, new, opp) ==
    /\ old = Cardinality(Bucket(sd[i], n, i, KeyOf(n, i, x.t)))
    /\ new = Cardinality(Bucket(SideApply(sd[i], n, i, x), n, i, KeyOf(n, i, x.t)))
    /\ opp = Bucket(sd[3 - i], n, 3 - i, KeyOf(n, i, x.t))
AntiEmits(n, i, x, old, new, opp, e) ==
    \/ i = 1 /\ e = IF old # new /\ opp = {} THEN <<Delta(x.sign, x.t, Unary(n, x.d))>> ELSE <<>>
    \/ i = 2 /\ \E p \in Orders(AntiTouched(old, new, opp)) : e = AntiSent(n, old, p)
(* An item of an anti-join. *)
LEMMA AntiItem ==
    ASSUME NEW n \in Op, Kind[n] = "anti", NEW q, NEW o, NEW b, NEW sd, NEW ac, NEW G, NEW R,
           Sound(n, q, o, b, sd, ac, G, R), q # <<>>, NEW x, x = Head(q).x, NEW i, i = Head(q).side,
           NEW old, NEW new, NEW opp, Counted(n, i, x, sd, old, new, opp),
           NEW e, AntiEmits(n, i, x, old, new, opp, e),
           NEW sd2, sd2 = AppliedTo(sd, n, i, x)
    PROVE  Sound(n, Tail(q), o \o e, b, sd2, ac, G, R)
<1>1. PICK P : Fit(n, q, o, b, sd, ac, G, P, R)
  BY DEF Sound
<1>2. ~Mid(q)
  BY <1>1, NotInterrupted
<1>3. PICK Q : Taken(n, P, q, Q, G)
  BY <1>1, <1>2, FitHead
<1>a. n \in TwoSided
  BY InputFacts
<1>b. i = SideOf(n, Head(q))
  BY DEF SideOf
<1>4. TakenSide(n, P, q, Q, i)
  BY <1>1, <1>3, <1>a, <1>b, TwoInputs DEF Fit
<1>d. Indexed(n, sd, ac, P)
  BY <1>1 DEF Fit
<1>5. /\ Indexed(n, sd2, ac, Q) /\ sd[i] = P[i] /\ sd[3 - i] = P[3 - i]
      /\ SideApply(sd[i], n, i, x) = Q[i]
  BY <1>4, <1>a, <1>d, TwoApplied
<1>c. Tidy(Inputs[n][1], P[1]) /\ Tidy(Inputs[n][2], P[2])
  BY <1>4 DEF TakenSide, BothTidy
<1>6. IsList(e) /\ Path(n, Evaluate(n, P), e, Evaluate(n, Q))
  <2>1. CASE i = 1
    <3>1. Step(Inputs[n][1], P[1], x, Q[1]) /\ Q[2] = P[2]
      BY <1>4, <2>1 DEF TakenSide
    <3>2. old # new
      <4>1. /\ Bucket(sd[1], n, 1, KeyOf(n, 1, x.t)) = Bucket(P[1], n, 1, KeyOf(n, 1, x.t))
            /\ Bucket(SideApply(sd[i], n, i, x), n, 1, KeyOf(n, 1, x.t)) = Bucket(Q[1], n, 1, KeyOf(n, 1, x.t))
        BY <1>5, <2>1
      <4>2. Cardinality(Bucket(Q[1], n, 1, KeyOf(n, 1, x.t))) # Cardinality(Bucket(P[1], n, 1, KeyOf(n, 1, x.t)))
        BY <1>c, <3>1, BucketStep
      <4> QED
        BY <2>1, <4>1, <4>2 DEF Counted
    <3>3. opp = Bucket(P[2], n, 2, KeyOf(n, 1, x.t))
      BY <1>5, <2>1 DEF Counted
    <3>4. e = IF Bucket(P[2], n, 2, KeyOf(n, 1, x.t)) = {} THEN <<Delta(x.sign, x.t, Unary(n, x.d))>> ELSE <<>>
      BY <2>1, <3>2, <3>3 DEF AntiEmits
    <3>5. IsList(e)
      BY <3>4, ListOne, EmptyList
    <3> QED
      BY <1>c, <3>1, <3>4, <3>5, AntiLeftPath
  <2>2. CASE i = 2
    <3>1. Step(Inputs[n][2], P[2], x, Q[2]) /\ Q[1] = P[1]
      BY <1>4, <2>2 DEF TakenSide
    <3>2. /\ old = Cardinality(Bucket(P[2], n, 2, KeyOf(n, 2, x.t)))
          /\ new = Cardinality(Bucket(Q[2], n, 2, KeyOf(n, 2, x.t)))
          /\ opp = Bucket(P[1], n, 1, KeyOf(n, 2, x.t))
      BY <1>5, <2>2 DEF Counted
    <3>3. PICK p \in Orders(AntiTouched(old, new, Bucket(P[1], n, 1, KeyOf(n, 2, x.t)))) : e = AntiSent(n, old, p)
      BY <2>2, <3>2 DEF AntiEmits
    <3> QED
      BY <1>c, <3>1, <3>2, <3>3, AntiRightPath
  <2> QED
    BY <1>4, <2>1, <2>2 DEF TakenSide
<1>7. Now(n, P, q, b) = Evaluate(n, P) /\ Now(n, Q, Tail(q), b) = Evaluate(n, Q)
  BY <1>2, <1>3 DEF Now, Taken
<1>9. Remembered(n, Q, b)
  BY <1>1 DEF Fit, Remembered
<1>10. Path(n, Now(n, P, q, b), e, Now(n, Q, Tail(q), b))
  BY <1>6, <1>7
<1> QED
  BY <1>1, <1>3, <1>5, <1>6, <1>9, <1>10, FitTaken
ParentEmits(n, i, x, old, new, opp, e) ==
    \/ i = 1 /\ e = IF old # new
                    THEN <<Delta(x.sign, CountRow(KeyOf(n, 1, x.t), Cardinality(opp)), Unary(n, x.d))>> ELSE <<>>
    \/ i = 2 /\ \E p \in Orders(IF old # new THEN opp ELSE {}) : e = ParentSent(n, old, new, p)
(* An item of a parent count. *)
LEMMA ParentItem ==
    ASSUME NEW n \in Op, Kind[n] = "parent", NEW q, NEW o, NEW b, NEW sd, NEW ac, NEW G, NEW R,
           Sound(n, q, o, b, sd, ac, G, R), q # <<>>, NEW x, x = Head(q).x, NEW i, i = Head(q).side,
           NEW old, NEW new, NEW opp, Counted(n, i, x, sd, old, new, opp),
           NEW e, ParentEmits(n, i, x, old, new, opp, e),
           NEW sd2, sd2 = AppliedTo(sd, n, i, x)
    PROVE  Sound(n, Tail(q), o \o e, b, sd2, ac, G, R)
<1>1. PICK P : Fit(n, q, o, b, sd, ac, G, P, R)
  BY DEF Sound
<1>2. ~Mid(q)
  BY <1>1, NotInterrupted
<1>3. PICK Q : Taken(n, P, q, Q, G)
  BY <1>1, <1>2, FitHead
<1>a. n \in TwoSided
  BY InputFacts
<1>b. i = SideOf(n, Head(q))
  BY DEF SideOf
<1>4. TakenSide(n, P, q, Q, i)
  BY <1>1, <1>3, <1>a, <1>b, TwoInputs DEF Fit
<1>d. Indexed(n, sd, ac, P)
  BY <1>1 DEF Fit
<1>5. /\ Indexed(n, sd2, ac, Q) /\ sd[i] = P[i] /\ sd[3 - i] = P[3 - i]
      /\ SideApply(sd[i], n, i, x) = Q[i]
  BY <1>4, <1>a, <1>d, TwoApplied
<1>c. Tidy(Inputs[n][1], P[1]) /\ Tidy(Inputs[n][2], P[2])
  BY <1>4 DEF TakenSide, BothTidy
<1>e. i \in {1, 2} /\ Tidy(Inputs[n][i], P[i]) /\ Step(Inputs[n][i], P[i], x, Q[i])
  BY <1>4, <1>c DEF TakenSide
<1>f. old # new
  <2>1. Cardinality(Bucket(Q[i], n, i, KeyOf(n, i, x.t))) # Cardinality(Bucket(P[i], n, i, KeyOf(n, i, x.t)))
    BY <1>e, BucketStep
  <2> QED
    BY <1>5, <2>1 DEF Counted
<1>6. IsList(e) /\ Path(n, Evaluate(n, P), e, Evaluate(n, Q))
  <2>1. CASE i = 1
    <3>1. Step(Inputs[n][1], P[1], x, Q[1]) /\ Q[2] = P[2]
      BY <1>4, <2>1 DEF TakenSide
    <3>3. opp = Bucket(P[2], n, 2, KeyOf(n, 1, x.t))
      BY <1>5, <2>1 DEF Counted
    <3>4. e = <<Delta(x.sign, CountRow(KeyOf(n, 1, x.t), Cardinality(Bucket(P[2], n, 2, KeyOf(n, 1, x.t)))),
                      Unary(n, x.d))>>
      BY <1>f, <2>1, <3>3 DEF ParentEmits
    <3>5. IsList(e)
      BY <3>4, ListOne
    <3> QED
      BY <1>c, <3>1, <3>4, <3>5, ParentLeftPath
  <2>2. CASE i = 2
    <3>1. Step(Inputs[n][2], P[2], x, Q[2]) /\ Q[1] = P[1]
      BY <1>4, <2>2 DEF TakenSide
    <3>2. /\ old = Cardinality(Bucket(P[2], n, 2, KeyOf(n, 2, x.t)))
          /\ new = Cardinality(Bucket(Q[2], n, 2, KeyOf(n, 2, x.t)))
          /\ opp = Bucket(P[1], n, 1, KeyOf(n, 2, x.t))
      BY <1>5, <2>2 DEF Counted
    <3>3. PICK p \in Orders(Bucket(P[1], n, 1, KeyOf(n, 2, x.t))) : e = ParentSent(n, old, new, p)
      BY <1>f, <2>2, <3>2 DEF ParentEmits
    <3> QED
      BY <1>c, <3>1, <3>2, <3>3, ParentRightPath
  <2> QED
    BY <1>e, <2>1, <2>2
<1>7. Now(n, P, q, b) = Evaluate(n, P) /\ Now(n, Q, Tail(q), b) = Evaluate(n, Q)
  BY <1>2, <1>3 DEF Now, Taken
<1>9. Remembered(n, Q, b)
  BY <1>1 DEF Fit, Remembered
<1>10. Path(n, Now(n, P, q, b), e, Now(n, Q, Tail(q), b))
  BY <1>6, <1>7
<1> QED
  BY <1>1, <1>3, <1>5, <1>6, <1>9, <1>10, FitTaken

(* A join reports a page of the matches and comes back to the rest. *)
JoinSent(n, i, x, p) == [j \in DOMAIN p |-> Delta(x.sign, Paired(n, i, x, p[j]).t, Paired(n, i, x, p[j]).d)]
JoinLeft(it, rest) == IF rest = {} THEN <<>> ELSE <<Continuation(it, rest)>>
JoinReads(n, it, sd) ==
    IF it.fresh THEN Bucket(sd[3 - SideOf(n, it)], n, 3 - SideOf(n, it), KeyOf(n, SideOf(n, it), it.x.t)) ELSE it.rest
PageOf(p, X) ==
    /\ IsList(p) /\ (\A j \in 1..Len(p) : p[j] \in X)
    /\ \A j, l \in 1..Len(p) : p[j] = p[l] => j = l
(* A page of matches is sent, the rest stays to come. *)
LEMMA JoinPageSent ==
    ASSUME NEW n \in Op, Kind[n] = "join", NEW P, BothTidy(n, P), NEW i, NEW x, NEW X, Halfway(n, P, i, x, X),
           NEW p, PageOf(p, X), NEW Y, Y = X \ RangeOf(p)
    PROVE  /\ IsList(JoinSent(n, i, x, p)) /\ Halfway(n, P, i, x, Y)
           /\ Path(n, Half(n, P, i, x, X), JoinSent(n, i, x, p), Half(n, P, i, x, Y))
<1> DEFINE s == JoinSent(n, i, x, p)
<1>1. Len(p) \in Nat /\ DOMAIN p = 1..Len(p)
  BY ListFacts DEF PageOf
<1>2. DOMAIN s = 1..Len(p) /\ s = [j \in 1..Len(p) |-> s[j]]
  BY <1>1 DEF JoinSent
<1>3. \A j \in 1..Len(p) : s[j] = Delta(x.sign, Paired(n, i, x, p[j]).t, Paired(n, i, x, p[j]).d)
  BY <1>1 DEF JoinSent
<1> HIDE DEF s
<1>4. IsList(s) /\ Len(s) = Len(p)
  BY <1>1, <1>2, MadeList
<1>5. Path(n, Half(n, P, i, x, X), s, Half(n, P, i, x, Y)) /\ Halfway(n, P, i, x, Y)
  BY <1>3, <1>4, JoinPage DEF PageOf
<1> QED
  BY <1>4, <1>5 DEF s

(* The rest of a page: the continuation goes to the front. *)
LEMMA FitPaged ==
    ASSUME NEW n \in Op, Kind[n] = "join", NEW r, IsList(r), ~Mid(r), NEW o, IsList(o), NEW sd, NEW ac, NEW G, NEW P, NEW R,
           InputsTidy(n, P), Tidy(n, R), Indexed(n, sd, ac, P), Run(n, P, r, G),
           NEW it, NEW i, i = SideOf(n, it), NEW Y, Halfway(n, P, i, it.x, Y), Path(n, R, o, Half(n, P, i, it.x, Y))
    PROVE  Sound(n, JoinLeft(it, Y) \o r, o, {}, sd, ac, G, R)
<1>0. Remembered(n, P, {})
  BY DEF Remembered, Keyed
<1>1. CASE Y = {}
  <2>1. JoinLeft(it, Y) \o r = r
    <3>1. JoinLeft(it, Y) = <<>>
      BY <1>1 DEF JoinLeft
    <3> QED
      BY <3>1, ListConcat, EmptyList
  <2>2. Todo(r) = r /\ Interrupted(n, P, r)
    BY DEF Todo, Interrupted
  <2>3. Now(n, P, r, {}) = Evaluate(n, P)
    BY DEF Now
  <2>4. Path(n, R, o, Now(n, P, r, {}))
    BY <1>1, <2>3, HalfDone
  <2>5. Fit(n, r, o, {}, sd, ac, G, P, R)
    BY <1>0, <2>2, <2>4 DEF Fit
  <2> QED
    BY <2>1, <2>5 DEF Sound
<1>2. CASE Y # {}
  <2> DEFINE c == Continuation(it, Y)
             q == JoinLeft(it, Y) \o r
  <2>1. JoinLeft(it, Y) = <<c>>
    BY <1>2 DEF JoinLeft
  <2>2. IsList(q) /\ Len(q) = 1 + Len(r) /\ Head(q) = c /\ Tail(q) = r /\ q # <<>>
    <3>1. PICK S : r \in Seq(S)
      BY DEF IsList
    <3>2. <<c>> \in Seq(S \cup {c}) /\ r \in Seq(S \cup {c})
      BY <3>1
    <3> HIDE DEF c
    <3>3. <<c>> \o r \in Seq(S \cup {c}) /\ Len(<<c>> \o r) = 1 + Len(r) /\ Head(<<c>> \o r) = c
          /\ Tail(<<c>> \o r) = r /\ <<c>> \o r # <<>>
      BY <3>2
    <3> QED
      BY <2>1, <3>3 DEF IsList
  <2>3. c.fresh = FALSE /\ c.x = it.x /\ c.rest = Y /\ SideOf(n, c) = i
    BY DEF Continuation, SideOf
  <2> HIDE DEF c, q
  <2>4. Mid(q) /\ Todo(q) = r
    BY <2>2, <2>3 DEF Mid, Todo
  <2>5. Interrupted(n, P, q)
    BY <2>2, <2>3 DEF Interrupted
  <2>6. Now(n, P, q, {}) = Half(n, P, i, it.x, Y)
    BY <2>2, <2>3, <2>4 DEF Now
  <2>7. Path(n, R, o, Now(n, P, q, {}))
    BY <2>6
  <2>8. Fit(n, q, o, {}, sd, ac, G, P, R)
    BY <1>0, <2>2, <2>4, <2>5, <2>7 DEF Fit
  <2> QED
    BY <2>8 DEF Sound, q
<1> QED
  BY <1>1, <1>2

(* An item of a join, fresh or continued, done or interrupted again. *)
LEMMA JoinItem ==
    ASSUME NEW n \in Op, Kind[n] = "join", NEW q, NEW o, NEW b, NEW sd, NEW ac, NEW G, NEW R,
           Sound(n, q, o, b, sd, ac, G, R), q # <<>>, NEW it, it = Head(q), NEW i, i = SideOf(n, it),
           NEW X, X = JoinReads(n, it, sd), NEW p, PageOf(p, X), NEW Y, Y = X \ RangeOf(p),
           NEW sd2, sd2 = IF it.fresh THEN AppliedTo(sd, n, i, it.x) ELSE sd
    PROVE  Sound(n, JoinLeft(it, Y) \o Tail(q), o \o JoinSent(n, i, it.x, p), b, sd2, ac, G, R)
<1>1. PICK P : Fit(n, q, o, b, sd, ac, G, P, R)
  BY DEF Sound
<1>a. n \in TwoSided
  BY InputFacts
<1>b. b = {} /\ InputsTidy(n, P) /\ Tidy(n, R) /\ Indexed(n, sd, ac, P) /\ IsList(o) /\ IsList(q)
  BY <1>1 DEF Fit, Remembered
<1>c. \A Q : InputsTidy(n, Q) => BothTidy(n, Q)
  BY <1>a, InputFacts DEF InputsTidy, BothTidy, Sides, Source
<1>2. CASE Mid(q)
  <2>1. ~it.fresh /\ X = it.rest /\ sd2 = sd
    BY <1>2 DEF Mid, JoinReads
  <2>2. Halfway(n, P, i, it.x, X) /\ Now(n, P, q, b) = Half(n, P, i, it.x, X)
    BY <1>1, <1>2, <2>1 DEF Fit, Interrupted, Now
  <2>3. Run(n, P, Tail(q), G)
    BY <1>1, <1>2 DEF Fit, Todo
  <2>4. IsList(Tail(q)) /\ ~Mid(Tail(q))
    BY <1>b, <2>3, ListTail, RunFresh
  <2>5. /\ IsList(JoinSent(n, i, it.x, p)) /\ Halfway(n, P, i, it.x, Y)
        /\ Path(n, Half(n, P, i, it.x, X), JoinSent(n, i, it.x, p), Half(n, P, i, it.x, Y))
    BY <1>b, <1>c, <2>2, JoinPageSent
  <2>6. Path(n, R, o, Half(n, P, i, it.x, X))
    BY <1>1, <2>2 DEF Fit
  <2>7. IsList(o \o JoinSent(n, i, it.x, p)) /\ Path(n, R, o \o JoinSent(n, i, it.x, p), Half(n, P, i, it.x, Y))
    BY <1>b, <2>5, <2>6, Produces
  <2>8. Sound(n, JoinLeft(it, Y) \o Tail(q), o \o JoinSent(n, i, it.x, p), {}, sd, ac, G, R)
    BY <1>b, <2>3, <2>4, <2>5, <2>7, FitPaged
  <2> QED
    BY <1>b, <2>1, <2>8
<1>3. CASE ~Mid(q)
  <2>0. PICK Q : Taken(n, P, q, Q, G)
    BY <1>1, <1>3, FitHead
  <2>1. it.fresh /\ sd2 = AppliedTo(sd, n, i, it.x)
    BY <1>3 DEF Mid
  <2>2. TakenSide(n, P, q, Q, i)
    BY <1>a, <1>b, <2>0, TwoInputs
  <2>3. Indexed(n, sd2, ac, Q) /\ sd[3 - i] = P[3 - i] /\ Q[3 - i] = P[3 - i]
    <3>1. sd2 = AppliedTo(sd, n, i, Head(q).x)
      BY <2>1
    <3>2. Q[3 - i] = P[3 - i]
      BY <2>2 DEF TakenSide
    <3> QED
      BY <1>a, <1>b, <2>2, <3>1, <3>2, TwoApplied
  <2>4. X = Bucket(Q[3 - i], n, 3 - i, KeyOf(n, i, it.x.t))
    BY <2>1, <2>3 DEF JoinReads
  <2>5. i \in {1, 2} /\ BothTidy(n, P) /\ Step(Inputs[n][i], P[i], it.x, Q[i])
    BY <2>2 DEF TakenSide
  <2>6. Half(n, Q, i, it.x, X) = Evaluate(n, P) /\ Halfway(n, Q, i, it.x, X) /\ BothTidy(n, Q)
    BY <2>3, <2>4, <2>5, JoinStart
  <2>7. /\ IsList(JoinSent(n, i, it.x, p)) /\ Halfway(n, Q, i, it.x, Y)
        /\ Path(n, Half(n, Q, i, it.x, X), JoinSent(n, i, it.x, p), Half(n, Q, i, it.x, Y))
    BY <2>6, JoinPageSent
  <2>8. Now(n, P, q, b) = Half(n, Q, i, it.x, X)
    BY <1>3, <2>6 DEF Now
  <2>9. Path(n, R, o, Half(n, Q, i, it.x, X))
    BY <1>1, <2>8 DEF Fit
  <2>10. IsList(o \o JoinSent(n, i, it.x, p)) /\ Path(n, R, o \o JoinSent(n, i, it.x, p), Half(n, Q, i, it.x, Y))
    BY <1>b, <2>7, <2>9, Produces
  <2>11. IsList(Tail(q)) /\ ~Mid(Tail(q)) /\ Run(n, Q, Tail(q), G) /\ InputsTidy(n, Q)
    BY <2>0 DEF Taken
  <2>12. Sound(n, JoinLeft(it, Y) \o Tail(q), o \o JoinSent(n, i, it.x, p), {}, sd2, ac, G, R)
    BY <1>b, <2>3, <2>7, <2>10, <2>11, FitPaged
  <2> QED
    BY <1>b, <2>12
<1> QED
  BY <1>2, <1>3

(* RowNow, of the indexes of an operator. *)
RowOf(n, sd, ac, k) ==
    IF Kind[n] = "union"
    THEN IF Cardinality(Bucket(sd[1], n, 1, k)) + Cardinality(Bucket(sd[2], n, 2, k)) = 0 THEN {}
         ELSE {The({e.t : e \in Bucket(sd[1], n, 1, k) \cup Bucket(sd[2], n, 2, k)})}
    ELSE LET count == Supported(sd[1], k)
         IN  IF count = 0 THEN {} ELSE {GroupRow(k, count, AccOf(ac, k))}
(* The row a key has now, from the indexes. *)
LEMMA RowNowIs ==
    ASSUME NEW n, NEW k
    PROVE  RowNow(n, k) = RowOf(n, staged.side[n], staged.acc[n], k)
BY DEF RowNow, RowOf, UnionCount, UnionRows

(* For a union it is the row of the key's one entry. *)
LEMMA UnionRowOf ==
    ASSUME NEW n \in Op, Kind[n] = "union", NEW P, BothTidy(n, P), NEW sd, sd[1] = P[1], sd[2] = P[2], NEW ac,
           NEW k, CountAt(n, P, k) <= 1
    PROVE  RowOf(n, sd, ac, k) = RowsAt(n, P, k) /\ AtMostOne(RowsAt(n, P, k))
<1> DEFINE X == {e.t : e \in Bucket(P[1], n, 1, k) \cup Bucket(P[2], n, 2, k)}
<1>1. RowsAt(n, P, k) = X
  BY DEF RowsAt
<1>2. RowOf(n, sd, ac, k) = IF CountAt(n, P, k) = 0 THEN {} ELSE {The(X)}
  BY DEF RowOf, CountAt
<1> HIDE DEF X
<1>3. CountAt(n, P, k) = 0 <=> RowsAt(n, P, k) = {}
  BY UnionRowIs
<1>4. AtMostOne(RowsAt(n, P, k))
  BY UnionRowIs
<1>5. \A r : X = {r} => The(X) = r
  BY DEF The
<1> QED
  BY <1>1, <1>2, <1>3, <1>4, <1>5 DEF AtMostOne

(* For a group it is the reference's row. *)
LEMMA GroupRowOf ==
    ASSUME NEW n \in Op, Kind[n] = "group", NEW m, NEW P, Tidy(m, P[1]), NEW sd, NEW ac, GroupIndexed(n, sd, ac, P[1]),
           NEW k
    PROVE  RowOf(n, sd, ac, k) = RowsAt(n, P, k) /\ AtMostOne(RowsAt(n, P, k))
<1>1. Supported(sd[1], k) = Cardinality(Members(n, k, P[1]))
  BY SupportedIs DEF GroupIndexed
<1>2. AccOf(ac, k) = RefAcc(n, Members(n, k, P[1]))
  BY AccOfIs DEF GroupIndexed
<1>3. Cardinality(Members(n, k, P[1])) = 0 <=> k \notin Groups(n, P[1])
  BY MembersFinite
<1> QED
  BY <1>1, <1>2, <1>3 DEF RowOf, RowsAt, AtMostOne

(* Once its row is remembered a key may change. *)
LEMMA RecallShown ==
    ASSUME NEW n \in Op, Kind[n] \in {"group", "union"}, NEW P, NEW b, Keyed(b), NEW Q, NEW k, OnlyAt(n, P, Q, k),
           NEW row, (\A c \in b : c.k # k) => row = RowsAt(n, P, k)
    PROVE  Recall(n, P, b, Q, k, Recalled(b, k, row))
<1> DEFINE c == Recalled(b, k, row)
<1>1. c = IF \E e \in b : e.k = k THEN b ELSE b \cup {[k |-> k, row |-> RowsAt(n, P, k)]}
  BY DEF Recalled
<1> HIDE DEF c
<1>3. \A e \in c : e \notin b => \A f \in b : f.k # k
  BY <1>1
<1>4. c = Recalled(b, k, RowsAt(n, P, k))
  BY <1>1 DEF Recalled
<1>2. /\ Keyed(c) /\ Shown(n, Q, c) = Shown(n, P, b)
      /\ b \subseteq c /\ (\A e \in c : e \in b \/ e.row = RowsAt(n, P, k)) /\ \E e \in c : e.k = k
  BY <1>4, RememberShown
<1> QED
  BY <1>2, <1>3 DEF c, Recall

Touches(n, P, Q, k) ==
    \A l : l # k => RowsAt(n, Q, l) = RowsAt(n, P, l) /\ CountAt(n, Q, l) = CountAt(n, P, l)
(* An item of a union touches one key. *)
LEMMA UnionTouches ==
    ASSUME NEW n \in Op, Kind[n] = "union", NEW P, NEW x, NEW Q, BothTidy(n, P), NEW i \in {1, 2},
           Step(Inputs[n][i], P[i], x, Q[i]), Q[3 - i] = P[3 - i]
    PROVE  Touches(n, P, Q, KeyOf(n, i, x.t))
<1>1. ASSUME NEW l, l # KeyOf(n, i, x.t)
      PROVE  RowsAt(n, Q, l) = RowsAt(n, P, l) /\ CountAt(n, Q, l) = CountAt(n, P, l)
  <2>1. /\ Bucket(Q[1], n, 1, l) = Bucket(P[1], n, 1, l)
        /\ Bucket(Q[2], n, 2, l) = Bucket(P[2], n, 2, l)
        /\ RowsAt(n, Q, l) = RowsAt(n, P, l)
    BY <1>1, UnionRowsStep
  <2> QED
    BY <2>1 DEF CountAt
<1> QED
  BY <1>1 DEF Touches

(* An item of a union. *)
LEMMA UnionItem ==
    ASSUME NEW n \in Op, Kind[n] = "union", NEW q, NEW o, NEW b, NEW sd, NEW ac, NEW G, NEW R,
           Sound(n, q, o, b, sd, ac, G, R), q # <<>>, NEW x, x = Head(q).x, NEW i, i = Head(q).side,
           NEW k, k = KeyOf(n, i, x.t), NEW b2, b2 = Recalled(b, k, RowOf(n, sd, ac, k)),
           NEW sd2, sd2 = AppliedTo(sd, n, i, x)
    PROVE  Sound(n, Tail(q), o \o <<>>, b2, sd2, ac, G, R)
<1>1. PICK P : Fit(n, q, o, b, sd, ac, G, P, R)
  BY DEF Sound
<1>2. ~Mid(q)
  BY <1>1, NotInterrupted
<1>3. PICK Q : Taken(n, P, q, Q, G)
  BY <1>1, <1>2, FitHead
<1>a. n \in TwoSided
  BY InputFacts
<1>b. i = SideOf(n, Head(q))
  BY DEF SideOf
<1>4. TakenSide(n, P, q, Q, i)
  BY <1>1, <1>3, <1>a, <1>b, TwoInputs DEF Fit
<1>d. Indexed(n, sd, ac, P) /\ Remembered(n, P, b) /\ sd[1] = P[1] /\ sd[2] = P[2]
  BY <1>1, <1>a DEF Fit, Indexed
<1>5. Indexed(n, sd2, ac, Q)
  BY <1>4, <1>a, <1>d, TwoApplied
<1>c. i \in {1, 2} /\ BothTidy(n, P) /\ Step(Inputs[n][i], P[i], x, Q[i]) /\ Q[3 - i] = P[3 - i]
  BY <1>4 DEF TakenSide
<1>e. Touches(n, P, Q, k)
  BY <1>c, UnionTouches
<1>6. ASSUME NEW l, l # k
      PROVE  RowsAt(n, Q, l) = RowsAt(n, P, l) /\ CountAt(n, Q, l) = CountAt(n, P, l)
  BY <1>6, <1>e DEF Touches
<1>7. ASSUME \A c \in b : c.k # k
      PROVE  RowOf(n, sd, ac, k) = RowsAt(n, P, k) /\ AtMostOne(RowsAt(n, P, k))
  <2>1. CountAt(n, P, k) <= 1
    BY <1>7, <1>d DEF Remembered
  <2> QED
    BY <1>c, <1>d, <2>1, UnionRowOf
<1>8. /\ Keyed(b2) /\ Shown(n, Q, b2) = Shown(n, P, b)
      /\ b \subseteq b2 /\ (\E e \in b2 : e.k = k)
      /\ \A e \in b2 : e \in b \/ (e.row = RowsAt(n, P, k) /\ \A c \in b : c.k # k)
  <2>1. Keyed(b)
    BY <1>d DEF Remembered
  <2>2. OnlyAt(n, P, Q, k)
    BY <1>6 DEF OnlyAt
  <2>3. (\A c \in b : c.k # k) => RowOf(n, sd, ac, k) = RowsAt(n, P, k)
    BY <1>7
  <2>4. Recall(n, P, b, Q, k, b2)
    BY <2>1, <2>2, <2>3, RecallShown
  <2> QED
    BY <2>4 DEF Recall
<1>9. Remembered(n, Q, b2)
  <2>1. \A c \in b2 : AtMostOne(c.row)
    BY <1>7, <1>8, <1>d DEF Remembered
  <2>2. ASSUME NEW l, \A c \in b2 : c.k # l PROVE CountAt(n, Q, l) <= 1
    <3>1. l # k /\ \A c \in b : c.k # l
      BY <1>8, <2>2
    <3>2. CountAt(n, P, l) <= 1
      BY <1>d, <3>1 DEF Remembered
    <3> QED
      BY <1>6, <3>1, <3>2
  <2> QED
    BY <1>8, <2>1, <2>2 DEF Remembered
<1>10. Now(n, P, q, b) = Shown(n, P, b) /\ Now(n, Q, Tail(q), b2) = Shown(n, Q, b2)
  BY <1>2, <1>3 DEF Now, Taken
<1>11. Path(n, Now(n, P, q, b), <<>>, Now(n, Q, Tail(q), b2))
  BY <1>8, <1>10, PathNil
<1>12. IsList(<<>>)
  BY EmptyList
<1> QED
  BY <1>1, <1>3, <1>5, <1>9, <1>11, <1>12, FitTaken

(* The group index after an item, unless the item is refused. *)
GroupTakes(n, x, sd, ac, count, sd2, ac2) ==
    LET k == GroupOf(n, x.t)
        g == Delta(x.sign, k, x.d)
        grows == count # Supported(sd[1], k)
        items == {i \in AccOf(ac, k).items : i.d # x.d}
    IN  /\ count = Supported(Support(sd[1], g), k)
        /\ ~(x.sign = "+" /\ grows /\ Cardinality(items) >= CollectLimit)
        /\ ~(grows /\ AggOf(n, x.t) \notin Int)
        /\ sd2 = [sd EXCEPT ![1] = Support(sd[1], g)]
        /\ ac2 = IF grows THEN SetAcc(ac, k, count, Accumulate(AccOf(ac, k), n, x)) ELSE ac

(* The supports and the accumulators of a group operator follow an item it *)
(* does not refuse.                                                        *)
LEMMA GroupTaken ==
    ASSUME NEW n \in Op, Kind[n] = "group", NEW m, NEW S, NEW x, NEW T, Tidy(m, S), Step(m, S, x, T),
           NEW sd, NEW ac, DOMAIN sd = {1, 2}, GroupIndexed(n, sd, ac, S),
           NEW count, NEW sd2, NEW ac2, GroupTakes(n, x, sd, ac, count, sd2, ac2)
    PROVE  GroupIndexed(n, sd2, ac2, T) /\ DOMAIN sd2 = {1, 2}
<1> DEFINE k == GroupOf(n, x.t)
           g == Delta(x.sign, k, x.d)
           MS == Members(n, k, S)
           MT == Members(n, k, T)
           items == {i \in AccOf(ac, k).items : i.d # x.d}
<1>0. Tidy(m, T)
  BY StepTidy
<1>1. /\ sd[1] = Regrouped(n, S) /\ ac = Accs(n, S) /\ Numbers(n, S)
      /\ \A l : Cardinality(Members(n, l, S)) <= CollectLimit
  BY DEF GroupIndexed
<1>2. Support(sd[1], g) = Regrouped(n, T)
  BY <1>1, RegroupStep
<1>3. count = Cardinality(MT) /\ Supported(sd[1], k) = Cardinality(MS)
  <2>1. count = Supported(Support(sd[1], g), k)
    BY DEF GroupTakes
  <2> QED
    BY <1>0, <1>1, <1>2, <2>1, SupportedIs
<1>4. /\ Step(m, MS, x, MT) /\ Cardinality(MT) # Cardinality(MS)
      /\ (x.sign = "+" => Cardinality(MT) = Cardinality(MS) + 1)
      /\ (x.sign = "-" => Cardinality(MT) = Cardinality(MS) - 1)
  BY MembersStep
<1>5. Tidy(m, MS) /\ Cardinality(MS) \in Nat
  BY MembersFinite
<1>6. AccOf(ac, k) = RefAcc(n, MS)
  BY <1>1, AccOfIs
<1>7. /\ AggOf(n, x.t) \in Int /\ ~(x.sign = "+" /\ Cardinality(items) >= CollectLimit)
      /\ sd2 = [sd EXCEPT ![1] = Support(sd[1], g)]
      /\ ac2 = SetAcc(ac, k, count, Accumulate(AccOf(ac, k), n, x))
  BY <1>3, <1>4 DEF GroupTakes
<1>8. Numbers(n, MS)
  BY <1>1 DEF Numbers, Members
<1>9. Accumulate(AccOf(ac, k), n, x) = RefAcc(n, MT)
  <2> HIDE DEF MS, MT, k, g
  <2> QED
    BY <1>4, <1>5, <1>6, <1>7, <1>8, AccumulateIs
<1>10. ac2 = Accs(n, T)
  <2>1. SetAcc(Accs(n, S), k, Cardinality(MT), RefAcc(n, MT)) = Accs(n, T)
    BY SetAccIs
  <2> QED
    BY <1>1, <1>3, <1>7, <1>9, <2>1
<1>11. sd2[1] = Regrouped(n, T) /\ DOMAIN sd2 = {1, 2}
  BY <1>2, <1>7
<1>12. Numbers(n, T)
  <2>1. \A e \in T : e \in S \/ e = Entry(x)
    BY DEF Step
  <2> QED
    BY <1>1, <1>7, <2>1, EntryFacts DEF Numbers
<1>13. x.sign = "+" => items = RefAcc(n, MS).items
  <2>1. RefAcc(n, MS).items = {[d |-> e.d, v |-> AggOf(n, e.t)] : e \in MS}
    BY DEF RefAcc
  <2>2. x.sign = "+" => \A e \in MS : e.d # x.d
    BY <1>4 DEF Step
  <2>3. \A i \in RefAcc(n, MS).items : \E e \in MS : i.d = e.d
    BY <2>1
  <2> QED
    BY <1>6, <2>2, <2>3
<1>14. ASSUME NEW l PROVE Cardinality(Members(n, l, T)) <= CollectLimit
  <2>1. CASE l # k
    <3>1. Members(n, l, T) = Members(n, l, S)
      BY <2>1, MembersStep
    <3> QED
      BY <1>1, <3>1
  <2>2. CASE l = k
    <3>1. Cardinality(MS) <= CollectLimit
      BY <1>1
    <3>2. CollectLimit \in Nat
      BY NetworkAssumption
    <3>3. x.sign = "+" \/ x.sign = "-"
      BY DEF Step
    <3>4. x.sign = "+" => Cardinality(items) = Cardinality(MS)
      <4> HIDE DEF MS, items
      <4>1. Cardinality(RefAcc(n, MS).items) = Cardinality(MS)
        BY <1>5, ItemsCount
      <4> QED
        BY <1>13, <4>1
    <3>5. Cardinality(MT) <= CollectLimit
      <4> HIDE DEF MS, MT, items
      <4> QED
        BY <1>4, <1>5, <1>7, <3>1, <3>2, <3>3, <3>4
    <3> QED
      BY <2>2, <3>5
  <2> QED
    BY <2>1, <2>2
<1> QED
  BY <1>10, <1>11, <1>12, <1>14 DEF GroupIndexed

(* An item of a group operator. *)
LEMMA GroupItem ==
    ASSUME NEW n \in Op, Kind[n] = "group", NEW q, NEW o, NEW b, NEW sd, NEW ac, NEW G, NEW R,
           Sound(n, q, o, b, sd, ac, G, R), q # <<>>, NEW x, x = Head(q).x,
           NEW k, k = GroupOf(n, x.t), NEW b2, b2 = Recalled(b, k, RowOf(n, sd, ac, k)),
           NEW count, NEW sd2, NEW ac2, GroupTakes(n, x, sd, ac, count, sd2, ac2)
    PROVE  Sound(n, Tail(q), o, b2, sd2, ac2, G, R)
<1>1. PICK P : Fit(n, q, o, b, sd, ac, G, P, R)
  BY DEF Sound
<1>2. ~Mid(q)
  BY <1>1, NotInterrupted
<1>3. PICK Q : Taken(n, P, q, Q, G)
  BY <1>1, <1>2, FitHead
<1>4. Tidy(Inputs[n][1], P[1]) /\ Step(Inputs[n][1], P[1], x, Q[1])
  BY <1>1, <1>3, OneInput DEF Fit
<1>a. n \notin TwoSided
  BY InputFacts
<1>d. GroupIndexed(n, sd, ac, P[1]) /\ Remembered(n, P, b) /\ DOMAIN sd = {1, 2}
  BY <1>1 DEF Fit, Indexed
<1>5. Indexed(n, sd2, ac2, Q)
  <2>1. GroupIndexed(n, sd2, ac2, Q[1]) /\ DOMAIN sd2 = {1, 2}
    BY <1>4, <1>d, GroupTaken
  <2> QED
    BY <1>a, <2>1 DEF Indexed
<1>6. OnlyAt(n, P, Q, k)
  <2>1. ASSUME NEW l, l # k PROVE RowsAt(n, Q, l) = RowsAt(n, P, l)
    BY <1>4, <2>1, GroupRowsStep
  <2> QED
    BY <2>1 DEF OnlyAt
<1>7. RowOf(n, sd, ac, k) = RowsAt(n, P, k) /\ AtMostOne(RowsAt(n, P, k))
  BY <1>4, <1>d, GroupRowOf
<1>8. Recall(n, P, b, Q, k, b2)
  <2>1. Keyed(b)
    BY <1>d DEF Remembered
  <2> QED
    BY <1>6, <1>7, <2>1, RecallShown
<1>9. Remembered(n, Q, b2)
  <2>1. \A c \in b2 : AtMostOne(c.row)
    BY <1>7, <1>8, <1>d DEF Remembered, Recall
  <2> QED
    BY <1>8, <2>1 DEF Remembered, Recall
<1>10. Now(n, P, q, b) = Shown(n, P, b) /\ Now(n, Q, Tail(q), b2) = Shown(n, Q, b2)
  BY <1>2, <1>3 DEF Now, Taken
<1>11. Path(n, Now(n, P, q, b), <<>>, Now(n, Q, Tail(q), b2))
  BY <1>8, <1>10, PathNil DEF Recall
<1>12. IsList(<<>>)
  BY EmptyList
<1>13. Sound(n, Tail(q), o \o <<>>, b2, sd2, ac2, G, R)
  BY <1>1, <1>3, <1>5, <1>9, <1>11, <1>12, FitTaken
<1>14. o \o <<>> = o
  BY <1>1, <1>12, ListConcat DEF Fit
<1> QED
  BY <1>13, <1>14

(* A remembered key is reported. *)
LEMMA ReportItem ==
    ASSUME NEW n \in Op, Kind[n] \in {"group", "union"}, NEW q, NEW o, NEW b, NEW sd, NEW ac, NEW G, NEW R,
           Sound(n, q, o, b, sd, ac, G, R), NEW c \in b,
           ~(Kind[n] = "union" /\ Cardinality(Bucket(sd[1], n, 1, c.k)) + Cardinality(Bucket(sd[2], n, 2, c.k)) > 1)
    PROVE  Sound(n, q, o \o Changed(c.row, RowOf(n, sd, ac, c.k), Group(n, c.k)), b \ {c}, sd, ac, G, R)
<1>1. PICK P : Fit(n, q, o, b, sd, ac, G, P, R)
  BY DEF Sound
<1>2. ~Mid(q)
  BY <1>1, NotInterrupted
<1>a. Remembered(n, P, b) /\ Indexed(n, sd, ac, P) /\ InputsTidy(n, P)
  BY <1>1 DEF Fit
<1>3. Kind[n] = "union" => CountAt(n, P, c.k) <= 1 /\ BothTidy(n, P) /\ sd[1] = P[1] /\ sd[2] = P[2]
  <2> SUFFICES ASSUME Kind[n] = "union"
               PROVE  CountAt(n, P, c.k) <= 1 /\ BothTidy(n, P) /\ sd[1] = P[1] /\ sd[2] = P[2]
    OBVIOUS
  <2>1. n \in TwoSided
    BY InputFacts
  <2>2. sd[1] = P[1] /\ sd[2] = P[2]
    BY <1>a, <2>1 DEF Indexed
  <2>3. BothTidy(n, P)
    BY <1>a, <2>1 DEF InputsTidy, Sides, Source, BothTidy
  <2>4. CountAt(n, P, c.k) \in Nat
    BY <2>3, UnionRowIs
  <2> QED
    BY <2>2, <2>3, <2>4 DEF CountAt
<1>4. RowOf(n, sd, ac, c.k) = RowsAt(n, P, c.k) /\ AtMostOne(RowsAt(n, P, c.k))
  <2>1. CASE Kind[n] = "union"
    BY <1>3, <2>1, UnionRowOf
  <2>2. CASE Kind[n] = "group"
    <3>1. n \notin TwoSided
      BY <2>2, InputFacts
    <3>2. Tidy(Inputs[n][1], P[1])
      BY <1>a, <2>2, <3>1 DEF InputsTidy, Sides, Source
    <3>3. GroupIndexed(n, sd, ac, P[1])
      BY <1>a, <2>2 DEF Indexed
    <3> QED
      BY <2>2, <3>2, <3>3, GroupRowOf
  <2> QED
    BY <2>1, <2>2
<1> DEFINE e == Changed(c.row, RowsAt(n, P, c.k), Group(n, c.k))
           d == b \ {c}
<1>5. IsList(e) /\ Keyed(d) /\ Path(n, Shown(n, P, b), e, Shown(n, P, d))
  BY <1>4, <1>a, ReportPath DEF Remembered
<1>6. Remembered(n, P, d)
  <2>1. ASSUME Kind[n] = "union", NEW k, \A f \in d : f.k # k PROVE CountAt(n, P, k) <= 1
    <3>1. CASE k = c.k
      BY <1>3, <2>1, <3>1
    <3>2. CASE k # c.k
      BY <1>a, <2>1, <3>2 DEF Remembered
    <3> QED
      BY <3>1, <3>2
  <2>2. \A f \in d : AtMostOne(f.row)
    BY <1>a DEF Remembered
  <2> QED
    BY <1>5, <2>1, <2>2 DEF Remembered
<1> HIDE DEF e, d
<1>7. Now(n, P, q, b) = Shown(n, P, b) /\ Now(n, P, q, d) = Shown(n, P, d)
  BY <1>2 DEF Now
<1>8. Path(n, R, o, Shown(n, P, b)) /\ IsList(o)
  BY <1>1, <1>7 DEF Fit
<1>9. IsList(o \o e) /\ Path(n, R, o \o e, Now(n, P, q, d))
  BY <1>5, <1>7, <1>8, Produces
<1>10. Fit(n, q, o \o e, d, sd, ac, G, P, R)
  BY <1>1, <1>6, <1>9 DEF Fit
<1> QED
  BY <1>4, <1>10 DEF Sound, e, d

(* The end of a slice: what it has produced is sent on. *)
LEMMA SliceDone ==
    ASSUME NEW n, NEW q, NEW o, NEW b, NEW sd, NEW ac, NEW G, NEW R, Sound(n, q, o, b, sd, ac, G, R)
    PROVE  \E T : Path(n, R, o, T) /\ Tidy(n, R) /\ IsList(o) /\ Sound(n, q, <<>>, b, sd, ac, G, T)
<1>1. PICK P : Fit(n, q, o, b, sd, ac, G, P, R)
  BY DEF Sound
<1> DEFINE T == Now(n, P, q, b)
<1>2. Path(n, R, o, T) /\ Tidy(n, R) /\ IsList(o)
  BY <1>1 DEF Fit
<1> HIDE DEF T
<1>3. Tidy(n, T)
  BY <1>2, PathTidy
<1>4. Path(n, T, <<>>, T)
  BY PathNil
<1>5. Fit(n, q, <<>>, b, sd, ac, G, P, T)
  BY <1>1, <1>3, <1>4, EmptyList DEF Fit, T
<1> QED
  BY <1>2, <1>5 DEF Sound

(* More is put in the queue. *)
LEMMA MoreQueued ==
    ASSUME NEW n, NEW q, NEW o, NEW b, NEW sd, NEW ac, NEW G, NEW R, Sound(n, q, o, b, sd, ac, G, R),
           NEW r, IsList(r), NEW H, Run(n, G, r, H)
    PROVE  Sound(n, q \o r, o, b, sd, ac, H, R)
<1>1. PICK P : Fit(n, q, o, b, sd, ac, G, P, R)
  BY DEF Sound
<1>2. IsList(q) /\ Run(n, P, Todo(q), G)
  BY <1>1 DEF Fit
<1>3. CASE q = <<>>
  <2>1. q \o r = r
    BY <1>3, ListConcat, EmptyList
  <2>2. Todo(q) = q /\ ~Mid(q)
    BY <1>3 DEF Todo, Mid
  <2>3. Run(n, P, <<>> \o r, H)
    BY <1>2, <1>3, <2>2, RunConcat, EmptyList
  <2>4. Run(n, P, r, H)
    BY <1>3, <2>1, <2>3
  <2>5. ~Mid(r) /\ Todo(r) = r
    BY <2>4, RunFresh
  <2>6. Now(n, P, r, b) = Now(n, P, q, b)
    BY <2>2, <2>5 DEF Now
  <2>7. Interrupted(n, P, r)
    BY <2>5 DEF Interrupted
  <2>8. Fit(n, r, o, b, sd, ac, H, P, R)
    BY <1>1, <2>4, <2>5, <2>6, <2>7 DEF Fit
  <2> QED
    BY <2>1, <2>8 DEF Sound
<1>4. CASE q # <<>>
  <2>1. IsList(q \o r) /\ Head(q \o r) = Head(q) /\ Tail(q \o r) = Tail(q) \o r /\ q \o r # <<>> /\ IsList(Tail(q))
    <3>1. PICK S : q \in Seq(S)
      BY <1>2 DEF IsList
    <3>2. PICK W : r \in Seq(W)
      BY DEF IsList
    <3>3. q \in Seq(S \cup W) /\ r \in Seq(S \cup W)
      BY <3>1, <3>2
    <3>4. q \o r \in Seq(S \cup W) /\ Head(q \o r) = Head(q) /\ q \o r # <<>>
      BY <1>4, <3>3
    <3>5. Tail(q \o r) = Tail(q) \o r /\ Tail(q) \in Seq(S \cup W)
      BY <1>4, <3>3
    <3> QED
      BY <3>4, <3>5 DEF IsList
  <2>2. Mid(q \o r) <=> Mid(q)
    BY <1>4, <2>1 DEF Mid
  <2>3. Todo(q \o r) = Todo(q) \o r
    BY <2>1, <2>2 DEF Todo
  <2>4. IsList(Todo(q))
    BY <1>2, <2>1 DEF Todo
  <2>5. Run(n, P, Todo(q \o r), H)
    BY <1>2, <2>3, <2>4, RunConcat
  <2>6. Now(n, P, q \o r, b) = Now(n, P, q, b)
    BY <2>1, <2>2 DEF Now
  <2>7. Interrupted(n, P, q \o r)
    BY <1>1, <2>1, <2>2 DEF Interrupted, Fit
  <2>8. Fit(n, q \o r, o, b, sd, ac, H, P, R)
    BY <1>1, <2>1, <2>5, <2>6, <2>7 DEF Fit
  <2> QED
    BY <2>8 DEF Sound
<1> QED
  BY <1>3, <1>4
-----------------------------------------------------------------------------
(* The work items of the model are those above. *)

Framed ==
    /\ cur' = cur /\ IsNet(staged') /\ staged'.base = staged.base /\ staged'.rel = staged.rel /\ DOMAIN queue' = Op
    /\ \A n \in Op : n # cur => /\ queue'[n] = queue[n] /\ staged'.side[n] = staged.side[n]
                                /\ staged'.acc[n] = staged.acc[n]

(* What an item amounts to. *)
LEMMA Consumed ==
    ASSUME AtItem, NEW G, NEW R, NEW rest, NEW emit, NEW ns, Consume(rest, emit, ns),
           Sound(cur, rest \o Tail(queue[cur]), out \o emit, before', ns, staged.acc[cur], G, R)
    PROVE  SoundNext(G, R) /\ Framed
BY ConsumeFacts DEF SoundNext, Framed

(* Without a rest. *)
LEMMA ConsumedWhole ==
    ASSUME AtItem, NEW G, NEW R, NEW emit, NEW ns, Consume(<<>>, emit, ns), SoundNow(G, R),
           Sound(cur, Tail(queue[cur]), out \o emit, before', ns, staged.acc[cur], G, R)
    PROVE  SoundNext(G, R) /\ Framed
<1>1. IsList(queue[cur])
  BY DEF SoundNow, Sound, Fit
<1>2. IsList(Tail(queue[cur]))
  BY <1>1, ListTail DEF AtItem, Pending
<1>3. <<>> \o Tail(queue[cur]) = Tail(queue[cur])
  BY <1>2, ListConcat, EmptyList
<1> QED
  BY <1>3, Consumed

(* Each step of a slice keeps the running operator sound. *)
LEMMA ScanSound ==
    ASSUME AtItem, NEW G, NEW R, SoundNow(G, R), ScanStep
    PROVE  SoundNext(G, R) /\ Framed
<1>1. Kind[cur] = "scan" /\ cur \in Op /\ queue[cur] # <<>>
  BY DEF ScanStep, Working, OpOf, AtItem, Pending
<1>2. Consume(<<>>, <<Current.x>>, Same) /\ before' = before
  BY DEF ScanStep
<1>3. Sound(cur, Tail(queue[cur]), out \o <<Current.x>>, before', Same, staged.acc[cur], G, R)
  BY <1>1, <1>2, ScanItem DEF SoundNow, Same, Current
<1> QED
  BY <1>2, <1>3, ConsumedWhole

LEMMA PlainSound ==
    ASSUME AtItem, NEW G, NEW R, SoundNow(G, R), MapStep \/ FilterStep
    PROVE  SoundNext(G, R) /\ Framed
<1>1. Kind[cur] \in {"map", "filter"} /\ cur \in Op /\ queue[cur] # <<>>
  BY DEF MapStep, FilterStep, Working, OpOf, AtItem, Pending
<1> DEFINE x == Current.x
           e == IF Kind[cur] = "map" THEN <<Delta(x.sign, Row(cur, x.t), Unary(cur, x.d))>>
                ELSE IF Pass(cur, x.t) THEN <<Delta(x.sign, x.t, Unary(cur, x.d))>> ELSE <<>>
<1>2. Consume(<<>>, e, Same) /\ before' = before
  BY DEF MapStep, FilterStep, Working, OpOf
<1>3. x = Head(queue[cur]).x
  BY DEF Current
<1>4. Sound(cur, Tail(queue[cur]), out \o e, before', Same, staged.acc[cur], G, R)
  <2> HIDE DEF x
  <2> QED
    BY <1>1, <1>2, <1>3, PlainItem DEF SoundNow, Same
<1> HIDE DEF e
<1> QED
  BY <1>2, <1>4, ConsumedWhole

LEMMA DistinctSound ==
    ASSUME AtItem, NEW G, NEW R, SoundNow(G, R), DistinctStep
    PROVE  SoundNext(G, R) /\ Framed
<1>1. Kind[cur] = "distinct" /\ cur \in Op /\ queue[cur] # <<>>
  BY DEF DistinctStep, Working, OpOf, AtItem, Pending
<1> DEFINE x == Current.x
           old == Supported(Same[1], x.t)
           new == Supported(Support(Same[1], x), x.t)
           e == IF (x.sign = "+" /\ old = 0) \/ (x.sign = "-" /\ old > 0 /\ new = 0)
                THEN <<Delta(x.sign, x.t, Distinct(cur, x.t))>> ELSE <<>>
           ns == [Same EXCEPT ![1] = Support(Same[1], x)]
<1>2. Consume(<<>>, e, ns) /\ before' = before
  BY DEF DistinctStep
<1>3. x = Head(queue[cur]).x
  BY DEF Current
<1>4. Sound(cur, Tail(queue[cur]), out \o e, before', ns, staged.acc[cur], G, R)
  <2>1. Sound(cur, queue[cur], out, before, Same, staged.acc[cur], G, R)
    BY DEF SoundNow, Same
  <2> HIDE DEF x, old, new
  <2>2. old = Supported(Same[1], x.t) /\ new = Supported(Support(Same[1], x), x.t)
    BY DEF old, new
  <2> QED
    BY <1>1, <1>2, <1>3, <2>1, <2>2, DistinctItem
<1> HIDE DEF e, ns
<1> QED
  BY <1>2, <1>4, ConsumedWhole

(* Applied, OldCount, NewCount and Opposite. *)
LEMMA SideReads ==
    ASSUME NEW i, i = SideOf(cur, Current), NEW x, x = Current.x
    PROVE  /\ Counted(cur, i, x, Same, OldCount(cur, Current), NewCount(cur, Current), Opposite(cur, Current))
           /\ Applied = AppliedTo(Same, cur, i, x)
BY DEF Counted, OldCount, NewCount, Opposite, KeyAt, Same, Applied, AppliedTo

(* An item of a two-sided operator has a side. *)
LEMMA SideKnown ==
    ASSUME AtItem, NEW G, NEW R, SoundNow(G, R), Kind[cur] \in {"anti", "parent", "union"}
    PROVE  SideOf(cur, Current) \in {1, 2}
<1>1. cur \in Op /\ cur \in TwoSided /\ queue[cur] # <<>>
  BY InputFacts DEF AtItem, Pending
<1>2. PICK P : Fit(cur, queue[cur], out, before, staged.side[cur], staged.acc[cur], G, P, R)
  BY DEF SoundNow, Sound
<1>3. ~Mid(queue[cur])
  BY <1>2, NotInterrupted
<1>4. PICK Q : Taken(cur, P, queue[cur], Q, G)
  BY <1>1, <1>2, <1>3, FitHead
<1>5. TakenSide(cur, P, queue[cur], Q, SideOf(cur, Current))
  BY <1>1, <1>2, <1>4, TwoInputs DEF Fit, Current
<1> QED
  BY <1>5 DEF TakenSide

LEMMA AntiSound ==
    ASSUME AtItem, NEW G, NEW R, SoundNow(G, R), AntiStep
    PROVE  SoundNext(G, R) /\ Framed
<1>1. Kind[cur] = "anti" /\ cur \in Op /\ queue[cur] # <<>>
  BY DEF AntiStep, Working, OpOf, AtItem, Pending
<1> DEFINE x == Current.x
           i == Current.side
           old == OldCount(cur, Current)
           new == NewCount(cur, Current)
           opp == Opposite(cur, Current)
<1>2. i = SideOf(cur, Current)
  BY <1>1 DEF SideOf
<1>3. Counted(cur, i, x, Same, old, new, opp) /\ Applied = AppliedTo(Same, cur, i, x)
  BY <1>2, SideReads
<1>4. Sound(cur, queue[cur], out, before, Same, staged.acc[cur], G, R)
  BY DEF SoundNow, Same
<1>5. x = Head(queue[cur]).x /\ i = Head(queue[cur]).side
  BY DEF Current
<1>6. i \in {1, 2}
  BY <1>1, <1>2, SideKnown
<1>7. i = 2 => Touched(cur, Current) = AntiTouched(old, new, opp)
  BY <1>1, <1>2 DEF Touched, AntiTouched
<1>8. PICK e : Consume(<<>>, e, Applied) /\ AntiEmits(cur, i, x, old, new, opp, e)
  <2>1. CASE i = 1
    <3>1. Consume(<<>>, IF old # new /\ opp = {} THEN <<Delta(x.sign, x.t, Unary(cur, x.d))>> ELSE <<>>, Applied)
      BY <2>1 DEF AntiStep
    <3> QED
      BY <2>1, <3>1 DEF AntiEmits
  <2>2. CASE i = 2
    <3>1. PICK p \in Orders(Touched(cur, Current)) : Consume(<<>>, AntiSent(cur, old, p), Applied)
      BY <2>2 DEF AntiStep, AntiSent
    <3>2. p \in Orders(AntiTouched(old, new, opp))
      BY <1>7, <2>2, <3>1
    <3> HIDE DEF x, i, old, new, opp
    <3> QED
      BY <2>2, <3>1, <3>2 DEF AntiEmits
  <2> QED
    BY <1>6, <2>1, <2>2
<1>9. before' = before
  BY DEF AntiStep
<1> HIDE DEF x, i, old, new, opp
<1>10. Sound(cur, Tail(queue[cur]), out \o e, before', Applied, staged.acc[cur], G, R)
  BY <1>1, <1>3, <1>4, <1>5, <1>8, <1>9, AntiItem
<1> QED
  BY <1>8, <1>10, ConsumedWhole

LEMMA ParentSound ==
    ASSUME AtItem, NEW G, NEW R, SoundNow(G, R), ParentStep
    PROVE  SoundNext(G, R) /\ Framed
<1>1. Kind[cur] = "parent" /\ cur \in Op /\ queue[cur] # <<>>
  BY DEF ParentStep, Working, OpOf, AtItem, Pending
<1> DEFINE x == Current.x
           i == Current.side
           old == OldCount(cur, Current)
           new == NewCount(cur, Current)
           opp == Opposite(cur, Current)
           touched == IF old # new THEN opp ELSE {}
<1>2. i = SideOf(cur, Current)
  BY <1>1 DEF SideOf
<1>3. Counted(cur, i, x, Same, old, new, opp) /\ Applied = AppliedTo(Same, cur, i, x)
  BY <1>2, SideReads
<1>4. Sound(cur, queue[cur], out, before, Same, staged.acc[cur], G, R)
  BY DEF SoundNow, Same
<1>5. x = Head(queue[cur]).x /\ i = Head(queue[cur]).side
  BY DEF Current
<1>6. i \in {1, 2}
  BY <1>1, <1>2, SideKnown
<1>7. i = 2 => Touched(cur, Current) = touched
  BY <1>1, <1>2 DEF Touched
<1>8. PICK e : Consume(<<>>, e, Applied) /\ ParentEmits(cur, i, x, old, new, opp, e)
  <2>1. CASE i = 1
    <3>1. Consume(<<>>, IF old # new
                        THEN <<Delta(x.sign, CountRow(KeyOf(cur, 1, x.t), Cardinality(opp)), Unary(cur, x.d))>>
                        ELSE <<>>, Applied)
      BY <2>1 DEF ParentStep
    <3> QED
      BY <2>1, <3>1 DEF ParentEmits
  <2>2. CASE i = 2
    <3>a. PICK p \in Orders(Touched(cur, Current)) :
             Consume(<<>>, [j \in 1..(2 * Len(p)) |->
                              LET e == p[(j + 1) \div 2]
                              IN  IF j % 2 = 1 THEN Ret(CountRow(KeyOf(cur, 1, e.t), old), Unary(cur, e.d))
                                               ELSE Ins(CountRow(KeyOf(cur, 1, e.t), new), Unary(cur, e.d))], Applied)
      <4>1. ~(Current.side = 1)
        BY <2>2
      <4> QED
        BY <4>1 DEF ParentStep
    <3>1. Consume(<<>>, ParentSent(cur, old, new, p), Applied)
      BY <3>a DEF ParentSent
    <3>2. p \in Orders(touched)
      BY <1>7, <2>2, <3>1
    <3> HIDE DEF x, i, old, new, opp
    <3> QED
      BY <2>2, <3>1, <3>2 DEF ParentEmits
  <2> QED
    BY <1>6, <2>1, <2>2
<1>9. before' = before
  BY DEF ParentStep
<1> HIDE DEF x, i, old, new, opp
<1>10. Sound(cur, Tail(queue[cur]), out \o e, before', Applied, staged.acc[cur], G, R)
  BY <1>1, <1>3, <1>4, <1>5, <1>8, <1>9, ParentItem
<1> QED
  BY <1>8, <1>10, ConsumedWhole

(* A page of a listing. *)
LEMMA PageFacts ==
    ASSUME NEW X, NEW p \in Orders(X), NEW take \in 0..Len(p)
    PROVE  LET page == SubSeq(p, 1, take)
           IN  PageOf(page, X) /\ {page[i] : i \in DOMAIN page} = RangeOf(page)
<1> DEFINE page == SubSeq(p, 1, take)
<1>1. p \in Seq(X)
  BY OrdersSeq
<1>2. Len(p) \in Nat /\ DOMAIN p = 1..Len(p) /\ (\A i \in 1..Len(p) : p[i] \in X)
      /\ \A i, j \in 1..Len(p) : p[i] = p[j] => i = j
  BY OrdersFacts
<1>3. page \in Seq(X) /\ Len(page) = take /\ \A i \in 1..take : page[i] = p[i]
  BY <1>1, <1>2
<1>4. IsList(page)
  BY <1>3 DEF IsList
<1>5. 1..take \subseteq 1..Len(p)
  BY <1>2
<1> HIDE DEF page
<1>6. PageOf(page, X)
  BY <1>2, <1>3, <1>4, <1>5 DEF PageOf
<1>7. {page[i] : i \in DOMAIN page} = RangeOf(page)
  BY DEF RangeOf
<1> QED
  BY <1>6, <1>7 DEF page

LEMMA JoinSound ==
    ASSUME AtItem, NEW G, NEW R, SoundNow(G, R), JoinStep
    PROVE  SoundNext(G, R) /\ Framed
<1>1. Kind[cur] = "join" /\ cur \in Op /\ queue[cur] # <<>>
  BY DEF JoinStep, Working, OpOf, AtItem, Pending
<1> DEFINE it == Current
           x == Current.x
           i == SideOf(cur, Current)
           T == Touched(cur, Current)
           ns == IF Current.fresh THEN Applied ELSE Same
           Pair(e) == IF i = 1 THEN Delta(x.sign, Merge(cur, x.t, e.t), Joined(cur, x.d, e.d))
                               ELSE Delta(x.sign, Merge(cur, e.t, x.t), Joined(cur, e.d, x.d))
<1>2. Applied = AppliedTo(Same, cur, i, x)
  BY SideReads
<1>3. T = JoinReads(cur, it, Same)
  BY <1>1 DEF Touched, JoinReads, Opposite, KeyAt, Same
<1>4. Sound(cur, queue[cur], out, before, Same, staged.acc[cur], G, R)
  BY DEF SoundNow, Same
<1>5. it = Head(queue[cur])
  BY DEF Current
<1>a. PICK p \in Orders(T) : \E take \in {TakeCount(cur, Current)} \cap (0..Len(p)) :
        LET page == SubSeq(p, 1, take)
            rest == T \ {page[j] : j \in DOMAIN page}
        IN  Consume(IF rest = {} THEN <<>> ELSE <<Continuation(Current, rest)>>,
                    [j \in DOMAIN page |-> Pair(page[j])], ns)
  BY DEF JoinStep
<1>6. PICK take \in 0..Len(p) :
        LET page == SubSeq(p, 1, take)
            rest == T \ {page[j] : j \in DOMAIN page}
        IN  Consume(IF rest = {} THEN <<>> ELSE <<Continuation(Current, rest)>>,
                    [j \in DOMAIN page |-> Pair(page[j])], ns)
  BY <1>a
<1> DEFINE page == SubSeq(p, 1, take)
           Y == T \ RangeOf(page)
<1>7. PageOf(page, T) /\ {page[j] : j \in DOMAIN page} = RangeOf(page)
  BY PageFacts
<1>8. [j \in DOMAIN page |-> Pair(page[j])] = JoinSent(cur, i, x, page)
  <2>1. \A e : Pair(e) = Delta(x.sign, Paired(cur, i, x, e).t, Paired(cur, i, x, e).d)
    BY DEF Paired
  <2> HIDE DEF Pair, page
  <2> QED
    BY <2>1 DEF JoinSent
<1>9. Consume(JoinLeft(it, Y), JoinSent(cur, i, x, page), ns)
  <2>1. T \ {page[j] : j \in DOMAIN page} = Y
    BY <1>7
  <2>2. Consume(IF Y = {} THEN <<>> ELSE <<Continuation(Current, Y)>>, [j \in DOMAIN page |-> Pair(page[j])], ns)
    BY <1>6, <2>1
  <2> QED
    BY <1>8, <2>2 DEF JoinLeft
<1>10. before' = before
  BY DEF JoinStep
<1>11. ns = IF it.fresh THEN AppliedTo(Same, cur, i, it.x) ELSE Same
  BY <1>2
<1> HIDE DEF it, x, i, T, ns, page
<1>12. Sound(cur, JoinLeft(it, Y) \o Tail(queue[cur]), out \o JoinSent(cur, i, it.x, page), before, ns, staged.acc[cur], G, R)
  <2>1. i = SideOf(cur, it)
    BY DEF i, it
  <2> HIDE DEF Y
  <2>2. Y = T \ RangeOf(page)
    BY DEF Y
  <2> QED
    BY <1>1, <1>3, <1>4, <1>5, <1>7, <1>11, <2>1, <2>2, JoinItem
<1>13. it.x = x
  BY DEF it, x
<1> QED
  BY <1>9, <1>10, <1>12, <1>13, Consumed

LEMMA UnionSound ==
    ASSUME AtItem, NEW G, NEW R, SoundNow(G, R), UnionStep
    PROVE  SoundNext(G, R) /\ Framed
<1>1. Kind[cur] = "union" /\ cur \in Op /\ queue[cur] # <<>>
  BY DEF UnionStep, Working, OpOf, AtItem, Pending
<1> DEFINE x == Current.x
           i == Current.side
           k == KeyOf(cur, i, x.t)
<1>2. i = SideOf(cur, Current)
  BY <1>1 DEF SideOf
<1>3. Applied = AppliedTo(Same, cur, i, x)
  BY <1>2, SideReads
<1>4. Sound(cur, queue[cur], out, before, Same, staged.acc[cur], G, R)
  BY DEF SoundNow, Same
<1>5. x = Head(queue[cur]).x /\ i = Head(queue[cur]).side
  BY DEF Current
<1>6. before' = Recalled(before, k, RowOf(cur, Same, staged.acc[cur], k))
  <2>1. KeyAt(cur, Current) = k
    BY <1>2 DEF KeyAt
  <2>2. RowNow(cur, k) = RowOf(cur, Same, staged.acc[cur], k)
    BY RowNowIs DEF Same
  <2>3. Remember(k)
    BY <2>1 DEF UnionStep
  <2> HIDE DEF k
  <2> QED
    BY <2>2, <2>3 DEF Remember, Recalled
<1>7. Consume(<<>>, <<>>, Applied)
  BY DEF UnionStep
<1>8. Sound(cur, Tail(queue[cur]), out \o <<>>, before', Applied, staged.acc[cur], G, R)
  <2> HIDE DEF x, i, k
  <2>1. k = KeyOf(cur, i, x.t)
    BY DEF k
  <2> QED
    BY <1>1, <1>3, <1>4, <1>5, <1>6, <2>1, UnionItem
<1> QED
  BY <1>7, <1>8, ConsumedWhole

LEMMA GroupSound ==
    ASSUME AtItem, NEW G, NEW R, SoundNow(G, R), GroupStep
    PROVE  SoundNext(G, R) /\ Framed
<1>1. Kind[cur] = "group" /\ cur \in Op /\ queue[cur] # <<>>
  BY DEF GroupStep, Working, OpOf, AtItem, Pending
<1> DEFINE x == Current.x
           k == GroupOf(cur, x.t)
           ac == staged.acc[cur]
           ns == [Same EXCEPT ![1] = Support(Same[1], GroupDelta)]
           na == IF GroupGrows THEN SetAcc(ac, k, GroupCount, Accumulate(AccOf(ac, k), cur, x)) ELSE ac
<1>2. GroupDelta = Delta(x.sign, k, x.d) /\ GroupDelta.t = k
  BY DEF GroupDelta, Delta
<1>4. Sound(cur, queue[cur], out, before, Same, ac, G, R)
  BY DEF SoundNow, Same
<1>5. x = Head(queue[cur]).x
  BY DEF Current
<1>6. before' = Recalled(before, k, RowOf(cur, Same, ac, k))
  <2>2. RowNow(cur, k) = RowOf(cur, Same, ac, k)
    BY RowNowIs DEF Same
  <2>3. Remember(k)
    BY <1>2 DEF GroupStep
  <2> HIDE DEF k, ac
  <2> QED
    BY <2>2, <2>3 DEF Remember, Recalled
<1>7. GroupTakes(cur, x, Same, ac, GroupCount, ns, na)
  <2>1. ~(x.sign = "+" /\ GroupGrows /\ Cardinality({i \in AccOf(ac, k).items : i.d # x.d}) >= CollectLimit)
        /\ ~(GroupGrows /\ AggOf(cur, x.t) \notin Int)
    BY <1>2 DEF GroupStep, GroupRefuses, CollectFull, Collected, NotANumber
  <2>2. GroupCount = Supported(Support(Same[1], GroupDelta), k) /\ (GroupGrows <=> GroupCount # Supported(Same[1], k))
    BY <1>2 DEF GroupCount, GroupGrows
  <2> HIDE DEF x, k, ac
  <2> QED
    BY <1>2, <2>1, <2>2 DEF GroupTakes, k
<1>8. Sound(cur, Tail(queue[cur]), out, before', ns, na, G, R)
  <2> HIDE DEF x, k, ac, ns, na
  <2>1. k = GroupOf(cur, x.t)
    BY DEF k
  <2> QED
    BY <1>1, <1>4, <1>5, <1>6, <1>7, <2>1, GroupItem
<1>9. /\ queue' = [queue EXCEPT ![cur] = Tail(queue[cur])] /\ out' = out /\ cur' = cur
      /\ staged' = [staged EXCEPT !.side[cur] = ns, !.acc[cur] = na]
  BY <1>2 DEF GroupStep, Same
<1> HIDE DEF ns, na
<1>10. /\ queue'[cur] = Tail(queue[cur]) /\ DOMAIN queue' = Op
       /\ staged'.side[cur] = ns /\ staged'.acc[cur] = na /\ staged'.base = staged.base /\ staged'.rel = staged.rel
       /\ \A n \in Op : n # cur => /\ queue'[n] = queue[n] /\ staged'.side[n] = staged.side[n]
                                   /\ staged'.acc[n] = staged.acc[n]
  BY <1>9 DEF AtItem, IsNet
<1>11. IsNet(staged')
  BY <1>9 DEF AtItem, IsNet
<1> QED
  BY <1>8, <1>9, <1>10, <1>11 DEF SoundNext, Framed

(* All kinds of operators. *)
LEMMA ItemsSound ==
    ASSUME AtItem, NEW G, NEW R, SoundNow(G, R),
           \/ ScanStep \/ MapStep \/ FilterStep \/ JoinStep \/ AntiStep \/ ParentStep
           \/ DistinctStep \/ UnionStep \/ GroupStep
    PROVE  SoundNext(G, R) /\ Framed
BY ScanSound, PlainSound, JoinSound, AntiSound, ParentSound, DistinctSound, UnionSound, GroupSound
-----------------------------------------------------------------------------
(* The network in the middle of a batch: there are rows (what every        *)
(* operator has sent on so far) such that each operator is sound between    *)
(* the rows of its inputs and its own.                                     *)

Target(n, base, rows) ==
    [i \in {1, 2} |-> IF Kind[n] = "scan" THEN ScanRows(n, base) ELSE rows[Inputs[n][i]]]

SoundIn(n, w, q, c, o, b, rows) ==
    Sound(n, q[n], IF n = c THEN o ELSE <<>>, IF n = c THEN b ELSE {}, w.side[n], w.acc[n],
          Target(n, w.base, rows), rows[n])
Shows(n, w, rows) == n \in Outputs /\ Kind[n] # "distinct" => w.rel[n] = rows[n]
Coherent(w, q, c, o, b, rows) == \A n \in Op : SoundIn(n, w, q, c, o, b, rows) /\ Shows(n, w, rows)

Empty == [n \in Op |-> <<>>]
Settled(w) == \E rows : Coherent(w, Empty, NoOp, <<>>, {}, rows)
Underway == \E rows : Coherent(staged, queue, cur, out, before, rows)

MInv ==
    /\ IInv /\ IsNet(net) /\ IsNet(staged)
    /\ (cur = NoOp => out = <<>> /\ before = {})
    /\ (phase = "idle" => queue = Empty)
    /\ Settled(net) /\ Underway

(* When an item is worked in. *)
LEMMA ItemCoherent ==
    ASSUME cur \in Op, NEW rows, Coherent(staged, queue, cur, out, before, rows), Framed,
           SoundNext(Target(cur, staged.base, rows), rows[cur])
    PROVE  Coherent(staged', queue', cur', out', before', rows)
<1>1. ASSUME NEW n \in Op
      PROVE  SoundIn(n, staged', queue', cur', out', before', rows) /\ Shows(n, staged', rows)
  <2>0. SoundIn(n, staged, queue, cur, out, before, rows) /\ Shows(n, staged, rows)
    BY DEF Coherent
  <2>1. Shows(n, staged', rows)
    BY <2>0 DEF Shows, Framed
  <2>2. CASE n = cur
    BY <2>1, <2>2 DEF SoundIn, SoundNext, Framed
  <2>3. CASE n # cur
    <3>1. queue'[n] = queue[n] /\ staged'.side[n] = staged.side[n] /\ staged'.acc[n] = staged.acc[n]
          /\ staged'.base = staged.base /\ cur' = cur
      BY <2>3 DEF Framed
    <3> QED
      BY <2>0, <2>1, <2>3, <3>1 DEF SoundIn
  <2> QED
    BY <2>2, <2>3
<1> QED
  BY <1>1 DEF Coherent

(* A step of a slice has an item to work in. *)
LEMMA AtItemNow ==
    ASSUME IInv, IsNet(staged), NEW kind, Working(kind)
    PROVE  AtItem
BY DEF AtItem, Working, SliceLeft, OpOf, IInv, Shape

(* Work items maintain the network. *)
LEMMA ItemsKeep ==
    ASSUME MInv, \/ ScanStep \/ MapStep \/ FilterStep \/ JoinStep \/ AntiStep \/ ParentStep
                 \/ DistinctStep \/ UnionStep \/ GroupStep
    PROVE  MInv'
<1>1. AtItem
  BY AtItemNow DEF MInv, ScanStep, MapStep, FilterStep, JoinStep, AntiStep, ParentStep, DistinctStep, UnionStep, GroupStep
<1>2. cur \in Op /\ cur # NoOp
  BY <1>1, NetworkAssumption DEF AtItem
<1>3. PICK rows : Coherent(staged, queue, cur, out, before, rows)
  BY DEF MInv, Underway
<1>4. SoundNow(Target(cur, staged.base, rows), rows[cur])
  BY <1>2, <1>3 DEF Coherent, SoundIn, SoundNow
<1>5. SoundNext(Target(cur, staged.base, rows), rows[cur]) /\ Framed
  BY <1>1, <1>4, ItemsSound
<1>6. Coherent(staged', queue', cur', out', before', rows)
  BY <1>2, <1>3, <1>5, ItemCoherent
<1>7. Underway'
  BY <1>6 DEF Underway
<1>8. IInv'
  BY StepsKeep DEF MInv
<1>9. net' = net /\ phase' = phase /\ phase = "run"
  BY DEF ScanStep, MapStep, FilterStep, JoinStep, AntiStep, ParentStep, DistinctStep, UnionStep, GroupStep,
         Consume, Working
<1>10. cur' = cur /\ IsNet(staged')
  BY <1>5 DEF Framed
<1>11. IsNet(net') /\ Settled(net')
  BY <1>9 DEF MInv
<1>12. (cur' = NoOp => out' = <<>> /\ before' = {}) /\ (phase' = "idle" => queue' = Empty)
  BY <1>2, <1>9, <1>10
<1> QED
  BY <1>7, <1>8, <1>10, <1>11, <1>12 DEF MInv

(* So does reporting a key. *)
LEMMA ReportMaintains ==
    ASSUME MInv, NEW c \in before, Report(c)
    PROVE  MInv'
<1>1. /\ cur \in Op /\ Kind[cur] \in {"group", "union"} /\ phase = "run" /\ cur # NoOp
      /\ before' = before \ {c} /\ out' = out \o Changed(c.row, RowNow(cur, c.k), Group(cur, c.k))
      /\ UNCHANGED <<net, staged, phase, queue, cur>>
      /\ ~(Kind[cur] = "union" /\ UnionCount(cur, c.k) > 1)
  BY NetworkAssumption DEF Report, OpOf
<1>2. PICK rows : Coherent(staged, queue, cur, out, before, rows)
  BY DEF MInv, Underway
<1> DEFINE sd == staged.side[cur]
           ac == staged.acc[cur]
           G == Target(cur, staged.base, rows)
<1>3. Sound(cur, queue[cur], out, before, sd, ac, G, rows[cur])
  BY <1>1, <1>2 DEF Coherent, SoundIn
<1>4. RowNow(cur, c.k) = RowOf(cur, sd, ac, c.k)
  BY RowNowIs
<1>5. UnionCount(cur, c.k) = Cardinality(Bucket(sd[1], cur, 1, c.k)) + Cardinality(Bucket(sd[2], cur, 2, c.k))
  BY DEF UnionCount
<1>6. SoundNext(G, rows[cur])
  <2> HIDE DEF sd, ac, G
  <2>1. Sound(cur, queue[cur], out \o Changed(c.row, RowOf(cur, sd, ac, c.k), Group(cur, c.k)), before \ {c},
              sd, ac, G, rows[cur])
    BY <1>1, <1>3, <1>5, ReportItem
  <2> QED
    BY <1>1, <1>4, <2>1 DEF SoundNext, sd, ac
<1>7. Framed
  BY <1>1 DEF Framed, MInv, IInv, Shape
<1>8. Coherent(staged', queue', cur', out', before', rows)
  BY <1>1, <1>2, <1>6, <1>7, ItemCoherent
<1>9. Underway'
  BY <1>8 DEF Underway
<1>10. IInv'
  BY ReportKeeps DEF MInv
<1>11. IsNet(net') /\ Settled(net') /\ IsNet(staged')
  BY <1>1 DEF MInv
<1>12. (cur' = NoOp => out' = <<>> /\ before' = {}) /\ (phase' = "idle" => queue' = Empty)
  BY <1>1
<1> QED
  BY <1>9, <1>10, <1>11, <1>12 DEF MInv

(* Nothing comes of nothing. *)
LEMMA EvaluateNothing ==
    ASSUME NEW n \in Op, Kind[n] # "scan", NEW P, P[1] = {}, P[2] = {}
    PROVE  Evaluate(n, P) = {}
<1>1. CASE Kind[n] = "map"
  BY <1>1, EvaluateMap
<1>2. CASE Kind[n] = "filter"
  BY <1>2, EvaluateFilter
<1>3. CASE Kind[n] = "join"
  <2>1. \A z : z \notin Evaluate(n, P)
    BY <1>3, CrossIs
  <2> QED
    BY <2>1
<1>4. CASE Kind[n] = "anti"
  BY <1>4, EvaluateAnti
<1>5. CASE Kind[n] = "union"
  BY <1>5, EvaluateUnion
<1>6. CASE Kind[n] = "parent"
  BY <1>6, EvaluateParent
<1>7. CASE Kind[n] = "distinct"
  BY <1>7, EvaluateDistinct
<1>8. CASE Kind[n] = "group"
  <2>1. Groups(n, P[1]) = {}
    BY DEF Groups
  <2>2. Evaluate(n, P) =
          {[t |-> GroupRow(k, Cardinality(Members(n, k, P[1])), RefAcc(n, Members(n, k, P[1]))),
            d |-> Group(n, k)] : k \in Groups(n, P[1])}
    BY <1>8, EvaluateGroup
  <2> QED
    BY <2>1, <2>2
<1> QED
  BY <1>1, <1>2, <1>3, <1>4, <1>5, <1>6, <1>7, <1>8, InputFacts

(* An operator of an empty network is sound. *)
LEMMA NothingSound ==
    ASSUME NEW n \in Op, NEW sd, sd = [s \in 1..2 |-> {}], NEW G, \A i \in {1, 2} : G[i] = {}
    PROVE  Sound(n, <<>>, <<>>, {}, sd, {}, G, {})
<1> DEFINE P == [i \in {1, 2} |-> {}]
<1>1. P[1] = {} /\ P[2] = {}
  OBVIOUS
<1>2. DOMAIN sd = {1, 2} /\ sd[1] = {} /\ sd[2] = {}
  OBVIOUS
<1> HIDE DEF P
<1>3. \A i \in Sides(n) : i \in {1, 2}
  BY DEF Sides
<1>4. InputsTidy(n, P) /\ Tidy(n, {})
  <2>1. \A i \in Sides(n) : P[i] = {}
    BY <1>1, <1>3
  <2> QED
    BY <2>1, TidyEmpty DEF InputsTidy
<1>5. \A k : Members(n, k, {}) = {}
  BY DEF Members
<1>6. Cardinality({}) = 0 /\ CollectLimit \in Nat
  BY FS_EmptySet, NetworkAssumption
<1>7. GroupIndexed(n, sd, {}, P[1])
  <2>1. Regrouped(n, {}) = {} /\ Numbers(n, {}) /\ Accs(n, {}) = {}
    BY DEF Regrouped, Numbers, Accs, Groups
  <2>2. \A k : Cardinality(Members(n, k, {})) <= CollectLimit
    BY <1>5, <1>6
  <2> QED
    BY <1>1, <1>2, <2>1, <2>2 DEF GroupIndexed
<1>8. Indexed(n, sd, {}, P)
  BY <1>1, <1>2, <1>7 DEF Indexed
<1>9. Remembered(n, P, {})
  <2>1. \A k : CountAt(n, P, k) <= 1
    <3>1. \A k : Bucket({}, n, 1, k) = {} /\ Bucket({}, n, 2, k) = {}
      BY DEF Bucket
    <3> QED
      BY <1>1, <1>6, <3>1 DEF CountAt
  <2> QED
    BY <2>1 DEF Remembered, Keyed
<1>10. ~Mid(<<>>) /\ Todo(<<>>) = <<>>
  BY DEF Mid, Todo
<1>11. Run(n, P, <<>>, G)
  <2>1. Agree(n, P, G)
    BY <1>1, <1>3 DEF Agree
  <2> QED
    BY <2>1, RunNil
<1>12. Now(n, P, <<>>, {}) = {}
  <2>1. Kind[n] # "scan" => Evaluate(n, P) = {}
    BY <1>1, EvaluateNothing
  <2>2. Shown(n, P, {}) = Evaluate(n, P)
    BY ShownNone
  <2> QED
    BY <1>1, <1>10, <2>1, <2>2 DEF Now
<1>13. Path(n, {}, <<>>, Now(n, P, <<>>, {}))
  BY <1>12, PathNil
<1>14. Fit(n, <<>>, <<>>, {}, sd, {}, G, P, {})
  BY <1>4, <1>8, <1>9, <1>10, <1>11, <1>13, EmptyList DEF Fit, Interrupted
<1> QED
  BY <1>14 DEF Sound

(* The empty network is maintained. *)
LEMMA InitMaintained == Init => MInv
<1> SUFFICES ASSUME Init PROVE MInv
  OBVIOUS
<1>1. net = InitNet /\ staged = InitNet /\ queue = Empty /\ cur = NoOp /\ out = <<>> /\ before = {}
  BY DEF Init, Idle, Empty
<1>2. IsNet(InitNet)
  BY DEF IsNet, InitNet
<1> DEFINE rows == [n \in Op |-> {}]
<1>3. \A n \in Op : /\ InitNet.side[n] = [s \in 1..2 |-> {}] /\ InitNet.acc[n] = {} /\ InitNet.rel[n] = {}
                    /\ rows[n] = {}
  BY DEF InitNet
<1>4. \A n \in Op : Kind[n] = "scan" => ScanRows(n, InitNet.base) = {}
  <2>1. ASSUME NEW n \in Op, Kind[n] = "scan" PROVE ScanRows(n, InitNet.base) = {}
    <3>1. Relation[n] \in Rels
      BY <2>1, InputFacts
    <3>2. \A k \in Key : InitNet.base[Relation[n]][k] = NoRow
      BY <3>1 DEF InitNet
    <3> QED
      BY <3>2 DEF ScanRows
  <2> QED
    BY <2>1
<1> HIDE DEF rows
<1>5. ASSUME NEW n \in Op PROVE SoundIn(n, InitNet, Empty, NoOp, <<>>, {}, rows) /\ Shows(n, InitNet, rows)
  <2>0. n \in TwoSided \/ Kind[n] = "scan" \/ Sides(n) = {1}
    BY DEF Sides
  <2> DEFINE G == Target(n, InitNet.base, rows)
             F == [i \in {1, 2} |-> {}]
  <2>1. \A i \in Sides(n) : G[i] = {}
    <3>1. ASSUME NEW i \in Sides(n) PROVE G[i] = {}
      <4>1. i \in {1, 2}
        BY DEF Sides
      <4>2. CASE Kind[n] = "scan"
        BY <1>4, <4>1, <4>2 DEF Target
      <4>3. CASE Kind[n] # "scan"
        <5>1. Inputs[n][i] \in Op
          BY <4>1, <4>3, InputFacts DEF Sides
        <5> QED
          BY <1>3, <4>1, <4>3, <5>1 DEF Target
      <4> QED
        BY <4>2, <4>3
    <3> QED
      BY <3>1
  <2>2. \A i \in {1, 2} : F[i] = {}
    OBVIOUS
  <2>3. Agree(n, F, G)
    <3>1. \A i \in Sides(n) : i \in {1, 2}
      BY DEF Sides
    <3> HIDE DEF F, G
    <3> QED
      BY <2>1, <2>2, <3>1 DEF Agree
  <2> HIDE DEF F, G
  <2>4. Sound(n, <<>>, <<>>, {}, InitNet.side[n], {}, F, {})
    BY <1>3, <2>2, NothingSound
  <2>5. Sound(n, <<>>, <<>>, {}, InitNet.side[n], {}, G, {})
    <3>1. PICK P : Fit(n, <<>>, <<>>, {}, InitNet.side[n], {}, F, P, {})
      BY <2>4 DEF Sound
    <3>2. Run(n, P, Todo(<<>>), G)
      <4>1. Agree(n, P, P)
        BY DEF Agree
      <4> QED
        BY <2>3, <3>1, <4>1, RunAgrees DEF Fit
    <3>3. Fit(n, <<>>, <<>>, {}, InitNet.side[n], {}, G, P, {})
      BY <3>1, <3>2 DEF Fit
    <3> QED
      BY <3>3 DEF Sound
  <2>6. Empty[n] = <<>> /\ n # NoOp
    BY NetworkAssumption DEF Empty
  <2>7. SoundIn(n, InitNet, Empty, NoOp, <<>>, {}, rows)
    BY <1>3, <2>5, <2>6 DEF SoundIn, G
  <2> QED
    BY <1>3, <2>7 DEF Shows
<1>6. Coherent(InitNet, Empty, NoOp, <<>>, {}, rows)
  BY <1>5 DEF Coherent
<1>7. Settled(net) /\ Underway
  BY <1>1, <1>6 DEF Settled, Underway
<1>8. IInv
  BY InitIInv
<1> QED
  BY <1>1, <1>2, <1>7, <1>8 DEF MInv

(* Nothing but the phase or the operator at work changes. *)
LEMMA Reassigned ==
    ASSUME NEW w, NEW q, NEW c, NEW rows, Coherent(w, q, c, <<>>, {}, rows), NEW p, \A n \in Op : p[n] = q[n], NEW d
    PROVE  Coherent(w, p, d, <<>>, {}, rows)
<1>1. ASSUME NEW n \in Op PROVE SoundIn(n, w, p, d, <<>>, {}, rows) /\ Shows(n, w, rows)
  <2>1. SoundIn(n, w, q, c, <<>>, {}, rows) /\ Shows(n, w, rows)
    BY DEF Coherent
  <2> QED
    BY <2>1 DEF SoundIn
<1> QED
  BY <1>1 DEF Coherent

(* Steps that move no rows. *)
LEMMA PhaseKeeps ==
    ASSUME MInv, BeginBatch \/ EndScan \/ Defer \/ Begin
    PROVE  MInv'
<1>1. IInv'
  BY UnchangedKeeps, DeferKeeps, BeginKeeps DEF BeginBatch, EndScan, loop, MInv
<1>2. net' = net /\ queue' = queue /\ out' = out /\ before' = before
  BY DEF BeginBatch, EndScan, Defer, Begin, loop
<1>3. phase' # "idle" /\ cur = NoOp /\ (cur' = NoOp \/ cur' \in Op)
  BY <1>1 DEF BeginBatch, EndScan, Defer, Begin, MInv, IInv, Shape, AtRest
<1>4. out = <<>> /\ before = {}
  BY <1>3 DEF MInv
<1>5. IsNet(staged') /\ \E rows : Coherent(staged', queue, NoOp, <<>>, {}, rows)
  <2>1. CASE BeginBatch
    <3>1. staged' = net /\ queue = Empty
      BY <2>1 DEF BeginBatch, MInv
    <3> QED
      BY <3>1 DEF MInv, Settled
  <2>2. CASE EndScan \/ Defer \/ Begin
    <3>1. staged' = staged
      BY <2>2 DEF EndScan, Defer, Begin
    <3> QED
      BY <1>3, <1>4, <3>1 DEF MInv, Underway
  <2> QED
    BY <2>1, <2>2
<1>6. PICK rows : Coherent(staged', queue, NoOp, <<>>, {}, rows)
  BY <1>5
<1>7. Coherent(staged', queue', cur', out', before', rows)
  BY <1>2, <1>4, <1>6, Reassigned
<1>8. Underway'
  BY <1>7 DEF Underway
<1>9. IsNet(net') /\ Settled(net')
  BY <1>2 DEF MInv
<1> QED
  BY <1>1, <1>2, <1>3, <1>4, <1>5, <1>8, <1>9 DEF MInv

(* A batch is published with every queue empty, or dropped with its clone. *)
LEMMA EndKeeps ==
    ASSUME MInv, Publish \/ Exhausted \/ GroupRefused \/ UnionRefused
    PROVE  MInv'
<1>1. IInv'
  BY NothingGoingOn DEF Publish, Exhausted, GroupRefused, UnionRefused, Discard, BackToIdle
<1>2. staged' = net' /\ queue' = Empty /\ cur' = NoOp /\ out' = <<>> /\ before' = {}
  BY DEF Publish, Exhausted, GroupRefused, UnionRefused, Discard, BackToIdle, Empty
<1>3. IsNet(net') /\ Settled(net')
  <2>1. CASE Publish
    <3>1. phase = "run" /\ cur = NoOp /\ ready = <<>> /\ net' = staged
      BY <2>1 DEF Publish
    <3>2. \A n \in Op : queue[n] = <<>> /\ Empty[n] = <<>>
      BY <3>1, NothingLeft DEF MInv, NoDeltaLeftBehind, Empty
    <3>3. out = <<>> /\ before = {}
      BY <3>1 DEF MInv
    <3>4. PICK rows : Coherent(staged, queue, NoOp, <<>>, {}, rows)
      BY <3>1, <3>3 DEF MInv, Underway
    <3>5. Coherent(staged, Empty, NoOp, <<>>, {}, rows)
      BY <3>2, <3>4, Reassigned
    <3> QED
      BY <3>1, <3>5 DEF Settled, MInv
  <2>2. CASE Exhausted \/ GroupRefused \/ UnionRefused
    <3>1. net' = net
      BY <2>2 DEF Exhausted, GroupRefused, UnionRefused, Discard
    <3> QED
      BY <3>1 DEF MInv
  <2> QED
    BY <2>1, <2>2
<1>4. Underway'
  BY <1>2, <1>3 DEF Settled, Underway
<1> QED
  BY <1>1, <1>2, <1>3, <1>4 DEF MInv

(* The operations of the batch. *)
Opt(v, d) == IF v = NoRow THEN {} ELSE {[t |-> v, d |-> d]}
Sent(v, x) == IF v = NoRow THEN <<>> ELSE <<Item(x, 0)>>

WithOpt(O, v, d) == O \cup Opt(v, d)
Without(O, d) == \A z \in O : z.d # d
ScanSent(old, new, d) == Sent(old, Ret(old, d)) \o Sent(new, Ins(new, d))
OnlyKey(base, base2, r, k) == \A l \in Key : l # k => base2[r][l] = base[r][l]
OnlyRel(base, base2, r) == \A s \in Rels : s # r => base2[s] = base[s]

(* One delta at a scan. *)
LEMMA ScanOne ==
    ASSUME NEW n \in Op, Kind[n] = "scan", NEW P, NEW x, NEW Q, Step(n, P[1], x, Q[1])
    PROVE  Run(n, P, <<Item(x, 0)>>, Q)
<1>1. n \notin TwoSided
  BY InputFacts
<1>2. Sides(n) = {1} /\ Source(n, 1) = n
  BY <1>1 DEF Sides, Source
<1> DEFINE s == <<x>>
           r == <<Item(x, 0)>>
<1>3. IsList(s) /\ Len(s) = 1 /\ s[1] = x /\ Len(r) = 1 /\ r[1] = Item(x, 0)
  BY ListOne
<1>4. Path(Source(n, 1), P[1], s, Q[1])
  BY <1>2, PathOne
<1>5. Item(x, 0).fresh /\ Item(x, 0).x = x /\ Lane(n, Item(x, 0)) = 1
  BY <1>1 DEF Item, Lane
<1> HIDE DEF s, r
<1>6. \A j \in 1..Len(s) : r[j].fresh /\ r[j].x = s[j] /\ Lane(n, r[j]) = 1
  BY <1>3, <1>5
<1>7. \A j \in Sides(n) : j # 1 => Q[j] = P[j]
  BY <1>2
<1>8. 1 \in Sides(n)
  BY <1>2
<1>9. Run(n, P, r, Q)
  BY <1>3, <1>4, <1>6, <1>7, <1>8, RunLift
<1> QED
  BY <1>9 DEF r

(* The deltas of an operation at a scan: the old row goes, the new one     *)
(* comes.                                                                  *)
LEMMA ScanChange ==
    ASSUME NEW n \in Op, Kind[n] = "scan", NEW d, Formed(n, d), NEW O, Without(O, d), NEW old, NEW new,
           NEW P, NEW Q, P[1] = WithOpt(O, old, d), Q[1] = WithOpt(O, new, d)
    PROVE  Run(n, P, ScanSent(old, new, d), Q)
<1> USE DEF WithOpt, Without
<1> DEFINE M == [i \in {1, 2} |-> O]
<1>0. M[1] = O
  OBVIOUS
<1> HIDE DEF M
<1>a. Sides(n) = {1}
  BY InputFacts DEF Sides
<1>1. IsList(Sent(old, Ret(old, d))) /\ IsList(Sent(new, Ins(new, d)))
  BY ListOne, EmptyList DEF Sent
<1>2. Run(n, P, Sent(old, Ret(old, d)), M)
  <2>1. CASE old = NoRow
    <3>1. Agree(n, P, M)
      BY <1>0, <1>a, <2>1 DEF Agree, Opt
    <3> QED
      BY <2>1, <3>1, RunNil DEF Sent
  <2>2. CASE old # NoRow
    <3>1. Entry(Ret(old, d)) = [t |-> old, d |-> d] /\ Ret(old, d).sign = "-" /\ Ret(old, d).d = d
      BY DeltaFacts DEF Ret
    <3>2. O = P[1] \ {Entry(Ret(old, d))} /\ Entry(Ret(old, d)) \in P[1]
      BY <2>2, <3>1 DEF Opt
    <3>3. Step(n, P[1], Ret(old, d), M[1])
      BY <1>0, <3>1, <3>2 DEF Step
    <3> QED
      BY <2>2, <3>3, ScanOne DEF Sent
  <2> QED
    BY <2>1, <2>2
<1>3. Run(n, M, Sent(new, Ins(new, d)), Q)
  <2>1. CASE new = NoRow
    <3>1. Agree(n, M, Q)
      BY <1>0, <1>a, <2>1 DEF Agree, Opt
    <3> QED
      BY <2>1, <3>1, RunNil DEF Sent
  <2>2. CASE new # NoRow
    <3>1. Entry(Ins(new, d)) = [t |-> new, d |-> d] /\ Ins(new, d).sign = "+" /\ Ins(new, d).d = d
      BY DeltaFacts DEF Ins
    <3>2. Q[1] = O \cup {Entry(Ins(new, d))}
      BY <2>2, <3>1 DEF Opt
    <3>3. Step(n, M[1], Ins(new, d), Q[1])
      BY <1>0, <3>1, <3>2 DEF Step
    <3> QED
      BY <2>2, <3>3, ScanOne DEF Sent
  <2> QED
    BY <2>1, <2>2
<1> QED
  BY <1>1, <1>2, <1>3, RunConcat DEF ScanSent

(* The rows of a scan, one key apart. *)
RowsApart(n, base, base2, r, k, O) ==
    /\ Without(O, Base(r, k))
    /\ ScanRows(n, base) = WithOpt(O, base[r][k], Base(r, k))
    /\ ScanRows(n, base2) = WithOpt(O, base2[r][k], Base(r, k))
(* An operation changes the row of one key. *)
LEMMA ScanRowsApart ==
    ASSUME NEW n \in Op, Kind[n] = "scan", NEW base, NEW base2, NEW k \in Key,
           OnlyKey(base, base2, Relation[n], k)
    PROVE  \E O : RowsApart(n, base, base2, Relation[n], k, O)
<1> DEFINE r == Relation[n]
           E(b, l) == [t |-> b[r][l], d |-> Base(r, l)]
           O == {E(base, l) : l \in {l \in Key : l # k /\ base[r][l] # NoRow}}
<1>1. \A l : Base(r, l) = Base(r, k) => l = k
  BY BaseFacts
<1>2. \A b, l : E(b, l).d = Base(r, l)
  OBVIOUS
<1>3. \A l \in Key : l # k => base2[r][l] = base[r][l] /\ E(base2, l) = E(base, l)
  BY DEF OnlyKey
<1>4. ScanRows(n, base) = {E(base, l) : l \in {l \in Key : base[r][l] # NoRow}}
  BY DEF ScanRows
<1>5. ScanRows(n, base2) = {E(base2, l) : l \in {l \in Key : base2[r][l] # NoRow}}
  BY DEF ScanRows
<1>6. \A b : Opt(b[r][k], Base(r, k)) = IF b[r][k] = NoRow THEN {} ELSE {E(b, k)}
  BY DEF Opt
<1> HIDE DEF E
<1>7. \A z \in O : z.d # Base(r, k)
  BY <1>1, <1>2
<1>8. ScanRows(n, base) = O \cup Opt(base[r][k], Base(r, k))
  BY <1>4, <1>6
<1>9. ScanRows(n, base2) = O \cup Opt(base2[r][k], Base(r, k))
  <2> DEFINE O2 == {E(base2, l) : l \in {l \in Key : l # k /\ base2[r][l] # NoRow}}
  <2>1. ScanRows(n, base2) = O2 \cup Opt(base2[r][k], Base(r, k))
    BY <1>5, <1>6
  <2>2. O2 \subseteq O
    BY <1>3
  <2>3. O \subseteq O2
    BY <1>3
  <2> HIDE DEF O, O2
  <2> QED
    BY <2>1, <2>2, <2>3
<1> HIDE DEF O
<1>10. RowsApart(n, base, base2, r, k, O)
  BY <1>7, <1>8, <1>9 DEF WithOpt, Without, RowsApart
<1> QED
  BY <1>10

(* Only the lanes an operator has matter to its soundness. *)
LEMMA Retarget ==
    ASSUME NEW n, NEW q, NEW o, NEW b, NEW sd, NEW ac, NEW G, NEW R, Sound(n, q, o, b, sd, ac, G, R),
           NEW H, Agree(n, G, H)
    PROVE  Sound(n, q, o, b, sd, ac, H, R)
<1>1. PICK P : Fit(n, q, o, b, sd, ac, G, P, R)
  BY DEF Sound
<1>2. Agree(n, P, P)
  BY DEF Agree
<1>3. Run(n, P, Todo(q), H)
  BY <1>1, <1>2, RunAgrees DEF Fit
<1>4. Fit(n, q, o, b, sd, ac, H, P, R)
  BY <1>1, <1>3 DEF Fit
<1> QED
  BY <1>4 DEF Sound

(* A scan works towards the base rows. *)
LEMMA ScanTarget ==
    ASSUME NEW n \in Op, Kind[n] = "scan", NEW base, NEW rows
    PROVE  Target(n, base, rows)[1] = ScanRows(n, base) /\ Sides(n) = {1}
BY InputFacts DEF Target, Sides

(* An operation keeps every operator sound: scans of its relation get its  *)
(* deltas.                                                                 *)
LEMMA IngestSound ==
    ASSUME NEW n \in Op, NEW q, NEW o, NEW b, NEW sd, NEW ac, NEW R, NEW rows,
           NEW base, NEW base2, NEW r \in Rels, NEW k \in Key, NEW old, NEW row,
           OnlyRel(base, base2, r), OnlyKey(base, base2, r, k),
           old = base[r][k], row = base2[r][k],
           Sound(n, q, o, b, sd, ac, Target(n, base, rows), R),
           NEW xs, xs = IF row = old THEN <<>> ELSE ScanSent(old, row, Base(r, k))
    PROVE  Sound(n, IF n \in ScansOf(r) /\ xs # <<>> THEN q \o xs ELSE q, o, b, sd, ac, Target(n, base2, rows), R)
<1> DEFINE G == Target(n, base, rows)
           H == Target(n, base2, rows)
<1>0. Sound(n, q, o, b, sd, ac, G, R)
  OBVIOUS
<1>1. CASE Kind[n] # "scan"
  <2>1. H = G /\ n \notin ScansOf(r)
    BY <1>1 DEF Target, ScansOf, OpOf
  <2> QED
    BY <2>1
<1>2. CASE Kind[n] = "scan" /\ Relation[n] # r
  <2>1. Relation[n] \in Rels /\ base2[Relation[n]] = base[Relation[n]]
    BY <1>2, InputFacts DEF OnlyRel
  <2>2. ScanRows(n, base2) = ScanRows(n, base)
    BY <2>1 DEF ScanRows
  <2>3. Agree(n, G, H)
    BY <1>2, <2>2, ScanTarget DEF Agree
  <2>4. n \notin ScansOf(r)
    BY <1>2 DEF ScansOf
  <2> HIDE DEF G, H
  <2>5. Sound(n, q, o, b, sd, ac, H, R)
    BY <1>0, <2>3, Retarget
  <2> QED
    BY <2>4, <2>5 DEF H
<1>3. CASE Kind[n] = "scan" /\ Relation[n] = r
  <2> DEFINE d == Base(r, k)
  <2>0. n \in ScansOf(r)
    BY <1>3 DEF ScansOf, OpOf
  <2>1. PICK O : /\ Without(O, d)
                 /\ ScanRows(n, base) = WithOpt(O, old, d)
                 /\ ScanRows(n, base2) = WithOpt(O, row, d)
    <3>1. \E O : RowsApart(n, base, base2, r, k, O)
      BY <1>3, ScanRowsApart
    <3> QED
      BY <3>1 DEF RowsApart
  <2>2. G[1] = WithOpt(O, old, d) /\ H[1] = WithOpt(O, row, d) /\ Sides(n) = {1}
    BY <1>3, <2>1, ScanTarget
  <2>3. Formed(n, d)
    BY <1>3, BaseFacts
  <2> HIDE DEF G, H, d
  <2>4. CASE row = old
    <3>1. Agree(n, G, H) /\ xs = <<>>
      BY <2>2, <2>4 DEF Agree
    <3>2. Sound(n, q, o, b, sd, ac, H, R)
      BY <1>0, <3>1, Retarget
    <3> QED
      BY <3>1, <3>2 DEF H
  <2>5. CASE row # old
    <3>1. xs = ScanSent(old, row, d)
      BY <2>5 DEF d
    <3>2. Run(n, G, xs, H)
      BY <1>3, <2>1, <2>2, <2>3, <3>1, ScanChange
    <3>3. IsList(xs)
      <4>1. IsList(Sent(old, Ret(old, d))) /\ IsList(Sent(row, Ins(row, d)))
        BY ListOne, EmptyList DEF Sent
      <4>2. IsList(Sent(old, Ret(old, d)) \o Sent(row, Ins(row, d)))
        BY <4>1, ListConcat
      <4> QED
        BY <3>1, <4>2 DEF ScanSent
    <3>4. Sound(n, q \o xs, o, b, sd, ac, H, R)
      BY <1>0, <3>2, <3>3, MoreQueued
    <3>5. IsList(q)
      BY <1>0 DEF Sound, Fit
    <3>6. xs = <<>> => q \o xs = q
      BY <3>5, EmptyList, ListConcat
    <3>7. Sound(n, IF xs # <<>> THEN q \o xs ELSE q, o, b, sd, ac, H, R)
      <4>1. CASE xs = <<>>
        BY <3>4, <3>6, <4>1
      <4>2. CASE xs # <<>>
        BY <3>4, <4>2
      <4> QED
        BY <4>1, <4>2
    <3> QED
      BY <2>0, <3>7 DEF H
  <2> QED
    BY <2>4, <2>5
<1> QED
  BY <1>1, <1>2, <1>3

(* Operations of the batch maintain the network. *)
LEMMA IngestMaintains ==
    ASSUME MInv, NEW r \in Rels, NEW k \in Key, NEW row, Ingest(r, k, row)
    PROVE  MInv'
<1>1. IInv'
  BY IngestKeeps DEF MInv
<1> DEFINE xs == ScanDeltas(r, k, row)
           old == staged.base[r][k]
<1>2. /\ phase = "scan" /\ phase' = phase /\ net' = net /\ cur' = cur /\ out' = out /\ before' = before
      /\ queue' = [n \in Op |-> IF n \in ScansOf(r) /\ xs # <<>> THEN queue[n] \o xs ELSE queue[n]]
      /\ staged' = [staged EXCEPT !.base[r][k] = row]
  BY DEF Ingest
<1>3. xs = IF row = old THEN <<>> ELSE ScanSent(old, row, Base(r, k))
  BY DEF ScanDeltas, ScanSent, Sent
<1>4. /\ IsNet(staged') /\ staged'.side = staged.side /\ staged'.acc = staged.acc /\ staged'.rel = staged.rel
      /\ (\A s \in Rels : s # r => staged'.base[s] = staged.base[s])
      /\ (\A l \in Key : l # k => staged'.base[r][l] = staged.base[r][l]) /\ staged'.base[r][k] = row
  <2>1. IsNet(staged)
    BY DEF MInv
  <2>2. staged'.side = staged.side /\ staged'.acc = staged.acc /\ staged'.rel = staged.rel
        /\ staged'.base = [staged.base EXCEPT ![r][k] = row] /\ DOMAIN staged' = DOMAIN staged
    BY <1>2, <2>1 DEF IsNet
  <2>3. /\ DOMAIN staged'.base = Rels /\ \A s \in Rels : s # r => staged'.base[s] = staged.base[s]
    BY <2>1, <2>2 DEF IsNet
  <2>4. staged'.base[r] = [staged.base[r] EXCEPT ![k] = row]
    BY <2>1, <2>2 DEF IsNet
  <2>5. /\ DOMAIN staged'.base[r] = Key /\ staged'.base[r][k] = row
        /\ \A l \in Key : l # k => staged'.base[r][l] = staged.base[r][l]
    BY <2>1, <2>4 DEF IsNet
  <2>6. \A s \in Rels : DOMAIN staged'.base[s] = Key
    BY <2>1, <2>3, <2>5 DEF IsNet
  <2> QED
    BY <2>1, <2>2, <2>3, <2>5, <2>6 DEF IsNet
<1>5. PICK rows : Coherent(staged, queue, cur, out, before, rows)
  BY DEF MInv, Underway
<1>6. ASSUME NEW n \in Op
      PROVE  SoundIn(n, staged', queue', cur', out', before', rows) /\ Shows(n, staged', rows)
  <2> DEFINE q == queue[n]
             o == IF n = cur THEN out ELSE <<>>
             b == IF n = cur THEN before ELSE {}
             sd == staged.side[n]
             ac == staged.acc[n]
             base == staged.base
             base2 == staged'.base
  <2>1. Sound(n, q, o, b, sd, ac, Target(n, base, rows), rows[n]) /\ Shows(n, staged, rows)
    BY <1>5 DEF Coherent, SoundIn
  <2>2. queue'[n] = IF n \in ScansOf(r) /\ xs # <<>> THEN q \o xs ELSE q
    BY <1>2
  <2>3. OnlyRel(base, base2, r) /\ OnlyKey(base, base2, r, k) /\ old = base[r][k] /\ row = base2[r][k]
    BY <1>4 DEF OnlyRel, OnlyKey
  <2> HIDE DEF q, o, b, sd, ac, base, base2, xs, old
  <2>4. Sound(n, IF n \in ScansOf(r) /\ xs # <<>> THEN q \o xs ELSE q, o, b, sd, ac, Target(n, base2, rows), rows[n])
    BY <1>3, <2>1, <2>3, IngestSound
  <2>5. SoundIn(n, staged', queue', cur', out', before', rows)
    BY <1>2, <1>4, <2>2, <2>4 DEF SoundIn, o, b, sd, ac, base2
  <2> QED
    BY <1>4, <2>1, <2>5 DEF Shows
<1>7. Coherent(staged', queue', cur', out', before', rows)
  BY <1>6 DEF Coherent
<1>8. Underway'
  BY <1>7 DEF Underway
<1>9. IsNet(net') /\ Settled(net')
  BY <1>2 DEF MInv
<1>10. (cur' = NoOp => out' = <<>> /\ before' = {}) /\ phase' # "idle"
  BY <1>2 DEF MInv
<1> QED
  BY <1>1, <1>4, <1>8, <1>9, <1>10 DEF MInv
-----------------------------------------------------------------------------
(* The end of a slice. *)

(* Deltas of an operator carry its derivations. *)
LEMMA PathFormed ==
    ASSUME NEW m, NEW S, NEW s, NEW T, Path(m, S, s, T), NEW j \in 1..Len(s)
    PROVE  Formed(m, s[j].d)
<1>1. PICK h : Follows(m, h, s)
  BY DEF Path
<1>2. Step(m, h[j - 1], s[j], h[j])
  BY <1>1 DEF Follows
<1> QED
  BY <1>2 DEF Step

(* A join knows the side of a delta by the root of its derivation. *)
LEMMA JoinSide ==
    ASSUME NEW n \in Op, Kind[n] = "join", NEW i \in {1, 2}, NEW d, Formed(Inputs[n][i], d)
    PROVE  IsLeft(n, d) <=> i = 1
<1> DEFINE l == Inputs[n][1]
           r == Inputs[n][2]
<1>1. l \in Op /\ r \in Op /\ l # r /\ DOMAIN Inputs[n] = {1, 2}
  <2>1. n \in TwoSided
    BY InputFacts
  <2> QED
    BY <2>1, InputFacts
<1>2. d.root = RootOf(Inputs[n][i])
  BY DEF Formed
<1>3. Kind[l] = "scan" /\ Kind[r] = "scan" => Relation[l] # Relation[r]
  <2>1. n \in OpOf("join")
    BY DEF OpOf
  <2>2. 1 \in DOMAIN Inputs[n] /\ 2 \in DOMAIN Inputs[n] /\ 1 # 2
    BY <1>1
  <2> QED
    BY <2>1, <2>2, ProgramAssumption
<1>4. \A a, b : <<"op", a>> # <<"base", b>> /\ (<<"op", a>> = <<"op", b>> => a = b) /\ (<<"base", a>> = <<"base", b>> => a = b)
  OBVIOUS
<1>5. IsLeft(n, d) <=> d.root = <<"op", l>> \/ (Kind[l] = "scan" /\ d.root = <<"base", Relation[l]>>)
  BY DEF IsLeft
<1> HIDE DEF l, r
<1>6. CASE i = 1
  <2>1. d.root = RootOf(l)
    BY <1>2, <1>6 DEF l
  <2> QED
    BY <1>5, <1>6, <2>1 DEF RootOf
<1>7. CASE i = 2
  <2>1. d.root = RootOf(r)
    BY <1>2, <1>7 DEF r
  <2>2. CASE Kind[r] = "scan"
    <3>1. d.root = <<"base", Relation[r]>>
      BY <2>1, <2>2 DEF RootOf
    <3> QED
      BY <1>3, <1>4, <1>5, <1>7, <2>2, <3>1
  <2>3. CASE Kind[r] # "scan"
    <3>1. d.root = <<"op", r>>
      BY <2>1, <2>3 DEF RootOf
    <3>2. r # l
      BY <1>1
    <3> QED
      BY <1>4, <1>5, <1>7, <3>1, <3>2
  <2> QED
    BY <2>2, <2>3
<1> QED
  BY <1>6, <1>7

(* A delta of an input arrives on that input's lane. *)
LEMMA ArrivesOn ==
    ASSUME NEW n \in Op, Kind[n] # "scan", NEW i \in Sides(n), NEW x, Formed(Inputs[n][i], x.d)
    PROVE  Lane(n, Item(x, SideFor(Inputs[n][i], n))) = i
<1> DEFINE it == Item(x, SideFor(Inputs[n][i], n))
<1>0. it.x = x /\ it.side = SideFor(Inputs[n][i], n)
  BY DEF Item
<1> HIDE DEF it
<1>1. CASE n \notin TwoSided
  BY <1>1 DEF Lane, Sides
<1>2. CASE n \in TwoSided /\ Kind[n] = "join"
  <2>1. i \in {1, 2}
    BY <1>2 DEF Sides
  <2>2. IsLeft(n, it.x.d) <=> i = 1
    BY <1>0, <1>2, <2>1, JoinSide
  <2>3. SideOf(n, it) = i
    BY <1>2, <2>1, <2>2 DEF SideOf
  <2> QED
    BY <1>2, <2>3 DEF Lane, it
<1>3. CASE n \in TwoSided /\ Kind[n] # "join"
  <2>1. Kind[n] \in {"anti", "parent", "union"} /\ i \in {1, 2} /\ Inputs[n][1] # Inputs[n][2]
    BY <1>3, InputFacts DEF Sides
  <2>2. SideFor(Inputs[n][i], n) = i
    BY <2>1 DEF SideFor
  <2> QED
    BY <1>0, <1>3, <2>2 DEF Lane, SideOf, it
<1> QED
  BY <1>1, <1>2, <1>3 DEF it

ItemsFor(c, n, ds) == [j \in DOMAIN ds |-> Item(ds[j], SideFor(c, n))]
OthersSame(n, i, G, H) == \A j \in Sides(n) : j # i => H[j] = G[j]
(* Deltas delivered to a consumer are a run of its queue. *)
LEMMA DeliveredRun ==
    ASSUME NEW n \in Op, Kind[n] # "scan", NEW i \in Sides(n), NEW c, c = Inputs[n][i], NEW ds, IsList(ds),
           NEW G, NEW H, Path(c, G[i], ds, H[i]), OthersSame(n, i, G, H)
    PROVE  IsList(ItemsFor(c, n, ds)) /\ Run(n, G, ItemsFor(c, n, ds), H)
<1> DEFINE r == ItemsFor(c, n, ds)
<1>1. Len(ds) \in Nat /\ DOMAIN ds = 1..Len(ds)
  BY ListFacts
<1>2. DOMAIN r = 1..Len(ds) /\ r = [j \in 1..Len(ds) |-> r[j]] /\ \A j \in 1..Len(ds) : r[j] = Item(ds[j], SideFor(c, n))
  BY <1>1 DEF ItemsFor
<1> HIDE DEF r
<1>3. IsList(r) /\ Len(r) = Len(ds)
  BY <1>1, <1>2, MadeList
<1>4. ASSUME NEW j \in 1..Len(ds) PROVE r[j].fresh /\ r[j].x = ds[j] /\ Lane(n, r[j]) = i
  <2>1. Formed(c, ds[j].d)
    BY PathFormed
  <2>2. Lane(n, Item(ds[j], SideFor(c, n))) = i
    BY <2>1, ArrivesOn
  <2>3. Item(ds[j], SideFor(c, n)).fresh
    BY Zenon DEF Item
  <2>4. Item(ds[j], SideFor(c, n)).x = ds[j]
    BY DEF Item
  <2>5. r[j] = Item(ds[j], SideFor(c, n))
    BY <1>2
  <2> QED
    BY <2>2, <2>3, <2>4, <2>5
<1>5. Path(Source(n, i), G[i], ds, H[i])
  BY DEF Source
<1>6. \A j \in Sides(n) : j # i => H[j] = G[j]
  BY DEF OthersSame
<1>7. Run(n, G, r, H)
  BY <1>3, <1>4, <1>5, <1>6, RunLift
<1> QED
  BY <1>3, <1>7 DEF r

(* What an operator sends on reaches the target of each operator it feeds. *)
MovedOn(rows, rows2, c, T) == rows2[c] = T /\ \A m \in Op : m # c => rows2[m] = rows[m]
(* Any other operator works towards what its inputs have sent. *)
LEMMA TargetAt ==
    ASSUME NEW n \in Op, Kind[n] # "scan", NEW base, NEW rows, NEW i \in Sides(n)
    PROVE  Target(n, base, rows)[i] = rows[Inputs[n][i]] /\ Inputs[n][i] \in Op /\ i \in DOMAIN Inputs[n]
<1>1. i \in {1, 2}
  BY DEF Sides
<1>2. Inputs[n][i] \in Op /\ i \in DOMAIN Inputs[n]
  BY InputFacts DEF Sides
<1> QED
  BY <1>1, <1>2 DEF Target

(* Sending deltas on keeps every operator sound. *)
LEMMA SentOn ==
    ASSUME NEW n \in Op, NEW c \in Op, NEW ds, IsList(ds), NEW rows, NEW rows2, NEW T,
           Path(c, rows[c], ds, T), MovedOn(rows, rows2, c, T), NEW base,
           NEW q, NEW o, NEW b, NEW sd, NEW ac, NEW R, Sound(n, q, o, b, sd, ac, Target(n, base, rows), R)
    PROVE  Sound(n, IF n \in Consumers(c) /\ ds # <<>> THEN q \o ItemsFor(c, n, ds) ELSE q, o, b, sd, ac,
                 Target(n, base, rows2), R)
<1> DEFINE G == Target(n, base, rows)
           H == Target(n, base, rows2)
<1>0. Sound(n, q, o, b, sd, ac, G, R)
  OBVIOUS
<1>1. CASE Kind[n] = "scan"
  <2>1. n \notin Consumers(c)
    BY <1>1, InputFacts DEF Consumers, InputsOf
  <2>2. Agree(n, G, H)
    BY <1>1, ScanTarget DEF Agree
  <2> HIDE DEF G, H
  <2>3. Sound(n, q, o, b, sd, ac, H, R)
    BY <1>0, <2>2, Retarget
  <2> QED
    BY <2>1, <2>3 DEF H
<1>2. CASE Kind[n] # "scan"
  <2>1. \A i \in Sides(n) : /\ G[i] = rows[Inputs[n][i]] /\ H[i] = rows2[Inputs[n][i]]
                            /\ Inputs[n][i] \in Op /\ i \in DOMAIN Inputs[n]
    BY <1>2, TargetAt
  <2> HIDE DEF G, H
  <2>2. CASE n \in Consumers(c) /\ ds # <<>>
    <3>1. PICK i \in DOMAIN Inputs[n] : Inputs[n][i] = c
      BY <2>2 DEF Consumers, InputsOf
    <3>2. DOMAIN Inputs[n] = Sides(n)
      BY <1>2, InputFacts DEF Sides
    <3>3. i \in Sides(n) /\ c = Inputs[n][i]
      BY <3>1, <3>2
    <3>4. OthersSame(n, i, G, H)
      <4>1. \A j \in Sides(n) : j # i => Inputs[n][j] # c
        BY <3>1, <3>2, NetworkAssumption
      <4> QED
        BY <2>1, <4>1 DEF OthersSame, MovedOn
    <3>5. G[i] = rows[c] /\ H[i] = T
      BY <2>1, <3>3 DEF MovedOn
    <3>6. Path(c, G[i], ds, H[i])
      BY <3>5
    <3>7. IsList(ItemsFor(c, n, ds)) /\ Run(n, G, ItemsFor(c, n, ds), H)
      BY <1>2, <3>3, <3>4, <3>6, DeliveredRun
    <3>8. Sound(n, q \o ItemsFor(c, n, ds), o, b, sd, ac, H, R)
      BY <1>0, <3>7, MoreQueued
    <3> QED
      BY <2>2, <3>8 DEF H
  <2>3. CASE ~(n \in Consumers(c) /\ ds # <<>>)
    <3>1. \A i \in Sides(n) : rows2[Inputs[n][i]] = rows[Inputs[n][i]]
      <4>1. CASE ds = <<>>
        <5>1. T = rows[c]
          BY <4>1, PathNil
        <5> QED
          BY <2>1, <5>1 DEF MovedOn
      <4>2. CASE n \notin Consumers(c)
        <5>1. \A i \in Sides(n) : Inputs[n][i] # c
          BY <2>1, <4>2 DEF Consumers, InputsOf
        <5> QED
          BY <2>1, <5>1 DEF MovedOn
      <4> QED
        BY <2>3, <4>1, <4>2
    <3>2. Agree(n, G, H)
      BY <2>1, <3>1 DEF Agree
    <3>3. Sound(n, q, o, b, sd, ac, H, R)
      BY <1>0, <3>2, Retarget
    <3> QED
      BY <2>3, <3>3 DEF H
  <2> QED
    BY <2>2, <2>3
<1> QED
  BY <1>1, <1>2

(* What a slice hands on comes to what it has produced. *)
LEMMA ProducedPath ==
    ASSUME NEW S, NEW T, IsList(out), Tidy(cur, S), Path(cur, S, out, T), NEW ds \in Produced
    PROVE  IsList(ds) /\ Path(cur, S, ds, T)
<1>1. CASE Kind[cur] = "parent"
  <2>1. ds \in NetEffect(out)
    BY <1>1 DEF Produced
  <2> QED
    BY <2>1, NetEffectPath
<1>2. CASE Kind[cur] # "parent"
  BY <1>2 DEF Produced
<1> QED
  BY <1>1, <1>2

(* The end of a slice maintains the network. *)
LEMMA EndSliceMaintains ==
    ASSUME MInv, EndSlice
    PROVE  MInv'
<1>1. IInv'
  BY EndSliceKeeps DEF MInv
<1>2. /\ phase = "run" /\ cur # NoOp /\ before = {} /\ cur' = NoOp /\ out' = <<>> /\ before' = {}
      /\ net' = net /\ phase' = phase
  BY DEF EndSlice
<1>3. cur \in Op
  BY <1>2 DEF MInv, IInv, Shape
<1>4. PICK ds \in Produced :
        /\ queue' = Delivered(ds)
        /\ staged' = [staged EXCEPT !.rel[cur] =
                         IF cur \in Outputs /\ Kind[cur] # "distinct" THEN Stored(@, ds) ELSE @]
  BY DEF EndSlice
<1>5. PICK rows : Coherent(staged, queue, cur, out, before, rows)
  BY DEF MInv, Underway
<1>6. Sound(cur, queue[cur], out, {}, staged.side[cur], staged.acc[cur], Target(cur, staged.base, rows), rows[cur])
      /\ Shows(cur, staged, rows)
  BY <1>2, <1>3, <1>5 DEF Coherent, SoundIn
<1>7. PICK T : /\ Path(cur, rows[cur], out, T) /\ Tidy(cur, rows[cur]) /\ IsList(out)
               /\ Sound(cur, queue[cur], <<>>, {}, staged.side[cur], staged.acc[cur],
                        Target(cur, staged.base, rows), T)
  BY <1>6, SliceDone
<1>8. IsList(ds) /\ Path(cur, rows[cur], ds, T)
  BY <1>7, ProducedPath
<1> DEFINE rows2 == [n \in Op |-> IF n = cur THEN T ELSE rows[n]]
<1>9. MovedOn(rows, rows2, cur, T)
  BY <1>3 DEF MovedOn
<1> HIDE DEF rows2
<1>10. /\ IsNet(staged') /\ staged'.side = staged.side /\ staged'.acc = staged.acc /\ staged'.base = staged.base
       /\ (\A n \in Op : n # cur => staged'.rel[n] = staged.rel[n])
       /\ (cur \in Outputs /\ Kind[cur] # "distinct" => staged'.rel[cur] = Stored(staged.rel[cur], ds))
  BY <1>3, <1>4 DEF IsNet, MInv
<1>11. \A n \in Op : queue'[n] = IF n \in Consumers(cur) /\ ds # <<>> THEN queue[n] \o ItemsFor(cur, n, ds) ELSE queue[n]
  BY <1>4 DEF Delivered, FedBy, ItemsFor
<1>12. ASSUME NEW n \in Op
       PROVE  SoundIn(n, staged', queue', cur', out', before', rows2) /\ Shows(n, staged', rows2)
  <2> DEFINE q == queue[n]
             sd == staged.side[n]
             ac == staged.acc[n]
             base == staged.base
  <2>1. Sound(n, q, <<>>, {}, sd, ac, Target(n, base, rows), rows2[n])
    <3>1. CASE n = cur
      BY <1>7, <1>9, <3>1 DEF MovedOn
    <3>2. CASE n # cur
      <4>1. SoundIn(n, staged, queue, cur, out, before, rows)
        BY <1>5 DEF Coherent
      <4>2. rows2[n] = rows[n]
        BY <1>9, <3>2 DEF MovedOn
      <4> QED
        BY <3>2, <4>1, <4>2 DEF SoundIn
    <3> QED
      BY <3>1, <3>2
  <2>2. Shows(n, staged', rows2)
    <3>1. CASE n = cur
      <4> SUFFICES ASSUME n \in Outputs, Kind[n] # "distinct" PROVE staged'.rel[n] = rows2[n]
        BY DEF Shows
      <4>1. staged.rel[cur] = rows[cur]
        BY <1>6, <3>1 DEF Shows
      <4>2. Stored(rows[cur], ds) = T
        BY <1>8, StoredIs
      <4> QED
        BY <1>9, <1>10, <3>1, <4>1, <4>2 DEF MovedOn
    <3>2. CASE n # cur
      <4>1. Shows(n, staged, rows)
        BY <1>5 DEF Coherent
      <4>2. rows2[n] = rows[n] /\ staged'.rel[n] = staged.rel[n]
        BY <1>9, <1>10, <3>2 DEF MovedOn
      <4> QED
        BY <4>1, <4>2 DEF Shows
    <3> QED
      BY <3>1, <3>2
  <2> HIDE DEF q, sd, ac, base
  <2>3. Sound(n, IF n \in Consumers(cur) /\ ds # <<>> THEN q \o ItemsFor(cur, n, ds) ELSE q, <<>>, {}, sd, ac,
              Target(n, base, rows2), rows2[n])
    BY <1>3, <1>8, <1>9, <2>1, SentOn
  <2>4. Sound(n, queue'[n], <<>>, {}, staged'.side[n], staged'.acc[n], Target(n, staged'.base, rows2), rows2[n])
    BY <1>10, <1>11, <2>3 DEF q, sd, ac, base
  <2> QED
    BY <1>2, <2>2, <2>4 DEF SoundIn
<1>13. Coherent(staged', queue', cur', out', before', rows2)
  BY <1>12 DEF Coherent
<1>14. Underway'
  BY <1>13 DEF Underway
<1>15. IsNet(net') /\ Settled(net')
  BY <1>2 DEF MInv
<1> QED
  BY <1>1, <1>2, <1>10, <1>14, <1>15 DEF MInv

(* Every step does. *)
LEMMA NextMaintains == MInv /\ [Next]_vars => MInv'
<1> SUFFICES ASSUME MInv, [Next]_vars PROVE MInv'
  OBVIOUS
<1>1. CASE BatchStep
  BY <1>1, PhaseKeeps, IngestMaintains DEF BatchStep
<1>2. CASE LoopStep
  BY <1>2, PhaseKeeps, ItemsKeep, ReportMaintains, EndSliceMaintains, EndKeeps DEF LoopStep, SliceStep
<1>3. CASE UNCHANGED vars
  <2>1. UNCHANGED <<net, staged, phase, fed, queue, ready, deferred, cur, slice, out, before, ran>>
    BY <1>3 DEF vars, loop
  <2>2. IInv'
    BY <1>3, NextKeeps DEF MInv
  <2>3. Underway'
    BY <2>1 DEF Underway, MInv
  <2> QED
    BY <2>1, <2>2, <2>3 DEF MInv
<1> QED
  BY <1>1, <1>2, <1>3 DEF Next

(* The inductive invariant holds throughout. *)
LEMMA Maintenance == Spec => []MInv
<1>1. Init => MInv
  BY InitMaintained
<1>2. MInv /\ [Next]_vars => MInv'
  BY NextMaintains
<1> QED
  BY <1>1, <1>2, PTL DEF Spec
-----------------------------------------------------------------------------
(* Between batches. *)

(* An operator's rows depend on those of its inputs alone. *)
LEMMA EvaluateAgrees ==
    ASSUME NEW n \in Op, Kind[n] # "scan", NEW P, NEW Q, Agree(n, P, Q)
    PROVE  Evaluate(n, P) = Evaluate(n, Q)
<1>1. P[1] = Q[1] /\ (n \in TwoSided => P[2] = Q[2])
  BY DEF Agree, Sides
<1>2. CASE Kind[n] = "map"
  BY <1>1, <1>2, EvaluateMap
<1>3. CASE Kind[n] = "filter"
  BY <1>1, <1>3, EvaluateFilter
<1>4. CASE Kind[n] = "distinct"
  BY <1>1, <1>4, EvaluateDistinct
<1>5. CASE Kind[n] = "group"
  BY <1>1, <1>5, EvaluateGroup
<1>6. CASE n \in TwoSided
  <2>1. P[2] = Q[2] /\ Kind[n] \in {"join", "anti", "parent", "union"}
    BY <1>1, <1>6, InputFacts
  <2>2. CASE Kind[n] = "join"
    <3> DEFINE V(A, B) == {[t |-> Merge(n, p[1].t, p[2].t), d |-> Joined(n, p[1].d, p[2].d)] :
                         p \in {p \in A \X B : KeyOf(n, 1, p[1].t) = KeyOf(n, 2, p[2].t)}}
    <3>1. Evaluate(n, P) = V(P[1], P[2]) /\ Evaluate(n, Q) = V(Q[1], Q[2])
      BY <2>2, EvaluateJoin
    <3> HIDE DEF V
    <3> QED
      BY <1>1, <2>1, <3>1
  <2>3. CASE Kind[n] = "anti"
    <3> DEFINE V(A, B) == {[t |-> e.t, d |-> Unary(n, e.d)] :
                         e \in {e \in A : Bucket(B, n, 2, KeyOf(n, 1, e.t)) = {}}}
    <3>1. Evaluate(n, P) = V(P[1], P[2]) /\ Evaluate(n, Q) = V(Q[1], Q[2])
      BY <2>3, EvaluateAnti
    <3> HIDE DEF V
    <3> QED
      BY <1>1, <2>1, <3>1
  <2>4. CASE Kind[n] = "parent"
    <3> DEFINE V(A, B) == {[t |-> CountRow(KeyOf(n, 1, e.t), Cardinality(Bucket(B, n, 2, KeyOf(n, 1, e.t)))),
                          d |-> Unary(n, e.d)] : e \in A}
    <3>1. Evaluate(n, P) = V(P[1], P[2]) /\ Evaluate(n, Q) = V(Q[1], Q[2])
      BY <2>4, EvaluateParent
    <3> HIDE DEF V
    <3> QED
      BY <1>1, <2>1, <3>1
  <2>5. CASE Kind[n] = "union"
    BY <1>1, <2>1, <2>5, EvaluateUnion
  <2> QED
    BY <2>1, <2>2, <2>3, <2>4, <2>5
<1> QED
  BY <1>2, <1>3, <1>4, <1>5, <1>6, InputFacts

(* An operator with nothing to do: its indexes are its inputs', its rows    *)
(* what it makes of them.                                                  *)
Stands(n, sd, ac, G, R) ==
    /\ Indexed(n, sd, ac, G)
    /\ Kind[n] = "union" => IsFiniteSet(G[1]) /\ IsFiniteSet(G[2]) /\ \A k : CountAt(n, G, k) <= 1
    /\ R = IF Kind[n] = "scan" THEN G[1] ELSE Evaluate(n, G)
(* Sound with empty queues is at rest. *)
LEMMA NothingToDo ==
    ASSUME NEW n \in Op, NEW sd, NEW ac, NEW G, NEW R, Sound(n, <<>>, <<>>, {}, sd, ac, G, R)
    PROVE  Stands(n, sd, ac, G, R)
<1>1. PICK P : Fit(n, <<>>, <<>>, {}, sd, ac, G, P, R)
  BY DEF Sound
<1>2. ~Mid(<<>>) /\ Todo(<<>>) = <<>>
  BY DEF Mid, Todo
<1>3. Agree(n, P, G)
  BY <1>1, <1>2, RunNil DEF Fit
<1>4. G[1] = P[1] /\ (n \in TwoSided => G[2] = P[2])
  BY <1>3 DEF Agree, Sides
<1>5. Indexed(n, sd, ac, G)
  <2>1. Indexed(n, sd, ac, P)
    BY <1>1 DEF Fit
  <2> QED
    BY <1>4, <2>1 DEF Indexed
<1>6. ASSUME Kind[n] = "union", NEW k PROVE CountAt(n, G, k) <= 1
  <2>1. n \in TwoSided
    BY <1>6, InputFacts
  <2>2. CountAt(n, P, k) <= 1
    BY <1>1, <1>6 DEF Fit, Remembered
  <2> QED
    BY <1>4, <2>1, <2>2 DEF CountAt
<1>a. ASSUME Kind[n] = "union" PROVE IsFiniteSet(G[1]) /\ IsFiniteSet(G[2])
  <2>1. n \in TwoSided /\ Sides(n) = {1, 2}
    BY <1>a, InputFacts DEF Sides
  <2>2. InputsTidy(n, P)
    BY <1>1 DEF Fit
  <2> QED
    BY <1>4, <2>1, <2>2 DEF InputsTidy, Tidy
<1>7. R = Now(n, P, <<>>, {})
  BY <1>1, PathNil DEF Fit
<1>8. Now(n, P, <<>>, {}) = IF Kind[n] = "scan" THEN P[1] ELSE Evaluate(n, P)
  <2>1. Shown(n, P, {}) = Evaluate(n, P)
    BY ShownNone
  <2> QED
    BY <1>2, <2>1 DEF Now
<1>9. Kind[n] # "scan" => Evaluate(n, P) = Evaluate(n, G)
  BY <1>3, EvaluateAgrees
<1> QED
  BY <1>4, <1>5, <1>6, <1>a, <1>7, <1>8, <1>9 DEF Stands

(* Rows that are each operator's own are the reference's. *)
RefStep(f, base, n) ==
    IF Kind[n] = "scan" THEN ScanRows(n, base) ELSE Evaluate(n, [i \in DOMAIN Inputs[n] |-> f[Inputs[n][i]]])
IsRef(f, base) == f = [n \in Op |-> RefStep(f, base, n)]
Consistent(rows, base) ==
    \A n \in Op : rows[n] = IF Kind[n] = "scan" THEN ScanRows(n, base) ELSE Evaluate(n, Target(n, base, rows))
(* The reference's equation at an operator depends on its inputs alone. *)
LEMMA RefStepIs ==
    ASSUME NEW n \in Op, NEW f, NEW base, NEW rows, \A m \in Op : m < n => f[m] = rows[m]
    PROVE  RefStep(f, base, n) = IF Kind[n] = "scan" THEN ScanRows(n, base) ELSE Evaluate(n, Target(n, base, rows))
<1>1. CASE Kind[n] = "scan"
  BY <1>1 DEF RefStep
<1>2. CASE Kind[n] # "scan"
  <2> DEFINE P == [i \in DOMAIN Inputs[n] |-> f[Inputs[n][i]]]
             G == Target(n, base, rows)
  <2>1. ASSUME NEW i \in Sides(n) PROVE P[i] = G[i]
    <3>1. G[i] = rows[Inputs[n][i]] /\ Inputs[n][i] \in Op /\ i \in DOMAIN Inputs[n]
      BY <1>2, TargetAt
    <3>2. Inputs[n][i] < n
      BY <3>1, NetworkAssumption
    <3> QED
      BY <3>1, <3>2
  <2>2. RefStep(f, base, n) = Evaluate(n, P)
    BY <1>2 DEF RefStep
  <2> HIDE DEF P, G
  <2>3. Agree(n, P, G)
    BY <2>1 DEF Agree
  <2>4. Evaluate(n, P) = Evaluate(n, G)
    BY <1>2, <2>3, EvaluateAgrees
  <2> QED
    BY <1>2, <2>2, <2>4 DEF G
<1> QED
  BY <1>1, <1>2

(* There is one solution of those equations, by induction on the           *)
(* operators.                                                              *)
LEMMA ReferenceIs ==
    ASSUME NEW base, NEW rows, Consistent(rows, base)
    PROVE  \A n \in Op : Reference(base)[n] = rows[n]
<1> DEFINE g == [n \in Op |-> rows[n]]
           ref == Reference(base)
<1>1. \A n \in Op : g[n] = rows[n] /\ RefStep(g, base, n) = rows[n]
  <2>1. \A n \in Op : g[n] = rows[n]
    OBVIOUS
  <2> HIDE DEF g
  <2>2. ASSUME NEW n \in Op PROVE RefStep(g, base, n) = rows[n]
    BY <2>1, RefStepIs DEF Consistent
  <2> QED
    BY <2>1, <2>2
<1>2. IsRef(g, base)
  <2>1. [n \in Op |-> RefStep(g, base, n)] = [n \in Op |-> rows[n]]
    <3> HIDE DEF g
    <3> QED
      BY <1>1
  <2> QED
    BY <2>1 DEF IsRef
<1>3. ref = CHOOSE f : IsRef(f, base)
  BY DEF Reference, IsRef, RefStep
<1> HIDE DEF g, ref
<1>4. IsRef(ref, base)
  BY <1>2, <1>3
<1>5. \A n \in Op : ref[n] = RefStep(ref, base, n)
  BY <1>4 DEF IsRef
<1> DEFINE S == {n \in Op : ref[n] = rows[n]}
<1>6. ASSUME NEW n \in Op, \A m \in Op : m < n => m \in S PROVE n \in S
  <2>1. \A m \in Op : m < n => ref[m] = rows[m]
    BY <1>6
  <2>2. RefStep(ref, base, n) = rows[n]
    BY <2>1, RefStepIs DEF Consistent
  <2> QED
    BY <1>5, <2>2
<1>7. Op \subseteq S
  <2> HIDE DEF S
  <2> QED
    BY <1>6, OpInduction
<1> QED
  BY <1>7 DEF ref

(* The network, batch or no batch, is at rest on the reference's rows. *)
OnReference(n, ref) ==
    /\ Stands(n, net.side[n], net.acc[n], Target(n, net.base, ref), ref[n])
    /\ Shows(n, net, ref)
(* So the rows of MInv are the reference's. *)
LEMMA AtReference ==
    ASSUME MInv
    PROVE  \A n \in Op : OnReference(n, Reference(net.base))
<1> DEFINE ref == Reference(net.base)
<1>1. PICK rows : Coherent(net, Empty, NoOp, <<>>, {}, rows)
  BY DEF MInv, Settled
<1>2. ASSUME NEW n \in Op
      PROVE  Stands(n, net.side[n], net.acc[n], Target(n, net.base, rows), rows[n]) /\ Shows(n, net, rows)
  <2>1. Empty[n] = <<>>
    BY DEF Empty
  <2>2. Sound(n, <<>>, <<>>, {}, net.side[n], net.acc[n], Target(n, net.base, rows), rows[n]) /\ Shows(n, net, rows)
    BY <1>1, <2>1 DEF Coherent, SoundIn
  <2> QED
    BY <2>2, NothingToDo
<1>3. Consistent(rows, net.base)
  <2>1. ASSUME NEW n \in Op
        PROVE  rows[n] = IF Kind[n] = "scan" THEN ScanRows(n, net.base) ELSE Evaluate(n, Target(n, net.base, rows))
    <3>1. Kind[n] = "scan" => Target(n, net.base, rows)[1] = ScanRows(n, net.base)
      BY ScanTarget
    <3> QED
      BY <1>2, <3>1 DEF Stands
  <2> QED
    BY <2>1 DEF Consistent
<1>4. \A n \in Op : ref[n] = rows[n]
  BY <1>3, ReferenceIs
<1> HIDE DEF ref
<1>5. ASSUME NEW n \in Op PROVE OnReference(n, ref)
  <2> DEFINE G == Target(n, net.base, rows)
             H == Target(n, net.base, ref)
  <2>1. ASSUME NEW i \in Sides(n) PROVE G[i] = H[i]
    <3>1. CASE Kind[n] = "scan"
      BY <2>1, <3>1, ScanTarget
    <3>2. CASE Kind[n] # "scan"
      BY <1>4, <2>1, <3>2, TargetAt
    <3> QED
      BY <3>1, <3>2
  <2> HIDE DEF G, H
  <2>2. Agree(n, G, H) /\ G[1] = H[1] /\ (n \in TwoSided => G[2] = H[2])
    BY <2>1 DEF Agree, Sides
  <2>3. Stands(n, net.side[n], net.acc[n], G, rows[n])
    BY <1>2 DEF G
  <2>4. Kind[n] # "scan" => Evaluate(n, G) = Evaluate(n, H)
    BY <2>2, EvaluateAgrees
  <2>5. Indexed(n, net.side[n], net.acc[n], H)
    BY <2>2, <2>3 DEF Indexed, Stands
  <2>6. Kind[n] = "union" => n \in TwoSided
    BY InputFacts
  <2>7. Stands(n, net.side[n], net.acc[n], H, ref[n])
    BY <1>4, <2>2, <2>3, <2>4, <2>5, <2>6 DEF Stands, CountAt
  <2> QED
    BY <1>2, <1>4, <2>7 DEF OnReference, Shows, H
<1> QED
  BY <1>5 DEF ref

(* The indexes of a network at rest. *)
LEMMA IndexesFollow ==
    ASSUME NEW ref, \A n \in Op : OnReference(n, ref)
    PROVE  IndexesAre(ref)
<1> SUFFICES ASSUME NEW n \in Op
             PROVE  CASE n \in TwoSided -> \A s \in 1..2 : net.side[n][s] = ref[Inputs[n][s]]
                      [] Kind[n] = "distinct" -> net.side[n][1] = ref[Inputs[n][1]]
                      [] Kind[n] = "group" ->
                           LET es == ref[Inputs[n][1]]
                           IN  /\ net.side[n][1] = {[t |-> GroupOf(n, e.t), d |-> e.d] : e \in es}
                               /\ net.acc[n] = {[k |-> k, a |-> RefAcc(n, Members(n, k, es))] : k \in Groups(n, es)}
                      [] OTHER -> net.side[n] = [s \in 1..2 |-> {}]
  BY DEF IndexesAre
<1> DEFINE G == Target(n, net.base, ref)
<1>1. Indexed(n, net.side[n], net.acc[n], G)
  BY DEF OnReference, Stands
<1>2. Kind[n] # "scan" => \A i \in Sides(n) : G[i] = ref[Inputs[n][i]]
  BY TargetAt
<1> HIDE DEF G
<1>3. CASE n \in TwoSided
  <2>1. Kind[n] \in {"join", "anti", "parent", "union"} /\ Sides(n) = {1, 2}
    BY <1>3, InputFacts DEF Sides
  <2>2. net.side[n][1] = ref[Inputs[n][1]] /\ net.side[n][2] = ref[Inputs[n][2]]
    BY <1>1, <1>2, <1>3, <2>1 DEF Indexed
  <2>3. \A s \in 1..2 : net.side[n][s] = ref[Inputs[n][s]]
    BY <2>2
  <2> QED
    BY <1>3, <2>1, <2>3
<1>4. CASE Kind[n] = "distinct"
  <2>1. n \notin TwoSided /\ Sides(n) = {1}
    BY <1>4, InputFacts DEF Sides
  <2>2. net.side[n][1] = ref[Inputs[n][1]]
    BY <1>1, <1>2, <1>4, <2>1 DEF Indexed
  <2> QED
    BY <1>4, <2>1, <2>2
<1>5. CASE Kind[n] = "group"
  <2>1. n \notin TwoSided /\ Sides(n) = {1}
    BY <1>5, InputFacts DEF Sides
  <2>2. GroupIndexed(n, net.side[n], net.acc[n], ref[Inputs[n][1]])
    BY <1>1, <1>2, <1>5, <2>1 DEF Indexed
  <2>3. /\ net.side[n][1] = {[t |-> GroupOf(n, e.t), d |-> e.d] : e \in ref[Inputs[n][1]]}
        /\ net.acc[n] = {[k |-> k, a |-> RefAcc(n, Members(n, k, ref[Inputs[n][1]]))] : k \in Groups(n, ref[Inputs[n][1]])}
    BY <2>2 DEF GroupIndexed, Regrouped, Accs
  <2> QED
    BY <1>5, <2>1, <2>3
<1>6. CASE Kind[n] \in {"scan", "map", "filter"}
  <2>1. n \notin TwoSided
    BY <1>6, InputFacts
  <2>2. net.side[n] = [s \in 1..2 |-> {}]
    BY <1>1, <1>6 DEF Indexed
  <2> QED
    BY <1>6, <2>1, <2>2
<1> QED
  BY <1>3, <1>4, <1>5, <1>6, InputFacts

(* Its derived relations. *)
LEMMA RelationsFollow ==
    ASSUME NEW ref, \A n \in Op : OnReference(n, ref)
    PROVE  RelationsAre(ref)
<1> SUFFICES ASSUME NEW n \in Outputs
             PROVE  IF Kind[n] = "distinct" THEN {e.t : e \in net.side[n][1]} = {e.t : e \in ref[n]}
                    ELSE net.rel[n] = ref[n]
  BY DEF RelationsAre
<1>1. n \in Op
  BY ProgramAssumption
<1>2. CASE Kind[n] # "distinct"
  BY <1>1, <1>2 DEF OnReference, Shows
<1>3. CASE Kind[n] = "distinct"
  <2> DEFINE S == net.side[n][1]
             E(e) == [t |-> e.t, d |-> Distinct(n, e.t)]
             G == Target(n, net.base, ref)
  <2>1. Indexed(n, net.side[n], net.acc[n], G) /\ ref[n] = Evaluate(n, G)
    BY <1>1, <1>3 DEF OnReference, Stands
  <2>2. S = G[1]
    BY <1>3, <2>1 DEF Indexed
  <2>3. Evaluate(n, G) = {E(e) : e \in G[1]}
    BY <1>3, EvaluateDistinct
  <2>4. \A e : E(e).t = e.t
    OBVIOUS
  <2> HIDE DEF S, G, E
  <2>5. ref[n] = {E(e) : e \in S}
    BY <2>1, <2>2, <2>3
  <2>6. {e.t : e \in S} = {e.t : e \in ref[n]}
    BY <2>4, <2>5
  <2> QED
    BY <1>3, <2>6 DEF S
<1> QED
  BY <1>2, <1>3

(* Its base rows: what the group operators and the unions did not refuse. *)
LEMMA LawFollows ==
    ASSUME NEW base, base = net.base, \A n \in Op : OnReference(n, Reference(base))
    PROVE  Lawful(base)
<1> DEFINE ref == Reference(base)
<1>0. \A n \in Op : OnReference(n, ref)
  OBVIOUS
<1> HIDE DEF ref
<1>1. ASSUME NEW n \in OpOf("group"), NEW e \in ref[n] PROVE e.t.n <= CollectLimit
  <2> DEFINE S == Target(n, base, ref)[1]
             C(k) == Cardinality(Members(n, k, S))
             E(k) == [t |-> GroupRow(k, C(k), RefAcc(n, Members(n, k, S))), d |-> Group(n, k)]
  <2>0. n \in Op /\ Kind[n] = "group"
    BY DEF OpOf
  <2>1. Indexed(n, net.side[n], net.acc[n], Target(n, base, ref)) /\ ref[n] = Evaluate(n, Target(n, base, ref))
    BY <1>0, <2>0 DEF OnReference, Stands
  <2>2. \A k : C(k) <= CollectLimit
    BY <2>0, <2>1 DEF Indexed, GroupIndexed
  <2>3. Evaluate(n, Target(n, base, ref)) = {E(k) : k \in Groups(n, S)}
    BY <2>0, EvaluateGroup
  <2>4. \A k : E(k).t.n = C(k)
    BY DEF GroupRow
  <2> HIDE DEF C, E, S
  <2> QED
    BY <2>1, <2>2, <2>3, <2>4
<1>2. ASSUME NEW n \in OpOf("union"), NEW k \in {e.d : e \in ref[n]}
      PROVE  Cardinality({e \in ref[Inputs[n][1]] : Group(n, KeyOf(n, 1, e.t)) = k})
             + Cardinality({e \in ref[Inputs[n][2]] : Group(n, KeyOf(n, 2, e.t)) = k}) = 1
  <2> DEFINE G == Target(n, base, ref)
             E(i, e) == [t |-> e.t, d |-> Group(n, KeyOf(n, i, e.t))]
  <2>0. n \in Op /\ Kind[n] = "union" /\ n \in TwoSided
    BY InputFacts DEF OpOf
  <2>1. IsFiniteSet(G[1]) /\ IsFiniteSet(G[2]) /\ (\A l : CountAt(n, G, l) <= 1) /\ ref[n] = Evaluate(n, G)
    BY <1>0, <2>0 DEF OnReference, Stands
  <2>2. G[1] = ref[Inputs[n][1]] /\ G[2] = ref[Inputs[n][2]]
    BY <2>0, TargetAt DEF Sides
  <2>3. Evaluate(n, G) = {E(1, e) : e \in G[1]} \cup {E(2, e) : e \in G[2]}
    BY <2>0, EvaluateUnion
  <2>4. \A i, e : E(i, e).d = Group(n, KeyOf(n, i, e.t))
    OBVIOUS
  <2> HIDE DEF G, E
  <2>5. PICK l : k = Group(n, l) /\ (Bucket(G[1], n, 1, l) # {} \/ Bucket(G[2], n, 2, l) # {})
    <3>1. PICK e \in ref[n] : k = e.d
      OBVIOUS
    <3>2. CASE \E f \in G[1] : e = E(1, f)
      <4>1. PICK f \in G[1] : e = E(1, f)
        BY <3>2
      <4>2. k = Group(n, KeyOf(n, 1, f.t)) /\ f \in Bucket(G[1], n, 1, KeyOf(n, 1, f.t))
        BY <2>4, <3>1, <4>1 DEF Bucket
      <4> QED
        BY <4>2
    <3>3. CASE \E f \in G[2] : e = E(2, f)
      <4>1. PICK f \in G[2] : e = E(2, f)
        BY <3>3
      <4>2. k = Group(n, KeyOf(n, 2, f.t)) /\ f \in Bucket(G[2], n, 2, KeyOf(n, 2, f.t))
        BY <2>4, <3>1, <4>1 DEF Bucket
      <4> QED
        BY <4>2
    <3> QED
      BY <2>1, <2>3, <3>2, <3>3
  <2>6. \A j : Group(n, j) = k <=> j = l
    BY <2>0, <2>5, KeyedFacts
  <2> DEFINE A == {e \in ref[Inputs[n][1]] : Group(n, KeyOf(n, 1, e.t)) = k}
             B == {e \in ref[Inputs[n][2]] : Group(n, KeyOf(n, 2, e.t)) = k}
  <2>7. A = Bucket(G[1], n, 1, l) /\ B = Bucket(G[2], n, 2, l)
    BY <2>2, <2>6 DEF Bucket
  <2>8. IsFiniteSet(A) /\ IsFiniteSet(B)
    <3>1. A \subseteq G[1] /\ B \subseteq G[2]
      BY <2>2
    <3> QED
      BY <2>1, <3>1, FS_Subset
  <2> HIDE DEF A, B
  <2>9. Cardinality(A) + Cardinality(B) <= 1
    BY <2>1, <2>7 DEF CountAt
  <2>10. Cardinality(A) \in Nat /\ Cardinality(B) \in Nat /\ (Cardinality(A) # 0 \/ Cardinality(B) # 0)
    BY <2>5, <2>7, <2>8, FS_CardinalityType, FS_EmptySet
  <2>11. Cardinality(A) + Cardinality(B) = 1
    BY <2>9, <2>10
  <2> QED
    BY <2>11 DEF A, B
<1> QED
  BY <1>1, <1>2 DEF Lawful, ref

(* Between batches every index and every derived relation is what the       *)
(* reference evaluator computes from the base rows, for every program,      *)
(* every sequence of batches, every order in which a bucket is read and     *)
(* every batch interrupted, refused or given up (apply_chunk, network.rs).  *)
THEOREM NetworkMaintainedCorrect == Spec => []NetworkMaintained
<1>1. MInv => NetworkMaintained
  <2> SUFFICES ASSUME MInv PROVE IndexesAre(Reference(net.base)) /\ RelationsAre(Reference(net.base))
    BY DEF NetworkMaintained
  <2>1. \A n \in Op : OnReference(n, Reference(net.base))
    BY AtReference
  <2> QED
    BY <2>1, IndexesFollow, RelationsFollow
<1> QED
  BY <1>1, Maintenance, PTL

(* The base rows of the published network are rows the reference accepts:   *)
(* no collect past its limit and one row per key of a disjoint union, so a  *)
(* batch that breaks either law was refused before it was published.       *)
THEOREM AcceptedIsLawfulCorrect == Spec => []AcceptedIsLawful
<1>1. MInv => AcceptedIsLawful
  <2> SUFFICES ASSUME MInv PROVE Lawful(net.base)
    BY DEF AcceptedIsLawful
  <2>1. \A n \in Op : OnReference(n, Reference(net.base))
    BY AtReference
  <2> QED
    BY <2>1, LawFollows
<1> QED
  BY <1>1, Maintenance, PTL
=============================================================================
