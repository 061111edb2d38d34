----------------------- MODULE DecisionCascadeProofs -----------------------
(***************************************************************************)
(* Proofs about DecisionCascade, for every number of strata, every set of   *)
(* entities, base relations and keys, every program (Source, Proposal,      *)
(* Guard, ValueOf) and every chunking of every batch: between batches       *)
(* candidates and settlements are those of the reference evaluator, what a  *)
(* batch commits does not depend on its chunks, and its decision delta      *)
(* names every change.                                                     *)
(***************************************************************************)
EXTENDS DecisionCascade, SequenceTheorems, FiniteSetTheorems, NaturalsInduction,
        WellFoundedInduction, TLAPS

-----------------------------------------------------------------------------
(* Numbers. *)

(* A set of naturals that is not empty has a least one. *)
LEMMA LeastNumber ==
    ASSUME NEW T, T \subseteq Nat, T # {}
    PROVE  \E x \in T : \A y \in T : x <= y
<1> DEFINE R == OpToRel(<, Nat)
<1>1. PICK x \in T : \A y \in T : ~(<<y, x>> \in R)
  <2>1. IsWellFoundedOn(R, Nat)
    BY NatLessThanWellFounded, Zenon
  <2> HIDE DEF R
  <2> QED
    BY <2>1, WFMin, Zenon
<1>2. \A y \in T : ~(y < x)
  <2>1. \A y \in T : <<y, x>> \in Nat \X Nat /\ <<y, x>>[1] = y /\ <<y, x>>[2] = x
    OBVIOUS
  <2> QED
    BY <2>1, <1>1, Zenon DEF OpToRel
<1> QED
  BY <1>2

(* Induction, for a set of naturals. *)
LEMMA NumberInduction ==
    ASSUME NEW S, 0 \in S, \A n \in Nat : n \in S => n + 1 \in S
    PROVE  \A n \in Nat : n \in S
<1> SUFFICES ASSUME Nat \ S # {} PROVE FALSE
  OBVIOUS
<1>1. PICK x \in Nat \ S : \A y \in Nat \ S : x <= y
  BY LeastNumber
<1>2. x - 1 \in Nat /\ x - 1 \in S
  BY <1>1
<1> QED
  BY <1>1, <1>2

-----------------------------------------------------------------------------
(* Candidates and settlements. *)

Choice(d) == [p : Proposal(d), v : Value(d)]

(* Supports of a decide block's own proposals and values. *)
Sound(d, S) == \A s \in S : s.e \in Entity /\ s.p \in Proposal(d) /\ s.v \in Value(d)

(* An entity's part of a set of supports or of rows. *)
Of(S, e) == {s \in S : s.e = e}

(* A settlement is one of the block's choices: among the candidates with    *)
(* the least priority, one has the least digest and precedes all others.    *)
LEMMA SettleTyped ==
    ASSUME NEW d \in Decide, NEW e \in Entity, NEW S, Sound(d, S)
    PROVE  Settle(d, e, S) \in Choice(d) \cup {None}
<1> DEFINE live == {[p |-> s.p, v |-> s.v] : s \in {s \in S : s.e = e}}
<1>1. live \subseteq Choice(d)
  BY DEF Sound, Choice
<1>2. CASE live = {}
  BY <1>2 DEF Settle
<1>3. CASE live # {}
  <2> DEFINE pri == {Priority(d, c.p) : c \in live}
  <2>1. pri \subseteq Nat /\ pri # {}
    BY <1>1, <1>3, TieAssumption DEF Choice
  <2>2. PICK b0 \in live : \A c \in live : Priority(d, b0.p) <= Priority(d, c.p)
    <3> HIDE DEF live
    <3>1. PICK x \in pri : \A y \in pri : x <= y
      BY <2>1, LeastNumber
    <3> QED BY <3>1
  <2> DEFINE low == {c \in live : Priority(d, c.p) = Priority(d, b0.p)}
             tie == {Tie(d, e, c.p, c.v) : c \in low}
  <2>3. tie \subseteq Nat /\ tie # {}
    <3> HIDE DEF live
    <3>1. \A c \in low : c.p \in Proposal(d) /\ c.v \in Value(d)
      BY <1>1 DEF Choice
    <3> QED BY <3>1, <2>2, TieAssumption
  <2>4. PICK b \in low : \A c \in low : Tie(d, e, b.p, b.v) <= Tie(d, e, c.p, c.v)
    <3> HIDE DEF low
    <3>1. PICK x \in tie : \A y \in tie : x <= y
      BY <2>3, LeastNumber
    <3> QED BY <3>1
  <2>5. ASSUME NEW c \in live \ {b} PROVE Before(d, e, b, c)
    <3> HIDE DEF live
    <3>1. /\ b \in Choice(d) /\ c \in Choice(d) /\ c # b
          /\ Priority(d, b.p) = Priority(d, b0.p) /\ Priority(d, b0.p) <= Priority(d, c.p)
      BY <1>1, <2>2, <2>4, <2>5
    <3>2. /\ b.p \in Proposal(d) /\ b.v \in Value(d) /\ c.p \in Proposal(d) /\ c.v \in Value(d)
          /\ ~(b.p = c.p /\ b.v = c.v)
      BY <3>1 DEF Choice
    <3>3. /\ Priority(d, b.p) \in Nat /\ Priority(d, c.p) \in Nat
          /\ Tie(d, e, b.p, b.v) \in Nat /\ Tie(d, e, c.p, c.v) \in Nat
          /\ ~(Priority(d, b.p) = Priority(d, c.p) /\ Tie(d, e, b.p, b.v) = Tie(d, e, c.p, c.v))
      BY <3>2, TieAssumption
    <3>4. CASE Priority(d, c.p) = Priority(d, b.p)
      <4>1. Tie(d, e, b.p, b.v) <= Tie(d, e, c.p, c.v)
        BY <3>1, <3>4, <2>4, <2>5
      <4> QED BY <4>1, <3>3, <3>4 DEF Before
    <3> QED BY <3>1, <3>3, <3>4 DEF Before
  <2>6. \E c \in live : \A a \in live \ {c} : Before(d, e, c, a)
    <3> HIDE DEF live
    <3> QED BY <2>4, <2>5
  <2>7. Settle(d, e, S) = CHOOSE c \in live : \A a \in live \ {c} : Before(d, e, c, a)
    BY <1>3 DEF Settle
  <2>8. Settle(d, e, S) \in live
    <3> HIDE DEF live
    <3> QED BY <2>6, <2>7
  <2> QED BY <2>8, <1>1
<1> QED BY <1>2, <1>3

(* Only an entity's own supports matter to its settlement. *)
LEMMA SettleLocal ==
    ASSUME NEW d, NEW e, NEW S, NEW T, Of(S, e) = Of(T, e)
    PROVE  Settle(d, e, S) = Settle(d, e, T)
<1> DEFINE live(U) == {[p |-> s.p, v |-> s.v] : s \in Of(U, e)}
           least(L) == IF L = {} THEN None ELSE CHOOSE c \in L : \A b \in L \ {c} : Before(d, e, c, b)
<1>1. live(S) = live(T)
  OBVIOUS
<1>2. Settle(d, e, S) = least(live(S)) /\ Settle(d, e, T) = least(live(T))
  BY Zenon DEF Settle, Of
<1> HIDE DEF live, least
<1> QED BY <1>1, <1>2

(* The supports of rows. *)
LEMMA ProposedFacts ==
    ASSUME NEW d, NEW rows, NEW s
    PROVE  s \in Proposed(d, rows) <=>
             \E x \in rows : \E p \in Proposal(d) :
                Guard(d, p, x.t) /\ s = [e |-> x.e, p |-> p, v |-> ValueOf(d, p, x.t), id |-> x.id]
  BY DEF Proposed
-----------------------------------------------------------------------------
(* The network a state of the relations calls for. *)

WinOK(win) == win \subseteq WinnerRows /\ OnePerDecision(win)

(* A network that is what the reference evaluator computes from the base    *)
(* rows and the winner rows it holds.                                      *)
Standing(base, win, rec) ==
    [base |-> base, win |-> win, rec |-> rec,
     cand |-> [d \in Decide |-> RefSupports(base, win, d)],
     tree |-> RefTree(base, win)]

NetOK(n) ==
    /\ n = Standing(n.base, n.win, n.rec)
    /\ n.base \in Bases /\ WinOK(n.win) /\ n.rec \subseteq n.win

TreeOK(tree) ==
    /\ tree = [d \in Decide |-> [e \in Entity |-> tree[d][e]]]
    /\ \A d \in Decide, e \in Entity : tree[d][e] \in Choice(d) \cup {None}

LEMMA StandingFields ==
    ASSUME NEW base, NEW win, NEW rec
    PROVE  LET n == Standing(base, win, rec)
           IN  /\ n.base = base /\ n.win = win /\ n.rec = rec
               /\ n.cand = [d \in Decide |-> RefSupports(base, win, d)]
               /\ n.tree = RefTree(base, win)
               /\ \A d : Reads(n, d) = Source(d, base, Below(win, d))
  BY DEF Standing, Reads

LEMMA NetFields ==
    ASSUME NEW n, NetOK(n)
    PROVE  /\ n.cand = [d \in Decide |-> RefSupports(n.base, n.win, d)]
           /\ \A d \in Decide : n.cand[d] = RefSupports(n.base, n.win, d)
           /\ n.tree = RefTree(n.base, n.win)
           /\ n.base \in Bases /\ WinOK(n.win) /\ n.rec \subseteq n.win
<1> DEFINE base == n.base
           win == n.win
           rec == n.rec
<1>1. n = Standing(base, win, rec)
  BY DEF NetOK
<1> HIDE DEF base, win, rec
<1>2. /\ n.cand = [d \in Decide |-> RefSupports(base, win, d)]
      /\ n.tree = RefTree(base, win)
  BY <1>1, StandingFields
<1>3. \A d \in Decide : n.cand[d] = RefSupports(base, win, d)
  BY <1>2
<1>4. base \in Bases /\ WinOK(win) /\ rec \subseteq win
  BY DEF NetOK, base, win, rec
<1> QED BY <1>2, <1>3, <1>4 DEF base, win, rec

LEMMA RefTreeAt ==
    ASSUME NEW base, NEW win
    PROVE  /\ RefTree(base, win) = [d \in Decide |-> [e \in Entity |-> RefTree(base, win)[d][e]]]
           /\ \A d \in Decide, e \in Entity :
                 RefTree(base, win)[d][e] = Settle(d, e, RefSupports(base, win, d))
  BY DEF RefTree

(* What the relations compute, from rows of the world and winner rows. *)
LEMMA SourceFacts ==
    ASSUME NEW d \in Decide, NEW base \in Bases, NEW win, WinOK(win)
    PROVE  LET rows == Source(d, base, Below(win, d))
           IN  /\ \A x \in rows :
                    /\ x.e \in Entity
                    /\ \A p \in Proposal(d) : Guard(d, p, x.t) => ValueOf(d, p, x.t) \in Value(d)
               /\ \A x, y \in rows : x.e = y.e /\ x.id = y.id => x = y
<1>1. Below(win, d) \in SUBSET Below(WinnerRows, d)
  BY DEF WinOK, Below
<1>2. OnePerDecision(Below(win, d))
  BY DEF WinOK, Below, OnePerDecision
<1> QED BY <1>1, <1>2, SourceAssumption

LEMMA RefSupportsSound ==
    ASSUME NEW d \in Decide, NEW base \in Bases, NEW win, WinOK(win)
    PROVE  Sound(d, RefSupports(base, win, d))
<1> DEFINE rows == Source(d, base, Below(win, d))
<1>1. /\ RefSupports(base, win, d) = Proposed(d, rows)
      /\ \A x \in rows :
                    /\ x.e \in Entity
                    /\ \A p \in Proposal(d) : Guard(d, p, x.t) => ValueOf(d, p, x.t) \in Value(d)
  BY SourceFacts DEF RefSupports
<1> HIDE DEF rows
<1>2. ASSUME NEW s \in Proposed(d, rows) PROVE s.e \in Entity /\ s.p \in Proposal(d) /\ s.v \in Value(d)
  BY <1>1, <1>2, ProposedFacts
<1> QED BY <1>1, <1>2 DEF Sound

LEMMA RefTreeTyped ==
    ASSUME NEW base \in Bases, NEW win, WinOK(win)
    PROVE  TreeOK(RefTree(base, win))
  BY RefTreeAt, RefSupportsSound, SettleTyped DEF TreeOK
(* The frontier work of a block leaves the supports of the rows it now      *)
(* reads: what a retraction removes by derivation belonged to the row that  *)
(* went, because a derivation has one row.                                 *)
LEMMA SupportsExact ==
    ASSUME NEW n, NetOK(n), NEW m, NEW d \in Decide
    PROVE  Supports(n, m, d) = Proposed(d, Reads(m, d))
<1> DEFINE old == Reads(n, d)
           new == Reads(m, d)
           gone == {[e |-> x.e, id |-> x.id] : x \in old \ new}
<1>1. /\ n.cand[d] = Proposed(d, old)
      /\ \A x, y \in old : x.e = y.e /\ x.id = y.id => x = y
  <2>1. /\ old = Source(d, n.base, Below(n.win, d))
        /\ n.cand[d] = RefSupports(n.base, n.win, d)
    BY NetFields DEF Reads
  <2> QED BY <2>1, SourceFacts DEF NetOK, RefSupports
<1>2. Supports(n, m, d) = {s \in n.cand[d] : [e |-> s.e, id |-> s.id] \notin gone} \cup Proposed(d, new \ old)
  BY DEF Supports
<1> HIDE DEF old, new
<1>3. ASSUME NEW s, s \in n.cand[d], [e |-> s.e, id |-> s.id] \notin gone PROVE s \in Proposed(d, new)
  <2>1. PICK x \in old : \E p \in Proposal(d) :
           Guard(d, p, x.t) /\ s = [e |-> x.e, p |-> p, v |-> ValueOf(d, p, x.t), id |-> x.id]
    BY <1>1, <1>3, ProposedFacts
  <2>2. x \in new
    BY <1>3, <2>1
  <2> QED BY <2>1, <2>2, ProposedFacts
<1>4. ASSUME NEW s, s \in Proposed(d, new \ old) PROVE s \in Proposed(d, new)
  BY <1>4, ProposedFacts
<1>5. ASSUME NEW s, s \in Proposed(d, new), s \notin Proposed(d, new \ old)
      PROVE  s \in n.cand[d] /\ [e |-> s.e, id |-> s.id] \notin gone
  <2>1. PICK x \in new : \E p \in Proposal(d) :
           Guard(d, p, x.t) /\ s = [e |-> x.e, p |-> p, v |-> ValueOf(d, p, x.t), id |-> x.id]
    BY <1>5, ProposedFacts
  <2>2. x \in old
    BY <1>5, <2>1, ProposedFacts
  <2>3. s \in Proposed(d, old)
    BY <2>1, <2>2, ProposedFacts
  <2>4. ASSUME NEW y \in old \ new, [e |-> s.e, id |-> s.id] = [e |-> y.e, id |-> y.id] PROVE FALSE
    <3>1. s.e = x.e /\ s.id = x.id
      <4>1. PICK p \in Proposal(d) : s = [e |-> x.e, p |-> p, v |-> ValueOf(d, p, x.t), id |-> x.id]
        BY <2>1
      <4> QED BY <4>1
    <3>2. x.e = y.e /\ x.id = y.id
      BY <3>1, <2>4
    <3>3. x = y
      BY <1>1, <2>2, <3>2
    <3> QED BY <2>1, <3>3
  <2> QED BY <1>1, <2>3, <2>4
<1> DEFINE kept == {s \in n.cand[d] : [e |-> s.e, id |-> s.id] \notin gone}
<1>6. \A s : s \in kept <=> s \in n.cand[d] /\ [e |-> s.e, id |-> s.id] \notin gone
  <2> HIDE DEF gone
  <2> QED OBVIOUS
<1>7. Supports(n, m, d) = kept \cup Proposed(d, new \ old)
  BY <1>2
<1> HIDE DEF gone, kept
<1>8. \A s : s \in kept \cup Proposed(d, new \ old) <=> s \in Proposed(d, new)
  BY <1>3, <1>4, <1>5, <1>6
<1>9. Supports(n, m, d) = Proposed(d, new)
  BY <1>7, <1>8
<1> QED BY <1>9 DEF new

(* An entity whose rows neither came nor went keeps its supports. *)
LEMMA UntouchedSupports ==
    ASSUME NEW n, NEW m, NEW d \in Decide, NEW e, <<d, e>> \notin Touched(n, m)
    PROVE  Of(Proposed(d, Reads(n, d)), e) = Of(Proposed(d, Reads(m, d)), e)
<1> DEFINE old == Reads(n, d)
           new == Reads(m, d)
<1>1. \A x : x.e = e => (x \in old <=> x \in new)
  <2> SUFFICES ASSUME NEW x, x.e = e, x \in (old \ new) \cup (new \ old) PROVE FALSE
    OBVIOUS
  <2>1. <<d, x.e>> \in Touched(n, m)
    BY DEF Touched
  <2> QED BY <2>1
<1> HIDE DEF old, new
<1>2. ASSUME NEW s, NEW A, NEW B, \A x : x.e = e => (x \in A <=> x \in B), s \in Proposed(d, A), s.e = e
      PROVE  s \in Proposed(d, B)
  BY <1>2, ProposedFacts
<1>3. \A s : s.e = e => (s \in Proposed(d, old) <=> s \in Proposed(d, new))
  BY <1>1, <1>2
<1> QED BY <1>3 DEF Of, old, new

(* The same network with other base or winner rows, before its operators    *)
(* have done their work.                                                   *)
Moved(n, m) ==
    /\ m = [base |-> m.base, win |-> m.win, rec |-> m.rec, cand |-> n.cand, tree |-> n.tree]
    /\ m.base \in Bases /\ WinOK(m.win) /\ m.rec \subseteq m.win

LEMMA MovedFields ==
    ASSUME NEW n, NEW m, Moved(n, m)
    PROVE  m.cand = n.cand /\ m.tree = n.tree
<1> DEFINE b == m.base
           w == m.win
           r == m.rec
<1>1. m = [base |-> b, win |-> w, rec |-> r, cand |-> n.cand, tree |-> n.tree]
  BY DEF Moved
<1> HIDE DEF b, w, r
<1> QED BY <1>1

LEMMA StandingOK ==
    ASSUME NEW base \in Bases, NEW win, WinOK(win), NEW rec, rec \subseteq win
    PROVE  NetOK(Standing(base, win, rec))
<1> DEFINE n == Standing(base, win, rec)
<1>1. n.base = base /\ n.win = win /\ n.rec = rec
  BY DEF Standing
<1>2. n = Standing(base, win, rec)
  OBVIOUS
<1> HIDE DEF n
<1>3. NetOK(n)
  BY <1>1, <1>2 DEF NetOK
<1> QED BY <1>3 DEF n

(* A chunk that is not refused ends in the network its rows call for, and   *)
(* touched every entity whose settlement it changed.                       *)
LEMMA SettledStands ==
    ASSUME NEW n, NetOK(n), NEW m, Moved(n, m)
    PROVE  /\ Settled(n, m) = Standing(m.base, m.win, m.rec)
           /\ NetOK(Settled(n, m))
           /\ \A d \in Decide, e \in Entity :
                 <<d, e>> \notin Touched(n, m) => RefTree(m.base, m.win)[d][e] = n.tree[d][e]
<1> DEFINE c == [d \in Decide |-> Supports(n, m, d)]
           ref == RefTree(m.base, m.win)
           t == [d \in Decide |-> [e \in Entity |->
                    IF <<d, e>> \in Touched(n, m) THEN Settle(d, e, c[d]) ELSE n.tree[d][e]]]
<1>1. c = [d \in Decide |-> RefSupports(m.base, m.win, d)]
  BY SupportsExact DEF RefSupports, Reads
<1>2. n.tree = RefTree(n.base, n.win)
  BY NetFields
<1>3. ASSUME NEW d \in Decide, NEW e \in Entity, <<d, e>> \notin Touched(n, m)
      PROVE  ref[d][e] = n.tree[d][e]
  <2>1. Of(RefSupports(n.base, n.win, d), e) = Of(RefSupports(m.base, m.win, d), e)
    BY <1>3, UntouchedSupports DEF RefSupports, Reads
  <2> QED BY <1>2, <2>1, SettleLocal, RefTreeAt
<1>4. ASSUME NEW d \in Decide, NEW e \in Entity PROVE t[d][e] = ref[d][e]
  <2>1. c[d] = RefSupports(m.base, m.win, d)
    BY <1>1
  <2> HIDE DEF c
  <2> QED BY <2>1, <1>3, RefTreeAt
<1>5. t = ref
  <2>1. t = [d \in Decide |-> [e \in Entity |-> t[d][e]]]
    OBVIOUS
  <2> HIDE DEF t
  <2>2. t = [d \in Decide |-> [e \in Entity |-> ref[d][e]]]
    BY <2>1, <1>4
  <2> QED BY <2>2, RefTreeAt
<1>6. Settled(n, m) = [base |-> m.base, win |-> m.win, rec |-> m.rec, cand |-> c, tree |-> t]
  <2>1. m.tree = n.tree
    BY MovedFields
  <2>2. Settled(n, m) = [m EXCEPT !.cand = c, !.tree = t]
    BY <2>1 DEF Settled
  <2> DEFINE b == m.base
             w == m.win
             r == m.rec
  <2>3. m = [base |-> b, win |-> w, rec |-> r, cand |-> n.cand, tree |-> n.tree]
    BY DEF Moved
  <2> HIDE DEF b, w, r, c, t
  <2> QED BY <2>2, <2>3 DEF b, w, r
<1>7. Settled(n, m) = Standing(m.base, m.win, m.rec)
  <2> HIDE DEF c, t, ref
  <2> QED BY <1>1, <1>5, <1>6 DEF Standing, ref
<1>8. NetOK(Settled(n, m))
  BY <1>7, StandingOK DEF Moved
<1> QED BY <1>3, <1>7, <1>8
-----------------------------------------------------------------------------
(* What a batch or a stage tracks, seeds and publishes. *)

(* The tracked decisions are known by what they were, and a decision that   *)
(* changed is tracked.                                                     *)
Tracks(t, old, new) ==
    /\ \A x \in t : x.d \in Decide /\ x.e \in Entity /\ x.was = old[x.d][x.e]
    /\ \A d \in Decide, e \in Entity :
          old[d][e] # new[d][e] => \E x \in t : x.d = d /\ x.e = e

Diff(old, new) ==
    {[d |-> x[1], e |-> x[2], now |-> new[x[1]][x[2]]] :
        x \in {x \in Decide \X Entity : old[x[1]][x[2]] # new[x[1]][x[2]]}}

LEMMA DiffFacts ==
    ASSUME NEW old, NEW new
    PROVE  /\ \A x : x \in Diff(old, new) <=>
                \E d \in Decide, e \in Entity :
                   old[d][e] # new[d][e] /\ x = [d |-> d, e |-> e, now |-> new[d][e]]
           /\ \A d \in Decide, e \in Entity :
                 [d |-> d, e |-> e] \in Names(Diff(old, new)) <=> old[d][e] # new[d][e]
           /\ \A x \in Names(Diff(old, new)) :
                 x.d \in Decide /\ x.e \in Entity /\ x = [d |-> x.d, e |-> x.e]
<1>1. ASSUME NEW x, x \in Diff(old, new)
      PROVE  \E d \in Decide, e \in Entity :
                old[d][e] # new[d][e] /\ x = [d |-> d, e |-> e, now |-> new[d][e]]
  BY <1>1 DEF Diff
<1>2. ASSUME NEW d \in Decide, NEW e \in Entity, old[d][e] # new[d][e]
      PROVE  [d |-> d, e |-> e, now |-> new[d][e]] \in Diff(old, new)
  <2>1. <<d, e>> \in {x \in Decide \X Entity : old[x[1]][x[2]] # new[x[1]][x[2]]}
    BY <1>2
  <2> QED BY <2>1 DEF Diff
<1>3. \A x : x \in Diff(old, new) <=>
                \E d \in Decide, e \in Entity :
                   old[d][e] # new[d][e] /\ x = [d |-> d, e |-> e, now |-> new[d][e]]
  BY <1>1, <1>2
<1>4. ASSUME NEW x \in Names(Diff(old, new))
      PROVE  \E d \in Decide, e \in Entity : old[d][e] # new[d][e] /\ x = [d |-> d, e |-> e]
  <2>1. PICK y \in Diff(old, new) : x = [d |-> y.d, e |-> y.e]
    BY DEF Names
  <2>2. PICK d \in Decide, e \in Entity :
           old[d][e] # new[d][e] /\ y = [d |-> d, e |-> e, now |-> new[d][e]]
    BY <1>1
  <2>3. y.d = d /\ y.e = e
    BY <2>2
  <2> QED BY <2>1, <2>2, <2>3
<1>5. ASSUME NEW d \in Decide, NEW e \in Entity, old[d][e] # new[d][e]
      PROVE  [d |-> d, e |-> e] \in Names(Diff(old, new))
  <2> DEFINE y == [d |-> d, e |-> e, now |-> new[d][e]]
  <2>1. y \in Diff(old, new) /\ y.d = d /\ y.e = e
    BY <1>2, <1>5
  <2> HIDE DEF y
  <2> QED BY <2>1 DEF Names
<1>6. ASSUME NEW d \in Decide, NEW e \in Entity, [d |-> d, e |-> e] \in Names(Diff(old, new))
      PROVE  old[d][e] # new[d][e]
  <2>1. PICK a \in Decide, b \in Entity : old[a][b] # new[a][b] /\ [d |-> d, e |-> e] = [d |-> a, e |-> b]
    BY <1>4, <1>6
  <2>2. a = d /\ b = e
    BY <2>1
  <2> QED BY <2>1, <2>2
<1>7. ASSUME NEW x \in Names(Diff(old, new))
      PROVE  x.d \in Decide /\ x.e \in Entity /\ x = [d |-> x.d, e |-> x.e]
  BY <1>4
<1> QED BY <1>3, <1>5, <1>6, <1>7

LEMMA ChangesExact ==
    ASSUME NEW n, NEW t, NEW old, Tracks(t, old, n.tree)
    PROVE  Changes(n, t) = Diff(old, n.tree)
<1> DEFINE new == n.tree
<1>1. ASSUME NEW y, y \in Changes(n, t) PROVE y \in Diff(old, new)
  <2>1. PICK x \in t : x.was # new[x.d][x.e] /\ y = [d |-> x.d, e |-> x.e, now |-> new[x.d][x.e]]
    BY <1>1 DEF Changes
  <2>2. x.d \in Decide /\ x.e \in Entity /\ x.was = old[x.d][x.e]
    BY DEF Tracks
  <2> HIDE DEF new
  <2> QED BY <2>1, <2>2, DiffFacts
<1>2. ASSUME NEW y, y \in Diff(old, new) PROVE y \in Changes(n, t)
  <2>1. PICK d \in Decide, e \in Entity :
           old[d][e] # new[d][e] /\ y = [d |-> d, e |-> e, now |-> new[d][e]]
    BY <1>2, DiffFacts
  <2>2. PICK x \in t : x.d = d /\ x.e = e
    BY <2>1 DEF Tracks
  <2>3. x.was # new[x.d][x.e]
    BY <2>1, <2>2 DEF Tracks
  <2> QED BY <2>1, <2>2, <2>3 DEF Changes
<1> QED BY <1>1, <1>2

(* Tracking goes on over a chunk: what it touches first, it finds as it was. *)
LEMMA TrackGrows ==
    ASSUME NEW n, NetOK(n), NEW m, Moved(n, m), NEW t, NEW old, Tracks(t, old, n.tree)
    PROVE  Tracks(Track(t, n, m), old, Settled(n, m).tree)
<1> DEFINE u == Track(t, n, m)
           new == Settled(n, m).tree
           known == {<<x.d, x.e>> : x \in t}
<1>1. \A x \in Touched(n, m) : x = <<x[1], x[2]>> /\ x[1] \in Decide
  BY DEF Touched
<1>2. \A x \in Touched(n, m) : x[2] \in Entity
  <2>1. ASSUME NEW d \in Decide, NEW x \in Reads(n, d) \cup Reads(m, d) PROVE x.e \in Entity
    BY SourceFacts DEF Reads, NetOK, Moved
  <2>2. ASSUME NEW y \in Touched(n, m) PROVE \E d \in Decide : \E x \in Reads(n, d) \cup Reads(m, d) : y = <<d, x.e>>
    BY DEF Touched
  <2> QED BY <2>1, <2>2
<1>3. \A x : x \in u <=> \/ x \in t
                         \/ \E y \in Touched(n, m) \ known : x = [d |-> y[1], e |-> y[2], was |-> n.tree[y[1]][y[2]]]
  BY DEF Track
<1>4. \A d \in Decide, e \in Entity : <<d, e>> \notin Touched(n, m) => new[d][e] = n.tree[d][e]
  <2>1. new = RefTree(m.base, m.win)
    <3>1. Settled(n, m) = Standing(m.base, m.win, m.rec)
      BY SettledStands
    <3>2. Standing(m.base, m.win, m.rec).tree = RefTree(m.base, m.win)
      BY DEF Standing
    <3> QED BY <3>1, <3>2
  <2> HIDE DEF new
  <2> QED BY <2>1, SettledStands
<1> HIDE DEF u, new
<1>5. ASSUME NEW x \in u PROVE x.d \in Decide /\ x.e \in Entity /\ x.was = old[x.d][x.e]
  <2>1. CASE x \in t
    BY <2>1 DEF Tracks
  <2>2. CASE x \notin t
    <3>1. PICK y \in Touched(n, m) \ known : x = [d |-> y[1], e |-> y[2], was |-> n.tree[y[1]][y[2]]]
      BY <2>2, <1>3
    <3>2. y[1] \in Decide /\ y[2] \in Entity /\ x.d = y[1] /\ x.e = y[2] /\ x.was = n.tree[y[1]][y[2]]
      BY <3>1, <1>1, <1>2
    <3>3. ~\E z \in t : z.d = y[1] /\ z.e = y[2]
      BY <3>1, <1>1
    <3> QED BY <3>2, <3>3 DEF Tracks
  <2> QED BY <2>1, <2>2
<1>6. ASSUME NEW d \in Decide, NEW e \in Entity, old[d][e] # new[d][e]
      PROVE  \E x \in u : x.d = d /\ x.e = e
  <2>1. CASE <<d, e>> \in known
    <3>1. PICK x \in t : x.d = d /\ x.e = e
      BY <2>1
    <3> QED BY <3>1, <1>3
  <2>2. CASE <<d, e>> \in Touched(n, m) \ known
    <3> DEFINE x == [d |-> d, e |-> e, was |-> n.tree[d][e]]
    <3>1. x \in u /\ x.d = d /\ x.e = e
      BY <2>2, <1>3
    <3> QED BY <3>1
  <2>3. CASE <<d, e>> \notin Touched(n, m) /\ <<d, e>> \notin known
    <3>1. old[d][e] # n.tree[d][e]
      BY <2>3, <1>4, <1>6
    <3>2. PICK x \in t : x.d = d /\ x.e = e
      BY <3>1 DEF Tracks
    <3> QED BY <2>3, <3>2
  <2> QED BY <2>1, <2>2, <2>3
<1>7. Tracks(u, old, new)
  BY <1>5, <1>6 DEF Tracks
<1> QED BY <1>7 DEF u, new
(* The winner rows of a tree. *)
LEMMA WinnersFacts ==
    ASSUME NEW tree, TreeOK(tree)
    PROVE  /\ \A w : w \in Winners(tree) <=>
                \E d \in Decide, e \in Entity : tree[d][e] # None /\ w = WinnerRow(d, e, tree[d][e])
           /\ WinOK(Winners(tree))
           /\ \A d \in Decide, e \in Entity : \A w \in Winners(tree) :
                 w.d = d /\ w.e = e => tree[d][e] # None /\ w = WinnerRow(d, e, tree[d][e])
<1>1. ASSUME NEW w, w \in Winners(tree)
      PROVE  \E d \in Decide, e \in Entity : tree[d][e] # None /\ w = WinnerRow(d, e, tree[d][e])
  BY <1>1 DEF Winners
<1>2. ASSUME NEW d \in Decide, NEW e \in Entity, tree[d][e] # None
      PROVE  WinnerRow(d, e, tree[d][e]) \in Winners(tree)
  <2>1. <<d, e>> \in {x \in Decide \X Entity : tree[x[1]][x[2]] # None}
    BY <1>2
  <2> QED BY <2>1 DEF Winners
<1>3. ASSUME NEW d \in Decide, NEW e \in Entity, tree[d][e] # None
      PROVE  WinnerRow(d, e, tree[d][e]) \in WinnerRows
  <2> DEFINE c == tree[d][e]
  <2>1. c \in Choice(d)
    BY <1>3 DEF TreeOK
  <2> HIDE DEF c
  <2>2. WinnerRow(d, e, c) \in [d : {d}, e : Entity, p : Proposal(d), v : Value(d)]
    BY <2>1 DEF Choice, WinnerRow
  <2> QED BY <2>2 DEF WinnerRows, c
<1>4. \A d, e, s : WinnerRow(d, e, s).d = d /\ WinnerRow(d, e, s).e = e
  BY DEF WinnerRow
<1>5. ASSUME NEW d \in Decide, NEW e \in Entity, NEW w \in Winners(tree), w.d = d, w.e = e
      PROVE  tree[d][e] # None /\ w = WinnerRow(d, e, tree[d][e])
  <2>1. PICK a \in Decide, b \in Entity : tree[a][b] # None /\ w = WinnerRow(a, b, tree[a][b])
    BY <1>1
  <2>2. a = d /\ b = e
    BY <2>1, <1>4, <1>5
  <2> QED BY <2>1, <2>2
<1>6. Winners(tree) \subseteq WinnerRows
  BY <1>1, <1>3
<1>7. OnePerDecision(Winners(tree))
  <2>1. \A w \in Winners(tree) : w.d \in Decide /\ w.e \in Entity
    BY <1>1, <1>4
  <2>2. ASSUME NEW w \in Winners(tree), NEW u \in Winners(tree), w.d = u.d, w.e = u.e PROVE w = u
    BY <2>1, <2>2, <1>5
  <2> QED BY <2>2 DEF OnePerDecision
<1> QED BY <1>1, <1>2, <1>5, <1>6, <1>7 DEF WinOK

LEMMA TreeTyped ==
    ASSUME NEW n, NetOK(n)
    PROVE  TreeOK(n.tree)
<1>1. n.base \in Bases /\ WinOK(n.win) /\ n.tree = RefTree(n.base, n.win)
  BY NetFields
<1> QED BY <1>1, RefTreeTyped

(* Between two publications: winner rows of decisions to publish are those  *)
(* on record, and every other decision's row is its settlement's.          *)
Publishing(c, D) ==
    /\ NetOK(c)
    /\ \A x \in D : x.d \in Decide /\ x.e \in Entity /\ x = [d |-> x.d, e |-> x.e]
    /\ \A w \in c.win : IF [d |-> w.d, e |-> w.e] \in D THEN w \in c.rec ELSE w \in Winners(c.tree)
    /\ \A w \in Winners(c.tree) : [d |-> w.d, e |-> w.e] \notin D => w \in c.win

(* Seeding makes the old winner rows of the changed decisions retractable. *)
LEMMA SeedPublishes ==
    ASSUME NEW n, NetOK(n), NEW t, NEW old, TreeOK(old), Tracks(t, old, n.tree), n.win = Winners(old)
    PROVE  /\ Publishing(Seed(n, t), Names(Diff(old, n.tree)))
           /\ Seed(n, t) = Standing(n.base, n.win, Seed(n, t).rec)
<1> DEFINE lacking == {x \in t : x.was # None /\ ~\E w \in n.rec : w.d = x.d /\ w.e = x.e}
           put == {WinnerRow(x.d, x.e, x.was) : x \in lacking}
           r == n.rec \cup put
           D == Names(Diff(old, n.tree))
           c == Seed(n, t)
<1>1. c = Standing(n.base, n.win, r)
  <2>1. c = [n EXCEPT !.rec = n.rec \cup put]
    BY DEF Seed
  <2> DEFINE b == n.base
             w == n.win
             k == n.rec
  <2>2. n = Standing(b, w, k)
    BY DEF NetOK
  <2> HIDE DEF b, w, k, put, c
  <2>3. [Standing(b, w, k) EXCEPT !.rec = k \cup put] = Standing(b, w, k \cup put)
    <3> DEFINE supports == [d \in Decide |-> RefSupports(b, w, d)]
    <3>1. \A any : Standing(b, w, any) =
             [base |-> b, win |-> w, rec |-> any, cand |-> supports, tree |-> RefTree(b, w)]
      BY DEF Standing
    <3> HIDE DEF supports
    <3> QED BY <3>1
  <2> QED BY <2>1, <2>2, <2>3 DEF b, w, k
<1>2. put \subseteq n.win
  <2> SUFFICES ASSUME NEW x \in lacking PROVE WinnerRow(x.d, x.e, x.was) \in n.win
    OBVIOUS
  <2>1. x \in t /\ x.was # None
    OBVIOUS
  <2>2. x.d \in Decide /\ x.e \in Entity /\ x.was = old[x.d][x.e]
    BY <2>1 DEF Tracks
  <2> QED BY <2>1, <2>2, WinnersFacts
<1> HIDE DEF put, c
<1>3. /\ n.base \in Bases /\ WinOK(n.win) /\ r \subseteq n.win /\ n.tree = RefTree(n.base, n.win)
      /\ TreeOK(n.tree)
  BY <1>2, NetFields, TreeTyped
<1>4. NetOK(c) /\ c.win = n.win /\ c.rec = r /\ c.tree = n.tree
  <2> DEFINE s == Standing(n.base, n.win, r)
  <2>1. s.win = n.win /\ s.rec = r /\ s.tree = RefTree(n.base, n.win)
    BY DEF Standing
  <2>2. NetOK(s)
    BY <1>3, StandingOK
  <2> HIDE DEF s
  <2> QED BY <2>1, <2>2, <1>1, <1>3 DEF s
<1>5. \A w \in n.win : \E d \in Decide, e \in Entity :
        w.d = d /\ w.e = e /\ old[d][e] # None /\ w = WinnerRow(d, e, old[d][e])
  <2>1. \A d, e, s : WinnerRow(d, e, s).d = d /\ WinnerRow(d, e, s).e = e
    BY DEF WinnerRow
  <2> QED BY <2>1, WinnersFacts
<1>6. ASSUME NEW w \in n.win, [d |-> w.d, e |-> w.e] \in D PROVE w \in r
  <2>1. PICK d \in Decide, e \in Entity :
           w.d = d /\ w.e = e /\ old[d][e] # None /\ w = WinnerRow(d, e, old[d][e])
    BY <1>5
  <2>2. old[d][e] # n.tree[d][e]
    BY <1>6, <2>1, DiffFacts
  <2>3. PICK x \in t : x.d = d /\ x.e = e
    BY <2>2 DEF Tracks
  <2>4. x.was = old[d][e]
    BY <2>3 DEF Tracks
  <2>5. CASE x \in lacking
    <3>1. WinnerRow(x.d, x.e, x.was) \in put
      BY <2>5 DEF put
    <3> QED BY <3>1, <2>1, <2>3, <2>4
  <2>6. CASE x \notin lacking
    <3>1. PICK u \in n.rec : u.d = x.d /\ u.e = x.e
      BY <2>6, <2>1, <2>4
    <3>2. u \in n.win
      BY <3>1 DEF NetOK
    <3>3. u = w
      BY <3>1, <3>2, <2>1, <2>3 DEF NetOK, WinOK, OnePerDecision
    <3> QED BY <3>1, <3>3
  <2> QED BY <2>5, <2>6
<1>7. ASSUME NEW w \in n.win, [d |-> w.d, e |-> w.e] \notin D PROVE w \in Winners(n.tree)
  <2>1. PICK d \in Decide, e \in Entity :
           w.d = d /\ w.e = e /\ old[d][e] # None /\ w = WinnerRow(d, e, old[d][e])
    BY <1>5
  <2>2. old[d][e] = n.tree[d][e]
    BY <1>7, <2>1, DiffFacts
  <2> QED BY <2>1, <2>2, <1>3, WinnersFacts
<1>8. ASSUME NEW w \in Winners(n.tree), [d |-> w.d, e |-> w.e] \notin D PROVE w \in n.win
  <2>1. PICK d \in Decide, e \in Entity : n.tree[d][e] # None /\ w = WinnerRow(d, e, n.tree[d][e])
    BY <1>3, WinnersFacts
  <2>2. w.d = d /\ w.e = e
    BY <2>1 DEF WinnerRow
  <2>3. old[d][e] = n.tree[d][e]
    BY <1>8, <2>2, DiffFacts
  <2> QED BY <2>1, <2>3, WinnersFacts
<1>9. Publishing(c, D)
  <2> HIDE DEF D
  <2>1. \A x \in D : x.d \in Decide /\ x.e \in Entity /\ x = [d |-> x.d, e |-> x.e]
    BY DiffFacts DEF D
  <2> QED BY <2>1, <1>4, <1>6, <1>7, <1>8 DEF Publishing
<1> QED BY <1>1, <1>4, <1>9 DEF c
(* After a publication the winner rows are those of the settlements. *)
LEMMA PublishedMoves ==
    ASSUME NEW c, NEW D, Publishing(c, D)
    PROVE  LET m == WithWinners(c, D)
           IN  Moved(c, m) /\ m.base = c.base /\ m.win = Winners(c.tree)
<1> DEFINE m == WithWinners(c, D)
           old == {w \in c.rec : [d |-> w.d, e |-> w.e] \in D}
           fresh == {x \in D : c.tree[x.d][x.e] # None}
           new == {WinnerRow(x.d, x.e, c.tree[x.d][x.e]) : x \in fresh}
           win == (c.win \ old) \cup new
           rec == (c.rec \ old) \cup new
<1>1. /\ c.base \in Bases /\ c.rec \subseteq c.win /\ TreeOK(c.tree)
      /\ \A x \in D : x.d \in Decide /\ x.e \in Entity /\ x = [d |-> x.d, e |-> x.e]
  BY NetFields, TreeTyped DEF Publishing
<1>2. m = [base |-> c.base, win |-> win, rec |-> rec, cand |-> c.cand, tree |-> c.tree]
  <2>1. m = [c EXCEPT !.win = win, !.rec = rec]
    BY DEF WithWinners
  <2> DEFINE b == c.base
             w == c.win
             r == c.rec
             supports == [d \in Decide |-> RefSupports(b, w, d)]
             tree == RefTree(b, w)
  <2>2. c = Standing(b, w, r)
    BY DEF Publishing, NetOK
  <2>3. c = [base |-> b, win |-> w, rec |-> r, cand |-> supports, tree |-> tree]
    BY <2>2 DEF Standing
  <2> HIDE DEF b, w, r, m, win, rec, supports, tree
  <2>4. b = c.base /\ supports = c.cand /\ tree = c.tree
    BY <2>3
  <2> QED BY <2>1, <2>3, <2>4
<1>3. \A w : w \in new <=> \E x \in D : c.tree[x.d][x.e] # None /\ w = WinnerRow(x.d, x.e, c.tree[x.d][x.e])
  OBVIOUS
<1>4. \A w : w \in old <=> w \in c.rec /\ [d |-> w.d, e |-> w.e] \in D
  OBVIOUS
<1> HIDE DEF old, new, m
<1>5. ASSUME NEW w \in win PROVE w \in Winners(c.tree)
  <2>1. CASE w \in new
    BY <2>1, <1>1, <1>3, WinnersFacts
  <2>2. CASE w \in c.win /\ w \notin old
    <3>1. [d |-> w.d, e |-> w.e] \notin D
      BY <2>2, <1>4 DEF Publishing
    <3> QED BY <2>2, <3>1 DEF Publishing
  <2> QED BY <2>1, <2>2
<1>6. ASSUME NEW w \in Winners(c.tree) PROVE w \in win
  <2>1. CASE [d |-> w.d, e |-> w.e] \in D
    <3>1. PICK d \in Decide, e \in Entity : c.tree[d][e] # None /\ w = WinnerRow(d, e, c.tree[d][e])
      BY <1>1, WinnersFacts
    <3>2. w.d = d /\ w.e = e
      BY <3>1 DEF WinnerRow
    <3> DEFINE x == [d |-> d, e |-> e]
    <3>3. x \in D /\ x.d = d /\ x.e = e
      BY <2>1, <3>2
    <3> HIDE DEF x
    <3> QED BY <3>1, <3>3, <1>3
  <2>2. CASE [d |-> w.d, e |-> w.e] \notin D
    BY <2>2, <1>4 DEF Publishing
  <2> QED BY <2>1, <2>2
<1>7. win = Winners(c.tree)
  <2> HIDE DEF win
  <2> QED BY <1>5, <1>6
<1>8. rec \subseteq win
  BY <1>1
<1> HIDE DEF win, rec
<1>9. m.base = c.base /\ m.win = win /\ m.rec = rec
  BY <1>2
<1>10. WinOK(win)
  BY <1>1, <1>7, WinnersFacts
<1> QED BY <1>1, <1>2, <1>7, <1>8, <1>9, <1>10 DEF Moved, m

LEMMA BaseRowFacts ==
    \A r \in Rels, k \in Key : \A row \in Rows(r, k) \cup {NoRow} : row \in BaseRow
  BY DEF BaseRow

(* Base rows after operations, as WithOps has them. *)
After(base, s) ==
    [r \in Rels |-> [k \in Key |->
        IF \E i \in DOMAIN s : s[i].r = r /\ s[i].k = k
        THEN (CHOOSE op \in {s[i] : i \in DOMAIN s} : op.r = r /\ op.k = k).row
        ELSE base[r][k]]]

(* The operations of a chunk make base rows of base rows. *)
LEMMA OpsMove ==
    ASSUME NEW n, NetOK(n), NEW s \in Seq(Operation)
    PROVE  LET m == WithOps(n, s)
           IN  Moved(n, m) /\ m.win = n.win /\ m.rec = n.rec /\ m.base = After(n.base, s)
<1> DEFINE m == WithOps(n, s)
           all == {s[i] : i \in DOMAIN s}
           hit(r, k) == \E i \in DOMAIN s : s[i].r = r /\ s[i].k = k
           op(r, k) == CHOOSE o \in all : o.r = r /\ o.k = k
           base == [r \in Rels |-> [k \in Key |-> IF hit(r, k) THEN op(r, k).row ELSE n.base[r][k]]]
<1>1. /\ n.base \in Bases /\ WinOK(n.win) /\ n.rec \subseteq n.win
  BY NetFields
<1>2. m = [base |-> base, win |-> n.win, rec |-> n.rec, cand |-> n.cand, tree |-> n.tree]
  <2>1. m = [n EXCEPT !.base = base]
    BY DEF WithOps
  <2> DEFINE b == n.base
             w == n.win
             r == n.rec
             supports == [d \in Decide |-> RefSupports(b, w, d)]
             tree == RefTree(b, w)
  <2>2. n = Standing(b, w, r)
    BY DEF NetOK
  <2>3. n = [base |-> b, win |-> w, rec |-> r, cand |-> supports, tree |-> tree]
    BY <2>2 DEF Standing
  <2> HIDE DEF b, w, r, m, base, supports, tree
  <2>4. w = n.win /\ r = n.rec /\ supports = n.cand /\ tree = n.tree
    BY <2>3
  <2> QED BY <2>1, <2>3, <2>4
<1>3. ASSUME NEW r \in Rels, NEW k \in Key PROVE base[r][k] \in Rows(r, k) \cup {NoRow}
  <2>1. CASE hit(r, k)
    <3>1. all \subseteq Operation
      OBVIOUS
    <3>2. \E o \in all : o.r = r /\ o.k = k
      BY <2>1
    <3> HIDE DEF all
    <3>3. op(r, k) \in Operation /\ op(r, k).r = r /\ op(r, k).k = k
      BY <3>1, <3>2
    <3>4. op(r, k).row \in Rows(r, k) \cup {NoRow}
      <4> HIDE DEF op
      <4>1. \A o \in Operation : o.row \in Rows(o.r, o.k) \cup {NoRow}
        BY DEF Operation
      <4> QED BY <3>3, <4>1
    <3> HIDE DEF hit, op
    <3> QED BY <2>1, <3>4
  <2>2. CASE ~hit(r, k)
    <3>1. n.base[r][k] \in Rows(r, k) \cup {NoRow}
      BY <1>1 DEF Bases
    <3> HIDE DEF hit, op
    <3> QED BY <2>2, <3>1
  <2> QED BY <2>1, <2>2
<1>4. base \in Bases
  <2>1. base = [r \in Rels |-> [k \in Key |-> base[r][k]]]
    <3> HIDE DEF hit, op
    <3> QED OBVIOUS
  <2> HIDE DEF base
  <2>2. \A r \in Rels, k \in Key : base[r][k] \in BaseRow
    BY <1>3, BaseRowFacts
  <2>3. base \in [Rels -> [Key -> BaseRow]]
    BY <2>1, <2>2
  <2> QED BY <2>3, <1>3, Zenon DEF Bases
<1>5. base = After(n.base, s)
  BY DEF After
<1> HIDE DEF base, m
<1>6. m.base = base /\ m.win = n.win /\ m.rec = n.rec
  BY <1>2
<1> QED BY <1>1, <1>2, <1>4, <1>5, <1>6 DEF Moved, m

LEMMA EmptyStands ==
    /\ NetOK(EmptyNet) /\ EmptyNet.win = Winners(EmptyNet.tree) /\ EmptyNet.tree = RefTree(EmptyBase, {})
<1>1. EmptyBase \in Bases
  <2>1. \A r \in Rels, k \in Key : NoRow \in BaseRow
    BY BaseRowFacts
  <2>2. EmptyBase \in [Rels -> [Key -> BaseRow]]
    BY <2>1 DEF EmptyBase
  <2>3. \A r \in Rels, k \in Key : EmptyBase[r][k] \in Rows(r, k) \cup {NoRow}
    BY DEF EmptyBase
  <2> QED BY <2>2, <2>3, Zenon DEF Bases
<1>2. WinOK({})
  BY DEF WinOK, OnePerDecision
<1>3. ASSUME NEW d \in Decide PROVE RefSupports(EmptyBase, {}, d) = {}
  <2>1. Below({}, d) = {}
    BY DEF Below
  <2>2. Source(d, EmptyBase, {}) = {}
    BY SourceAssumption
  <2> QED BY <2>1, <2>2 DEF RefSupports, Proposed
<1>4. RefTree(EmptyBase, {}) = [d \in Decide |-> [e \in Entity |-> None]]
  BY <1>3 DEF RefTree, Settle
<1>5. EmptyNet = Standing(EmptyBase, {}, {})
  BY <1>3, <1>4 DEF EmptyNet, Standing
<1>6. NetOK(EmptyNet)
  BY <1>1, <1>2, <1>5, StandingOK
<1>7. EmptyNet.win = {} /\ EmptyNet.tree = [d \in Decide |-> [e \in Entity |-> None]]
  BY DEF EmptyNet
<1>8. Winners([d \in Decide |-> [e \in Entity |-> None]]) = {}
  BY DEF Winners
<1> QED BY <1>4, <1>6, <1>7, <1>8
-----------------------------------------------------------------------------
(* The invariant: what the session holds is at rest, what a batch works on  *)
(* stands on its rows, its tracked decisions lead back to where it began,   *)
(* and between stages it is ready to publish.                              *)

AtRest(n) == NetOK(n) /\ n.win = Winners(n.tree)

Origin == IF goal = "commit" THEN net ELSE EmptyNet

Idle == staged = net /\ track = {} /\ last = {} /\ report = NoReport

Chunking ==
    /\ NetOK(staged) /\ staged.win = Origin.win
    /\ Tracks(track, Origin.tree, staged.tree)
    /\ mode # "chunked" => done \in {0, Len(ops)}
    /\ last = {} /\ report = NoReport

CascadeInv ==
    /\ phase \in {"idle", "chunks", "stages"}
    /\ ops \in Seq(Operation) /\ done \in 0..Len(ops)
    /\ AtRest(net)
    /\ phase = "idle" => Idle
    /\ phase = "chunks" => Chunking
    /\ phase = "stages" => Publishing(staged, Names(last)) /\ track = {}

LEMMA NothingTracked ==
    ASSUME NEW tree
    PROVE  Tracks({}, tree, tree)
  BY DEF Tracks

LEMMA OriginAtRest == AtRest(net) => AtRest(Origin)
  BY EmptyStands DEF AtRest, Origin

(* The facts of a world are listed, each once. *)
LEMMA FactsListed ==
    ASSUME NEW base
    PROVE  LET s == SetToSeq(Facts(base))
           IN  /\ IsFiniteSet(Facts(base)) /\ Cardinality(Facts(base)) \in Nat
               /\ s \in Seq(Operation) /\ Len(s) = Cardinality(Facts(base))
               /\ \A i \in 1..Len(s) : s[i] \in Facts(base)
               /\ \A i, j \in 1..Len(s) : s[i] = s[j] => i = j
               /\ \A op \in Facts(base) : \E i \in 1..Len(s) : s[i] = op
<1> DEFINE F == Facts(base)
           f == [op \in F |-> <<op.r, op.k>>]
           s == SetToSeq(F)
           n == Cardinality(F)
<1>1. IsFiniteSet(Rels \X Key)
  BY CascadeAssumption, FS_Product
<1>2. \A op \in F : op \in Operation /\ op.row = base[op.r][op.k]
  BY DEF Facts
<1>3. \A op \in Operation : op.r \in Rels /\ op.k \in Key /\ op = [r |-> op.r, k |-> op.k, row |-> op.row]
  BY DEF Operation
<1> HIDE DEF F
<1>4. f \in Injection(F, Rels \X Key)
  <2>1. f \in [F -> Rels \X Key]
    BY <1>2, <1>3
  <2>2. ASSUME NEW a \in F, NEW b \in F, f[a] = f[b] PROVE a = b
    <3>1. a.r = b.r /\ a.k = b.k
      BY <2>2
    <3>2. a.row = b.row
      BY <1>2, <3>1
    <3> QED BY <1>2, <1>3, <3>1, <3>2
  <2> QED BY <2>1, <2>2 DEF Injection, IsInjective
<1>5. IsFiniteSet(F)
  BY <1>1, <1>4, FS_Injection
<1>6. n \in Nat /\ ExistsBijection(1..n, F)
  BY <1>5, FS_CardinalityType
<1>7. \E g \in [1..n -> F] : IsInjective(g)
  BY <1>6 DEF ExistsBijection, Bijection, Injection
<1>8. s \in [1..n -> F] /\ IsInjective(s)
  BY <1>7 DEF SetToSeq
<1> HIDE DEF s, n
<1>9. IsFiniteSet(1..n) /\ Cardinality(1..n) = n
  BY <1>6, FS_Interval
<1>10. s \in Seq(F) /\ Len(s) = n
  BY <1>6, <1>8
<1>11. s \in Surjection(1..n, F)
  BY <1>5, <1>8, <1>9, FS_Injection DEF Injection, n
<1>12. \A op \in F : \E i \in 1..n : s[i] = op
  BY <1>11 DEF Surjection
<1>13. F \subseteq Operation
  BY <1>2
<1> QED BY <1>5, <1>6, <1>8, <1>10, <1>12, <1>13 DEF IsInjective, F, s, n

LEMMA CascadeInit == Init => CascadeInv
<1> SUFFICES ASSUME Init PROVE CascadeInv
  OBVIOUS
<1>1. AtRest(net)
  BY EmptyStands DEF Init, AtRest
<1>2. ops \in Seq(Operation) /\ done \in 0..Len(ops)
  BY DEF Init
<1> QED BY <1>1, <1>2 DEF Init, CascadeInv, Idle
(* The end of a batch, whatever its outcome. *)
LEMMA EndsInv ==
    ASSUME NoBatch, AtRest(net)', staged' = net'
    PROVE  CascadeInv'
<1>1. ops' \in Seq(Operation) /\ done' \in 0..Len(ops')
  BY DEF NoBatch
<1> QED BY <1>1 DEF NoBatch, CascadeInv, Idle

(* A batch begins, or begins again. *)
LEMMA BeginsInv ==
    ASSUME AtRest(net), net' = net, phase' = "chunks", done' = 0, ops' \in Seq(Operation),
           staged' = Origin', track' = {}, last' = {}, report' = NoReport
    PROVE  CascadeInv'
<1>1. AtRest(net)' /\ AtRest(Origin')
  BY OriginAtRest, EmptyStands DEF AtRest, Origin
<1>2. done' \in 0..Len(ops')
  BY LenProperties
<1>3. Chunking'
  <2>1. NetOK(staged)' /\ (staged.win = Origin.win)'
    BY <1>1 DEF AtRest
  <2>2. Tracks(track, Origin.tree, staged.tree)'
    BY NothingTracked
  <2> QED BY <2>1, <2>2 DEF Chunking
<1> QED BY <1>1, <1>2, <1>3 DEF CascadeInv

LEMMA BeginBatchInv ==
    ASSUME CascadeInv, NEW s \in Batches, NEW m, BeginBatch(s, m)
    PROVE  CascadeInv'
<1>1. s \in Seq(Operation)
  BY DEF Batches
<1> QED BY <1>1, BeginsInv DEF BeginBatch, CascadeInv, Idle, Origin

LEMMA BeginRebuildInv ==
    ASSUME CascadeInv, NEW m, BeginRebuild(m)
    PROVE  CascadeInv'
<1>1. SetToSeq(Facts(net.base)) \in Seq(Operation)
  BY FactsListed
<1> QED BY <1>1, BeginsInv DEF BeginRebuild, CascadeInv, Idle, Origin

LEMMA RefusalInv ==
    ASSUME CascadeInv, OnRefusal
    PROVE  CascadeInv'
<1>1. CASE mode = "chunked"
  BY <1>1, BeginsInv DEF OnRefusal, CascadeInv, Origin
<1>2. CASE mode # "chunked"
  BY <1>2, EndsInv DEF OnRefusal, CascadeInv, AtRest
<1> QED BY <1>1, <1>2

(* A chunk of the batch. *)
Part(size) == SubSeq(ops, done + 1, done + size)

LEMMA PartTyped ==
    ASSUME CascadeInv, NEW size \in 1..Len(ops), phase = "chunks", done < Len(ops), size \in ChunkSize
    PROVE  /\ done \in Nat /\ size \in Nat /\ Len(ops) \in Nat /\ done + size <= Len(ops)
           /\ Part(size) \in Seq(Operation)
<1>1. done \in Nat /\ size \in Nat /\ Len(ops) \in Nat /\ ops \in Seq(Operation)
  BY DEF CascadeInv
<1>2. done + size <= Len(ops)
  BY <1>1 DEF ChunkSize, CascadeInv, Chunking
<1>3. Part(size) \in Seq(Operation)
  <2>1. \A i \in 1..size : done + i \in 1..Len(ops)
    BY <1>1, <1>2
  <2>2. done + 1 \in Int /\ done + size \in Int /\ done + 1 \in 1..(Len(ops) + 1)
    BY <1>1, <1>2
  <2> QED BY <1>1, <1>2, <2>2, SubSeqProperties DEF Part
<1> QED BY <1>1, <1>2, <1>3

LEMMA CascadeStutter ==
    ASSUME CascadeInv, UNCHANGED vars
    PROVE  CascadeInv'
  BY DEF CascadeInv, vars, batch, Idle, Chunking, Origin, AtRest
LEMMA ChunkInv ==
    ASSUME CascadeInv, NEW size \in 1..Len(ops), ApplyChunk(size)
    PROVE  CascadeInv'
<1> DEFINE m == WithOps(staged, Part(size))
<1>1. /\ phase = "chunks" /\ done < Len(ops) /\ size \in ChunkSize
      /\ Chunking /\ AtRest(net) /\ ops \in Seq(Operation) /\ NetOK(staged)
  BY DEF ApplyChunk, CascadeInv, Chunking
<1>2. /\ done \in Nat /\ size \in Nat /\ Len(ops) \in Nat /\ done + size <= Len(ops)
      /\ Part(size) \in Seq(Operation)
  BY <1>1, PartTyped
<1>3. CASE Refused(staged, m)
  BY <1>3, RefusalInv DEF ApplyChunk, Part
<1>4. CASE ~Refused(staged, m)
  <2>1. /\ staged' = Settled(staged, m) /\ track' = Track(track, staged, m) /\ done' = done + size
        /\ UNCHANGED <<net, phase, mode, goal, ops, last, report>>
    BY <1>4 DEF ApplyChunk, Part
  <2>2. Moved(staged, m) /\ m.win = staged.win
    BY <1>1, <1>2, OpsMove
  <2> HIDE DEF m
  <2>3. NetOK(staged') /\ staged'.win = staged.win
    <3>1. NetOK(staged') /\ staged' = Standing(m.base, m.win, m.rec)
      BY <1>1, <2>1, <2>2, SettledStands
    <3>2. staged'.win = m.win
      BY <3>1 DEF Standing
    <3> QED BY <2>2, <3>1, <3>2
  <2>4. Tracks(track', Origin.tree, staged'.tree)
    BY <1>1, <2>1, <2>2, TrackGrows DEF Chunking
  <2>5. Origin' = Origin
    BY <2>1 DEF Origin
  <2>6. mode # "chunked" => done' \in {0, Len(ops)}
    BY <1>1, <1>2, <2>1 DEF ChunkSize, Chunking
  <2>7. Chunking'
    BY <1>1, <2>1, <2>3, <2>4, <2>5, <2>6 DEF Chunking
  <2>8. AtRest(net)' /\ ops' \in Seq(Operation) /\ done' \in 0..Len(ops')
    BY <1>1, <1>2, <2>1 DEF AtRest
  <2> QED BY <1>1, <2>1, <2>7, <2>8 DEF CascadeInv
<1> QED BY <1>3, <1>4

(* The base operations are done: the cascade is ready to publish. *)
LEMMA FinishInv ==
    ASSUME CascadeInv, Finish
    PROVE  /\ CascadeInv' /\ last' = Diff(Origin.tree, staged.tree)
           /\ Publishing(staged', Names(last'))
           /\ staged' = Standing(staged.base, staged.win, staged'.rec)
<1>1. /\ Chunking /\ AtRest(net) /\ AtRest(Origin) /\ NetOK(staged) /\ staged.win = Origin.win
      /\ Tracks(track, Origin.tree, staged.tree)
  BY OriginAtRest DEF Finish, CascadeInv, Chunking
<1>2. last' = Diff(Origin.tree, staged.tree)
  BY <1>1, ChangesExact DEF Finish
<1>3. TreeOK(Origin.tree) /\ staged.win = Winners(Origin.tree)
  BY <1>1, TreeTyped DEF AtRest
<1>4. Publishing(staged', Names(last')) /\ staged' = Standing(staged.base, staged.win, staged'.rec)
  <2>1. staged' = Seed(staged, track)
    BY DEF Finish
  <2> QED BY <1>1, <1>2, <1>3, <2>1, SeedPublishes
<1>5. AtRest(net)' /\ ops' \in Seq(Operation) /\ done' \in 0..Len(ops')
  BY <1>1 DEF AtRest, Finish, CascadeInv
<1> QED BY <1>2, <1>4, <1>5 DEF CascadeInv, Finish

(* A stage: the settlements' winners are published, and what they change    *)
(* is ready to be published next.                                          *)
LEMMA StageSteps ==
    ASSUME CascadeInv, Stage
    PROVE  LET m == WithWinners(staged, Published)
           IN  /\ Moved(staged, m) /\ m.base = staged.base /\ m.win = Winners(staged.tree)
               /\ NetOK(staged)
               /\ Refused(staged, m) => OnRefusal
               /\ ~Refused(staged, m) =>
                    LET n == Settled(staged, m)
                    IN  /\ n = Standing(m.base, m.win, m.rec)
                        /\ last' = Diff(staged.tree, n.tree)
                        /\ report' = Merge(report, last')
                        /\ Publishing(staged', Names(last'))
                        /\ staged' = Standing(m.base, m.win, staged'.rec)
                        /\ UNCHANGED <<net, phase, mode, goal, ops, done, track>>
<1> DEFINE m == WithWinners(staged, Published)
           t == Track({}, staged, m)
           n == Settled(staged, m)
<1>1. Publishing(staged, Published) /\ NetOK(staged)
  BY DEF Stage, CascadeInv, Publishing, Published
<1>2. Moved(staged, m) /\ m.base = staged.base /\ m.win = Winners(staged.tree)
  BY <1>1, PublishedMoves
<1>3. Refused(staged, m) => OnRefusal
  BY DEF Stage
<1>4. ~Refused(staged, m) =>
         /\ staged' = Seed(n, t) /\ last' = Changes(n, t) /\ report' = Merge(report, Changes(n, t))
         /\ UNCHANGED <<net, phase, mode, goal, ops, done, track>>
  BY DEF Stage
<1> HIDE DEF m
<1>5. NetOK(n) /\ n = Standing(m.base, m.win, m.rec) /\ Tracks(t, staged.tree, n.tree)
  BY <1>1, <1>2, SettledStands, TrackGrows, NothingTracked
<1>6. n.base = m.base /\ n.win = m.win
  BY <1>5 DEF Standing
<1> HIDE DEF n, t
<1>7. Changes(n, t) = Diff(staged.tree, n.tree)
  BY <1>5, ChangesExact
<1>8. TreeOK(staged.tree)
  BY <1>1, TreeTyped
<1>9. /\ Publishing(Seed(n, t), Names(Diff(staged.tree, n.tree)))
      /\ Seed(n, t) = Standing(n.base, n.win, Seed(n, t).rec)
  BY <1>2, <1>5, <1>6, <1>8, SeedPublishes
<1> QED BY <1>1, <1>2, <1>3, <1>4, <1>5, <1>6, <1>7, <1>9 DEF m, n

LEMMA StageInv ==
    ASSUME CascadeInv, Stage
    PROVE  CascadeInv'
<1> DEFINE m == WithWinners(staged, Published)
<1>1. CASE Refused(staged, m)
  BY <1>1, StageSteps, RefusalInv
<1>2. CASE ~Refused(staged, m)
  <2>1. Publishing(staged', Names(last')) /\ UNCHANGED <<net, phase, mode, goal, ops, done, track>>
    BY <1>2, StageSteps
  <2> QED BY <2>1 DEF CascadeInv, AtRest, Stage
<1> QED BY <1>1, <1>2

(* With nothing left to publish the network is at rest. *)
LEMMA RestsWhenDone ==
    ASSUME CascadeInv, phase = "stages", Published = {}
    PROVE  AtRest(staged)
  BY DEF CascadeInv, Publishing, Published, AtRest

LEMMA CommitInv ==
    ASSUME CascadeInv, Commit
    PROVE  CascadeInv'
  BY RestsWhenDone, EndsInv DEF Commit, AtRest

(* A restored network: the winner scans have no records. *)
LEMMA RestoreInv ==
    ASSUME CascadeInv, Restore
    PROVE  CascadeInv'
<1> DEFINE b == net.base
           w == net.win
           r == net.rec
           supports == [d \in Decide |-> RefSupports(b, w, d)]
<1>1. AtRest(net) /\ NetOK(net) /\ net = Standing(b, w, r)
  BY DEF CascadeInv, AtRest, NetOK
<1>2. b \in Bases /\ WinOK(w) /\ net.tree = RefTree(b, w) /\ w = Winners(net.tree)
  BY <1>1, NetFields DEF AtRest
<1> HIDE DEF b, w, r
<1>3. net' = Standing(b, w, {})
  <2>1. \A any : Standing(b, w, any) =
             [base |-> b, win |-> w, rec |-> any, cand |-> supports, tree |-> RefTree(b, w)]
    BY DEF Standing
  <2> HIDE DEF supports
  <2> QED BY <1>1, <2>1 DEF Restore
<1>4. NetOK(net')
  BY <1>2, <1>3, StandingOK
<1>5. net'.win = w /\ net'.tree = RefTree(b, w)
  BY <1>3 DEF Standing
<1>6. AtRest(net')
  BY <1>2, <1>4, <1>5 DEF AtRest
<1> QED BY <1>6 DEF CascadeInv, Restore, Idle, batch, AtRest

LEMMA CascadeInvariance == Spec => []CascadeInv
<1>1. CascadeInv /\ [Next]_vars => CascadeInv'
  <2> SUFFICES ASSUME CascadeInv, [Next]_vars PROVE CascadeInv'
    OBVIOUS
  <2>1. ASSUME NEW s \in Batches, NEW m, BeginBatch(s, m) PROVE CascadeInv'
    BY <2>1, BeginBatchInv
  <2>2. ASSUME NEW m, BeginRebuild(m) PROVE CascadeInv'
    BY <2>2, BeginRebuildInv
  <2>3. ASSUME NEW size \in 1..Len(ops), ApplyChunk(size) PROVE CascadeInv'
    BY <2>3, ChunkInv
  <2>4. CASE EnvironmentFails \/ Exhausted
    BY <2>4, EndsInv DEF EnvironmentFails, Exhausted, CascadeInv, AtRest
  <2>5. CASE Finish
    BY <2>5, FinishInv
  <2>6. CASE Stage
    BY <2>6, StageInv
  <2>7. CASE Commit
    BY <2>7, CommitInv
  <2>8. CASE Restore
    BY <2>8, RestoreInv
  <2>9. CASE UNCHANGED vars
    BY <2>9, CascadeStutter
  <2> QED BY <2>1, <2>2, <2>3, <2>4, <2>5, <2>6, <2>7, <2>8, <2>9 DEF Next, Step
<1> QED BY <1>1, CascadeInit, PTL DEF Spec
-----------------------------------------------------------------------------
(* The reference evaluator. *)

LEMMA WinnersAre ==
    ASSUME NEW tree, NEW w
    PROVE  /\ w \in Winners(tree) <=>
                \E d \in Decide, e \in Entity : tree[d][e] # None /\ w = WinnerRow(d, e, tree[d][e])
           /\ w \in Winners(tree) => w.d \in Decide
<1>1. ASSUME w \in Winners(tree)
      PROVE  \E d \in Decide, e \in Entity : tree[d][e] # None /\ w = WinnerRow(d, e, tree[d][e])
  BY <1>1 DEF Winners
<1>2. ASSUME NEW d \in Decide, NEW e \in Entity, tree[d][e] # None
      PROVE  WinnerRow(d, e, tree[d][e]) \in Winners(tree)
  <2>1. <<d, e>> \in {x \in Decide \X Entity : tree[x[1]][x[2]] # None}
    BY <1>2
  <2> QED BY <2>1 DEF Winners
<1>3. \A d, e, s : WinnerRow(d, e, s).d = d
  BY DEF WinnerRow
<1> QED BY <1>1, <1>2, <1>3

(* The rounds are well defined: each is the winners of the one before. *)
LEMMA Rounds ==
    ASSUME NEW base
    PROVE  /\ RefRounds(base)[0] = {}
           /\ \A i \in 0..NumDecides :
                 RefRounds(base)[i + 1] = Winners(RefTree(base, RefRounds(base)[i]))
<1> DEFINE next(win) == Winners(RefTree(base, win))
           N == NumDecides + 1
           Good(g, n) == g = [i \in 0..n |-> IF i = 0 THEN {} ELSE next(g[i - 1])]
           Made == {n \in Nat : \E g : Good(g, n)}
<1> HIDE DEF next
<1>1. 0 \in Made
  <2>1. Good([i \in 0..0 |-> {}], 0)
    OBVIOUS
  <2> QED BY <2>1
<1>2. ASSUME NEW n \in Nat, n \in Made PROVE n + 1 \in Made
  <2>1. PICK g : Good(g, n)
    BY <1>2
  <2> DEFINE h == [i \in 0..(n + 1) |-> IF i = n + 1 THEN next(g[n]) ELSE g[i]]
  <2>2. ASSUME NEW i \in 0..(n + 1) PROVE h[i] = IF i = 0 THEN {} ELSE next(h[i - 1])
    <3>1. CASE i = n + 1
      <4>1. n \in 0..(n + 1) /\ i - 1 = n /\ n # n + 1 /\ i # 0
        BY <3>1
      <4>2. h[n] = g[n] /\ h[i] = next(g[n])
        BY <3>1, <4>1
      <4> HIDE DEF h
      <4> QED BY <4>1, <4>2
    <3>2. CASE i # n + 1
      <4>1. i \in 0..n /\ h[i] = g[i] /\ (i # 0 => i - 1 \in 0..n /\ h[i - 1] = g[i - 1])
        BY <3>2
      <4>2. g[i] = IF i = 0 THEN {} ELSE next(g[i - 1])
        BY <2>1, <4>1
      <4> HIDE DEF h
      <4> QED BY <4>1, <4>2
    <3> QED BY <3>1, <3>2
  <2>3. h = [i \in 0..(n + 1) |-> h[i]]
    OBVIOUS
  <2> HIDE DEF h
  <2>4. Good(h, n + 1)
    BY <2>2, <2>3
  <2> HIDE DEF Good
  <2> QED BY <2>4
<1>3. N \in Nat /\ N \in Made
  <2>1. N \in Nat
    BY CascadeAssumption
  <2> HIDE DEF Made, N
  <2> QED BY <1>1, <1>2, <2>1, NumberInduction
<1> DEFINE f == CHOOSE g : Good(g, N)
<1>4. Good(f, N)
  <2>1. \E g : Good(g, N)
    BY <1>3
  <2> HIDE DEF Good, N
  <2> QED BY <2>1
<1>5. RefRounds(base) = [i \in 0..N |-> f[i]]
  BY Zenon DEF RefRounds, next
<1> HIDE DEF f
<1>6. \A i \in 0..N : f[i] = IF i = 0 THEN {} ELSE next(f[i - 1])
  BY <1>4
<1>7. RefRounds(base)[0] = {}
  BY <1>3, <1>5, <1>6
<1>8. ASSUME NEW i \in 0..NumDecides PROVE RefRounds(base)[i + 1] = next(RefRounds(base)[i])
  <2>1. i \in 0..N /\ i + 1 \in 0..N /\ i + 1 # 0 /\ (i + 1) - 1 = i
    BY CascadeAssumption
  <2> HIDE DEF N
  <2> QED BY <2>1, <1>5, <1>6
<1> QED BY <1>7, <1>8 DEF next

(* The rounds of the reference evaluator get one stratum right after the    *)
(* other: they agree with a network at rest on the strata they have done.   *)
LEMMA RoundsAgree ==
    ASSUME NEW n, AtRest(n)
    PROVE  \A i \in 0..NumDecides : Below(RefRounds(n.base)[i], i + 1) = Below(n.win, i + 1)
<1> DEFINE R == RefRounds(n.base)
           Agreed == {i \in Nat : i <= NumDecides => Below(R[i], i + 1) = Below(n.win, i + 1)}
<1>1. /\ NumDecides \in Nat
      /\ n.win = Winners(n.tree) /\ n.tree = RefTree(n.base, n.win)
      /\ \A w \in n.win : w.d \in Decide
  BY NetFields, WinnersAre, CascadeAssumption DEF AtRest
<1>2. R[0] = {} /\ \A i \in 0..NumDecides : R[i + 1] = Winners(RefTree(n.base, R[i]))
  BY Rounds
<1> HIDE DEF R
<1>3. 0 \in Agreed
  BY <1>1, <1>2 DEF Below, Decide
<1>4. ASSUME NEW i \in Nat, i \in Agreed PROVE i + 1 \in Agreed
  <2> SUFFICES ASSUME i + 1 <= NumDecides PROVE Below(R[i + 1], i + 2) = Below(n.win, i + 2)
    OBVIOUS
  <2> DEFINE new == RefTree(n.base, R[i])
  <2>1. Below(R[i], i + 1) = Below(n.win, i + 1) /\ R[i + 1] = Winners(new)
    BY <1>1, <1>2, <1>4
  <2>2. ASSUME NEW d \in Decide, d < i + 2 PROVE \A e \in Entity : new[d][e] = n.tree[d][e]
    <3>1. d \in Nat /\ d <= i + 1
      BY <2>2 DEF Decide
    <3>2. \A w \in R[i] : w.d \in Decide
      <4>1. CASE i = 0
        BY <1>2, <4>1
      <4>2. CASE i # 0
        <5>1. i - 1 \in 0..NumDecides /\ (i - 1) + 1 = i
          BY <1>1, <4>2
        <5>2. R[i] = Winners(RefTree(n.base, R[i - 1]))
          BY <1>2, <5>1
        <5> QED BY <5>2, WinnersAre
      <4> QED BY <4>1, <4>2
    <3>3. Below(R[i], d) = Below(n.win, d)
      <4>1. \A W : (\A w \in W : w.d \in Decide) => Below(W, d) = Below(Below(W, i + 1), d)
        BY <3>1 DEF Below, Decide
      <4> QED BY <4>1, <3>2, <1>1, <2>1
    <3>4. RefSupports(n.base, R[i], d) = RefSupports(n.base, n.win, d)
      BY <3>3 DEF RefSupports
    <3> QED BY <3>4, <1>1, RefTreeAt
  <2> HIDE DEF new
  <2>3. ASSUME NEW w PROVE (w \in Winners(new) /\ w.d < i + 2) <=> (w \in Winners(n.tree) /\ w.d < i + 2)
    <3>1. \A d, e, s : WinnerRow(d, e, s).d = d
      BY DEF WinnerRow
    <3> QED BY <3>1, <2>2, WinnersAre
  <2> QED BY <2>1, <2>3, <1>1 DEF Below
<1>5. \A i \in Nat : i \in Agreed
  <2> HIDE DEF Agreed
  <2> QED BY <1>3, <1>4, NumberInduction
<1> QED BY <1>1, <1>5 DEF R

(* A network at rest is what the reference evaluator computes from its base *)
(* rows.                                                                   *)
LEMMA RestIsReference ==
    ASSUME NEW n, AtRest(n)
    PROVE  LET rounds == RefRounds(n.base)
           IN  rounds[NumDecides] = n.win /\ rounds[NumDecides + 1] = n.win
<1> DEFINE R == RefRounds(n.base)
<1>1. /\ NumDecides \in Nat /\ NumDecides - 1 \in 0..NumDecides /\ (NumDecides - 1) + 1 = NumDecides
      /\ NumDecides \in 0..NumDecides
  BY CascadeAssumption
<1>2. /\ R[NumDecides] = Winners(RefTree(n.base, R[NumDecides - 1]))
      /\ R[NumDecides + 1] = Winners(RefTree(n.base, R[NumDecides]))
  BY <1>1, Rounds
<1>3. Below(R[NumDecides], NumDecides + 1) = Below(n.win, NumDecides + 1)
  BY <1>1, RoundsAgree
<1> HIDE DEF R
<1>4. n.win = Winners(n.tree) /\ n.tree = RefTree(n.base, n.win)
  BY NetFields DEF AtRest
<1>5. \A tree : Below(Winners(tree), NumDecides + 1) = Winners(tree)
  <2>1. \A tree : \A w \in Winners(tree) : w.d < NumDecides + 1
    BY <1>1, WinnersAre DEF Decide
  <2> QED BY <2>1 DEF Below
<1>6. R[NumDecides] = n.win
  BY <1>2, <1>3, <1>4, <1>5
<1> QED BY <1>2, <1>4, <1>6 DEF R

(* Between batches candidates, settlements and published winner rows are    *)
(* those the reference evaluator computes from the base rows, and nothing   *)
(* of a batch is left: for every program and whatever chunks, stages,       *)
(* failed runs, restores and rebuilds led there.                           *)
THEOREM SettlesAsReferenceCorrect == Spec => []SettlesAsReference
<1>1. CascadeInv => SettlesAsReference
  <2> SUFFICES ASSUME CascadeInv, phase = "idle" PROVE SettlesAsReference
    BY DEF SettlesAsReference
  <2> DEFINE win == RefRounds(net.base)[NumDecides]
  <2>1. AtRest(net) /\ Idle
    BY DEF CascadeInv
  <2>2. win = net.win /\ RefRounds(net.base)[NumDecides + 1] = win
    BY <2>1, RestIsReference
  <2> HIDE DEF win
  <2>3. /\ net.tree = RefTree(net.base, win)
        /\ \A d \in Decide : net.cand[d] = RefSupports(net.base, win, d)
        /\ net.win = Winners(net.tree) /\ net.rec \subseteq net.win
    BY <2>1, <2>2, NetFields DEF AtRest
  <2> QED BY <2>1, <2>2, <2>3 DEF SettlesAsReference, Idle, win
<1> QED BY <1>1, CascadeInvariance, PTL
-----------------------------------------------------------------------------
(* Chunks of a batch. *)

OncePerKey(s) == \A i, j \in 1..Len(s) : s[i].r = s[j].r /\ s[i].k = s[j].k => i = j

(* The row an operation leaves, and the rows no operation is about. *)
LEMMA AfterAt ==
    ASSUME NEW base, NEW s \in Seq(Operation), OncePerKey(s), NEW r \in Rels, NEW k \in Key
    PROVE  /\ \A i \in 1..Len(s) : s[i].r = r /\ s[i].k = k => After(base, s)[r][k] = s[i].row
           /\ (\A i \in 1..Len(s) : ~(s[i].r = r /\ s[i].k = k)) => After(base, s)[r][k] = base[r][k]
<1> DEFINE all == {s[i] : i \in DOMAIN s}
           hit == \E i \in DOMAIN s : s[i].r = r /\ s[i].k = k
           op == CHOOSE o \in all : o.r = r /\ o.k = k
<1>1. After(base, s)[r][k] = IF hit THEN op.row ELSE base[r][k]
  BY DEF After
<1>2. DOMAIN s = 1..Len(s)
  OBVIOUS
<1>3. ASSUME NEW i \in 1..Len(s), s[i].r = r, s[i].k = k PROVE hit /\ op = s[i]
  <2>1. \E o \in all : o.r = r /\ o.k = k
    BY <1>2, <1>3
  <2>2. op \in all /\ op.r = r /\ op.k = k
    <3> HIDE DEF all
    <3> QED BY <2>1
  <2> HIDE DEF op
  <2>3. PICK j \in 1..Len(s) : op = s[j]
    BY <1>2, <2>2
  <2>4. i = j
    BY <1>3, <2>2, <2>3 DEF OncePerKey
  <2> QED BY <1>2, <1>3, <2>3, <2>4
<1>4. (\A i \in 1..Len(s) : ~(s[i].r = r /\ s[i].k = k)) => ~hit
  BY <1>2
<1> HIDE DEF hit, op
<1> QED BY <1>1, <1>3, <1>4

(* Base rows with the first n operations of s applied. *)
Applied(now, base, s, n) ==
    \A r \in Rels, k \in Key :
        /\ \A i \in 1..n : s[i].r = r /\ s[i].k = k => now[r][k] = s[i].row
        /\ (\A i \in 1..n : ~(s[i].r = r /\ s[i].k = k)) => now[r][k] = base[r][k]

LEMMA AppliedMore ==
    ASSUME NEW s \in Seq(Operation), OncePerKey(s), NEW a \in Nat, NEW c \in Nat, a + c <= Len(s),
           NEW now, NEW base, Applied(now, base, s, a)
    PROVE  Applied(After(now, SubSeq(s, a + 1, a + c)), base, s, a + c)
<1> DEFINE p == SubSeq(s, a + 1, a + c)
<1>1. /\ p \in Seq(Operation) /\ Len(p) = c /\ Len(s) \in Nat
      /\ \A j \in 1..c : p[j] = s[a + j]
  <2>1. a + 1 \in 1..(Len(s) + 1) /\ a + c \in Int /\ Len(s) \in Nat
    OBVIOUS
  <2>2. \A j \in 1..c : a + j \in 1..Len(s)
    BY <2>1
  <2> QED BY <2>1, <2>2, SubSeqProperties
<1> HIDE DEF p
<1>2. OncePerKey(p)
  <2> SUFFICES ASSUME NEW i \in 1..c, NEW j \in 1..c, p[i].r = p[j].r, p[i].k = p[j].k PROVE i = j
    BY <1>1 DEF OncePerKey
  <2>1. a + i \in 1..Len(s) /\ a + j \in 1..Len(s)
    BY <1>1
  <2>2. a + i = a + j
    BY <1>1, <2>1 DEF OncePerKey
  <2> QED BY <2>2
<1>3. ASSUME NEW r \in Rels, NEW k \in Key
      PROVE  /\ \A i \in 1..(a + c) : s[i].r = r /\ s[i].k = k => After(now, p)[r][k] = s[i].row
             /\ (\A i \in 1..(a + c) : ~(s[i].r = r /\ s[i].k = k)) => After(now, p)[r][k] = base[r][k]
  <2> DEFINE hit(i) == s[i].r = r /\ s[i].k = k
             row == After(now, p)[r][k]
  <2>1. /\ \A j \in 1..c : hit(a + j) => row = s[a + j].row
        /\ (\A j \in 1..c : ~hit(a + j)) => row = now[r][k]
    <3>1. /\ \A j \in 1..c : p[j].r = r /\ p[j].k = k => row = p[j].row
          /\ (\A j \in 1..c : ~(p[j].r = r /\ p[j].k = k)) => row = now[r][k]
      <4>1. /\ \A j \in 1..Len(p) : p[j].r = r /\ p[j].k = k => row = p[j].row
            /\ (\A j \in 1..Len(p) : ~(p[j].r = r /\ p[j].k = k)) => row = now[r][k]
        <5>1. p \in Seq(Operation)
          BY <1>1
        <5> QED BY <5>1, <1>2, AfterAt
      <4>2. Len(p) = c
        BY <1>1
      <4> HIDE DEF row
      <4> QED BY <4>1, <4>2
    <3>2. \A j \in 1..c : p[j] = s[a + j]
      BY <1>1
    <3> HIDE DEF row
    <3> QED BY <3>1, <3>2
  <2>2. /\ \A i \in 1..a : hit(i) => now[r][k] = s[i].row
        /\ (\A i \in 1..a : ~hit(i)) => now[r][k] = base[r][k]
    BY DEF Applied
  <2>3. \A i, j \in 1..(a + c) : hit(i) /\ hit(j) => i = j
    <3>1. \A i \in 1..(a + c) : i \in 1..Len(s)
      BY <1>1
    <3> QED BY <3>1 DEF OncePerKey
  <2> HIDE DEF hit, row
  <2>4. ASSUME NEW i \in 1..(a + c), hit(i) PROVE row = s[i].row
    <3>1. CASE i > a
      <4>1. i - a \in 1..c /\ a + (i - a) = i
        BY <3>1
      <4> QED BY <2>1, <2>4, <4>1
    <3>2. CASE ~(i > a)
      <4>1. i \in 1..a
        BY <3>2
      <4>2. \A j \in 1..c : a + j \in 1..(a + c) /\ a + j # i
        BY <4>1
      <4>3. \A j \in 1..c : ~hit(a + j)
        BY <4>2, <2>3, <2>4
      <4> QED BY <2>1, <2>2, <2>4, <4>1, <4>3
    <3> QED BY <3>1, <3>2
  <2>5. ASSUME \A i \in 1..(a + c) : ~hit(i) PROVE row = base[r][k]
    <3>1. \A j \in 1..c : a + j \in 1..(a + c)
      OBVIOUS
    <3>2. \A j \in 1..a : j \in 1..(a + c)
      OBVIOUS
    <3> QED BY <2>1, <2>2, <2>5, <3>1, <3>2
  <2> QED BY <2>4, <2>5 DEF hit, row
<1>4. Applied(After(now, p), base, s, a + c)
  BY <1>3 DEF Applied
<1> QED BY <1>4 DEF p

(* All operations applied, in chunks or at once, leave the same rows. *)
LEMMA AppliedAll ==
    ASSUME NEW s \in Seq(Operation), OncePerKey(s), NEW now \in Bases, NEW base \in Bases,
           Applied(now, base, s, Len(s))
    PROVE  now = After(base, s)
<1>1. ASSUME NEW r \in Rels, NEW k \in Key PROVE now[r][k] = After(base, s)[r][k]
  <2>1. CASE \E i \in 1..Len(s) : s[i].r = r /\ s[i].k = k
    BY <2>1, AfterAt DEF Applied
  <2>2. CASE ~\E i \in 1..Len(s) : s[i].r = r /\ s[i].k = k
    BY <2>2, AfterAt DEF Applied
  <2> QED BY <2>1, <2>2
<1> DEFINE then == After(base, s)
<1>2. then = [r \in Rels |-> [k \in Key |-> then[r][k]]]
  BY DEF After
<1> HIDE DEF then
<1>3. now = [r \in Rels |-> [k \in Key |-> now[r][k]]]
  BY DEF Bases
<1>4. now = then
  BY <1>1, <1>2, <1>3 DEF then
<1> QED BY <1>4 DEF then
-----------------------------------------------------------------------------
(* The same batch in one chunk. *)

(* A chunk is refused exactly when the rows it leads to conflict, wherever  *)
(* it starts from.                                                         *)
Clash(base, win) == \E d \in Decide : Conflict(RefSupports(base, win, d))

LEMMA RefusedIsClash ==
    ASSUME NEW n, NetOK(n), NEW m
    PROVE  Refused(n, m) <=> Clash(m.base, m.win)
<1>1. \A d \in Decide : Supports(n, m, d) = RefSupports(m.base, m.win, d)
  BY SupportsExact DEF RefSupports, Reads
<1> QED BY <1>1 DEF Refused, Clash

(* What a chunk that publishes leads to. *)
LEMMA RanFacts ==
    ASSUME NEW n, NetOK(n), NEW m, Moved(n, m), m.win = Winners(n.tree), NEW rep
    PROVE  LET o == Ran(n, m, rep)
           IN  /\ o.ok <=> ~Clash(m.base, m.win)
               /\ o.last = Diff(n.tree, RefTree(m.base, m.win))
               /\ o.report = Merge(rep, o.last)
               /\ Publishing(o.net, Names(o.last))
               /\ o.net = Standing(m.base, m.win, o.net.rec)
               /\ o.net.base = m.base /\ o.net.win = m.win
<1> DEFINE t == Track({}, n, m)
           c == Settled(n, m)
           o == Ran(n, m, rep)
           seeded == Seed(c, t)
           changes == Changes(c, t)
           refused == Refused(n, m)
<1>1. o = [ok |-> ~refused, net |-> seeded, last |-> changes, report |-> Merge(rep, changes)]
  BY DEF Ran
<1>2. /\ NetOK(c) /\ c = Standing(m.base, m.win, m.rec) /\ Tracks(t, n.tree, c.tree)
  BY SettledStands, TrackGrows, NothingTracked
<1>3. c.base = m.base /\ c.win = m.win /\ c.tree = RefTree(m.base, m.win)
  BY <1>2 DEF Standing
<1> HIDE DEF c, t
<1>4. changes = Diff(n.tree, RefTree(m.base, m.win))
  BY <1>2, <1>3, ChangesExact
<1>5. TreeOK(n.tree)
  BY TreeTyped
<1>6. /\ Publishing(seeded, Names(changes))
      /\ seeded = Standing(m.base, m.win, seeded.rec)
  BY <1>2, <1>3, <1>4, <1>5, ChangesExact, SeedPublishes
<1>7. refused <=> Clash(m.base, m.win)
  BY RefusedIsClash
<1> HIDE DEF seeded, changes, refused
<1>8. seeded.base = m.base /\ seeded.win = m.win
  BY <1>6 DEF Standing
<1> HIDE DEF o
<1>9. (o.ok <=> ~refused) /\ o.net = seeded /\ o.last = changes /\ o.report = Merge(rep, changes)
  <2>1. o.net = seeded /\ o.last = changes /\ o.report = Merge(rep, changes)
    BY <1>1
  <2>2. o.ok = ~refused
    BY <1>1, Zenon
  <2> QED BY <2>1, <2>2
<1>10. (o.ok <=> ~Clash(m.base, m.win)) /\ o.last = Diff(n.tree, RefTree(m.base, m.win))
  BY <1>4, <1>7, <1>9
<1>11. o.report = Merge(rep, o.last) /\ Publishing(o.net, Names(o.last))
  BY <1>6, <1>9
<1>12. /\ o.net = Standing(m.base, m.win, o.net.rec) /\ o.net.base = m.base /\ o.net.win = m.win
  BY <1>6, <1>8, <1>9, Zenon
<1> QED BY <1>10, <1>11, <1>12 DEF o

RunStep(o) ==
    IF o.ok /\ o.last # {} THEN Ran(o.net, WithWinners(o.net, Names(o.last)), o.report) ELSE o
Run(n, s) ==
    CHOOSE run : run = [i \in 0..NumDecides |->
                           IF i = 0 THEN Ran(n, WithOps(n, s), NoReport) ELSE RunStep(run[i - 1])]

LEMMA RunFacts ==
    ASSUME NEW n, NEW s
    PROVE  LET run == Run(n, s)
           IN  /\ run[0] = Ran(n, WithOps(n, s), NoReport)
               /\ \A i \in 0..(NumDecides - 1) : run[i + 1] = RunStep(run[i])
               /\ WholeRun(n, s) = run[NumDecides]
<1> DEFINE first == Ran(n, WithOps(n, s), NoReport)
           Good(g, m) == g = [i \in 0..m |-> IF i = 0 THEN first ELSE RunStep(g[i - 1])]
           Made == {m \in Nat : \E g : Good(g, m)}
           run == Run(n, s)
<1>1. WholeRun(n, s) = run[NumDecides]
  BY Zenon DEF WholeRun, Run, RunStep
<1>2. run = CHOOSE g : Good(g, NumDecides)
  BY DEF Run
<1> HIDE DEF first, run
<1>3. 0 \in Made
  <2>1. Good([i \in 0..0 |-> first], 0)
    OBVIOUS
  <2> QED BY <2>1
<1>4. ASSUME NEW m \in Nat, m \in Made PROVE m + 1 \in Made
  <2>1. PICK g : Good(g, m)
    BY <1>4
  <2> DEFINE h == [i \in 0..(m + 1) |-> IF i = m + 1 THEN RunStep(g[m]) ELSE g[i]]
  <2>2. ASSUME NEW i \in 0..(m + 1) PROVE h[i] = IF i = 0 THEN first ELSE RunStep(h[i - 1])
    <3>1. CASE i = m + 1
      <4>1. m \in 0..(m + 1) /\ i - 1 = m /\ m # m + 1 /\ i # 0
        BY <3>1
      <4>2. h[m] = g[m] /\ h[i] = RunStep(g[m])
        BY <3>1, <4>1
      <4> HIDE DEF h
      <4> QED BY <4>1, <4>2
    <3>2. CASE i # m + 1
      <4>1. i \in 0..m /\ h[i] = g[i] /\ (i # 0 => i - 1 \in 0..m /\ h[i - 1] = g[i - 1])
        BY <3>2
      <4>2. g[i] = IF i = 0 THEN first ELSE RunStep(g[i - 1])
        BY <2>1, <4>1
      <4> HIDE DEF h
      <4> QED BY <4>1, <4>2
    <3> QED BY <3>1, <3>2
  <2>3. h = [i \in 0..(m + 1) |-> h[i]]
    OBVIOUS
  <2> HIDE DEF h
  <2>4. Good(h, m + 1)
    BY <2>2, <2>3
  <2> HIDE DEF Good
  <2> QED BY <2>4
<1>5. NumDecides \in Nat /\ NumDecides \in Made
  <2>1. NumDecides \in Nat
    BY CascadeAssumption
  <2> HIDE DEF Made
  <2> QED BY <1>3, <1>4, <2>1, NumberInduction
<1>6. Good(run, NumDecides)
  <2>1. \E g : Good(g, NumDecides)
    BY <1>5
  <2> HIDE DEF Good
  <2> QED BY <1>2, <2>1
<1>7. \A i \in 0..NumDecides : run[i] = IF i = 0 THEN first ELSE RunStep(run[i - 1])
  BY <1>6
<1>8. run[0] = first
  BY <1>5, <1>7
<1>9. ASSUME NEW i \in 0..(NumDecides - 1) PROVE run[i + 1] = RunStep(run[i])
  <2>1. i + 1 \in 0..NumDecides /\ i + 1 # 0 /\ (i + 1) - 1 = i
    BY <1>5
  <2> QED BY <2>1, <1>7
<1> QED BY <1>1, <1>8, <1>9 DEF first, run

(* A run that is refused, or has nothing left to publish, stays there. *)
LEMMA RunStays ==
    ASSUME NEW n, NEW s, NEW i \in 0..NumDecides, ~Run(n, s)[i].ok \/ Run(n, s)[i].last = {}
    PROVE  WholeRun(n, s) = Run(n, s)[i]
<1> DEFINE run == Run(n, s)
           Same == {j \in Nat : i + j <= NumDecides => run[i + j] = run[i]}
<1>1. NumDecides \in Nat /\ i \in Nat
  BY CascadeAssumption
<1>2. \A j \in 0..(NumDecides - 1) : run[j + 1] = RunStep(run[j])
  BY RunFacts
<1>3. RunStep(run[i]) = run[i]
  BY DEF RunStep
<1>4. WholeRun(n, s) = run[NumDecides]
  BY RunFacts
<1> HIDE DEF run
<1>5. 0 \in Same
  BY <1>1
<1>6. ASSUME NEW j \in Nat, j \in Same PROVE j + 1 \in Same
  <2> SUFFICES ASSUME i + (j + 1) <= NumDecides PROVE run[i + (j + 1)] = run[i]
    OBVIOUS
  <2>1. i + j \in 0..(NumDecides - 1) /\ (i + j) + 1 = i + (j + 1) /\ i + j <= NumDecides
    BY <1>1
  <2> QED BY <2>1, <1>2, <1>3, <1>6
<1>7. \A j \in Nat : j \in Same
  <2> HIDE DEF Same
  <2> QED BY <1>5, <1>6, NumberInduction
<1>8. NumDecides - i \in Nat /\ i + (NumDecides - i) = NumDecides
  BY <1>1
<1> QED BY <1>1, <1>4, <1>7, <1>8 DEF run
-----------------------------------------------------------------------------
(* Reports. *)

Named(rep, d, e) == [d |-> d, e |-> e] \in Names(Encode(rep))

LEMMA NamesAre ==
    ASSUME NEW S, NEW y
    PROVE  y \in Names(S) <=> \E x \in S : y = [d |-> x.d, e |-> x.e]
  BY DEF Names

LEMMA EncodeIs ==
    ASSUME NEW rep, NEW x
    PROVE  x \in Encode(rep) <=>
             \/ x \in rep.set
             \/ \E y \in rep.gone : y \notin Names(rep.set) /\ x = [d |-> y.d, e |-> y.e, now |-> None]
  BY DEF Encode

LEMMA MergeFields ==
    ASSUME NEW rep, NEW changes
    PROVE  LET set == {x \in changes : x.now # None}
               new == Merge(rep, changes)
           IN  /\ new.set = {x \in rep.set : [d |-> x.d, e |-> x.e] \notin Names(set)} \cup set
               /\ new.gone = rep.gone \cup Names(changes \ set)
  BY DEF Merge

LEMMA NamedIs ==
    ASSUME NEW rep, NEW d, NEW e
    PROVE  Named(rep, d, e) <=> \/ \E x \in rep.set : x.d = d /\ x.e = e
                                \/ \E y \in rep.gone : y.d = d /\ y.e = e /\ y \notin Names(rep.set)
<1>1. Named(rep, d, e) <=> \E x \in Encode(rep) : x.d = d /\ x.e = e
  <2>1. \A x : [d |-> d, e |-> e] = [d |-> x.d, e |-> x.e] <=> x.d = d /\ x.e = e
    OBVIOUS
  <2> QED BY <2>1, NamesAre DEF Named
<1>2. ASSUME NEW x \in Encode(rep), x.d = d, x.e = e
      PROVE  \/ \E z \in rep.set : z.d = d /\ z.e = e
             \/ \E y \in rep.gone : y.d = d /\ y.e = e /\ y \notin Names(rep.set)
  <2>1. CASE x \in rep.set
    BY <2>1, <1>2
  <2>2. CASE x \notin rep.set
    <3>1. PICK y \in rep.gone : y \notin Names(rep.set) /\ x = [d |-> y.d, e |-> y.e, now |-> None]
      BY <2>2, EncodeIs
    <3>2. y.d = d /\ y.e = e
      BY <3>1, <1>2
    <3> QED BY <3>1, <3>2
  <2> QED BY <2>1, <2>2
<1>3. ASSUME NEW y \in rep.gone, y.d = d, y.e = e, y \notin Names(rep.set)
      PROVE  \E x \in Encode(rep) : x.d = d /\ x.e = e
  <2> DEFINE x == [d |-> y.d, e |-> y.e, now |-> None]
  <2>1. x \in Encode(rep) /\ x.d = d /\ x.e = e
    BY <1>3, EncodeIs
  <2> QED BY <2>1
<1>4. \A x \in rep.set : x \in Encode(rep)
  BY EncodeIs
<1> QED BY <1>1, <1>2, <1>3, <1>4

(* Merging a report keeps what is named and names what the stage changed. *)
LEMMA MergeNames ==
    ASSUME NEW rep, NEW changes, NEW d, NEW e,
           Named(rep, d, e) \/ \E x \in changes : x.d = d /\ x.e = e
    PROVE  Named(Merge(rep, changes), d, e)
<1> DEFINE set == {x \in changes : x.now # None}
           merged == Merge(rep, changes)
<1>1. /\ merged.set = {x \in rep.set : [d |-> x.d, e |-> x.e] \notin Names(set)} \cup set
      /\ merged.gone = rep.gone \cup Names(changes \ set)
  BY MergeFields
<1> SUFFICES Named(merged, d, e)
  OBVIOUS
<1> HIDE DEF merged, set
<1>2. /\ \A x \in set : x \in merged.set
      /\ \A y \in rep.gone : y \in merged.gone
      /\ \A y \in Names(changes \ set) : y \in merged.gone
      /\ \A x \in rep.set : [d |-> x.d, e |-> x.e] \notin Names(set) => x \in merged.set
  BY <1>1
<1>3. ASSUME NEW y \in merged.gone, y.d = d, y.e = e PROVE Named(merged, d, e)
  <2>1. CASE y \in Names(merged.set)
    <3>1. PICK x \in merged.set : y = [d |-> x.d, e |-> x.e]
      BY <2>1, NamesAre
    <3>2. x.d = d /\ x.e = e
      BY <3>1, <1>3
    <3> QED BY <3>2, NamedIs
  <2>2. CASE y \notin Names(merged.set)
    BY <2>2, <1>3, NamedIs
  <2> QED BY <2>1, <2>2
<1>4. ASSUME NEW x \in set, x.d = d, x.e = e PROVE Named(merged, d, e)
  <2>1. x \in merged.set
    BY <1>2
  <2> QED BY <2>1, <1>4, NamedIs
<1>5. CASE \E x \in changes : x.d = d /\ x.e = e
  <2>1. PICK x \in changes : x.d = d /\ x.e = e
    BY <1>5
  <2>2. CASE x \in set
    BY <2>1, <2>2, <1>4
  <2>3. CASE x \notin set
    <3> DEFINE y == [d |-> x.d, e |-> x.e]
    <3>1. x \in changes \ set
      BY <2>3
    <3>2. y \in Names(changes \ set)
      BY <3>1, NamesAre
    <3>3. y.d = d /\ y.e = e
      BY <2>1
    <3> HIDE DEF y
    <3>4. y \in merged.gone
      BY <3>2, <1>2
    <3> QED BY <3>3, <3>4, <1>3
  <2> QED BY <2>2, <2>3
<1>6. CASE Named(rep, d, e)
  <2>1. CASE \E y \in rep.gone : y.d = d /\ y.e = e
    BY <2>1, <1>2, <1>3
  <2>2. CASE ~\E y \in rep.gone : y.d = d /\ y.e = e
    <3>1. PICK x \in rep.set : x.d = d /\ x.e = e
      BY <2>2, <1>6, NamedIs
    <3>2. CASE [d |-> x.d, e |-> x.e] \in Names(set)
      <4>1. PICK z \in set : [d |-> x.d, e |-> x.e] = [d |-> z.d, e |-> z.e]
        BY <3>2, NamesAre
      <4>2. z.d = d /\ z.e = e
        BY <3>1, <4>1
      <4> QED BY <4>2, <1>4
    <3>3. CASE [d |-> x.d, e |-> x.e] \notin Names(set)
      <4>1. x \in merged.set
        BY <3>3, <1>2
      <4> QED BY <3>1, <4>1, NamedIs
    <3> QED BY <3>2, <3>3
  <2> QED BY <2>1, <2>2
<1> QED BY <1>5, <1>6

(* What a stage changes above the first stratum does not show there. *)
LEMMA MergeAbove ==
    ASSUME NEW rep, NEW changes, \A x \in changes : x.d # 1
    PROVE  {x \in Encode(Merge(rep, changes)) : x.d = 1} = {x \in Encode(rep) : x.d = 1}
<1> DEFINE set == {x \in changes : x.now # None}
           merged == Merge(rep, changes)
<1>1. /\ merged.set = {x \in rep.set : [d |-> x.d, e |-> x.e] \notin Names(set)} \cup set
      /\ merged.gone = rep.gone \cup Names(changes \ set)
  BY MergeFields
<1>2. \A x \in set : x.d # 1
  OBVIOUS
<1>3. \A S \in SUBSET changes : \A y \in Names(S) : y.d # 1
  BY NamesAre
<1>4. /\ \A y \in Names(set) : y.d # 1
      /\ \A y \in Names(changes \ set) : y.d # 1
  <2>1. set \in SUBSET changes /\ changes \ set \in SUBSET changes
    OBVIOUS
  <2> HIDE DEF set
  <2> QED BY <1>3, <2>1
<1> HIDE DEF set, merged
<1>5. ASSUME NEW x, x.d = 1 PROVE x \in merged.set <=> x \in rep.set
  <2>1. [d |-> x.d, e |-> x.e] \notin Names(set)
    <3> DEFINE y == [d |-> x.d, e |-> x.e]
    <3>1. y.d = 1
      BY <1>5
    <3> HIDE DEF y
    <3>2. y \notin Names(set)
      BY <1>4, <3>1
    <3> QED BY <3>2 DEF y
  <2>2. x \notin set
    BY <1>2, <1>5
  <2> QED BY <1>1, <2>1, <2>2
<1>6. ASSUME NEW y, y.d = 1 PROVE y \in merged.gone <=> y \in rep.gone
  BY <1>1, <1>4, <1>6
<1>7. ASSUME NEW y, y.d = 1 PROVE y \in Names(merged.set) <=> y \in Names(rep.set)
  <2>1. ASSUME NEW S, y \in Names(S) PROVE \E x \in S : x.d = 1 /\ y = [d |-> x.d, e |-> x.e]
    <3>1. PICK x \in S : y = [d |-> x.d, e |-> x.e]
      BY <2>1, NamesAre
    <3>2. x.d = 1
      BY <3>1, <1>7
    <3> QED BY <3>1, <3>2
  <2> QED BY <2>1, <1>5, NamesAre
<1>8. ASSUME NEW x, x.d = 1, NEW rep1, NEW rep2,
             \A z : z.d = 1 => /\ z \in rep1.set <=> z \in rep2.set
                               /\ z \in rep1.gone <=> z \in rep2.gone
                               /\ z \in Names(rep1.set) <=> z \in Names(rep2.set),
             x \in Encode(rep1)
      PROVE  x \in Encode(rep2)
  <2>1. CASE x \in rep1.set
    BY <2>1, <1>8, EncodeIs
  <2>2. CASE x \notin rep1.set
    <3>1. PICK y \in rep1.gone : y \notin Names(rep1.set) /\ x = [d |-> y.d, e |-> y.e, now |-> None]
      BY <2>2, <1>8, EncodeIs
    <3>2. y.d = 1
      BY <3>1, <1>8
    <3>3. y \in rep2.gone /\ y \notin Names(rep2.set)
      BY <3>1, <3>2, <1>8
    <3> QED BY <3>1, <3>3, EncodeIs
  <2> QED BY <2>1, <2>2
<1>9. \A x : x.d = 1 => (x \in Encode(merged) <=> x \in Encode(rep))
  <2>1. \A z : z.d = 1 => /\ z \in merged.set <=> z \in rep.set
                          /\ z \in merged.gone <=> z \in rep.gone
                          /\ z \in Names(merged.set) <=> z \in Names(rep.set)
    BY <1>5, <1>6, <1>7
  <2> QED BY <1>8, <2>1
<1> QED BY <1>9 DEF merged

(* The report of the base operations is the difference they made. *)
LEMMA FirstReport ==
    ASSUME NEW old, NEW new
    PROVE  Encode(Merge(NoReport, Diff(old, new))) = Diff(old, new)
<1> DEFINE changes == Diff(old, new)
           set == {x \in changes : x.now # None}
           merged == Merge(NoReport, changes)
<1>1. merged.set = set /\ merged.gone = Names(changes \ set)
  <2>1. NoReport.set = {} /\ NoReport.gone = {}
    BY DEF NoReport
  <2> HIDE DEF changes
  <2>2. /\ merged.set = {x \in NoReport.set : [d |-> x.d, e |-> x.e] \notin Names(set)} \cup set
        /\ merged.gone = NoReport.gone \cup Names(changes \ set)
    BY MergeFields
  <2> HIDE DEF merged, set
  <2> QED BY <2>1, <2>2
<1>2. \A x \in changes : /\ x.d \in Decide /\ x.e \in Entity
                         /\ x = [d |-> x.d, e |-> x.e, now |-> new[x.d][x.e]]
  BY DiffFacts
<1> HIDE DEF changes, merged
<1>3. ASSUME NEW x \in changes PROVE x \in Encode(merged)
  <2>1. CASE x.now # None
    BY <2>1, <1>1, EncodeIs
  <2>2. CASE x.now = None
    <3> DEFINE y == [d |-> x.d, e |-> x.e]
    <3>1. x \in changes \ set /\ y.d = x.d /\ y.e = x.e
      BY <2>2
    <3>2. y \in merged.gone
      BY <3>1, <1>1, NamesAre
    <3>3. y \notin Names(set)
      <4> SUFFICES ASSUME NEW z \in set, y = [d |-> z.d, e |-> z.e] PROVE FALSE
        BY NamesAre
      <4>1. z.d = x.d /\ z.e = x.e /\ z \in changes /\ z.now # None
        BY <3>1
      <4>2. z = [d |-> z.d, e |-> z.e, now |-> new[z.d][z.e]] /\ x = [d |-> x.d, e |-> x.e, now |-> new[x.d][x.e]]
        BY <4>1, <1>2
      <4>3. z = x
        BY <4>1, <4>2
      <4> QED BY <4>1, <4>3, <2>2
    <3>4. x = [d |-> y.d, e |-> y.e, now |-> None]
      BY <1>2, <2>2, <3>1
    <3> HIDE DEF y
    <3> QED BY <3>2, <3>3, <3>4, <1>1, EncodeIs
  <2> QED BY <2>1, <2>2
<1>4. ASSUME NEW x \in Encode(merged) PROVE x \in changes
  <2>1. CASE x \in merged.set
    BY <2>1, <1>1
  <2>2. CASE x \notin merged.set
    <3>1. PICK y \in merged.gone : x = [d |-> y.d, e |-> y.e, now |-> None]
      BY <2>2, EncodeIs
    <3>2. PICK z \in changes \ set : y = [d |-> z.d, e |-> z.e]
      BY <3>1, <1>1, NamesAre
    <3>3. z.now = None /\ z = [d |-> z.d, e |-> z.e, now |-> new[z.d][z.e]]
      BY <3>2, <1>2
    <3>4. z.now = new[z.d][z.e]
      BY <1>2, <3>2
    <3>5. x = [d |-> z.d, e |-> z.e, now |-> None]
      BY <3>1, <3>2
    <3>6. x = z
      BY <3>3, <3>4, <3>5
    <3> QED BY <3>2, <3>6
  <2> QED BY <2>1, <2>2
<1> QED BY <1>3, <1>4 DEF changes, merged
-----------------------------------------------------------------------------
(* A batch in flight is on the run of the same batch in one chunk. *)

(* The whole run has been at the rows the batch is at, with the same report *)
(* and the same changes to publish; those are of strata above its stage.    *)
OnRun(i) ==
    LET o == Run(Origin, ops)[i]
    IN  /\ o.ok /\ o.last = last /\ o.report = report
        /\ o.net.base = staged.base /\ o.net.win = staged.win
        /\ Publishing(o.net, Names(last))
        /\ \A x \in last : x.d \in Decide /\ i < x.d

(* The report names what has changed and is exact for the first stratum. *)
Reported ==
    /\ \A d \in Decide, e \in Entity : Origin.tree[d][e] # staged.tree[d][e] => Named(report, d, e)
    /\ {x \in Encode(report) : x.d = 1} = {x \in Diff(Origin.tree, staged.tree) : x.d = 1}

Applying ==
    /\ Applied(staged.base, Origin.base, ops, done)
    /\ done = 0 => staged = Origin
    /\ done # 0 => ~Clash(staged.base, staged.win)

Cascading ==
    /\ staged.base = After(Origin.base, ops)
    /\ \E i \in 0..NumDecides : OnRun(i)
    /\ Reported

RunInv ==
    /\ phase # "idle" => /\ ops # <<>> /\ OncePerKey(ops)
                         /\ goal # "commit" => ops = SetToSeq(Facts(net.base))
    /\ phase = "chunks" => Applying
    /\ phase = "stages" => Cascading

(* A stage settles one stratum: what it publishes is of strata above i, so  *)
(* what it changes is of strata above i + 1.                               *)
LEMMA StageClimbs ==
    ASSUME NEW c, NEW D, Publishing(c, D), NEW i \in Nat, \A x \in D : i < x.d
    PROVE  \A x \in Diff(c.tree, RefTree(c.base, Winners(c.tree))) : x.d \in Decide /\ i + 1 < x.d
<1> DEFINE win == Winners(c.tree)
           new == RefTree(c.base, win)
<1>1. NetOK(c) /\ c.tree = RefTree(c.base, c.win) /\ WinOK(c.win)
  BY NetFields DEF Publishing
<1>2. \A w \in c.win : w.d \in Decide
  BY <1>1 DEF WinOK, WinnerRows
<1>3. \A w \in win : w.d \in Decide
  BY WinnersAre
<1> HIDE DEF win
<1>4. ASSUME NEW d \in Decide, d <= i + 1 PROVE Below(c.win, d) = Below(win, d)
  <2>1. ASSUME NEW w, w.d \in Decide, w.d < d PROVE [d |-> w.d, e |-> w.e] \notin D
    <3> DEFINE y == [d |-> w.d, e |-> w.e]
    <3>1. y.d = w.d
      OBVIOUS
    <3> HIDE DEF y
    <3>2. ~(i < w.d)
      BY <2>1, <1>4 DEF Decide
    <3>3. y \notin D
      BY <3>1, <3>2
    <3> QED BY <3>3 DEF y
  <2>2. ASSUME NEW w \in c.win, w.d < d PROVE w \in win
    BY <2>1, <2>2, <1>2 DEF Publishing, win
  <2>3. ASSUME NEW w \in win, w.d < d PROVE w \in c.win
    BY <2>1, <2>3, <1>3 DEF Publishing, win
  <2> QED BY <2>2, <2>3 DEF Below
<1>5. ASSUME NEW d \in Decide, NEW e \in Entity, d <= i + 1 PROVE c.tree[d][e] = new[d][e]
  <2>1. RefSupports(c.base, c.win, d) = RefSupports(c.base, win, d)
    BY <1>4, <1>5 DEF RefSupports
  <2> QED BY <2>1, <1>1, RefTreeAt
<1> HIDE DEF new
<1>6. ASSUME NEW x \in Diff(c.tree, new) PROVE x.d \in Decide /\ i + 1 < x.d
  <2>1. PICK d \in Decide, e \in Entity :
           c.tree[d][e] # new[d][e] /\ x = [d |-> d, e |-> e, now |-> new[d][e]]
    BY DiffFacts
  <2>2. x.d = d /\ ~(d <= i + 1) /\ d \in Nat
    BY <2>1, <1>5 DEF Decide
  <2> QED BY <2>2
<1> QED BY <1>6 DEF new, win

(* The names of changes are of their strata. *)
LEMMA NamesAbove ==
    ASSUME NEW S, NEW i, \A x \in S : x.d \in Decide /\ i < x.d
    PROVE  \A y \in Names(S) : i < y.d
<1> SUFFICES ASSUME NEW y \in Names(S) PROVE i < y.d
  OBVIOUS
<1>1. PICK x \in S : y = [d |-> x.d, e |-> x.e]
  BY NamesAre
<1>2. y.d = x.d
  BY <1>1
<1> QED BY <1>2

LEMMA BeginsRun ==
    ASSUME phase' = "chunks", done' = 0, staged' = Origin', ops' # <<>>, OncePerKey(ops'),
           goal' # "commit" => ops' = SetToSeq(Facts(net'.base))
    PROVE  RunInv'
<1>1. Applied(staged'.base, Origin'.base, ops', 0)
  <2>1. \A i \in 1..0 : FALSE
    OBVIOUS
  <2> QED BY <2>1 DEF Applied
<1>2. Applying'
  BY <1>1 DEF Applying
<1> QED BY <1>2 DEF RunInv

LEMMA EndsRun ==
    ASSUME NoBatch
    PROVE  RunInv'
  BY DEF NoBatch, RunInv

LEMMA BeginBatchRun ==
    ASSUME CascadeInv, NEW s \in Batches, NEW m, BeginBatch(s, m)
    PROVE  RunInv'
<1>1. s \in Seq(Operation) /\ s # <<>> /\ DOMAIN s = 1..Len(s)
  <2>1. PICK n \in 1..MaxOps : s \in [1..n -> Operation]
    BY DEF Batches
  <2>2. s \in Seq(Operation) /\ Len(s) = n /\ n # 0
    BY <2>1, CascadeAssumption
  <2> QED BY <2>2
<1>2. OncePerKey(s)
  BY <1>1 DEF Batches, OncePerKey
<1>3. staged' = Origin' /\ ops' = s /\ phase' = "chunks" /\ done' = 0 /\ goal' = "commit"
  BY DEF BeginBatch, Origin
<1> QED BY <1>1, <1>2, <1>3, BeginsRun

(* The facts of a world are one per key. *)
LEMMA FactsOncePerKey ==
    ASSUME NEW base
    PROVE  OncePerKey(SetToSeq(Facts(base)))
<1> DEFINE s == SetToSeq(Facts(base))
<1>1. /\ \A i \in 1..Len(s) : s[i] \in Facts(base)
      /\ \A i, j \in 1..Len(s) : s[i] = s[j] => i = j
  BY FactsListed
<1>2. \A op \in Facts(base) : op = [r |-> op.r, k |-> op.k, row |-> op.row] /\ op.row = base[op.r][op.k]
  BY DEF Facts, Operation
<1> HIDE DEF s
<1>3. ASSUME NEW i \in 1..Len(s), NEW j \in 1..Len(s), s[i].r = s[j].r, s[i].k = s[j].k PROVE i = j
  <2>1. s[i].row = s[j].row
    BY <1>1, <1>2, <1>3
  <2>2. s[i] = s[j]
    BY <1>1, <1>2, <1>3, <2>1
  <2> QED BY <1>1, <2>2
<1>4. OncePerKey(s)
  BY <1>3 DEF OncePerKey
<1> QED BY <1>4 DEF s

LEMMA BeginRebuildRun ==
    ASSUME CascadeInv, NEW m, BeginRebuild(m)
    PROVE  RunInv'
<1> DEFINE s == SetToSeq(Facts(net.base))
<1>1. s \in Seq(Operation) /\ Len(s) = Cardinality(Facts(net.base)) /\ Len(s) \in Nat
  BY FactsListed
<1>2. OncePerKey(s)
  BY FactsOncePerKey
<1>3. /\ staged' = Origin' /\ ops' = s /\ phase' = "chunks" /\ done' = 0 /\ net' = net
      /\ goal' = "rebuild" /\ Cardinality(Facts(net.base)) > (IF m = "whole" THEN 0 ELSE 1)
  BY DEF BeginRebuild, Origin
<1> HIDE DEF s
<1>4. Len(s) # 0
  BY <1>1, <1>3
<1>5. s # <<>>
  BY <1>1, <1>4
<1> QED BY <1>2, <1>3, <1>5, BeginsRun DEF s

LEMMA RefusalRun ==
    ASSUME RunInv, phase # "idle", OnRefusal
    PROVE  RunInv'
<1>1. CASE mode = "chunked"
  BY <1>1, BeginsRun DEF OnRefusal, RunInv, Origin
<1>2. CASE mode # "chunked"
  BY <1>2, EndsRun DEF OnRefusal
<1> QED BY <1>1, <1>2
LEMMA ChunkRun ==
    ASSUME CascadeInv, RunInv, NEW size \in 1..Len(ops), ApplyChunk(size)
    PROVE  RunInv'
<1> DEFINE m == WithOps(staged, Part(size))
<1>1. /\ phase = "chunks" /\ done < Len(ops) /\ size \in ChunkSize
      /\ NetOK(staged) /\ ops \in Seq(Operation) /\ Applying
      /\ OncePerKey(ops)
  BY DEF ApplyChunk, CascadeInv, Chunking, RunInv
<1>2. /\ done \in Nat /\ size \in Nat /\ Len(ops) \in Nat /\ done + size <= Len(ops)
      /\ Part(size) \in Seq(Operation)
  BY <1>1, PartTyped
<1>3. CASE Refused(staged, m)
  BY <1>1, <1>3, RefusalRun DEF ApplyChunk, Part
<1>4. CASE ~Refused(staged, m)
  <2>1. /\ staged' = Settled(staged, m) /\ done' = done + size
        /\ UNCHANGED <<net, phase, goal, ops>>
    BY <1>4 DEF ApplyChunk, Part
  <2>2. Moved(staged, m) /\ m.win = staged.win /\ m.base = After(staged.base, Part(size))
    BY <1>1, <1>2, OpsMove
  <2>3. ~Clash(m.base, m.win)
    BY <1>1, <1>4, RefusedIsClash
  <2> HIDE DEF m
  <2>4. staged'.base = m.base /\ staged'.win = m.win
    <3>1. staged' = Standing(m.base, m.win, m.rec)
      BY <1>1, <2>1, <2>2, SettledStands
    <3> QED BY <3>1 DEF Standing
  <2>5. Applied(staged'.base, Origin.base, ops, done + size)
    BY <1>1, <1>2, <2>2, <2>4, AppliedMore DEF Applying, Part
  <2>6. Origin' = Origin /\ done' # 0
    BY <1>2, <2>1 DEF Origin
  <2>7. Applying'
    BY <2>1, <2>3, <2>4, <2>5, <2>6 DEF Applying
  <2> QED BY <1>1, <2>1, <2>7 DEF RunInv
<1> QED BY <1>3, <1>4

(* The whole run's first step: the batch applied at once. *)
LEMMA RunBegins ==
    ASSUME CascadeInv, RunInv, phase # "idle"
    PROVE  LET o == Run(Origin, ops)[0]
               base == After(Origin.base, ops)
               win == Origin.win
           IN  /\ o.ok <=> ~Clash(base, win)
               /\ o.last = Diff(Origin.tree, RefTree(base, win))
               /\ o.report = Merge(NoReport, o.last)
               /\ Publishing(o.net, Names(o.last))
               /\ o.net.base = base /\ o.net.win = win
<1> DEFINE m == WithOps(Origin, ops)
<1>1. NetOK(Origin) /\ Origin.win = Winners(Origin.tree) /\ ops \in Seq(Operation)
  BY OriginAtRest DEF CascadeInv, AtRest
<1>2. Moved(Origin, m) /\ m.win = Origin.win /\ m.base = After(Origin.base, ops)
  BY <1>1, OpsMove
<1>3. Run(Origin, ops)[0] = Ran(Origin, m, NoReport)
  BY RunFacts
<1> HIDE DEF m
<1> QED BY <1>1, <1>2, <1>3, RanFacts

LEMMA FinishRun ==
    ASSUME CascadeInv, RunInv, Finish
    PROVE  RunInv'
<1> DEFINE o == Run(Origin, ops)[0]
<1>1. /\ phase = "chunks" /\ done = Len(ops) /\ ops \in Seq(Operation) /\ ops # <<>> /\ OncePerKey(ops)
      /\ NetOK(staged) /\ staged.win = Origin.win /\ Applying
      /\ phase' = "stages" /\ UNCHANGED <<net, goal, ops>>
  BY DEF Finish, CascadeInv, RunInv, Chunking
<1>2. done # 0
  BY <1>1
<1>3. NetOK(Origin) /\ Origin.base \in Bases /\ staged.base \in Bases
      /\ staged.tree = RefTree(staged.base, staged.win)
  BY <1>1, OriginAtRest, NetFields DEF CascadeInv, AtRest
<1>4. staged.base = After(Origin.base, ops)
  BY <1>1, <1>3, AppliedAll DEF Applying
<1>5. ~Clash(staged.base, staged.win)
  BY <1>1, <1>2 DEF Applying
<1>6. /\ last' = Diff(Origin.tree, staged.tree)
      /\ staged' = Standing(staged.base, staged.win, staged'.rec)
      /\ report' = Merge(NoReport, last')
  BY FinishInv DEF Finish
<1>7. staged'.base = staged.base /\ staged'.win = staged.win /\ staged'.tree = staged.tree
  <2> DEFINE b == staged.base
             w == staged.win
             r == staged'.rec
  <2>1. staged' = Standing(b, w, r) /\ staged.tree = RefTree(b, w)
    BY <1>3, <1>6
  <2> HIDE DEF b, w, r
  <2>2. staged'.base = b /\ staged'.win = w /\ staged'.tree = RefTree(b, w)
    BY <2>1 DEF Standing
  <2> QED BY <2>1, <2>2 DEF b, w
<1>8. /\ o.ok <=> ~Clash(staged.base, staged.win)
      /\ o.last = Diff(Origin.tree, staged.tree)
      /\ o.report = Merge(NoReport, o.last)
      /\ Publishing(o.net, Names(o.last))
      /\ o.net.base = staged.base /\ o.net.win = staged.win
  BY <1>1, <1>3, <1>4, RunBegins
<1>9. \A x \in last' : x.d \in Decide /\ 0 < x.d
  <2>1. \A x \in last' : x.d \in Decide
    <3> SUFFICES ASSUME NEW x \in last' PROVE x.d \in Decide
      OBVIOUS
    <3>1. PICK d \in Decide, e \in Entity : x = [d |-> d, e |-> e, now |-> staged.tree[d][e]]
      BY <1>6, DiffFacts
    <3> QED BY <3>1
  <2> QED BY <2>1 DEF Decide
<1>10. Origin' = Origin
  BY <1>1 DEF Origin
<1> HIDE DEF o
<1>11. o' = o
  BY <1>1, <1>10 DEF o
<1>12. OnRun(0)'
  <2>1. o'.ok /\ o'.last = last' /\ o'.report = report'
    BY <1>5, <1>6, <1>8, <1>11
  <2>2. o'.net.base = staged'.base /\ o'.net.win = staged'.win /\ Publishing(o'.net, Names(last'))
    BY <1>6, <1>7, <1>8, <1>11
  <2> QED BY <1>9, <2>1, <2>2 DEF OnRun, o
<1>13. Reported'
  <2>1. ASSUME NEW d \in Decide, NEW e \in Entity, Origin.tree[d][e] # staged.tree[d][e]
        PROVE  Named(report', d, e)
    <3> DEFINE x == [d |-> d, e |-> e, now |-> staged.tree[d][e]]
    <3>1. x \in last' /\ x.d = d /\ x.e = e
      BY <1>6, <2>1, DiffFacts
    <3> HIDE DEF x
    <3>2. \E y \in last' : y.d = d /\ y.e = e
      BY <3>1
    <3> QED BY <1>6, <3>2, MergeNames
  <2>2. Encode(report') = Diff(Origin.tree, staged.tree)
    BY <1>6, FirstReport
  <2> QED BY <1>7, <1>10, <2>1, <2>2 DEF Reported
<1>14. 0 \in 0..NumDecides
  BY CascadeAssumption
<1>15. Cascading'
  BY <1>1, <1>4, <1>7, <1>10, <1>12, <1>13, <1>14 DEF Cascading
<1> QED BY <1>1, <1>15 DEF RunInv

(* A stage of the batch is a step of the whole run. *)
LEMMA RunGoesOn ==
    ASSUME CascadeInv, NEW i \in 0..NumDecides, OnRun(i), Stage
    PROVE  LET m == WithWinners(staged, Published)
               o == Run(Origin, ops)[i + 1]
               new == RefTree(m.base, m.win)
           IN  /\ i + 1 \in 0..NumDecides
               /\ m.base = staged.base /\ m.win = Winners(staged.tree)
               /\ o.ok <=> ~Refused(staged, m)
               /\ o.last = Diff(staged.tree, new)
               /\ o.report = Merge(report, o.last)
               /\ Publishing(o.net, Names(o.last))
               /\ o.net.base = m.base /\ o.net.win = m.win
               /\ \A x \in o.last : x.d \in Decide /\ i + 1 < x.d
<1> DEFINE m == WithWinners(staged, Published)
           here == Run(Origin, ops)[i]
           o == Run(Origin, ops)[i + 1]
           k == WithWinners(here.net, Names(last))
<1>1. /\ NetOK(staged) /\ m.base = staged.base /\ m.win = Winners(staged.tree)
  BY StageSteps
<1>2. Refused(staged, m) <=> Clash(m.base, m.win)
  BY <1>1, RefusedIsClash
<1> HIDE DEF m
<1>3. /\ here.ok /\ here.last = last /\ here.report = report
      /\ here.net.base = staged.base /\ here.net.win = staged.win
      /\ Publishing(here.net, Names(last))
      /\ \A x \in last : x.d \in Decide /\ i < x.d
  BY DEF OnRun
<1>4. last # {}
  <2>1. Names(last) # {}
    BY DEF Stage, Published
  <2> QED BY <2>1 DEF Names
<1>5. i \in Nat /\ i + 1 \in 0..NumDecides /\ i \in 0..(NumDecides - 1)
  <2>1. PICK x \in last : x.d \in Decide /\ i < x.d
    BY <1>3, <1>4
  <2> QED BY <2>1, CascadeAssumption DEF Decide
<1>6. o = RunStep(here)
  BY <1>5, RunFacts
<1>7. NetOK(here.net) /\ here.net.tree = staged.tree
  <2>1. NetOK(here.net)
    BY <1>3 DEF Publishing
  <2>2. here.net.tree = RefTree(here.net.base, here.net.win) /\ staged.tree = RefTree(staged.base, staged.win)
    BY <1>1, <2>1, NetFields
  <2> QED BY <1>3, <2>1, <2>2
<1> HIDE DEF here, o
<1>8. o = Ran(here.net, k, report)
  BY <1>3, <1>4, <1>6 DEF RunStep
<1>9. Moved(here.net, k) /\ k.base = m.base /\ k.win = m.win /\ k.win = Winners(here.net.tree)
  BY <1>1, <1>3, <1>7, PublishedMoves
<1> HIDE DEF k
<1>10. /\ o.ok <=> ~Clash(m.base, m.win)
       /\ o.last = Diff(staged.tree, RefTree(m.base, m.win))
       /\ o.report = Merge(report, o.last)
       /\ Publishing(o.net, Names(o.last))
       /\ o.net.base = m.base /\ o.net.win = m.win
  BY <1>7, <1>8, <1>9, RanFacts
<1>11. \A x \in Diff(staged.tree, RefTree(m.base, m.win)) : x.d \in Decide /\ i + 1 < x.d
  <2>1. \A y \in Names(last) : i < y.d
    BY <1>3, NamesAbove
  <2>2. Publishing(staged, Names(last))
    BY DEF CascadeInv, Stage
  <2> QED BY <1>1, <1>5, <2>1, <2>2, StageClimbs
<1> QED BY <1>1, <1>2, <1>5, <1>10, <1>11 DEF m, o

LEMMA StageRun ==
    ASSUME CascadeInv, RunInv, Stage
    PROVE  RunInv'
<1> DEFINE m == WithWinners(staged, Published)
<1>1. phase = "stages" /\ Cascading /\ ops # <<>> /\ OncePerKey(ops)
      /\ (goal # "commit" => ops = SetToSeq(Facts(net.base)))
  BY DEF Stage, RunInv
<1>2. CASE Refused(staged, m)
  BY <1>1, <1>2, StageSteps, RefusalRun
<1>3. CASE ~Refused(staged, m)
  <2> DEFINE n == Settled(staged, m)
             new == RefTree(m.base, m.win)
  <2>1. /\ n = Standing(m.base, m.win, m.rec)
        /\ last' = Diff(staged.tree, n.tree)
        /\ report' = Merge(report, last')
        /\ staged' = Standing(m.base, m.win, staged'.rec)
        /\ UNCHANGED <<net, phase, goal, ops>>
    BY <1>3, StageSteps
  <2>2. PICK i \in 0..NumDecides : OnRun(i)
    BY <1>1 DEF Cascading
  <2> DEFINE o == Run(Origin, ops)[i + 1]
  <2>3. /\ i + 1 \in 0..NumDecides /\ m.base = staged.base
        /\ o.ok <=> ~Refused(staged, m)
        /\ o.last = Diff(staged.tree, new)
        /\ o.report = Merge(report, o.last)
        /\ Publishing(o.net, Names(o.last))
        /\ o.net.base = m.base /\ o.net.win = m.win
        /\ \A x \in o.last : x.d \in Decide /\ i + 1 < x.d
    BY <2>2, RunGoesOn
  <2>4. /\ n.tree = new /\ staged'.base = m.base /\ staged'.win = m.win /\ staged'.tree = new
    <3> DEFINE b == m.base
               w == m.win
               r == m.rec
               q == staged'.rec
    <3>1. n = Standing(b, w, r) /\ staged' = Standing(b, w, q)
      BY <2>1
    <3> HIDE DEF b, w, r, q, n
    <3>2. n.tree = RefTree(b, w) /\ staged'.base = b /\ staged'.win = w /\ staged'.tree = RefTree(b, w)
      BY <3>1 DEF Standing
    <3> QED BY <3>2 DEF b, w
  <2>5. Origin' = Origin
    BY <2>1 DEF Origin
  <2> HIDE DEF m, n, new, o
  <2>6. o' = o
    BY <2>1, <2>5 DEF o
  <2>7. OnRun(i + 1)'
    <3>1. last' = o.last /\ report' = o.report
      BY <2>1, <2>3, <2>4
    <3>2. o'.ok /\ o'.last = last' /\ o'.report = report'
      BY <1>3, <2>3, <2>6, <3>1
    <3>3. /\ o'.net.base = staged'.base /\ o'.net.win = staged'.win /\ Publishing(o'.net, Names(last'))
          /\ \A x \in last' : x.d \in Decide /\ i + 1 < x.d
      BY <2>3, <2>4, <2>6, <3>1
    <3> QED BY <3>2, <3>3 DEF OnRun, o
  <2>8. last' = Diff(staged.tree, new) /\ \A x \in last' : x.d # 1
    BY <2>1, <2>3, <2>4 DEF Decide
  <2>9. Reported'
    <3>1. ASSUME NEW d \in Decide, NEW e \in Entity, staged.tree[d][e] # new[d][e]
          PROVE  \E x \in last' : x.d = d /\ x.e = e
      <4> DEFINE x == [d |-> d, e |-> e, now |-> new[d][e]]
      <4>1. x \in last' /\ x.d = d /\ x.e = e
        BY <2>8, <3>1, DiffFacts
      <4> HIDE DEF x
      <4> QED BY <4>1
    <3>2. ASSUME NEW d \in Decide, NEW e \in Entity, Origin.tree[d][e] # new[d][e]
          PROVE  Named(report', d, e)
      <4>1. CASE staged.tree[d][e] # new[d][e]
        BY <2>1, <3>1, <4>1, MergeNames
      <4>2. CASE staged.tree[d][e] = new[d][e]
        <5>1. Named(report, d, e)
          BY <1>1, <3>2, <4>2 DEF Cascading, Reported
        <5> QED BY <2>1, <5>1, MergeNames
      <4> QED BY <4>1, <4>2
    <3>3. {x \in Encode(report') : x.d = 1} = {x \in Encode(report) : x.d = 1}
      BY <2>1, <2>8, MergeAbove
    <3>4. \A d \in Decide, e \in Entity : d = 1 => staged.tree[d][e] = new[d][e]
      BY <2>8, <3>1
    <3>5. ASSUME NEW x, x.d = 1
          PROVE  x \in Diff(Origin.tree, staged.tree) <=> x \in Diff(Origin.tree, new)
      <4>1. ASSUME NEW A, NEW B, \A d \in Decide, e \in Entity : d = 1 => A[d][e] = B[d][e],
                   x \in Diff(Origin.tree, A)
            PROVE  x \in Diff(Origin.tree, B)
        <5>1. PICK d \in Decide, e \in Entity :
                 Origin.tree[d][e] # A[d][e] /\ x = [d |-> d, e |-> e, now |-> A[d][e]]
          BY <4>1, DiffFacts
        <5>2. d = 1
          BY <5>1, <3>5
        <5>3. A[d][e] = B[d][e]
          BY <4>1, <5>2
        <5> QED BY <5>1, <5>3, DiffFacts
      <4> QED BY <4>1, <3>4
    <3>6. {x \in Encode(report') : x.d = 1} = {x \in Diff(Origin.tree, new) : x.d = 1}
      <4>1. {x \in Encode(report) : x.d = 1} = {x \in Diff(Origin.tree, staged.tree) : x.d = 1}
        BY <1>1 DEF Cascading, Reported
      <4> QED BY <3>3, <3>5, <4>1
    <3> QED BY <2>4, <2>5, <3>2, <3>6 DEF Reported
  <2>10. Cascading'
    BY <1>1, <2>1, <2>3, <2>4, <2>5, <2>7, <2>9 DEF Cascading
  <2> QED BY <1>1, <2>1, <2>10 DEF RunInv
<1> QED BY <1>2, <1>3
LEMMA RunStutter ==
    ASSUME RunInv, UNCHANGED vars
    PROVE  RunInv'
<1>1. net' = net /\ staged' = staged /\ phase' = phase /\ goal' = goal /\ ops' = ops /\ done' = done
      /\ last' = last /\ report' = report
  BY DEF vars, batch
<1>2. Origin' = Origin
  BY <1>1 DEF Origin
<1>3. ASSUME NEW i PROVE OnRun(i) => OnRun(i)'
  BY <1>1, <1>2 DEF OnRun
<1>4. Reported => Reported'
  BY <1>1, <1>2 DEF Reported
<1>5. Applying => Applying'
  BY <1>1, <1>2 DEF Applying
<1>6. Cascading => Cascading'
  BY <1>1, <1>2, <1>3, <1>4 DEF Cascading
<1> QED BY <1>1, <1>5, <1>6 DEF RunInv

LEMMA RunInvariance == Spec => [](CascadeInv /\ RunInv)
<1>1. Init => RunInv
  BY DEF Init, RunInv
<1>2. CascadeInv /\ RunInv /\ [Next]_vars => RunInv'
  <2> SUFFICES ASSUME CascadeInv, RunInv, [Next]_vars PROVE RunInv'
    OBVIOUS
  <2>1. ASSUME NEW s \in Batches, NEW m, BeginBatch(s, m) PROVE RunInv'
    BY <2>1, BeginBatchRun
  <2>2. ASSUME NEW m, BeginRebuild(m) PROVE RunInv'
    BY <2>2, BeginRebuildRun
  <2>3. ASSUME NEW size \in 1..Len(ops), ApplyChunk(size) PROVE RunInv'
    BY <2>3, ChunkRun
  <2>4. CASE EnvironmentFails \/ Exhausted \/ Commit
    BY <2>4, EndsRun DEF EnvironmentFails, Exhausted, Commit
  <2>5. CASE Finish
    BY <2>5, FinishRun
  <2>6. CASE Stage
    BY <2>6, StageRun
  <2>7. CASE Restore
    BY <2>7 DEF Restore, batch, RunInv
  <2>8. CASE UNCHANGED vars
    BY <2>8, RunStutter
  <2> QED BY <2>1, <2>2, <2>3, <2>4, <2>5, <2>6, <2>7, <2>8 DEF Next, Step
<1> QED BY <1>1, <1>2, CascadeInvariance, PTL DEF Spec
-----------------------------------------------------------------------------
(* What a batch commits, and when it is refused. *)

(* Networks that stand on the same rows differ in their records only. *)
LEMMA SameRows ==
    ASSUME NEW n, NetOK(n), NEW c, NetOK(c), n.base = c.base, n.win = c.win
    PROVE  [n EXCEPT !.rec = {}] = [c EXCEPT !.rec = {}]
<1> DEFINE b == n.base
           w == n.win
           r == n.rec
           q == c.rec
           supports == [d \in Decide |-> RefSupports(b, w, d)]
<1>1. n = Standing(b, w, r) /\ c = Standing(b, w, q)
  BY DEF NetOK
<1> HIDE DEF b, w, r, q
<1>2. \A any : Standing(b, w, any) =
             [base |-> b, win |-> w, rec |-> any, cand |-> supports, tree |-> RefTree(b, w)]
  BY DEF Standing
<1> HIDE DEF supports
<1>3. /\ n = [base |-> b, win |-> w, rec |-> r, cand |-> supports, tree |-> RefTree(b, w)]
      /\ c = [base |-> b, win |-> w, rec |-> q, cand |-> supports, tree |-> RefTree(b, w)]
  BY <1>1, <1>2
<1> QED BY <1>3

LEMMA CommitIsWhole ==
    ASSUME CascadeInv, RunInv, Commit
    PROVE  LET o == WholeRun(Origin, ops)
           IN  /\ o.ok
               /\ [o.net EXCEPT !.rec = {}] = [staged EXCEPT !.rec = {}]
               /\ Encode(o.report) = DecisionDelta
<1>1. phase = "stages" /\ Names(last) = {} /\ Cascading /\ NetOK(staged)
  BY DEF Commit, Published, RunInv, CascadeInv, Publishing
<1>2. last = {}
  BY <1>1 DEF Names
<1>3. PICK i \in 0..NumDecides : OnRun(i)
  BY <1>1 DEF Cascading
<1> DEFINE o == Run(Origin, ops)[i]
<1>4. /\ o.ok /\ o.last = last /\ o.report = report
      /\ o.net.base = staged.base /\ o.net.win = staged.win /\ NetOK(o.net)
  BY <1>3 DEF OnRun, Publishing
<1>5. WholeRun(Origin, ops) = o
  BY <1>2, <1>4, RunStays
<1> HIDE DEF o
<1>6. [o.net EXCEPT !.rec = {}] = [staged EXCEPT !.rec = {}]
  BY <1>1, <1>4, SameRows
<1> QED BY <1>4, <1>5, <1>6 DEF DecisionDelta

LEMMA RefusalIsWhole ==
    ASSUME CascadeInv, RunInv, Next, Refusal
    PROVE  ~WholeRun(Origin, ops).ok
<1>1. /\ phase # "idle" /\ phase' = "idle" /\ ~Commit /\ ~EnvironmentFails /\ ~Exhausted
  BY DEF Refusal
<1>2. ~Finish /\ ~Restore /\ (\A s, m : ~BeginBatch(s, m)) /\ (\A m : ~BeginRebuild(m))
  BY <1>1 DEF Finish, Restore, BeginBatch, BeginRebuild
<1>3. (\E size \in 1..Len(ops) : ApplyChunk(size)) \/ Stage
  BY <1>1, <1>2 DEF Next, Step
<1>4. ASSUME NEW size \in 1..Len(ops), ApplyChunk(size) PROVE ~WholeRun(Origin, ops).ok
  <2> DEFINE m == WithOps(staged, Part(size))
  <2>1. /\ phase = "chunks" /\ done < Len(ops) /\ size \in ChunkSize
        /\ NetOK(staged) /\ Chunking /\ Applying /\ ops \in Seq(Operation) /\ Len(ops) \in Nat
    BY <1>4 DEF ApplyChunk, CascadeInv, Chunking, RunInv
  <2>2. Refused(staged, m) /\ OnRefusal
    BY <1>1, <1>4, <2>1 DEF ApplyChunk, Part
  <2>3. mode # "chunked"
    BY <1>1, <2>2 DEF OnRefusal
  <2>4. done = 0 /\ size = Len(ops) /\ staged = Origin
    <3>1. done \in {0, Len(ops)}
      BY <2>1, <2>3 DEF Chunking
    <3>2. done = 0
      BY <2>1, <3>1
    <3> QED BY <2>1, <2>3, <3>2 DEF ChunkSize, Applying
  <2>5. Part(size) = ops
    BY <2>1, <2>4 DEF Part
  <2>6. Clash(m.base, m.win)
    BY <2>1, <2>2, RefusedIsClash
  <2>7. m.base = After(Origin.base, ops) /\ m.win = Origin.win
    BY <2>1, <2>4, <2>5, OpsMove
  <2> HIDE DEF m
  <2>8. ~Run(Origin, ops)[0].ok
    BY <1>1, <2>6, <2>7, RunBegins
  <2>9. 0 \in 0..NumDecides
    BY CascadeAssumption
  <2> QED BY <2>8, <2>9, RunStays
<1>5. CASE Stage
  <2> DEFINE m == WithWinners(staged, Published)
  <2>1. phase = "stages" /\ Cascading
    BY <1>5 DEF Stage, RunInv
  <2>2. Refused(staged, m)
    BY <1>1, <1>5, <2>1 DEF Stage
  <2>3. PICK i \in 0..NumDecides : OnRun(i)
    BY <2>1 DEF Cascading
  <2>4. i + 1 \in 0..NumDecides /\ ~Run(Origin, ops)[i + 1].ok
    BY <1>5, <2>2, <2>3, RunGoesOn
  <2> QED BY <2>4, RunStays
<1> QED BY <1>3, <1>4, <1>5

(* What a batch commits and whether it is refused does not depend on where  *)
(* its chunks ended: for every program, batch and chunking.                *)
THEOREM ChunksDoNotMatterCorrect == Spec => ChunksDoNotMatter
<1>1. CascadeInv /\ RunInv /\ [Next]_vars =>
         [LET o == WholeRun(IF goal = "commit" THEN net ELSE EmptyNet, ops)
          IN  /\ Commit => /\ o.ok
                            /\ [o.net EXCEPT !.rec = {}] = [staged EXCEPT !.rec = {}]
                            /\ Encode(o.report) = DecisionDelta
              /\ Refusal => ~o.ok]_vars
  <2> SUFFICES ASSUME CascadeInv, RunInv, Next
               PROVE  LET o == WholeRun(Origin, ops)
                      IN  /\ Commit => /\ o.ok
                                        /\ [o.net EXCEPT !.rec = {}] = [staged EXCEPT !.rec = {}]
                                        /\ Encode(o.report) = DecisionDelta
                          /\ Refusal => ~o.ok
    BY DEF Origin
  <2> QED BY CommitIsWhole, RefusalIsWhole
<1> QED BY <1>1, RunInvariance, PTL DEF Spec, ChunksDoNotMatter
(* The decision delta of a revision names every decision the batch changed, *)
(* and is exact for the decisions of the first stratum.                    *)
THEOREM DeltaNamesChangesCorrect == Spec => DeltaNamesChanges
<1>1. ASSUME CascadeInv, RunInv, Commit, goal = "commit"
      PROVE  /\ \A d \in Decide, e \in Entity :
                   net.tree[d][e] # net'.tree[d][e] => [d |-> d, e |-> e] \in Names(DecisionDelta)
             /\ {x \in DecisionDelta : x.d = 1} =
                   {[d |-> 1, e |-> e, now |-> net'.tree[1][e]] :
                      e \in {e \in Entity : net.tree[1][e] # net'.tree[1][e]}}
  <2>1. Reported /\ Origin = net /\ net' = staged
    BY <1>1 DEF Commit, RunInv, Cascading, Origin
  <2>2. \A d \in Decide, e \in Entity : net.tree[d][e] # staged.tree[d][e] => Named(report, d, e)
    BY <2>1 DEF Reported
  <2>3. {x \in DecisionDelta : x.d = 1} = {x \in Diff(net.tree, staged.tree) : x.d = 1}
    BY <2>1 DEF Reported, DecisionDelta
  <2> DEFINE old == net.tree
             new == staged.tree
             first == {[d |-> 1, e |-> e, now |-> new[1][e]] : e \in {e \in Entity : old[1][e] # new[1][e]}}
  <2>4. 1 \in Decide
    BY CascadeAssumption DEF Decide
  <2>5. ASSUME NEW x PROVE (x \in Diff(old, new) /\ x.d = 1) <=> x \in first
    <3> HIDE DEF old, new
    <3>1. ASSUME x \in Diff(old, new), x.d = 1 PROVE x \in first
      <4>1. PICK d \in Decide, e \in Entity : old[d][e] # new[d][e] /\ x = [d |-> d, e |-> e, now |-> new[d][e]]
        BY <3>1, DiffFacts
      <4>2. d = 1
        BY <3>1, <4>1
      <4> QED BY <4>1, <4>2
    <3>2. ASSUME x \in first PROVE x \in Diff(old, new) /\ x.d = 1
      <4>1. PICK e \in Entity : old[1][e] # new[1][e] /\ x = [d |-> 1, e |-> e, now |-> new[1][e]]
        BY <3>2
      <4> QED BY <2>4, <4>1, DiffFacts
    <3> QED BY <3>1, <3>2
  <2>6. {x \in Diff(old, new) : x.d = 1} = first
    <3> HIDE DEF old, new, first
    <3> QED BY <2>5
  <2> QED BY <2>1, <2>2, <2>3, <2>6 DEF Named, DecisionDelta
<1>2. CascadeInv /\ RunInv /\ [Next]_vars =>
         [Commit /\ goal = "commit" =>
            /\ \A d \in Decide, e \in Entity :
                  net.tree[d][e] # net'.tree[d][e] => [d |-> d, e |-> e] \in Names(DecisionDelta)
            /\ {x \in DecisionDelta : x.d = 1} =
                  {[d |-> 1, e |-> e, now |-> net'.tree[1][e]] :
                     e \in {e \in Entity : net.tree[1][e] # net'.tree[1][e]}}]_vars
  BY <1>1
<1> QED BY <1>2, RunInvariance, PTL DEF Spec, DeltaNamesChanges

(* Replaying the facts of a world into an empty network restores its rows. *)
LEMMA FactsReplay ==
    ASSUME NEW base \in Bases
    PROVE  After(EmptyBase, SetToSeq(Facts(base))) = base
<1> DEFINE s == SetToSeq(Facts(base))
           then == After(EmptyBase, s)
<1>1. /\ s \in Seq(Operation) /\ OncePerKey(s)
      /\ \A i \in 1..Len(s) : s[i] \in Facts(base)
      /\ \A op \in Facts(base) : \E i \in 1..Len(s) : s[i] = op
  BY FactsListed, FactsOncePerKey
<1>2. \A op \in Facts(base) : op.row # NoRow /\ base[op.r][op.k] = op.row
  BY DEF Facts
<1>3. then = [r \in Rels |-> [k \in Key |-> then[r][k]]]
  BY DEF After
<1>4. base = [r \in Rels |-> [k \in Key |-> base[r][k]]]
  BY DEF Bases
<1>5. ASSUME NEW r \in Rels, NEW k \in Key PROVE then[r][k] = base[r][k]
  <2>1. /\ \A i \in 1..Len(s) : s[i].r = r /\ s[i].k = k => then[r][k] = s[i].row
        /\ (\A i \in 1..Len(s) : ~(s[i].r = r /\ s[i].k = k)) => then[r][k] = EmptyBase[r][k]
    <3> HIDE DEF s
    <3> QED BY <1>1, AfterAt
  <2> HIDE DEF s, then
  <2>2. CASE \E i \in 1..Len(s) : s[i].r = r /\ s[i].k = k
    <3>1. PICK i \in 1..Len(s) : s[i].r = r /\ s[i].k = k
      BY <2>2
    <3>2. s[i].row = base[r][k]
      BY <1>1, <1>2, <3>1
    <3> QED BY <2>1, <3>1, <3>2
  <2>3. CASE ~\E i \in 1..Len(s) : s[i].r = r /\ s[i].k = k
    <3>1. base[r][k] = NoRow
      <4> SUFFICES ASSUME base[r][k] # NoRow PROVE FALSE
        OBVIOUS
      <4> DEFINE op == [r |-> r, k |-> k, row |-> base[r][k]]
      <4>1. base[r][k] \in Rows(r, k) \cup {NoRow}
        BY DEF Bases
      <4>2. op.r = r /\ op.k = k /\ op.row = base[r][k]
        OBVIOUS
      <4>3. op \in Operation
        BY <4>1 DEF Operation
      <4> HIDE DEF op
      <4>4. op \in Facts(base)
        BY <4>2, <4>3 DEF Facts
      <4>5. PICK i \in 1..Len(s) : s[i] = op
        BY <1>1, <4>4
      <4> QED BY <2>3, <4>2, <4>5
    <3>2. EmptyBase[r][k] = NoRow
      BY DEF EmptyBase
    <3> QED BY <2>1, <2>3, <3>1, <3>2
  <2> QED BY <2>2, <2>3
<1> HIDE DEF then
<1>6. then = base
  BY <1>3, <1>4, <1>5
<1> QED BY <1>6 DEF then

(* A rebuild of a world's network from its base rows (apply_base_facts)     *)
(* that is accepted yields the base rows, candidates, settlements and       *)
(* winner rows it had, for every program and whatever batches led there.    *)
(* That it is accepted is not so for every program (Replayable).           *)
THEOREM RebuildExactCorrect == Spec => RebuildExact
<1>1. ASSUME CascadeInv, RunInv, Commit, goal = "rebuild"
      PROVE  [net' EXCEPT !.rec = {}] = [net EXCEPT !.rec = {}]
  <2>1. /\ phase = "stages" /\ net' = staged /\ Published = {} /\ Cascading
        /\ Origin = EmptyNet /\ ops = SetToSeq(Facts(net.base))
    BY <1>1 DEF Commit, RunInv, Origin
  <2>2. AtRest(net) /\ AtRest(staged) /\ net.base \in Bases
    BY <1>1, <2>1, RestsWhenDone, NetFields DEF CascadeInv, AtRest
  <2>3. EmptyNet.base = EmptyBase
    BY DEF EmptyNet
  <2>4. staged.base = net.base
    BY <2>1, <2>2, <2>3, FactsReplay DEF Cascading
  <2>5. staged.win = net.win
    BY <2>2, <2>4, RestIsReference
  <2> QED BY <2>1, <2>2, <2>4, <2>5, SameRows DEF AtRest
<1>2. CascadeInv /\ RunInv /\ [Next]_vars =>
         [Commit /\ goal = "rebuild" => [net' EXCEPT !.rec = {}] = [net EXCEPT !.rec = {}]]_vars
  BY <1>1
<1> QED BY <1>2, RunInvariance, PTL DEF Spec, RebuildExact
=============================================================================
