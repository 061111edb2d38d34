-------------------------- MODULE SaturationProofs --------------------------
(***************************************************************************)
(* Proofs about Saturation, for every finite set of worlds, every           *)
(* presentation and every budget.  The certificates sat_step mints are      *)
(* accepted by their independent checkers, and a saturated run commits what *)
(* the unsaturated run does, whether or not the presentation is honest;     *)
(* where its declarations hold, a verdict says what the orbit does, and     *)
(* what check_closure and check_saturated answer is true of the systems at  *)
(* every depth.                                                            *)
(***************************************************************************)
EXTENDS Saturation, SequenceTheorems, FiniteSetTheorems, NaturalsInduction,
        WellFoundedInduction, TLAPS

-----------------------------------------------------------------------------
(* Induction and recursion over the naturals, for sets. *)

(* A set of naturals that is not empty has a least one. *)
LEMMA LeastNumber ==
    ASSUME NEW T, T \subseteq Nat, T # {}
    PROVE  \E x \in T : \A y \in T : x <= y
<1> DEFINE R == OpToRel(<, Nat)
<1>1. PICK x \in T : \A y \in T : ~(<<y, x>> \in R)
  <2>1. IsWellFoundedOn(R, Nat)
    BY NatLessThanWellFounded, Zenon
  <2> HIDE DEF R
  <2> QED
    BY <2>1, WFMin, Zenon
<1>2. \A y \in T : ~(y < x)
  <2>1. \A y \in T : <<y, x>> \in Nat \X Nat /\ <<y, x>>[1] = y /\ <<y, x>>[2] = x
    OBVIOUS
  <2> QED
    BY <2>1, <1>1, Zenon DEF OpToRel
<1> QED
  BY <1>2

(* Induction, for a set of naturals. *)
LEMMA NumberInduction ==
    ASSUME NEW S, 0 \in S, \A n \in Nat : n \in S => n + 1 \in S
    PROVE  \A n \in Nat : n \in S
<1> SUFFICES ASSUME Nat \ S # {} PROVE FALSE
  OBVIOUS
<1>1. PICK x \in Nat \ S : \A y \in Nat \ S : x <= y
  BY LeastNumber
<1>2. x - 1 \in Nat /\ x - 1 \in S
  BY <1>1
<1> QED
  BY <1>1, <1>2

(* A function on the naturals may be defined by what it is at 0 and at n,  *)
(* given its value at n - 1.                                               *)
Recurs(f, a, F) == \A n \in Nat : f[n] = IF n = 0 THEN a ELSE F[<<n, f[n - 1]>>]

LEMMA NumberRecursion ==
    ASSUME NEW V, NEW a \in V, NEW F \in [Nat \X V -> V]
    PROVE  \E f \in [Nat -> V] : Recurs(f, a, F)
<1> DEFINE Good(g, n) == /\ g \in [0..n -> V] /\ g[0] = a
                         /\ \A i \in 1..n : g[i] = F[<<i, g[i - 1]>>]
           Made == {n \in Nat : \E g : Good(g, n)}
           Same == {i \in Nat : \A g, h : \A n, m \in Nat :
                        Good(g, n) /\ Good(h, m) /\ i <= n /\ i <= m => g[i] = h[i]}
<1>1. 0 \in Made
  <2>1. Good([i \in 0..0 |-> a], 0)
    OBVIOUS
  <2> QED BY <2>1
<1>2. ASSUME NEW n \in Nat, n \in Made PROVE n + 1 \in Made
  <2>1. PICK g : Good(g, n)
    BY <1>2
  <2> DEFINE h == [i \in 0..(n + 1) |-> IF i = n + 1 THEN F[<<n + 1, g[n]>>] ELSE g[i]]
  <2>2. n \in 0..n /\ g[n] \in V
    BY <2>1
  <2>3. F[<<n + 1, g[n]>>] \in V
    BY <2>2
  <2>4. h \in [0..(n + 1) -> V] /\ h[0] = a
    BY <2>1, <2>3
  <2>5. ASSUME NEW i \in 1..(n + 1) PROVE h[i] = F[<<i, h[i - 1]>>]
    <3>1. i - 1 \in 0..(n + 1) /\ i - 1 # n + 1 /\ i \in 0..(n + 1)
      OBVIOUS
    <3>2. h[i - 1] = g[i - 1]
      BY <3>1
    <3>3. CASE i = n + 1
      BY <3>1, <3>2, <3>3
    <3>4. CASE i # n + 1
      <4>1. i \in 1..n
        BY <3>4
      <4>2. h[i] = g[i] /\ g[i] = F[<<i, g[i - 1]>>]
        BY <2>1, <3>1, <3>4, <4>1
      <4> QED BY <3>2, <4>2
    <3> QED BY <3>3, <3>4
  <2>6. Good(h, n + 1) /\ n + 1 \in Nat
    <3> HIDE DEF h
    <3> QED BY <2>4, <2>5
  <2> HIDE DEF Good
  <2> QED BY <2>6
<1>3. \A n \in Nat : n \in Made
  <2> HIDE DEF Made
  <2> QED BY <1>1, <1>2, NumberInduction
<1>4. 0 \in Same
  OBVIOUS
<1>5. ASSUME NEW i \in Nat, i \in Same PROVE i + 1 \in Same
  <2> SUFFICES ASSUME NEW g, NEW h, NEW n \in Nat, NEW m \in Nat,
                      Good(g, n), Good(h, m), i + 1 <= n, i + 1 <= m
               PROVE  g[i + 1] = h[i + 1]
    OBVIOUS
  <2>1. g[i] = h[i]
    <3>1. i <= n /\ i <= m
      OBVIOUS
    <3> HIDE DEF Good
    <3> QED BY <1>5, <3>1
  <2>2. i + 1 \in 1..n /\ i + 1 \in 1..m /\ (i + 1) - 1 = i
    OBVIOUS
  <2>3. g[i + 1] = F[<<i + 1, g[i]>>] /\ h[i + 1] = F[<<i + 1, h[i]>>]
    BY <2>2
  <2> QED BY <2>1, <2>3
<1>6. \A i \in Nat : i \in Same
  <2> HIDE DEF Same
  <2> QED BY <1>4, <1>5, NumberInduction
<1> DEFINE G == [n \in Nat |-> CHOOSE g : Good(g, n)]
           f == [n \in Nat |-> G[n][n]]
<1>7. \A n \in Nat : Good(G[n], n)
  <2>1. \A n \in Nat : \E g : Good(g, n)
    BY <1>3
  <2> HIDE DEF Good
  <2> QED BY <2>1
<1>8. f \in [Nat -> V]
  <2>1. \A n \in Nat : G[n] \in [0..n -> V] /\ n \in 0..n
    <3> HIDE DEF G
    <3> QED BY <1>7
  <2> HIDE DEF G, Good
  <2> QED BY <2>1
<1>9. ASSUME NEW n \in Nat PROVE f[n] = IF n = 0 THEN a ELSE F[<<n, f[n - 1]>>]
  <2>1. CASE n = 0
    BY <1>7, <2>1
  <2>2. CASE n # 0
    <3>1. n - 1 \in Nat /\ n \in 1..n /\ n - 1 <= n
      BY <2>2
    <3>2. G[n][n] = F[<<n, G[n][n - 1]>>]
      BY <1>7, <3>1
    <3>3. G[n][n - 1] = G[n - 1][n - 1]
      <4>1. n - 1 \in Same /\ Good(G[n], n) /\ Good(G[n - 1], n - 1) /\ n - 1 <= n - 1
        <5> HIDE DEF Good, G
        <5> QED BY <1>6, <1>7, <3>1
      <4> HIDE DEF Good, G
      <4> QED BY <3>1, <4>1
    <3>4. f[n] = G[n][n] /\ f[n - 1] = G[n - 1][n - 1]
      <4> HIDE DEF G
      <4> QED BY <3>1
    <3> HIDE DEF f, G, Good
    <3> QED BY <2>2, <3>2, <3>3, <3>4
  <2> QED BY <2>1, <2>2
<1> HIDE DEF f
<1>10. Recurs(f, a, F)
  BY <1>9 DEF Recurs
<1> QED BY <1>8, <1>10

-----------------------------------------------------------------------------
(* Certificates. *)

(* A sequence, of whatever.  The steps are not typed: that the chosen       *)
(* candidate is one of the offers takes a least element of a finite set,    *)
(* which the certificates do not depend on.                                *)
Listed(s) == \E S : s \in Seq(S)

Source == at[side].world

(* A visit's index says where in the hidden prefix its world was reached. *)
VisitAt(steps, w, i) == i \in 0..Len(steps) /\ EndOf(SubSeq(steps, 1, i), Source) = w

(* Inside sat_step the consumed steps are hidden, lead from the source to    *)
(* the present world, and passed every visited world at its index.         *)
Prefix ==
    pc = "tick" =>
        /\ Listed(sat.consumed)
        /\ AllAdministrative(sat.consumed)
        /\ Chains(sat.consumed, Source)
        /\ EndOf(sat.consumed, Source) = sat.now.world
        /\ \A w \in DOMAIN sat.visited : VisitAt(sat.consumed, w, sat.visited[w].index)

(* The functions over the two sides. *)
Framed ==
    /\ side \in Sides
    /\ verdict = [s \in Sides |-> verdict[s]]

IInv == Framed /\ Prefix /\ CertificatesCheck

-----------------------------------------------------------------------------
(* Sequences of steps. *)

LEMMA AppendFacts ==
    ASSUME NEW s, NEW x, Listed(s)
    PROVE  LET t == Append(s, x)
           IN  /\ Listed(t)
               /\ Len(s) \in Nat /\ Len(t) = Len(s) + 1
               /\ \A i \in 1..Len(s) : t[i] = s[i]
               /\ t[Len(s) + 1] = x
               /\ s # <<>> => Len(s) > 0
               /\ t # <<>>
<1>1. PICK S : s \in Seq(S)
  BY DEF Listed
<1>2. s \in Seq(S \cup {x}) /\ x \in S \cup {x}
  BY <1>1
<1>3. Append(s, x) \in Seq(S \cup {x})
  BY <1>2
<1>4. Listed(Append(s, x))
  BY <1>3 DEF Listed
<1> QED
  BY <1>2, <1>3, <1>4

(* The prefix of an extended sequence, and the whole of a sequence. *)
LEMMA SubSeqFacts ==
    ASSUME NEW s, NEW x, Listed(s)
    PROVE  /\ \A i \in 0..Len(s) : SubSeq(Append(s, x), 1, i) = SubSeq(s, 1, i)
           /\ SubSeq(Append(s, x), 1, Len(s) + 1) = Append(s, x)
<1>1. PICK S : s \in Seq(S)
  BY DEF Listed
<1>2. s \in Seq(S \cup {x}) /\ x \in S \cup {x}
  BY <1>1
<1>3. ASSUME NEW i \in 0..Len(s)
      PROVE  SubSeq(Append(s, x), 1, i) = SubSeq(s, 1, i)
  BY <1>2
<1>4. SubSeq(Append(s, x), 1, Len(s) + 1) = Append(s, x)
  BY <1>2
<1> QED
  BY <1>3, <1>4

(* A hidden step at the end of a hidden path. *)
LEMMA PathExtends ==
    ASSUME NEW s, NEW x, NEW src, Listed(s),
           AllAdministrative(s), Chains(s, src), EndOf(s, src) = x.src,
           Label(x) = "administrative"
    PROVE  LET t == Append(s, x)
           IN  /\ AllAdministrative(t) /\ Chains(t, src) /\ EndOf(t, src) = x.dst
<1> DEFINE t == Append(s, x)
           n == Len(s)
<1>1. /\ n \in Nat /\ Len(t) = n + 1 /\ t # <<>>
      /\ \A i \in 1..n : t[i] = s[i]
      /\ t[n + 1] = x
      /\ s # <<>> => n > 0
  BY AppendFacts
<1>2. s = <<>> => n = 0
  OBVIOUS
<1> HIDE DEF t, n
<1>3. AllAdministrative(t)
  <2>1. \A i \in 1..Len(t) : i \in 1..n \/ i = n + 1
    BY <1>1
  <2> QED
    BY <1>1, <2>1 DEF AllAdministrative, n
<1>4. EndOf(t, src) = x.dst
  BY <1>1 DEF EndOf
<1>5. t[1].src = src
  <2>1. CASE s = <<>>
    BY <1>1, <1>2, <2>1 DEF EndOf
  <2>2. CASE s # <<>>
    BY <1>1, <2>2 DEF Chains
  <2> QED
    BY <2>1, <2>2
<1>6. ASSUME NEW i \in 1..(Len(t) - 1)
      PROVE  t[i].dst = t[i + 1].src
  <2>1. CASE i \in 1..(n - 1)
    BY <1>1, <2>1 DEF Chains, n
  <2>2. CASE i = n /\ n > 0
    BY <1>1, <1>2, <2>2 DEF EndOf, n
  <2> QED
    BY <1>1, <2>1, <2>2
<1> QED
  BY <1>3, <1>4, <1>5, <1>6 DEF Chains, t

-----------------------------------------------------------------------------
(* The actions. *)

LEMMA Initially == Init => IInv
  BY DEF Init, IInv, Framed, Prefix, CertificatesCheck, Sides

(* sat_step begins: nothing consumed, the source visited at 0. *)
LEMMA EnterInv ==
    ASSUME IInv, NEW s \in Sides, EnterSat(s, at[s]), UNCHANGED <<at, verdict>>
    PROVE  IInv'
<1>1. /\ side' = s /\ pc' = "tick"
      /\ sat'.consumed = <<>> /\ sat'.now = at[s]
      /\ DOMAIN sat'.visited = {at[s].world}
      /\ sat'.visited[at[s].world].index = 0
  BY DEF EnterSat, Visit
<1>2. Source' = at[s].world
  BY <1>1 DEF Source
<1>3. <<>> \in Seq({}) /\ Len(<<>>) = 0 /\ SubSeq(<<>>, 1, 0) = <<>>
  OBVIOUS
<1>4. Prefix'
  <2>1. Listed(<<>>)
    BY <1>3 DEF Listed
  <2>2. AllAdministrative(<<>>) /\ Chains(<<>>, at[s].world) /\ EndOf(<<>>, at[s].world) = at[s].world
    BY <1>3 DEF AllAdministrative, Chains, EndOf
  <2>3. \A w \in DOMAIN sat'.visited :
           /\ sat'.visited[w].index \in 0..Len(sat'.consumed)
           /\ EndOf(SubSeq(sat'.consumed, 1, sat'.visited[w].index), at[s].world) = w
    <3>1. 0 \in 0..Len(<<>>)
      BY <1>3
    <3>2. EndOf(SubSeq(<<>>, 1, 0), at[s].world) = at[s].world
      BY <1>3, <2>2, Zenon
    <3> QED
      BY <1>1, <3>1, <3>2, Zenon
  <2> QED
    BY <1>1, <1>2, <2>1, <2>2, <2>3 DEF Prefix, VisitAt
<1>5. CertificatesCheck'
  BY <1>1 DEF CertificatesCheck
<1> QED
  BY <1>1, <1>4, <1>5 DEF IInv, Framed

(* The loops of the analyses leave sat_step's certificates behind. *)
LEMMA OutsideInv ==
    ASSUME IInv, pc' \notin {"tick", "collect"}, UNCHANGED <<side, verdict>>
    PROVE  IInv'
  BY DEF IInv, Framed, Prefix, CertificatesCheck

(* sat_step returns a verdict whose certificate, if it has one, is accepted  *)
(* (one of quiescence exactly when there is a regime to scan).             *)
LEMMA ReturnInv ==
    ASSUME IInv, NEW v, NEW steps, Return(v, steps), UNCHANGED <<setup, side, at>>,
           v.is = "quiescent" =>
              (CheckQuiescence(Pres(side), Source, v.next, steps) <=> Scanned(Pres(side))),
           v.is = "divergent" => CheckDivergence(Pres(side), Source, v.stem, v.next.world, steps)
    PROVE  IInv'
<1>1. /\ pc' = "collect" /\ sat'.consumed = steps /\ Source' = Source /\ Pres(side)' = Pres(side)
      /\ verdict' = [verdict EXCEPT ![side] = v]
  BY DEF Return, Source, Pres
<1>2. verdict'[side'] = v
  BY <1>1 DEF IInv, Framed
<1>3. Framed'
  BY <1>1 DEF IInv, Framed
<1>4. Prefix'
  BY <1>1 DEF Prefix
<1>5. CertificatesCheck'
  BY <1>1, <1>2 DEF CertificatesCheck, Source, CheckQuiescence, CheckDivergence, Scanned, Offers
<1> QED
  BY <1>3, <1>4, <1>5 DEF IInv

LEMMA TickRefusedInv ==
    ASSUME IInv, TickKeyConflict \/ TickRejected \/ TickUnlabelled
    PROVE  IInv'
<1>1. \A why : Unknown(why).is = "unknown"
  BY DEF Unknown, NoVerdict
<1>2. PICK why, steps : Return(Unknown(why), steps) /\ UNCHANGED <<setup, side, at>>
  BY DEF TickKeyConflict, TickRejected, TickUnlabelled
<1> QED
  BY <1>1, <1>2, ReturnInv

LEMMA TickQuiescentInv == ASSUME IInv, TickQuiescent PROVE IInv'
<1> DEFINE v == [NoVerdict EXCEPT !.is = "quiescent", !.next = sat.now]
<1>1. v.is = "quiescent" /\ v.next = sat.now
  BY DEF NoVerdict
<1>2. CheckQuiescence(Pres(side), Source, sat.now, sat.consumed) <=> Scanned(Pres(side))
  BY DEF IInv, Prefix, TickQuiescent, CheckQuiescence, Frontier
<1>3. Return(v, sat.consumed) /\ UNCHANGED <<setup, side, at>>
  BY DEF TickQuiescent
<1> HIDE DEF v
<1> QED
  BY <1>1, <1>2, <1>3, ReturnInv

LEMMA TickRealizingInv == ASSUME IInv, TickRealizing PROVE IInv'
<1> DEFINE v == [NoVerdict EXCEPT !.is = "realizing", !.obs = Committed,
                                  !.next = Applied(sat.now, Chosen)]
<1>1. v.is = "realizing"
  BY DEF NoVerdict
<1>2. Return(v, Append(sat.consumed, Committed)) /\ UNCHANGED <<setup, side, at>>
  BY DEF TickRealizing
<1> HIDE DEF v
<1> QED
  BY <1>1, <1>2, ReturnInv

(* What a lasso is taken for: divergence, with the stem of the first visit,  *)
(* and only when both hypotheses are declared.                             *)
LEMMA LassoDivergent ==
    ASSUME NEW p, NEW c, NEW len, NEW previous,
           CloseLasso(p, c, len, previous).is = "divergent"
    PROVE  LET v == CloseLasso(p, c, len, previous)
           IN  {"P1", "P6"} \subseteq p.declares /\ v.next = c /\ v.stem = previous.index
  BY DEF CloseLasso, Unknown, NoVerdict

LEMMA LassoNeverQuiescent ==
    ASSUME NEW p, NEW c, NEW len, NEW previous
    PROVE  CloseLasso(p, c, len, previous).is # "quiescent"
  BY DEF CloseLasso, Unknown, NoVerdict

LEMMA TickHiddenInv == ASSUME IInv, TickHidden PROVE IInv'
<1> DEFINE c == Applied(sat.now, Chosen)
           x == Committed
           steps == Append(sat.consumed, x)
           p == Pres(side)
<1>1. /\ pc = "tick" /\ Label(x) = "administrative" /\ UNCHANGED <<setup, side, at>>
  BY DEF TickHidden, Ticks
<1>2. /\ Listed(sat.consumed) /\ AllAdministrative(sat.consumed) /\ Chains(sat.consumed, Source)
      /\ EndOf(sat.consumed, Source) = sat.now.world
      /\ \A w \in DOMAIN sat.visited : VisitAt(sat.consumed, w, sat.visited[w].index)
  BY <1>1 DEF IInv, Prefix
<1>3. x.src = sat.now.world /\ x.dst = c.world
  BY DEF Committed, StepOf, Applied
<1> HIDE DEF x, c
<1>4. AllAdministrative(steps) /\ Chains(steps, Source) /\ EndOf(steps, Source) = c.world
  BY <1>1, <1>2, <1>3, PathExtends
<1>5. Listed(steps) /\ Len(sat.consumed) \in Nat /\ Len(steps) = Len(sat.consumed) + 1
  BY <1>2, AppendFacts
<1>6. /\ \A i \in 0..Len(sat.consumed) : SubSeq(steps, 1, i) = SubSeq(sat.consumed, 1, i)
      /\ SubSeq(steps, 1, Len(steps)) = steps
  BY <1>2, <1>5, SubSeqFacts
<1> HIDE DEF steps
<1>7. CASE /\ Revisits(c)
           /\ Return(CloseLasso(p, c, Len(steps), sat.visited[c.world]), steps)
  <2> DEFINE v == CloseLasso(p, c, Len(steps), sat.visited[c.world])
  <2>1. v.is # "quiescent"
    BY LassoNeverQuiescent
  <2>2. ASSUME v.is = "divergent"
        PROVE  CheckDivergence(p, Source, v.stem, v.next.world, steps)
    <3>1. {"P1", "P6"} \subseteq p.declares /\ v.next = c /\ v.stem = sat.visited[c.world].index
      BY <2>2, LassoDivergent
    <3> HIDE DEF v, p
    <3>2. c.world \in DOMAIN sat.visited
      BY <1>7 DEF Revisits
    <3>3. v.stem \in 0..Len(sat.consumed) /\ EndOf(SubSeq(sat.consumed, 1, v.stem), Source) = c.world
      BY <1>2, <3>1, <3>2 DEF VisitAt
    <3>4. v.stem < Len(steps)
      BY <1>5, <3>3
    <3> QED
      BY <1>4, <1>6, <3>1, <3>3, <3>4 DEF CheckDivergence
  <2> HIDE DEF v
  <2>3. Return(v, steps)
    BY <1>7 DEF v
  <2> QED
    BY <1>1, <2>1, <2>2, <2>3, ReturnInv
<1>8. CASE \E why : Return(Unknown(why), steps)
  <2>1. \A why : Unknown(why).is = "unknown"
    BY DEF Unknown, NoVerdict
  <2> QED
    BY <1>1, <1>8, <2>1, ReturnInv
<1>9. CASE /\ sat' = [now |-> c, consumed |-> steps,
                      visited |-> [w \in DOMAIN sat.visited \cup {c.world} |->
                                     IF w = c.world THEN Visit(p, c, Len(steps))
                                                    ELSE sat.visited[w]]]
           /\ UNCHANGED <<verdict, phase, pc>>
  <2>1. Source' = Source /\ sat'.consumed = steps /\ sat'.now = c
    BY <1>1, <1>9 DEF Source
  <2>2. ASSUME NEW w \in DOMAIN sat'.visited
        PROVE  VisitAt(steps, w, sat'.visited[w].index)
    <3>1. CASE w = c.world
      <4>1. sat'.visited[w].index = Len(steps)
        BY <1>9, <3>1 DEF Visit
      <4>2. Len(steps) \in 0..Len(steps)
        BY <1>5
      <4>3. EndOf(SubSeq(steps, 1, Len(steps)), Source) = c.world
        BY <1>4, <1>6, Zenon
      <4> QED
        BY <3>1, <4>1, <4>2, <4>3, Zenon DEF VisitAt
    <3>2. CASE w # c.world
      <4>1. w \in DOMAIN sat.visited /\ sat'.visited[w] = sat.visited[w]
        BY <1>9, <3>2
      <4>2. VisitAt(sat.consumed, w, sat.visited[w].index)
        BY <1>2, <4>1
      <4> DEFINE i == sat.visited[w].index
      <4>3. i \in 0..Len(sat.consumed) /\ EndOf(SubSeq(sat.consumed, 1, i), Source) = w
        BY <4>2 DEF VisitAt
      <4> HIDE DEF i
      <4>4. i \in 0..Len(steps)
        BY <1>5, <4>3
      <4>5. SubSeq(steps, 1, i) = SubSeq(sat.consumed, 1, i)
        BY <1>6, <4>3
      <4>6. VisitAt(steps, w, i)
        BY <4>3, <4>4, <4>5, Zenon DEF VisitAt
      <4> QED
        BY <4>1, <4>6, Zenon DEF i
    <3> QED
      BY <3>1, <3>2
  <2>3. Prefix'
    BY <1>4, <1>5, <2>1, <2>2 DEF Prefix, VisitAt
  <2>4. Framed' /\ CertificatesCheck'
    BY <1>1, <1>9 DEF IInv, Framed, CertificatesCheck
  <2> QED
    BY <2>3, <2>4 DEF IInv
<1> QED
  BY <1>7, <1>8, <1>9 DEF TickHidden, c, steps, x

LEMMA LoopsInv ==
    ASSUME IInv, RunLoop \/ CompareLoop \/ CloseLoop
    PROVE  IInv'
<1>1. CASE pc' = "done" /\ UNCHANGED <<side, verdict>>
  BY <1>1, OutsideInv
<1>2. CASE EnterSat("impl", at["impl"]) /\ UNCHANGED <<at, verdict>>
  BY <1>2, EnterInv DEF Sides
<1> QED
  BY <1>1, <1>2 DEF RunLoop, CompareLoop, CloseLoop, Finish

LEMMA CollectInv ==
    ASSUME IInv, \/ RunCollect \/ CompareOpen \/ CompareCollect
                 \/ CloseOpen \/ CloseCollect
    PROVE  IInv'
<1>1. pc' \in {"done", "loop"} /\ UNCHANGED <<side, verdict>>
  BY DEF RunCollect, CompareOpen, CompareCollect, CloseOpen, CloseCollect, Finish
<1> QED
  BY <1>1, OutsideInv

LEMMA CompareOtherInv == ASSUME IInv, CompareOther PROVE IInv'
  BY EnterInv DEF CompareOther, Sides

LEMMA StutterInv == ASSUME IInv, UNCHANGED vars PROVE IInv'
  BY DEF vars, IInv, Framed, Prefix, VisitAt, Source, CertificatesCheck, CheckQuiescence,
         CheckDivergence, Scanned, Offers, Pres

(* Every step of Next keeps the invariant. *)
LEMMA Stepwise == IInv /\ [Next]_vars => IInv'
  BY TickRefusedInv, TickQuiescentInv, TickRealizingInv, TickHiddenInv, LoopsInv, CollectInv,
     CompareOtherInv, StutterInv DEF Next

(* The certificates sat_step mints (QuiescenceCertificateV1 and             *)
(* DivergenceCertificateV1) are accepted by their checkers, for every       *)
(* presentation with a regime, also one that breaks the hypotheses it       *)
(* declares, every budget and every driver.  Of a presentation without a    *)
(* regime every certificate of quiescence is refused (certificate.rs:894).  *)
THEOREM CertificatesCheckCorrect == Spec => []CertificatesCheck
<1>1. IInv => CertificatesCheck
  BY DEF IInv
<1> QED
  BY <1>1, Initially, Stepwise, PTL DEF Spec
-----------------------------------------------------------------------------
(* The tick: keys, the least candidate and the move it makes. *)

Gens == {"tau", "act", "mixed", "broken"}

LEMMA GenFacts ==
    /\ DOMAIN Generators = 1..4 /\ Len(Generators) = 4
    /\ Candidate = [gen : Gens, to : Worlds]
<1>1. DOMAIN Generators = 1..4 /\ Len(Generators) = 4
  BY DEF Generators
<1>2. {Generators[i] : i \in DOMAIN Generators} = Gens
  <2>1. Generators[1] = "tau" /\ Generators[2] = "act" /\ Generators[3] = "mixed"
        /\ Generators[4] = "broken"
    BY DEF Generators
  <2>2. 1..4 = {1, 2, 3, 4}
    OBVIOUS
  <2> QED BY <1>1, <2>1, <2>2 DEF Gens
<1> QED BY <1>1, <1>2 DEF Candidate

LEMMA KeyFacts ==
    ASSUME NEW p, IsPresentation(p), NEW a \in Candidate, NEW ph
    PROVE  \E k, l \in Int : KeyOf(p, a, ph) = <<k, l>>
<1>1. a.to \in Int /\ a.gen \in Gens
  <2>1. a \in [gen : Gens, to : Worlds]
    BY GenFacts, Zenon
  <2>2. a.to \in Worlds /\ a.gen \in Gens
    BY <2>1
  <2>3. a.to \in Nat
    BY <2>2, WorldsAssumption
  <2> QED BY <2>2, <2>3
<1>2. Tie(a) \in Int
  <2>1. \E i \in 1..4 : Generators[i] = a.gen
    BY <1>1 DEF Gens, Generators
  <2> QED BY <2>1, GenFacts DEF Tie
<1>3. p.rank \in {"target", "parity", "none"}
  BY DEF IsPresentation
<1> QED BY <1>1, <1>2, <1>3 DEF KeyOf

(* The keys of a tick are ordered. *)
LEMMA KeyOrder ==
    ASSUME NEW p, IsPresentation(p), NEW ph, NEW A, A \subseteq Candidate,
           \A a, b \in A : a # b => KeyOf(p, a, ph) # KeyOf(p, b, ph)
    PROVE  LET less(a, b) == Before(KeyOf(p, a, ph), KeyOf(p, b, ph))
           IN  /\ \A a \in A : ~less(a, a)
               /\ \A a, b, c \in A : less(a, b) /\ less(b, c) => less(a, c)
               /\ \A a, b \in A : a # b => less(a, b) \/ less(b, a)
<1>1. \A a \in A : \E k, l \in Int : KeyOf(p, a, ph) = <<k, l>>
  BY KeyFacts
<1> DEFINE K(a) == KeyOf(p, a, ph)
<1>2. \A a \in A : K(a) = <<K(a)[1], K(a)[2]>> /\ K(a)[1] \in Int /\ K(a)[2] \in Int
  BY <1>1
<1> HIDE DEF K
<1>3. \A a, b \in A : a # b => K(a) # K(b)
  BY DEF K
<1>4. \A a \in A : ~Before(K(a), K(a))
  BY <1>2 DEF Before
<1>5. \A a, b, c \in A : Before(K(a), K(b)) /\ Before(K(b), K(c)) => Before(K(a), K(c))
  BY <1>2 DEF Before
<1>6. \A a, b \in A : a # b => Before(K(a), K(b)) \/ Before(K(b), K(a))
  <2> SUFFICES ASSUME NEW a \in A, NEW b \in A, a # b,
                      ~Before(K(a), K(b)), ~Before(K(b), K(a))
               PROVE  FALSE
    OBVIOUS
  <2>1. K(a)[1] = K(b)[1] /\ K(a)[2] = K(b)[2]
    BY <1>2 DEF Before
  <2>2. K(a) = K(b)
    BY <1>2, <2>1, Zenon
  <2> QED BY <1>3, <2>2
<1> QED BY <1>4, <1>5, <1>6 DEF K

LEMMA OffersFinite ==
    ASSUME NEW p, IsPresentation(p), NEW c \in Config
    PROVE  Offers(p, c) \subseteq Candidate /\ IsFiniteSet(Offers(p, c))
<1>1. Offers(p, c) \subseteq Candidate
  <2>1. c.world \in Worlds /\ c.hist \in Nat
    BY DEF Config
  <2>2. c.hist % 2 \in {0, 1}
    BY <2>1
  <2> QED BY <2>1, <2>2 DEF Offers, IsPresentation
<1>2. IsFiniteSet(Candidate)
  <2>1. IsFiniteSet(Gens \X Worlds)
    <3>1. IsFiniteSet(Gens)
      <4>1. IsFiniteSet({} \cup {"tau"})
        BY FS_EmptySet, FS_AddElement
      <4>2. IsFiniteSet({} \cup {"tau"} \cup {"act"})
        BY <4>1, FS_AddElement
      <4>3. IsFiniteSet({} \cup {"tau"} \cup {"act"} \cup {"mixed"})
        BY <4>2, FS_AddElement
      <4>4. IsFiniteSet({} \cup {"tau"} \cup {"act"} \cup {"mixed"} \cup {"broken"})
        BY <4>3, FS_AddElement
      <4>5. Gens = {} \cup {"tau"} \cup {"act"} \cup {"mixed"} \cup {"broken"}
        BY DEF Gens
      <4> QED BY <4>4, <4>5, Zenon
    <3> QED BY <3>1, WorldsAssumption, FS_Product
  <2> DEFINE f == [a \in Candidate |-> <<a.gen, a.to>>]
  <2>2. f \in Injection(Candidate, Gens \X Worlds)
    BY GenFacts DEF Injection, IsInjective
  <2> HIDE DEF f
  <2> QED BY <2>1, <2>2, FS_Injection
<1> QED BY <1>1, <1>2, FS_Subset

(* Without a clash a frontier that is not empty has one least candidate. *)
LEMMA SelectLeast ==
    ASSUME NEW p, IsPresentation(p), NEW c \in Config, NEW ph,
           Offers(p, c) # {}, ~Clash(p, c, ph)
    PROVE  /\ Select(p, c, ph) \in Offers(p, c)
           /\ \A b \in Offers(p, c) \ {Select(p, c, ph)} :
                 Before(KeyOf(p, Select(p, c, ph), ph), KeyOf(p, b, ph))
           /\ \A b \in Offers(p, c) :
                 (\A d \in Offers(p, c) \ {b} : Before(KeyOf(p, b, ph), KeyOf(p, d, ph)))
                 => b = Select(p, c, ph)
<1> DEFINE A == Offers(p, c)
           less(a, b) == Before(KeyOf(p, a, ph), KeyOf(p, b, ph))
           Below(a) == {b \in A : less(b, a)}
<1>1. A \subseteq Candidate /\ IsFiniteSet(A) /\ A # {}
  BY OffersFinite
<1>2. \A a, b \in A : a # b => KeyOf(p, a, ph) # KeyOf(p, b, ph)
  BY DEF Clash
<1> HIDE DEF A
<1>3. /\ \A a \in A : ~less(a, a)
      /\ \A a, b, d \in A : less(a, b) /\ less(b, d) => less(a, d)
      /\ \A a, b \in A : a # b => less(a, b) \/ less(b, a)
  BY <1>1, <1>2, KeyOrder
<1> HIDE DEF less
<1>4. \A a \in A : IsFiniteSet(Below(a)) /\ Cardinality(Below(a)) \in Nat
  BY <1>1, FS_Subset, FS_CardinalityType
<1>5. PICK a \in A : \A b \in A : Cardinality(Below(a)) <= Cardinality(Below(b))
  <2> DEFINE T == {Cardinality(Below(x)) : x \in A}
  <2>1. T \subseteq Nat /\ T # {}
    BY <1>1, <1>4
  <2>2. PICK n \in T : \A m \in T : n <= m
    <3> HIDE DEF T
    <3> QED BY <2>1, LeastNumber
  <2> QED BY <2>2
<1>6. \A b \in A : ~less(b, a)
  <2> SUFFICES ASSUME NEW b \in A, less(b, a) PROVE FALSE
    OBVIOUS
  <2>1. Below(b) \in SUBSET Below(a) /\ b \in Below(a) /\ b \notin Below(b)
    BY <1>3
  <2>2. /\ Cardinality(Below(b)) <= Cardinality(Below(a))
        /\ Cardinality(Below(a)) # Cardinality(Below(b))
    <3>1. IsFiniteSet(Below(a))
      BY <1>4
    <3> HIDE DEF Below
    <3> QED BY <2>1, <3>1, FS_Subset
  <2> HIDE DEF Below
  <2> QED BY <1>4, <1>5, <2>2
<1>7. \A b \in A \ {a} : less(a, b)
  BY <1>3, <1>6
<1>8. /\ Select(p, c, ph) \in A
      /\ \A b \in A \ {Select(p, c, ph)} : less(Select(p, c, ph), b)
  BY <1>7 DEF Select, less, A
<1>9. ASSUME NEW b \in A, \A d \in A \ {b} : less(b, d)
      PROVE  b = Select(p, c, ph)
  BY <1>3, <1>8, <1>9
<1> QED BY <1>8, <1>9 DEF less, A
Stepped == [gen : Gens \cup {"none"}, src : Worlds, dst : Worlds]
Stuck == {"quiescent", "refused"}

LEMMA NoStepType == NoStep \in Stepped /\ NoStep.gen = "none" /\ Config0 \in Config
  BY WorldsAssumption DEF NoStep, Stepped, Config0, Config

(* What a tick does, as one move. *)
LEMMA MoveFacts ==
    ASSUME NEW p, IsPresentation(p), NEW c \in Config, NEW ph
    PROVE  LET m == MoveOf(p, c, ph)
               a == Select(p, c, ph)
           IN  /\ m.is \in Stuck \cup {"tau", "act", "mixed"}
               /\ m.step \in Stepped
               /\ m.is = "quiescent" <=> Offers(p, c) = {}
               /\ m.is \in Stuck => m.step = NoStep
               /\ m.is \notin Stuck => /\ Offers(p, c) # {} /\ ~Clash(p, c, ph) /\ a \in Offers(p, c)
                                       /\ a.gen = m.is /\ m.step = StepOf(c, a)
                                       /\ m.step.gen = m.is
               /\ Offers(p, c) # {} /\ ~Clash(p, c, ph) /\ a.gen # "broken" =>
                     m = [is |-> a.gen, step |-> StepOf(c, a)] /\ m.is \notin Stuck
               /\ Offers(p, c) # {} /\ (Clash(p, c, ph) \/ a.gen = "broken") => m.is = "refused"
<1> DEFINE m == MoveOf(p, c, ph)
           a == Select(p, c, ph)
<1>1. CASE Offers(p, c) = {}
  <2>1. m = [is |-> "quiescent", step |-> NoStep]
    BY <1>1 DEF MoveOf
  <2> QED BY <1>1, <2>1, NoStepType DEF Stuck
<1>2. CASE Offers(p, c) # {} /\ Clash(p, c, ph)
  <2>1. m = [is |-> "refused", step |-> NoStep]
    BY <1>2 DEF MoveOf
  <2> QED BY <1>2, <2>1, NoStepType DEF Stuck
<1>3. CASE Offers(p, c) # {} /\ ~Clash(p, c, ph)
  <2>1. a \in Offers(p, c) /\ a \in Candidate
    BY <1>3, SelectLeast, OffersFinite
  <2>2. a \in [gen : Gens, to : Worlds]
    BY <2>1, GenFacts, Zenon
  <2>3. a.gen \in Gens /\ a.to \in Worlds /\ c.world \in Worlds
    BY <2>2 DEF Config
  <2>4. StepOf(c, a) \in Stepped /\ StepOf(c, a).gen = a.gen
    BY <2>3 DEF StepOf, Stepped
  <2>5. CASE a.gen = "broken"
    <3>1. m = [is |-> "refused", step |-> NoStep]
      BY <1>3, <2>5 DEF MoveOf
    <3> QED BY <1>3, <2>5, <3>1, NoStepType DEF Stuck
  <2>6. CASE a.gen # "broken"
    <3>1. m = [is |-> a.gen, step |-> StepOf(c, a)]
      BY <1>3, <2>6 DEF MoveOf
    <3>2. a.gen \in {"tau", "act", "mixed"}
      BY <2>3, <2>6 DEF Gens
    <3> QED BY <1>3, <2>1, <2>4, <2>6, <3>1, <3>2 DEF Stuck
  <2> QED BY <2>5, <2>6
<1> QED BY <1>1, <1>2, <1>3

(* The move of a world, for a presentation that ignores history and phase. *)
Still(p, w) == MoveOf(p, [world |-> w, hist |-> 0], 0)

LEMMA HonestMove ==
    ASSUME NEW p, IsPresentation(p), Honest(p), NEW c \in Config, NEW ph
    PROVE  /\ Offers(p, c) = p.offers[0][c.world]
           /\ MoveOf(p, c, ph) = Still(p, c.world)
           /\ \A a, qh : KeyOf(p, a, ph) = KeyOf(p, a, qh)
<1> DEFINE d == [world |-> c.world, hist |-> 0]
<1>1. d \in Config /\ d.world = c.world /\ d.hist = 0 /\ c.hist \in Nat
  BY DEF Config
<1>2. Offers(p, c) = p.offers[0][c.world] /\ Offers(p, d) = p.offers[0][c.world]
  <2>1. c.hist % 2 \in {0, 1} /\ 0 % 2 = 0
    BY <1>1
  <2> QED BY <1>1, <2>1 DEF Offers, Honest
<1>3. \A a, qh, rh : KeyOf(p, a, qh) = KeyOf(p, a, rh)
  BY DEF KeyOf, Honest, IsPresentation
<1> HIDE DEF d
<1>4. Clash(p, c, ph) <=> Clash(p, d, 0)
  BY <1>2, <1>3 DEF Clash
<1>5. Offers(p, c) # {} /\ ~Clash(p, c, ph) => Select(p, c, ph) = Select(p, d, 0)
  <2> SUFFICES ASSUME Offers(p, c) # {}, ~Clash(p, c, ph)
               PROVE  Select(p, c, ph) = Select(p, d, 0)
    OBVIOUS
  <2> DEFINE A == Offers(p, c)
             a == Select(p, c, ph)
  <2>1. a \in A /\ \A b \in A \ {a} : Before(KeyOf(p, a, ph), KeyOf(p, b, ph))
    BY SelectLeast
  <2>2. \A b \in A \ {a} : Before(KeyOf(p, a, 0), KeyOf(p, b, 0))
    BY <1>3, <2>1
  <2>3. A = Offers(p, d)
    BY <1>2
  <2> HIDE DEF A, a
  <2>4. Offers(p, d) # {} /\ ~Clash(p, d, 0)
    BY <1>4, <2>3 DEF A
  <2>5. a = Select(p, d, 0)
    BY <1>1, <2>1, <2>2, <2>3, <2>4, SelectLeast
  <2> QED BY <2>5 DEF a
<1>6. \A a : StepOf(c, a) = StepOf(d, a)
  BY <1>1 DEF StepOf
<1>7. MoveOf(p, c, ph) = MoveOf(p, d, 0)
  BY <1>2, <1>4, <1>5, <1>6 DEF MoveOf
<1> QED BY <1>2, <1>3, <1>7 DEF Still, d
-----------------------------------------------------------------------------
(* The reference definitions satisfy their recursion. *)

Walked == [c : Config, step : Stepped]

(* One tick of the unsaturated run, at phase n. *)
WalkOn(p, n, c) ==
    LET m == MoveOf(p, c, n)
    IN  IF m.is \in Stuck THEN [c |-> c, step |-> NoStep]
        ELSE [c |-> [world |-> m.step.dst, hist |-> c.hist + 1], step |-> m.step]

LEMMA WalkOnType ==
    ASSUME NEW p, IsPresentation(p), NEW c \in Config, NEW n
    PROVE  WalkOn(p, n, c) \in Walked
<1>1. MoveOf(p, c, n).step \in Stepped
  BY MoveFacts
<1>2. MoveOf(p, c, n).step.dst \in Worlds /\ c.hist + 1 \in Nat
  BY <1>1 DEF Stepped, Config
<1>3. [world |-> MoveOf(p, c, n).step.dst, hist |-> c.hist + 1] \in Config
  BY <1>2 DEF Config
<1> QED BY <1>1, <1>3, NoStepType DEF WalkOn, Walked

LEMMA WalkFacts ==
    ASSUME NEW p, IsPresentation(p)
    PROVE  LET walk == Unsaturated(p)
           IN  /\ walk \in [Nat -> Walked]
               /\ walk[0] = [c |-> Config0, step |-> NoStep]
               /\ \A n \in Nat : walk[n + 1] = WalkOn(p, n, walk[n].c)
<1> DEFINE a == [c |-> Config0, step |-> NoStep]
           F == [x \in Nat \X Walked |-> WalkOn(p, x[1] - 1, x[2].c)]
<1>1. a \in Walked
  BY NoStepType DEF Walked
<1>2. F \in [Nat \X Walked -> Walked]
  <2>1. \A x \in Nat \X Walked : x[2].c \in Config
    BY DEF Walked
  <2>2. \A x \in Nat \X Walked : WalkOn(p, x[1] - 1, x[2].c) \in Walked
    BY <2>1, WalkOnType
  <2> QED BY <2>2
<1>3. PICK f \in [Nat -> Walked] : Recurs(f, a, F)
  <2> HIDE DEF a, F
  <2> QED BY <1>1, <1>2, NumberRecursion
<1>4. \A n \in Nat : n # 0 => F[<<n, f[n - 1]>>] = WalkOn(p, n - 1, f[n - 1].c)
  OBVIOUS
<1>5. f = [n \in Nat |-> IF n = 0 THEN a ELSE WalkOn(p, n - 1, f[n - 1].c)]
  <2> HIDE DEF a, F
  <2>1. \A n \in Nat : f[n] = IF n = 0 THEN a ELSE WalkOn(p, n - 1, f[n - 1].c)
    BY <1>3, <1>4 DEF Recurs
  <2>2. DOMAIN f = Nat
    OBVIOUS
  <2> QED BY <2>1, <2>2
<1> DEFINE walk == Unsaturated(p)
<1>6. walk = [n \in Nat |-> IF n = 0 THEN a ELSE WalkOn(p, n - 1, walk[n - 1].c)]
  BY <1>5 DEF Unsaturated, WalkOn, Stuck
<1> HIDE DEF walk, a
<1> DEFINE Typed == {n \in Nat : walk[n] \in Walked}
<1>7. \A n \in Nat : n \in Typed
  <2>1. 0 \in Typed
    BY <1>1, <1>6
  <2>2. ASSUME NEW n \in Nat, n \in Typed PROVE n + 1 \in Typed
    <3>1. walk[n].c \in Config
      BY <2>2 DEF Walked
    <3>2. walk[n + 1] = WalkOn(p, (n + 1) - 1, walk[(n + 1) - 1].c)
      BY <1>6
    <3>3. walk[n + 1] \in Walked
      BY <3>1, <3>2, WalkOnType
    <3> QED BY <3>3
  <2> HIDE DEF Typed
  <2> QED BY <2>1, <2>2, NumberInduction
<1>8. walk \in [Nat -> Walked] /\ walk[0] = a
  BY <1>6, <1>7
<1>9. \A n \in Nat : walk[n + 1] = WalkOn(p, n, walk[n].c)
  BY <1>6
<1> QED BY <1>8, <1>9 DEF walk, a
Ends == {"divergent", "quiescent", "realizing", "unknown"}
Orbit == [is : Ends, obs : Stepped, at : Worlds, hidden : Nat]
Resting(w) == [is |-> "divergent", obs |-> NoStep, at |-> w, hidden |-> 0]

LEMMA StillFacts ==
    ASSUME NEW p, IsPresentation(p), NEW w \in Worlds
    PROVE  /\ Still(p, w).step \in Stepped /\ Still(p, w).step.dst \in Worlds
           /\ Still(p, w).is \in Stuck \cup {"tau", "act", "mixed"}
<1> DEFINE c == [world |-> w, hist |-> 0]
<1>1. c \in Config
  BY DEF Config
<1>2. Still(p, w) = MoveOf(p, c, 0)
  BY DEF Still
<1> HIDE DEF c
<1>3. Still(p, w).step \in Stepped /\ Still(p, w).is \in Stuck \cup {"tau", "act", "mixed"}
  BY <1>1, <1>2, MoveFacts
<1> QED BY <1>3 DEF Stepped

LEMMA ExtendType ==
    ASSUME NEW p, IsPresentation(p), NEW o \in Orbit
    PROVE  Extend(o, Still(p, o.at)) \in Orbit
<1>1. o.at \in Worlds /\ o.hidden + 1 \in Nat /\ o.is \in Ends /\ o.obs \in Stepped /\ o.hidden \in Nat
  BY DEF Orbit
<1> DEFINE m == Still(p, o.at)
<1>2. m.step \in Stepped /\ m.step.dst \in Worlds
  BY <1>1, StillFacts
<1> HIDE DEF m
<1>3. (CASE m.is = "quiescent" -> "quiescent" [] m.is = "act" -> "realizing" [] OTHER -> "unknown") \in Ends
  BY DEF Ends
<1>4. Extend(o, m) \in Orbit
  BY <1>1, <1>2, <1>3 DEF Extend, Orbit
<1> QED BY <1>4 DEF m

LEMMA PathFacts ==
    ASSUME NEW p, IsPresentation(p)
    PROVE  LET path == Path(p)
           IN  /\ path \in [Nat -> [Worlds -> Orbit]]
               /\ \A w \in Worlds : path[0][w] = Resting(w)
               /\ \A n \in Nat, w \in Worlds :
                     path[n + 1][w] = Extend(path[n][w], Still(p, path[n][w].at))
<1> DEFINE V == [Worlds -> Orbit]
           a == [w \in Worlds |-> Resting(w)]
           moves == [w \in Worlds |-> Still(p, w)]
           F == [x \in Nat \X V |-> ExtendAll(x[2], moves)]
<1>1. a \in V
  <2>1. \A w \in Worlds : Resting(w) \in Orbit
    BY NoStepType DEF Resting, Orbit, Ends
  <2> QED BY <2>1
<1>2. \A o \in V : /\ ExtendAll(o, moves) \in V
                   /\ \A w \in Worlds : ExtendAll(o, moves)[w] = Extend(o[w], Still(p, o[w].at))
  <2> SUFFICES ASSUME NEW o \in V
               PROVE  /\ ExtendAll(o, moves) \in V
                      /\ \A w \in Worlds : ExtendAll(o, moves)[w] = Extend(o[w], Still(p, o[w].at))
    OBVIOUS
  <2>1. \A w \in Worlds : o[w] \in Orbit /\ o[w].at \in Worlds
    BY DEF Orbit
  <2>2. \A w \in Worlds : moves[o[w].at] = Still(p, o[w].at)
    BY <2>1
  <2>3. \A w \in Worlds : Extend(o[w], Still(p, o[w].at)) \in Orbit
    BY <2>1, ExtendType
  <2> HIDE DEF moves
  <2> QED BY <2>2, <2>3 DEF ExtendAll
<1>3. F \in [Nat \X V -> V]
  <2> HIDE DEF V, moves
  <2> QED BY <1>2
<1>4. PICK f \in [Nat -> V] : Recurs(f, a, F)
  <2> HIDE DEF V, a, F
  <2> QED BY <1>1, <1>3, NumberRecursion
<1>5. f = [n \in Nat |-> IF n = 0 THEN a ELSE ExtendAll(f[n - 1], moves)]
  <2> HIDE DEF V, a, moves
  <2>1. \A n \in Nat : n # 0 => F[<<n, f[n - 1]>>] = ExtendAll(f[n - 1], moves)
    OBVIOUS
  <2> HIDE DEF F
  <2>2. \A n \in Nat : f[n] = IF n = 0 THEN a ELSE ExtendAll(f[n - 1], moves)
    BY <1>4, <2>1 DEF Recurs
  <2>3. DOMAIN f = Nat
    OBVIOUS
  <2> QED BY <2>2, <2>3
<1> DEFINE path == Path(p)
<1>6. path = [n \in Nat |-> IF n = 0 THEN a ELSE ExtendAll(path[n - 1], moves)]
  BY <1>5 DEF Path, Resting, Still
<1> HIDE DEF path
<1> DEFINE Typed == {n \in Nat : path[n] \in V}
<1>7. \A n \in Nat : n \in Typed
  <2> HIDE DEF V, a, moves
  <2>1. 0 \in Typed
    BY <1>1, <1>6
  <2>2. ASSUME NEW n \in Nat, n \in Typed PROVE n + 1 \in Typed
    <3>1. path[n + 1] = ExtendAll(path[(n + 1) - 1], moves)
      BY <1>6
    <3>2. path[n + 1] \in V
      BY <1>2, <2>2, <3>1
    <3> QED BY <3>2
  <2> HIDE DEF Typed
  <2> QED BY <2>1, <2>2, NumberInduction
<1>8. path \in [Nat -> V] /\ path[0] = a
  <2> HIDE DEF V, a, moves
  <2> QED BY <1>6, <1>7
<1>9. \A n \in Nat : path[n + 1] = ExtendAll(path[n], moves)
  <2> HIDE DEF a, moves
  <2> QED BY <1>6
<1>10. \A n \in Nat, w \in Worlds : path[n + 1][w] = Extend(path[n][w], Still(p, path[n][w].at))
  <2> HIDE DEF moves, V
  <2> QED BY <1>2, <1>7, <1>9
<1> QED BY <1>8, <1>10 DEF path
(* A move that is not hidden ends the orbit for good. *)
LEMMA OrbitEnds ==
    ASSUME NEW p, IsPresentation(p), NEW k \in Nat, NEW w \in Worlds,
           Still(p, Path(p)[k][w].at).is # "tau"
    PROVE  \A n \in Nat : n > k => Path(p)[n][w] = Extend(Path(p)[k][w], Still(p, Path(p)[k][w].at))
<1> DEFINE path == Path(p)
           o == path[k][w]
           m == Still(p, o.at)
           e == Extend(o, m)
           T == {n \in Nat : path[k + 1 + n][w] = e}
<1>1. /\ path \in [Nat -> [Worlds -> Orbit]]
      /\ \A n \in Nat : path[n + 1][w] = Extend(path[n][w], Still(p, path[n][w].at))
  BY PathFacts
<1>2. o \in Orbit
  BY <1>1
<1>3. e.at = o.at /\ Extend(e, m) = e
  <2>1. m.is # "tau"
    OBVIOUS
  <2> HIDE DEF o, m
  <2> DEFINE is == CASE m.is = "quiescent" -> "quiescent" [] m.is = "act" -> "realizing" [] OTHER -> "unknown"
  <2> HIDE DEF is
  <2>2. ASSUME NEW x \in Orbit
        PROVE  Extend(x, m) = [is |-> is, obs |-> m.step, at |-> x.at, hidden |-> x.hidden]
    <3>1. x = [is |-> x.is, obs |-> x.obs, at |-> x.at, hidden |-> x.hidden]
      BY DEF Orbit
    <3>2. Extend(x, m) = [x EXCEPT !.obs = m.step, !.is = is]
      BY <2>1 DEF Extend, is
    <3> QED BY <3>1, <3>2
  <2>3. e = [is |-> is, obs |-> m.step, at |-> o.at, hidden |-> o.hidden]
    BY <1>2, <2>2
  <2>4. e.at = o.at /\ e.hidden = o.hidden
    BY <2>3
  <2>5. e \in Orbit
    BY <1>2, ExtendType DEF m
  <2> HIDE DEF e
  <2>6. Extend(e, m) = [is |-> is, obs |-> m.step, at |-> e.at, hidden |-> e.hidden]
    BY <2>2, <2>5
  <2> QED BY <2>3, <2>4, <2>6
<1>4. 0 \in T
  BY <1>1
<1>5. ASSUME NEW n \in Nat, n \in T PROVE n + 1 \in T
  <2>1. k + 1 + n \in Nat /\ k + 1 + (n + 1) = (k + 1 + n) + 1
    OBVIOUS
  <2>2. path[k + 1 + n][w] = e
    BY <1>5
  <2> HIDE DEF path, o, e
  <2>3. path[(k + 1 + n) + 1][w] = Extend(e, Still(p, e.at))
    BY <1>1, <2>1, <2>2
  <2>4. Still(p, e.at) = m
    BY <1>3
  <2>5. path[k + 1 + (n + 1)][w] = e
    BY <1>3, <2>1, <2>3, <2>4
  <2> QED BY <2>5
<1>6. \A n \in Nat : n \in T
  <2> HIDE DEF T
  <2> QED BY <1>4, <1>5, NumberInduction
<1>7. ASSUME NEW n \in Nat, n > k PROVE path[n][w] = e
  <2>1. n - (k + 1) \in Nat /\ k + 1 + (n - (k + 1)) = n
    BY <1>7
  <2> HIDE DEF path, e
  <2>2. n - (k + 1) \in T
    BY <1>6, <2>1
  <2> QED BY <2>1, <2>2
<1> QED BY <1>7

(* Hidden moves among a set of worlds go on for ever. *)
ClosedUnder(p, C) ==
    C \subseteq Worlds /\ \A x \in C : Still(p, x).is = "tau" /\ Still(p, x).step.dst \in C

LEMMA OrbitCycles ==
    ASSUME NEW p, IsPresentation(p), NEW C, ClosedUnder(p, C), NEW w \in C
    PROVE  \A n \in Nat : Path(p)[n][w].is = "divergent"
<1> USE DEF ClosedUnder
<1> DEFINE path == Path(p)
           T == {n \in Nat : path[n][w].is = "divergent" /\ path[n][w].at \in C}
<1>1. /\ path \in [Nat -> [Worlds -> Orbit]]
      /\ path[0][w] = Resting(w)
      /\ \A n \in Nat : path[n + 1][w] = Extend(path[n][w], Still(p, path[n][w].at))
  BY PathFacts
<1> HIDE DEF path
<1>2. 0 \in T
  BY <1>1 DEF Resting
<1>3. ASSUME NEW n \in Nat, n \in T PROVE n + 1 \in T
  <2> DEFINE o == path[n][w]
             m == Still(p, o.at)
  <2>1. o \in Orbit /\ o.is = "divergent" /\ o.at \in C
    BY <1>1, <1>3
  <2>2. m.is = "tau" /\ m.step.dst \in C
    BY <2>1
  <2>3. path[n + 1][w] = Extend(o, m)
    BY <1>1
  <2> HIDE DEF o, m
  <2>4. Extend(o, m).is = "divergent" /\ Extend(o, m).at \in C
    BY <2>1, <2>2 DEF Extend, Orbit
  <2> QED BY <2>3, <2>4
<1>4. \A n \in Nat : n \in T
  <2> HIDE DEF T
  <2> QED BY <1>2, <1>3, NumberInduction
<1> QED BY <1>4 DEF path

(* One step of the agreement of two orbits. *)
LEMMA AgreementFacts ==
    ASSUME NEW contract, NEW impl, NEW spec
    PROVE  LET agree == Agreement(contract, impl, spec)
           IN  /\ agree[0] = Worlds \X Worlds
               /\ \A k \in Nat :
                     agree[k + 1] = {pair \in Worlds \X Worlds :
                                       Keep(contract, impl[pair[1]], spec[pair[2]], agree[k])}
<1> DEFINE V == SUBSET (Worlds \X Worlds)
           Step(R) == {pair \in Worlds \X Worlds :
                         Keep(contract, impl[pair[1]], spec[pair[2]], R)}
           a == Worlds \X Worlds
           F == [x \in Nat \X V |-> Step(x[2])]
<1>1. a \in V /\ \A R : Step(R) \in V
  OBVIOUS
<1>2. F \in [Nat \X V -> V]
  <2> HIDE DEF V, Step
  <2> QED BY <1>1
<1>3. PICK f \in [Nat -> V] : Recurs(f, a, F)
  <2> HIDE DEF V, a, F
  <2> QED BY <1>1, <1>2, NumberRecursion
<1>4. f = [k \in Nat |-> IF k = 0 THEN a ELSE Step(f[k - 1])]
  <2> HIDE DEF V, a, Step
  <2>1. \A n \in Nat : n # 0 => F[<<n, f[n - 1]>>] = Step(f[n - 1])
    OBVIOUS
  <2> HIDE DEF F
  <2>2. \A n \in Nat : f[n] = IF n = 0 THEN a ELSE Step(f[n - 1])
    BY <1>3, <2>1 DEF Recurs
  <2>3. DOMAIN f = Nat
    OBVIOUS
  <2> QED BY <2>2, <2>3
<1> DEFINE agree == Agreement(contract, impl, spec)
<1>5. agree = [k \in Nat |-> IF k = 0 THEN a ELSE Step(agree[k - 1])]
  BY <1>4 DEF Agreement
<1> HIDE DEF agree
<1>6. agree[0] = a /\ \A k \in Nat : agree[k + 1] = Step(agree[k])
  <2> HIDE DEF a, Step
  <2> QED BY <1>5
<1> QED BY <1>6 DEF agree
-----------------------------------------------------------------------------
(* What sat_step says about the orbit of its source. *)

IsVerdict(v) == v.obs \in Stepped /\ v.next \in Config

Typed ==
    /\ setup.task \in Task /\ setup.budget \in Budget
    /\ IsPresentation(setup.impl) /\ IsPresentation(setup.spec)
    /\ side \in Sides
    /\ at \in [Sides -> Config] /\ phase \in [Sides -> Nat]
    /\ verdict = [s \in Sides |-> verdict[s]]
    /\ \A s \in Sides : IsVerdict(verdict[s])
    /\ sat = [now |-> sat.now, consumed |-> sat.consumed, visited |-> sat.visited]
    /\ sat.now \in Config /\ sat.consumed \in Seq(Stepped)
    /\ journal \in Seq(Stepped) /\ visible \in Seq(Stepped)
    /\ seen \subseteq Worlds \X Worlds

(* Every step is the hidden move of its source. *)
Hidden(p, steps) ==
    \A i \in 1..Len(steps) : Still(p, steps[i].src) = [is |-> "tau", step |-> steps[i]]

(* Inside sat_step: one visited world per consumed step and the present     *)
(* one; an honest presentation's orbit has come to the same world, and the  *)
(* offers kept for the P1 check are the ones it always makes.              *)
OnCourse(p, src, t, b) ==
    LET k == Len(t.consumed)
        here == t.now.world
    IN  /\ k <= b.hidden
        /\ DOMAIN t.visited \subseteq Worlds
        /\ Cardinality(DOMAIN t.visited) = k + 1
        /\ \A w \in DOMAIN t.visited : w = here \/ \E i \in 1..k : w = t.consumed[i].src
        /\ here \in DOMAIN t.visited
        /\ Honest(p) =>
              /\ Path(p)[k][src] = [Resting(here) EXCEPT !.hidden = k]
              /\ Hidden(p, t.consumed)
              /\ "P1" \in p.declares =>
                    \A w \in DOMAIN t.visited : t.visited[w].offers = p.offers[0][w]

Course == pc = "tick" => OnCourse(Pres(side), Source, sat, budget)

Cycle(p, steps) ==
    /\ Hidden(p, steps)
    /\ \A i \in 1..Len(steps) : \E j \in 1..Len(steps) : steps[i].dst = steps[j].src

(* Why sat_step may give up on an honest presentation. *)
Excuse(p, o, b) ==
    \/ o.is = "unknown"
    \/ o.is = "divergent" /\ p.declares # {"P1", "P6"}
    \/ b.states < NumWorlds
    \/ b.hidden < NumWorlds - 1

(* A verdict, held against the orbit of the world it was asked for. *)
Truth(p, v, w, b) ==
    LET o == Orbits(p)[w]
    IN  Honest(p) =>
            /\ v.is # "unknown" => v.is = o.is
            /\ v.is = "realizing" => v.obs = o.obs /\ v.next.world = v.obs.dst
            /\ v.is = "unknown" => Excuse(p, o, b)

(* The steps consumed for it. *)
Measured(p, v, w, steps) ==
    LET o == Orbits(p)[w]
    IN  Honest(p) =>
            /\ v.is = "realizing" => Len(steps) = o.hidden + 1
            /\ v.is = "quiescent" => v.next.world = o.at /\ Len(steps) = o.hidden
            /\ v.is = "divergent" => Cycle(p, steps)

Told(s) == Truth(Pres(s), verdict[s], at[s].world, budget)

Settled ==
    pc = "collect" => Told(side) /\ Measured(Pres(side), verdict[side], Source, sat.consumed)

Bounded == Len(sat.consumed) <= budget.hidden + 1

SatInv == Typed /\ Bounded /\ Course /\ Settled

LEMMA PresFacts ==
    ASSUME Typed, NEW s \in Sides
    PROVE  /\ IsPresentation(Pres(s)) /\ Pres(s).declares \subseteq {"P1", "P6"}
           /\ at[s].world \in Worlds /\ at[s] \in Config
           /\ budget.hidden \in Nat /\ budget.states \in Nat /\ budget.visible \in Nat
<1>1. IsPresentation(Pres(s))
  BY DEF Typed, Pres
<1>2. at[s] \in Config
  BY DEF Typed
<1>3. budget \in Budget
  BY DEF Typed, budget
<1> QED BY <1>1, <1>2, <1>3 DEF IsPresentation, Config, Budget

LEMMA WorldsFacts ==
    /\ IsFiniteSet(Worlds) /\ NumWorlds \in Nat
    /\ \A S \in SUBSET Worlds : IsFiniteSet(S) /\ Cardinality(S) \in Nat /\ Cardinality(S) <= NumWorlds
<1>1. IsFiniteSet(Worlds) /\ NumWorlds \in Nat
  BY WorldsAssumption, FS_CardinalityType DEF NumWorlds
<1> QED BY <1>1, FS_Subset, FS_CardinalityType DEF NumWorlds

(* What the tick commits, when it commits. *)
LEMMA TickFacts ==
    ASSUME Typed, Ticks
    PROVE  /\ Chosen \in Offers(Pres(side), sat.now)
           /\ Committed \in Stepped /\ Committed.gen = Chosen.gen
           /\ Committed.src = sat.now.world
           /\ Applied(sat.now, Chosen) \in Config
           /\ Committed.dst = Applied(sat.now, Chosen).world
           /\ Label(Committed) = "administrative" <=> Chosen.gen = "tau"
           /\ Label(Committed) = "realizing" <=> Chosen.gen = "act"
           /\ Chosen.gen = "broken" => MoveOf(Pres(side), sat.now, TickPhase).is = "refused"
           /\ Chosen.gen # "broken" =>
                 MoveOf(Pres(side), sat.now, TickPhase) = [is |-> Chosen.gen, step |-> Committed]
<1> DEFINE p == Pres(side)
           c == sat.now
<1>1. IsPresentation(p) /\ c \in Config
  BY PresFacts DEF Typed
<1>2. Offers(p, c) # {} /\ ~Clash(p, c, TickPhase)
  BY DEF Ticks, Frontier, Conflict
<1> DEFINE a == Select(p, c, TickPhase)
<1>3. a = Chosen /\ StepOf(c, a) = Committed
  BY DEF Chosen, Committed
<1> HIDE DEF p, c
<1>4. a \in Offers(p, c) /\ a \in Candidate
  BY <1>1, <1>2, SelectLeast, OffersFinite
<1>5. a \in [gen : Gens, to : Worlds]
  BY <1>4, GenFacts, Zenon
<1>6. a.gen \in Gens /\ a.to \in Worlds /\ c.world \in Worlds /\ c.hist \in Nat
  BY <1>1, <1>5 DEF Config
<1>7. /\ StepOf(c, a) \in Stepped /\ StepOf(c, a).gen = a.gen
      /\ StepOf(c, a).src = c.world /\ StepOf(c, a).dst = a.to
  BY <1>6 DEF StepOf, Stepped
<1>8. Applied(c, a) \in Config /\ Applied(c, a).world = a.to
  BY <1>6 DEF Applied, Config
<1>9. /\ a.gen = "broken" => MoveOf(p, c, TickPhase).is = "refused"
      /\ a.gen # "broken" => MoveOf(p, c, TickPhase) = [is |-> a.gen, step |-> StepOf(c, a)]
  BY <1>1, <1>2, MoveFacts
<1>10. /\ Label(StepOf(c, a)) = "administrative" <=> a.gen = "tau"
       /\ Label(StepOf(c, a)) = "realizing" <=> a.gen = "act"
  BY <1>7 DEF Label
<1> QED BY <1>3, <1>4, <1>7, <1>8, <1>9, <1>10 DEF p, c

(* An honest presentation's orbit ends where the tick finds no hidden move. *)
LEMMA OrbitOutcome ==
    ASSUME Typed, Course, pc = "tick", Honest(Pres(side)),
           NEW m, m = MoveOf(Pres(side), sat.now, TickPhase), m.is # "tau"
    PROVE  LET o == Orbits(Pres(side))[Source]
           IN  /\ o.is = CASE m.is = "quiescent" -> "quiescent"
                           [] m.is = "act" -> "realizing" [] OTHER -> "unknown"
               /\ o.obs = m.step /\ o.at = sat.now.world /\ o.hidden = Len(sat.consumed)
<1> DEFINE p == Pres(side)
           k == Len(sat.consumed)
           here == sat.now.world
           start == [Resting(here) EXCEPT !.hidden = k]
<1>1. IsPresentation(p) /\ Source \in Worlds /\ sat.now \in Config
  BY PresFacts DEF Typed, Source
<1>2. m = Still(p, here)
  BY <1>1, HonestMove
<1>3. k \in Nat
  BY DEF Typed
<1>4. /\ Path(p)[k][Source] = start
      /\ DOMAIN sat.visited \subseteq Worlds /\ Cardinality(DOMAIN sat.visited) = k + 1
  BY DEF Course, OnCourse
<1>5. start.at = here /\ start.hidden = k
      /\ start = [is |-> "divergent", obs |-> NoStep, at |-> here, hidden |-> k]
  BY DEF Resting
<1>6. NumWorlds \in Nat /\ NumWorlds > k
  BY <1>3, <1>4, WorldsFacts
<1> HIDE DEF p, k, here, start
<1>7. Path(p)[NumWorlds][Source] = Extend(start, m)
  BY <1>1, <1>2, <1>3, <1>4, <1>5, <1>6, OrbitEnds
<1> DEFINE is == CASE m.is = "quiescent" -> "quiescent" [] m.is = "act" -> "realizing" [] OTHER -> "unknown"
<1>8. Extend(start, m) = [start EXCEPT !.obs = m.step, !.is = is]
  BY DEF Extend
<1> HIDE DEF is
<1>9. Extend(start, m) = [is |-> is, obs |-> m.step, at |-> here, hidden |-> k]
  BY <1>5, <1>8
<1>10. Orbits(p)[Source] = [is |-> is, obs |-> m.step, at |-> here, hidden |-> k]
  BY <1>7, <1>9 DEF Orbits
<1>11. LET o == Orbits(p)[Source]
       IN  o.is = is /\ o.obs = m.step /\ o.at = here /\ o.hidden = k
  BY <1>10
<1> QED BY <1>11 DEF is, p, k, here

(* Hidden moves that come back to a world of the path never end. *)
LEMMA CycleDiverges ==
    ASSUME Typed, NEW p, IsPresentation(p), NEW steps \in Seq(Stepped), Cycle(p, steps),
           NEW w \in Worlds, steps # <<>>, steps[1].src = w
    PROVE  Orbits(p)[w].is = "divergent"
<1> DEFINE C == {steps[i].src : i \in 1..Len(steps)}
<1>1. Len(steps) \in Nat /\ Len(steps) > 0 /\ \A i \in 1..Len(steps) : steps[i] \in Stepped
  OBVIOUS
<1>2. C \subseteq Worlds
  BY <1>1 DEF Stepped
<1>3. w \in C
  BY <1>1
<1>4. ASSUME NEW x \in C
      PROVE  Still(p, x).is = "tau" /\ Still(p, x).step.dst \in C
  <2>1. PICK i \in 1..Len(steps) : x = steps[i].src
    OBVIOUS
  <2>2. Still(p, x) = [is |-> "tau", step |-> steps[i]]
    BY <2>1 DEF Cycle, Hidden
  <2>3. PICK j \in 1..Len(steps) : steps[i].dst = steps[j].src
    BY DEF Cycle
  <2> QED BY <2>2, <2>3
<1> HIDE DEF C
<1>5. ClosedUnder(p, C)
  BY <1>2, <1>4 DEF ClosedUnder
<1>6. \A n \in Nat : Path(p)[n][w].is = "divergent"
  BY <1>3, <1>5, OrbitCycles
<1> QED BY <1>6, WorldsFacts DEF Orbits
-----------------------------------------------------------------------------
(* The steps of sat_step keep SatInv. *)

LEMMA SatInit == Init => SatInv
<1> SUFFICES ASSUME Init PROVE SatInv
  OBVIOUS
<1>1. PICK f \in Families : \E i \in DOMAIN f.against :
          \E t \in f.tasks, b \in f.budgets, s \in f.against[i] :
              setup = [task |-> t, budget |-> b, impl |-> i, spec |-> s]
  BY DEF Init
<1>2. PICK i \in DOMAIN f.against :
          \E t \in f.tasks, b \in f.budgets, s \in f.against[i] :
              setup = [task |-> t, budget |-> b, impl |-> i, spec |-> s]
  BY <1>1
<1>2a. PICK t \in f.tasks, b \in f.budgets, s \in f.against[i] :
          setup = [task |-> t, budget |-> b, impl |-> i, spec |-> s]
  BY <1>2
<1>3. t \in Task /\ b \in Budget /\ IsPresentation(i) /\ IsPresentation(s)
  BY FamiliesAssumption
<1>4. setup.task = t /\ setup.budget = b /\ setup.impl = i /\ setup.spec = s
  BY <1>2a
<1>5. <<>> \in Seq(Stepped) /\ Len(<<>>) = 0
  BY EmptySeq
<1>6. NoVerdict.obs = NoStep /\ NoVerdict.next = Config0
  BY DEF NoVerdict
<1>7. Typed
  BY <1>3, <1>4, <1>5, <1>6, NoStepType DEF Init, Typed, Sides, IsVerdict
<1>8. Bounded
  BY <1>3, <1>4, <1>5 DEF Init, Bounded, budget, Budget
<1>9. pc # "tick" /\ pc # "collect"
  BY DEF Init
<1> QED BY <1>7, <1>8, <1>9 DEF SatInv, Course, Settled

LEMMA SatEnter ==
    ASSUME SatInv, NEW s \in Sides, EnterSat(s, at[s]),
           UNCHANGED <<setup, at, phase, verdict, journal, visible>>,
           seen' \subseteq Worlds \X Worlds
    PROVE  SatInv'
<1> DEFINE c == at[s]
           p == Pres(s)
           b == setup.budget
<1>1. Typed /\ IsPresentation(p) /\ c \in Config /\ c.world \in Worlds /\ b.hidden \in Nat
  BY PresFacts DEF SatInv, budget
<1>2. /\ side' = s /\ pc' = "tick" /\ Pres(side)' = p /\ Source' = c.world /\ budget' = b
      /\ sat' = [now |-> c, consumed |-> <<>>, visited |-> [w \in {c.world} |-> Visit(p, c, 0)]]
  BY DEF EnterSat, Pres, Source, budget
<1>3. <<>> \in Seq(Stepped) /\ Len(<<>>) = 0
  BY EmptySeq
<1> HIDE DEF c, p, b
<1>4. Typed'
  <2>1. /\ sat'.now \in Config /\ sat'.consumed \in Seq(Stepped)
        /\ sat' = [now |-> sat'.now, consumed |-> sat'.consumed, visited |-> sat'.visited]
    BY <1>1, <1>2, <1>3
  <2> QED BY <1>1, <1>2, <2>1 DEF Typed
<1>5. Bounded'
  BY <1>1, <1>2, <1>3 DEF Bounded
<1>6. OnCourse(p, c.world, sat', b)
  <2> DEFINE t == sat'
  <2>1. /\ t.consumed = <<>> /\ t.now = c /\ DOMAIN t.visited = {c.world}
        /\ t.visited[c.world] = Visit(p, c, 0)
    BY <1>2
  <2> HIDE DEF t
  <2>2. Cardinality({c.world}) = 1
    BY FS_Singleton
  <2>3. [Resting(c.world) EXCEPT !.hidden = 0] = Resting(c.world)
    BY DEF Resting
  <2>4. Path(p)[0][c.world] = Resting(c.world)
    BY <1>1, PathFacts
  <2>5. Hidden(p, <<>>)
    BY DEF Hidden
  <2>6. "P1" \in p.declares => Visit(p, c, 0).offers = Offers(p, c)
    BY DEF Visit
  <2>7. Honest(p) => Offers(p, c) = p.offers[0][c.world]
    BY <1>1, HonestMove
  <2> QED BY <1>1, <1>3, <2>1, <2>2, <2>3, <2>4, <2>5, <2>6, <2>7 DEF OnCourse, t
<1>7. Course' /\ Settled'
  BY <1>2, <1>6 DEF Course, Settled
<1> QED BY <1>4, <1>5, <1>7 DEF SatInv

(* sat_step returns a verdict that is true of the orbit. *)
LEMMA SatReturn ==
    ASSUME SatInv, pc = "tick", NEW v, NEW steps \in Seq(Stepped), Return(v, steps),
           UNCHANGED <<setup, side, at, journal, visible, seen>>,
           IsVerdict(v), Len(steps) <= budget.hidden + 1,
           Truth(Pres(side), v, Source, budget), Measured(Pres(side), v, Source, steps)
    PROVE  SatInv'
<1> DEFINE p == Pres(side)
           b == setup.budget
<1>1. /\ pc' = "collect" /\ sat' = [sat EXCEPT !.consumed = steps] /\ Source' = Source
      /\ Pres(side)' = p /\ budget' = b /\ budget = b /\ side' = side
      /\ verdict' = [verdict EXCEPT ![side] = v]
      /\ phase' = [phase EXCEPT ![side] = Advance(@, steps)]
  BY DEF Return, Source, Pres, budget
<1>2. /\ sat'.consumed = steps /\ sat'.now = sat.now
      /\ sat' = [now |-> sat'.now, consumed |-> sat'.consumed, visited |-> sat'.visited]
  BY <1>1 DEF SatInv, Typed
<1>3. Len(steps) \in Nat
  OBVIOUS
<1>4. Typed'
  <2>1. verdict' = [s \in Sides |-> verdict'[s]] /\ \A s \in Sides : IsVerdict(verdict'[s])
    BY <1>1 DEF SatInv, Typed
  <2>2. phase' \in [Sides -> Nat]
    BY <1>1, <1>3 DEF SatInv, Typed, Advance
  <2> QED BY <1>1, <1>2, <2>1, <2>2 DEF SatInv, Typed
<1>5. verdict'[side'] = v /\ at'[side'] = at[side]
  BY <1>1 DEF SatInv, Typed
<1>6. Bounded'
  BY <1>1, <1>2 DEF Bounded
<1> HIDE DEF p, b
<1>7. Course'
  BY <1>1 DEF Course
<1>8. Settled'
  <2>1. Truth(p, v, Source, b) /\ Measured(p, v, Source, steps)
    BY <1>1 DEF p
  <2>2. Told(side)' = Truth(p, v, Source, b)
    BY <1>1, <1>5 DEF Told, Source
  <2> QED BY <1>1, <1>2, <1>5, <2>1, <2>2 DEF Settled
<1> QED BY <1>4, <1>6, <1>7, <1>8 DEF SatInv
(* sat_step gives up, for a reason the orbit or the budget gives. *)
LEMMA SatUnknown ==
    ASSUME SatInv, pc = "tick", NEW why, NEW steps \in Seq(Stepped), Return(Unknown(why), steps),
           UNCHANGED <<setup, side, at, journal, visible, seen>>, Len(steps) <= budget.hidden + 1,
           Honest(Pres(side)) => Excuse(Pres(side), Orbits(Pres(side))[Source], budget)
    PROVE  SatInv'
<1> DEFINE v == Unknown(why)
<1>1. v.is = "unknown" /\ v.obs = NoStep /\ v.next = Config0
  BY DEF Unknown, NoVerdict
<1> HIDE DEF v
<1>2. IsVerdict(v)
  BY <1>1, NoStepType DEF IsVerdict
<1>3. Truth(Pres(side), v, Source, budget) /\ Measured(Pres(side), v, Source, steps)
  BY <1>1 DEF Truth, Measured
<1>4. Return(v, steps)
  BY DEF v
<1> QED BY <1>2, <1>3, <1>4, SatReturn

(* The length of the path, and of the path with one more step. *)
LEMMA CourseLength ==
    ASSUME SatInv, pc = "tick", NEW x \in Stepped
    PROVE  /\ Len(sat.consumed) \in Nat /\ Len(sat.consumed) <= budget.hidden
           /\ budget.hidden \in Nat
           /\ Append(sat.consumed, x) \in Seq(Stepped)
           /\ Len(Append(sat.consumed, x)) = Len(sat.consumed) + 1
           /\ Len(Append(sat.consumed, x)) <= budget.hidden + 1
           /\ Len(sat.consumed) <= budget.hidden + 1
<1>1. sat.consumed \in Seq(Stepped) /\ side \in Sides /\ Typed
  BY DEF SatInv, Typed
<1>2. budget.hidden \in Nat
  BY <1>1, PresFacts
<1>3. Len(sat.consumed) <= budget.hidden
  BY DEF SatInv, Course, OnCourse
<1> QED BY <1>1, <1>2, <1>3

LEMMA SatRefused ==
    ASSUME SatInv, TickKeyConflict \/ TickRejected \/ TickUnlabelled
    PROVE  SatInv'
<1> DEFINE p == Pres(side)
           m == MoveOf(p, sat.now, TickPhase)
           o == Orbits(p)[Source]
<1>1. pc = "tick" /\ UNCHANGED <<setup, side, at, journal, visible, seen>>
  BY DEF TickKeyConflict, TickRejected, TickUnlabelled, Ticks
<1>2. Typed /\ Course /\ IsPresentation(p) /\ sat.now \in Config /\ side \in Sides
      /\ sat.consumed \in Seq(Stepped)
  BY PresFacts DEF SatInv, Typed
<1>3. m.is \in {"refused", "mixed"}
  <2>1. CASE TickKeyConflict
    <3>1. Clash(p, sat.now, TickPhase) /\ Offers(p, sat.now) # {}
      BY <2>1 DEF TickKeyConflict, Conflict, Clash
    <3> HIDE DEF p
    <3> QED BY <1>2, <3>1, MoveFacts
  <2>2. CASE TickRejected
    BY <1>2, <2>2, TickFacts DEF TickRejected
  <2>3. CASE TickUnlabelled
    <3>1. /\ m = [is |-> Chosen.gen, step |-> Committed] /\ Chosen.gen \notin {"tau", "act", "broken"}
      BY <1>2, <2>3, TickFacts DEF TickUnlabelled
    <3>2. m.is \in Stuck \cup {"tau", "act", "mixed"}
      BY <1>2, MoveFacts
    <3>3. m.is = Chosen.gen /\ Chosen.gen \in Gens
      <4>1. Chosen \in Candidate
        BY <1>2, <2>3, TickFacts, OffersFinite DEF TickUnlabelled
      <4>2. Chosen \in [gen : Gens, to : Worlds]
        BY <4>1, GenFacts, Zenon
      <4> QED BY <3>1, <4>2
    <3> HIDE DEF m
    <3> QED BY <3>1, <3>3 DEF Gens
  <2> QED BY <2>1, <2>2, <2>3
<1>4. Honest(p) => Excuse(p, o, budget)
  <2> SUFFICES ASSUME Honest(p) PROVE o.is = "unknown"
    BY DEF Excuse
  <2> HIDE DEF m
  <2>1. o.is = CASE m.is = "quiescent" -> "quiescent" [] m.is = "act" -> "realizing" [] OTHER -> "unknown"
    BY <1>1, <1>2, <1>3, OrbitOutcome DEF m
  <2> QED BY <1>3, <2>1
<1>5. \E why : \E steps \in {sat.consumed, Append(sat.consumed, Committed)} :
          /\ Return(Unknown(why), steps)
          /\ steps \in Seq(Stepped) /\ Len(steps) <= budget.hidden + 1
  <2>1. CASE TickKeyConflict \/ TickRejected
    <3>1. sat.consumed \in Seq(Stepped) /\ Len(sat.consumed) <= budget.hidden + 1
      BY <1>1, <1>2, NoStepType, CourseLength
    <3> QED BY <2>1, <3>1 DEF TickKeyConflict, TickRejected
  <2>2. CASE TickUnlabelled
    <3>1. Committed \in Stepped
      BY <1>2, <2>2, TickFacts DEF TickUnlabelled
    <3>2. Append(sat.consumed, Committed) \in Seq(Stepped)
          /\ Len(Append(sat.consumed, Committed)) <= budget.hidden + 1
      BY <1>1, <3>1, CourseLength
    <3> QED BY <2>2, <3>2 DEF TickUnlabelled
  <2> QED BY <2>1, <2>2
<1> QED BY <1>1, <1>4, <1>5, SatUnknown

LEMMA SatQuiescent == ASSUME SatInv, TickQuiescent PROVE SatInv'
<1> DEFINE p == Pres(side)
           m == MoveOf(p, sat.now, TickPhase)
           o == Orbits(p)[Source]
           v == [NoVerdict EXCEPT !.is = "quiescent", !.next = sat.now]
<1>1. pc = "tick" /\ UNCHANGED <<setup, side, at, journal, visible, seen>> /\ Return(v, sat.consumed)
  BY DEF TickQuiescent
<1>2. Typed /\ Course /\ IsPresentation(p) /\ sat.now \in Config /\ side \in Sides
      /\ sat.consumed \in Seq(Stepped)
  BY PresFacts DEF SatInv, Typed
<1>3. m.is = "quiescent"
  <2>1. Offers(p, sat.now) = {}
    BY DEF TickQuiescent, Frontier
  <2> HIDE DEF p
  <2> QED BY <1>2, <2>1, MoveFacts
<1>4. v.is = "quiescent" /\ v.next = sat.now /\ v.obs = NoStep
  BY DEF NoVerdict
<1>5. Honest(p) => o.is = "quiescent" /\ o.at = sat.now.world /\ o.hidden = Len(sat.consumed)
  <2> SUFFICES ASSUME Honest(p)
               PROVE  o.is = "quiescent" /\ o.at = sat.now.world /\ o.hidden = Len(sat.consumed)
    OBVIOUS
  <2> HIDE DEF m
  <2>1. /\ o.is = CASE m.is = "quiescent" -> "quiescent" [] m.is = "act" -> "realizing" [] OTHER -> "unknown"
        /\ o.at = sat.now.world /\ o.hidden = Len(sat.consumed)
    BY <1>1, <1>2, <1>3, OrbitOutcome DEF m
  <2> QED BY <1>3, <2>1
<1> HIDE DEF v, p
<1>6. IsVerdict(v)
  BY <1>2, <1>4, NoStepType DEF IsVerdict
<1>7. Len(sat.consumed) <= budget.hidden + 1
  BY <1>1, NoStepType, CourseLength
<1>8. Truth(p, v, Source, budget) /\ Measured(p, v, Source, sat.consumed)
  BY <1>4, <1>5 DEF Truth, Measured
<1> QED BY <1>1, <1>2, <1>6, <1>7, <1>8, SatReturn DEF p

LEMMA SatRealizing == ASSUME SatInv, TickRealizing PROVE SatInv'
<1> DEFINE p == Pres(side)
           m == MoveOf(p, sat.now, TickPhase)
           o == Orbits(p)[Source]
           c == Applied(sat.now, Chosen)
           steps == Append(sat.consumed, Committed)
           v == [NoVerdict EXCEPT !.is = "realizing", !.obs = Committed, !.next = c]
<1>1. /\ pc = "tick" /\ UNCHANGED <<setup, side, at, journal, visible, seen>> /\ Return(v, steps)
      /\ Ticks /\ Label(Committed) = "realizing"
  BY DEF TickRealizing, Ticks
<1>2. Typed /\ Course /\ side \in Sides /\ sat.consumed \in Seq(Stepped)
  BY DEF SatInv, Typed
<1>3. /\ m = [is |-> "act", step |-> Committed] /\ c \in Config /\ Committed \in Stepped
      /\ c.world = Committed.dst
  BY <1>1, <1>2, TickFacts
<1>4. v.is = "realizing" /\ v.next = c /\ v.obs = Committed
  BY DEF NoVerdict
<1>5. Honest(p) => o.is = "realizing" /\ o.obs = Committed /\ o.hidden = Len(sat.consumed)
  <2> SUFFICES ASSUME Honest(p)
               PROVE  o.is = "realizing" /\ o.obs = Committed /\ o.hidden = Len(sat.consumed)
    OBVIOUS
  <2> HIDE DEF m
  <2>1. /\ o.is = CASE m.is = "quiescent" -> "quiescent" [] m.is = "act" -> "realizing" [] OTHER -> "unknown"
        /\ o.obs = m.step /\ o.hidden = Len(sat.consumed)
    BY <1>1, <1>2, <1>3, OrbitOutcome DEF m
  <2> QED BY <1>3, <2>1
<1> HIDE DEF v, p, c
<1>6. IsVerdict(v)
  BY <1>3, <1>4 DEF IsVerdict
<1>7. steps \in Seq(Stepped) /\ Len(steps) <= budget.hidden + 1 /\ Len(steps) = Len(sat.consumed) + 1
  BY <1>1, <1>3, CourseLength
<1> HIDE DEF steps
<1>8. Truth(p, v, Source, budget) /\ Measured(p, v, Source, steps)
  BY <1>3, <1>4, <1>5, <1>7 DEF Truth, Measured
<1> QED BY <1>1, <1>6, <1>7, <1>8, SatReturn DEF p
(* What a lasso is taken for, when the presentation is honest. *)
LEMMA LassoFacts ==
    ASSUME NEW p, NEW c \in Config, NEW len, NEW previous
    PROVE  LET v == CloseLasso(p, c, len, previous)
           IN  /\ IsVerdict(v) /\ v.is \in {"divergent", "unknown"}
               /\ IsPresentation(p) /\ Honest(p) /\ v.is = "unknown"
                  /\ ("P1" \in p.declares => previous.offers = Offers(p, c))
                  => p.declares # {"P1", "P6"}
<1> DEFINE v == CloseLasso(p, c, len, previous)
           broken == \E a \in Offers(p, c) : KeyOf(p, a, phase[side] + previous.index)
                                           # KeyOf(p, a, phase[side] + len)
           diverges == [NoVerdict EXCEPT !.is = "divergent", !.next = c, !.stem = previous.index]
<1>1. \A why : LET u == Unknown(why) IN u.is = "unknown" /\ u.obs = NoStep /\ u.next = Config0
  BY DEF Unknown, NoVerdict
<1>2. diverges.is = "divergent" /\ diverges.obs = NoStep /\ diverges.next = c
  BY DEF NoVerdict
<1>3. \/ v = Unknown("undeclared P1") /\ "P1" \notin p.declares
      \/ v = Unknown("undeclared P6") /\ "P6" \notin p.declares
      \/ v = Unknown("violated P1") /\ "P1" \in p.declares /\ previous.offers # Offers(p, c)
      \/ v = Unknown("violated P6") /\ broken
      \/ v = diverges
  <2> HIDE DEF diverges, broken
  <2> QED BY DEF CloseLasso, diverges, broken
<1>4. IsPresentation(p) /\ Honest(p) => ~broken
  BY HonestMove
<1> HIDE DEF v, diverges, broken
<1>5. IsVerdict(v) /\ v.is \in {"divergent", "unknown"}
  BY <1>1, <1>2, <1>3, NoStepType DEF IsVerdict
<1>6. IsPresentation(p) /\ Honest(p) /\ v.is = "unknown"
      /\ ("P1" \in p.declares => previous.offers = Offers(p, c))
      => p.declares # {"P1", "P6"}
  BY <1>1, <1>2, <1>3, <1>4
<1> QED BY <1>5, <1>6 DEF v

LEMMA SatHidden == ASSUME IInv, SatInv, TickHidden PROVE SatInv'
<1> DEFINE c == Applied(sat.now, Chosen)
           x == Committed
           k == Len(sat.consumed)
           steps == Append(sat.consumed, x)
           p == Pres(side)
           D == DOMAIN sat.visited
           here == sat.now.world
           o == Orbits(p)[Source]
<1>1. /\ pc = "tick" /\ UNCHANGED <<setup, side, at, journal, visible, seen>>
      /\ Ticks /\ Label(x) = "administrative"
  BY DEF TickHidden, Ticks
<1>2. /\ Typed /\ Course /\ side \in Sides /\ sat.consumed \in Seq(Stepped) /\ sat.now \in Config
      /\ IsPresentation(p) /\ p.declares \subseteq {"P1", "P6"} /\ Source \in Worlds
      /\ budget.hidden \in Nat /\ budget.states \in Nat
  BY PresFacts DEF SatInv, Typed, Source
<1>3. /\ MoveOf(p, sat.now, TickPhase) = [is |-> "tau", step |-> x] /\ c \in Config /\ x \in Stepped
      /\ c.world = x.dst /\ x.src = here /\ c.world \in Worlds
  BY <1>1, <1>2, TickFacts DEF Config
<1>4. /\ k \in Nat /\ k <= budget.hidden /\ steps \in Seq(Stepped) /\ Len(steps) = k + 1
      /\ Len(steps) <= budget.hidden + 1
  BY <1>1, <1>3, CourseLength
<1>5. /\ \A i \in 1..k : steps[i] = sat.consumed[i]
      /\ steps[k + 1] = x /\ steps # <<>>
  BY <1>2, <1>3
<1>6. OnCourse(p, Source, sat, budget)
  BY <1>1 DEF SatInv, Course
<1>7. /\ Listed(sat.consumed) /\ AllAdministrative(sat.consumed) /\ Chains(sat.consumed, Source)
      /\ EndOf(sat.consumed, Source) = here
  BY <1>1 DEF IInv, Prefix
<1> HIDE DEF c, x
<1>8. Chains(steps, Source)
  BY <1>1, <1>3, <1>7, PathExtends
<1>9. D \subseteq Worlds /\ IsFiniteSet(D) /\ Cardinality(D) = k + 1 /\ NumWorlds \in Nat
  BY <1>6, WorldsFacts DEF OnCourse
<1>10. Honest(p) => Hidden(p, steps)
  <2> SUFFICES ASSUME Honest(p), NEW i \in 1..Len(steps)
               PROVE  Still(p, steps[i].src) = [is |-> "tau", step |-> steps[i]]
    BY DEF Hidden
  <2>1. CASE i = k + 1
    <3>1. Still(p, here) = [is |-> "tau", step |-> x]
      BY <1>2, <1>3, HonestMove
    <3> QED BY <1>3, <1>5, <2>1, <3>1
  <2>2. CASE i # k + 1
    <3>1. i \in 1..k
      BY <1>4, <2>2
    <3> QED BY <1>5, <1>6, <3>1 DEF OnCourse, Hidden
  <2> QED BY <2>1, <2>2
<1>11. c.world \notin D => k + 2 <= NumWorlds /\ Cardinality(D \cup {c.world}) = k + 2
  <2> SUFFICES ASSUME c.world \notin D
               PROVE  k + 2 <= NumWorlds /\ Cardinality(D \cup {c.world}) = k + 2
    OBVIOUS
  <2> HIDE DEF D, k
  <2>1. Cardinality(D \cup {c.world}) = k + 1 + 1
    BY <1>9, FS_AddElement
  <2>2. D \cup {c.world} \in SUBSET Worlds
    BY <1>3, <1>9
  <2>3. Cardinality(D \cup {c.world}) <= NumWorlds
    BY <2>2, WorldsFacts
  <2> QED BY <1>4, <1>9, <2>1, <2>3
<1> HIDE DEF steps, k
<1>12. CASE Revisits(c) /\ Return(CloseLasso(p, c, Len(steps), sat.visited[c.world]), steps)
  <2> DEFINE prev == sat.visited[c.world]
             v == CloseLasso(p, c, Len(steps), prev)
  <2>1. c.world \in D
    BY <1>12 DEF Revisits
  <2>2. Honest(p) => Cycle(p, steps)
    <3> SUFFICES ASSUME NEW i \in 1..Len(steps)
                 PROVE  \E j \in 1..Len(steps) : steps[i].dst = steps[j].src
      BY <1>10 DEF Cycle
    <3>1. CASE i = k + 1
      <4>1. c.world = here \/ \E j \in 1..k : c.world = sat.consumed[j].src
        BY <1>6, <2>1 DEF OnCourse, k
      <4>2. steps[i].dst = c.world
        BY <1>3, <1>5, <3>1
      <4>3. CASE c.world = here
        <5>1. steps[k + 1].src = here /\ k + 1 \in 1..Len(steps)
          BY <1>3, <1>4, <1>5
        <5> QED BY <4>2, <4>3, <5>1
      <4>4. CASE \E j \in 1..k : c.world = sat.consumed[j].src
        <5>1. PICK j \in 1..k : c.world = sat.consumed[j].src
          BY <4>4
        <5>2. steps[j].src = c.world /\ j \in 1..Len(steps)
          BY <1>4, <1>5, <5>1
        <5> QED BY <4>2, <5>2
      <4> QED BY <4>1, <4>3, <4>4
    <3>2. CASE i # k + 1
      <4>1. i \in 1..(Len(steps) - 1) /\ i + 1 \in 1..Len(steps)
        BY <1>4, <3>2
      <4>2. steps[i].dst = steps[i + 1].src
        BY <1>8, <4>1 DEF Chains
      <4> QED BY <4>1, <4>2
    <3> QED BY <3>1, <3>2
  <2>3. Honest(p) => o.is = "divergent"
    <3>1. steps[1].src = Source
      BY <1>5, <1>8 DEF Chains
    <3> HIDE DEF p
    <3> QED BY <1>2, <1>4, <1>5, <2>2, <3>1, CycleDiverges
  <2>4. Honest(p) /\ "P1" \in p.declares => prev.offers = Offers(p, c)
    <3> SUFFICES ASSUME Honest(p), "P1" \in p.declares PROVE prev.offers = Offers(p, c)
      OBVIOUS
    <3>1. prev.offers = p.offers[0][c.world]
      BY <1>6, <2>1 DEF OnCourse
    <3> HIDE DEF prev
    <3> QED BY <1>2, <1>3, <3>1, HonestMove
  <2> HIDE DEF prev, p
  <2>5. /\ IsVerdict(v) /\ v.is \in {"divergent", "unknown"}
        /\ Honest(p) /\ v.is = "unknown" => p.declares # {"P1", "P6"}
    BY <1>2, <1>3, <2>4, LassoFacts
  <2>6. Return(v, steps)
    BY <1>12 DEF prev, p
  <2> HIDE DEF v
  <2>7. Truth(p, v, Source, budget)
    BY <2>3, <2>5 DEF Truth, Excuse
  <2>8. Measured(p, v, Source, steps)
    BY <2>2, <2>5 DEF Measured
  <2> QED BY <1>1, <1>4, <2>5, <2>6, <2>7, <2>8, SatReturn DEF p
<1>13. CASE ~Revisits(c) /\ StatesFull /\ Return(Unknown("states"), steps)
  <2>1. Excuse(p, o, budget)
    BY <1>2, <1>4, <1>9, <1>11, <1>13 DEF Revisits, StatesFull, Excuse
  <2> QED BY <1>1, <1>4, <1>13, <2>1, SatUnknown
<1>14. CASE ~Revisits(c) /\ HiddenSpent(steps) /\ Return(Unknown("hidden"), steps)
  <2>1. Excuse(p, o, budget)
    BY <1>2, <1>4, <1>9, <1>11, <1>14 DEF Revisits, HiddenSpent, Excuse
  <2> QED BY <1>1, <1>4, <1>14, <2>1, SatUnknown
<1>15. CASE /\ ~Revisits(c) /\ ~HiddenSpent(steps)
            /\ sat' = [now |-> c, consumed |-> steps,
                       visited |-> [w \in D \cup {c.world} |->
                                      IF w = c.world THEN Visit(p, c, Len(steps))
                                                     ELSE sat.visited[w]]]
            /\ UNCHANGED <<verdict, phase, pc>>
  <2> DEFINE t == sat'
             b == setup.budget
  <2>1. /\ t.now = c /\ t.consumed = steps /\ DOMAIN t.visited = D \cup {c.world}
        /\ t.visited[c.world] = Visit(p, c, Len(steps))
        /\ \A w \in D : w # c.world => t.visited[w] = sat.visited[w]
        /\ t = [now |-> t.now, consumed |-> t.consumed, visited |-> t.visited]
    <3> HIDE DEF D, p
    <3> QED BY <1>15
  <2>2. budget = b /\ budget' = b /\ Pres(side)' = p /\ Source' = Source
    BY <1>1 DEF budget, Pres, Source
  <2>3. Typed'
    BY <1>1, <1>2, <1>3, <1>4, <1>15, <2>1 DEF Typed
  <2>4. Bounded'
    BY <1>4, <2>1, <2>2 DEF Bounded
  <2>5. c.world \notin D /\ Len(steps) <= b.hidden
    BY <1>4, <1>2, <1>15, <2>2 DEF Revisits, HiddenSpent
  <2> HIDE DEF t
  <2>6. \A w \in DOMAIN t.visited : w = c.world \/ \E i \in 1..Len(steps) : w = steps[i].src
    <3> SUFFICES ASSUME NEW w \in D PROVE \E i \in 1..Len(steps) : w = steps[i].src
      BY <2>1
    <3>1. w = here \/ \E i \in 1..k : w = sat.consumed[i].src
      BY <1>6 DEF OnCourse, k
    <3>2. CASE w = here
      <4>1. k + 1 \in 1..Len(steps) /\ steps[k + 1].src = here
        BY <1>3, <1>4, <1>5
      <4> QED BY <3>2, <4>1
    <3>3. CASE \E i \in 1..k : w = sat.consumed[i].src
      <4>1. PICK i \in 1..k : w = sat.consumed[i].src
        BY <3>3
      <4>2. i \in 1..Len(steps) /\ steps[i] = sat.consumed[i]
        BY <1>4, <1>5
      <4> QED BY <4>1, <4>2
    <3> QED BY <3>1, <3>2, <3>3
  <2>7. Honest(p) => Path(p)[k + 1][Source] = [Resting(c.world) EXCEPT !.hidden = k + 1]
    <3> SUFFICES ASSUME Honest(p)
                 PROVE  Path(p)[k + 1][Source] = [Resting(c.world) EXCEPT !.hidden = k + 1]
      OBVIOUS
    <3> DEFINE r == [Resting(here) EXCEPT !.hidden = k]
    <3>1. Path(p)[k][Source] = r
      BY <1>6 DEF OnCourse, k
    <3>2. r = [is |-> "divergent", obs |-> NoStep, at |-> here, hidden |-> k]
      BY DEF Resting
    <3>3. Still(p, here) = [is |-> "tau", step |-> x]
      BY <1>2, <1>3, HonestMove
    <3> HIDE DEF r, p, here
    <3>4. Path(p)[k + 1][Source] = Extend(r, Still(p, r.at))
      BY <1>2, <1>4, <3>1, PathFacts
    <3>5. Extend(r, [is |-> "tau", step |-> x])
          = [is |-> "divergent", obs |-> NoStep, at |-> x.dst, hidden |-> k + 1]
      BY <3>2 DEF Extend
    <3>6. [Resting(c.world) EXCEPT !.hidden = k + 1]
          = [is |-> "divergent", obs |-> NoStep, at |-> c.world, hidden |-> k + 1]
      BY DEF Resting
    <3>7. r.at = here
      BY <3>2
    <3> QED BY <1>3, <3>3, <3>4, <3>5, <3>6, <3>7
  <2>8. Honest(p) /\ "P1" \in p.declares =>
            \A w \in DOMAIN t.visited : t.visited[w].offers = p.offers[0][w]
    <3> SUFFICES ASSUME Honest(p), "P1" \in p.declares, NEW w \in D \cup {c.world}
                 PROVE  t.visited[w].offers = p.offers[0][w]
      BY <2>1
    <3>1. CASE w = c.world
      <4>1. Visit(p, c, Len(steps)).offers = Offers(p, c)
        BY DEF Visit
      <4>2. Offers(p, c) = p.offers[0][c.world]
        BY <1>2, <1>3, HonestMove
      <4> QED BY <2>1, <3>1, <4>1, <4>2
    <3>2. CASE w # c.world
      BY <1>6, <2>1, <3>2 DEF OnCourse
    <3> QED BY <3>1, <3>2
  <2>9. OnCourse(p, Source, t, b)
    <3>1. D \cup {c.world} \subseteq Worlds
      BY <1>3, <1>9
    <3>2. Cardinality(DOMAIN t.visited) = Len(steps) + 1
      BY <1>4, <1>11, <2>1, <2>5
    <3> HIDE DEF D, p, b
    <3> QED BY <1>4, <1>10, <2>1, <2>5, <2>6, <2>7, <2>8, <3>1, <3>2 DEF OnCourse
  <2>10. Course' /\ Settled'
    BY <1>1, <1>15, <2>2, <2>9 DEF Course, Settled, t
  <2> QED BY <2>3, <2>4, <2>10 DEF SatInv
<1> QED BY <1>12, <1>13, <1>14, <1>15 DEF TickHidden, c, steps, x
-----------------------------------------------------------------------------
(* The drivers keep SatInv. *)

LEMMA SatDrive ==
    ASSUME SatInv, pc' # "tick", pc' # "collect", UNCHANGED <<setup, side, phase, sat, verdict>>,
           at' \in [Sides -> Config], journal' \in Seq(Stepped), visible' \in Seq(Stepped),
           seen' \subseteq Worlds \X Worlds
    PROVE  SatInv'
<1>1. Typed'
  BY DEF SatInv, Typed
<1>2. Bounded'
  BY DEF SatInv, Bounded, budget
<1>3. Course' /\ Settled'
  BY DEF Course, Settled
<1> QED BY <1>1, <1>2, <1>3 DEF SatInv

LEMMA SatDrivers ==
    ASSUME SatInv,
           \/ RunLoop \/ RunCollect \/ CompareOpen \/ CompareLoop \/ CompareOther
           \/ CompareCollect \/ CloseOpen \/ CloseLoop \/ CloseCollect
    PROVE  SatInv'
<1>1. /\ at \in [Sides -> Config] /\ journal \in Seq(Stepped) /\ visible \in Seq(Stepped)
      /\ seen \subseteq Worlds \X Worlds /\ sat.consumed \in Seq(Stepped)
      /\ \A s \in Sides : verdict[s].obs \in Stepped /\ verdict[s].next \in Config
  BY DEF SatInv, Typed, IsVerdict
<1>2. "impl" \in Sides /\ "spec" \in Sides
  BY DEF Sides
<1>3. Pair \in Worlds \X Worlds
  BY <1>1, <1>2 DEF Pair, Config
<1>4. /\ [at EXCEPT !["impl"] = verdict["impl"].next] \in [Sides -> Config]
      /\ [t \in Sides |-> verdict[t].next] \in [Sides -> Config]
      /\ Append(visible, verdict["impl"].obs) \in Seq(Stepped)
      /\ journal \o sat.consumed \in Seq(Stepped)
  BY <1>1, <1>2
<1>5. CASE RunLoop \/ CloseLoop
  <2>1. UNCHANGED <<setup, at, phase, verdict, journal, visible, seen>>
    BY <1>5 DEF RunLoop, CloseLoop
  <2>2. CASE EnterSat("impl", at["impl"])
    BY <1>1, <1>2, <2>1, <2>2, SatEnter
  <2>3. CASE pc' = "done" /\ UNCHANGED <<side, sat>>
    BY <1>1, <2>1, <2>3, SatDrive
  <2> QED BY <1>5, <2>2, <2>3 DEF RunLoop, CloseLoop, Finish
<1>6. CASE CompareLoop
  <2>1. UNCHANGED <<setup, at, phase, verdict, journal, visible>> /\ seen' \subseteq Worlds \X Worlds
    BY <1>1, <1>3, <1>6 DEF CompareLoop
  <2>2. CASE EnterSat("impl", at["impl"])
    BY <1>1, <1>2, <2>1, <2>2, SatEnter
  <2>3. CASE pc' = "done" /\ UNCHANGED <<side, sat>>
    BY <1>1, <2>1, <2>3, SatDrive
  <2> QED BY <1>6, <2>2, <2>3 DEF CompareLoop, Finish
<1>7. CASE CompareOther
  <2>1. /\ UNCHANGED <<setup, at, phase, verdict, journal, visible>> /\ seen' \subseteq Worlds \X Worlds
        /\ EnterSat("spec", at["spec"])
    BY <1>1, <1>7 DEF CompareOther
  <2> QED BY <1>2, <2>1, SatEnter
<1>8. CASE CompareOpen \/ CloseOpen
  <2>1. /\ UNCHANGED <<setup, side, at, phase, sat, verdict, journal, visible, seen>>
        /\ pc' # "tick" /\ pc' # "collect"
    BY <1>8 DEF CompareOpen, CloseOpen, Finish
  <2> QED BY <1>1, <2>1, SatDrive
<1>9. CASE RunCollect
  <2>1. /\ UNCHANGED <<setup, side, phase, sat, verdict, seen>>
        /\ pc' # "tick" /\ pc' # "collect" /\ journal' = journal \o sat.consumed
        /\ visible' = visible \/ visible' = Append(visible, verdict["impl"].obs)
        /\ at' = at \/ at' = [at EXCEPT !["impl"] = verdict["impl"].next]
    BY <1>9 DEF RunCollect, Finish
  <2>2. visible' \in Seq(Stepped) /\ at' \in [Sides -> Config] /\ journal' \in Seq(Stepped)
    BY <1>1, <1>4, <2>1
  <2> QED BY <1>1, <2>1, <2>2, SatDrive
<1>10. CASE CompareCollect \/ CloseCollect
  <2>1. /\ UNCHANGED <<setup, side, phase, sat, verdict, journal, seen>>
        /\ pc' # "tick" /\ pc' # "collect"
        /\ visible' = visible \/ visible' = Append(visible, verdict["impl"].obs)
        /\ \/ at' = at \/ at' = [at EXCEPT !["impl"] = verdict["impl"].next]
           \/ at' = [t \in Sides |-> verdict[t].next]
    BY <1>10 DEF CompareCollect, CloseCollect, Finish
  <2>2. visible' \in Seq(Stepped) /\ at' \in [Sides -> Config]
    BY <1>1, <1>4, <2>1
  <2> QED BY <1>1, <2>1, <2>2, SatDrive
<1> QED BY <1>5, <1>6, <1>7, <1>8, <1>9, <1>10

LEMMA SatStutter == ASSUME SatInv, UNCHANGED vars PROVE SatInv'
<1>1. UNCHANGED <<setup, pc, side, at, phase, sat, verdict, journal, visible, seen>>
  BY DEF vars
<1>2. Typed'
  BY <1>1 DEF SatInv, Typed
<1>3. Bounded'
  BY <1>1 DEF SatInv, Bounded, budget
<1>4. Course' /\ Settled'
  BY <1>1 DEF SatInv, Course, Settled, Source, Pres, Told, budget
<1> QED BY <1>2, <1>3, <1>4 DEF SatInv

LEMMA SatStepwise == IInv /\ SatInv /\ [Next]_vars => (IInv /\ SatInv)'
<1> SUFFICES ASSUME IInv, SatInv, [Next]_vars PROVE IInv' /\ SatInv'
  OBVIOUS
<1>1. IInv'
  BY Stepwise
<1>2. SatInv'
  <2>1. CASE TickKeyConflict \/ TickRejected \/ TickUnlabelled
    BY <2>1, SatRefused
  <2>2. CASE TickQuiescent
    BY <2>2, SatQuiescent
  <2>3. CASE TickRealizing
    BY <2>3, SatRealizing
  <2>4. CASE TickHidden
    BY <2>4, SatHidden
  <2>5. CASE \/ RunLoop \/ RunCollect \/ CompareOpen \/ CompareLoop \/ CompareOther
             \/ CompareCollect \/ CloseOpen \/ CloseLoop \/ CloseCollect
    BY <2>5, SatDrivers
  <2>6. CASE UNCHANGED vars
    BY <2>6, SatStutter
  <2> QED BY <2>1, <2>2, <2>3, <2>4, <2>5, <2>6 DEF Next
<1> QED BY <1>1, <1>2

(* sat_step's answer is the truth about an honest presentation, and its     *)
(* consumption is bounded for every one: for all worlds, presentations and  *)
(* budgets.                                                                *)
THEOREM VerdictSoundCorrect == Spec => []VerdictSound
<1>1. Init => IInv /\ SatInv
  BY Initially, SatInit
<1>2. IInv /\ SatInv => VerdictSound
  BY DEF SatInv, Bounded, Settled, Told, Truth, Measured, Excuse, Source, VerdictSound
<1> QED
  BY <1>1, <1>2, SatStepwise, PTL DEF Spec
-----------------------------------------------------------------------------
(* A run and a closure check follow the unsaturated run. *)

Walk == Unsaturated(setup.impl)

(* The steps are the ones the unsaturated run commits after phase n. *)
Follows(walk, steps, n) ==
    \A i \in 1..Len(steps) : steps[i].gen \in Gens /\ steps[i] = walk[n + i].step

(* A saturated step consumed hidden commits only, but for the realizing one *)
(* it ends with.                                                           *)
OneVisible(v, steps) ==
    LET k == Len(steps)
    IN  /\ \A i \in 1..k : steps[i].gen = "act" => v.is = "realizing" /\ i = k
        /\ v.is = "realizing" => k # 0 /\ v.obs = steps[k] /\ steps[k].gen = "act"

(* The saturated step is at the phase and the configuration of the          *)
(* unsaturated run, whatever the presentation does.                        *)
Begun == phase["impl"] - Len(sat.consumed)

OnWalk ==
    /\ side = "impl"
    /\ pc \in {"open", "loop", "tick"} => at["impl"] = Walk[phase["impl"]].c
    /\ pc = "tick" => sat.now = Walk[TickPhase].c /\ Follows(Walk, sat.consumed, phase["impl"])
    /\ pc = "collect" =>
          LET v == verdict["impl"]
          IN  /\ Begun \in Nat /\ Follows(Walk, sat.consumed, Begun) /\ OneVisible(v, sat.consumed)
              /\ v.is = "realizing" => v.next = Walk[phase["impl"]].c
              /\ v.is = "quiescent" => Offers(setup.impl, Walk[phase["impl"]].c) = {}
              /\ v.is = "divergent" => sat.consumed # <<>>
    /\ pc # "done" => result.is = "none"

ActsOf(steps) == {i \in 1..Len(steps) : steps[i].gen = "act"}

(* The exported observations are the realizing steps, in order. *)
Exports(obs, steps) ==
    LET acts == ActsOf(steps)
    IN  /\ Len(obs) = Cardinality(acts)
        /\ \A i \in acts : obs[Cardinality({j \in acts : j <= i})] = steps[i]

Journaled ==
    /\ Follows(Walk, journal, 0)
    /\ Exports(visible, journal)
    /\ Len(journal) = IF pc = "collect" THEN Begun ELSE phase["impl"]
    /\ pc # "open"
    /\ result.is = "quiescent" => Offers(setup.impl, Walk[Len(journal)].c) = {}

RunInv == /\ task.kind # "compare" => OnWalk
          /\ task.kind = "run" => Journaled

LEMMA RunTypes ==
    ASSUME SatInv
    PROVE  /\ Typed /\ IsPresentation(setup.impl) /\ Pres("impl") = setup.impl
           /\ phase["impl"] \in Nat /\ sat.consumed \in Seq(Stepped) /\ Len(sat.consumed) \in Nat
           /\ sat.now \in Config /\ at["impl"] \in Config /\ "impl" \in Sides
           /\ journal \in Seq(Stepped) /\ Len(journal) \in Nat
           /\ visible \in Seq(Stepped) /\ Len(visible) \in Nat
           /\ Walk \in [Nat -> Walked] /\ Walk[0] = [c |-> Config0, step |-> NoStep]
           /\ \A n \in Nat : Walk[n + 1] = WalkOn(setup.impl, n, Walk[n].c)
<1>1. Typed
  BY DEF SatInv
<1>2. IsPresentation(setup.impl) /\ "impl" \in Sides
  BY <1>1 DEF Typed, Sides
<1>3. /\ Walk \in [Nat -> Walked] /\ Walk[0] = [c |-> Config0, step |-> NoStep]
      /\ \A n \in Nat : Walk[n + 1] = WalkOn(setup.impl, n, Walk[n].c)
  BY <1>2, WalkFacts DEF Walk
<1>4. phase["impl"] \in Nat /\ at["impl"] \in Config
  BY <1>1, <1>2 DEF Typed
<1> QED BY <1>1, <1>2, <1>3, <1>4 DEF Typed, Pres

(* The prefix of a saturated step is hidden. *)
LEMMA PrefixHidden ==
    ASSUME IInv, pc = "tick"
    PROVE  \A i \in 1..Len(sat.consumed) : sat.consumed[i].gen = "tau"
  BY DEF IInv, Prefix, AllAdministrative, Label

(* The tick commits the next step of the unsaturated run. *)
LEMMA WalkTick ==
    ASSUME SatInv, OnWalk, Ticks, Chosen.gen # "broken"
    PROVE  LET steps == Append(sat.consumed, Committed)
           IN  /\ steps \in Seq(Stepped) /\ Len(steps) = Len(sat.consumed) + 1
               /\ \A i \in 1..Len(sat.consumed) : steps[i] = sat.consumed[i]
               /\ steps[Len(steps)] = Committed
               /\ Follows(Walk, steps, phase["impl"])
               /\ Walk[phase["impl"] + Len(steps)].c = Applied(sat.now, Chosen)
<1> DEFINE p == setup.impl
           steps == Append(sat.consumed, Committed)
           k == Len(sat.consumed)
           f == phase["impl"]
           m == MoveOf(p, sat.now, f + k)
<1>1. /\ Typed /\ IsPresentation(p) /\ Pres(side) = p /\ f \in Nat /\ k \in Nat
      /\ sat.consumed \in Seq(Stepped) /\ sat.now \in Config
      /\ \A n \in Nat : Walk[n + 1] = WalkOn(p, n, Walk[n].c)
  BY RunTypes DEF OnWalk
<1>2. TickPhase = f + k
  BY DEF TickPhase, OnWalk
<1>3. sat.now = Walk[f + k].c /\ Follows(Walk, sat.consumed, f)
  BY <1>2 DEF OnWalk, Ticks
<1>4. /\ m = [is |-> Chosen.gen, step |-> Committed] /\ Committed \in Stepped
      /\ Committed.gen = Chosen.gen /\ Chosen \in Offers(p, sat.now)
      /\ Committed.dst = Applied(sat.now, Chosen).world
  BY <1>1, <1>2, TickFacts
<1>5. m.is \in Gens /\ m.is \notin Stuck
  <2>1. Chosen \in Candidate
    <3> HIDE DEF p
    <3> QED BY <1>1, <1>4, OffersFinite
  <2>2. Chosen \in [gen : Gens, to : Worlds]
    BY <2>1, GenFacts, Zenon
  <2>3. Chosen.gen \in Gens
    BY <2>2
  <2> HIDE DEF m
  <2> QED BY <1>4, <2>3 DEF Gens, Stuck
<1> HIDE DEF m
<1>6. Walk[f + k + 1] = [c |-> [world |-> Committed.dst, hist |-> sat.now.hist + 1], step |-> Committed]
  <2>1. Walk[f + k + 1] = WalkOn(p, f + k, sat.now)
    BY <1>1, <1>3
  <2>2. WalkOn(p, f + k, sat.now) = [c |-> [world |-> m.step.dst, hist |-> sat.now.hist + 1], step |-> m.step]
    BY <1>5 DEF WalkOn, m
  <2> QED BY <1>4, <2>1, <2>2
<1>7. [world |-> Committed.dst, hist |-> sat.now.hist + 1] = Applied(sat.now, Chosen)
  BY <1>4 DEF Applied
<1>8. /\ steps \in Seq(Stepped) /\ Len(steps) = k + 1 /\ steps[k + 1] = Committed
      /\ \A i \in 1..k : steps[i] = sat.consumed[i]
  <2>1. sat.consumed \in Seq(Stepped) /\ Committed \in Stepped
    BY <1>1, <1>4
  <2> QED BY <2>1
<1> HIDE DEF steps, k, f
<1>9. Follows(Walk, steps, f)
  <2> SUFFICES ASSUME NEW i \in 1..(k + 1)
               PROVE  steps[i].gen \in Gens /\ steps[i] = Walk[f + i].step
    BY <1>8 DEF Follows
  <2>1. CASE i = k + 1
    <3>1. Walk[f + i].step = Committed
      BY <1>1, <1>6, <2>1
    <3> QED BY <1>4, <1>5, <1>8, <2>1, <3>1
  <2>2. CASE i \in 1..k
    BY <1>3, <1>8, <2>2 DEF Follows, k
  <2>3. k \in Nat
    BY <1>1
  <2> QED BY <2>1, <2>2, <2>3
<1>10. Walk[f + Len(steps)].c = Applied(sat.now, Chosen)
  <2>1. f + Len(steps) = f + k + 1
    <3>1. f \in Nat /\ k \in Nat
      BY <1>1
    <3> QED BY <1>8, <3>1
  <2> QED BY <1>6, <1>7, <2>1
<1> QED BY <1>8, <1>9, <1>10 DEF steps, k, f

(* sat_step returns, with what the unsaturated run did meanwhile. *)
LEMMA RunReturn ==
    ASSUME SatInv, RunInv, task.kind # "compare", pc = "tick",
           NEW v, NEW steps \in Seq(Stepped), Return(v, steps),
           UNCHANGED <<setup, side, at, journal, visible, seen, result>>,
           Follows(Walk, steps, phase["impl"]), OneVisible(v, steps),
           v.is = "realizing" => v.next = Walk[phase["impl"] + Len(steps)].c,
           v.is = "quiescent" => Offers(setup.impl, Walk[phase["impl"] + Len(steps)].c) = {},
           v.is = "divergent" => steps # <<>>
    PROVE  RunInv'
<1> DEFINE f == phase["impl"]
           k == Len(steps)
<1>1. Typed /\ OnWalk /\ side = "impl" /\ f \in Nat /\ k \in Nat /\ "impl" \in Sides
  BY RunTypes DEF RunInv, OnWalk
<1>2. /\ pc' = "collect" /\ Walk' = Walk /\ task' = task /\ setup' = setup
      /\ verdict'["impl"] = v /\ phase'["impl"] = f + k /\ sat'.consumed = steps
      /\ result' = result /\ journal' = journal /\ visible' = visible /\ side' = "impl"
  BY <1>1 DEF Return, Typed, Advance, Walk, task
<1>3. Begun' = f
  BY <1>1, <1>2 DEF Begun
<1>4. result.is = "none"
  BY <1>1 DEF OnWalk
<1> HIDE DEF f, k
<1>5. OnWalk'
  <2>1. LET u == verdict'["impl"]
        IN  /\ Begun' \in Nat /\ Follows(Walk, sat'.consumed, Begun') /\ OneVisible(u, sat'.consumed)
            /\ u.is = "realizing" => u.next = Walk[phase'["impl"]].c
            /\ u.is = "quiescent" => Offers(setup'.impl, Walk[phase'["impl"]].c) = {}
            /\ u.is = "divergent" => sat'.consumed # <<>>
    BY <1>1, <1>2, <1>3 DEF f, k
  <2> QED BY <1>2, <1>4, <2>1 DEF OnWalk
<1>6. task.kind = "run" => Journaled'
  <2> SUFFICES ASSUME task.kind = "run" PROVE Journaled'
    OBVIOUS
  <2>1. /\ Follows(Walk, journal, 0) /\ Exports(visible, journal) /\ Len(journal) = f
    BY DEF RunInv, Journaled, f
  <2> QED BY <1>2, <1>3, <1>4, <2>1 DEF Journaled
<1> QED BY <1>2, <1>5, <1>6 DEF RunInv

LEMMA RunGivesUp ==
    ASSUME IInv, SatInv, RunInv, task.kind # "compare",
           TickKeyConflict \/ TickRejected \/ TickUnlabelled
    PROVE  RunInv'
<1>1. pc = "tick" /\ UNCHANGED <<setup, side, at, journal, visible, seen, result>>
  BY DEF TickKeyConflict, TickRejected, TickUnlabelled, Ticks
<1>2. /\ OnWalk /\ Follows(Walk, sat.consumed, phase["impl"]) /\ Typed
      /\ sat.consumed \in Seq(Stepped) /\ Len(sat.consumed) \in Nat
  BY <1>1, RunTypes DEF RunInv, OnWalk
<1>3. \A i \in 1..Len(sat.consumed) : sat.consumed[i].gen = "tau"
  BY <1>1, PrefixHidden
<1>4. \A why : Unknown(why).is = "unknown"
  BY DEF Unknown, NoVerdict
<1>5. \A why, steps : (\A i \in 1..Len(steps) : steps[i].gen # "act") => OneVisible(Unknown(why), steps)
  BY <1>4 DEF OneVisible
<1>6. CASE TickKeyConflict \/ TickRejected
  <2>1. PICK why : Return(Unknown(why), sat.consumed)
    BY <1>6 DEF TickKeyConflict, TickRejected
  <2>2. OneVisible(Unknown(why), sat.consumed)
    BY <1>3, <1>5
  <2> QED BY <1>1, <1>2, <1>4, <2>1, <2>2, RunReturn
<1>7. CASE TickUnlabelled
  <2> DEFINE steps == Append(sat.consumed, Committed)
             v == Unknown("profile")
  <2>1. /\ Ticks /\ Chosen.gen # "broken" /\ Label(Committed) = "error" /\ Return(v, steps)
    BY <1>7 DEF TickUnlabelled
  <2>2. /\ steps \in Seq(Stepped) /\ Follows(Walk, steps, phase["impl"])
        /\ Len(steps) = Len(sat.consumed) + 1 /\ steps[Len(steps)] = Committed
        /\ \A i \in 1..Len(sat.consumed) : steps[i] = sat.consumed[i]
    BY <1>2, <2>1, WalkTick
  <2>3. Committed.gen # "act"
    BY <2>1 DEF Label
  <2> HIDE DEF steps
  <2>4. \A i \in 1..Len(steps) : steps[i].gen # "act"
    BY <1>2, <1>3, <2>2, <2>3
  <2>5. OneVisible(v, steps)
    BY <1>5, <2>4
  <2> QED BY <1>1, <1>4, <2>1, <2>2, <2>5, RunReturn
<1> QED BY <1>6, <1>7

LEMMA RunQuiescent ==
    ASSUME IInv, SatInv, RunInv, task.kind # "compare", TickQuiescent PROVE RunInv'
<1> DEFINE v == [NoVerdict EXCEPT !.is = "quiescent", !.next = sat.now]
<1>1. /\ pc = "tick" /\ UNCHANGED <<setup, side, at, journal, visible, seen, result>>
      /\ Return(v, sat.consumed) /\ Frontier = {}
  BY DEF TickQuiescent
<1>2. /\ OnWalk /\ Follows(Walk, sat.consumed, phase["impl"]) /\ side = "impl"
      /\ sat.now = Walk[TickPhase].c /\ Pres("impl") = setup.impl
      /\ sat.consumed \in Seq(Stepped) /\ Len(sat.consumed) \in Nat
  BY <1>1, RunTypes DEF RunInv, OnWalk
<1>3. \A i \in 1..Len(sat.consumed) : sat.consumed[i].gen = "tau"
  BY <1>1, PrefixHidden
<1>4. v.is = "quiescent"
  BY DEF NoVerdict
<1>5. Offers(setup.impl, Walk[phase["impl"] + Len(sat.consumed)].c) = {}
  BY <1>1, <1>2 DEF Frontier, TickPhase
<1> HIDE DEF v
<1>6. OneVisible(v, sat.consumed)
  BY <1>3, <1>4 DEF OneVisible
<1> QED BY <1>1, <1>2, <1>4, <1>5, <1>6, RunReturn

LEMMA RunRealizing ==
    ASSUME IInv, SatInv, RunInv, task.kind # "compare", TickRealizing PROVE RunInv'
<1> DEFINE c == Applied(sat.now, Chosen)
           steps == Append(sat.consumed, Committed)
           v == [NoVerdict EXCEPT !.is = "realizing", !.obs = Committed, !.next = c]
<1>1. /\ pc = "tick" /\ UNCHANGED <<setup, side, at, journal, visible, seen, result>>
      /\ Return(v, steps) /\ Ticks /\ Label(Committed) = "realizing"
  BY DEF TickRealizing, Ticks
<1>2. OnWalk /\ Len(sat.consumed) \in Nat /\ Typed
  BY RunTypes DEF RunInv
<1>3. Chosen.gen = "act" /\ Committed.gen = "act"
  BY <1>1, <1>2, TickFacts
<1>4. /\ steps \in Seq(Stepped) /\ Follows(Walk, steps, phase["impl"])
      /\ Len(steps) = Len(sat.consumed) + 1 /\ steps[Len(steps)] = Committed
      /\ \A i \in 1..Len(sat.consumed) : steps[i] = sat.consumed[i]
      /\ Walk[phase["impl"] + Len(steps)].c = c
  BY <1>1, <1>2, <1>3, WalkTick
<1>5. v.is = "realizing" /\ v.next = c /\ v.obs = Committed
  BY DEF NoVerdict
<1>6. \A i \in 1..Len(sat.consumed) : sat.consumed[i].gen = "tau"
  BY <1>1, PrefixHidden
<1> HIDE DEF steps, v, c
<1>7. OneVisible(v, steps)
  BY <1>2, <1>3, <1>4, <1>5, <1>6 DEF OneVisible
<1> QED BY <1>1, <1>4, <1>5, <1>7, RunReturn
LEMMA RunHidden ==
    ASSUME IInv, SatInv, RunInv, task.kind # "compare", TickHidden PROVE RunInv'
<1> DEFINE c == Applied(sat.now, Chosen)
           steps == Append(sat.consumed, Committed)
           f == phase["impl"]
<1>1. /\ pc = "tick" /\ UNCHANGED <<setup, side, at, journal, visible, seen, result>>
      /\ Ticks /\ Label(Committed) = "administrative"
  BY DEF TickHidden, Ticks
<1>2. /\ OnWalk /\ Len(sat.consumed) \in Nat /\ Typed /\ f \in Nat /\ side = "impl"
      /\ at["impl"] = Walk[f].c /\ result.is = "none"
  BY <1>1, RunTypes DEF RunInv, OnWalk
<1>3. Chosen.gen = "tau" /\ Committed.gen = "tau" /\ c \in Config
  BY <1>1, <1>2, TickFacts
<1>4. /\ steps \in Seq(Stepped) /\ Follows(Walk, steps, f)
      /\ Len(steps) = Len(sat.consumed) + 1 /\ steps[Len(steps)] = Committed
      /\ \A i \in 1..Len(sat.consumed) : steps[i] = sat.consumed[i]
      /\ Walk[f + Len(steps)].c = c
  BY <1>1, <1>2, <1>3, WalkTick
<1>5. \A i \in 1..Len(sat.consumed) : sat.consumed[i].gen = "tau"
  BY <1>1, PrefixHidden
<1> HIDE DEF steps, c, f
<1>6. \A i \in 1..Len(steps) : steps[i].gen # "act"
  BY <1>2, <1>3, <1>4, <1>5
<1>7. steps # <<>>
  BY <1>2, <1>4
<1>8. ASSUME NEW v, v.is \in {"divergent", "unknown"}, Return(v, steps) PROVE RunInv'
  <2>1. OneVisible(v, steps)
    BY <1>6, <1>8 DEF OneVisible
  <2> QED BY <1>1, <1>4, <1>7, <1>8, <2>1, RunReturn DEF f
<1>9. CASE /\ sat'.now = c /\ sat'.consumed = steps /\ UNCHANGED <<verdict, phase, pc>>
  <2>1. /\ Walk' = Walk /\ task' = task /\ TickPhase' = f + Len(steps) /\ side' = "impl"
        /\ at' = at /\ phase' = phase /\ pc' = "tick" /\ result' = result
        /\ journal' = journal /\ visible' = visible
    BY <1>1, <1>2, <1>9 DEF Walk, task, TickPhase, f
  <2>2. OnWalk'
    BY <1>2, <1>4, <1>9, <2>1 DEF OnWalk, f
  <2>3. task.kind = "run" => Journaled'
    <3> SUFFICES ASSUME task.kind = "run" PROVE Journaled'
      OBVIOUS
    <3>1. Follows(Walk, journal, 0) /\ Exports(visible, journal) /\ Len(journal) = f
      BY <1>1 DEF RunInv, Journaled, f
    <3> QED BY <1>2, <2>1, <3>1 DEF Journaled, f
  <2> QED BY <2>1, <2>2, <2>3 DEF RunInv
<1>10. \A why : Unknown(why).is = "unknown"
  BY DEF Unknown, NoVerdict
<1>11. \A p, len, previous : CloseLasso(p, c, len, previous).is \in {"divergent", "unknown"}
  BY <1>3, LassoFacts
<1>12. \/ \E v : v.is \in {"divergent", "unknown"} /\ Return(v, steps)
       \/ sat'.now = c /\ sat'.consumed = steps /\ UNCHANGED <<verdict, phase, pc>>
  <2>1. CASE Return(CloseLasso(Pres(side), c, Len(steps), sat.visited[c.world]), steps)
    BY <1>11, <2>1
  <2>2. CASE Return(Unknown("states"), steps) \/ Return(Unknown("hidden"), steps)
    BY <1>10, <2>2
  <2>3. CASE /\ sat' = [now |-> c, consumed |-> steps,
                        visited |-> [w \in DOMAIN sat.visited \cup {c.world} |->
                                       IF w = c.world THEN Visit(Pres(side), c, Len(steps))
                                                      ELSE sat.visited[w]]]
             /\ UNCHANGED <<verdict, phase, pc>>
    BY <2>3
  <2> QED BY <2>1, <2>2, <2>3 DEF TickHidden, c, steps
<1> QED BY <1>8, <1>9, <1>12

(* The drivers. *)
LEMMA RunEnter ==
    ASSUME SatInv, RunInv, task.kind # "compare", pc = "loop", EnterSat("impl", at["impl"]),
           UNCHANGED <<setup, at, phase, verdict, journal, visible, seen, result>>
    PROVE  RunInv'
<1> DEFINE f == phase["impl"]
<1>1. OnWalk /\ f \in Nat /\ at["impl"] = Walk[f].c /\ result.is = "none"
  BY RunTypes DEF RunInv, OnWalk
<1>2. /\ Walk' = Walk /\ task' = task /\ side' = "impl" /\ pc' = "tick"
      /\ sat'.now = at["impl"] /\ sat'.consumed = <<>> /\ TickPhase' = f
  <2>1. side' = "impl" /\ sat'.consumed = <<>> /\ phase' = phase
    BY DEF EnterSat
  <2>2. TickPhase' = f
    BY <1>1, <2>1 DEF TickPhase
  <2> QED BY <2>1, <2>2 DEF EnterSat, Walk, task
<1>3. Follows(Walk, <<>>, f)
  BY DEF Follows
<1>4. OnWalk'
  BY <1>1, <1>2, <1>3 DEF OnWalk
<1>5. task.kind = "run" => Journaled'
  <2> SUFFICES ASSUME task.kind = "run" PROVE Journaled'
    OBVIOUS
  <2>1. Follows(Walk, journal, 0) /\ Exports(visible, journal) /\ Len(journal) = f
    BY DEF RunInv, Journaled
  <2> QED BY <1>1, <1>2, <2>1 DEF Journaled
<1> QED BY <1>2, <1>4, <1>5 DEF RunInv

(* Appending hidden steps to the journal exports nothing. *)
LEMMA ExportsNone ==
    ASSUME NEW obs \in Seq(Stepped), NEW j \in Seq(Stepped), NEW steps \in Seq(Stepped),
           Exports(obs, j), \A i \in 1..Len(steps) : steps[i].gen # "act"
    PROVE  Exports(obs, j \o steps)
<1> DEFINE all == j \o steps
<1>1. /\ Len(j) \in Nat /\ Len(steps) \in Nat /\ Len(all) = Len(j) + Len(steps)
      /\ \A i \in 1..Len(j) : all[i] = j[i]
      /\ \A i \in 1..Len(all) : i > Len(j) => all[i] = steps[i - Len(j)] /\ i - Len(j) \in 1..Len(steps)
  BY ConcatProperties
<1> HIDE DEF all
<1>2. ActsOf(all) = ActsOf(j)
  <2>1. \A i \in 1..Len(j) : i \in 1..Len(all) /\ all[i] = j[i]
    BY <1>1
  <2>2. \A i \in 1..Len(all) : all[i].gen = "act" => i \in 1..Len(j)
    BY <1>1
  <2> QED BY <2>1, <2>2 DEF ActsOf
<1>3. \A i \in ActsOf(j) : all[i] = j[i]
  BY <1>1 DEF ActsOf
<1>4. Exports(obs, all)
  BY <1>2, <1>3 DEF Exports
<1> QED BY <1>4 DEF all

(* Appending a saturated step exports its realizing commit. *)
LEMMA ExportsOne ==
    ASSUME NEW obs \in Seq(Stepped), NEW j \in Seq(Stepped), NEW steps \in Seq(Stepped),
           Exports(obs, j), Len(steps) # 0, steps[Len(steps)].gen = "act",
           \A i \in 1..Len(steps) : steps[i].gen = "act" => i = Len(steps)
    PROVE  Exports(Append(obs, steps[Len(steps)]), j \o steps)
<1> DEFINE all == j \o steps
           n == Len(j) + Len(steps)
           x == steps[Len(steps)]
           acts == ActsOf(j)
           upto(S, i) == {l \in S : l <= i}
<1>1. /\ Len(j) \in Nat /\ Len(steps) \in Nat /\ Len(all) = Len(j) + Len(steps)
      /\ \A i \in 1..Len(j) : all[i] = j[i]
      /\ \A i \in 1..Len(all) : i > Len(j) => all[i] = steps[i - Len(j)] /\ i - Len(j) \in 1..Len(steps)
  BY ConcatProperties
<1>2. x \in Stepped
  BY <1>1
<1>3. /\ Append(obs, x) \in Seq(Stepped) /\ Len(obs) \in Nat
      /\ \A i \in 1..Len(obs) : Append(obs, x)[i] = obs[i]
      /\ Len(Append(obs, x)) = Len(obs) + 1 /\ Append(obs, x)[Len(obs) + 1] = x
  BY <1>2
<1>4. n \in Nat /\ n > Len(j) /\ n - Len(j) = Len(steps) /\ n \in 1..Len(all)
  BY <1>1
<1>5. all[n] = x
  BY <1>1, <1>4
<1>6. acts \subseteq 1..Len(j) /\ \A i \in acts : i \in Nat /\ i < n
  <2>1. acts \subseteq 1..Len(j)
    BY DEF ActsOf
  <2>2. \A i \in 1..Len(j) : i \in Nat /\ i < n
    BY <1>1
  <2> QED BY <2>1, <2>2
<1> HIDE DEF all, n, x, acts
<1>7. ActsOf(all) = acts \cup {n}
  <2>1. ASSUME NEW i \in 1..Len(all), i > Len(j) PROVE all[i].gen = "act" <=> i = n
    <3>1. all[i] = steps[i - Len(j)] /\ i - Len(j) \in 1..Len(steps)
      BY <1>1, <2>1
    <3>2. i = n <=> i - Len(j) = Len(steps)
      BY <1>1, <2>1 DEF n
    <3> QED BY <3>1, <3>2
  <2>2. \A i \in 1..Len(all) : i <= Len(j) => (all[i].gen = "act" <=> i \in acts)
    BY <1>1 DEF ActsOf, acts
  <2>3. \A i \in acts : i \in 1..Len(all) /\ i <= Len(j)
    BY <1>1, <1>6
  <2> QED BY <1>1, <1>4, <2>1, <2>2, <2>3 DEF ActsOf
<1>8. IsFiniteSet(acts) /\ Cardinality(acts) \in Nat
  <2>1. IsFiniteSet(1..Len(j))
    BY <1>1, FS_Interval
  <2> QED BY <1>6, <2>1, FS_Subset, FS_CardinalityType
<1>9. n \notin acts /\ Cardinality(acts \cup {n}) = Cardinality(acts) + 1
  <2>1. n \notin acts
    BY <1>4, <1>6
  <2> QED BY <1>8, <2>1, FS_AddElement
<1>10. /\ Len(obs) = Cardinality(acts) /\ \A i \in acts : obs[Cardinality(upto(acts, i))] = j[i]
  BY DEF Exports, acts
<1>11. upto(acts \cup {n}, n) = acts \cup {n}
  <2>1. \A i \in acts \cup {n} : i <= n
    BY <1>4, <1>6
  <2> QED BY <2>1
<1>12. ASSUME NEW i \in acts
       PROVE  Append(obs, x)[Cardinality(upto(acts \cup {n}, i))] = all[i]
  <2>1. upto(acts \cup {n}, i) = upto(acts, i)
    BY <1>4, <1>6
  <2>2. Cardinality(upto(acts, i)) \in 1..Len(obs)
    <3> DEFINE S == upto(acts, i)
    <3>1. i \in S /\ S \subseteq acts
      BY <1>6
    <3> HIDE DEF S
    <3>2. IsFiniteSet(S) /\ Cardinality(S) \in Nat /\ Cardinality(S) <= Cardinality(acts)
      BY <1>8, <3>1, FS_Subset, FS_CardinalityType
    <3>3. Cardinality(S) # 0
      BY <3>1, <3>2, FS_EmptySet
    <3>4. Cardinality(S) \in 1..Len(obs)
      BY <1>3, <1>10, <3>2, <3>3
    <3> QED BY <3>4 DEF S
  <2>3. all[i] = j[i]
    BY <1>1, <1>6
  <2> HIDE DEF upto
  <2> QED BY <1>3, <1>10, <2>1, <2>2, <2>3
<1>13. Append(obs, x)[Cardinality(upto(acts \cup {n}, n))] = all[n]
  BY <1>3, <1>5, <1>9, <1>10, <1>11
<1>14. Exports(Append(obs, x), all)
  <2>1. \A i \in acts \cup {n} : Append(obs, x)[Cardinality(upto(acts \cup {n}, i))] = all[i]
    BY <1>12, <1>13
  <2>2. Len(Append(obs, x)) = Cardinality(acts \cup {n})
    BY <1>3, <1>9, <1>10
  <2> QED BY <1>7, <2>1, <2>2 DEF Exports
<1> QED BY <1>14 DEF all, x
LEMMA FollowsOn ==
    ASSUME NEW walk, NEW n \in Nat, NEW j \in Seq(Stepped), NEW steps \in Seq(Stepped),
           Follows(walk, j, n), Follows(walk, steps, n + Len(j))
    PROVE  Follows(walk, j \o steps, n)
<1> DEFINE all == j \o steps
<1>1. /\ Len(j) \in Nat /\ Len(steps) \in Nat /\ Len(all) = Len(j) + Len(steps)
      /\ \A i \in 1..Len(j) : all[i] = j[i]
      /\ \A i \in 1..Len(all) : i > Len(j) => all[i] = steps[i - Len(j)] /\ i - Len(j) \in 1..Len(steps)
  BY ConcatProperties
<1> HIDE DEF all
<1>2. ASSUME NEW i \in 1..Len(all) PROVE all[i].gen \in Gens /\ all[i] = walk[n + i].step
  <2>1. CASE i \in 1..Len(j)
    BY <1>1, <2>1 DEF Follows
  <2>2. CASE i > Len(j)
    <3>1. all[i] = steps[i - Len(j)] /\ i - Len(j) \in 1..Len(steps)
      BY <1>1, <2>2
    <3>2. n + Len(j) + (i - Len(j)) = n + i
      BY <1>1
    <3> QED BY <3>1, <3>2 DEF Follows
  <2> QED BY <1>1, <2>1, <2>2
<1>3. Follows(walk, all, n)
  BY <1>2 DEF Follows
<1> QED BY <1>3 DEF all

LEMMA RunCollects ==
    ASSUME SatInv, RunInv, RunCollect PROVE RunInv'
<1> DEFINE v == verdict["impl"]
           f == phase["impl"]
           steps == sat.consumed
           k == Len(steps)
           all == journal \o steps
<1>1. /\ task.kind = "run" /\ task' = task /\ Walk' = Walk /\ pc = "collect" /\ journal' = all
      /\ side' = side /\ phase' = phase /\ setup' = setup
  BY DEF RunCollect, task, Walk
<1>2. /\ OnWalk /\ Journaled /\ f \in Nat /\ k \in Nat /\ steps \in Seq(Stepped)
      /\ journal \in Seq(Stepped) /\ visible \in Seq(Stepped) /\ Len(journal) \in Nat /\ Typed
  BY <1>1, RunTypes DEF RunInv
<1>3. /\ Begun = f - k /\ Begun \in Nat /\ Len(journal) = Begun /\ side = "impl"
      /\ Follows(Walk, steps, Begun) /\ OneVisible(v, steps)
      /\ v.is = "realizing" => v.next = Walk[f].c
      /\ v.is = "quiescent" => Offers(setup.impl, Walk[f].c) = {}
      /\ Follows(Walk, journal, 0) /\ Exports(visible, journal) /\ result.is = "none"
  BY <1>1, <1>2 DEF OnWalk, Journaled, Begun
<1>4. all \in Seq(Stepped) /\ Len(all) = f
  <2>1. all \in Seq(Stepped) /\ Len(all) = Len(journal) + k
    BY <1>2, ConcatProperties
  <2> QED BY <1>2, <1>3, <2>1
<1>5. Follows(Walk, all, 0)
  <2>1. 0 + Len(journal) = Begun
    BY <1>2, <1>3
  <2> QED BY <1>2, <1>3, <2>1, FollowsOn
<1> HIDE DEF v, all
<1>6. CASE /\ v.is = "realizing" /\ visible' = Append(visible, v.obs) /\ pc' = "loop"
           /\ at' = [at EXCEPT !["impl"] = v.next] /\ result' = result
  <2>1. /\ k # 0 /\ v.obs = steps[k] /\ steps[k].gen = "act"
        /\ \A i \in 1..k : steps[i].gen = "act" => i = k
    BY <1>3, <1>6 DEF OneVisible
  <2>2. Exports(visible', all)
    <3> HIDE DEF k, steps
    <3> QED BY <1>2, <1>3, <1>6, <2>1, ExportsOne DEF all, k
  <2>3. at'["impl"] = Walk[f].c
    BY <1>2, <1>3, <1>6 DEF Typed, Sides
  <2>4. OnWalk'
    BY <1>1, <1>3, <1>6, <2>3 DEF OnWalk
  <2>5. Journaled'
    BY <1>1, <1>3, <1>4, <1>5, <1>6, <2>2 DEF Journaled
  <2> QED BY <1>1, <2>4, <2>5 DEF RunInv
<1>7. CASE v.is # "realizing" /\ Finish(v.is, v.why, at["impl"].world) /\ UNCHANGED <<visible, at>>
  <2>1. \A i \in 1..k : steps[i].gen # "act"
    BY <1>3, <1>7 DEF OneVisible
  <2>2. Exports(visible', all)
    <3> HIDE DEF steps
    <3> QED BY <1>2, <1>3, <1>7, <2>1, ExportsNone DEF all
  <2>3. pc' = "done" /\ result'.is = v.is
    BY <1>7 DEF Finish
  <2>4. OnWalk'
    BY <1>1, <1>3, <2>3 DEF OnWalk
  <2>5. Journaled'
    BY <1>1, <1>3, <1>4, <1>5, <2>2, <2>3 DEF Journaled
  <2> QED BY <1>1, <2>4, <2>5 DEF RunInv
<1> QED BY <1>6, <1>7 DEF RunCollect, v

LEMMA RunDrivers ==
    ASSUME SatInv, RunInv, task.kind # "compare", RunLoop \/ CloseLoop \/ CloseOpen \/ CloseCollect
    PROVE  RunInv'
<1>1. OnWalk /\ side = "impl" /\ Typed /\ "impl" \in Sides
  BY RunTypes DEF RunInv, OnWalk
<1>2. /\ setup' = setup /\ task' = task /\ Walk' = Walk /\ phase' = phase /\ journal' = journal
      /\ pc # "done" /\ pc # "tick" /\ result.is = "none"
  <2>1. setup' = setup /\ phase' = phase /\ journal' = journal /\ pc # "done" /\ pc # "tick"
    BY DEF RunLoop, CloseLoop, CloseOpen, CloseCollect
  <2> QED BY <1>1, <2>1 DEF task, Walk, OnWalk
<1>3. CASE EnterSat("impl", at["impl"]) /\ (RunLoop \/ CloseLoop)
  <2>1. result' = result
    BY <1>3 DEF RunLoop, CloseLoop, EnterSat, Finish
  <2>2. /\ pc = "loop" /\ UNCHANGED <<setup, at, phase, verdict, journal, visible, seen, result>>
    BY <1>3, <2>1 DEF RunLoop, CloseLoop
  <2> QED BY <1>3, <2>2, RunEnter
<1>4. CASE RunLoop /\ Finish("unknown", "visible", at["impl"].world) /\ UNCHANGED <<side, sat>>
  <2>1. /\ pc = "loop" /\ pc' = "done" /\ result'.is = "unknown" /\ side' = side
        /\ visible' = visible /\ task.kind = "run"
    BY <1>4 DEF RunLoop, Finish
  <2>2. OnWalk'
    BY <1>1, <2>1 DEF OnWalk
  <2>3. Journaled'
    BY <1>2, <2>1 DEF RunInv, Journaled
  <2> QED BY <1>2, <2>2, <2>3 DEF RunInv
<1>5. CASE task.kind = "close" /\ pc' = "done" /\ side' = side
  <2>1. OnWalk'
    BY <1>1, <1>5 DEF OnWalk
  <2> QED BY <1>2, <1>5, <2>1 DEF RunInv
<1>6. CASE /\ task.kind = "close" /\ pc' = "loop" /\ side' = side /\ result' = result
           /\ at'["impl"] = Walk[phase["impl"]].c
  <2>1. OnWalk'
    BY <1>1, <1>2, <1>6 DEF OnWalk
  <2> QED BY <1>2, <1>6, <2>1 DEF RunInv
<1>7. CASE CloseOpen
  <2>1. /\ task.kind = "close" /\ side' = side /\ at' = at /\ pc = "open"
        /\ pc' = "done" \/ (pc' = "loop" /\ result' = result)
    BY <1>7 DEF CloseOpen, Finish
  <2>2. at["impl"] = Walk[phase["impl"]].c
    BY <1>1, <2>1 DEF OnWalk
  <2> QED BY <1>5, <1>6, <2>1, <2>2
<1>8. CASE CloseCollect
  <2> DEFINE v == verdict["impl"]
  <2>1. /\ task.kind = "close" /\ side' = side /\ pc = "collect"
        /\ \/ pc' = "done"
           \/ /\ pc' = "loop" /\ result' = result /\ v.is = "realizing"
              /\ at' = [at EXCEPT !["impl"] = v.next]
    BY <1>8 DEF CloseCollect, Finish
  <2>2. v.is = "realizing" => v.next = Walk[phase["impl"]].c
    BY <1>1, <2>1 DEF OnWalk
  <2> HIDE DEF v
  <2>3. pc' = "loop" => at'["impl"] = v.next
    BY <1>1, <2>1 DEF Typed
  <2> QED BY <1>5, <1>6, <2>1, <2>2, <2>3
<1>9. CASE CloseLoop /\ Finish("unknown", "visible", at["impl"].world) /\ UNCHANGED <<side, sat>>
  BY <1>5, <1>9 DEF CloseLoop, Finish
<1> QED BY <1>3, <1>4, <1>7, <1>8, <1>9 DEF RunLoop, CloseLoop

LEMMA RunInit == Init => RunInv
<1> SUFFICES ASSUME Init PROVE RunInv
  OBVIOUS
<1>1. SatInv
  BY SatInit
<1>2. Walk[0].c = Config0
  BY <1>1, RunTypes
<1>3. /\ side = "impl" /\ at["impl"] = Config0 /\ phase["impl"] = 0 /\ result.is = "none"
      /\ journal = <<>> /\ visible = <<>> /\ pc = IF task.kind = "run" THEN "loop" ELSE "open"
  BY DEF Init, Sides, task
<1>4. Follows(Walk, <<>>, 0)
  BY DEF Follows
<1>5. Exports(<<>>, <<>>)
  <2>1. ActsOf(<<>>) = {} /\ Len(<<>>) = 0
    BY DEF ActsOf
  <2> QED BY <2>1, FS_EmptySet DEF Exports
<1>6. OnWalk
  BY <1>2, <1>3 DEF OnWalk
<1>7. task.kind = "run" => Journaled
  <2>1. Len(<<>>) = 0
    OBVIOUS
  <2> QED BY <1>3, <1>4, <1>5, <2>1 DEF Journaled
<1> QED BY <1>6, <1>7 DEF RunInv

LEMMA RunStutter == ASSUME RunInv, UNCHANGED vars PROVE RunInv'
<1>1. UNCHANGED <<setup, pc, side, at, phase, sat, verdict, journal, visible, seen, result>>
  BY DEF vars
<1>2. Walk' = Walk /\ task' = task /\ TickPhase' = TickPhase /\ Begun' = Begun
  BY <1>1 DEF Walk, task, TickPhase, Begun
<1>3. OnWalk => OnWalk'
  BY <1>1, <1>2 DEF OnWalk
<1>4. Journaled => Journaled'
  BY <1>1, <1>2 DEF Journaled
<1> QED BY <1>2, <1>3, <1>4 DEF RunInv

FullInv == IInv /\ SatInv /\ RunInv

LEMMA RunStepwise == FullInv /\ [Next]_vars => FullInv'
<1> SUFFICES ASSUME IInv, SatInv, RunInv, [Next]_vars PROVE FullInv'
  BY DEF FullInv
<1>1. IInv' /\ SatInv'
  BY SatStepwise
<1>2. CASE task.kind = "compare"
  <2>1. setup' = setup
    BY DEF Next, vars, TickKeyConflict, TickRejected, TickQuiescent, TickUnlabelled,
           TickRealizing, TickHidden, RunLoop, RunCollect, CompareOpen, CompareLoop, CompareOther,
           CompareCollect, CloseOpen, CloseLoop, CloseCollect
  <2> QED BY <1>1, <1>2, <2>1 DEF RunInv, FullInv, task
<1>3. ASSUME task.kind # "compare" PROVE RunInv'
  <2>1. CASE TickKeyConflict \/ TickRejected \/ TickUnlabelled
    BY <1>3, <2>1, RunGivesUp
  <2>2. CASE TickQuiescent
    BY <1>3, <2>2, RunQuiescent
  <2>3. CASE TickRealizing
    BY <1>3, <2>3, RunRealizing
  <2>4. CASE TickHidden
    BY <1>3, <2>4, RunHidden
  <2>5. CASE RunCollect
    BY <2>5, RunCollects
  <2>6. CASE RunLoop \/ CloseLoop \/ CloseOpen \/ CloseCollect
    BY <1>3, <2>6, RunDrivers
  <2>7. CASE CompareOpen \/ CompareLoop \/ CompareOther \/ CompareCollect
    BY <1>3, <2>7 DEF CompareOpen, CompareLoop, CompareOther, CompareCollect
  <2>8. CASE UNCHANGED vars
    BY <2>8, RunStutter
  <2> QED BY <2>1, <2>2, <2>3, <2>4, <2>5, <2>6, <2>7, <2>8 DEF Next
<1> QED BY <1>1, <1>2, <1>3 DEF FullInv

(* run_saturated commits what run_reason commits, in the same order and at  *)
(* the same phases, exports exactly the realizing commits, and is quiescent *)
(* only where the unsaturated run is stuck: for every presentation, honest  *)
(* or not, and every budget.                                               *)
THEOREM RunIsUnsaturatedRunCorrect == Spec => []RunIsUnsaturatedRun
<1>1. Init => FullInv
  BY Initially, SatInit, RunInit DEF FullInv
<1>2. FullInv => RunIsUnsaturatedRun
  <2> SUFFICES ASSUME SatInv, RunInv, task.kind = "run" PROVE RunIsUnsaturatedRun
    BY DEF FullInv, RunIsUnsaturatedRun
  <2>1. Journaled
    BY DEF RunInv
  <2>2. \A i \in 1..Len(journal) : journal[i] = Unsaturated(setup.impl)[i].step
    <3>1. \A i \in 1..Len(journal) : journal[i] = Walk[0 + i].step
      BY <2>1 DEF Journaled, Follows
    <3> QED BY <3>1 DEF Walk
  <2>3. /\ Len(visible) = Cardinality(Acts)
        /\ \A i \in Acts : visible[Cardinality({j \in Acts : j <= i})] = journal[i]
    BY <2>1 DEF Journaled, Exports, ActsOf, Acts
  <2> QED BY <2>1, <2>2, <2>3 DEF RunIsUnsaturatedRun, Journaled, Walk
<1> QED
  BY <1>1, <1>2, RunStepwise, PTL DEF Spec
-----------------------------------------------------------------------------
(* A closure check judges every state in scope of the unsaturated run. *)

Scoped(n) == n = 0 \/ (Walk[n].step # NoStep /\ (task.mode = "raw" \/ Walk[n].step.gen = "act"))
Fails(n) == Scoped(n) /\ Walk[n].c.world \notin task.good
SafeTo(n) == \A k \in 0..n : ~Fails(k)

(* Everything up to where the check stands is safe; a violation is the      *)
(* first one, and what it calls closed is safe for ever.                   *)
FirstFailure ==
    \E n \in 0..phase["impl"] : Fails(n) /\ Walk[n].c.world = result.world /\ SafeTo(n - 1)
NeverFails == \A n \in Nat : ~Fails(n)

Closing ==
    /\ pc = "open" => phase["impl"] = 0
    /\ pc \in {"loop", "tick"} => SafeTo(phase["impl"])
    /\ pc = "collect" => SafeTo(Begun)
    /\ pc = "done" /\ result.is = "violated" => FirstFailure
    /\ pc = "done" /\ result.is = "closed" /\ Honest(setup.impl) => NeverFails

CloseInv == task.kind = "close" => Closing

(* Failing is a matter of the setup only. *)
LEMMA FailsConstant ==
    ASSUME setup' = setup
    PROVE  /\ task' = task /\ Walk' = Walk
           /\ \A n : Fails(n)' <=> Fails(n)
  BY DEF task, Walk, Fails, Scoped

(* A step of the unsaturated run leads to the world it names. *)
LEMMA WalkLeads ==
    ASSUME SatInv, NEW n \in Nat, Walk[n + 1].step # NoStep
    PROVE  Walk[n + 1].c.world = Walk[n + 1].step.dst
<1>1. Walk[n + 1] = WalkOn(setup.impl, n, Walk[n].c)
  BY RunTypes
<1> DEFINE m == MoveOf(setup.impl, Walk[n].c, n)
<1>2. CASE m.is \in Stuck
  <2>1. Walk[n + 1].step = NoStep
    BY <1>1, <1>2 DEF WalkOn
  <2> QED BY <2>1
<1>3. CASE m.is \notin Stuck
  <2>1. Walk[n + 1] = [c |-> [world |-> m.step.dst, hist |-> Walk[n].c.hist + 1], step |-> m.step]
    BY <1>1, <1>3 DEF WalkOn
  <2> HIDE DEF m
  <2> QED BY <2>1
<1> QED BY <1>2, <1>3

(* The consumed steps that offend are the states that fail. *)
LEMMA Judged ==
    ASSUME SatInv, OnWalk, pc = "collect", NEW i \in 1..Len(sat.consumed)
    PROVE  /\ Fails(Begun + i) <=> i \in Offending(verdict["impl"], sat.consumed)
           /\ Walk[Begun + i].c.world = sat.consumed[i].dst
<1> DEFINE v == verdict["impl"]
           x == sat.consumed[i]
           n == Begun + i
<1>1. /\ Begun \in Nat /\ Follows(Walk, sat.consumed, Begun) /\ OneVisible(v, sat.consumed)
  BY DEF OnWalk
<1>2. Len(sat.consumed) \in Nat /\ i \in Nat /\ i # 0
  BY RunTypes
<1>3. x.gen \in Gens /\ Walk[n].step = x
  BY <1>1 DEF Follows
<1>4. x # NoStep
  BY <1>3, NoStepType DEF Gens
<1>5. n # 0 /\ n - 1 \in Nat /\ (n - 1) + 1 = n
  BY <1>1, <1>2
<1>6. Walk[n].c.world = x.dst
  <2> HIDE DEF n, x
  <2> QED BY <1>3, <1>4, <1>5, WalkLeads
<1>7. Scoped(n) <=> i \in InScope(v, sat.consumed)
  <2>1. Scoped(n) <=> task.mode = "raw" \/ x.gen = "act"
    <3> HIDE DEF n, x
    <3> QED BY <1>3, <1>4, <1>5 DEF Scoped
  <2>2. x.gen = "act" <=> v.is = "realizing" /\ i = Len(sat.consumed)
    BY <1>1 DEF OneVisible
  <2> QED BY <2>1, <2>2 DEF InScope
<1> HIDE DEF n, x
<1>8. Fails(n) <=> i \in Offending(v, sat.consumed)
  BY <1>6, <1>7 DEF Fails, Offending, x
<1> QED BY <1>6, <1>8 DEF n, x

(* Nothing of a saturated step offends: everything up to its end is safe. *)
LEMMA SafeOn ==
    ASSUME SatInv, OnWalk, pc = "collect", SafeTo(Begun), Offending(verdict["impl"], sat.consumed) = {}
    PROVE  SafeTo(phase["impl"])
<1> SUFFICES ASSUME NEW n \in 0..phase["impl"] PROVE ~Fails(n)
  BY DEF SafeTo
<1>1. /\ Begun \in Nat /\ Begun = phase["impl"] - Len(sat.consumed)
      /\ phase["impl"] \in Nat /\ Len(sat.consumed) \in Nat
  BY RunTypes DEF OnWalk, Begun
<1>2. CASE n \in 0..Begun
  BY <1>2 DEF SafeTo
<1>3. CASE n - Begun \in 1..Len(sat.consumed)
  <2>1. Begun + (n - Begun) = n
    BY <1>1
  <2> QED BY <1>3, <2>1, Judged
<1> QED BY <1>1, <1>2, <1>3

(* A quiescent run stays where it is. *)
LEMMA QuiescentStays ==
    ASSUME SatInv, NEW f \in Nat, Offers(setup.impl, Walk[f].c) = {}
    PROVE  \A n \in Nat : n > f => Walk[n].step = NoStep
<1> DEFINE p == setup.impl
           T == {n \in Nat : Walk[f + n].c = Walk[f].c /\ (n # 0 => Walk[f + n].step = NoStep)}
<1>1. /\ IsPresentation(p) /\ Walk \in [Nat -> Walked]
      /\ \A n \in Nat : Walk[n + 1] = WalkOn(p, n, Walk[n].c)
  BY RunTypes
<1>2. Walk[f].c \in Config
  BY <1>1 DEF Walked
<1>3. 0 \in T
  OBVIOUS
<1>4. ASSUME NEW n \in Nat, n \in T PROVE n + 1 \in T
  <2>1. f + n \in Nat /\ f + (n + 1) = (f + n) + 1 /\ Walk[f + n].c = Walk[f].c
    BY <1>4
  <2>2. MoveOf(p, Walk[f].c, f + n).is = "quiescent"
    BY <1>1, <1>2, MoveFacts
  <2>3. WalkOn(p, f + n, Walk[f].c) = [c |-> Walk[f].c, step |-> NoStep]
    BY <2>2 DEF WalkOn, Stuck
  <2>4. Walk[f + (n + 1)] = [c |-> Walk[f].c, step |-> NoStep]
    BY <1>1, <2>1, <2>3
  <2>5. Walk[f + (n + 1)].c = Walk[f].c /\ Walk[f + (n + 1)].step = NoStep
    BY <2>4
  <2> QED BY <2>5
<1>5. \A n \in Nat : n \in T
  <2> HIDE DEF T
  <2> QED BY <1>3, <1>4, NumberInduction
<1>6. ASSUME NEW n \in Nat, n > f PROVE Walk[n].step = NoStep
  <2>1. n - f \in Nat /\ n - f # 0 /\ f + (n - f) = n
    BY <1>6
  <2>2. n - f \in T
    BY <1>5, <2>1
  <2> QED BY <2>1, <2>2
<1> QED BY <1>6

(* An honest run that closed a cycle of hidden steps stays in it. *)
LEMMA CycleStays ==
    ASSUME SatInv, NEW steps \in Seq(Stepped), Cycle(setup.impl, steps), Honest(setup.impl),
           NEW f \in Nat, \E i \in 1..Len(steps) : Walk[f].c.world = steps[i].dst
    PROVE  \A n \in Nat : n > f => /\ Walk[n].step.gen = "tau"
                                   /\ \E i \in 1..Len(steps) : Walk[n].c.world = steps[i].dst
<1> DEFINE p == setup.impl
           D == {steps[i].dst : i \in 1..Len(steps)}
           T == {n \in Nat : Walk[f + n].c.world \in D /\ (n # 0 => Walk[f + n].step.gen = "tau")}
<1>1. /\ IsPresentation(p) /\ Walk \in [Nat -> Walked]
      /\ \A n \in Nat : Walk[n + 1] = WalkOn(p, n, Walk[n].c)
  BY RunTypes
<1>2. 0 \in T
  OBVIOUS
<1>3. ASSUME NEW n \in Nat, n \in T PROVE n + 1 \in T
  <2> DEFINE c == Walk[f + n].c
             m == MoveOf(p, c, f + n)
  <2>1. f + n \in Nat /\ f + (n + 1) = (f + n) + 1 /\ c.world \in D
    BY <1>3
  <2>2. c \in Config
    BY <1>1, <2>1 DEF Walked
  <2>3. PICK i \in 1..Len(steps) : c.world = steps[i].dst
    BY <2>1
  <2>4. PICK j \in 1..Len(steps) : steps[i].dst = steps[j].src
    BY DEF Cycle
  <2>5. Still(p, c.world) = [is |-> "tau", step |-> steps[j]]
    BY <2>3, <2>4 DEF Cycle, Hidden
  <2>6. Walk[f + (n + 1)] = WalkOn(p, f + n, c)
    BY <1>1, <2>1
  <2> HIDE DEF c, p
  <2>7. m = [is |-> "tau", step |-> steps[j]]
    BY <1>1, <2>2, <2>5, HonestMove DEF p
  <2>8. m.is = "tau" /\ m.step = steps[j] /\ m.is \notin Stuck
    BY <2>7 DEF Stuck
  <2>9. m.step.gen = "tau"
    BY <1>1, <2>2, <2>8, MoveFacts
  <2>10. WalkOn(p, f + n, c) = [c |-> [world |-> m.step.dst, hist |-> c.hist + 1], step |-> m.step]
    BY <2>8 DEF WalkOn
  <2> HIDE DEF m
  <2>11. Walk[f + (n + 1)].c.world = steps[j].dst /\ Walk[f + (n + 1)].step.gen = "tau"
    BY <2>6, <2>8, <2>9, <2>10
  <2>12. steps[j].dst \in D
    OBVIOUS
  <2> HIDE DEF D
  <2> QED BY <2>11, <2>12
<1>4. \A n \in Nat : n \in T
  <2> HIDE DEF T
  <2> QED BY <1>2, <1>3, NumberInduction
<1>5. ASSUME NEW n \in Nat, n > f
      PROVE  /\ Walk[n].step.gen = "tau"
             /\ \E i \in 1..Len(steps) : Walk[n].c.world = steps[i].dst
  <2>1. n - f \in Nat /\ n - f # 0 /\ f + (n - f) = n
    BY <1>5
  <2>2. n - f \in T
    BY <1>4, <2>1
  <2> QED BY <2>1, <2>2
<1> QED BY <1>5
(* A check that calls the trajectory closed is right for ever. *)
LEMMA ClosedForever ==
    ASSUME SatInv, OnWalk, pc = "collect", SafeTo(phase["impl"]), Honest(setup.impl),
           Offending(verdict["impl"], sat.consumed) = {},
           verdict["impl"].is \in {"quiescent", "divergent"}
    PROVE  NeverFails
<1> DEFINE v == verdict["impl"]
           f == phase["impl"]
           steps == sat.consumed
<1>1. /\ f \in Nat /\ Len(steps) \in Nat /\ steps \in Seq(Stepped) /\ Begun \in Nat /\ Begun = f - Len(steps)
      /\ Pres("impl") = setup.impl /\ side = "impl"
  BY RunTypes DEF OnWalk, Begun
<1>2. SUFFICES ASSUME NEW n \in Nat, n > f PROVE ~Fails(n)
  <2>1. \A n \in Nat : n <= f => ~Fails(n)
    BY <1>1 DEF SafeTo
  <2> QED BY <1>1, <1>2, <2>1 DEF NeverFails
<1>3. CASE v.is = "quiescent"
  <2>1. Offers(setup.impl, Walk[f].c) = {}
    BY <1>3 DEF OnWalk
  <2>2. Walk[n].step = NoStep
    BY <1>1, <1>2, <2>1, QuiescentStays
  <2> QED BY <1>1, <1>2, <2>2 DEF Fails, Scoped
<1>4. CASE v.is = "divergent"
  <2>1. Cycle(setup.impl, steps)
    BY <1>1, <1>4 DEF SatInv, Settled, Measured
  <2>2. Len(steps) \in 1..Len(steps) /\ Begun + Len(steps) = f
    <3>1. steps # <<>>
      BY <1>4 DEF OnWalk
    <3> QED BY <1>1, <3>1
  <2>3. Walk[f].c.world = steps[Len(steps)].dst
    BY <2>2, Judged
  <2> HIDE DEF f, steps
  <2>4. /\ Walk[n].step.gen = "tau"
        /\ \E i \in 1..Len(steps) : Walk[n].c.world = steps[i].dst
    BY <1>1, <1>2, <2>1, <2>2, <2>3, CycleStays
  <2>5. PICK i \in 1..Len(steps) : Walk[n].c.world = steps[i].dst
    BY <2>4
  <2>6. task.mode = "raw" => steps[i].dst \in task.good
    BY DEF Offending, InScope, steps
  <2>7. Scoped(n) => task.mode = "raw"
    BY <1>1, <1>2, <2>4 DEF Scoped
  <2> QED BY <2>5, <2>6, <2>7 DEF Fails
<1> QED BY <1>3, <1>4

LEMMA CloseTick ==
    ASSUME SatInv, RunInv, CloseInv, SatInv',
           \/ TickKeyConflict \/ TickRejected \/ TickQuiescent
           \/ TickUnlabelled \/ TickRealizing \/ TickHidden
    PROVE  CloseInv'
<1>1. /\ pc = "tick" /\ setup' = setup
      /\ \/ pc' = "tick" /\ phase' = phase
         \/ \E v, steps : Return(v, steps)
  BY DEF TickKeyConflict, TickRejected, TickQuiescent, TickUnlabelled, TickRealizing, TickHidden, Ticks
<1>2. task' = task /\ \A n : Fails(n)' <=> Fails(n)
  BY <1>1, FailsConstant
<1> SUFFICES ASSUME task.kind = "close" PROVE Closing'
  BY <1>2 DEF CloseInv
<1>3. OnWalk /\ Closing /\ SafeTo(phase["impl"]) /\ phase["impl"] \in Nat /\ side = "impl" /\ Typed
  BY <1>1, RunTypes DEF RunInv, CloseInv, Closing, OnWalk
<1>4. CASE pc' = "tick" /\ phase' = phase
  BY <1>2, <1>3, <1>4 DEF Closing, SafeTo
<1>5. CASE \E v, steps : Return(v, steps)
  <2>1. PICK v, steps : Return(v, steps)
    BY <1>5
  <2>2. /\ pc' = "collect" /\ sat'.consumed = steps /\ phase'["impl"] = phase["impl"] + Len(steps)
    BY <1>3, <2>1 DEF Return, Typed, Advance, Sides
  <2>3. sat'.consumed \in Seq(Stepped)
    BY DEF SatInv, Typed
  <2>4. Begun' = phase["impl"]
    BY <1>3, <2>2, <2>3 DEF Begun
  <2> QED BY <1>2, <2>2, <2>4, <1>3 DEF Closing, SafeTo
<1> QED BY <1>1, <1>4, <1>5

LEMMA CloseCollects ==
    ASSUME SatInv, RunInv, CloseInv, CloseCollect
    PROVE  CloseInv'
<1> DEFINE v == verdict["impl"]
           f == phase["impl"]
           steps == sat.consumed
           bad == Offending(v, steps)
<1>1. task.kind = "close" /\ pc = "collect" /\ setup' = setup /\ phase' = phase
  BY DEF CloseCollect
<1>2. /\ OnWalk /\ Closing /\ SafeTo(Begun) /\ f \in Nat /\ Begun \in Nat /\ Begun = f - Len(steps)
      /\ Len(steps) \in Nat
  BY <1>1, RunTypes DEF RunInv, CloseInv, Closing, OnWalk, Begun
<1>3. task' = task /\ Walk' = Walk /\ \A n : Fails(n)' <=> Fails(n)
  BY <1>1, FailsConstant
<1> SUFFICES Closing'
  BY <1>3 DEF CloseInv
<1>4. CASE bad # {}
  <2> DEFINE i == CHOOSE j \in bad : \A k \in bad : j <= k
             n == Begun + i
  <2>1. bad \subseteq Nat /\ bad \subseteq 1..Len(steps)
    <3>1. bad \subseteq 1..Len(steps)
      BY DEF Offending, InScope
    <3>2. 1..Len(steps) \subseteq Nat
      BY <1>2
    <3> QED BY <3>1, <3>2
  <2>2. i \in bad /\ \A k \in bad : i <= k
    <3> HIDE DEF bad
    <3>1. \E j \in bad : \A k \in bad : j <= k
      BY <1>4, <2>1, LeastNumber
    <3> QED BY <3>1
  <2>3. /\ pc' = "done" /\ result'.is = "violated" /\ result'.world = steps[i].dst
    <3>1. \E why : Finish("violated", why, steps[i].dst)
      BY <1>4 DEF CloseCollect
    <3> HIDE DEF i
    <3> QED BY <3>1 DEF Finish
  <2> HIDE DEF i, bad
  <2>4. i \in 1..Len(steps) /\ i \in Nat
    BY <2>1, <2>2
  <2>5. Fails(n) /\ Walk[n].c.world = steps[i].dst
    BY <1>1, <1>2, <2>2, <2>4, Judged DEF bad
  <2>6. n \in 0..f
    BY <1>2, <2>4
  <2>7. ASSUME NEW k \in 0..(n - 1) PROVE ~Fails(k)
    <3>1. CASE k \in 0..Begun
      BY <1>2, <3>1 DEF SafeTo
    <3>2. CASE k > Begun
      <4> DEFINE l == k - Begun
      <4>1. l \in 1..Len(steps) /\ Begun + l = k /\ l < i /\ l \in Nat
        <5>1. Begun \in Nat /\ i \in Nat /\ i <= Len(steps) /\ Len(steps) \in Nat /\ k \in Nat
              /\ k <= Begun + i - 1
          BY <1>2, <2>4
        <5> QED BY <3>2, <5>1
      <4>2. l \notin bad
        BY <2>2, <2>4, <4>1
      <4> HIDE DEF l
      <4> QED BY <1>1, <1>2, <4>1, <4>2, Judged DEF bad
    <3> QED BY <1>2, <3>1, <3>2
  <2> HIDE DEF n
  <2>8. FirstFailure'
    BY <1>1, <1>3, <2>3, <2>5, <2>6, <2>7 DEF FirstFailure, SafeTo
  <2> QED BY <2>3, <2>8 DEF Closing
<1>5. CASE bad = {}
  <2>1. SafeTo(f)
    BY <1>1, <1>2, <1>5, SafeOn
  <2>2. CASE pc' = "loop"
    BY <1>1, <1>3, <2>1, <2>2 DEF Closing, SafeTo
  <2>3. CASE v.is \in {"quiescent", "divergent"} /\ Finish("closed", v.is, at["impl"].world)
    <3>1. pc' = "done" /\ result'.is = "closed"
      BY <2>3 DEF Finish
    <3>2. Honest(setup.impl) => NeverFails
      BY <1>1, <1>2, <1>5, <2>1, <2>3, ClosedForever
    <3>3. Honest(setup'.impl) => NeverFails'
      BY <1>1, <1>3, <3>2 DEF NeverFails
    <3> QED BY <3>1, <3>3 DEF Closing
  <2>4. CASE Finish("unknown", v.why, at["impl"].world)
    BY <2>4 DEF Finish, Closing
  <2> QED BY <1>5, <2>2, <2>3, <2>4 DEF CloseCollect
<1> QED BY <1>4, <1>5

LEMMA CloseDrivers ==
    ASSUME SatInv, RunInv, CloseInv, CloseOpen \/ CloseLoop
    PROVE  CloseInv'
<1>1. task.kind = "close" /\ setup' = setup /\ phase' = phase
  BY DEF CloseOpen, CloseLoop
<1>2. OnWalk /\ Closing /\ phase["impl"] \in Nat
  BY <1>1, RunTypes DEF RunInv, CloseInv
<1>3. task' = task /\ Walk' = Walk /\ \A n : Fails(n)' <=> Fails(n)
  BY <1>1, FailsConstant
<1> SUFFICES Closing'
  BY <1>3 DEF CloseInv
<1>4. Fails(0) <=> Start \notin task.good
  <2>1. Walk[0].c = Config0
    BY RunTypes
  <2> QED BY <2>1 DEF Fails, Scoped, Config0
<1>5. CASE CloseOpen
  <2>1. phase["impl"] = 0
    BY <1>2, <1>5 DEF Closing, CloseOpen
  <2>2. CASE Start \notin task.good /\ Finish("violated", "initial", Start)
    <3>1. pc' = "done" /\ result'.is = "violated" /\ result'.world = Start
      BY <2>2 DEF Finish
    <3>2. Walk[0].c.world = Start
      BY RunTypes DEF Config0
    <3>3. FirstFailure'
      <4>1. 0..(0 - 1) = {} /\ 0 \in 0..0
        OBVIOUS
      <4> QED BY <1>1, <1>3, <1>4, <2>1, <2>2, <3>1, <3>2, <4>1 DEF FirstFailure, SafeTo
    <3> QED BY <3>1, <3>3 DEF Closing
  <2>3. CASE Start \in task.good /\ pc' = "loop"
    BY <1>1, <1>3, <1>4, <2>1, <2>3 DEF Closing, SafeTo
  <2> QED BY <1>5, <2>2, <2>3 DEF CloseOpen
<1>6. CASE CloseLoop
  <2>1. SafeTo(phase["impl"])
    BY <1>2, <1>6 DEF Closing, CloseLoop
  <2>2. CASE Finish("unknown", "visible", at["impl"].world)
    BY <2>2 DEF Finish, Closing
  <2>3. CASE pc' = "tick"
    BY <1>1, <1>3, <2>1, <2>3 DEF Closing, SafeTo
  <2> QED BY <1>6, <2>2, <2>3 DEF CloseLoop, EnterSat
<1> QED BY <1>5, <1>6

LEMMA CloseStutter == ASSUME CloseInv, UNCHANGED vars PROVE CloseInv'
<1>1. UNCHANGED <<setup, pc, phase, sat, result>>
  BY DEF vars
<1>2. task' = task /\ Walk' = Walk /\ Begun' = Begun /\ \A n : Fails(n)' <=> Fails(n)
  BY <1>1, FailsConstant DEF Begun
<1>3. Closing => Closing'
  BY <1>1, <1>2 DEF Closing, SafeTo, FirstFailure, NeverFails
<1> QED BY <1>2, <1>3 DEF CloseInv

LEMMA CloseStepwise == FullInv /\ CloseInv /\ [Next]_vars => (FullInv /\ CloseInv)'
<1> SUFFICES ASSUME FullInv, CloseInv, [Next]_vars PROVE FullInv' /\ CloseInv'
  OBVIOUS
<1>1. SatInv /\ RunInv /\ SatInv'
  BY RunStepwise DEF FullInv
<1>2. CloseInv'
  <2>1. CASE \/ TickKeyConflict \/ TickRejected \/ TickQuiescent
             \/ TickUnlabelled \/ TickRealizing \/ TickHidden
    BY <1>1, <2>1, CloseTick
  <2>2. CASE CloseCollect
    BY <1>1, <2>2, CloseCollects
  <2>3. CASE CloseOpen \/ CloseLoop
    BY <1>1, <2>3, CloseDrivers
  <2>4. CASE \/ RunLoop \/ RunCollect \/ CompareOpen \/ CompareLoop \/ CompareOther \/ CompareCollect
    <3>1. task.kind # "close" /\ setup' = setup
      BY <2>4 DEF RunLoop, RunCollect, CompareOpen, CompareLoop, CompareOther, CompareCollect
    <3> QED BY <3>1 DEF CloseInv, task
  <2>5. CASE UNCHANGED vars
    BY <2>5, CloseStutter
  <2> QED BY <2>1, <2>2, <2>3, <2>4, <2>5 DEF Next
<1> QED BY <1>2, RunStepwise

LEMMA CloseInit == Init => CloseInv
  BY DEF Init, Sides, CloseInv, Closing, task

(* A closure verdict is about the true trajectory: "violated" names the     *)
(* first state in scope that fails, "closed" means none fails.             *)
THEOREM ClosureSoundCorrect == Spec => []ClosureSound
<1>1. Init => FullInv /\ CloseInv
  BY Initially, SatInit, RunInit, CloseInit DEF FullInv
<1>2. FullInv /\ CloseInv => ClosureSound
  <2> SUFFICES ASSUME FullInv, CloseInv, task.kind = "close", pc = "done" PROVE ClosureSound
    BY DEF ClosureSound
  <2>1. Closing /\ phase["impl"] \in Nat
    BY RunTypes DEF CloseInv, FullInv
  <2>2. result.is = "violated" => FirstFailure
    BY <2>1 DEF Closing
  <2>3. \A n \in 0..(phase["impl"] + NumWorlds) : n \in Nat
    BY <2>1, WorldsFacts
  <2>4. result.is = "closed" /\ Honest(setup.impl) => \A n \in 0..(phase["impl"] + NumWorlds) : ~Fails(n)
    BY <2>1, <2>3 DEF Closing, NeverFails
  <2> QED BY <2>2, <2>4 DEF ClosureSound, FirstFailure, SafeTo, Fails, Scoped, Walk
<1> QED
  BY <1>1, <1>2, CloseStepwise, PTL DEF Spec
-----------------------------------------------------------------------------
(* A comparison of two honest systems. *)

Origin == <<Start, Start>>
Agree == Agreement(task.contract, Orbits(setup.impl), Orbits(setup.spec))
Kept(pair, R) ==
    Keep(task.contract, Orbits(setup.impl)[pair[1]], Orbits(setup.spec)[pair[2]], R)

(* What the present pair agrees on is what the origin agrees on after the   *)
(* agreed prefix.                                                          *)
Aligned == \A n \in Nat : Origin \in Agree[Len(visible) + n] <=> Pair \in Agree[n]

Diagonal == \A pair \in seen \cup {Pair} : pair[1] = pair[2]

(* The pairs walked keep the contract among themselves and the present one, *)
(* which is still to be examined.                                          *)
Covered ==
    /\ pc = "open" => seen = {}
    /\ pc = "loop" => \A pair \in seen : Kept(pair, seen \cup {Pair})
    /\ pc \in {"tick", "collect"} => Pair \in seen /\ \A pair \in seen \ {Pair} : Kept(pair, seen)

Inconclusive ==
    \/ result.why \in {"boundary", "undeclared"}
    \/ \E s \in Sides, w \in Worlds : Orbits(Pres(s))[w].is = "unknown"
    \/ task.pairs < NumWorlds
    \/ budget.states < NumWorlds
    \/ budget.hidden < NumWorlds - 1

Comparing ==
    /\ pc \in {"open", "loop", "tick", "collect", "done"}
    /\ pc # "done" => Aligned /\ Diagonal /\ Covered
    /\ pc \in {"loop", "tick", "collect"} => ~Undeclared
    /\ pc \in {"tick", "collect"} /\ side = "spec" => Told("impl")
    /\ pc = "done" =>
          /\ result.is = "holds" => \A n \in Nat : Origin \in Agree[n]
          /\ result.is = "fails" => /\ Origin \in Agree[Len(visible)]
                                    /\ Origin \notin Agree[Len(visible) + 1]
          /\ result.is = "unknown" => Inconclusive

BothHonest == task.kind = "compare" /\ Honest(setup.impl) /\ Honest(setup.spec)
CompareInv == BothHonest => Comparing

LEMMA KeepGrows ==
    ASSUME NEW contract, NEW i, NEW s, NEW R, NEW Q, R \subseteq Q, Keep(contract, i, s, R)
    PROVE  Keep(contract, i, s, Q)
  BY DEF Keep

LEMMA AgreeFacts ==
    /\ Agree[0] = Worlds \X Worlds
    /\ \A k \in Nat : \A pair : pair \in Agree[k + 1] <=> pair \in Worlds \X Worlds /\ Kept(pair, Agree[k])
<1> DEFINE agree == Agree
<1>1. /\ agree[0] = Worlds \X Worlds
      /\ \A k \in Nat :
            agree[k + 1] = {pair \in Worlds \X Worlds :
                              Keep(task.contract, Orbits(setup.impl)[pair[1]],
                                   Orbits(setup.spec)[pair[2]], agree[k])}
  BY AgreementFacts DEF Agree
<1> HIDE DEF agree
<1>2. \A k \in Nat : agree[k + 1] = {pair \in Worlds \X Worlds : Kept(pair, agree[k])}
  BY <1>1 DEF Kept
<1> QED BY <1>1, <1>2 DEF agree

(* Agreement at a depth implies agreement at every smaller one. *)
LEMMA AgreeShrinks ==
    \A m, n \in Nat : \A pair : pair \in Agree[m + n] => pair \in Agree[n]
<1> DEFINE A == Agree
           T == {n \in Nat : \A pair : pair \in A[n + 1] => pair \in A[n]}
<1>1. A[0] = Worlds \X Worlds
  BY AgreeFacts
<1>2. \A k \in Nat : \A pair : pair \in A[k + 1] <=> pair \in Worlds \X Worlds /\ Kept(pair, A[k])
  BY AgreeFacts
<1> HIDE DEF A
<1>3. 0 \in T
  <2>1. \A pair : pair \in A[0 + 1] => pair \in Worlds \X Worlds
    BY <1>2
  <2> QED BY <1>1, <2>1
<1>4. ASSUME NEW n \in Nat, n \in T PROVE n + 1 \in T
  <2>1. A[n + 1] \subseteq A[n]
    BY <1>4
  <2>2. ASSUME NEW pair, pair \in A[(n + 1) + 1] PROVE pair \in A[n + 1]
    <3>1. pair \in Worlds \X Worlds /\ Kept(pair, A[n + 1])
      BY <1>2, <2>2
    <3>2. Kept(pair, A[n])
      BY <2>1, <3>1, KeepGrows DEF Kept
    <3> QED BY <1>2, <3>1, <3>2
  <2> QED BY <2>2
<1>5. \A n \in Nat : n \in T
  <2> HIDE DEF T
  <2> QED BY <1>3, <1>4, NumberInduction
<1> DEFINE U == {m \in Nat : \A n \in Nat : \A pair : pair \in A[m + n] => pair \in A[n]}
<1>6. 0 \in U
  OBVIOUS
<1>7. ASSUME NEW m \in Nat, m \in U PROVE m + 1 \in U
  <2> SUFFICES ASSUME NEW n \in Nat, NEW pair, pair \in A[(m + 1) + n] PROVE pair \in A[n]
    OBVIOUS
  <2>1. (m + 1) + n = (m + n) + 1 /\ m + n \in Nat
    OBVIOUS
  <2>2. m + n \in T
    BY <1>5, <2>1
  <2>3. pair \in A[m + n]
    BY <2>1, <2>2
  <2> QED BY <1>7, <2>3
<1>8. \A m \in Nat : m \in U
  <2> HIDE DEF U
  <2> QED BY <1>6, <1>7, NumberInduction
<1> QED BY <1>8 DEF A

(* A set of pairs that keeps the contract into itself agrees at every depth. *)
LEMMA AgreeForever ==
    ASSUME NEW S, S \subseteq Worlds \X Worlds, \A pair \in S : Kept(pair, S)
    PROVE  \A n \in Nat : S \subseteq Agree[n]
<1> DEFINE A == Agree
           T == {n \in Nat : S \subseteq A[n]}
<1>1. A[0] = Worlds \X Worlds
  BY AgreeFacts
<1>2. \A k \in Nat : \A pair : pair \in A[k + 1] <=> pair \in Worlds \X Worlds /\ Kept(pair, A[k])
  BY AgreeFacts
<1> HIDE DEF A
<1>3. 0 \in T
  BY <1>1
<1>4. ASSUME NEW n \in Nat, n \in T PROVE n + 1 \in T
  <2>1. S \subseteq A[n]
    BY <1>4
  <2>2. \A pair \in S : Kept(pair, A[n])
    BY <2>1, KeepGrows DEF Kept
  <2>3. S \subseteq A[n + 1]
    BY <1>2, <2>2
  <2> QED BY <2>3
<1>5. \A n \in Nat : n \in T
  <2> HIDE DEF T
  <2> QED BY <1>3, <1>4, NumberInduction
<1> QED BY <1>5 DEF A

(* The present pair agrees for ever: so does the origin. *)
LEMMA HoldsForever ==
    ASSUME SatInv, Aligned, \A n \in Nat : Pair \in Agree[n]
    PROVE  \A n \in Nat : Origin \in Agree[n]
<1> SUFFICES ASSUME NEW n \in Nat PROVE Origin \in Agree[n]
  OBVIOUS
<1>1. Len(visible) \in Nat
  BY RunTypes
<1>2. Origin \in Agree[Len(visible) + n]
  BY DEF Aligned
<1> QED BY <1>1, <1>2, AgreeShrinks

(* Pairs of equal worlds are no more than the worlds. *)
LEMMA DiagonalSmall ==
    ASSUME NEW S, S \subseteq Worlds \X Worlds, \A pair \in S : pair[1] = pair[2]
    PROVE  Cardinality(S) \in Nat /\ Cardinality(S) <= NumWorlds
<1> DEFINE f == [pair \in S |-> pair[1]]
<1>1. f \in [S -> Worlds]
  OBVIOUS
<1>2. ASSUME NEW a \in S, NEW b \in S, f[a] = f[b] PROVE a = b
  <2>1. a \in Worlds \X Worlds /\ b \in Worlds \X Worlds /\ a[1] = b[1] /\ a[2] = b[2]
    BY <1>2
  <2>2. a = <<a[1], a[2]>> /\ b = <<b[1], b[2]>>
    BY <2>1
  <2> QED BY <2>1, <2>2
<1> HIDE DEF f
<1>3. f \in Injection(S, Worlds)
  BY <1>1, <1>2 DEF Injection, IsInjective
<1>4. IsFiniteSet(S) /\ Cardinality(S) <= Cardinality(Worlds)
  BY <1>3, WorldsFacts, FS_Injection
<1> QED BY <1>4, FS_CardinalityType DEF NumWorlds
(* The setup never changes, and neither does what it determines. *)
LEMMA CompareConstant ==
    ASSUME setup' = setup
    PROVE  /\ task' = task /\ budget' = budget /\ Agree' = Agree
           /\ (BothHonest' <=> BothHonest) /\ (Undeclared' <=> Undeclared)
           /\ \A pair, R : Kept(pair, R)' <=> Kept(pair, R)
           /\ \A s : Pres(s)' = Pres(s)
  BY DEF task, budget, Agree, BothHonest, Undeclared, Kept, Pres

LEMMA PairFacts ==
    ASSUME SatInv
    PROVE  /\ Pair \in Worlds \X Worlds /\ Pair[1] = at["impl"].world /\ Pair[2] = at["spec"].world
           /\ seen \cup {Pair} \subseteq Worlds \X Worlds /\ seen \subseteq Worlds \X Worlds
           /\ task.pairs \in Nat /\ Len(visible) \in Nat
<1>1. at["impl"].world \in Worlds /\ at["spec"].world \in Worlds
  BY DEF SatInv, Typed, Sides, Config
<1>2. Len(visible) \in Nat /\ seen \subseteq Worlds \X Worlds
  BY DEF SatInv, Typed
<1>3. task.pairs \in Nat
  BY DEF SatInv, Typed, Task, task
<1> QED BY <1>1, <1>2, <1>3 DEF Pair

LEMMA CompareTick ==
    ASSUME SatInv, CompareInv,
           \/ TickKeyConflict \/ TickRejected \/ TickQuiescent
           \/ TickUnlabelled \/ TickRealizing \/ TickHidden
    PROVE  CompareInv'
<1>1. /\ pc = "tick" /\ UNCHANGED <<setup, side, at, journal, visible, seen, result>>
      /\ \/ pc' = "tick" /\ verdict' = verdict
         \/ \E v, steps : Return(v, steps)
  BY DEF TickKeyConflict, TickRejected, TickQuiescent, TickUnlabelled, TickRealizing, TickHidden, Ticks
<1>2. /\ task' = task /\ budget' = budget /\ Agree' = Agree
      /\ (BothHonest' <=> BothHonest) /\ (Undeclared' <=> Undeclared)
      /\ \A pair, R : Kept(pair, R)' <=> Kept(pair, R)
      /\ \A s : Pres(s)' = Pres(s)
  BY <1>1, CompareConstant
<1> SUFFICES ASSUME BothHonest PROVE Comparing'
  BY <1>2 DEF CompareInv
<1>3. Comparing /\ Typed
  BY DEF CompareInv, SatInv
<1>4. pc' \in {"tick", "collect"} /\ (side = "spec" => verdict'["impl"] = verdict["impl"])
  BY <1>1, <1>3 DEF Return, Typed, Sides
<1>5. Pair' = Pair
  BY <1>1 DEF Pair
<1>6. Aligned' /\ Diagonal' /\ Covered' /\ ~Undeclared'
  <2>1. Aligned /\ Diagonal /\ Covered /\ ~Undeclared
    BY <1>1, <1>3 DEF Comparing
  <2> QED BY <1>1, <1>2, <1>4, <1>5, <2>1 DEF Aligned, Diagonal, Covered
<1>7. side' = "spec" => Told("impl")'
  BY <1>1, <1>2, <1>3, <1>4 DEF Comparing, Told
<1> QED BY <1>4, <1>6, <1>7 DEF Comparing

LEMMA CompareOpens == ASSUME SatInv, CompareInv, CompareOpen PROVE CompareInv'
<1>1. UNCHANGED <<setup, side, at, phase, sat, verdict, journal, visible, seen>> /\ pc = "open"
  BY DEF CompareOpen
<1>2. /\ task' = task /\ budget' = budget /\ Agree' = Agree
      /\ (BothHonest' <=> BothHonest) /\ (Undeclared' <=> Undeclared)
  BY <1>1, CompareConstant
<1> SUFFICES ASSUME BothHonest PROVE Comparing'
  BY <1>2 DEF CompareInv
<1>3. Comparing /\ Aligned /\ Diagonal /\ Covered /\ seen = {}
  BY <1>1 DEF CompareInv, Comparing, Covered
<1>4. Pair' = Pair
  BY <1>1 DEF Pair
<1>5. CASE pc' = "done" /\ result'.is = "unknown" /\ result'.why \in {"boundary", "undeclared"}
  <2>1. Inconclusive'
    BY <1>5 DEF Inconclusive
  <2> QED BY <1>5, <2>1 DEF Comparing
<1>6. CASE pc' = "loop" /\ ~Undeclared
  <2>1. Aligned' /\ Diagonal' /\ Covered'
    BY <1>1, <1>2, <1>3, <1>4, <1>6 DEF Aligned, Diagonal, Covered
  <2> QED BY <1>2, <1>6, <2>1 DEF Comparing
<1> QED BY <1>5, <1>6 DEF CompareOpen, Finish

LEMMA CompareLoops == ASSUME SatInv, CompareInv, CompareLoop PROVE CompareInv'
<1>1. /\ pc = "loop" /\ UNCHANGED <<setup, at, visible>> /\ seen' = seen \cup {Pair}
  BY DEF CompareLoop
<1>2. /\ task' = task /\ budget' = budget /\ Agree' = Agree
      /\ (BothHonest' <=> BothHonest) /\ (Undeclared' <=> Undeclared)
      /\ \A pair, R : Kept(pair, R)' <=> Kept(pair, R)
      /\ \A s : Pres(s)' = Pres(s)
  BY <1>1, CompareConstant
<1> SUFFICES ASSUME BothHonest PROVE Comparing'
  BY <1>2 DEF CompareInv
<1>3. /\ Aligned /\ Diagonal /\ ~Undeclared
      /\ \A pair \in seen : Kept(pair, seen \cup {Pair})
  BY <1>1 DEF CompareInv, Comparing, Covered
<1>4. Pair' = Pair
  BY <1>1 DEF Pair
<1>5. CASE Closes(Pair) /\ Finish("holds", "repeats", Start)
  <2>1. Pair \in seen /\ seen \cup {Pair} = seen
    BY <1>5 DEF Closes
  <2>2. \A pair \in seen : Kept(pair, seen)
    BY <1>3, <2>1
  <2>3. \A n \in Nat : seen \subseteq Agree[n]
    BY <2>2, PairFacts, AgreeForever
  <2>4. \A n \in Nat : Pair \in Agree[n]
    BY <2>1, <2>3
  <2>5. \A n \in Nat : Origin \in Agree[n]
    BY <1>3, <2>4, HoldsForever
  <2>6. pc' = "done" /\ result'.is = "holds"
    BY <1>5 DEF Finish
  <2> QED BY <1>2, <2>5, <2>6 DEF Comparing, Origin
<1>6. CASE Cardinality(seen') > task.pairs /\ Finish("unknown", "pairs", Start)
  <2>1. Cardinality(seen') \in Nat /\ Cardinality(seen') <= NumWorlds
    BY <1>1, <1>3, PairFacts, DiagonalSmall DEF Diagonal
  <2>2. task.pairs < NumWorlds
    BY <1>6, <2>1, PairFacts, WorldsFacts
  <2>3. Inconclusive'
    BY <1>2, <2>2 DEF Inconclusive
  <2>4. pc' = "done" /\ result'.is = "unknown"
    BY <1>6 DEF Finish
  <2> QED BY <2>3, <2>4 DEF Comparing
<1>7. CASE EnterSat("impl", at["impl"])
  <2>1. pc' = "tick" /\ side' = "impl"
    BY <1>7 DEF EnterSat
  <2>2. Aligned' /\ Diagonal'
    BY <1>1, <1>2, <1>3, <1>4 DEF Aligned, Diagonal
  <2>3. Covered'
    BY <1>1, <1>2, <1>3, <1>4, <2>1 DEF Covered
  <2> QED BY <1>2, <1>3, <2>1, <2>2, <2>3 DEF Comparing
<1> QED BY <1>5, <1>6, <1>7 DEF CompareLoop

LEMMA CompareOthers == ASSUME SatInv, CompareInv, CompareOther PROVE CompareInv'
<1>1. /\ pc = "collect" /\ UNCHANGED <<setup, at, visible, seen, verdict>> /\ side = "impl"
      /\ pc' = "tick" /\ side' = "spec"
  BY DEF CompareOther, EnterSat
<1>2. /\ task' = task /\ budget' = budget /\ Agree' = Agree
      /\ (BothHonest' <=> BothHonest) /\ (Undeclared' <=> Undeclared)
      /\ \A pair, R : Kept(pair, R)' <=> Kept(pair, R)
      /\ \A s : Pres(s)' = Pres(s)
  BY <1>1, CompareConstant
<1> SUFFICES ASSUME BothHonest PROVE Comparing'
  BY <1>2 DEF CompareInv
<1>3. /\ Aligned /\ Diagonal /\ ~Undeclared /\ Covered
  BY <1>1 DEF CompareInv, Comparing
<1>4. Pair' = Pair
  BY <1>1 DEF Pair
<1>5. Told("impl")
  BY <1>1 DEF SatInv, Settled
<1>6. Told("impl")'
  BY <1>1, <1>2, <1>5 DEF Told
<1>7. Aligned' /\ Diagonal' /\ Covered'
  BY <1>1, <1>2, <1>3, <1>4 DEF Aligned, Diagonal, Covered
<1> QED BY <1>1, <1>2, <1>3, <1>6, <1>7 DEF Comparing
(* What the two verdicts say about the present pair. *)
LEMMA VerdictsKept ==
    ASSUME SatInv, Comparing, BothHonest, pc = "collect", side = "spec"
    PROVE  LET i == verdict["impl"]
               s == verdict["spec"]
           IN  /\ i.is = "unknown" \/ s.is = "unknown" =>
                     \/ \E t \in Sides, w \in Worlds : Orbits(Pres(t))[w].is = "unknown"
                     \/ budget.states < NumWorlds \/ budget.hidden < NumWorlds - 1
               /\ i.is # "unknown" /\ s.is # "unknown" =>
                     /\ Excused(s) => \A R : Kept(Pair, R)
                     /\ i.is = s.is /\ i.is # "realizing" => \A R : Kept(Pair, R)
                     /\ ~Excused(s) /\ Mismatch(i, s) # "none" => \A R : ~Kept(Pair, R)
                     /\ Mismatch(i, s) = "none" /\ i.is = "realizing" =>
                           /\ s.is = "realizing" /\ i.next.world = s.next.world
                           /\ \A R : Kept(Pair, R) <=> <<i.next.world, s.next.world>> \in R
<1> DEFINE i == verdict["impl"]
           s == verdict["spec"]
           oi == Orbits(setup.impl)[Pair[1]]
           os == Orbits(setup.spec)[Pair[2]]
<1>1. Told("impl") /\ Told("spec") /\ ~Undeclared
  BY DEF Comparing, SatInv, Settled
<1>2. /\ Pres("impl") = setup.impl /\ Pres("spec") = setup.spec /\ "impl" \in Sides /\ "spec" \in Sides
      /\ Honest(setup.impl) /\ Honest(setup.spec)
      /\ Pair[1] = at["impl"].world /\ Pair[2] = at["spec"].world
      /\ Pair[1] \in Worlds /\ Pair[2] \in Worlds
  BY PairFacts DEF Pres, Sides, BothHonest
<1>3. /\ i.is # "unknown" => i.is = oi.is
      /\ i.is = "realizing" => i.obs = oi.obs /\ i.next.world = i.obs.dst
      /\ i.is = "unknown" => Excuse(setup.impl, oi, budget)
  BY <1>1, <1>2 DEF Told, Truth
<1>4. /\ s.is # "unknown" => s.is = os.is
      /\ s.is = "realizing" => s.obs = os.obs /\ s.next.world = s.obs.dst
      /\ s.is = "unknown" => Excuse(setup.spec, os, budget)
  BY <1>1, <1>2 DEF Told, Truth
<1>5. setup.impl.declares = {"P1", "P6"} /\ setup.spec.declares = {"P1", "P6"}
  BY <1>1 DEF Undeclared, SatInv, Typed, IsPresentation
<1>6. i.is = "unknown" \/ s.is = "unknown" =>
          \/ \E t \in Sides, w \in Worlds : Orbits(Pres(t))[w].is = "unknown"
          \/ budget.states < NumWorlds \/ budget.hidden < NumWorlds - 1
  BY <1>2, <1>3, <1>4, <1>5 DEF Excuse
<1>7. \A R : Kept(Pair, R) <=> Keep(task.contract, oi, os, R)
  BY DEF Kept
<1> HIDE DEF i, s, oi, os
<1>8. ASSUME i.is # "unknown", s.is # "unknown"
      PROVE  /\ Excused(s) => \A R : Kept(Pair, R)
             /\ i.is = s.is /\ i.is # "realizing" => \A R : Kept(Pair, R)
             /\ ~Excused(s) /\ Mismatch(i, s) # "none" => \A R : ~Kept(Pair, R)
             /\ Mismatch(i, s) = "none" /\ i.is = "realizing" =>
                   /\ s.is = "realizing" /\ i.next.world = s.next.world
                   /\ \A R : Kept(Pair, R) <=> <<i.next.world, s.next.world>> \in R
  <2>1. i.is = oi.is /\ s.is = os.is
    BY <1>3, <1>4, <1>8
  <2>2. Excused(s) => \A R : Kept(Pair, R)
    BY <1>7, <2>1 DEF Excused, Keep
  <2>3. i.is = s.is /\ i.is # "realizing" => \A R : Kept(Pair, R)
    BY <1>7, <2>1 DEF Keep
  <2>4. ASSUME ~Excused(s), Mismatch(i, s) # "none", NEW R PROVE ~Kept(Pair, R)
    <3>1. ~(os.is = "divergent" /\ task.contract = "refines")
      BY <2>1, <2>4 DEF Excused
    <3>2. ~(oi.is = os.is /\ oi.is # "realizing")
      BY <2>1, <2>4 DEF Mismatch
    <3>3. ~(oi.is = "realizing" /\ os.is = "realizing" /\ oi.obs = os.obs)
      BY <1>3, <1>4, <2>1, <2>4 DEF Mismatch
    <3> QED BY <1>7, <3>1, <3>2, <3>3 DEF Keep
  <2>5. ASSUME Mismatch(i, s) = "none", i.is = "realizing"
        PROVE  /\ s.is = "realizing" /\ i.next.world = s.next.world
               /\ \A R : Kept(Pair, R) <=> <<i.next.world, s.next.world>> \in R
    <3>1. s.is = "realizing" /\ i.obs = s.obs
      BY <2>5 DEF Mismatch
    <3>2. oi.obs = i.obs /\ os.obs = s.obs /\ i.next.world = i.obs.dst /\ s.next.world = s.obs.dst
      BY <1>3, <1>4, <2>5, <3>1
    <3> QED BY <1>7, <2>1, <2>5, <3>1, <3>2 DEF Keep
  <2> QED BY <2>2, <2>3, <2>4, <2>5
<1> QED BY <1>6, <1>8 DEF i, s

(* A pair that keeps the contract whatever comes next agrees for ever. *)
LEMMA KeptAgrees ==
    ASSUME SatInv, \A R : Kept(Pair, R)
    PROVE  \A n \in Nat : Pair \in Agree[n]
<1> DEFINE S == {Pair}
<1>1. S \subseteq Worlds \X Worlds /\ \A pair \in S : Kept(pair, S)
  BY PairFacts
<1>2. \A n \in Nat : S \subseteq Agree[n]
  <2> HIDE DEF S
  <2> QED BY <1>1, AgreeForever
<1> QED BY <1>2

LEMMA CompareCollects == ASSUME SatInv, CompareInv, CompareCollect PROVE CompareInv'
<1> DEFINE i == verdict["impl"]
           s == verdict["spec"]
<1>1. pc = "collect" /\ UNCHANGED <<setup, seen>> /\ side = "spec" /\ side' = "spec"
  BY DEF CompareCollect
<1>2. /\ task' = task /\ budget' = budget /\ Agree' = Agree
      /\ (BothHonest' <=> BothHonest) /\ (Undeclared' <=> Undeclared)
      /\ \A pair, R : Kept(pair, R)' <=> Kept(pair, R)
      /\ \A t : Pres(t)' = Pres(t)
  BY <1>1, CompareConstant
<1> SUFFICES ASSUME BothHonest PROVE Comparing'
  BY <1>2 DEF CompareInv
<1>3. /\ Comparing /\ Aligned /\ Diagonal /\ ~Undeclared /\ Pair \in seen
      /\ \A pair \in seen \ {Pair} : Kept(pair, seen)
  BY <1>1 DEF CompareInv, Comparing, Covered
<1>4. /\ i.is = "unknown" \/ s.is = "unknown" =>
            \/ \E t \in Sides, w \in Worlds : Orbits(Pres(t))[w].is = "unknown"
            \/ budget.states < NumWorlds \/ budget.hidden < NumWorlds - 1
      /\ i.is # "unknown" /\ s.is # "unknown" =>
            /\ Excused(s) => \A R : Kept(Pair, R)
            /\ i.is = s.is /\ i.is # "realizing" => \A R : Kept(Pair, R)
            /\ ~Excused(s) /\ Mismatch(i, s) # "none" => \A R : ~Kept(Pair, R)
            /\ Mismatch(i, s) = "none" /\ i.is = "realizing" =>
                  /\ s.is = "realizing" /\ i.next.world = s.next.world
                  /\ \A R : Kept(Pair, R) <=> <<i.next.world, s.next.world>> \in R
  BY <1>1, <1>3, VerdictsKept
<1>5. Pair \in Worlds \X Worlds /\ Len(visible) \in Nat
  BY PairFacts
<1> HIDE DEF i, s
<1>6. CASE (i.is = "unknown" \/ s.is = "unknown") /\ pc' = "done" /\ result'.is = "unknown"
  <2>1. Inconclusive'
    BY <1>2, <1>4, <1>6 DEF Inconclusive
  <2> QED BY <1>6, <2>1 DEF Comparing
<1>7. CASE (\A R : Kept(Pair, R)) /\ pc' = "done" /\ result'.is = "holds"
  <2>1. \A n \in Nat : Pair \in Agree[n]
    BY <1>7, KeptAgrees
  <2>2. \A n \in Nat : Origin \in Agree[n]
    BY <1>3, <2>1, HoldsForever
  <2> QED BY <1>2, <1>7, <2>2 DEF Comparing, Origin
<1>8. CASE (\A R : ~Kept(Pair, R)) /\ pc' = "done" /\ result'.is = "fails" /\ visible' = visible
  <2>1. Pair \in Agree[0] /\ Pair \notin Agree[1]
    <3>1. 0 \in Nat /\ 0 + 1 = 1
      OBVIOUS
    <3>2. Pair \in Agree[0 + 1] <=> Kept(Pair, Agree[0])
      BY <1>5, <3>1, AgreeFacts
    <3> QED BY <1>5, <1>8, <3>1, <3>2, AgreeFacts
  <2>2. Origin \in Agree[Len(visible) + 0] /\ Origin \notin Agree[Len(visible) + 1]
    BY <1>3, <2>1 DEF Aligned
  <2>3. Origin \in Agree[Len(visible)]
    BY <1>5, <2>2
  <2> QED BY <1>2, <1>8, <2>2, <2>3 DEF Comparing, Origin
<1>9. CASE /\ Mismatch(i, s) = "none" /\ i.is = "realizing" /\ i.is # "unknown" /\ s.is # "unknown"
           /\ visible' = Append(visible, i.obs) /\ at' = [t \in Sides |-> verdict[t].next]
           /\ pc' = "loop"
  <2> DEFINE next == <<i.next.world, s.next.world>>
  <2>1. Pair' = next
    BY <1>9 DEF Pair, Sides, i, s
  <2>2. i.next.world = s.next.world /\ \A R : Kept(Pair, R) <=> next \in R
    BY <1>4, <1>9
  <2>3. Len(visible') = Len(visible) + 1
    <3>1. visible \in Seq(Stepped) /\ i.obs \in Stepped
      BY DEF SatInv, Typed, IsVerdict, i, Sides
    <3> QED BY <1>9, <3>1
  <2>4. next[1] = next[2]
    BY <2>2
  <2> HIDE DEF next
  <2>5. Aligned'
    <3> SUFFICES ASSUME NEW n \in Nat
                 PROVE  Origin \in Agree[Len(visible) + 1 + n] <=> next \in Agree[n]
      BY <1>2, <2>1, <2>3 DEF Aligned, Origin
    <3>1. Len(visible) + 1 + n = Len(visible) + (n + 1) /\ n + 1 \in Nat
      BY <1>5
    <3>2. Origin \in Agree[Len(visible) + (n + 1)] <=> Pair \in Agree[n + 1]
      BY <1>3, <3>1 DEF Aligned
    <3>3. Pair \in Agree[n + 1] <=> Kept(Pair, Agree[n])
      BY <1>5, AgreeFacts
    <3> QED BY <2>2, <3>1, <3>2, <3>3
  <2>6. Diagonal'
    BY <1>1, <1>3, <2>1, <2>4 DEF Diagonal
  <2>7. \A pair \in seen : Kept(pair, seen \cup {next})
    <3>1. Kept(Pair, seen \cup {next})
      BY <2>2
    <3>2. \A pair \in seen \ {Pair} : Kept(pair, seen \cup {next})
      <4>1. seen \subseteq seen \cup {next}
        OBVIOUS
      <4> QED BY <1>3, <4>1, KeepGrows DEF Kept
    <3> QED BY <3>1, <3>2
  <2>8. Covered'
    BY <1>1, <1>2, <1>9, <2>1, <2>7 DEF Covered
  <2> QED BY <1>2, <1>3, <1>9, <2>5, <2>6, <2>8 DEF Comparing
<1>10. CASE \/ i.is = "unknown" /\ Finish("unknown", "impl", Start)
            \/ i.is # "unknown" /\ s.is = "unknown" /\ Finish("unknown", "spec", Start)
  BY <1>6, <1>10 DEF Finish
<1>11. CASE /\ i.is # "unknown" /\ s.is # "unknown"
            /\ Excused(s) /\ Finish("holds", "excused", Start)
  BY <1>4, <1>7, <1>11 DEF Finish
<1>12. CASE /\ i.is # "unknown" /\ s.is # "unknown" /\ ~Excused(s) /\ Mismatch(i, s) # "none"
            /\ Finish("fails", Mismatch(i, s), Start) /\ visible' = visible
  BY <1>4, <1>8, <1>12 DEF Finish
<1>13. CASE /\ i.is # "unknown" /\ s.is # "unknown" /\ Mismatch(i, s) = "none" /\ i.is # "realizing"
            /\ Finish("holds", "ended", Start)
  <2>1. i.is = s.is
    BY <1>13 DEF Mismatch
  <2> QED BY <1>4, <1>7, <1>13, <2>1 DEF Finish
<1> QED BY <1>9, <1>10, <1>11, <1>12, <1>13 DEF CompareCollect, i, s

LEMMA CompareStutter == ASSUME CompareInv, UNCHANGED vars PROVE CompareInv'
<1>1. UNCHANGED <<setup, pc, side, at, visible, seen, verdict, result>>
  BY DEF vars
<1>2. /\ task' = task /\ budget' = budget /\ Agree' = Agree
      /\ (BothHonest' <=> BothHonest) /\ (Undeclared' <=> Undeclared)
      /\ \A pair, R : Kept(pair, R)' <=> Kept(pair, R)
      /\ \A t : Pres(t)' = Pres(t)
  BY <1>1, CompareConstant
<1>3. Pair' = Pair
  BY <1>1 DEF Pair
<1>4. (Told("impl") <=> Told("impl")') /\ (Inconclusive' <=> Inconclusive)
  BY <1>1, <1>2 DEF Told, Inconclusive
<1>5. (Aligned => Aligned') /\ (Diagonal => Diagonal') /\ (Covered => Covered')
  BY <1>1, <1>2, <1>3 DEF Aligned, Diagonal, Covered
<1>6. Comparing => Comparing'
  BY <1>1, <1>2, <1>4, <1>5 DEF Comparing, Origin
<1> QED BY <1>2, <1>6 DEF CompareInv

LEMMA CompareInit == Init => CompareInv
<1> SUFFICES ASSUME Init, BothHonest PROVE Comparing
  BY DEF CompareInv
<1>1. /\ pc = "open" /\ seen = {} /\ visible = <<>> /\ Pair = Origin
  BY DEF Init, BothHonest, task, Pair, Origin, Sides, Config0
<1>2. \A n \in Nat : Len(visible) + n = n
  BY <1>1
<1>3. Aligned
  BY <1>1, <1>2 DEF Aligned
<1>4. Diagonal /\ Covered
  BY <1>1 DEF Diagonal, Covered, Origin
<1> QED BY <1>1, <1>3, <1>4 DEF Comparing

LEMMA CompareStepwise ==
    IInv /\ SatInv /\ CompareInv /\ [Next]_vars => (IInv /\ SatInv /\ CompareInv)'
<1> SUFFICES ASSUME IInv, SatInv, CompareInv, [Next]_vars PROVE (IInv /\ SatInv)' /\ CompareInv'
  OBVIOUS
<1>1. CompareInv'
  <2>1. CASE \/ TickKeyConflict \/ TickRejected \/ TickQuiescent
             \/ TickUnlabelled \/ TickRealizing \/ TickHidden
    BY <2>1, CompareTick
  <2>2. CASE CompareOpen
    BY <2>2, CompareOpens
  <2>3. CASE CompareLoop
    BY <2>3, CompareLoops
  <2>4. CASE CompareOther
    BY <2>4, CompareOthers
  <2>5. CASE CompareCollect
    BY <2>5, CompareCollects
  <2>6. CASE RunLoop \/ RunCollect \/ CloseOpen \/ CloseLoop \/ CloseCollect
    <3>1. task.kind # "compare" /\ setup' = setup
      BY <2>6 DEF RunLoop, RunCollect, CloseOpen, CloseLoop, CloseCollect
    <3> QED BY <3>1 DEF CompareInv, BothHonest, task
  <2>7. CASE UNCHANGED vars
    BY <2>7, CompareStutter
  <2> QED BY <2>1, <2>2, <2>3, <2>4, <2>5, <2>6, <2>7 DEF Next
<1> QED BY <1>1, SatStepwise

(* Comparing two honest systems, "holds" means they agree at every depth,   *)
(* "fails" reports the shortest disagreement, and the walk decides whenever *)
(* its budgets cover the worlds: for every set of worlds, every pair of     *)
(* presentations, every contract and every budget.                         *)
THEOREM ComparisonSoundCorrect == Spec => []ComparisonSound
<1>1. Init => IInv /\ SatInv /\ CompareInv
  BY Initially, SatInit, CompareInit
<1>2. CompareInv => ComparisonSound
  <2> SUFFICES ASSUME CompareInv, BothHonest, pc = "done" PROVE ComparisonSound
    BY DEF ComparisonSound, BothHonest
  <2>1. Comparing
    BY DEF CompareInv
  <2>2. NumWorlds + 1 \in Nat
    BY WorldsFacts
  <2>3. /\ result.is = "holds" => Origin \in Agree[NumWorlds + 1]
        /\ result.is = "fails" => /\ Origin \in Agree[Len(visible)]
                                  /\ Origin \notin Agree[Len(visible) + 1]
        /\ result.is = "unknown" => Inconclusive
    BY <2>1, <2>2 DEF Comparing
  <2> QED BY <2>3 DEF ComparisonSound, Origin, Agree, Inconclusive
<1> QED
  BY <1>1, <1>2, CompareStepwise, PTL DEF Spec

(* What check_saturated says of two honest systems does not depend on the   *)
(* depth: "holds" is agreement at every depth, not only up to the number of *)
(* worlds.                                                                 *)
THEOREM HoldsAtEveryDepth ==
    Spec => [](BothHonest /\ pc = "done" /\ result.is = "holds" => \A n \in Nat : Origin \in Agree[n])
<1>1. Init => IInv /\ SatInv /\ CompareInv
  BY Initially, SatInit, CompareInit
<1>2. CompareInv => (BothHonest /\ pc = "done" /\ result.is = "holds" => \A n \in Nat : Origin \in Agree[n])
  BY DEF CompareInv, Comparing
<1> QED
  BY <1>1, <1>2, CompareStepwise, PTL DEF Spec

(* A trajectory check_closure calls closed never leaves the predicate, at   *)
(* any later phase of an honest presentation's run.                        *)
THEOREM ClosedIsForever ==
    Spec => [](task.kind = "close" /\ pc = "done" /\ result.is = "closed" /\ Honest(setup.impl)
               => NeverFails)
<1>1. Init => FullInv /\ CloseInv
  BY Initially, SatInit, RunInit, CloseInit DEF FullInv
<1>2. CloseInv => (task.kind = "close" /\ pc = "done" /\ result.is = "closed" /\ Honest(setup.impl)
                   => NeverFails)
  BY DEF CloseInv, Closing
<1> QED
  BY <1>1, <1>2, CloseStepwise, PTL DEF Spec
=============================================================================
