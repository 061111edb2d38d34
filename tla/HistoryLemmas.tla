--------------------------- MODULE HistoryLemmas ---------------------------
(***************************************************************************)
(* Facts about prefixes of sequences, used for histories of batches.       *)
(***************************************************************************)
EXTENDS Integers, Sequences, SequencesExt, SequenceTheorems, TLAPS

(* A prefix is shorter and agrees element by element. *)
LEMMA PrefixPointwise ==
    ASSUME NEW S, NEW g \in Seq(S), NEW h \in Seq(S)
    PROVE  IsPrefix(g, h) <=>
              Len(g) <= Len(h) /\ \A i \in 1..Len(g) : g[i] = h[i]
  BY DEF IsPrefix

(* The first n elements of a sequence are a prefix of it of length n. *)
LEMMA SubSeqIsPrefix ==
    ASSUME NEW S, NEW h \in Seq(S), NEW n \in 0..Len(h)
    PROVE  /\ SubSeq(h, 1, n) \in Seq(S)
           /\ Len(SubSeq(h, 1, n)) = n
           /\ \A i \in 1..n : SubSeq(h, 1, n)[i] = h[i]
           /\ IsPrefix(SubSeq(h, 1, n), h)
  <1>1. \A i \in 1..n : h[i] \in S
    BY ElementOfSeq, LenProperties
  <1>2. SubSeq(h, 1, n) \in Seq(S) /\ Len(SubSeq(h, 1, n)) = n
        /\ \A i \in 1..n : SubSeq(h, 1, n)[i] = h[i]
    BY <1>1, SubSeqProperties, LenProperties
  <1>3. Len(SubSeq(h, 1, n)) <= Len(h)
        /\ \A i \in 1..Len(SubSeq(h, 1, n)) : SubSeq(h, 1, n)[i] = h[i]
    BY <1>2, LenProperties
  <1>4. IsPrefix(SubSeq(h, 1, n), h)
    BY ONLY <1>2, <1>3, h \in Seq(S), PrefixPointwise
  <1> QED BY <1>2, <1>4

(* A prefix is determined by its length. *)
LEMMA PrefixIsSubSeq ==
    ASSUME NEW S, NEW g \in Seq(S), NEW h \in Seq(S), IsPrefix(g, h)
    PROVE  g = SubSeq(h, 1, Len(g))
  <1>1. Len(g) \in 0..Len(h) /\ \A i \in 1..Len(g) : g[i] = h[i]
    BY PrefixPointwise, LenProperties
  <1>2. /\ SubSeq(h, 1, Len(g)) \in Seq(S)
        /\ Len(SubSeq(h, 1, Len(g))) = Len(g)
        /\ \A i \in 1..Len(g) : SubSeq(h, 1, Len(g))[i] = h[i]
    BY <1>1, SubSeqIsPrefix
  <1> QED BY <1>1, <1>2, SeqEqual

(* Two prefixes of one sequence with one length are equal; a prefix with   *)
(* the whole length is the whole.                                          *)
LEMMA PrefixSameLength ==
    ASSUME NEW S, NEW f \in Seq(S), NEW g \in Seq(S), NEW h \in Seq(S),
           IsPrefix(f, h), IsPrefix(g, h), Len(f) = Len(g)
    PROVE  f = g
  BY PrefixIsSubSeq

LEMMA PrefixReflexive ==
    ASSUME NEW S, NEW h \in Seq(S)
    PROVE  IsPrefix(h, h) /\ IsPrefix(<<>>, h)
  <1>1. IsPrefix(h, h)
    BY LenProperties DEF IsPrefix
  <1>2. <<>> \in Seq(S) /\ Len(<<>>) = 0 /\ Len(h) \in Nat
    BY EmptySeq, LenProperties
  <1>3. Len(<<>>) <= Len(h) /\ \A i \in 1..Len(<<>>) : <<>>[i] = h[i]
    BY <1>2
  <1>4. IsPrefix(<<>>, h)
    BY ONLY <1>2, <1>3, h \in Seq(S), PrefixPointwise
  <1> QED BY <1>1, <1>4

LEMMA PrefixTransitive ==
    ASSUME NEW S, NEW f \in Seq(S), NEW g \in Seq(S), NEW h \in Seq(S),
           IsPrefix(f, g), IsPrefix(g, h)
    PROVE  IsPrefix(f, h)
  BY PrefixPointwise, LenProperties

(* Two prefixes of one sequence are ordered by their lengths. *)
LEMMA PrefixOrder ==
    ASSUME NEW S, NEW f \in Seq(S), NEW g \in Seq(S), NEW h \in Seq(S),
           IsPrefix(f, h), IsPrefix(g, h), Len(f) <= Len(g)
    PROVE  IsPrefix(f, g)
  BY PrefixPointwise, LenProperties

(* Appending keeps every prefix and adds one element. *)
LEMMA AppendFacts ==
    ASSUME NEW S, NEW h \in Seq(S), NEW b \in S
    PROVE  /\ Append(h, b) \in Seq(S)
           /\ Append(h, b) # <<>>
           /\ Len(Append(h, b)) = Len(h) + 1
           /\ \A i \in 1..Len(h) : Append(h, b)[i] = h[i]
           /\ Append(h, b)[Len(h) + 1] = b
           /\ Last(Append(h, b)) = b
           /\ IsPrefix(h, Append(h, b))
  <1>1. /\ Append(h, b) \in Seq(S)
        /\ Len(Append(h, b)) = Len(h) + 1
        /\ \A i \in 1..Len(h) : Append(h, b)[i] = h[i]
        /\ Append(h, b)[Len(h) + 1] = b
    BY LenProperties
  <1>2. Append(h, b) # <<>>
    BY <1>1, EmptySeq, LenProperties
  <1>3. Len(h) <= Len(Append(h, b)) /\ \A i \in 1..Len(h) : h[i] = Append(h, b)[i]
    BY <1>1, LenProperties
  <1>4. IsPrefix(h, Append(h, b))
    BY ONLY <1>1, <1>3, h \in Seq(S), PrefixPointwise
  <1> QED BY <1>1, <1>2, <1>4 DEF Last

LEMMA LastOfSubSeq ==
    ASSUME NEW S, NEW h \in Seq(S), NEW n \in 1..Len(h)
    PROVE  Last(SubSeq(h, 1, n)) = h[n] /\ SubSeq(h, 1, n) # <<>>
  <1>1. n \in 0..Len(h) /\ n \in 1..n
    BY LenProperties
  <1>2. /\ SubSeq(h, 1, n) \in Seq(S)
        /\ Len(SubSeq(h, 1, n)) = n
        /\ \A i \in 1..n : SubSeq(h, 1, n)[i] = h[i]
    BY <1>1, SubSeqIsPrefix
  <1> QED BY <1>1, <1>2, EmptySeq DEF Last
=============================================================================
