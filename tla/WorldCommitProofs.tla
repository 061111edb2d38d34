------------------------- MODULE WorldCommitProofs -------------------------
(***************************************************************************)
(* Safety of the commit protocol for every number of sessions, keys,       *)
(* operation lists, revisions and failures, power cuts included.           *)
(***************************************************************************)
EXTENDS WorldCommit, HistoryLemmas

(* The index i answers every key as the history h does. *)
ExactFor(i, h) ==
    \A k \in Key :
        /\ i[k] = <<>> => k \notin Keys(h)
        /\ i[k] # <<>> => IsPrefix(i[k], h) /\ Last(i[k]).key = k

Once(h) == \A i, j \in 1..Len(h) : h[i].key = h[j].key => i = j

(* What is on disk.  HEAD names the longest history a power cut may leave, *)
(* it has each key once, and all its receipts are durable.                 *)
DiskInv ==
    /\ \A f \in File : vis[f] \in may[f]
    /\ Len(vis[HEAD]) <= MaxSeq
    /\ Once(vis[HEAD])
    /\ \A h \in may[HEAD] : IsPrefix(h, vis[HEAD])
    /\ \A n \in 1..Len(vis[HEAD]) : may[Rcpt(n)] = {SubSeq(vis[HEAD], 1, n)}
    /\ \A h \in fresh : \A g \in may[HEAD] : IsPrefix(h, g)

(* Any sidecar, of whatever history, is exact for the history it names. *)
SideInv ==
    /\ side \in sideMay
    /\ \A sc \in sideMay : sc.present => ExactFor(sc.root, sc.at) /\ Once(sc.at)

(* What a session holds in memory. *)
SessionInv ==
    \A s \in Session :
        /\ pc[s] # "closed" => IsPrefix(cur[s], vis[HEAD])
        /\ Live(s) => ExactFor(idx[s], cur[s])

(* The writer lock excludes: only its holder is past apply_batch's checks. *)
OneWriter == \A s \in Session : pc[s] \in Committing <=> lock = s

(* What a committing session has written so far. *)
WriterInv ==
    /\ OneWriter
    /\ \A s \in Session :
        /\ pc[s] \in Committing =>
            /\ req[s] \in Batch
            /\ req[s].base = Len(cur[s])
            /\ Len(cur[s]) < MaxSeq
            /\ idx[s][req[s].key] = <<>>
            /\ vis[HEAD] = IF pc[s] = "headRenamed" THEN New(s) ELSE cur[s]
        /\ pc[s] = "rcptWritten" => vis[Rcpt(Seq1(s))] = New(s)
        /\ pc[s] = "rcptSynced" => may[Rcpt(Seq1(s))] = {New(s)}

IInv == TypeOK /\ DiskInv /\ SideInv /\ SessionInv /\ WriterInv

-----------------------------------------------------------------------------
(* File names are distinct. *)
LEMMA FileFacts ==
    /\ HEAD \in File /\ HEAD \notin RevisionsDir /\ HEAD \notin ReceiptsDir
    /\ \A n \in 1..MaxSeq :
          /\ Rcpt(n) \in File /\ Rev(n) \in File /\ Delta(n) \in File
          /\ Rcpt(n) \in ReceiptsDir /\ Rcpt(n) \notin RevisionsDir /\ Rcpt(n) \notin RootDir
    /\ \A m, n : /\ Rcpt(n) # HEAD /\ Rev(n) # HEAD /\ Delta(n) # HEAD
                 /\ Rcpt(m) # Rev(n) /\ Rcpt(m) # Delta(n)
                 /\ Rcpt(m) = Rcpt(n) => m = n
  BY DEF File, HEAD, Rcpt, Rev, Delta, RootDir, RevisionsDir, ReceiptsDir

(* What the key sets of a history and of its prefixes are. *)
LEMMA KeysOfPrefix ==
    ASSUME NEW g \in History, NEW h \in History, IsPrefix(g, h)
    PROVE  /\ Keys(g) \subseteq Keys(h)
           /\ Once(h) => Once(g)
  <1>1. Len(g) \in Nat /\ Len(h) \in Nat /\ Len(g) <= Len(h)
        /\ \A i \in 1..Len(g) : g[i] = h[i]
    BY PrefixPointwise, LenProperties DEF History
  <1> QED BY <1>1 DEF Keys, Once

LEMMA KeysOfAppend ==
    ASSUME NEW h \in History, NEW b \in Batch
    PROVE  /\ Keys(Append(h, b)) = Keys(h) \cup {b.key}
           /\ Once(h) /\ b.key \notin Keys(h) => Once(Append(h, b))
  <1>1. /\ Len(h) \in Nat
        /\ Len(Append(h, b)) = Len(h) + 1
        /\ \A i \in 1..Len(h) : Append(h, b)[i] = h[i]
        /\ Append(h, b)[Len(h) + 1] = b
    BY AppendFacts, LenProperties DEF History
  <1>2. Keys(Append(h, b)) = Keys(h) \cup {b.key}
    BY <1>1 DEF Keys
  <1>3. ASSUME Once(h), b.key \notin Keys(h) PROVE Once(Append(h, b))
    BY <1>1, <1>3 DEF Keys, Once
  <1> QED BY <1>2, <1>3

LEMMA SubSeqOfPrefix ==
    ASSUME NEW g \in History, NEW h \in History, IsPrefix(g, h), NEW n \in 0..Len(g)
    PROVE  SubSeq(g, 1, n) = SubSeq(h, 1, n)
  <1>1. Len(g) \in Nat /\ Len(h) \in Nat /\ Len(g) <= Len(h)
    BY PrefixPointwise, LenProperties DEF History
  <1>2. n \in 0..Len(h)
    BY <1>1
  <1>3. /\ SubSeq(g, 1, n) \in History /\ Len(SubSeq(g, 1, n)) = n
        /\ IsPrefix(SubSeq(g, 1, n), g)
    BY SubSeqIsPrefix DEF History
  <1>4. /\ SubSeq(h, 1, n) \in History /\ Len(SubSeq(h, 1, n)) = n
        /\ IsPrefix(SubSeq(h, 1, n), h)
    BY <1>2, SubSeqIsPrefix DEF History
  <1>5. IsPrefix(SubSeq(g, 1, n), h)
    BY <1>3, PrefixTransitive DEF History
  <1> QED BY <1>3, <1>4, <1>5, PrefixSameLength DEF History

-----------------------------------------------------------------------------
(* An index that is exact for the first m revisions, caught up from the    *)
(* records of the others, is exact for the whole history.                  *)
LEMMA CatchUpExact ==
    ASSUME NEW h \in History, Once(h), NEW m \in 0..Len(h),
           NEW i \in Index, ExactFor(i, SubSeq(h, 1, m)),
           \A n \in (m + 1)..Len(h) : RecordOf(n) = SubSeq(h, 1, n)
    PROVE  /\ CatchUp(i, m + 1, Len(h)) \in Index
           /\ ExactFor(CatchUp(i, m + 1, Len(h)), h)
  <1> DEFINE c == CatchUp(i, m + 1, Len(h))
             g == SubSeq(h, 1, m)
             hits(k) == { n \in (m + 1)..Len(h) :
                            RecordOf(n) # <<>> /\ Last(RecordOf(n)).key = k }
  <1>1. Len(h) \in Nat /\ m \in Nat
    BY LenProperties DEF History
  <1>2. /\ g \in History /\ Len(g) = m /\ IsPrefix(g, h)
        /\ \A n \in 1..m : g[n] = h[n]
    BY SubSeqIsPrefix DEF History
  <1>3. \A n \in (m + 1)..Len(h) :
            /\ RecordOf(n) \in History
            /\ RecordOf(n) # <<>>
            /\ Last(RecordOf(n)) = h[n]
            /\ IsPrefix(RecordOf(n), h)
    <2> TAKE n \in (m + 1)..Len(h)
    <2>1. n \in 1..Len(h) /\ n \in 0..Len(h)
      BY <1>1
    <2> QED BY <2>1, SubSeqIsPrefix, LastOfSubSeq DEF History
  <1>4. ASSUME NEW k \in Key
        PROVE  /\ c[k] \in History
               /\ c[k] = <<>> => k \notin Keys(h)
               /\ c[k] # <<>> => IsPrefix(c[k], h) /\ Last(c[k]).key = k
    <2>1. c[k] = IF hits(k) = {} THEN i[k]
                 ELSE RecordOf(CHOOSE n \in hits(k) : \A l \in hits(k) : l <= n)
      BY DEF CatchUp
    <2>2. CASE hits(k) = {}
      <3>1. c[k] = i[k] /\ i[k] \in History
        BY <2>1, <2>2 DEF Index
      <3>2. \A n \in (m + 1)..Len(h) : h[n].key # k
        BY <1>3, <2>2
      <3>3. k \notin Keys(g) => k \notin Keys(h)
        BY <1>1, <1>2, <3>2 DEF Keys
      <3>4. i[k] # <<>> => IsPrefix(i[k], g)
        BY DEF ExactFor
      <3>5. i[k] # <<>> => IsPrefix(i[k], h)
        BY <1>2, <3>1, <3>4, PrefixTransitive DEF History
      <3> QED BY <3>1, <3>3, <3>5 DEF ExactFor
    <2>3. CASE hits(k) # {}
      <3>1. PICK p \in hits(k) : TRUE
        BY <2>3
      <3>2. p \in (m + 1)..Len(h) /\ h[p].key = k
        BY <1>3, <3>1
      <3>3. \A l \in hits(k) : l = p
        BY <1>1, <1>3, <3>2 DEF Once
      <3>4. (CHOOSE n \in hits(k) : \A l \in hits(k) : l <= n) = p
        <4>1. \A l \in hits(k) : l <= p
          BY <1>1, <3>2, <3>3
        <4>2. \E n \in hits(k) : \A l \in hits(k) : l <= n
          BY <3>1, <4>1
        <4>3. (CHOOSE n \in hits(k) : \A l \in hits(k) : l <= n) \in hits(k)
          BY <4>2
        <4> QED BY <3>3, <4>3
      <3>5. c[k] = RecordOf(p)
        BY <2>1, <2>3, <3>4
      <3> QED BY <1>3, <3>2, <3>5
    <2> QED BY <2>2, <2>3
  <1>5. c \in Index
    BY <1>4 DEF CatchUp, Index
  <1> QED BY <1>4, <1>5 DEF ExactFor

(* The empty index is exact for the empty history. *)
LEMMA EmptyExact == EmptyIndex \in Index /\ ExactFor(EmptyIndex, <<>>) /\ Once(<<>>)
                    /\ <<>> \in History
  BY EmptySeq DEF EmptyIndex, Index, ExactFor, Keys, Once, History

(* A commit's index entry keeps the index exact. *)
LEMMA AppendExact ==
    ASSUME NEW h \in History, NEW b \in Batch, NEW i \in Index,
           ExactFor(i, h), i[b.key] = <<>>, Once(h),
           NEW j, j = [i EXCEPT ![b.key] = Append(h, b)]
    PROVE  j \in Index /\ ExactFor(j, Append(h, b)) /\ Once(Append(h, b))
  <1>1. b.key \in Key
    BY DEF Batch
  <1>2. /\ Append(h, b) \in History /\ Append(h, b) # <<>>
        /\ Last(Append(h, b)) = b /\ IsPrefix(h, Append(h, b))
    BY AppendFacts DEF History
  <1>3. IsPrefix(Append(h, b), Append(h, b))
    BY <1>2, PrefixReflexive DEF History
  <1>4. j \in Index
    BY <1>1, <1>2 DEF Index
  <1>5. b.key \notin Keys(h)
    BY <1>1 DEF ExactFor
  <1>6. ASSUME NEW k \in Key
        PROVE  /\ j[k] = <<>> => k \notin Keys(Append(h, b))
               /\ j[k] # <<>> => IsPrefix(j[k], Append(h, b)) /\ Last(j[k]).key = k
    <2>1. CASE k = b.key
      BY <1>1, <1>2, <1>3, <2>1 DEF Index
    <2>2. CASE k # b.key
      <3>1. j[k] = i[k] /\ i[k] \in History
        BY <2>2 DEF Index
      <3>2. i[k] # <<>> => IsPrefix(i[k], Append(h, b))
        BY <1>2, <3>1, PrefixTransitive DEF History, ExactFor
      <3> QED BY <2>2, <3>1, <3>2, KeysOfAppend DEF ExactFor
    <2> QED BY <2>1, <2>2
  <1> QED BY <1>4, <1>5, <1>6, KeysOfAppend DEF ExactFor

-----------------------------------------------------------------------------
(* What the invariant says of HEAD and of the records behind it. *)
LEMMA HeadFacts ==
    ASSUME IInv
    PROVE  /\ vis[HEAD] \in History /\ vis[HEAD] \in may[HEAD]
           /\ may[HEAD] \subseteq History
           /\ Len(vis[HEAD]) \in 0..MaxSeq
  BY FileFacts, LenProperties, CommitAssumption DEF IInv, TypeOK, DiskInv, History

LEMMA RecordFacts ==
    ASSUME IInv, NEW h \in History, IsPrefix(h, vis[HEAD])
    PROVE  /\ Once(h)
           /\ \A n \in 1..Len(h) : RecordOf(n) = SubSeq(h, 1, n)
  <1>1. Once(h)
    BY HeadFacts, KeysOfPrefix DEF IInv, DiskInv
  <1>2. Len(h) \in Nat /\ Len(h) <= Len(vis[HEAD]) /\ Len(vis[HEAD]) \in 0..MaxSeq
    BY HeadFacts, PrefixPointwise, LenProperties DEF History
  <1>3. ASSUME NEW n \in 1..Len(h) PROVE RecordOf(n) = SubSeq(h, 1, n)
    <2>1. n \in 1..Len(vis[HEAD]) /\ n \in 1..MaxSeq /\ n \in 0..Len(h)
      BY <1>2, CommitAssumption
    <2>2. vis[Rcpt(n)] = SubSeq(vis[HEAD], 1, n)
      BY <2>1, FileFacts DEF IInv, DiskInv
    <2>3. SubSeq(vis[HEAD], 1, n) = SubSeq(h, 1, n) /\ SubSeq(h, 1, n) # <<>>
      BY <2>1, HeadFacts, SubSeqOfPrefix, LastOfSubSeq DEF History
    <2> QED BY <2>2, <2>3 DEF RecordOf
  <1> QED BY <1>1, <1>3

(* Both ways an open obtains the index give an exact one. *)
LEMMA ScanExact ==
    ASSUME IInv, NEW h \in History, IsPrefix(h, vis[HEAD])
    PROVE  FromScan(h) \in Index /\ ExactFor(FromScan(h), h)
  <1>1. 0 \in 0..Len(h) /\ 0 + 1 = 1
    BY LenProperties DEF History
  <1>2. SubSeq(h, 1, 0) = <<>>
    BY SubSeqEmpty
  <1>3. /\ CatchUp(EmptyIndex, 0 + 1, Len(h)) \in Index
        /\ ExactFor(CatchUp(EmptyIndex, 0 + 1, Len(h)), h)
    BY <1>1, <1>2, RecordFacts, EmptyExact, CatchUpExact
  <1> QED BY <1>1, <1>3 DEF FromScan

LEMMA SidecarExact ==
    ASSUME IInv, NEW h \in History, IsPrefix(h, vis[HEAD]), SidecarSound(h)
    PROVE  FromSidecar(h) \in Index /\ ExactFor(FromSidecar(h), h)
  <1> DEFINE m == Len(side.at)
  <1>1. /\ side.at \in History /\ side.root \in Index
        /\ ExactFor(side.root, side.at)
    BY DEF IInv, TypeOK, SideInv, Sidecar, SidecarSound
  <1>2. m \in 0..Len(h) /\ Len(h) \in Nat
    BY <1>1, LenProperties DEF History, SidecarSound
  <1>3. side.at = SubSeq(h, 1, m)
    <2>1. CASE m = Len(h) /\ side.at = h
      BY <2>1, SubSeqFull DEF History
    <2>2. CASE m = 0
      BY <1>1, <2>2, SubSeqEmpty, EmptySeq DEF History
    <2>3. CASE m \in 1..(Len(h) - 1) /\ RecordOf(m) = side.at
      BY <1>2, <2>3, RecordFacts
    <2> QED BY <2>1, <2>2, <2>3 DEF SidecarSound
  <1>4. \A n \in (m + 1)..Len(h) : RecordOf(n) = SubSeq(h, 1, n)
    BY <1>2, RecordFacts
  <1>5. Once(h)
    BY RecordFacts
  <1> QED BY <1>1, <1>2, <1>3, <1>4, <1>5, CatchUpExact DEF FromSidecar

(* What a committing session is about to publish. *)
LEMMA WriterFacts ==
    ASSUME IInv, NEW s \in Session, pc[s] \in Committing
    PROVE  /\ lock = s
           /\ cur[s] \in History /\ req[s] \in Batch
           /\ New(s) \in History /\ New(s) # <<>>
           /\ Len(New(s)) = Seq1(s)
           /\ Seq1(s) \in 1..MaxSeq
           /\ IsPrefix(cur[s], New(s))
           /\ \A t \in Session : t # s => pc[t] \notin Committing
  <1>1. /\ lock = s /\ cur[s] \in History /\ req[s] \in Batch
        /\ Len(cur[s]) < MaxSeq
        /\ \A t \in Session : t # s => pc[t] \notin Committing
    BY DEF IInv, WriterInv, OneWriter, TypeOK
  <1>2. Len(cur[s]) \in Nat
    BY <1>1, LenProperties DEF History
  <1> QED BY <1>1, <1>2, AppendFacts, CommitAssumption DEF New, Seq1, History

-----------------------------------------------------------------------------
(* Each action preserves the invariant. *)
LEMMA InitInv == Init => IInv
  <1> SUFFICES ASSUME Init PROVE IInv
    OBVIOUS
  <1> USE DEF Init
  <1>1. TypeOK
    BY EmptyExact, CommitAssumption
    DEF TypeOK, PC, Sidecar, NoSidecar
  <1>2. vis[HEAD] = <<>> /\ may[HEAD] = {<<>>} /\ Len(<<>>) = 0
    BY FileFacts
  <1>3. IsPrefix(<<>>, <<>>)
    BY EmptyExact, PrefixReflexive DEF History
  <1>4. DiskInv
    <2>1. \A f \in File : vis[f] \in may[f]
      OBVIOUS
    <2>2. \A n \in 1..Len(vis[HEAD]) : may[Rcpt(n)] = {SubSeq(vis[HEAD], 1, n)}
      BY <1>2
    <2>3. Len(vis[HEAD]) <= MaxSeq
      BY <1>2, CommitAssumption
    <2>4. Once(vis[HEAD])
      BY <1>2, EmptyExact
    <2>5. \A h \in may[HEAD] : IsPrefix(h, vis[HEAD])
      BY <1>2, <1>3
    <2>6. \A h \in fresh : \A g \in may[HEAD] : IsPrefix(h, g)
      OBVIOUS
    <2> QED BY <2>1, <2>2, <2>3, <2>4, <2>5, <2>6 DEF DiskInv
  <1>5. SideInv
    BY DEF SideInv, NoSidecar
  <1>6. SessionInv /\ WriterInv
    BY CommitAssumption DEF SessionInv, WriterInv, Live, OneWriter, Committing
  <1> QED BY <1>1, <1>4, <1>5, <1>6 DEF IInv

LEMMA ReadHeadInv ==
    ASSUME IInv, NEW s \in Session, ReadHead(s)
    PROVE  IInv'
  <1> USE DEF IInv, ReadHead, disk, ghost
  <1>1. IsPrefix(vis[HEAD], vis[HEAD])
    BY HeadFacts, PrefixReflexive DEF History
  <1>2. TypeOK'
    BY HeadFacts DEF TypeOK, PC
  <1>3. DiskInv' /\ SideInv'
    BY DEF DiskInv, SideInv
  <1>4. SessionInv'
    BY <1>1 DEF SessionInv, Live, TypeOK, Committing
  <1>5. WriterInv'
    BY DEF WriterInv, OneWriter, TypeOK, Committing, New, Seq1
  <1> QED BY <1>2, <1>3, <1>4, <1>5

LEMMA LoadSessionInv ==
    ASSUME IInv, NEW s \in Session, LoadSession(s)
    PROVE  IInv'
  <1> USE DEF IInv, disk, ghost
  <1>1. cur[s] \in History /\ IsPrefix(cur[s], vis[HEAD])
    BY DEF LoadSession, TypeOK, SessionInv
  <1>2. PICK i \in Index :
            /\ ExactFor(i, cur[s])
            /\ idx' = [idx EXCEPT ![s] = i]
            /\ pc' = [pc EXCEPT ![s] = pc'[s]]
            /\ pc'[s] \in {"ready", "upgrading"}
    <2>1. CASE SidecarSound(cur[s]) /\ idx' = [idx EXCEPT ![s] = FromSidecar(cur[s])]
               /\ pc' = [pc EXCEPT ![s] = "ready"]
      BY <1>1, <2>1, SidecarExact DEF TypeOK
    <2>2. CASE idx' = [idx EXCEPT ![s] = FromScan(cur[s])]
               /\ pc' = [pc EXCEPT ![s] = IF FromScan(cur[s]) = EmptyIndex
                                          THEN "ready" ELSE "upgrading"]
      BY <1>1, <2>2, ScanExact DEF TypeOK
    <2> QED BY <2>1, <2>2 DEF LoadSession
  <1>3. TypeOK'
    BY <1>2 DEF TypeOK, PC, LoadSession
  <1>4. DiskInv' /\ SideInv'
    BY DEF DiskInv, SideInv, LoadSession
  <1>5. SessionInv'
    BY <1>1, <1>2 DEF SessionInv, Live, TypeOK, Committing, LoadSession
  <1>6. WriterInv'
    BY <1>2 DEF WriterInv, OneWriter, TypeOK, Committing, New, Seq1, LoadSession
  <1> QED BY <1>3, <1>4, <1>5, <1>6

LEMMA OpenFailsInv ==
    ASSUME IInv, NEW s \in Session, OpenFails(s)
    PROVE  IInv'
  <1> USE DEF IInv, OpenFails, disk, ghost
  <1>1. TypeOK'
    BY EmptyExact DEF TypeOK, PC
  <1>2. DiskInv' /\ SideInv'
    BY DEF DiskInv, SideInv
  <1>3. SessionInv'
    BY DEF SessionInv, Live, TypeOK, Committing
  <1>4. WriterInv'
    BY DEF WriterInv, OneWriter, TypeOK, Committing, New, Seq1
  <1> QED BY <1>1, <1>2, <1>3, <1>4

(* An fsync of the root directory leaves the disk as it is seen, and only  *)
(* the history HEAD names after a power cut.                               *)
LEMMA SyncRootFacts ==
    ASSUME IInv, SyncRoot, vis' = vis, fresh' = fresh
    PROVE  /\ DiskInv'
           /\ may'[HEAD] = {vis[HEAD]}
           /\ may' \in [File -> SUBSET History]
           /\ \A f \in File : f # HEAD => may'[f] = may[f]
  <1>1. /\ may'[HEAD] = {vis[HEAD]}
        /\ may' \in [File -> SUBSET History]
        /\ \A f \in File : f # HEAD => may'[f] = may[f]
    BY FileFacts DEF SyncRoot, SyncDir, RootDir, IInv, TypeOK
  <1>2. \A f \in File : vis'[f] \in may'[f]
    BY <1>1 DEF IInv, DiskInv
  <1>3. IsPrefix(vis[HEAD], vis[HEAD])
    BY HeadFacts, PrefixReflexive DEF History
  <1>4. \A n \in 1..Len(vis[HEAD]) : may'[Rcpt(n)] = may[Rcpt(n)]
    <2>1. \A n \in 1..Len(vis[HEAD]) : n \in 1..MaxSeq
      <3>1. Len(vis[HEAD]) \in 0..MaxSeq
        BY HeadFacts
      <3> QED BY <3>1, CommitAssumption
    <2> QED BY <1>1, <2>1, FileFacts
  <1>5. \A h \in fresh : IsPrefix(h, vis[HEAD])
    BY HeadFacts DEF IInv, DiskInv
  <1>6. DiskInv'
    BY <1>1, <1>2, <1>3, <1>4, <1>5 DEF IInv, DiskInv
  <1> QED BY <1>1, <1>6

(* Publishing an exact index keeps the sidecars exact. *)
LEMMA PublishSidecarInv ==
    ASSUME IInv, NEW h \in History, NEW i \in Index, ExactFor(i, h), Once(h),
           NEW left \in SUBSET sideMay, PublishSidecar(h, i, left)
    PROVE  SideInv' /\ side' \in Sidecar /\ sideMay' \subseteq Sidecar
  <1> DEFINE sc == [present |-> TRUE, at |-> h, root |-> i]
  <1>1. sc \in Sidecar /\ sc.root = i /\ sc.at = h
    BY DEF Sidecar
  <1>2. side' = sc /\ sideMay' = left \cup {sc}
    BY DEF PublishSidecar
  <1>3. SideInv'
    BY <1>1, <1>2 DEF SideInv, IInv
  <1> QED BY <1>1, <1>2, <1>3 DEF IInv, TypeOK

LEMMA UpgradeIndexInv ==
    ASSUME IInv, NEW s \in Session, UpgradeIndex(s)
    PROVE  IInv'
  <1> USE DEF IInv, memory, ghost
  <1>1. cur[s] \in History /\ idx[s] \in Index /\ ExactFor(idx[s], cur[s])
        /\ IsPrefix(cur[s], vis[HEAD])
    BY DEF UpgradeIndex, TypeOK, SessionInv, Live
  <1>2. Once(cur[s])
    BY <1>1, RecordFacts
  <1>3. PICK left \in SUBSET sideMay : side \in left /\ RepublishIndex(s, left)
    BY DEF UpgradeIndex, SideInv
  <1>4. SideInv' /\ side' \in Sidecar /\ sideMay' \subseteq Sidecar
    <2>1. CASE PublishSidecar(cur[s], idx[s], left)
      BY <1>1, <1>2, <2>1, PublishSidecarInv
    <2>2. CASE side' = side /\ sideMay' = left
      BY <1>3, <2>2 DEF SideInv, TypeOK
    <2> QED BY <1>3, <2>1, <2>2 DEF RepublishIndex
  <1>5. vis' = vis /\ fresh' = fresh /\ (UNCHANGED may \/ SyncRoot)
    BY DEF UpgradeIndex
  <1>6. /\ DiskInv' /\ may' \in [File -> SUBSET History]
        /\ \A f \in File : f # HEAD => may'[f] = may[f]
    <2>1. CASE UNCHANGED may
      BY <1>5, <2>1 DEF DiskInv, TypeOK
    <2>2. CASE SyncRoot
      BY <1>5, <2>2, SyncRootFacts
    <2> QED BY <1>5, <2>1, <2>2
  <1>7. TypeOK'
    BY <1>4, <1>6 DEF TypeOK, PC, UpgradeIndex
  <1>8. SessionInv'
    BY DEF SessionInv, Live, TypeOK, Committing, UpgradeIndex
  <1>9. WriterInv'
    <2>1. \A t \in Session : pc[t] \in Committing => may'[Rcpt(Seq1(t))] = may[Rcpt(Seq1(t))]
      BY <1>6, WriterFacts, FileFacts
    <2> QED BY <2>1 DEF WriterInv, OneWriter, TypeOK, Committing, New, Seq1, UpgradeIndex
  <1> QED BY <1>4, <1>6, <1>7, <1>8, <1>9

LEMMA UpgradeFailsInv ==
    ASSUME IInv, NEW s \in Session, UpgradeFails(s)
    PROVE  IInv'
  <1> USE DEF IInv, UpgradeFails, Fail, disk, ghost
  <1>1. TypeOK'
    BY CommitAssumption DEF TypeOK, PC
  <1>2. DiskInv' /\ SideInv'
    BY DEF DiskInv, SideInv
  <1>3. SessionInv'
    BY DEF SessionInv, Live, TypeOK, Committing
  <1>4. WriterInv'
    BY DEF WriterInv, OneWriter, TypeOK, Committing, New, Seq1
  <1> QED BY <1>1, <1>2, <1>3, <1>4

LEMMA RebuildIndexInv ==
    ASSUME IInv, NEW s \in Session, RebuildIndex(s)
    PROVE  IInv'
  <1> USE DEF IInv, RebuildIndex, MayApply, ghost
  <1>1. cur[s] \in History /\ IsPrefix(cur[s], vis[HEAD])
    BY DEF TypeOK, SessionInv
  <1>2. FromScan(cur[s]) \in Index /\ ExactFor(FromScan(cur[s]), cur[s])
    BY <1>1, ScanExact
  <1>3. NoSidecar \in Sidecar /\ ~NoSidecar.present
    BY EmptyExact DEF NoSidecar, Sidecar
  <1>4. TypeOK'
    BY <1>2, <1>3 DEF TypeOK
  <1>5. DiskInv'
    BY DEF DiskInv
  <1>6. SideInv'
    BY <1>3 DEF SideInv
  <1>7. SessionInv'
    BY <1>2 DEF SessionInv, Live, TypeOK
  <1>8. WriterInv'
    BY DEF WriterInv, OneWriter, TypeOK, Committing, New, Seq1
  <1> QED BY <1>4, <1>5, <1>6, <1>7, <1>8

LEMMA ReplayInv ==
    ASSUME IInv, NEW s \in Session, NEW b \in Batch, Replay(s, b)
    PROVE  IInv'
  <1> USE DEF IInv, Replay, disk, memory
  <1>1. idx[s][b.key] \in History
    BY DEF TypeOK, Index, Batch
  <1>2. TypeOK'
    BY <1>1 DEF TypeOK
  <1>3. DiskInv' /\ SideInv'
    BY DEF DiskInv, SideInv
  <1>4. SessionInv' /\ WriterInv'
    BY DEF SessionInv, WriterInv, Live, OneWriter, New, Seq1
  <1> QED BY <1>2, <1>3, <1>4

(* MayApply compares lengths only; the lengths agree only if the session's *)
(* history is the one HEAD names.                                          *)
LEMMA StageInv ==
    ASSUME IInv, NEW s \in Session, NEW b \in Batch, Stage(s, b)
    PROVE  IInv'
  <1> USE DEF IInv, Stage, MayApply, disk, memory, ghost
  <1>1. cur[s] \in History /\ IsPrefix(cur[s], vis[HEAD])
        /\ Len(cur[s]) = Len(vis[HEAD])
    BY DEF TypeOK, SessionInv
  <1>2. vis[HEAD] = cur[s]
    BY <1>1, HeadFacts, PrefixReflexive, PrefixSameLength DEF History
  <1>3. TypeOK'
    BY DEF TypeOK, PC, Committing
  <1>4. DiskInv' /\ SideInv'
    BY DEF DiskInv, SideInv
  <1>5. SessionInv'
    BY DEF SessionInv, Live, TypeOK, Committing
  <1>6. OneWriter'
    BY CommitAssumption DEF WriterInv, OneWriter, TypeOK, Committing
  <1>7. WriterInv'
    BY <1>2, <1>6, CommitAssumption
    DEF WriterInv, OneWriter, TypeOK, Committing, New, Seq1
  <1> QED BY <1>3, <1>4, <1>5, <1>7

(* The steps of a commit that leave HEAD, the receipts and the sidecar as  *)
(* they are.                                                               *)
LEMMA FlushInv ==
    ASSUME IInv, NEW s \in Session,
           FlushNothing(s) \/ FlushPack(s) \/ FlushLatched(s) \/ SyncObjects(s)
    PROVE  IInv'
  <1> USE DEF IInv, FlushNothing, FlushPack, FlushLatched, SyncObjects, Abort,
              disk, memory, ghost
  <1>1. pc[s] \in Committing /\ lock = s /\ pc[s] # "headRenamed"
    BY DEF WriterInv, OneWriter, Committing
  <1>2. New(s) \in History
    BY <1>1, AppendFacts DEF New, WriterInv, TypeOK, History
  <1>3. TypeOK'
    <2>1. CASE FlushNothing(s)
      BY <2>1 DEF TypeOK, PC, Committing
    <2>2. CASE FlushPack(s)
      BY <1>2, <2>2 DEF TypeOK, PC, Committing
    <2>3. CASE FlushLatched(s)
      BY <2>3 DEF TypeOK, PC, Committing
    <2>4. CASE SyncObjects(s)
      BY <1>2, <2>4, SyncRootFacts DEF TypeOK, PC, Committing, SideInv
    <2> QED BY <2>1, <2>2, <2>3, <2>4
  <1>4. DiskInv' /\ SideInv'
    <2>1. CASE UNCHANGED <<may, sideMay>>
      BY <2>1 DEF DiskInv, SideInv
    <2>2. CASE SyncRoot /\ sideMay' = {side} /\ SyncObjects(s)
      BY <2>2, SyncRootFacts DEF SideInv
    <2> QED BY <2>1, <2>2
  <1>5. SessionInv'
    BY <1>1 DEF SessionInv, Live, TypeOK, Committing
  <1>6. WriterInv'
    <2>1. OneWriter'
      BY <1>1, CommitAssumption DEF WriterInv, OneWriter, TypeOK, Committing
    <2> QED BY <1>1, <2>1, CommitAssumption
            DEF WriterInv, OneWriter, TypeOK, Committing, New, Seq1
  <1> QED BY <1>3, <1>4, <1>5, <1>6

(* A rename of a file other than HEAD, at the sequence number after HEAD's, *)
(* touches no record of the history HEAD names.                             *)
LEMMA WriteBelowInv ==
    ASSUME IInv, NEW s \in Session,
           WriteDelta(s) \/ WriteRevision(s) \/ WriteReceipt(s)
    PROVE  IInv'
  <1> USE DEF IInv, memory, ghost
  <1>1. PICK f \in File : /\ WriteStep(s, pc[s], f, pc'[s])
                          /\ f # HEAD
                          /\ \A n \in 1..Len(cur[s]) : f # Rcpt(n)
                          /\ pc[s] \in Committing \ {"headRenamed", "rcptWritten", "rcptSynced"}
                          /\ pc'[s] \in Committing \ {"headRenamed", "rcptSynced"}
                          /\ pc'[s] = "rcptWritten" => f = Rcpt(Seq1(s))
    <2>1. pc[s] \in Committing \ {"headRenamed", "rcptWritten", "rcptSynced"}
      BY DEF WriteDelta, WriteRevision, WriteReceipt, WriteStep, Committing
    <2>2. Seq1(s) \in 1..MaxSeq /\ Len(cur[s]) \in Nat /\ Seq1(s) = Len(cur[s]) + 1
      BY <2>1, WriterFacts, LenProperties DEF Seq1, History
    <2>3. CASE WriteDelta(s)
      <3>1. WriteStep(s, pc[s], Delta(Seq1(s)), pc'[s]) /\ pc'[s] = "deltaWritten"
        BY <2>3 DEF WriteDelta, WriteStep, TypeOK
      <3> QED BY <2>1, <2>2, <3>1, FileFacts DEF Committing
    <2>4. CASE WriteRevision(s)
      <3>1. WriteStep(s, pc[s], Rev(Seq1(s)), pc'[s]) /\ pc'[s] = "revWritten"
        BY <2>4 DEF WriteRevision, WriteStep, TypeOK
      <3> QED BY <2>1, <2>2, <3>1, FileFacts DEF Committing
    <2>5. CASE WriteReceipt(s)
      <3>1. WriteStep(s, pc[s], Rcpt(Seq1(s)), pc'[s]) /\ pc'[s] = "rcptWritten"
        BY <2>5 DEF WriteReceipt, WriteStep, TypeOK
      <3>2. \A n \in 1..Len(cur[s]) : Rcpt(Seq1(s)) # Rcpt(n)
        BY <2>2, FileFacts
      <3> QED BY <2>1, <2>2, <3>1, <3>2, FileFacts DEF Committing
    <2> QED BY <2>3, <2>4, <2>5
  <1> USE DEF WriteStep, Rename
  <1>2. /\ cur[s] \in History /\ New(s) \in History /\ vis[HEAD] = cur[s]
        /\ \A t \in Session : t # s => pc[t] \notin Committing
        /\ lock = s
    BY <1>1, WriterFacts DEF WriterInv
  <1>3. /\ vis'[HEAD] = vis[HEAD] /\ may'[HEAD] = may[HEAD]
        /\ \A n \in 1..Len(vis[HEAD]) : may'[Rcpt(n)] = may[Rcpt(n)]
        /\ \A g \in File : vis'[g] \in may'[g]
    BY <1>1, <1>2 DEF DiskInv, TypeOK
  <1>4. TypeOK'
    BY <1>1, <1>2 DEF TypeOK, PC
  <1>5. DiskInv'
    BY <1>1, <1>3 DEF DiskInv
  <1>6. SideInv'
    BY <1>1 DEF SideInv
  <1>7. SessionInv'
    BY <1>1, <1>3 DEF SessionInv, Live, TypeOK, Committing
  <1>8. OneWriter'
    BY <1>1, <1>2, CommitAssumption DEF WriterInv, OneWriter, TypeOK
  <1>9. WriterInv'
    <2>1. ASSUME NEW t \in Session
          PROVE  /\ pc'[t] \in Committing =>
                     /\ req'[t] \in Batch
                     /\ req'[t].base = Len(cur'[t])
                     /\ Len(cur'[t]) < MaxSeq
                     /\ idx'[t][req'[t].key] = <<>>
                     /\ vis'[HEAD] = IF pc'[t] = "headRenamed" THEN New(t)' ELSE cur'[t]
                 /\ pc'[t] = "rcptWritten" => vis'[Rcpt(Seq1(t)')] = New(t)'
                 /\ pc'[t] = "rcptSynced" => may'[Rcpt(Seq1(t)')] = {New(t)'}
      <3>1. CASE t = s
        BY <1>1, <1>2, <1>3, <3>1 DEF WriterInv, TypeOK, New, Seq1
      <3>2. CASE t # s
        <4>1. pc'[t] = pc[t] /\ pc[t] \notin Committing
          BY <1>1, <1>2, <3>2 DEF TypeOK
        <4> QED BY <4>1 DEF Committing
      <3> QED BY <3>1, <3>2
    <2> QED BY <1>8, <2>1 DEF WriterInv, Rcpt
  <1> QED BY <1>4, <1>5, <1>6, <1>7, <1>9

(* A directory fsync only forgets what a power cut might have left. *)
LEMMA SyncBelowInv ==
    ASSUME IInv, NEW s \in Session,
           SyncDelta(s) \/ SyncRevision(s) \/ SyncReceipt(s)
    PROVE  IInv'
  <1> USE DEF IInv, memory, ghost
  <1>1. PICK dir \in {RevisionsDir, ReceiptsDir} :
            /\ SyncStep(s, pc[s], dir, pc'[s])
            /\ pc[s] \in Committing \ {"headRenamed", "rcptSynced"}
            /\ pc'[s] \in Committing \ {"headRenamed", "rcptWritten"}
            /\ pc'[s] = "rcptSynced" => dir = ReceiptsDir /\ pc[s] = "rcptWritten"
    BY DEF SyncDelta, SyncRevision, SyncReceipt, SyncStep, TypeOK, Committing
  <1> USE DEF SyncStep, SyncDir
  <1>2. /\ cur[s] \in History /\ New(s) \in History /\ vis[HEAD] = cur[s]
        /\ \A t \in Session : t # s => pc[t] \notin Committing
        /\ lock = s
        /\ Seq1(s) \in 1..MaxSeq
    BY <1>1, WriterFacts DEF WriterInv
  <1>3. /\ vis'[HEAD] = vis[HEAD] /\ may'[HEAD] = may[HEAD]
        /\ \A f \in File : vis'[f] \in may'[f] /\ may'[f] \in {may[f], {vis[f]}}
    BY <1>1, FileFacts DEF DiskInv, TypeOK
  <1>4. \A n \in 1..Len(vis[HEAD]) : may'[Rcpt(n)] = may[Rcpt(n)]
    <2>1. \A n \in 1..Len(vis[HEAD]) : n \in 1..MaxSeq
      <3>1. Len(vis[HEAD]) \in 0..MaxSeq
        BY HeadFacts
      <3> QED BY <3>1, CommitAssumption
    <2> QED BY <1>3, <2>1, FileFacts DEF DiskInv
  <1>5. TypeOK'
    BY <1>1, <1>3 DEF TypeOK, PC
  <1>6. DiskInv'
    BY <1>1, <1>3, <1>4 DEF DiskInv
  <1>7. SideInv'
    BY <1>1 DEF SideInv
  <1>8. SessionInv'
    BY <1>1 DEF SessionInv, Live, TypeOK, Committing
  <1>9. OneWriter'
    BY <1>1, <1>2, CommitAssumption DEF WriterInv, OneWriter, TypeOK
  <1>10. WriterInv'
    <2>1. ASSUME NEW t \in Session
          PROVE  /\ pc'[t] \in Committing =>
                     /\ req'[t] \in Batch
                     /\ req'[t].base = Len(cur'[t])
                     /\ Len(cur'[t]) < MaxSeq
                     /\ idx'[t][req'[t].key] = <<>>
                     /\ vis'[HEAD] = IF pc'[t] = "headRenamed" THEN New(t)' ELSE cur'[t]
                 /\ pc'[t] = "rcptWritten" => vis'[Rcpt(Seq1(t)')] = New(t)'
                 /\ pc'[t] = "rcptSynced" => may'[Rcpt(Seq1(t)')] = {New(t)'}
      <3>1. CASE t = s
        <4>1. pc'[s] = "rcptSynced" => may'[Rcpt(Seq1(s))] = {New(s)}
          BY <1>1, <1>2, FileFacts DEF WriterInv
        <4> QED BY <1>1, <1>2, <3>1, <4>1 DEF WriterInv, TypeOK, New, Seq1
      <3>2. CASE t # s
        <4>1. pc'[t] = pc[t] /\ pc[t] \notin Committing
          BY <1>1, <1>2, <3>2 DEF TypeOK
        <4> QED BY <4>1 DEF Committing
      <3> QED BY <3>1, <3>2
    <2> QED BY <1>9, <2>1 DEF WriterInv, Rcpt
  <1> QED BY <1>5, <1>6, <1>7, <1>8, <1>10

(* Publishing HEAD: the new history extends every one a power cut may      *)
(* leave, and its receipt was made durable before.                         *)
LEMMA RenameHeadInv ==
    ASSUME IInv, NEW s \in Session, RenameHead(s)
    PROVE  /\ IInv'
           /\ vis'[HEAD] = New(s) /\ may'[HEAD] = may[HEAD] \cup {New(s)}
           /\ vis[HEAD] = cur[s] /\ req[s].key \notin Keys(cur[s])
           /\ fresh' = fresh
  <1> USE DEF IInv, RenameHead, WriteStep, Rename, memory, ghost
  <1>1. pc[s] = "rcptSynced" /\ pc[s] \in Committing /\ pc' = [pc EXCEPT ![s] = "headRenamed"]
    BY DEF Committing
  <1>2. /\ cur[s] \in History /\ req[s] \in Batch /\ New(s) \in History
        /\ vis[HEAD] = cur[s] /\ lock = s
        /\ Len(New(s)) = Seq1(s) /\ Seq1(s) \in 1..MaxSeq
        /\ IsPrefix(cur[s], New(s))
        /\ \A t \in Session : t # s => pc[t] \notin Committing
    BY <1>1, WriterFacts DEF WriterInv
  <1>3. /\ vis'[HEAD] = New(s) /\ may'[HEAD] = may[HEAD] \cup {New(s)}
        /\ \A f \in File : f # HEAD => vis'[f] = vis[f] /\ may'[f] = may[f]
    BY FileFacts DEF TypeOK
  <1>4. req[s].key \notin Keys(cur[s])
    BY <1>1, <1>2 DEF WriterInv, SessionInv, Live, ExactFor, Batch
  <1>5. \A h \in History : IsPrefix(h, cur[s]) => IsPrefix(h, New(s))
    BY <1>2, PrefixTransitive DEF History
  <1>6. IsPrefix(New(s), New(s))
    BY <1>2, PrefixReflexive DEF History
  <1>7. TypeOK'
    BY <1>2, FileFacts DEF TypeOK, PC, Committing
  <1>8. DiskInv'
    <2>1. \A f \in File : vis'[f] \in may'[f]
      BY <1>3 DEF DiskInv
    <2>2. Len(vis'[HEAD]) <= MaxSeq
      BY <1>2, <1>3, CommitAssumption
    <2>3. Once(vis'[HEAD])
      BY <1>2, <1>3, <1>4, KeysOfAppend DEF DiskInv, New
    <2>4. \A h \in may'[HEAD] : IsPrefix(h, vis'[HEAD])
      BY <1>2, <1>3, <1>5, <1>6, HeadFacts DEF DiskInv
    <2>5. ASSUME NEW n \in 1..Len(vis'[HEAD])
          PROVE  may'[Rcpt(n)] = {SubSeq(vis'[HEAD], 1, n)}
      <3>1. /\ n \in 1..MaxSeq /\ n \in 1..Seq1(s)
            /\ may'[Rcpt(n)] = may[Rcpt(n)] /\ Len(cur[s]) \in Nat
        BY <1>2, <1>3, FileFacts, CommitAssumption, LenProperties DEF History
      <3>2. CASE n = Seq1(s)
        <4>1. SubSeq(New(s), 1, n) = New(s)
          BY <1>2, <3>2, SubSeqFull DEF History
        <4> QED BY <1>1, <1>3, <3>1, <3>2, <4>1 DEF WriterInv
      <3>3. CASE n # Seq1(s)
        <4>1. n \in 1..Len(cur[s]) /\ n \in 0..Len(cur[s])
          BY <3>1, <3>3 DEF Seq1
        <4>2. SubSeq(New(s), 1, n) = SubSeq(cur[s], 1, n)
          BY <1>2, <4>1, SubSeqOfPrefix
        <4> QED BY <1>2, <1>3, <3>1, <4>1, <4>2 DEF DiskInv
      <3> QED BY <3>2, <3>3
    <2>6. \A h \in fresh' : \A g \in may'[HEAD] : IsPrefix(h, g)
      <3>1. \A h \in fresh : h \in History /\ IsPrefix(h, cur[s])
        BY <1>2, HeadFacts DEF DiskInv, TypeOK
      <3> QED BY <1>3, <1>5, <3>1 DEF DiskInv
    <2> QED BY <2>1, <2>2, <2>3, <2>4, <2>5, <2>6 DEF DiskInv
  <1>9. SideInv'
    BY DEF SideInv
  <1>10. SessionInv'
    BY <1>1, <1>2, <1>3, <1>5 DEF SessionInv, Live, TypeOK, Committing
  <1>11. OneWriter'
    BY <1>1, <1>2 DEF WriterInv, OneWriter, TypeOK, Committing
  <1>12. WriterInv'
    BY <1>1, <1>2, <1>3, <1>11 DEF WriterInv, OneWriter, TypeOK, Committing, New, Seq1
  <1> QED BY <1>2, <1>3, <1>4, <1>7, <1>8, <1>9, <1>10, <1>12

LEMMA FinishCommitInv ==
    ASSUME IInv, NEW s \in Session, FinishCommit(s)
    PROVE  /\ IInv'
           /\ vis' = vis /\ vis[HEAD] # <<>>
           /\ may'[HEAD] = {vis[HEAD]}
           /\ fresh' = fresh \cup {vis[HEAD]}
  <1> USE DEF IInv
  <1>1. pc[s] = "headRenamed" /\ pc[s] \in Committing
    BY DEF FinishCommit, Committing
  <1>2. /\ cur[s] \in History /\ req[s] \in Batch /\ New(s) \in History
        /\ vis[HEAD] = New(s) /\ lock = s /\ New(s) # <<>>
        /\ \A t \in Session : t # s => pc[t] \notin Committing
        /\ Once(cur[s])
    BY <1>1, WriterFacts, RecordFacts DEF WriterInv, SessionInv
  <1>3. IsPrefix(New(s), New(s))
    BY <1>2, PrefixReflexive DEF History
  <1>4. /\ vis' = vis /\ may'[HEAD] = {vis[HEAD]}
        /\ \A f \in File : f # HEAD => may'[f] = may[f]
        /\ may' \in [File -> SUBSET History]
        /\ fresh' = fresh \cup {New(s)}
    BY <1>2, FileFacts DEF FinishCommit, SyncRoot, SyncDir, RootDir, TypeOK
  <1>5. /\ idx[s] \in Index /\ ExactFor(idx[s], cur[s]) /\ idx[s][req[s].key] = <<>>
    BY <1>1 DEF WriterInv, SessionInv, Live, TypeOK
  <1>6. /\ idx' = [idx EXCEPT ![s] = idx'[s]]
        /\ idx'[s] = [idx[s] EXCEPT ![req[s].key] = New(s)]
    BY DEF FinishCommit, TypeOK
  <1>7. idx'[s] \in Index /\ ExactFor(idx'[s], New(s)) /\ Once(New(s))
    BY ONLY <1>2, <1>5, <1>6, AppendExact DEF New
  <1>8. SideInv' /\ side' \in Sidecar /\ sideMay' \subseteq Sidecar
    <2>0. {side} \in SUBSET sideMay
      BY DEF SideInv
    <2>1. CASE PublishSidecar(New(s), idx'[s], {side})
      BY <1>2, <1>7, <2>0, <2>1, PublishSidecarInv
    <2>2. CASE side' = side /\ sideMay' = {side}
      BY <2>2 DEF SideInv, TypeOK
    <2> QED BY <2>1, <2>2 DEF FinishCommit
  <1>9. TypeOK'
    BY <1>2, <1>4, <1>6, <1>7, <1>8 DEF TypeOK, FinishCommit, PC
  <1>10. DiskInv'
    <2>1. \A f \in File : vis'[f] \in may'[f]
      BY <1>4 DEF DiskInv
    <2>2. \A h \in may'[HEAD] : IsPrefix(h, vis'[HEAD])
      BY <1>2, <1>3, <1>4
    <2>3. \A n \in 1..Len(vis'[HEAD]) : may'[Rcpt(n)] = {SubSeq(vis'[HEAD], 1, n)}
      <3>1. \A n \in 1..Len(vis[HEAD]) : n \in 1..MaxSeq
        <4>1. Len(vis[HEAD]) \in 0..MaxSeq
          BY HeadFacts
        <4> QED BY <4>1, CommitAssumption
      <3> QED BY <1>4, <3>1, FileFacts DEF DiskInv
    <2>4. \A h \in fresh' : \A g \in may'[HEAD] : IsPrefix(h, g)
      BY <1>2, <1>3, <1>4, HeadFacts DEF DiskInv
    <2> QED BY <1>4, <2>1, <2>2, <2>3, <2>4 DEF DiskInv
  <1>11. SessionInv'
    <2>1. ASSUME NEW t \in Session
          PROVE  /\ pc'[t] # "closed" => IsPrefix(cur'[t], vis'[HEAD])
                 /\ Live(t)' => ExactFor(idx'[t], cur'[t])
      <3>1. CASE t = s
        BY <1>2, <1>3, <1>4, <1>7, <3>1 DEF FinishCommit, TypeOK
      <3>2. CASE t # s
        <4>1. pc'[t] = pc[t] /\ cur'[t] = cur[t] /\ idx'[t] = idx[t]
          BY <1>6, <3>2 DEF FinishCommit, TypeOK
        <4> QED BY <1>4, <4>1 DEF SessionInv, Live
      <3> QED BY <3>1, <3>2
    <2> QED BY <2>1 DEF SessionInv
  <1>12. WriterInv'
    <2>1. pc' = [pc EXCEPT ![s] = "ready"] /\ lock' = NoOne
      BY DEF FinishCommit
    <2>2. \A t \in Session : pc'[t] \notin Committing /\ lock' # t
      BY <1>2, <2>1, CommitAssumption DEF TypeOK, Committing
    <2> QED BY <2>2 DEF WriterInv, OneWriter, Committing
  <1> QED BY <1>2, <1>4, <1>8, <1>9, <1>10, <1>11, <1>12

(* The root directory is fsynced for something other than a commit. *)
LEMMA SyncRootAsideInv ==
    ASSUME IInv, NEW s \in Session, SyncRootAside(s)
    PROVE  IInv' /\ vis' = vis /\ may'[HEAD] = {vis[HEAD]} /\ fresh' = fresh
  <1> USE DEF IInv, SyncRootAside, memory, ghost
  <1>1. /\ DiskInv' /\ may' \in [File -> SUBSET History]
        /\ may'[HEAD] = {vis[HEAD]}
        /\ \A f \in File : f # HEAD => may'[f] = may[f]
    BY SyncRootFacts
  <1>2. TypeOK'
    BY <1>1 DEF TypeOK, SideInv
  <1>3. SideInv' /\ SessionInv'
    BY DEF SideInv, SessionInv, Live
  <1>4. \A t \in Session : pc[t] \in Committing => may'[Rcpt(Seq1(t))] = may[Rcpt(Seq1(t))]
    BY <1>1, WriterFacts, FileFacts
  <1>5. WriterInv'
    BY <1>4 DEF WriterInv, OneWriter, Committing, New, Seq1
  <1> QED BY <1>1, <1>2, <1>3, <1>5

LEMMA IoErrorInv ==
    ASSUME IInv, NEW s \in Session, IoError(s)
    PROVE  IInv'
  <1> USE DEF IInv, IoError, Abort, Fail, disk, ghost
  <1>1. \A t \in Session : t # s => pc[t] \notin Committing
    BY WriterFacts
  <1>2. TypeOK'
    BY CommitAssumption DEF TypeOK, PC
  <1>3. DiskInv' /\ SideInv'
    BY DEF DiskInv, SideInv
  <1>4. SessionInv'
    BY DEF SessionInv, Live, TypeOK, Committing
  <1>5. \A t \in Session : pc'[t] \notin Committing /\ lock' # t
    BY <1>1, CommitAssumption DEF TypeOK, Committing
  <1> QED BY <1>2, <1>3, <1>4, <1>5 DEF WriterInv, OneWriter, Committing

(* Compaction never touches HEAD or a receipt. *)
LEMMA CompactHistoryInv ==
    ASSUME IInv, NEW s \in Session, CompactHistory(s)
    PROVE  IInv' /\ vis'[HEAD] = vis[HEAD] /\ may'[HEAD] = may[HEAD] /\ fresh' = fresh
  <1> USE DEF IInv, memory, ghost
  <1>1. PICK files : /\ \A f \in files : \E n : f = Rev(n) \/ f = Delta(n)
                     /\ vis' = [f \in File |-> IF f \in files THEN <<>> ELSE vis[f]]
                     /\ may' = [f \in File |-> IF f \in files THEN may[f] \cup {<<>>}
                                                              ELSE may[f]]
    <2>1. PICK gone :
              LET files == { Rev(n) : n \in gone } \cup { Delta(n) : n \in gone }
              IN  /\ vis' = [f \in File |-> IF f \in files THEN <<>> ELSE vis[f]]
                  /\ may' = [f \in File |-> IF f \in files THEN may[f] \cup {<<>>}
                                                           ELSE may[f]]
      BY DEF CompactHistory, Compactable
    <2> DEFINE fs == { Rev(n) : n \in gone } \cup { Delta(n) : n \in gone }
    <2>2. \A f \in fs : \E n : f = Rev(n) \/ f = Delta(n)
      OBVIOUS
    <2> HIDE DEF fs
    <2>3. /\ vis' = [f \in File |-> IF f \in fs THEN <<>> ELSE vis[f]]
          /\ may' = [f \in File |-> IF f \in fs THEN may[f] \cup {<<>>} ELSE may[f]]
      BY <2>1 DEF fs
    <2> QED BY <2>2, <2>3
  <1>2. HEAD \notin files /\ \A n : Rcpt(n) \notin files
    BY <1>1, FileFacts
  <1>3. /\ vis'[HEAD] = vis[HEAD] /\ may'[HEAD] = may[HEAD]
        /\ \A n \in 1..MaxSeq : vis'[Rcpt(n)] = vis[Rcpt(n)] /\ may'[Rcpt(n)] = may[Rcpt(n)]
    BY <1>1, <1>2, FileFacts
  <1>4. TypeOK'
    BY <1>1, EmptyExact DEF TypeOK, CompactHistory
  <1>5. DiskInv'
    <2>1. \A f \in File : vis'[f] \in may'[f]
      BY <1>1 DEF DiskInv
    <2>2. \A n \in 1..Len(vis[HEAD]) : n \in 1..MaxSeq
      <3>1. Len(vis[HEAD]) \in 0..MaxSeq
        BY HeadFacts
      <3> QED BY <3>1, CommitAssumption
    <2> QED BY <1>3, <2>1, <2>2 DEF DiskInv, CompactHistory
  <1>6. SideInv'
    BY DEF SideInv, CompactHistory
  <1>7. SessionInv'
    BY <1>3 DEF SessionInv, Live, CompactHistory
  <1>8. \A t \in Session : pc'[t] \notin Committing /\ lock' # t
    BY CommitAssumption DEF WriterInv, OneWriter, CompactHistory
  <1>9. WriterInv'
    BY <1>8 DEF WriterInv, OneWriter, Committing
  <1> QED BY <1>3, <1>4, <1>5, <1>6, <1>7, <1>9 DEF CompactHistory

LEMMA ExitInv ==
    ASSUME IInv, NEW s \in Session, Exit(s)
    PROVE  IInv'
  <1> USE DEF IInv, Exit, Fail, disk, ghost
  <1>1. TypeOK'
    BY EmptyExact, CommitAssumption DEF TypeOK, PC
  <1>2. DiskInv' /\ SideInv'
    BY DEF DiskInv, SideInv
  <1>3. SessionInv'
    BY DEF SessionInv, Live, TypeOK, Committing
  <1>4. OneWriter'
    BY CommitAssumption DEF WriterInv, OneWriter, TypeOK, Committing
  <1>5. WriterInv'
    BY <1>4 DEF WriterInv, TypeOK, Committing, New, Seq1
  <1> QED BY <1>1, <1>2, <1>3, <1>5

(* A power cut leaves HEAD naming a prefix of what it named, with every    *)
(* receipt of that prefix.                                                 *)
LEMMA PowerLossInv ==
    ASSUME IInv, PowerLoss
    PROVE  /\ IInv'
           /\ vis'[HEAD] \in may[HEAD] /\ may'[HEAD] = {vis'[HEAD]}
           /\ fresh' = fresh
  <1> USE DEF IInv, ghost
  <1>1. /\ \A f \in File : vis'[f] \in may[f] /\ may'[f] = {vis'[f]}
        /\ vis' \in [File -> History]
        /\ may' \in [File -> SUBSET History]
    <2>1. PICK left \in [Unsettled -> UNION { may[f] : f \in Unsettled }] :
              /\ \A f \in Unsettled : left[f] \in may[f]
              /\ vis' = [f \in File |-> IF f \in Unsettled THEN left[f] ELSE vis[f]]
      BY DEF PowerLoss
    <2>2. \A f \in File : vis'[f] \in may[f]
      BY <2>1 DEF DiskInv
    <2>3. vis' \in [File -> History]
      BY <2>1, <2>2 DEF TypeOK
    <2> QED BY <2>2, <2>3 DEF PowerLoss
  <1>2. /\ vis'[HEAD] \in may[HEAD] /\ may'[HEAD] = {vis'[HEAD]}
        /\ vis'[HEAD] \in History /\ IsPrefix(vis'[HEAD], vis[HEAD])
    BY <1>1, FileFacts, HeadFacts DEF DiskInv
  <1>3. /\ Len(vis'[HEAD]) \in Nat /\ Len(vis'[HEAD]) <= Len(vis[HEAD])
        /\ Len(vis[HEAD]) \in 0..MaxSeq
    BY <1>2, HeadFacts, PrefixPointwise, LenProperties DEF History
  <1>4. \A n \in 1..Len(vis'[HEAD]) : /\ n \in 1..Len(vis[HEAD])
                                      /\ n \in 1..MaxSeq
                                      /\ n \in 0..Len(vis'[HEAD])
    BY <1>3, CommitAssumption
  <1>5. NoSidecar \in Sidecar /\ ~NoSidecar.present
    BY EmptyExact DEF NoSidecar, Sidecar
  <1>6. TypeOK'
    BY <1>1, <1>5, EmptyExact, CommitAssumption DEF TypeOK, PowerLoss, PC, Fail
  <1>7. DiskInv'
    <2>1. \A f \in File : vis'[f] \in may'[f]
      BY <1>1
    <2>2. Len(vis'[HEAD]) <= MaxSeq
      BY <1>3, CommitAssumption
    <2>3. Once(vis'[HEAD])
      BY <1>2, RecordFacts
    <2>4. \A h \in may'[HEAD] : IsPrefix(h, vis'[HEAD])
      BY <1>2, PrefixReflexive DEF History
    <2>5. ASSUME NEW n \in 1..Len(vis'[HEAD])
          PROVE  may'[Rcpt(n)] = {SubSeq(vis'[HEAD], 1, n)}
      <3>1. SubSeq(vis'[HEAD], 1, n) = SubSeq(vis[HEAD], 1, n)
        BY <1>2, <1>4, HeadFacts, SubSeqOfPrefix
      <3>2. may[Rcpt(n)] = {SubSeq(vis[HEAD], 1, n)}
        BY <1>4 DEF DiskInv
      <3> QED BY <1>1, <1>4, <3>1, <3>2, FileFacts
    <2>6. \A h \in fresh' : \A g \in may'[HEAD] : IsPrefix(h, g)
      BY <1>2 DEF DiskInv, PowerLoss
    <2> QED BY <2>1, <2>2, <2>3, <2>4, <2>5, <2>6 DEF DiskInv
  <1>8. SideInv'
    BY <1>5 DEF SideInv, PowerLoss
  <1>9. \A t \in Session : pc'[t] = "closed" /\ lock' # t
    BY CommitAssumption DEF PowerLoss
  <1>10. SessionInv' /\ WriterInv'
    BY <1>9 DEF SessionInv, WriterInv, OneWriter, Live, Committing
  <1> QED BY <1>2, <1>6, <1>7, <1>8, <1>10 DEF PowerLoss

-----------------------------------------------------------------------------
LEMMA NextInv == IInv /\ [Next]_vars => IInv'
  <1> SUFFICES ASSUME IInv, [Next]_vars PROVE IInv'
    OBVIOUS
  <1>1. CASE UNCHANGED vars
    <2> USE <1>1 DEF IInv, vars, disk, memory, ghost
    <2>1. TypeOK'
      BY DEF TypeOK
    <2>2. DiskInv' /\ SideInv'
      BY DEF DiskInv, SideInv
    <2>3. SessionInv' /\ WriterInv'
      BY DEF SessionInv, WriterInv, Live, OneWriter, New, Seq1
    <2> QED BY <2>1, <2>2, <2>3
  <1>2. ASSUME NEW s \in Session, ReadHead(s) PROVE IInv'
    BY <1>2, ReadHeadInv
  <1>3. ASSUME NEW s \in Session, OpenStep(s) \/ UpgradeFails(s) PROVE IInv'
    BY <1>3, LoadSessionInv, OpenFailsInv, UpgradeIndexInv, UpgradeFailsInv DEF OpenStep
  <1>4. ASSUME NEW s \in Session, RebuildIndex(s) PROVE IInv'
    BY <1>4, RebuildIndexInv
  <1>5. ASSUME NEW s \in Session, NEW b \in Batch, Replay(s, b) \/ Stage(s, b) PROVE IInv'
    BY <1>5, ReplayInv, StageInv
  <1>6. ASSUME NEW s \in Session, CommitStep(s) PROVE IInv'
    BY <1>6, FlushInv, WriteBelowInv, SyncBelowInv, RenameHeadInv, FinishCommitInv
    DEF CommitStep
  <1>7. ASSUME NEW s \in Session,
               IoError(s) \/ CompactHistory(s) \/ SyncRootAside(s) \/ Exit(s)
        PROVE  IInv'
    BY <1>7, IoErrorInv, CompactHistoryInv, SyncRootAsideInv, ExitInv
  <1>8. ASSUME PowerLoss PROVE IInv'
    BY <1>8, PowerLossInv
  <1> QED BY <1>1, <1>2, <1>3, <1>4, <1>5, <1>6, <1>7, <1>8 DEF Next

(* The inductive invariant holds in every reachable state. *)
THEOREM Invariance == Spec => []IInv
  BY InitInv, NextInv, PTL DEF Spec

(* Every variable keeps its type, for any constants. *)
THEOREM TypeCorrect == Spec => []TypeOK
  <1>1. IInv => TypeOK
    BY DEF IInv
  <1> QED BY Invariance, <1>1, PTL

(* apply_batch commits an idempotency key at most once, in whatever        *)
(* history HEAD names now or after a power cut.                            *)
THEOREM ExactlyOnceCorrect == Spec => []ExactlyOnce
  <1>1. IInv => ExactlyOnce
    <2> SUFFICES ASSUME IInv, NEW h \in may[HEAD] PROVE Once(h)
      BY DEF ExactlyOnce, Once
    <2>1. h \in History /\ IsPrefix(h, vis[HEAD])
      BY HeadFacts DEF IInv, DiskInv
    <2> QED BY <2>1, RecordFacts
  <1> QED BY Invariance, <1>1, PTL

(* The receipts of every history HEAD may name are durable. *)
THEOREM ReceiptsDurableCorrect == Spec => []ReceiptsDurable
  <1>1. IInv => ReceiptsDurable
    <2> SUFFICES ASSUME IInv, NEW h \in may[HEAD], NEW n \in 1..Len(h)
                 PROVE  may[Rcpt(n)] = {SubSeq(h, 1, n)}
      BY DEF ReceiptsDurable
    <2>1. h \in History /\ IsPrefix(h, vis[HEAD]) /\ vis[HEAD] \in History
      BY HeadFacts DEF IInv, DiskInv
    <2>2. Len(h) \in Nat /\ Len(vis[HEAD]) \in Nat /\ Len(h) <= Len(vis[HEAD])
      BY <2>1, PrefixPointwise, LenProperties DEF History
    <2>3. n \in 1..Len(vis[HEAD]) /\ n \in 0..Len(h)
      BY <2>2
    <2>4. SubSeq(h, 1, n) = SubSeq(vis[HEAD], 1, n)
      BY <2>1, <2>3, SubSeqOfPrefix
    <2> QED BY <2>3, <2>4 DEF IInv, DiskInv
  <1> QED BY Invariance, <1>1, PTL

(* A session's current revision is on the history HEAD names. *)
THEOREM SessionOnHistoryCorrect == Spec => []SessionOnHistory
  <1>1. IInv => SessionOnHistory
    BY DEF IInv, SessionInv, SessionOnHistory
  <1> QED BY Invariance, <1>1, PTL

(* However it was obtained, a session's idempotency index is exact. *)
THEOREM IndexExactCorrect == Spec => []IndexExact
  <1>1. IInv => IndexExact
    BY DEF IInv, SessionInv, IndexExact, ExactFor
  <1> QED BY Invariance, <1>1, PTL

(* A commit that was acknowledged as new survives every power cut. *)
THEOREM FreshAckDurableCorrect == Spec => []FreshAckDurable
  <1>1. IInv => FreshAckDurable
    BY DEF IInv, DiskInv, FreshAckDurable
  <1> QED BY Invariance, <1>1, PTL

-----------------------------------------------------------------------------
(* Steps that change nothing the abstract log shows. *)
LEMMA HiddenStep ==
    ASSUME IInv, NEW s \in Session,
           \/ ReadHead(s) \/ LoadSession(s) \/ OpenFails(s) \/ UpgradeFails(s)
           \/ RebuildIndex(s)
           \/ \E b \in Batch : Replay(s, b) \/ Stage(s, b)
           \/ FlushNothing(s) \/ FlushPack(s) \/ FlushLatched(s)
           \/ WriteDelta(s) \/ WriteRevision(s) \/ WriteReceipt(s)
           \/ SyncDelta(s) \/ SyncRevision(s) \/ SyncReceipt(s)
           \/ IoError(s) \/ CompactHistory(s) \/ Exit(s)
    PROVE  vis'[HEAD] = vis[HEAD] /\ may'[HEAD] = may[HEAD] /\ fresh' = fresh
  <1> USE DEF disk, ghost
  <1>1. CASE ReadHead(s) \/ LoadSession(s) \/ OpenFails(s) \/ UpgradeFails(s)
             \/ RebuildIndex(s)
    BY <1>1 DEF ReadHead, LoadSession, OpenFails, UpgradeFails, RebuildIndex
  <1>2. CASE \E b \in Batch : Replay(s, b) \/ Stage(s, b)
    BY <1>2 DEF Replay, Stage
  <1>3. CASE FlushNothing(s) \/ FlushPack(s) \/ FlushLatched(s)
    BY <1>3 DEF FlushNothing, FlushPack, FlushLatched
  <1>4. CASE WriteDelta(s) \/ WriteRevision(s) \/ WriteReceipt(s)
    BY <1>4, FileFacts
    DEF WriteDelta, WriteRevision, WriteReceipt, WriteStep, Rename, IInv, TypeOK
  <1>5. CASE SyncDelta(s) \/ SyncRevision(s) \/ SyncReceipt(s)
    BY <1>5, FileFacts
    DEF SyncDelta, SyncRevision, SyncReceipt, SyncStep, SyncDir, IInv, TypeOK
  <1>6. CASE IoError(s) \/ Exit(s)
    BY <1>6 DEF IoError, Exit
  <1>7. CASE CompactHistory(s)
    BY <1>7, CompactHistoryInv
  <1> QED BY <1>1, <1>2, <1>3, <1>4, <1>5, <1>6, <1>7

(* Steps that may fsync the root directory beside a commit. *)
LEMMA SettlingStep ==
    ASSUME IInv, NEW s \in Session, UpgradeIndex(s) \/ SyncObjects(s) \/ SyncRootAside(s)
    PROVE  /\ vis'[HEAD] = vis[HEAD] /\ fresh' = fresh
           /\ may'[HEAD] = may[HEAD] \/ may'[HEAD] = {vis[HEAD]}
  <1>1. vis' = vis /\ fresh' = fresh /\ (UNCHANGED may \/ SyncRoot)
    BY DEF UpgradeIndex, SyncObjects, SyncRootAside, ghost
  <1> QED BY <1>1, SyncRootFacts

LEMMA LogStep == IInv /\ [Next]_vars => [Log!Next]_(Log!vars)
  <1> SUFFICES ASSUME IInv, [Next]_vars PROVE [Log!Next]_(Log!vars)
    OBVIOUS
  <1> USE DEF Log!vars
  <1>1. CASE UNCHANGED vars
    BY <1>1 DEF vars, disk, ghost
  <1>2. ASSUME NEW s \in Session, RenameHead(s) PROVE Log!Publish
    <2>1. /\ vis'[HEAD] = Append(vis[HEAD], req[s])
          /\ may'[HEAD] = may[HEAD] \cup {vis'[HEAD]}
          /\ req[s].key \notin Keys(vis[HEAD])
          /\ fresh' = fresh /\ vis[HEAD] = cur[s]
      BY <1>2, RenameHeadInv DEF New
    <2>2. pc[s] \in Committing
      BY <1>2 DEF RenameHead, WriteStep, Committing
    <2>3. req[s] \in Batch /\ req[s].base = Len(vis[HEAD]) /\ Len(vis[HEAD]) < MaxSeq
      BY <2>1, <2>2 DEF IInv, WriterInv
    <2> QED BY <2>1, <2>3 DEF Log!Publish, Log!Keys, Keys
  <1>3. ASSUME NEW s \in Session, FinishCommit(s) PROVE Log!Acknowledge
    BY <1>3, FinishCommitInv DEF Log!Acknowledge
  <1>4. ASSUME PowerLoss PROVE Log!PowerLoss
    BY <1>4, PowerLossInv DEF Log!PowerLoss
  <1>5. ASSUME NEW s \in Session,
               \/ ReadHead(s) \/ LoadSession(s) \/ OpenFails(s) \/ UpgradeFails(s)
               \/ RebuildIndex(s)
               \/ \E b \in Batch : Replay(s, b) \/ Stage(s, b)
               \/ FlushNothing(s) \/ FlushPack(s) \/ FlushLatched(s)
               \/ WriteDelta(s) \/ WriteRevision(s) \/ WriteReceipt(s)
               \/ SyncDelta(s) \/ SyncRevision(s) \/ SyncReceipt(s)
               \/ IoError(s) \/ CompactHistory(s) \/ Exit(s)
        PROVE  UNCHANGED Log!vars
    BY <1>5, HiddenStep
  <1>6. ASSUME NEW s \in Session, UpgradeIndex(s) \/ SyncObjects(s) \/ SyncRootAside(s)
        PROVE  Log!Settle \/ UNCHANGED Log!vars
    BY <1>6, SettlingStep DEF Log!Settle
  <1> QED BY <1>1, <1>2, <1>3, <1>4, <1>5, <1>6 DEF Next, CommitStep, OpenStep, Log!Next

(* The commit protocol implements the append-only, exactly-once log. *)
THEOREM LogImplemented == Spec => ImplementsLog
  <1>1. Init => Log!Init
    BY FileFacts DEF Init, Log!Init
  <1> QED BY <1>1, LogStep, Invariance, PTL DEF Spec, ImplementsLog, Log!Spec
-----------------------------------------------------------------------------
(* What a crash that is not a power cut leaves behind.  A second invariant, *)
(* on top of IInv: the nodes a store knows are in a published pack, the     *)
(* files a commit has written so far, and, as long as the machine has power, *)
(* that HEAD's revision is complete.                                       *)

StoresKnow == \A s \in Session : seen[s] \subseteq objs

(* By the time a commit renames HEAD, its pack, its decision delta and its  *)
(* revision record are there, and both files are durable.                  *)
WrittenBy(s) ==
    /\ pc[s] \in Committing \ {"staged"} => New(s) \in objs
    /\ pc[s] = "deltaWritten" => vis[Delta(Seq1(s))] = New(s)
    /\ pc[s] \in {"deltaSynced", "revWritten", "revSynced", "rcptWritten", "rcptSynced"} =>
          may[Delta(Seq1(s))] = {New(s)}
    /\ pc[s] = "revWritten" => vis[Rev(Seq1(s))] = New(s)
    /\ pc[s] \in {"revSynced", "rcptWritten", "rcptSynced"} => may[Rev(Seq1(s))] = {New(s)}

WrittenInv == \A s \in Session : WrittenBy(s)

Complete(h) ==
    /\ Reachable(h) \subseteq objs
    /\ h # <<>> => may[Rev(Len(h))] = {h} /\ may[Delta(Len(h))] = {h}

SteadyInv ==
    power = "steady" => Complete(vis[HEAD]) /\ \A h \in replayed : IsPrefix(h, vis[HEAD])

CrashInv == StoresKnow /\ WrittenInv /\ SteadyInv

(* The records and deltas are files apart. *)
LEMMA RecordFiles ==
    /\ \A n \in 1..MaxSeq : /\ Rev(n) \in RevisionsDir /\ Delta(n) \in RevisionsDir
                            /\ Rev(n) \notin ReceiptsDir /\ Delta(n) \notin ReceiptsDir
                            /\ Rev(n) \notin RootDir /\ Delta(n) \notin RootDir
    /\ \A m, n : /\ Rev(m) # Delta(n)
                 /\ Rev(m) = Rev(n) => m = n
                 /\ Delta(m) = Delta(n) => m = n
  BY DEF HEAD, Rcpt, Rev, Delta, RootDir, RevisionsDir, ReceiptsDir

(* The bundles of the empty history, and of one more revision. *)
LEMMA ReachableAppend ==
    /\ Reachable(<<>>) = {}
    /\ \A h \in History, b \in Batch :
          Reachable(Append(h, b)) = Reachable(h) \cup {Append(h, b)}
  <1>1. Reachable(<<>>) = {}
    BY DEF Reachable
  <1>2. ASSUME NEW h \in History, NEW b \in Batch
        PROVE  Reachable(Append(h, b)) = Reachable(h) \cup {Append(h, b)}
    <2> DEFINE g == Append(h, b)
    <2>1. /\ g \in History /\ Len(h) \in Nat /\ Len(g) = Len(h) + 1 /\ IsPrefix(h, g)
      BY AppendFacts, LenProperties DEF History
    <2> HIDE DEF g
    <2>2. \A n \in 1..Len(h) : SubSeq(g, 1, n) = SubSeq(h, 1, n)
      <3>1. \A n \in 1..Len(h) : n \in 0..Len(h)
        BY <2>1
      <3> QED BY <2>1, <3>1, SubSeqOfPrefix
    <2>3. SubSeq(g, 1, Len(h) + 1) = g
      BY <2>1, SubSeqFull DEF History
    <2>4. 1..Len(g) = (1..Len(h)) \cup {Len(h) + 1}
      BY <2>1
    <2>5. Reachable(g) = Reachable(h) \cup {g}
      BY <2>2, <2>3, <2>4 DEF Reachable
    <2> QED BY <2>5 DEF g
  <1> QED BY <1>1, <1>2

(* HEAD's revision stays complete when its files are kept or made durable. *)
LEMMA CompleteKept ==
    ASSUME IInv, Complete(vis[HEAD]), vis'[HEAD] = vis[HEAD], objs \subseteq objs',
           \A f \in {Rev(Len(vis[HEAD])), Delta(Len(vis[HEAD]))} \cap File :
              may'[f] = may[f] \/ may'[f] = {vis[f]}
    PROVE  Complete(vis[HEAD])'
  <1> DEFINE h == vis[HEAD]
  <1>1. h \in History /\ Len(h) \in 0..MaxSeq
    BY HeadFacts
  <1>2. h # <<>> => Len(h) \in 1..MaxSeq
    BY <1>1, EmptySeq, CommitAssumption DEF History
  <1>3. h # <<>> => Rev(Len(h)) \in File /\ Delta(Len(h)) \in File
    BY <1>2, FileFacts
  <1>4. h # <<>> => may'[Rev(Len(h))] = {h} /\ may'[Delta(Len(h))] = {h}
    BY <1>3 DEF Complete, IInv, DiskInv
  <1>5. vis'[HEAD] = h
    OBVIOUS
  <1> QED BY <1>4, <1>5 DEF Complete, Reachable, Rev, Delta

(* A step that writes no file of a commit, and of no session a commit in    *)
(* progress: directory fsyncs, new packs and sessions opening, closing,     *)
(* beginning or giving up a commit.                                        *)
LEMMA QuietCrashInv ==
    ASSUME IInv, CrashInv, vis' = vis, objs \subseteq objs', replayed' = replayed, power' = power,
           \A f \in File : may'[f] = may[f] \/ may'[f] = {vis[f]},
           \A s \in Session : seen'[s] \subseteq objs',
           \A s \in Session : pc'[s] \in Committing \ {"staged"} =>
              pc'[s] = pc[s] /\ cur'[s] = cur[s] /\ req'[s] = req[s]
    PROVE  CrashInv'
  <1>1. StoresKnow'
    BY DEF StoresKnow
  <1>2. \A f \in File : vis[f] \in may[f]
    BY DEF IInv, DiskInv
  <1>3. ASSUME NEW s \in Session PROVE WrittenBy(s)'
    <2>1. CASE pc'[s] \in Committing \ {"staged"}
      <3>1. pc'[s] = pc[s] /\ New(s)' = New(s) /\ Seq1(s)' = Seq1(s) /\ pc[s] \in Committing
        BY <2>1 DEF New, Seq1
      <3>2. WrittenBy(s) /\ Seq1(s) \in 1..MaxSeq
        BY <3>1, WriterFacts DEF CrashInv, WrittenInv
      <3>3. Delta(Seq1(s)) \in File /\ Rev(Seq1(s)) \in File
        BY <3>2, FileFacts
      <3>4. /\ vis'[Delta(Seq1(s))] = vis[Delta(Seq1(s))] /\ vis'[Rev(Seq1(s))] = vis[Rev(Seq1(s))]
            /\ may[Delta(Seq1(s))] = {New(s)} => may'[Delta(Seq1(s))] = {New(s)}
            /\ may[Rev(Seq1(s))] = {New(s)} => may'[Rev(Seq1(s))] = {New(s)}
        BY <1>2, <3>3
      <3>5. Delta(Seq1(s))' = Delta(Seq1(s)) /\ Rev(Seq1(s))' = Rev(Seq1(s))
        BY <3>1 DEF Delta, Rev
      <3> QED BY <3>1, <3>2, <3>4, <3>5 DEF WrittenBy
    <2>2. CASE pc'[s] \notin Committing \ {"staged"}
      BY <2>2 DEF WrittenBy, Committing
    <2> QED BY <2>1, <2>2
  <1>4. SteadyInv'
    BY CompleteKept DEF SteadyInv, CrashInv
  <1> QED BY <1>1, <1>3, <1>4 DEF CrashInv, WrittenInv

LEMMA SessionsCrashInv ==
    ASSUME IInv, CrashInv, NEW s \in Session,
           \/ ReadHead(s) \/ OpenStep(s) \/ UpgradeFails(s) \/ RebuildIndex(s)
           \/ (\E b \in Batch : Stage(s, b)) \/ FlushLatched(s) \/ FinishCommit(s)
           \/ IoError(s) \/ SyncRootAside(s) \/ Exit(s)
    PROVE  CrashInv'
  <1> USE DEF disk, memory, ghost, IInv, TypeOK
  <1>1. vis' = vis /\ objs' = objs /\ replayed' = replayed /\ power' = power
    BY DEF ReadHead, OpenStep, LoadSession, OpenFails, UpgradeIndex, UpgradeFails, RebuildIndex,
           Stage, FlushLatched, FinishCommit, IoError, SyncRootAside, Exit
  <1>2. may' = may \/ SyncRoot
    BY DEF ReadHead, OpenStep, LoadSession, OpenFails, UpgradeIndex, UpgradeFails, RebuildIndex,
           Stage, FlushLatched, FinishCommit, IoError, SyncRootAside, Exit
  <1>3. \A f \in File : may'[f] = may[f] \/ may'[f] = {vis[f]}
    BY <1>2 DEF SyncRoot, SyncDir
  <1>4. seen' = seen \/ seen' = [seen EXCEPT ![s] = objs] \/ seen' = [seen EXCEPT ![s] = {}]
    BY DEF ReadHead, OpenStep, LoadSession, OpenFails, UpgradeIndex, UpgradeFails, RebuildIndex,
           Stage, FlushLatched, FinishCommit, IoError, SyncRootAside, Exit
  <1>5. \A t \in Session : seen'[t] \subseteq objs'
    BY <1>1, <1>4 DEF CrashInv, StoresKnow
  <1>6. \/ pc' = pc /\ cur' = cur /\ req' = req
        \/ /\ \A t \in Session : t # s => pc'[t] = pc[t] /\ cur'[t] = cur[t] /\ req'[t] = req[t]
           /\ pc'[s] \notin Committing \ {"staged"}
    <2>1. CASE ReadHead(s) \/ OpenStep(s) \/ UpgradeFails(s)
      BY <2>1 DEF ReadHead, OpenStep, LoadSession, OpenFails, UpgradeIndex, UpgradeFails, Committing
    <2>2. CASE RebuildIndex(s) \/ SyncRootAside(s)
      BY <2>2 DEF RebuildIndex, SyncRootAside
    <2>3. CASE (\E b \in Batch : Stage(s, b)) \/ FlushLatched(s) \/ FinishCommit(s) \/ IoError(s) \/ Exit(s)
      BY <2>3 DEF Stage, FlushLatched, FinishCommit, IoError, Exit, Abort, Committing
    <2> QED BY <2>1, <2>2, <2>3
  <1>7. \A t \in Session : pc'[t] \in Committing \ {"staged"} =>
              pc'[t] = pc[t] /\ cur'[t] = cur[t] /\ req'[t] = req[t]
    BY <1>6
  <1> QED BY <1>1, <1>3, <1>5, <1>7, QuietCrashInv

(* A replayed receipt is for a history the session, and so HEAD, is on. *)
LEMMA ReplayCrashInv ==
    ASSUME IInv, CrashInv, NEW s \in Session, NEW b \in Batch, Replay(s, b)
    PROVE  CrashInv'
  <1> USE DEF Replay, disk, memory
  <1>1. /\ StoresKnow' /\ WrittenInv'
    BY DEF CrashInv, StoresKnow, WrittenInv, WrittenBy, New, Seq1, Delta, Rev
  <1>2. IsPrefix(idx[s][b.key], vis[HEAD])
    <2>1. /\ b.key \in Key /\ idx[s] \in Index /\ cur[s] \in History
          /\ idx[s][b.key] # <<>> /\ pc[s] = "ready"
      BY DEF IInv, TypeOK, Batch, MayApply
    <2>2. /\ idx[s][b.key] \in History
          /\ IsPrefix(idx[s][b.key], cur[s]) /\ IsPrefix(cur[s], vis[HEAD])
      BY <2>1 DEF IInv, SessionInv, Live, ExactFor, Index
    <2> QED BY <2>1, <2>2, HeadFacts, PrefixTransitive DEF History
  <1>3. Complete(vis[HEAD])' = Complete(vis[HEAD])
    BY DEF Complete, Reachable, Rev, Delta
  <1>4. SteadyInv'
    BY <1>2, <1>3 DEF CrashInv, SteadyInv
  <1> QED BY <1>1, <1>4 DEF CrashInv

(* The node store: what it knows is published, what it writes it knows. *)
LEMMA FlushCrashInv ==
    ASSUME IInv, CrashInv, NEW s \in Session, FlushNothing(s) \/ FlushPack(s) \/ SyncObjects(s)
    PROVE  CrashInv'
  <1> USE DEF disk, memory, ghost
  <1>1. /\ vis' = vis /\ objs \subseteq objs' /\ replayed' = replayed /\ power' = power
        /\ cur' = cur /\ req' = req
        /\ pc' = [pc EXCEPT ![s] = pc'[s]] /\ pc'[s] \in {"packed", "flushed"}
        /\ pc[s] \in {"staged", "packed"} /\ New(s) \in objs'
    BY DEF FlushNothing, FlushPack, SyncObjects, IInv, TypeOK, CrashInv, WrittenInv, WrittenBy,
           StoresKnow, Committing
  <1>2. \A f \in File : may'[f] = may[f] \/ may'[f] = {vis[f]}
    BY DEF FlushNothing, FlushPack, SyncObjects, SyncRoot, SyncDir
  <1>3. StoresKnow'
    BY <1>1 DEF FlushNothing, FlushPack, SyncObjects, IInv, TypeOK, CrashInv, StoresKnow
  <1>4. SteadyInv'
    BY <1>1, <1>2, CompleteKept DEF SteadyInv, CrashInv
  <1>5. ASSUME NEW t \in Session PROVE WrittenBy(t)'
    <2>1. CASE t = s
      BY <1>1, <2>1 DEF WrittenBy, New, IInv, TypeOK, Committing
    <2>2. CASE t # s
      <3>1. pc[s] \in Committing
        BY <1>1 DEF Committing
      <3>2. pc'[t] = pc[t] /\ pc[t] \notin Committing
        BY <1>1, <2>2, <3>1, WriterFacts DEF IInv, TypeOK
      <3> QED BY <3>2 DEF WrittenBy, Committing
    <2> QED BY <2>1, <2>2
  <1> QED BY <1>3, <1>4, <1>5 DEF CrashInv, WrittenInv

(* Only the session that holds the lock commits. *)
LEMMA OthersNotCommitting ==
    ASSUME IInv, NEW s \in Session, pc[s] \in Committing, NEW t \in Session, t # s,
           pc'[t] = pc[t]
    PROVE  WrittenBy(t)'
  <1>1. pc[t] \notin Committing
    BY WriterFacts
  <1> QED BY <1>1 DEF WrittenBy, Committing

(* The renames before HEAD's are of files of the next revision. *)
LEMMA WriteCrashInv ==
    ASSUME IInv, CrashInv, NEW s \in Session,
           WriteDelta(s) \/ WriteRevision(s) \/ WriteReceipt(s)
    PROVE  CrashInv'
  <1>1. pc[s] \in Committing \ {"staged", "headRenamed"}
    BY DEF WriteDelta, WriteRevision, WriteReceipt, WriteStep, Committing
  <1>2. /\ Seq1(s) \in 1..MaxSeq /\ vis[HEAD] = cur[s] /\ Seq1(s) = Len(cur[s]) + 1
        /\ Len(cur[s]) \in Nat /\ cur[s] \in History
    BY <1>1, WriterFacts, LenProperties DEF IInv, WriterInv, Seq1, History
  <1>3. PICK f \in {Delta(Seq1(s)), Rev(Seq1(s)), Rcpt(Seq1(s))} :
            /\ Rename(f, New(s))
            /\ pc' = [pc EXCEPT ![s] = pc'[s]]
            /\ UNCHANGED <<objs, synced, lock, memory, req, ghost>>
            /\ \/ f = Delta(Seq1(s)) /\ pc[s] = "flushed" /\ pc'[s] = "deltaWritten"
               \/ f = Rev(Seq1(s)) /\ pc[s] = "deltaSynced" /\ pc'[s] = "revWritten"
               \/ f = Rcpt(Seq1(s)) /\ pc[s] = "revSynced" /\ pc'[s] = "rcptWritten"
    BY DEF WriteDelta, WriteRevision, WriteReceipt, WriteStep, IInv, TypeOK
  <1>4. /\ f \in File /\ f # HEAD
        /\ f # Rev(Len(cur[s])) /\ f # Delta(Len(cur[s]))
    BY <1>2, FileFacts, RecordFiles
  <1>5. /\ vis'[f] = New(s)
        /\ \A g \in File : g # f => vis'[g] = vis[g] /\ may'[g] = may[g]
    BY <1>3, <1>4 DEF Rename, IInv, TypeOK
  <1>6. New(s)' = New(s) /\ Seq1(s)' = Seq1(s)
    BY <1>3 DEF New, Seq1, memory
  <1>7. StoresKnow'
    BY <1>3 DEF CrashInv, StoresKnow, memory
  <1>8. SteadyInv'
    <2>1. vis'[HEAD] = vis[HEAD]
      BY <1>4, <1>5, FileFacts
    <2>2. Complete(vis[HEAD]) => Complete(vis[HEAD])'
      BY <1>2, <1>3, <1>4, <1>5, <2>1, CompleteKept
    <2> QED BY <1>3, <2>1, <2>2 DEF SteadyInv, CrashInv, ghost
  <1>9. ASSUME NEW t \in Session PROVE WrittenBy(t)'
    <2>1. CASE t = s
      <3>1. WrittenBy(s)
        BY DEF CrashInv, WrittenInv
      <3>2. /\ Delta(Seq1(s)) \in File /\ Rev(Seq1(s)) \in File
            /\ f # Delta(Seq1(s)) => may'[Delta(Seq1(s))] = may[Delta(Seq1(s))]
            /\ f # Rev(Seq1(s)) => may'[Rev(Seq1(s))] = may[Rev(Seq1(s))]
        BY <1>2, <1>5, FileFacts
      <3>3. Delta(Seq1(s))' = Delta(Seq1(s)) /\ Rev(Seq1(s))' = Rev(Seq1(s)) /\ objs' = objs
        BY <1>3, <1>6 DEF Delta, Rev
      <3>4. CASE f = Delta(Seq1(s)) /\ pc[s] = "flushed" /\ pc'[s] = "deltaWritten"
        BY <1>5, <1>6, <2>1, <3>1, <3>3, <3>4 DEF WrittenBy, Committing
      <3>5. CASE f = Rev(Seq1(s)) /\ pc[s] = "deltaSynced" /\ pc'[s] = "revWritten"
        BY <1>5, <1>6, <2>1, <3>1, <3>2, <3>3, <3>5, RecordFiles DEF WrittenBy, Committing
      <3>6. CASE f = Rcpt(Seq1(s)) /\ pc[s] = "revSynced" /\ pc'[s] = "rcptWritten"
        BY <1>6, <2>1, <3>1, <3>2, <3>3, <3>6, FileFacts DEF WrittenBy, Committing
      <3> QED BY <1>3, <3>4, <3>5, <3>6
    <2>2. CASE t # s
      <3>1. pc'[t] = pc[t]
        BY <1>3, <2>2 DEF IInv, TypeOK
      <3> QED BY <1>1, <2>2, <3>1, OthersNotCommitting
    <2> QED BY <2>1, <2>2
  <1> QED BY <1>7, <1>8, <1>9 DEF CrashInv, WrittenInv

(* A directory fsync makes the file written before it durable. *)
LEMMA SyncCrashInv ==
    ASSUME IInv, CrashInv, NEW s \in Session,
           SyncDelta(s) \/ SyncRevision(s) \/ SyncReceipt(s)
    PROVE  CrashInv'
  <1>1. pc[s] \in Committing \ {"staged", "headRenamed"}
    BY DEF SyncDelta, SyncRevision, SyncReceipt, SyncStep, Committing
  <1>2. Seq1(s) \in 1..MaxSeq
    BY <1>1, WriterFacts
  <1>3. PICK dir \in {RevisionsDir, ReceiptsDir} :
            /\ SyncDir(dir)
            /\ pc' = [pc EXCEPT ![s] = pc'[s]]
            /\ UNCHANGED <<vis, objs, synced, lock, memory, req, ghost>>
            /\ \/ dir = RevisionsDir /\ pc[s] = "deltaWritten" /\ pc'[s] = "deltaSynced"
               \/ dir = RevisionsDir /\ pc[s] = "revWritten" /\ pc'[s] = "revSynced"
               \/ dir = ReceiptsDir /\ pc[s] = "rcptWritten" /\ pc'[s] = "rcptSynced"
    BY DEF SyncDelta, SyncRevision, SyncReceipt, SyncStep, IInv, TypeOK
  <1>4. \A f \in File : /\ may'[f] = may[f] \/ may'[f] = {vis[f]}
                        /\ f \in dir => may'[f] = {vis[f]}
    BY <1>3 DEF SyncDir
  <1>6. New(s)' = New(s) /\ Seq1(s)' = Seq1(s)
    BY <1>3 DEF New, Seq1, memory
  <1>7. StoresKnow'
    BY <1>3 DEF CrashInv, StoresKnow, memory
  <1>8. SteadyInv'
    BY <1>3, <1>4, CompleteKept DEF SteadyInv, CrashInv, ghost
  <1>9. ASSUME NEW t \in Session PROVE WrittenBy(t)'
    <2>1. CASE t = s
      <3>1. WrittenBy(s)
        BY DEF CrashInv, WrittenInv
      <3>2. Delta(Seq1(s)) \in File /\ Rev(Seq1(s)) \in File
        BY <1>2, FileFacts
      <3>3. \A f \in File : /\ vis[f] \in may[f]
                            /\ may[f] = {New(s)} => may'[f] = {New(s)}
        BY <1>4 DEF IInv, DiskInv
      <3>4. Delta(Seq1(s))' = Delta(Seq1(s)) /\ Rev(Seq1(s))' = Rev(Seq1(s)) /\ objs' = objs /\ vis' = vis
        BY <1>3, <1>6 DEF Delta, Rev
      <3>5. CASE dir = RevisionsDir
        <4>1. /\ may'[Delta(Seq1(s))] = {vis[Delta(Seq1(s))]}
              /\ may'[Rev(Seq1(s))] = {vis[Rev(Seq1(s))]}
          BY <1>2, <1>4, <3>2, <3>5, RecordFiles
        <4>2. CASE pc[s] = "deltaWritten" /\ pc'[s] = "deltaSynced"
          BY <1>6, <2>1, <3>1, <3>4, <4>1, <4>2 DEF WrittenBy, Committing
        <4>3. CASE pc[s] = "revWritten" /\ pc'[s] = "revSynced"
          BY <1>6, <2>1, <3>1, <3>2, <3>3, <3>4, <4>1, <4>3 DEF WrittenBy, Committing
        <4>4. RevisionsDir # ReceiptsDir
          BY <1>2, RecordFiles
        <4> QED BY <1>3, <3>5, <4>2, <4>3, <4>4
      <3>6. CASE pc[s] = "rcptWritten" /\ pc'[s] = "rcptSynced"
        BY <1>6, <2>1, <3>1, <3>2, <3>3, <3>4, <3>6 DEF WrittenBy, Committing
      <3> QED BY <1>3, <3>5, <3>6
    <2>2. CASE t # s
      <3>1. pc'[t] = pc[t]
        BY <1>3, <2>2 DEF IInv, TypeOK
      <3> QED BY <1>1, <2>2, <3>1, OthersNotCommitting
    <2> QED BY <2>1, <2>2
  <1> QED BY <1>7, <1>8, <1>9 DEF CrashInv, WrittenInv
(* HEAD is renamed when everything its new revision needs is in place. *)
LEMMA RenameHeadCrashInv ==
    ASSUME IInv, CrashInv, NEW s \in Session, RenameHead(s)
    PROVE  CrashInv'
  <1>1. /\ pc[s] = "rcptSynced" /\ pc[s] \in Committing
        /\ pc' = [pc EXCEPT ![s] = "headRenamed"]
        /\ UNCHANGED <<objs, memory, req, ghost>>
    BY DEF RenameHead, WriteStep, Committing
  <1>2. /\ vis'[HEAD] = New(s) /\ vis[HEAD] = cur[s]
    BY RenameHeadInv
  <1>3. \A f \in File : f # HEAD => may'[f] = may[f]
    BY DEF RenameHead, WriteStep, Rename, IInv, TypeOK
  <1>4. /\ cur[s] \in History /\ req[s] \in Batch /\ New(s) \in History /\ New(s) # <<>>
        /\ Len(New(s)) = Seq1(s) /\ Seq1(s) \in 1..MaxSeq /\ IsPrefix(cur[s], New(s))
    BY <1>1, WriterFacts
  <1>5. WrittenBy(s) /\ New(s)' = New(s)
    BY <1>1 DEF CrashInv, WrittenInv, New, memory
  <1>6. New(s) \in objs /\ may[Rev(Seq1(s))] = {New(s)} /\ may[Delta(Seq1(s))] = {New(s)}
    BY <1>1, <1>5 DEF WrittenBy, Committing
  <1>7. may'[Rev(Seq1(s))] = {New(s)} /\ may'[Delta(Seq1(s))] = {New(s)}
    BY <1>3, <1>4, <1>6, FileFacts
  <1>8. StoresKnow'
    BY <1>1 DEF CrashInv, StoresKnow, memory
  <1>9. SteadyInv'
    <2> SUFFICES ASSUME power' = "steady"
                 PROVE  Complete(vis[HEAD])' /\ \A h \in replayed' : IsPrefix(h, vis'[HEAD])
      BY DEF SteadyInv
    <2>1. Complete(vis[HEAD]) /\ \A h \in replayed : IsPrefix(h, vis[HEAD])
      BY <1>1 DEF CrashInv, SteadyInv, ghost
    <2>2. Reachable(New(s)) \subseteq objs
      <3>1. Reachable(cur[s]) \subseteq objs
        BY <1>2, <2>1 DEF Complete
      <3>2. Reachable(New(s)) = Reachable(cur[s]) \cup {New(s)}
        BY <1>4, ReachableAppend DEF New
      <3> QED BY <1>6, <3>1, <3>2
    <2>3. Complete(vis[HEAD])'
      <3> DEFINE h == New(s)
      <3>1. /\ vis'[HEAD] = h /\ Reachable(h) \subseteq objs' /\ Len(h) = Seq1(s)
            /\ may'[Rev(Len(h))] = {h} /\ may'[Delta(Len(h))] = {h}
        BY <1>1, <1>2, <1>4, <1>7, <2>2
      <3> HIDE DEF h
      <3> QED BY <3>1 DEF Complete, Reachable, Rev, Delta
    <2>4. \A h \in replayed : h \in History
      BY DEF IInv, TypeOK
    <2>5. \A h \in replayed : IsPrefix(h, New(s))
      BY <1>2, <1>4, <2>1, <2>4, PrefixTransitive DEF History
    <2> QED BY <1>1, <1>2, <2>3, <2>5 DEF ghost
  <1>10. ASSUME NEW t \in Session PROVE WrittenBy(t)'
    <2>1. CASE t = s
      BY <1>1, <1>5, <1>6, <2>1 DEF WrittenBy, IInv, TypeOK
    <2>2. CASE t # s
      <3>1. pc'[t] = pc[t]
        BY <1>1, <2>2 DEF IInv, TypeOK
      <3> QED BY <1>1, <2>2, <3>1, OthersNotCommitting
    <2> QED BY <2>1, <2>2
  <1> QED BY <1>8, <1>9, <1>10 DEF CrashInv, WrittenInv

(* Compaction stays below the session's revision, and so below HEAD's. *)
LEMMA CompactHistoryCrashInv ==
    ASSUME IInv, CrashInv, NEW s \in Session, CompactHistory(s)
    PROVE  CrashInv'
  <1>1. /\ pc[s] = "ready" /\ lock = NoOne
        /\ UNCHANGED <<objs, pc, memory, req, ghost>>
    BY DEF CompactHistory
  <1>2. vis'[HEAD] = vis[HEAD]
    BY CompactHistoryInv
  <1>3. PICK gone \in SUBSET Compactable(s) :
            LET files == { Rev(n) : n \in gone } \cup { Delta(n) : n \in gone }
            IN  may' = [f \in File |-> IF f \in files THEN may[f] \cup {<<>>} ELSE may[f]]
    BY DEF CompactHistory
  <1>4. /\ cur[s] \in History /\ vis[HEAD] \in History /\ IsPrefix(cur[s], vis[HEAD])
    BY <1>1, HeadFacts DEF IInv, TypeOK, SessionInv, Live
  <1>5. Len(cur[s]) \in Nat /\ Len(vis[HEAD]) \in Nat /\ Len(cur[s]) <= Len(vis[HEAD])
    BY <1>4, PrefixPointwise, LenProperties DEF History
  <1>6. Len(vis[HEAD]) \notin gone
    BY <1>5 DEF Compactable
  <1>7. \A f \in {Rev(Len(vis[HEAD])), Delta(Len(vis[HEAD]))} \cap File : may'[f] = may[f]
    BY <1>3, <1>6, RecordFiles
  <1>8. StoresKnow'
    BY <1>1 DEF CrashInv, StoresKnow, memory
  <1>9. SteadyInv'
    BY <1>1, <1>2, <1>7, CompleteKept DEF SteadyInv, CrashInv, ghost
  <1>10. ASSUME NEW t \in Session PROVE WrittenBy(t)'
    <2>1. pc'[t] = pc[t] /\ pc[t] \notin Committing
      BY <1>1, WriterFacts, CommitAssumption
    <2> QED BY <2>1 DEF WrittenBy, Committing
  <1> QED BY <1>8, <1>9, <1>10 DEF CrashInv, WrittenInv

LEMMA PowerLossCrashInv ==
    ASSUME PowerLoss
    PROVE  CrashInv'
  <1>1. StoresKnow' /\ SteadyInv'
    BY DEF PowerLoss, StoresKnow, SteadyInv
  <1>2. ASSUME NEW t \in Session PROVE WrittenBy(t)'
    BY DEF PowerLoss, WrittenBy, Committing
  <1> QED BY <1>1, <1>2 DEF CrashInv, WrittenInv

LEMMA InitCrashInv == Init => CrashInv
  <1> SUFFICES ASSUME Init PROVE CrashInv
    OBVIOUS
  <1>1. StoresKnow /\ WrittenInv
    BY DEF Init, StoresKnow, WrittenInv, WrittenBy, Committing
  <1>2. SteadyInv
    BY FileFacts, ReachableAppend DEF Init, SteadyInv, Complete
  <1> QED BY <1>1, <1>2 DEF CrashInv

LEMMA NextCrashInv == IInv /\ CrashInv /\ [Next]_vars => CrashInv'
  <1> SUFFICES ASSUME IInv, CrashInv, [Next]_vars PROVE CrashInv'
    OBVIOUS
  <1>1. CASE UNCHANGED vars
    BY <1>1, QuietCrashInv
    DEF vars, disk, memory, ghost, CrashInv, StoresKnow
  <1>2. ASSUME NEW s \in Session,
               \/ ReadHead(s) \/ OpenStep(s) \/ UpgradeFails(s) \/ RebuildIndex(s)
               \/ (\E b \in Batch : Stage(s, b)) \/ FlushLatched(s) \/ FinishCommit(s)
               \/ IoError(s) \/ SyncRootAside(s) \/ Exit(s)
        PROVE  CrashInv'
    BY <1>2, SessionsCrashInv
  <1>3. ASSUME NEW s \in Session, NEW b \in Batch, Replay(s, b) PROVE CrashInv'
    BY <1>3, ReplayCrashInv
  <1>4. ASSUME NEW s \in Session, CommitStep(s), ~FlushLatched(s), ~FinishCommit(s) PROVE CrashInv'
    BY <1>4, FlushCrashInv, WriteCrashInv, SyncCrashInv, RenameHeadCrashInv DEF CommitStep
  <1>5. ASSUME NEW s \in Session, CompactHistory(s) PROVE CrashInv'
    BY <1>5, CompactHistoryCrashInv
  <1>6. ASSUME PowerLoss PROVE CrashInv'
    BY <1>6, PowerLossCrashInv
  <1> QED BY <1>1, <1>2, <1>3, <1>4, <1>5, <1>6 DEF Next

(* What a crash leaves behind, in every reachable state. *)
THEOREM CrashInvariance == Spec => [](IInv /\ CrashInv)
  BY InitInv, NextInv, InitCrashInv, NextCrashInv, PTL DEF Spec

(* Every receipt, fresh or replayed, is for a history HEAD holds, as long  *)
(* as the machine keeps its power.                                         *)
THEOREM AckVisibleCorrect == Spec => []AckVisible
  <1>1. IInv /\ CrashInv => AckVisible
    BY HeadFacts DEF IInv, DiskInv, CrashInv, SteadyInv, AckVisible
  <1> QED BY CrashInvariance, <1>1, PTL

(* A process killed anywhere in apply_batch leaves a HEAD that opens.      *)
THEOREM CrashRecoversCorrect == Spec => []CrashRecovers
  <1>1. IInv /\ CrashInv => CrashRecovers
    <2> SUFFICES ASSUME IInv, CrashInv, power = "steady"
                 PROVE  /\ Opens(vis[HEAD])
                        /\ vis[HEAD] # <<>> => /\ may[Rev(Len(vis[HEAD]))] = {vis[HEAD]}
                                               /\ may[Delta(Len(vis[HEAD]))] = {vis[HEAD]}
      BY DEF CrashRecovers
    <2> DEFINE h == vis[HEAD]
    <2>1. Reachable(h) \subseteq objs /\ (h # <<>> => may[Rev(Len(h))] = {h} /\ may[Delta(Len(h))] = {h})
      BY DEF CrashInv, SteadyInv, Complete
    <2>2. h # <<>> => Rev(Len(h)) \in File /\ Delta(Len(h)) \in File
      BY HeadFacts, FileFacts, EmptySeq, CommitAssumption DEF History
    <2>3. h # <<>> => vis[Rev(Len(h))] = h /\ vis[Delta(Len(h))] = h
      BY <2>1, <2>2 DEF IInv, DiskInv
    <2> QED BY <2>1, <2>3 DEF Opens
  <1> QED BY CrashInvariance, <1>1, PTL
=============================================================================
