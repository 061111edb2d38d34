------------------------ MODULE WorldRetentionProofs ------------------------
(***************************************************************************)
(* Proofs about WorldRetention, for any number of sessions, revisions and  *)
(* pins and any retention policies.                                        *)
(***************************************************************************)
EXTENDS WorldRetention, TLAPS

(* No record and no session is ahead of HEAD. *)
Behind == recs \subseteq 0..head /\ \A s \in Session : cur[s] <= head

(* What the collector holds on to until it has retired the old packs: its  *)
(* roots cover genesis, HEAD and every recorded revision at or above the   *)
(* floor it is about to write, or has written.                             *)
Collected ==
    /\ gcpc # "idle" => {0, head} \subseteq kept
    /\ gcpc = "copy" => \A n \in recs : n >= Floor(keep) => n \in kept
    /\ gcpc = "retire" => \A n \in recs : n >= floor => n \in kept

(* The inductive invariant. *)
IInv == TypeOK /\ Behind /\ HeadReadable /\ FloorSound /\ Collected

USE RetentionAssumption DEF Rev

(* The floor a collection asks for covers only revisions whose roots it    *)
(* collects.                                                               *)
LEMMA FloorCovered ==
    ASSUME TypeOK, Behind, NEW k \in Keeps, NEW n \in recs, n >= Floor(k)
    PROVE  n \in Retained(k)
<1>1. n \in 0..head /\ head \in Nat /\ floor \in Nat
  BY DEF TypeOK, Behind
<1>2. CASE k = KeepAll
  BY <1>2 DEF Retained
<1>3. CASE k # KeepAll
  <2>1. k \in Nat
    BY <1>3
  <2>2. k = 0 => n = head
    BY <1>1, <1>3, <2>1 DEF Floor
  <2>3. k # 0 => head - n < k
    BY <1>1, <1>3, <2>1 DEF Floor
  <2> QED BY <2>2, <2>3 DEF Retained
<1> QED BY <1>2, <1>3

(* The floor stays a revision number and does not go down. *)
LEMMA FloorType ==
    ASSUME TypeOK, keep \in Keeps \cup {KeepAll}
    PROVE  Floor(keep) \in Rev /\ Floor(keep) >= floor
BY DEF TypeOK, Floor

(* A step that leaves the store, the records and the collector alone keeps *)
(* everything but the types to be shown, when no session gets ahead.       *)
LEMMA Frame ==
    ASSUME IInv, UNCHANGED <<head, recs, tries, floor, gcState>>, TypeOK',
           \A s \in Session : cur'[s] <= head
    PROVE  IInv'
<1>1. Behind' /\ HeadReadable' /\ FloorSound'
  BY DEF IInv, Behind, HeadReadable, FloorSound
<1>2. Collected'
  BY DEF IInv, Collected, gcState, Floor
<1> QED BY <1>1, <1>2 DEF IInv

LEMMA InitOK == Init => IInv
BY DEF Init, IInv, TypeOK, NoPins, Behind, HeadReadable, FloorSound, Collected

LEMMA StepOK == IInv /\ [Next]_vars => IInv'
<1> SUFFICES ASSUME IInv, [Next]_vars PROVE IInv'
  OBVIOUS
<1> USE DEF IInv
<1>1. ASSUME NEW s \in Session, Open(s) PROVE IInv'
  <2>0. readers' \in [Session -> [Rev -> 0..MaxPins]]
    <3>1. NoPins \in [Rev -> 0..MaxPins]
      BY DEF NoPins
    <3> QED BY <1>1, <3>1 DEF Open, TypeOK
  <2>1. TypeOK'
    BY <1>1, <2>0 DEF Open, TypeOK, gcState
  <2>2. \A t \in Session : cur'[t] <= head
    BY <1>1 DEF Open, TypeOK, Behind
  <2> QED BY <1>1, <2>1, <2>2, Frame DEF Open
<1>2. ASSUME NEW s \in Session, Close(s) PROVE IInv'
  <2>0. readers' \in [Session -> [Rev -> 0..MaxPins]]
    <3>1. NoPins \in [Rev -> 0..MaxPins]
      BY DEF NoPins
    <3> QED BY <1>2, <3>1 DEF Close, TypeOK
  <2>3. cur' \in [Session -> Rev] /\ pins' \in [Session -> SUBSET Rev]
    BY <1>2 DEF Close, TypeOK
  <2>4. open' \subseteq Session
    BY <1>2 DEF Close, TypeOK
  <2>1. TypeOK'
    BY <1>2, <2>0, <2>3, <2>4 DEF Close, TypeOK, gcState
  <2>2. \A t \in Session : cur'[t] <= head
    BY <1>2 DEF Close, TypeOK, Behind
  <2> QED BY <1>2, <2>1, <2>2, Frame DEF Close
<1>3. ASSUME NEW s \in Session, Commit(s) PROVE IInv'
  <2> USE <1>3 DEF Commit, gcState
  <2>0. head + 1 \in Rev /\ cur' \in [Session -> Rev]
    BY DEF TypeOK
  <2>1. TypeOK'
    BY <2>0 DEF TypeOK
  <2>2. Behind'
    BY DEF TypeOK, Behind
  <2>3. HeadReadable' /\ FloorSound'
    BY DEF TypeOK, HeadReadable, FloorSound
  <2>4. Collected'
    BY DEF Collected
  <2> QED BY <2>1, <2>2, <2>3, <2>4
<1>4. ASSUME NEW s \in Session, NEW n \in Rev, PinReader(s, n) PROVE IInv'
  <2>0. readers' \in [Session -> [Rev -> 0..MaxPins]]
    <3> DEFINE row == [readers[s] EXCEPT ![n] = @ + 1]
    <3>1. readers[s] \in [Rev -> 0..MaxPins]
      BY DEF TypeOK
    <3>2. readers[s][n] + 1 \in 0..MaxPins
      BY <1>4, <3>1 DEF PinReader
    <3>3. row \in [Rev -> 0..MaxPins]
      BY <3>1, <3>2
    <3>4. readers' = [readers EXCEPT ![s] = row]
      BY <1>4 DEF PinReader
    <3> QED BY <3>3, <3>4 DEF TypeOK
  <2>1. TypeOK'
    BY <1>4, <2>0 DEF PinReader, TypeOK, gcState
  <2>2. \A t \in Session : cur'[t] <= head
    BY <1>4 DEF PinReader, TypeOK, Behind
  <2> QED BY <1>4, <2>1, <2>2, Frame DEF PinReader
<1>5. ASSUME NEW s \in Session, NEW n \in Rev, UnpinReader(s, n) PROVE IInv'
  <2>0. readers' \in [Session -> [Rev -> 0..MaxPins]]
    <3> DEFINE row == [readers[s] EXCEPT ![n] = @ - 1]
    <3>1. readers[s] \in [Rev -> 0..MaxPins]
      BY DEF TypeOK
    <3>2. readers[s][n] - 1 \in 0..MaxPins
      BY <1>5, <3>1 DEF UnpinReader
    <3>3. row \in [Rev -> 0..MaxPins]
      BY <3>1, <3>2
    <3>4. readers' = [readers EXCEPT ![s] = row]
      BY <1>5 DEF UnpinReader
    <3> QED BY <3>3, <3>4 DEF TypeOK
  <2>1. TypeOK'
    BY <1>5, <2>0 DEF UnpinReader, TypeOK, gcState
  <2>2. \A t \in Session : cur'[t] <= head
    BY <1>5 DEF UnpinReader, TypeOK, Behind
  <2> QED BY <1>5, <2>1, <2>2, Frame DEF UnpinReader
<1>6. ASSUME NEW s \in Session, NEW n \in Rev, PinCheckpoint(s, n) PROVE IInv'
  <2>1. TypeOK'
    BY <1>6 DEF PinCheckpoint, PersistPins, TypeOK, gcState
  <2>2. \A t \in Session : cur'[t] <= head
    BY <1>6 DEF PinCheckpoint, TypeOK, Behind
  <2> QED BY <1>6, <2>1, <2>2, Frame DEF PinCheckpoint
<1>7. ASSUME NEW s \in Session, NEW n \in Rev, UnpinCheckpoint(s, n) PROVE IInv'
  <2>1. TypeOK'
    BY <1>7 DEF UnpinCheckpoint, PersistPins, TypeOK, gcState
  <2>2. \A t \in Session : cur'[t] <= head
    BY <1>7 DEF UnpinCheckpoint, TypeOK, Behind
  <2> QED BY <1>7, <2>1, <2>2, Frame DEF UnpinCheckpoint
<1>8. ASSUME NEW s \in Session, NEW n \in Rev, CompactHistory(s, n) PROVE IInv'
  <2> USE <1>8 DEF CompactHistory, gcState, session
  <2>1. recs' \subseteq recs
    OBVIOUS
  <2>2. 0 \in recs' /\ head \in recs'
    BY DEF HeadReadable, Pinned, Behind, TypeOK
  <2>3. TypeOK' /\ Behind'
    BY <2>1 DEF TypeOK, Behind
  <2>4. HeadReadable' /\ FloorSound'
    BY <2>1, <2>2 DEF HeadReadable, FloorSound
  <2>5. Collected'
    BY DEF Collected
  <2> QED BY <2>3, <2>4, <2>5
<1>9. ASSUME NEW k \in Keeps, GcCollect(k) PROVE IInv'
  <2> USE <1>9 DEF GcCollect, session
  <2>1. TypeOK'
    BY DEF TypeOK, Retained
  <2>2. Behind' /\ HeadReadable' /\ FloorSound'
    BY DEF Behind, HeadReadable, FloorSound
  <2>3. {0, head} \subseteq Retained(k)
    BY DEF HeadReadable, Retained
  <2>4. \A n \in recs : n >= Floor(k) => n \in Retained(k)
    BY FloorCovered
  <2>5. Collected'
    BY <2>3, <2>4 DEF Collected, Floor
  <2> QED BY <2>1, <2>2, <2>5
<1>10. ASSUME GcMark PROVE IInv'
  <2> USE <1>10 DEF GcMark, session
  <2>1. Floor(keep) \in Rev /\ Floor(keep) >= floor
    BY FloorType DEF TypeOK
  <2>2. TypeOK' /\ Behind' /\ HeadReadable'
    BY <2>1 DEF TypeOK, Behind, HeadReadable
  <2>3. FloorSound'
    BY <2>1 DEF FloorSound, TypeOK
  <2>4. Collected'
    BY DEF Collected
  <2> QED BY <2>2, <2>3, <2>4
<1>11. ASSUME GcRetire PROVE IInv'
  BY <1>11 DEF GcRetire, GcDone, session, TypeOK, Behind, HeadReadable, FloorSound, Collected
<1>12. ASSUME GcCrash PROVE IInv'
  BY <1>12 DEF GcCrash, GcDone, session, TypeOK, Behind, HeadReadable, FloorSound, Collected
<1>13. ASSUME UNCHANGED vars PROVE IInv'
  BY <1>13 DEF vars, gcState, session, TypeOK, Behind, HeadReadable, FloorSound, Collected, Floor
<1> QED
  BY <1>1, <1>2, <1>3, <1>4, <1>5, <1>6, <1>7, <1>8, <1>9, <1>10, <1>11, <1>12, <1>13
     DEF Next, Pinnable

(* The invariant holds in every reachable state. *)
THEOREM Invariance == Spec => []IInv
BY InitOK, StepOK, PTL DEF Spec

(* Records, tries, pins and the floor keep their types through every       *)
(* policy and crash.                                                       *)
THEOREM TypeCorrect == Spec => []TypeOK
BY Invariance, PTL DEF IInv

(* Neither compaction, by a session however far behind, nor a collection   *)
(* with any policy, ever takes the record or the tries of HEAD or genesis. *)
THEOREM HeadReadableCorrect == Spec => []HeadReadable
BY Invariance, PTL DEF IInv

(* The floor in the generation marker is sound: whatever policies the      *)
(* collections ran with and wherever they died, a recorded revision at or  *)
(* above the floor has its tries.                                          *)
THEOREM FloorSoundCorrect == Spec => []FloorSound
BY Invariance, PTL DEF IInv

(* So a snapshot that pin_revision hands out can be read, but for one of a *)
(* checkpoint, which the floor does not protect.                           *)
THEOREM SnapshotReadableCorrect == Spec => []SnapshotReadable
<1>1. IInv => SnapshotReadable
  BY DEF IInv, TypeOK, HeadReadable, FloorSound, SnapshotReadable, Snapshots
<1> QED BY <1>1, Invariance, PTL

-----------------------------------------------------------------------------
(* Pins, as long as one session at a time has the world open: the session  *)
(* that is open knows every checkpoint that was acknowledged.              *)
Alone ==
    use = "alone" => /\ \A s, t \in open : s = t
                     /\ \A s \in open : anchors \subseteq pins[s]

PinInv == IInv /\ Alone /\ PinsKept

LEMMA PinInit == Init => PinInv
<1> SUFFICES ASSUME Init PROVE PinInv
  OBVIOUS
<1>1. Alone /\ PinsKept
  BY DEF Init, Alone, PinsKept, ReadersKept, AnchorsKept
<1> QED BY <1>1, InitOK DEF PinInv

(* A step of the collector does not touch pins or records. *)
LEMMA PinFrame ==
    ASSUME PinInv, UNCHANGED <<recs, file, session, anchors>>, IInv' PROVE PinInv'
BY DEF PinInv, Alone, PinsKept, ReadersKept, AnchorsKept, session

LEMMA PinStep == PinInv /\ [Next]_vars => PinInv'
<1> SUFFICES ASSUME PinInv, [Next]_vars PROVE PinInv'
  OBVIOUS
<1>0. IInv /\ IInv' /\ TypeOK
  BY StepOK DEF PinInv, IInv
<1> USE DEF PinInv
<1>1. ASSUME NEW s \in Session, Open(s) PROVE PinInv'
  <2> USE <1>0, <1>1 DEF Open, TypeOK
  <2>1. Alone'
    BY DEF Alone, PinsKept, AnchorsKept
  <2>2. use' = "alone" => ReadersKept'
    BY DEF PinsKept, ReadersKept, Alone, NoPins
  <2>3. use' = "alone" => AnchorsKept'
    BY DEF PinsKept, AnchorsKept
  <2> QED BY <2>1, <2>2, <2>3 DEF PinsKept
<1>2. ASSUME NEW s \in Session, Close(s) PROVE PinInv'
  BY <1>0, <1>2 DEF Close, TypeOK, Alone, PinsKept, ReadersKept, AnchorsKept, NoPins
<1>3. ASSUME NEW s \in Session, Commit(s) PROVE PinInv'
  BY <1>0, <1>3 DEF Commit, TypeOK, Alone, PinsKept, ReadersKept, AnchorsKept
<1>4. ASSUME NEW s \in Session, NEW n \in Rev, PinReader(s, n) PROVE PinInv'
  BY <1>0, <1>4 DEF PinReader, MayPin, TypeOK, Alone, PinsKept, ReadersKept, AnchorsKept
<1>5. ASSUME NEW s \in Session, NEW n \in Rev, UnpinReader(s, n) PROVE PinInv'
  BY <1>0, <1>5 DEF UnpinReader, TypeOK, Alone, PinsKept, ReadersKept, AnchorsKept
<1>6. ASSUME NEW s \in Session, NEW n \in Rev, PinCheckpoint(s, n) PROVE PinInv'
  BY <1>0, <1>6 DEF PinCheckpoint, MayPin, PersistPins, TypeOK, Alone, PinsKept, ReadersKept, AnchorsKept
<1>7. ASSUME NEW s \in Session, NEW n \in Rev, UnpinCheckpoint(s, n) PROVE PinInv'
  BY <1>0, <1>7 DEF UnpinCheckpoint, PersistPins, TypeOK, Alone, PinsKept, ReadersKept, AnchorsKept
<1>8. ASSUME NEW s \in Session, NEW n \in Rev, CompactHistory(s, n) PROVE PinInv'
  BY <1>0, <1>8 DEF CompactHistory, session, Pinned, TypeOK, Alone, PinsKept, ReadersKept, AnchorsKept
<1>9. ASSUME UNCHANGED <<recs, file, session, anchors>> PROVE PinInv'
  BY <1>0, <1>9, PinFrame
<1>10. (\E k \in Keeps : GcCollect(k)) \/ GcMark \/ GcRetire \/ GcCrash \/ UNCHANGED vars
          => UNCHANGED <<recs, file, session, anchors>>
  BY DEF GcCollect, GcMark, GcRetire, GcCrash, vars
<1> QED
  BY <1>1, <1>2, <1>3, <1>4, <1>5, <1>6, <1>7, <1>8, <1>9, <1>10 DEF Next, Pinnable

(* With one session at a time open, compaction spares what a reader holds, *)
(* whatever pins and releases came before it, and an acknowledged          *)
(* checkpoint pin stays on disk and keeps its revision's record, across    *)
(* failed writes of pins.json, reopens and compactions.                    *)
THEOREM PinsKeptCorrect == Spec => []PinsKept
BY PinInit, PinStep, PTL DEF Spec, PinInv
=============================================================================
