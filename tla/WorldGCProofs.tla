--------------------------- MODULE WorldGCProofs ---------------------------
(***************************************************************************)
(* Proofs about WorldGC, for any number of sessions, nodes, packs and      *)
(* collections: unless the collector dies between its two marker writes    *)
(* when a session has read the first, a collection never costs HEAD or the *)
(* state cache a node.                                                     *)
(***************************************************************************)
EXTENDS WorldGC, TLAPS

(* The lock belongs to the collector while it runs, and to a session while *)
(* it commits; a commit in progress has room for one more revision.        *)
LockInv ==
    /\ gcpc # "idle" <=> lock = Gc
    /\ \A s \in Session : pc[s] = "staged" <=> lock = s
    /\ \A s \in Session : pc[s] = "staged" => head.seq < MaxSeq

(* While the collector runs, HEAD and the cache stay where its marking     *)
(* found them, and what it has copied is in packs it will not retire.      *)
GcInv ==
    /\ gcpc # "idle" => head.nodes \cup cache \subseteq live
    /\ gcpc # "idle" => copied \subseteq Stored(disk \ old)
    /\ gcpc = "retire" => copied = live

(* No session has a marker that was not written; during retirement only an *)
(* unlocked read gives it the current one.                                 *)
GenInv ==
    /\ \A s \in Session : gen[s] <= epoch
    /\ \A s \in Session : pc[s] \in {"closed", "headRead", "epochRead"} => view[s] = {}
    /\ gcpc = "copy" => epoch + 2 <= MaxEpoch
    /\ gcpc = "retire" => epoch > 0 /\ epoch < MaxEpoch

(* The packs a session lists exist, when it has the current marker and     *)
(* nothing is being retired.                                               *)
ViewInv ==
    gcpc # "retire" => \A s \in Session : gen[s] = epoch => view[s] \subseteq disk

(* A commit's nodes are stored before HEAD names them, a refresh's are in  *)
(* packs its session lists.                                                *)
PlanInv ==
    /\ \A s \in Session : pc[s] = "staged" => plan[s] \subseteq Stored(disk)
    /\ \A s \in Session : pc[s] = "flushed" => plan[s] \subseteq Stored(view[s])

(* The inductive invariant. *)
IInv ==
    /\ TypeOK /\ LockInv /\ GcInv /\ GenInv /\ ViewInv /\ PlanInv
    /\ HeadResolvable /\ CacheResolvable

USE GCAssumption

-----------------------------------------------------------------------------
(* The store. *)

(* More packs hold more nodes. *)
LEMMA StoredMono ==
    ASSUME NEW P, NEW Q, P \subseteq Q PROVE Stored(P) \subseteq Stored(Q)
BY DEF Stored

(* A new pack leaves the old ones alone and adds its nodes. *)
LEMMA Published ==
    ASSUME TypeOK, NEW nodes \in SUBSET Node, PublishPack(nodes)
    PROVE  /\ body' \in Seq(SUBSET Node) /\ Len(body') = Len(body) + 1
           /\ \A p \in Packs : body'[p] = body[p]
           /\ body'[Len(body) + 1] = nodes
           /\ disk' = disk \cup {Len(body) + 1}
           /\ Packs \subseteq Packs' /\ Len(body) + 1 \in Packs' \ Packs
BY DEF TypeOK, PublishPack, Packs

(* What holds of the store across a flush of a session. *)
LEMMA Flushed ==
    ASSUME TypeOK, NEW s \in Session, NEW nodes \in SUBSET Node,
           NEW listed \in SUBSET Packs, FlushInto(s, nodes, listed)
    PROVE  /\ body' \in Seq(SUBSET Node) /\ disk' \subseteq Packs'
           /\ Packs \subseteq Packs'
           /\ \A p \in Packs : body'[p] = body[p]
           /\ disk \subseteq disk' /\ (disk' \ disk) \cap Packs = {}
           /\ view' \in [Session -> SUBSET Packs']
           /\ \A t \in Session \ {s} : view'[t] = view[t]
           /\ view'[s] \ listed \subseteq disk' /\ listed \subseteq view'[s]
           /\ \A n \in nodes : \E p \in view'[s] \cap disk' : n \in body'[p]
<1>1. CASE nodes = {}
  BY <1>1 DEF FlushInto, store, TypeOK, Packs
<1>2. CASE nodes # {}
  <2>1. PublishPack(nodes) /\ view' = [view EXCEPT ![s] = listed \cup {Len(body) + 1}]
    BY <1>2 DEF FlushInto
  <2>2. disk \subseteq Packs /\ view \in [Session -> SUBSET Packs]
    BY DEF TypeOK
  <2>3. /\ body' \in Seq(SUBSET Node)
        /\ \A p \in Packs : body'[p] = body[p]
        /\ body'[Len(body) + 1] = nodes
        /\ disk' = disk \cup {Len(body) + 1}
        /\ Packs \subseteq Packs' /\ Len(body) + 1 \in Packs' \ Packs
    BY <2>1, Published
  <2>4. /\ view'[s] = listed \cup {Len(body) + 1}
        /\ \A t \in Session \ {s} : view'[t] = view[t]
        /\ view' \in [Session -> SUBSET Packs']
    BY <2>1, <2>2, <2>3
  <2>5. \A n \in nodes : \E p \in view'[s] \cap disk' : n \in body'[p]
    BY <2>3, <2>4
  <2> QED BY <2>2, <2>3, <2>4, <2>5
<1> QED BY <1>1, <1>2

LEMMA InitOK == Init => IInv
BY DEF Init, IInv, TypeOK, PC, Packs, LockInv, GcInv, GenInv, ViewInv, PlanInv,
       HeadResolvable, CacheResolvable, Stored

-----------------------------------------------------------------------------
(* Steps of a session that do not touch the store, HEAD or the sidecar. *)

LEMMA Frame ==
    ASSUME IInv, UNCHANGED <<store, head, cache, epoch, gcState>>,
           TypeOK', LockInv', GenInv', ViewInv', PlanInv'
    PROVE  IInv'
<1>1. GcInv' /\ HeadResolvable' /\ CacheResolvable'
  BY DEF IInv, GcInv, HeadResolvable, CacheResolvable, Stored, store, gcState
<1> QED BY <1>1 DEF IInv

LEMMA OpenHeadOK ==
    ASSUME IInv, NEW s \in Session, OpenHead(s) PROVE IInv'
<1> USE DEF OpenHead, Goto, store, gcState, handle
<1>1. TypeOK'
  BY DEF IInv, TypeOK, PC, Packs
<1>2. LockInv'
  BY DEF IInv, TypeOK, LockInv
<1>3. GenInv'
  BY DEF IInv, TypeOK, GenInv
<1>4. ViewInv'
  BY DEF IInv, TypeOK, GenInv, ViewInv
<1>5. PlanInv'
  BY DEF IInv, TypeOK, PlanInv, Stored
<1> QED BY <1>1, <1>2, <1>3, <1>4, <1>5, Frame

LEMMA OpenEpochOK ==
    ASSUME IInv, NEW s \in Session, OpenEpoch(s) PROVE IInv'
<1> USE DEF OpenEpoch, Goto, store, gcState, handle
<1>1. TypeOK'
  BY DEF IInv, TypeOK, PC, Packs
<1>2. LockInv'
  BY DEF IInv, TypeOK, LockInv
<1>3. GenInv'
  BY DEF IInv, TypeOK, GenInv
<1>4. ViewInv'
  BY DEF IInv, TypeOK, GenInv, ViewInv
<1>5. PlanInv'
  BY DEF IInv, TypeOK, PlanInv, Stored
<1> QED BY <1>1, <1>2, <1>3, <1>4, <1>5, Frame

LEMMA OpenStoreOK ==
    ASSUME IInv, NEW s \in Session, OpenStore(s) PROVE IInv'
<1> USE DEF OpenStore, Goto, store, gcState, handle
<1>1. TypeOK'
  BY DEF IInv, TypeOK, PC, Packs
<1>2. LockInv'
  BY DEF IInv, TypeOK, LockInv
<1>3. GenInv'
  BY DEF IInv, TypeOK, GenInv
<1>4. ViewInv'
  BY DEF IInv, TypeOK, GenInv, ViewInv
<1>5. PlanInv'
  BY DEF IInv, TypeOK, PlanInv, Stored
<1> QED BY <1>1, <1>2, <1>3, <1>4, <1>5, Frame

LEMMA CommitFailsOK ==
    ASSUME IInv, NEW s \in Session, CommitFails(s) PROVE IInv'
<1> USE DEF CommitFails, Goto, store, gcState, handle
<1>1. TypeOK'
  BY DEF IInv, TypeOK, PC, Packs
<1>2. LockInv'
  BY DEF IInv, TypeOK, LockInv
<1>3. GenInv'
  BY DEF IInv, TypeOK, GenInv
<1>4. ViewInv'
  BY DEF IInv, TypeOK, GenInv, ViewInv
<1>5. PlanInv'
  BY DEF IInv, TypeOK, PlanInv, Stored
<1> QED BY <1>1, <1>2, <1>3, <1>4, <1>5, Frame

LEMMA RefreshProbeOK ==
    ASSUME IInv, NEW s \in Session, RefreshProbe(s) PROVE IInv'
<1> USE DEF RefreshProbe, Goto, store, gcState, handle
<1>1. TypeOK'
  BY DEF IInv, TypeOK, PC, Packs
<1>2. LockInv'
  BY DEF IInv, TypeOK, LockInv
<1>3. GenInv'
  BY DEF IInv, TypeOK, GenInv
<1>4. ViewInv'
  BY DEF IInv, TypeOK, GenInv, ViewInv
<1>5. PlanInv'
  BY DEF IInv, TypeOK, PlanInv, Stored
<1> QED BY <1>1, <1>2, <1>3, <1>4, <1>5, Frame

LEMMA RefreshSyncOK ==
    ASSUME IInv, NEW s \in Session, RefreshSync(s) PROVE IInv'
<1> USE DEF RefreshSync, Goto, SyncMarker, Reloaded, store, gcState, handle
<1>1. TypeOK'
  BY DEF IInv, TypeOK, PC, Packs
<1>2. LockInv'
  BY DEF IInv, TypeOK, LockInv
<1>3. GenInv'
  BY DEF IInv, TypeOK, GenInv
<1>4. ViewInv'
  BY DEF IInv, TypeOK, GenInv, ViewInv
<1>5. PlanInv'
  BY DEF IInv, TypeOK, PlanInv, Stored
<1> QED BY <1>1, <1>2, <1>3, <1>4, <1>5, Frame

LEMMA RefreshStageOK ==
    ASSUME IInv, NEW s \in Session, RefreshStage(s) PROVE IInv'
<1> USE DEF RefreshStage, Goto, Vouched, store, gcState, handle
<1>1. TypeOK'
  BY DEF IInv, TypeOK, PC, Packs
<1>2. LockInv'
  BY DEF IInv, TypeOK, LockInv
<1>3. GenInv'
  BY DEF IInv, TypeOK, GenInv
<1>4. ViewInv'
  BY DEF IInv, TypeOK, GenInv, ViewInv
<1>5. PlanInv'
  BY DEF IInv, TypeOK, PlanInv, Stored
<1> QED BY <1>1, <1>2, <1>3, <1>4, <1>5, Frame

LEMMA RefreshFlushFailsOK ==
    ASSUME IInv, NEW s \in Session, RefreshFlushFails(s) PROVE IInv'
<1> USE DEF RefreshFlushFails, Goto, Vouched, store, gcState, handle
<1>1. TypeOK'
  BY DEF IInv, TypeOK, PC, Packs
<1>2. LockInv'
  BY DEF IInv, TypeOK, LockInv
<1>3. GenInv'
  BY DEF IInv, TypeOK, GenInv
<1>4. ViewInv'
  BY DEF IInv, TypeOK, GenInv, ViewInv
<1>5. PlanInv'
  BY DEF IInv, TypeOK, PlanInv, Stored
<1> QED BY <1>1, <1>2, <1>3, <1>4, <1>5, Frame

LEMMA RefreshGivesUpOK ==
    ASSUME IInv, NEW s \in Session, RefreshGivesUp(s) PROVE IInv'
<1> USE DEF RefreshGivesUp, Goto, store, gcState, handle
<1>1. TypeOK'
  BY DEF IInv, TypeOK, PC, Packs
<1>2. LockInv'
  BY DEF IInv, TypeOK, LockInv
<1>3. GenInv'
  BY DEF IInv, TypeOK, GenInv
<1>4. ViewInv'
  BY DEF IInv, TypeOK, GenInv, ViewInv
<1>5. PlanInv'
  BY DEF IInv, TypeOK, PlanInv, Stored
<1> QED BY <1>1, <1>2, <1>3, <1>4, <1>5, Frame

LEMMA ExitOK ==
    ASSUME IInv, NEW s \in Session, Exit(s) PROVE IInv'
<1> USE DEF Exit, store, gcState, handle
<1>1. TypeOK'
  BY DEF IInv, TypeOK, PC, Packs
<1>2. LockInv'
  BY DEF IInv, TypeOK, LockInv
<1>3. GenInv'
  BY DEF IInv, TypeOK, GenInv
<1>4. ViewInv'
  BY DEF IInv, TypeOK, GenInv, ViewInv
<1>5. PlanInv'
  BY DEF IInv, TypeOK, PlanInv, Stored
<1> QED BY <1>1, <1>2, <1>3, <1>4, <1>5, Frame

-----------------------------------------------------------------------------
(* Steps of a session that write nodes, HEAD or the sidecar. *)

(* A flush keeps what is stored, for HEAD, the sidecar and the collector. *)
LEMMA FlushKeeps ==
    ASSUME IInv, NEW s \in Session, NEW nodes \in SUBSET Node,
           NEW listed \in SUBSET Packs, FlushInto(s, nodes, listed)
    PROVE  /\ Stored(disk) \subseteq Stored(disk)'
           /\ Stored(disk \ old) \subseteq UNION { body'[p] : p \in disk' \ old }
           /\ \A t \in Session \ {s} : Stored(view[t]) \subseteq Stored(view[t])'
<1>1. /\ \A p \in Packs : body'[p] = body[p]
      /\ disk \subseteq disk' /\ (disk' \ disk) \cap Packs = {}
      /\ \A t \in Session \ {s} : view'[t] = view[t]
  BY Flushed DEF IInv
<1>2. disk \subseteq Packs /\ old \subseteq Packs /\ \A t \in Session : view[t] \subseteq Packs
  BY DEF IInv, TypeOK
<1> QED BY <1>1, <1>2 DEF Stored

(* Under the lock, with no collection, a synchronised session lists only   *)
(* packs that exist.                                                       *)
LEMMA ReloadedExists ==
    ASSUME IInv, NEW s \in Session, lock = NoOne
    PROVE  gcpc = "idle" /\ Reloaded(s) \subseteq disk /\ Reloaded(s) \subseteq Packs
<1>1. gcpc = "idle"
  BY DEF IInv, LockInv
<1> QED BY <1>1 DEF IInv, TypeOK, ViewInv, Reloaded

LEMMA CommitNodesOK ==
    ASSUME IInv, NEW s \in Session, CommitNodes(s) PROVE IInv'
<1> USE DEF CommitNodes, Goto, SyncMarker
<1> PICK nodes \in SUBSET Node :
      /\ plan' = [plan EXCEPT ![s] = nodes]
      /\ FlushInto(s, nodes \ (head.nodes \cup Stored(Reloaded(s))), Reloaded(s))
  OBVIOUS
<1> DEFINE new == nodes \ (head.nodes \cup Stored(Reloaded(s)))
<1>1. gcpc = "idle" /\ Reloaded(s) \subseteq disk /\ Reloaded(s) \subseteq Packs
  BY ReloadedExists
<1>2. /\ body' \in Seq(SUBSET Node) /\ disk' \subseteq Packs' /\ Packs \subseteq Packs'
      /\ disk \subseteq disk'
      /\ view' \in [Session -> SUBSET Packs']
      /\ \A t \in Session \ {s} : view'[t] = view[t]
      /\ view'[s] \ Reloaded(s) \subseteq disk'
      /\ \A n \in new : \E p \in view'[s] \cap disk' : n \in body'[p]
  <2>1. new \in SUBSET Node /\ Reloaded(s) \in SUBSET Packs
    BY <1>1
  <2>2. FlushInto(s, new, Reloaded(s)) /\ TypeOK
    BY DEF IInv
  <2> HIDE DEF new
  <2> QED BY <2>1, <2>2, Flushed
<1>3. /\ Stored(disk) \subseteq Stored(disk)'
      /\ \A t \in Session \ {s} : Stored(view[t]) \subseteq Stored(view[t])'
  BY <1>1, FlushKeeps
<1>4. TypeOK'
  BY <1>1, <1>2 DEF IInv, TypeOK, PC, gcState
<1>5. LockInv'
  BY DEF IInv, TypeOK, LockInv, gcState
<1>6. GcInv'
  BY <1>1 DEF GcInv, gcState
<1>7. GenInv'
  BY <1>1, <1>2 DEF IInv, TypeOK, GenInv, gcState
<1>8. ViewInv'
  BY <1>1, <1>2 DEF IInv, TypeOK, ViewInv, gcState
<1>9. nodes \subseteq Stored(disk)'
  <2>1. head.nodes \subseteq Stored(disk)
    BY DEF IInv, HeadResolvable
  <2>2. Stored(Reloaded(s)) \subseteq Stored(disk)
    BY <1>1, StoredMono
  <2>3. new \subseteq Stored(disk)'
    <3> HIDE DEF new
    <3> QED BY <1>2 DEF Stored
  <2> QED BY <1>3, <2>1, <2>2, <2>3
<1>10. PlanInv'
  <2>1. \A t \in Session : pc'[t] = "staged" => plan'[t] \subseteq Stored(disk)'
    BY <1>3, <1>9 DEF IInv, TypeOK, PlanInv
  <2>2. \A t \in Session : pc'[t] = "flushed" => plan'[t] \subseteq Stored(view[t])'
    BY <1>3 DEF IInv, TypeOK, PlanInv
  <2> QED BY <2>1, <2>2 DEF PlanInv, Stored
<1>11. HeadResolvable' /\ CacheResolvable'
  BY <1>3 DEF IInv, HeadResolvable, CacheResolvable
<1> QED BY <1>4, <1>5, <1>6, <1>7, <1>8, <1>10, <1>11 DEF IInv

LEMMA PublishHeadOK ==
    ASSUME IInv, NEW s \in Session, PublishHead(s) PROVE IInv'
<1> USE DEF PublishHead, Goto, store, gcState, handle
<1>1. lock = s /\ gcpc = "idle" /\ plan[s] \subseteq Stored(disk)
  BY DEF IInv, LockInv, PlanInv
<1>2. TypeOK'
  BY <1>1 DEF IInv, TypeOK, LockInv, PC, Packs
<1>3. LockInv'
  BY <1>1 DEF IInv, TypeOK, LockInv
<1>4. GcInv'
  BY <1>1 DEF GcInv
<1>5. GenInv' /\ ViewInv'
  BY <1>1 DEF IInv, TypeOK, GenInv, ViewInv
<1>6. PlanInv'
  BY DEF IInv, TypeOK, PlanInv, Stored
<1>7. HeadResolvable' /\ CacheResolvable'
  BY <1>1 DEF IInv, HeadResolvable, CacheResolvable, Stored
<1> QED BY <1>2, <1>3, <1>4, <1>5, <1>6, <1>7 DEF IInv

LEMMA RefreshLockedOK ==
    ASSUME IInv, NEW s \in Session, RefreshLocked(s) PROVE IInv'
<1> USE DEF RefreshLocked, SyncMarker
<1> PICK nodes \in SUBSET Node :
      /\ FlushInto(s, nodes \ Stored(Reloaded(s)), Reloaded(s))
      /\ cache' = nodes
  OBVIOUS
<1> DEFINE new == nodes \ Stored(Reloaded(s))
<1>1. gcpc = "idle" /\ Reloaded(s) \subseteq disk /\ Reloaded(s) \subseteq Packs
  BY ReloadedExists
<1>2. /\ body' \in Seq(SUBSET Node) /\ disk' \subseteq Packs' /\ Packs \subseteq Packs'
      /\ disk \subseteq disk'
      /\ view' \in [Session -> SUBSET Packs']
      /\ \A t \in Session \ {s} : view'[t] = view[t]
      /\ view'[s] \ Reloaded(s) \subseteq disk'
      /\ \A n \in new : \E p \in view'[s] \cap disk' : n \in body'[p]
  <2>1. new \in SUBSET Node /\ Reloaded(s) \in SUBSET Packs
    BY <1>1
  <2>2. FlushInto(s, new, Reloaded(s)) /\ TypeOK
    BY DEF IInv
  <2> HIDE DEF new
  <2> QED BY <2>1, <2>2, Flushed
<1>3. /\ Stored(disk) \subseteq Stored(disk)'
      /\ \A t \in Session \ {s} : Stored(view[t]) \subseteq Stored(view[t])'
  BY <1>1, FlushKeeps
<1>4. TypeOK'
  BY <1>1, <1>2 DEF IInv, TypeOK, PC, gcState
<1>5. LockInv'
  BY DEF IInv, TypeOK, LockInv, gcState
<1>6. GcInv'
  BY <1>1 DEF GcInv, gcState
<1>7. GenInv'
  <2>1. \A t \in Session : gen'[t] <= epoch
    BY DEF IInv, TypeOK, GenInv
  <2>2. \A t \in Session :
           pc[t] \in {"closed", "headRead", "epochRead"} => t # s /\ view'[t] = {}
    BY <1>2 DEF IInv, GenInv
  <2> QED BY <1>1, <2>1, <2>2 DEF IInv, GenInv, gcState
<1>8. ViewInv'
  BY <1>1, <1>2 DEF IInv, TypeOK, ViewInv, gcState
<1>9. nodes \subseteq Stored(disk)'
  <2>1. Stored(Reloaded(s)) \subseteq Stored(disk)
    BY <1>1, StoredMono
  <2>2. new \subseteq Stored(disk)'
    <3> HIDE DEF new
    <3> QED BY <1>2 DEF Stored
  <2> QED BY <1>3, <2>1, <2>2
<1>10. PlanInv'
  <2>1. \A t \in Session : pc'[t] = "staged" => plan'[t] \subseteq Stored(disk)'
    BY <1>3 DEF IInv, TypeOK, PlanInv
  <2>2. \A t \in Session : pc'[t] = "flushed" => plan'[t] \subseteq Stored(view[t])'
    BY <1>3 DEF IInv, TypeOK, PlanInv
  <2> QED BY <2>1, <2>2 DEF PlanInv, Stored
<1>11. HeadResolvable'
  BY <1>3 DEF IInv, HeadResolvable
<1>12. CacheResolvable'
  BY <1>9 DEF CacheResolvable
<1> QED BY <1>4, <1>5, <1>6, <1>7, <1>8, <1>10, <1>11, <1>12 DEF IInv

LEMMA RefreshFlushOK ==
    ASSUME IInv, NEW s \in Session, RefreshFlush(s) PROVE IInv'
<1> USE DEF RefreshFlush, Goto
<1> DEFINE new == plan[s] \ Vouched(s)
<1>0. new \in SUBSET Node /\ view[s] \in SUBSET Packs /\ FlushInto(s, new, view[s])
  BY DEF IInv, TypeOK
<1> HIDE DEF new
<1>1. /\ body' \in Seq(SUBSET Node) /\ disk' \subseteq Packs' /\ Packs \subseteq Packs'
      /\ \A p \in Packs : body'[p] = body[p]
      /\ disk \subseteq disk'
      /\ view' \in [Session -> SUBSET Packs']
      /\ \A t \in Session \ {s} : view'[t] = view[t]
      /\ view'[s] \ view[s] \subseteq disk' /\ view[s] \subseteq view'[s]
      /\ \A n \in new : \E p \in view'[s] \cap disk' : n \in body'[p]
  <2>1. TypeOK
    BY DEF IInv
  <2> QED BY <1>0, <2>1, Flushed
<1>2. /\ Stored(disk) \subseteq Stored(disk)'
      /\ Stored(disk \ old) \subseteq UNION { body'[p] : p \in disk' \ old }
      /\ \A t \in Session \ {s} : Stored(view[t]) \subseteq Stored(view[t])'
  BY <1>0, FlushKeeps
<1>3. TypeOK'
  BY <1>1 DEF IInv, TypeOK, PC, gcState
<1>4. LockInv'
  BY DEF IInv, TypeOK, LockInv, gcState
<1>5. GcInv'
  BY <1>2 DEF IInv, GcInv, gcState, Stored
<1>6. GenInv'
  BY <1>1 DEF IInv, TypeOK, GenInv, gcState
<1>7. ViewInv'
  BY <1>1 DEF IInv, TypeOK, ViewInv, gcState
<1>8. plan[s] \subseteq Stored(view[s])'
  <2>1. Stored(view[s]) \subseteq Stored(view[s])'
    BY <1>0, <1>1 DEF Stored
  <2>2. new \subseteq Stored(view[s])'
    BY <1>1 DEF Stored
  <2>3. plan[s] \subseteq new \cup Stored(view[s])
    BY DEF new, Vouched
  <2> QED BY <2>1, <2>2, <2>3
<1>9. PlanInv'
  <2>1. \A t \in Session : pc'[t] = "staged" => plan'[t] \subseteq Stored(disk)'
    BY <1>2 DEF IInv, TypeOK, PlanInv
  <2>2. \A t \in Session : pc'[t] = "flushed" => plan'[t] \subseteq Stored(view[t])'
    BY <1>2, <1>8 DEF IInv, TypeOK, PlanInv
  <2> QED BY <2>1, <2>2 DEF PlanInv, Stored
<1>10. HeadResolvable' /\ CacheResolvable'
  BY <1>2 DEF IInv, HeadResolvable, CacheResolvable
<1> QED BY <1>3, <1>4, <1>5, <1>6, <1>7, <1>9, <1>10 DEF IInv

LEMMA RefreshPublishOK ==
    ASSUME IInv, NEW s \in Session, RefreshPublish(s) PROVE IInv'
<1> USE DEF RefreshPublish, Goto, store, gcState, handle
<1>1. gcpc = "idle"
  BY DEF IInv, LockInv
<1>2. plan[s] \subseteq Stored(disk)
  <2>1. view[s] \subseteq disk /\ plan[s] \subseteq Stored(view[s])
    BY <1>1 DEF IInv, ViewInv, PlanInv
  <2> QED BY <2>1, StoredMono
<1>3. TypeOK'
  BY DEF IInv, TypeOK, PC, Packs
<1>4. LockInv' /\ GcInv'
  BY <1>1 DEF IInv, TypeOK, LockInv, GcInv
<1>5. GenInv' /\ ViewInv'
  BY <1>1 DEF IInv, TypeOK, GenInv, ViewInv
<1>6. PlanInv'
  BY DEF IInv, TypeOK, PlanInv, Stored
<1>7. HeadResolvable' /\ CacheResolvable'
  BY <1>2 DEF IInv, HeadResolvable, CacheResolvable, Stored
<1> QED BY <1>3, <1>4, <1>5, <1>6, <1>7 DEF IInv

-----------------------------------------------------------------------------
(* Steps of the collector. *)

LEMMA GcStartOK ==
    ASSUME IInv, GcStart PROVE IInv'
<1> USE DEF GcStart, store, handle
<1>1. Marked = head.nodes \cup cache
  BY DEF IInv, HeadResolvable, CacheResolvable, Marked
<1>2. TypeOK'
  BY <1>1 DEF IInv, TypeOK, Packs
<1>3. LockInv' /\ GenInv' /\ ViewInv'
  BY DEF IInv, TypeOK, LockInv, GenInv, ViewInv
<1>4. GcInv'
  BY <1>1 DEF GcInv
<1>5. PlanInv' /\ HeadResolvable' /\ CacheResolvable'
  BY DEF IInv, PlanInv, HeadResolvable, CacheResolvable, Stored
<1> QED BY <1>2, <1>3, <1>4, <1>5 DEF IInv

LEMMA GcCopyOK ==
    ASSUME IInv, GcCopy PROVE IInv'
<1> USE DEF GcCopy, handle
<1> PICK nodes \in SUBSET (live \ copied) \ {{}} :
      PublishPack(nodes) /\ copied' = copied \cup nodes
  OBVIOUS
<1>0. nodes \in SUBSET Node
  BY DEF IInv, TypeOK
<1>1. /\ body' \in Seq(SUBSET Node)
      /\ \A p \in Packs : body'[p] = body[p]
      /\ body'[Len(body) + 1] = nodes
      /\ disk' = disk \cup {Len(body) + 1}
      /\ Packs \subseteq Packs' /\ Len(body) + 1 \in Packs' \ Packs
  BY <1>0, Published DEF IInv
<1>2. disk \subseteq Packs /\ old \subseteq Packs /\ \A t \in Session : view[t] \subseteq Packs
  BY DEF IInv, TypeOK
<1>3. /\ Stored(disk) \subseteq Stored(disk)'
      /\ \A t \in Session : Stored(view[t]) \subseteq Stored(view[t])'
  BY <1>1, <1>2 DEF Stored
<1>4. TypeOK'
  BY <1>1 DEF IInv, TypeOK
<1>5. LockInv' /\ GenInv' /\ ViewInv'
  BY <1>1 DEF IInv, TypeOK, LockInv, GenInv, ViewInv
<1>6. GcInv'
  <2>1. copied \subseteq Stored(disk \ old)
    BY DEF IInv, GcInv
  <2>2. Stored(disk \ old) \subseteq Stored(disk \ old)'
    BY <1>1, <1>2 DEF Stored
  <2>3. nodes \subseteq Stored(disk \ old)'
    BY <1>1, <1>2 DEF Stored
  <2>4. copied' \subseteq Stored(disk \ old)'
    BY <2>1, <2>2, <2>3
  <2> QED BY <2>4 DEF IInv, GcInv
<1>7. PlanInv'
  BY <1>3 DEF IInv, PlanInv
<1>8. HeadResolvable' /\ CacheResolvable'
  BY <1>3 DEF IInv, HeadResolvable, CacheResolvable
<1> QED BY <1>4, <1>5, <1>6, <1>7, <1>8 DEF IInv

LEMMA GcMarkOK ==
    ASSUME IInv, GcMark, epoch < MaxEpoch PROVE IInv'
<1> USE DEF GcMark, store, handle
<1>1. TypeOK'
  BY DEF IInv, TypeOK, Packs
<1>2. LockInv' /\ GcInv' /\ ViewInv'
  BY DEF IInv, LockInv, GcInv, ViewInv, Stored
<1>3. GenInv'
  BY DEF IInv, TypeOK, GenInv
<1>4. PlanInv' /\ HeadResolvable' /\ CacheResolvable'
  BY DEF IInv, PlanInv, HeadResolvable, CacheResolvable, Stored
<1> QED BY <1>1, <1>2, <1>3, <1>4 DEF IInv

(* The heart of the matter: a pack may go because everything HEAD and the  *)
(* sidecar reach is in a pack that stays.                                  *)
LEMMA GcRetireOK ==
    ASSUME IInv, GcRetire PROVE IInv'
<1> USE DEF GcRetire, handle, gcState
<1>1. disk' \subseteq disk /\ disk \ old = disk' \ old
  OBVIOUS
<1>2. head.nodes \cup cache \subseteq Stored(disk \ old)
  BY DEF IInv, GcInv
<1>3. Stored(disk \ old) \subseteq Stored(disk)'
  BY <1>1 DEF Stored
<1>4. TypeOK'
  BY <1>1 DEF IInv, TypeOK, Packs
<1>5. LockInv' /\ GenInv' /\ ViewInv'
  BY DEF IInv, LockInv, GenInv, ViewInv
<1>6. GcInv'
  BY <1>1 DEF IInv, GcInv, Stored
<1>7. PlanInv'
  BY DEF IInv, PlanInv, LockInv, TypeOK, Stored
<1>8. HeadResolvable' /\ CacheResolvable'
  BY <1>2, <1>3 DEF HeadResolvable, CacheResolvable
<1> QED BY <1>4, <1>5, <1>6, <1>7, <1>8 DEF IInv

LEMMA GcFinishOK ==
    ASSUME IInv, GcFinish, epoch < MaxEpoch PROVE IInv'
<1> USE DEF GcFinish, GcDone, store, handle
<1>1. TypeOK'
  BY DEF IInv, TypeOK, Packs
<1>2. LockInv' /\ GcInv'
  BY DEF IInv, LockInv, GcInv, TypeOK
<1>3. GenInv' /\ ViewInv'
  BY DEF IInv, TypeOK, GenInv, ViewInv
<1>4. PlanInv' /\ HeadResolvable' /\ CacheResolvable'
  BY DEF IInv, PlanInv, HeadResolvable, CacheResolvable, Stored
<1> QED BY <1>1, <1>2, <1>3, <1>4 DEF IInv

LEMMA GcCrashOK ==
    ASSUME IInv, GcCrash, ~Window PROVE IInv'
<1> USE DEF GcCrash, GcDone, store, handle
<1>1. TypeOK'
  BY DEF IInv, TypeOK, Packs
<1>2. LockInv' /\ GcInv'
  BY DEF IInv, LockInv, GcInv, TypeOK
<1>3. GenInv' /\ ViewInv'
  BY DEF IInv, TypeOK, GenInv, ViewInv
<1>4. PlanInv' /\ HeadResolvable' /\ CacheResolvable'
  BY DEF IInv, PlanInv, HeadResolvable, CacheResolvable, Stored
<1> QED BY <1>1, <1>2, <1>3, <1>4 DEF IInv

-----------------------------------------------------------------------------
LEMMA StepOK == ~Window /\ IInv /\ [Next]_vars => IInv'
<1> SUFFICES ASSUME ~Window, IInv, [Next]_vars PROVE IInv'
  OBVIOUS
<1>1. CASE UNCHANGED vars
  BY <1>1 DEF vars, store, gcState, handle, IInv, TypeOK, Packs, LockInv, GcInv, GenInv, ViewInv,
              PlanInv, HeadResolvable, CacheResolvable, Stored
<1>2. GcMark \/ GcFinish => epoch < MaxEpoch
  BY DEF IInv, TypeOK, GenInv, GcMark, GcFinish
<1> QED
  BY <1>1, <1>2, OpenHeadOK, OpenEpochOK, OpenStoreOK, CommitNodesOK, PublishHeadOK,
     CommitFailsOK, RefreshLockedOK, RefreshProbeOK, RefreshSyncOK, RefreshStageOK,
     RefreshFlushOK, RefreshFlushFailsOK, RefreshPublishOK, RefreshGivesUpOK, ExitOK,
     GcStartOK, GcCopyOK, GcMarkOK, GcRetireOK, GcFinishOK, GcCrashOK
     DEF Next

(* The invariant holds in every reachable state. *)
THEOREM Invariance == ~Window /\ Spec => []IInv
<1> SUFFICES ASSUME ~Window PROVE Spec => []IInv
  OBVIOUS
<1>1. IInv /\ [Next]_vars => IInv'
  BY StepOK
<1> QED BY <1>1, InitOK, PTL DEF Spec

(* Packs, markers, plans and the store of every session keep their types   *)
(* through commits, refreshes, collections and their crashes.              *)
THEOREM TypeCorrect == ~Window /\ Spec => []TypeOK
BY Invariance, PTL DEF IInv

(* No collection costs HEAD a node, and no session, however stale, commits *)
(* a HEAD whose nodes a collection removed, unless the collector dies      *)
(* between its two marker writes when a session, without the lock, has     *)
(* read the first (the run gc_stale shows that the exception is real).     *)
THEOREM HeadResolvableCorrect == ~Window /\ Spec => []HeadResolvable
BY Invariance, PTL DEF IInv

(* The same for the nodes the state-cache sidecar names, which a session   *)
(* writes without the lock.                                                *)
THEOREM CacheResolvableCorrect == ~Window /\ Spec => []CacheResolvable
BY Invariance, PTL DEF IInv

(* A session with the current marker vouches for stored nodes only, so     *)
(* that comparing markers is enough to know when to list the packs again.  *)
THEOREM VouchSoundCorrect == ~Window /\ Spec => []VouchSound
<1>1. IInv => VouchSound
  BY StoredMono DEF IInv, ViewInv, VouchSound, Vouched
<1> QED BY <1>1, Invariance, PTL
=============================================================================
