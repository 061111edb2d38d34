---------------------------- MODULE WorldCommit ----------------------------
(***************************************************************************)
(* The commit protocol of a persistent world: WorldSession::apply_batch,   *)
(* open and compact_history of crates/brix-kb/src/world/session.rs and the *)
(* idempotency index of idempotency.rs, run by several processes over one  *)
(* directory, with process crashes, I/O errors and power cuts between any  *)
(* two file operations.                                                    *)
(*                                                                         *)
(* Data.  A revision digest covers the revision's sequence number, its     *)
(* parent's digest, its batch digest and its key, and the time stamp is a  *)
(* constant (iso_now), so a digest is the sequence of the batches that led *)
(* to it: a history.  A revision, a receipt and a decision-delta file are  *)
(* each determined by that history and are modelled by it; the empty       *)
(* history in one of them is an absent file, in HEAD it is revision 0.     *)
(* The trie nodes a commit adds (relations, secondary indexes, network     *)
(* state, idempotency index) are one bundle, named by the history.         *)
(***************************************************************************)
EXTENDS Naturals, Sequences, FiniteSets, SequencesExt

CONSTANTS Session,   \* processes, each holding at most one WorldSession
          Key,       \* idempotency keys
          Ops,       \* operation lists of batches
          MaxSeq,    \* bound: revisions are not committed past MaxSeq
          MaxTail,   \* MAX_TAIL: how far a sidecar may lag behind HEAD
          NoOne,     \* the writer lock is free
          NoBatch,   \* no batch is being committed
          MaxFailures \* bound on failed commits and power cuts

ASSUME CommitAssumption ==
    /\ MaxSeq \in Nat
    /\ MaxTail \in Nat
    /\ NoOne \notin Session
    /\ MaxFailures \in Nat

(* brix.world.batch@1; the batch digest covers all three fields. *)
Batch == [base : 0..MaxSeq, key : Key, ops : Ops]

History == Seq(Batch)

Keys(h) == { h[i].key : i \in 1..Len(h) }

(* The files of the world's directories that a commit renames into place. *)
HEAD == <<"HEAD", 0>>
Delta(n) == <<"delta", n>>
Rev(n) == <<"revision", n>>
Rcpt(n) == <<"receipt", n>>

RootDir == {HEAD}
RevisionsDir == { Delta(n) : n \in 1..MaxSeq } \cup { Rev(n) : n \in 1..MaxSeq }
ReceiptsDir == { Rcpt(n) : n \in 1..MaxSeq }
File == RootDir \cup RevisionsDir \cup ReceiptsDir

(* The idempotency index: the committed history each key ends, if any. *)
Index == [Key -> History]
EmptyIndex == [k \in Key |-> <<>>]

(* The sidecar idempotency.json: the revision it was written for and the *)
(* index its root names.  An absent or torn sidecar is NoSidecar.        *)
Sidecar == [present : BOOLEAN, at : History, root : Index]
NoSidecar == [present |-> FALSE, at |-> <<>>, root |-> EmptyIndex]

VARIABLES
    vis,     \* File -> the content a process reads
    may,     \* File -> the contents a power cut may leave
    objs,    \* bundles in a published pack
    synced,  \* those whose pack survives a power cut
    side,    \* the idempotency sidecar a process reads
    sideMay, \* the sidecars a power cut may leave
    lock,    \* holder of the writer lock
    pc,      \* Session -> where its process is
    cur,     \* Session -> current_revision and its digest
    seen,    \* Session -> bundles the session's node store knows as stored
    latched, \* Session -> the node store latched an I/O failure
    idx,     \* Session -> its idempotency index
    whole,   \* Session -> the index may be published (complete)
    req,     \* Session -> the batch it is committing
    failures, \* failed commits and power cuts so far
    fresh,   \* histories acknowledged as a new commit
    replayed, \* histories acknowledged as an idempotent replay
    power    \* "steady" until the machine first loses power, then "cut"

disk == <<vis, may, objs, synced, side, sideMay>>
memory == <<cur, seen, latched, idx, whole>>
ghost == <<fresh, replayed, power>>
vars == <<disk, lock, pc, memory, req, failures, ghost>>

(* Steps of apply_batch after its checks, in order; the lock is held. *)
Committing == {"staged", "packed", "flushed", "deltaWritten", "deltaSynced",
               "revWritten", "revSynced", "rcptWritten", "rcptSynced",
               "headRenamed"}

PC == {"closed", "opening", "upgrading", "ready"} \cup Committing

Init ==
    /\ vis = [f \in File |-> <<>>]
    /\ may = [f \in File |-> {<<>>}]
    /\ objs = {} /\ synced = {}
    /\ side = NoSidecar /\ sideMay = {NoSidecar}
    /\ lock = NoOne
    /\ pc = [s \in Session |-> "closed"]
    /\ cur = [s \in Session |-> <<>>]
    /\ seen = [s \in Session |-> {}]
    /\ latched = [s \in Session |-> FALSE]
    /\ idx = [s \in Session |-> EmptyIndex]
    /\ whole = [s \in Session |-> TRUE]
    /\ req = [s \in Session |-> NoBatch]
    /\ failures = 0
    /\ fresh = {} /\ replayed = {} /\ power = "steady"

-----------------------------------------------------------------------------
(* File operations.  A temporary file is fsynced before its rename, so its *)
(* content is never torn; until the directory is fsynced a power cut may   *)
(* undo the rename.                                                        *)

Rename(f, h) ==
    /\ vis' = [vis EXCEPT ![f] = h]
    /\ may' = [may EXCEPT ![f] = @ \cup {h}]

SyncDir(dir) ==
    may' = [f \in File |-> IF f \in dir THEN {vis[f]} ELSE may[f]]

(* Mutant: the root directory is not fsynced. *)
SyncRootForgotten == UNCHANGED may

(* HEAD's rename becomes durable (and so does the sidecar's). *)
SyncRoot == SyncDir(RootDir)

(* The bundles a reader of revision h reaches. *)
Reachable(h) == { SubSeq(h, 1, n) : n \in 1..Len(h) }

-----------------------------------------------------------------------------
(* The idempotency index. *)

(* The record of revision n: its receipt, else its revision file. *)
RecordOf(n) == IF vis[Rcpt(n)] # <<>> THEN vis[Rcpt(n)] ELSE vis[Rev(n)]

(* i, then the records of revisions first..last inserted in order. *)
CatchUp(i, first, last) ==
    [k \in Key |->
        LET hits == { n \in first..last :
                        RecordOf(n) # <<>> /\ Last(RecordOf(n)).key = k }
        IN  IF hits = {} THEN i[k]
            ELSE RecordOf(CHOOSE n \in hits : \A m \in hits : m <= n)]

(* Mutant: records of uncommitted attempts past HEAD are read as well. *)
FromScanPastHead(h) == CatchUp(EmptyIndex, 1, MaxSeq)

(* Mutant: the last revision is left out. *)
FromScanShort(h) == CatchUp(EmptyIndex, 1, Len(h) - 1)

(* Every receipt, then every revision record without one; records past *)
(* the HEAD that was read are uncommitted attempts and are ignored.    *)
FromScan(h) == CatchUp(EmptyIndex, 1, Len(h))

(* Mutant: the digest of the sidecar's revision is not compared. *)
SidecarSoundBySeq(h) ==
    /\ side.present
    /\ Len(side.at) <= Len(h)
    /\ Len(h) - Len(side.at) <= MaxTail

(* The sidecar names this world's own past: it is not ahead of HEAD, not *)
(* too far behind it, and the record of its revision has its digest.     *)
SidecarSound(h) ==
    /\ side.present
    /\ Len(side.at) <= Len(h)
    /\ Len(h) - Len(side.at) <= MaxTail
    /\ \/ Len(side.at) = Len(h) /\ side.at = h
       \/ Len(side.at) = 0
       \/ Len(side.at) \in 1..(Len(h) - 1) /\ RecordOf(Len(side.at)) = side.at
    /\ \A n \in (Len(side.at) + 1)..Len(h) : RecordOf(n) # <<>>

(* The index the sidecar names, caught up with the records after it. *)
FromSidecar(h) == CatchUp(side.root, Len(side.at) + 1, Len(h))

(* The sidecar is renamed into place over those in left; its content is   *)
(* not fsynced, so a power cut may also leave none.                       *)
PublishSidecar(h, i, left) ==
    LET sc == [present |-> TRUE, at |-> h, root |-> i]
    IN  side' = sc /\ sideMay' = left \cup {sc}

-----------------------------------------------------------------------------
(* WorldSession::open. *)

(* One more of the failures a run has room for. *)
Fail == failures < MaxFailures /\ failures' = failures + 1

(* HEAD is read first, without the lock; writers may run before the rest. *)
ReadHead(s) ==
    /\ pc[s] = "closed"
    /\ pc' = [pc EXCEPT ![s] = "opening"]
    /\ cur' = [cur EXCEPT ![s] = vis[HEAD]]
    /\ UNCHANGED <<disk, lock, seen, latched, idx, whole, req, failures, ghost>>

(* The revision record HEAD names, its decision delta and every node of  *)
(* it are there, with the digests HEAD and the record give.              *)
Opens(h) ==
    h # <<>> =>
        /\ vis[Rev(Len(h))] = h
        /\ vis[Delta(Len(h))] = h
        /\ Reachable(h) \subseteq objs

LoadSession(s) ==
    /\ pc[s] = "opening"
    /\ Opens(cur[s])
    /\ seen' = [seen EXCEPT ![s] = objs]
    /\ latched' = [latched EXCEPT ![s] = FALSE]
    /\ whole' = [whole EXCEPT ![s] = TRUE]
    /\ \/ /\ SidecarSound(cur[s])
          /\ idx' = [idx EXCEPT ![s] = FromSidecar(cur[s])]
          /\ pc' = [pc EXCEPT ![s] = "ready"]
       \/ /\ idx' = [idx EXCEPT ![s] = FromScan(cur[s])]
          /\ pc' = [pc EXCEPT ![s] = IF FromScan(cur[s]) = EmptyIndex
                                     THEN "ready" ELSE "upgrading"]
    /\ UNCHANGED <<disk, lock, cur, req, failures, ghost>>


OpenFails(s) ==
    /\ pc[s] = "opening"
    /\ ~Opens(cur[s])
    /\ pc' = [pc EXCEPT ![s] = "closed"]
    /\ cur' = [cur EXCEPT ![s] = <<>>]
    /\ UNCHANGED <<disk, lock, seen, latched, idx, whole, req, failures, ghost>>

(* Best effort, and only when the lock is free and HEAD has not moved. *)
RepublishIndex(s, left) ==
    \/ /\ lock = NoOne
       /\ Len(vis[HEAD]) = Len(cur[s])
       /\ PublishSidecar(cur[s], idx[s], left)
    \/ side' = side /\ sideMay' = left

(* persist_idempotency_index after an open that scanned.  If the index has *)
(* nodes to write, their flush fsyncs the objects directory, and the root  *)
(* directory too when it is the first flush of the store.                  *)
UpgradeIndex(s) ==
    /\ pc[s] = "upgrading"
    /\ pc' = [pc EXCEPT ![s] = "ready"]
    /\ synced' \in {synced, objs}
    /\ \/ UNCHANGED may /\ RepublishIndex(s, sideMay)
       \/ SyncRoot /\ RepublishIndex(s, {side})
    /\ UNCHANGED <<vis, objs, lock, memory, req, failures, ghost>>

(* That flush fails: open goes on with a node store that has latched. *)
UpgradeFails(s) ==
    /\ pc[s] = "upgrading"
    /\ pc' = [pc EXCEPT ![s] = "ready"]
    /\ Fail
    /\ latched' = [latched EXCEPT ![s] = TRUE]
    /\ UNCHANGED <<disk, lock, cur, seen, idx, whole, req, ghost>>

-----------------------------------------------------------------------------
(* WorldSession::apply_batch. *)

New(s) == Append(cur[s], req[s])
Seq1(s) == Len(cur[s]) + 1

(* Mutant: HEAD is not read again under the lock. *)
MayApplyStale(s) == pc[s] = "ready" /\ lock = NoOne

(* Under the lock, and after a comparison of HEAD's sequence number with   *)
(* the session's.  A batch that is answered with an error (lock not had in *)
(* time, stale base, idempotency conflict, conflicting operations, fuel    *)
(* exhausted) changes nothing and is not an action.                        *)
MayApply(s) ==
    /\ pc[s] = "ready"
    /\ lock = NoOne
    /\ Len(vis[HEAD]) = Len(cur[s])

(* committed_info, when a node of the index cannot be read: the index is  *)
(* rebuilt from the receipts, is never published, and the sidecar is      *)
(* removed; the lookup goes on with the rebuilt index.                    *)
RebuildIndex(s) ==
    /\ MayApply(s)
    /\ idx' = [idx EXCEPT ![s] = FromScan(cur[s])]
    /\ whole' = [whole EXCEPT ![s] = FALSE]
    /\ side' = NoSidecar
    /\ sideMay' = sideMay \cup {NoSidecar}
    /\ UNCHANGED <<vis, may, objs, synced, lock, pc, cur, seen, latched, req, failures, ghost>>

(* The key is known and its batch is this one: the original receipt. *)
Replay(s, b) ==
    /\ MayApply(s)
    /\ idx[s][b.key] # <<>> /\ Last(idx[s][b.key]) = b
    /\ replayed' = replayed \cup {idx[s][b.key]}
    /\ UNCHANGED <<disk, lock, pc, memory, req, failures, fresh, power>>

(* The key is new and the base is the current revision; the updates are   *)
(* staged in memory and the new trie nodes in an unpublished pack.        *)
Stage(s, b) ==
    /\ MayApply(s)
    /\ idx[s][b.key] = <<>>
    /\ b.base = Len(cur[s])
    /\ Len(cur[s]) < MaxSeq
    /\ req' = [req EXCEPT ![s] = b]
    /\ lock' = s
    /\ pc' = [pc EXCEPT ![s] = "staged"]
    /\ UNCHANGED <<disk, memory, failures, ghost>>

(* Mutant: the error path keeps the lock. *)
AbortLocked(s) ==
    /\ UNCHANGED lock
    /\ pc' = [pc EXCEPT ![s] = "ready"]
    /\ req' = [req EXCEPT ![s] = NoBatch]

(* apply_batch returns an error: the lock is dropped and the session lives *)
(* on with what it had in memory.                                          *)
Abort(s) ==
    /\ lock' = NoOne
    /\ pc' = [pc EXCEPT ![s] = "ready"]
    /\ req' = [req EXCEPT ![s] = NoBatch]

(* FileNodeStore::flush.  Nodes the store already knows are not written,  *)
(* and with nothing pending flush returns at once; otherwise it renames   *)
(* the pack into place and then fsyncs the objects directory.             *)
FlushNothing(s) ==
    /\ pc[s] = "staged" /\ ~latched[s]
    /\ New(s) \in seen[s]
    /\ pc' = [pc EXCEPT ![s] = "flushed"]
    /\ UNCHANGED <<disk, lock, memory, req, failures, ghost>>

(* Mutant: the directory is fsynced before the pack is renamed into it. *)
FlushPackSyncedFirst(s) ==
    /\ pc[s] = "staged" /\ ~latched[s]
    /\ New(s) \notin seen[s]
    /\ synced' = synced \cup {New(s)}
    /\ pc' = [pc EXCEPT ![s] = "packed"]
    /\ UNCHANGED <<vis, may, objs, side, sideMay, lock, memory, req, failures, ghost>>

FlushPack(s) ==
    /\ pc[s] = "staged" /\ ~latched[s]
    /\ New(s) \notin seen[s]
    /\ objs' = objs \cup {New(s)}
    /\ pc' = [pc EXCEPT ![s] = "packed"]
    /\ UNCHANGED <<vis, may, synced, side, sideMay, lock, memory, req, failures, ghost>>

(* A latched store refuses every later flush. *)
FlushLatched(s) ==
    /\ pc[s] = "staged" /\ latched[s]
    /\ Abort(s)
    /\ UNCHANGED <<disk, memory, failures, ghost>>

(* The first flush of a store also fsyncs the root directory. *)
SyncObjects(s) ==
    /\ pc[s] = "packed"
    /\ synced' = objs
    /\ \/ UNCHANGED <<may, sideMay>>
       \/ SyncRoot /\ sideMay' = {side}
    /\ seen' = [seen EXCEPT ![s] = @ \cup {New(s)}]
    /\ pc' = [pc EXCEPT ![s] = "flushed"]
    /\ UNCHANGED <<vis, objs, side, lock, cur, latched, idx, whole, req, failures, ghost>>

(* One rename of the publication sequence, and one directory fsync. *)
WriteStep(s, from, f, to) ==
    /\ pc[s] = from
    /\ Rename(f, New(s))
    /\ pc' = [pc EXCEPT ![s] = to]
    /\ UNCHANGED <<objs, synced, side, sideMay, lock, memory, req, failures, ghost>>

SyncStep(s, from, dir, to) ==
    /\ pc[s] = from
    /\ SyncDir(dir)
    /\ pc' = [pc EXCEPT ![s] = to]
    /\ UNCHANGED <<vis, objs, synced, side, sideMay, lock, memory, req, failures, ghost>>

WriteDelta(s) == WriteStep(s, "flushed", Delta(Seq1(s)), "deltaWritten")
SyncDelta(s) == SyncStep(s, "deltaWritten", RevisionsDir, "deltaSynced")
WriteRevision(s) == WriteStep(s, "deltaSynced", Rev(Seq1(s)), "revWritten")
SyncRevision(s) == SyncStep(s, "revWritten", RevisionsDir, "revSynced")
WriteReceipt(s) == WriteStep(s, "revSynced", Rcpt(Seq1(s)), "rcptWritten")

(* Mutant: the wrong directory is fsynced. *)
SyncReceiptElsewhere(s) == SyncStep(s, "rcptWritten", RevisionsDir, "rcptSynced")

SyncReceipt(s) == SyncStep(s, "rcptWritten", ReceiptsDir, "rcptSynced")
RenameHead(s) == WriteStep(s, "rcptSynced", HEAD, "headRenamed")

(* The root directory is fsynced, the session moves to the new revision,  *)
(* the sidecar is written if that works, and the receipt is returned.  A  *)
(* key that could not be entered in the index's trie is kept beside it    *)
(* (overlay), and the index is not published from then on.                *)
FinishCommit(s) ==
    /\ pc[s] = "headRenamed"
    /\ SyncRoot
    /\ cur' = [cur EXCEPT ![s] = New(s)]
    /\ idx' = [idx EXCEPT ![s][req[s].key] = New(s)]
    /\ \/ /\ whole[s] /\ UNCHANGED whole
          /\ PublishSidecar(New(s), idx'[s], {side})
       \/ /\ whole' \in {whole, [whole EXCEPT ![s] = FALSE]}
          /\ side' = side /\ sideMay' = {side}
    /\ lock' = NoOne
    /\ pc' = [pc EXCEPT ![s] = "ready"]
    /\ req' = [req EXCEPT ![s] = NoBatch]
    /\ fresh' = fresh \cup {New(s)}
    /\ UNCHANGED <<vis, objs, synced, seen, latched, failures, replayed, power>>

(* A system call of apply_batch fails.  A failing flush also latches the  *)
(* node store.                                                            *)
IoError(s) ==
    /\ pc[s] \in Committing
    /\ Fail
    /\ latched' = [latched EXCEPT ![s] = @ \/ pc[s] \in {"staged", "packed"}]
    /\ Abort(s)
    /\ UNCHANGED <<disk, cur, seen, idx, whole, ghost>>

-----------------------------------------------------------------------------
(* Mutant: the session's own revision is not spared. *)
CompactableWithOwn(s) == 1..Len(cur[s])

(* is_revision_pinned: never the session's own revision, nor genesis. *)
Compactable(s) == 1..(Len(cur[s]) - 1)

(* compact_history: under the lock, unlink the record and the delta of    *)
(* revisions below the session's own that it does not hold pinned; the    *)
(* receipts stay.  Which revisions those are (the bound asked for, the    *)
(* pins, a crash half way) is left open.                                  *)
CompactHistory(s) ==
    /\ pc[s] = "ready"
    /\ lock = NoOne
    /\ \E gone \in SUBSET Compactable(s) \ {{}} :
          LET files == { Rev(n) : n \in gone } \cup { Delta(n) : n \in gone }
          IN  /\ vis' = [f \in File |-> IF f \in files THEN <<>> ELSE vis[f]]
              /\ may' = [f \in File |-> IF f \in files THEN may[f] \cup {<<>>}
                                                       ELSE may[f]]
    /\ UNCHANGED <<objs, synced, side, sideMay, lock, pc, memory, req, failures, ghost>>

(* pin_checkpoint, unpin_checkpoint and refresh_state_cache write files of *)
(* their own and fsync the root directory.                                 *)
SyncRootAside(s) ==
    /\ pc[s] \in {"upgrading", "ready"}
    /\ SyncRoot
    /\ sideMay' = {side}
    /\ UNCHANGED <<vis, objs, synced, side, lock, pc, memory, req, failures, ghost>>

(* The process exits or is killed: its memory is gone and the operating   *)
(* system drops its lock.                                                 *)
Exit(s) ==
    /\ pc[s] # "closed"
    /\ IF pc[s] \in Committing THEN Fail ELSE UNCHANGED failures
    /\ pc' = [pc EXCEPT ![s] = "closed"]
    /\ lock' = IF lock = s THEN NoOne ELSE lock
    /\ cur' = [cur EXCEPT ![s] = <<>>]
    /\ seen' = [seen EXCEPT ![s] = {}]
    /\ latched' = [latched EXCEPT ![s] = FALSE]
    /\ idx' = [idx EXCEPT ![s] = EmptyIndex]
    /\ whole' = [whole EXCEPT ![s] = TRUE]
    /\ req' = [req EXCEPT ![s] = NoBatch]
    /\ UNCHANGED <<disk, ghost>>

Unsettled == { f \in File : may[f] # {vis[f]} }

(* The machine loses power: every process dies and each file has one of   *)
(* the contents the disk may hold.                                        *)
PowerLoss ==
    /\ Fail
    /\ \E left \in [Unsettled -> UNION { may[f] : f \in Unsettled }] :
          /\ \A f \in Unsettled : left[f] \in may[f]
          /\ vis' = [f \in File |-> IF f \in Unsettled THEN left[f] ELSE vis[f]]
    /\ may' = [f \in File |-> {vis'[f]}]
    /\ objs' \in { o \in SUBSET objs : synced \subseteq o }
    /\ synced' = objs'
    /\ side' \in sideMay \cup {NoSidecar}
    /\ sideMay' = {side'}
    /\ lock' = NoOne
    /\ pc' = [s \in Session |-> "closed"]
    /\ cur' = [s \in Session |-> <<>>]
    /\ seen' = [s \in Session |-> {}]
    /\ latched' = [s \in Session |-> FALSE]
    /\ idx' = [s \in Session |-> EmptyIndex]
    /\ whole' = [s \in Session |-> TRUE]
    /\ req' = [s \in Session |-> NoBatch]
    /\ power' = "cut"
    /\ UNCHANGED <<fresh, replayed>>

-----------------------------------------------------------------------------
CommitStep(s) ==
    \/ FlushNothing(s) \/ FlushPack(s) \/ FlushLatched(s) \/ SyncObjects(s)
    \/ WriteDelta(s) \/ SyncDelta(s)
    \/ WriteRevision(s) \/ SyncRevision(s)
    \/ WriteReceipt(s) \/ SyncReceipt(s)
    \/ RenameHead(s) \/ FinishCommit(s)

OpenStep(s) == LoadSession(s) \/ OpenFails(s) \/ UpgradeIndex(s)

Next ==
    \/ \E s \in Session :
          \/ ReadHead(s)
          \/ OpenStep(s) \/ UpgradeFails(s)
          \/ RebuildIndex(s)
          \/ \E b \in Batch : Replay(s, b) \/ Stage(s, b)
          \/ CommitStep(s)
          \/ IoError(s)
          \/ CompactHistory(s)
          \/ SyncRootAside(s)
          \/ Exit(s)
    \/ PowerLoss

Spec == Init /\ [][Next]_vars

-----------------------------------------------------------------------------
(* Properties. *)

Live(s) == pc[s] \in {"upgrading", "ready"} \cup Committing

(* Every variable has its type, and what survives a power cut is published. *)
TypeOK ==
    /\ vis \in [File -> History]
    /\ may \in [File -> SUBSET History]
    /\ objs \subseteq History /\ synced \subseteq objs
    /\ side \in Sidecar /\ sideMay \subseteq Sidecar
    /\ lock \in Session \cup {NoOne}
    /\ pc \in [Session -> PC]
    /\ cur \in [Session -> History]
    /\ seen \in [Session -> SUBSET History]
    /\ latched \in [Session -> BOOLEAN]
    /\ idx \in [Session -> Index]
    /\ whole \in [Session -> BOOLEAN]
    /\ req \in [Session -> Batch \cup {NoBatch}]
    /\ failures \in 0..MaxFailures
    /\ fresh \subseteq History /\ replayed \subseteq History
    /\ power \in {"steady", "cut"}

(* Exactly once: no history HEAD names, now or after a power cut, holds   *)
(* an idempotency key twice, whatever crashed, was retried or compacted.  *)
ExactlyOnce ==
    \A h \in may[HEAD] : \A i, j \in 1..Len(h) : h[i].key = h[j].key => i = j

(* What a session believes to be the current revision is a prefix of the  *)
(* history HEAD names, so that comparing sequence numbers alone, as       *)
(* apply_batch and persist_idempotency_index do, compares revisions.      *)
SessionOnHistory ==
    \A s \in Session : pc[s] # "closed" => IsPrefix(cur[s], vis[HEAD])

(* A session's index answers every key as its history does, whether it    *)
(* came from the sidecar, the sidecar and the receipts after it, a scan,  *)
(* or was rebuilt, and whether or not old revision records were removed.  *)
IndexExact ==
    \A s \in Session : Live(s) =>
        \A k \in Key :
            /\ idx[s][k] = <<>> => k \notin Keys(cur[s])
            /\ idx[s][k] # <<>> => /\ IsPrefix(idx[s][k], cur[s])
                                   /\ Last(idx[s][k]).key = k

(* The receipts of every revision of every history HEAD may name are      *)
(* durable, so the key of a committed batch is never forgotten: not by a  *)
(* power cut, by compaction, or by a later attempt at a lost revision.    *)
ReceiptsDurable ==
    \A h \in may[HEAD] : \A n \in 1..Len(h) : may[Rcpt(n)] = {SubSeq(h, 1, n)}

(* A receipt of a new commit is returned only for a history that every    *)
(* power cut preserves.                                                   *)
FreshAckDurable ==
    \A h \in fresh : \A g \in may[HEAD] : IsPrefix(h, g)

(* Any receipt, a replayed one included, is for a history HEAD holds, as  *)
(* long as no power cut intervenes.                                       *)
AckVisible == power = "steady" => \A h \in fresh \cup replayed : IsPrefix(h, vis[HEAD])

(* Until the machine loses power every open of the current HEAD succeeds: *)
(* a process killed at any point leaves the old revision or the complete  *)
(* new one; and the record and the decision delta of the revision HEAD    *)
(* names are durable whenever HEAD can be seen to name it.                *)
CrashRecovers ==
    LET h == vis[HEAD]
    IN  power = "steady" =>
            /\ Opens(h)
            /\ h # <<>> => may[Rev(Len(h))] = {h} /\ may[Delta(Len(h))] = {h}

(* Whoever holds the writer lock can take the next step of its commit, on *)
(* the error paths too and whatever other processes left on disk: no way  *)
(* out of apply_batch keeps the lock, and no step waits for anyone.       *)
HolderProceeds == \A s \in Session : lock = s => ENABLED <<CommitStep(s)>>_vars


Log == INSTANCE WorldLog WITH log <- vis[HEAD], outcomes <- may[HEAD], durable <- fresh

(* The commit protocol implements the exactly-once log of WorldLog. *)
ImplementsLog == Log!Spec

-----------------------------------------------------------------------------
(* What ADR-0046 says and the code does not keep. *)

(* "Recovery observes either the old commit or the complete new commit":  *)
(* the revision record and the nodes of every history HEAD may name       *)
(* survive a power cut.                                                   *)
RecoveredComplete ==
    \A h \in may[HEAD] : h # <<>> =>
        may[Rev(Len(h))] = {h} /\ Reachable(h) \subseteq synced
=============================================================================
