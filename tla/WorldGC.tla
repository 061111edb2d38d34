------------------------------ MODULE WorldGC ------------------------------
(***************************************************************************)
(* Garbage collection of a world's node store beside open sessions:        *)
(* gc_world of crates/brix-kb/src/world/gc.rs, the pack view of            *)
(* FileNodeStore (soc-core/src/store/file.rs and file/gc.rs), and the      *)
(* session paths that rely on it: open, sync_gc_epoch, apply_batch and the *)
(* refresh of the state cache, with and without the lock (session.rs).     *)
(*                                                                         *)
(* Data.  A revision is the set of nodes its retained roots reach.  Nodes  *)
(* are content addressed: a node may become garbage and be needed again.   *)
(* A pack is a set of nodes; a pack name is never used twice.  A session's *)
(* caches (known set, Bloom filters, idx handles, raw and decoded nodes)   *)
(* are filled from the packs its store lists and dropped with them, so     *)
(* they are represented by those packs.  Durability and the records of a   *)
(* commit are the subject of WorldCommit.                                  *)
(***************************************************************************)
EXTENDS Naturals, Sequences, FiniteSets

CONSTANTS Session,       \* processes, each holding at most one session
          Node,          \* trie nodes and state objects, by digest
          NoOne,         \* the writer lock is free
          Gc,            \* the lock is held by the collector
          MaxSeq,        \* bound on committed revisions
          MaxPacks,      \* bound on packs ever published
          MaxEpoch,      \* bound on writes of the generation marker
          Window         \* the collector may die between its two marker writes
                         \* when a session has read the first

ASSUME GCAssumption ==
    /\ NoOne \notin Session /\ Gc \notin Session /\ Gc # NoOne
    /\ MaxSeq \in Nat /\ MaxPacks \in Nat /\ MaxEpoch \in Nat
    /\ Window \in BOOLEAN

VARIABLES
    body,    \* the packs ever published, each a set of nodes
    disk,    \* the packs whose files exist
    head,    \* current revision: its number and the nodes its roots reach
    cache,   \* the state-cache sidecar: the nodes its root reaches
    epoch,   \* the generation marker objects/GC_EPOCH
    lock,    \* the writer lock
    gcpc,    \* where the collector is
    old,     \* the packs it will retire
    live,    \* the nodes it found reachable
    copied,  \* those already in a new pack
    pc,      \* Session -> where its process is
    cur,     \* Session -> current_revision
    gen,     \* Session -> gc_epoch, the marker it read
    view,    \* Session -> packs its store handle lists
    plan,    \* Session -> nodes a commit or a refresh in progress will name
    tmp,     \* sessions whose pending pack, a .tmp file, exists
    latched  \* sessions whose store latched an I/O failure

store == <<body, disk>>
gcState == <<gcpc, old, live, copied>>
handle == <<gen, view>>
vars == <<store, head, cache, epoch, lock, gcState, pc, cur, handle, plan, tmp, latched>>

Stored(packs) == UNION { body[p] : p \in packs }

PC == {"closed", "headRead", "epochRead", "ready", "staged",
       "probed", "synced", "pending", "flushed"}

Init ==
    /\ body = <<>> /\ disk = {}
    /\ head = [seq |-> 0, nodes |-> {}]
    /\ cache = {}
    /\ epoch = 0
    /\ lock = NoOne
    /\ gcpc = "idle" /\ old = {} /\ live = {} /\ copied = {}
    /\ pc = [s \in Session |-> "closed"]
    /\ cur = [s \in Session |-> 0]
    /\ gen = [s \in Session |-> 0]
    /\ view = [s \in Session |-> {}]
    /\ plan = [s \in Session |-> {}]
    /\ tmp = {} /\ latched = {}

Goto(s, from, to) == pc[s] = from /\ pc' = [pc EXCEPT ![s] = to]

(* Nodes become the next pack. *)
PublishPack(nodes) ==
    /\ Len(body) < MaxPacks
    /\ body' = Append(body, nodes)
    /\ disk' = disk \cup {Len(body) + 1}

(* What a store that lists these packs takes for stored (the open handle of *)
(* an unlinked pack, and the caches filled from it, still answer).          *)
Vouched(s) == Stored(view[s])

(* flush: the nodes, if there are any, become a pack that the store of s   *)
(* lists beside the packs in listed.                                       *)
FlushInto(s, nodes, listed) ==
    IF nodes = {}
    THEN UNCHANGED store /\ view' = [view EXCEPT ![s] = listed]
    ELSE PublishPack(nodes) /\ view' = [view EXCEPT ![s] = listed \cup {Len(body) + 1}]

-----------------------------------------------------------------------------
(* WorldSession::open: HEAD, then the marker, then the store; no lock. *)

OpenHead(s) ==
    /\ Goto(s, "closed", "headRead")
    /\ cur' = [cur EXCEPT ![s] = head.seq]
    /\ UNCHANGED <<store, head, cache, epoch, lock, gcState, handle, plan, tmp, latched>>

OpenEpoch(s) ==
    /\ Goto(s, "headRead", "epochRead")
    /\ gen' = [gen EXCEPT ![s] = epoch]
    /\ UNCHANGED <<store, head, cache, epoch, lock, gcState, cur, view, plan, tmp, latched>>

OpenStore(s) ==
    /\ Goto(s, "epochRead", "ready")
    /\ view' = [view EXCEPT ![s] = disk]
    /\ UNCHANGED <<store, head, cache, epoch, lock, gcState, cur, gen, plan, tmp, latched>>

(* Mutant: the marker is noted, the packs are not listed again. *)
ReloadedNever(s) == view[s]

(* sync_gc_epoch: when the marker moved, the packs are listed again and    *)
(* every cache is dropped.  Reloaded is the resulting view.                *)
Reloaded(s) == IF gen[s] = epoch THEN view[s] ELSE disk

SyncMarker(s) == gen' = [gen EXCEPT ![s] = epoch]

-----------------------------------------------------------------------------
(* apply_batch, under the lock: synchronise, then write the nodes of the   *)
(* new revision that the store does not vouch for.  Subtrees of HEAD that  *)
(* the batch leaves alone are not visited.                                 *)
CommitNodes(s) ==
    /\ Goto(s, "ready", "staged")
    /\ lock = NoOne /\ lock' = s
    /\ s \notin latched
    /\ cur[s] = head.seq /\ head.seq < MaxSeq
    /\ SyncMarker(s)
    /\ \E nodes \in SUBSET Node :
          /\ plan' = [plan EXCEPT ![s] = nodes]
          /\ FlushInto(s, nodes \ (head.nodes \cup Stored(Reloaded(s))), Reloaded(s))
    /\ UNCHANGED <<head, cache, epoch, gcState, cur, tmp, latched>>

(* HEAD moves to the new revision and the lock is dropped. *)
PublishHead(s) ==
    /\ Goto(s, "staged", "ready")
    /\ head' = [seq |-> head.seq + 1, nodes |-> plan[s]]
    /\ cur' = [cur EXCEPT ![s] = head.seq + 1]
    /\ plan' = [plan EXCEPT ![s] = {}]
    /\ lock' = NoOne
    /\ UNCHANGED <<store, cache, epoch, gcState, handle, tmp, latched>>

(* A record of the commit cannot be written: the pack stays, as garbage. *)
CommitFails(s) ==
    /\ Goto(s, "staged", "ready")
    /\ plan' = [plan EXCEPT ![s] = {}]
    /\ lock' = NoOne
    /\ UNCHANGED <<store, head, cache, epoch, gcState, cur, handle, tmp, latched>>

-----------------------------------------------------------------------------
(* refresh_state_cache, which holds the lock throughout. *)
RefreshLocked(s) ==
    /\ pc[s] = "ready"
    /\ lock = NoOne
    /\ s \notin latched
    /\ cur[s] = head.seq
    /\ SyncMarker(s)
    /\ \E nodes \in SUBSET Node \ {{}} :
          /\ FlushInto(s, nodes \ Stored(Reloaded(s)), Reloaded(s))
          /\ cache' = nodes
    /\ UNCHANGED <<head, epoch, lock, gcState, pc, cur, plan, tmp, latched>>

(* The opportunistic refresh after an open that replayed (and, for its own *)
(* sidecar, persist_idempotency_index): the lock is probed and dropped,    *)
(* the nodes are written without it, and it is taken again to compare the  *)
(* marker and HEAD and to publish the sidecar.                             *)

RefreshProbe(s) ==
    /\ s \notin latched
    /\ lock = NoOne
    /\ Goto(s, "ready", "probed")
    /\ UNCHANGED <<store, head, cache, epoch, lock, gcState, cur, handle, plan, tmp, latched>>

RefreshSync(s) ==
    /\ Goto(s, "probed", "synced")
    /\ SyncMarker(s)
    /\ view' = [view EXCEPT ![s] = Reloaded(s)]
    /\ UNCHANGED <<store, head, cache, epoch, lock, gcState, cur, plan, tmp, latched>>

(* The state's nodes the store does not vouch for go to a pending pack. *)
RefreshStage(s) ==
    /\ Goto(s, "synced", "pending")
    /\ \E nodes \in SUBSET Node \ {{}} :
          /\ plan' = [plan EXCEPT ![s] = nodes]
          /\ tmp' = IF nodes \subseteq Vouched(s) THEN tmp ELSE tmp \cup {s}
    /\ UNCHANGED <<store, head, cache, epoch, lock, gcState, cur, handle, latched>>

RefreshFlush(s) ==
    /\ plan[s] \subseteq Vouched(s) \/ s \in tmp
    /\ Goto(s, "pending", "flushed")
    /\ FlushInto(s, plan[s] \ Vouched(s), view[s])
    /\ tmp' = tmp \ {s}
    /\ UNCHANGED <<head, cache, epoch, lock, gcState, cur, gen, plan, latched>>

(* The pending pack is no longer there to be renamed: the store latches. *)
RefreshFlushFails(s) ==
    /\ ~(plan[s] \subseteq Vouched(s)) /\ s \notin tmp
    /\ Goto(s, "pending", "ready")
    /\ latched' = latched \cup {s}
    /\ plan' = [plan EXCEPT ![s] = {}]
    /\ UNCHANGED <<store, head, cache, epoch, lock, gcState, cur, handle, tmp>>

(* Mutant: the marker is not compared. *)
RefreshPublishBlind(s) ==
    /\ lock = NoOne
    /\ head.seq = cur[s]
    /\ Goto(s, "flushed", "ready")
    /\ cache' = plan[s]
    /\ plan' = [plan EXCEPT ![s] = {}]
    /\ UNCHANGED <<store, head, epoch, lock, gcState, cur, handle, tmp, latched>>

RefreshPublish(s) ==
    /\ lock = NoOne
    /\ epoch = gen[s]
    /\ head.seq = cur[s]
    /\ Goto(s, "flushed", "ready")
    /\ cache' = plan[s]
    /\ plan' = [plan EXCEPT ![s] = {}]
    /\ UNCHANGED <<store, head, epoch, lock, gcState, cur, handle, tmp, latched>>

(* The lock is held, the marker or HEAD moved, or the rename fails. *)
RefreshGivesUp(s) ==
    /\ Goto(s, "flushed", "ready")
    /\ plan' = [plan EXCEPT ![s] = {}]
    /\ UNCHANGED <<store, head, cache, epoch, lock, gcState, cur, handle, tmp, latched>>

(* The process exits or is killed. *)
Exit(s) ==
    /\ pc[s] # "closed"
    /\ pc' = [pc EXCEPT ![s] = "closed"]
    /\ lock' = IF lock = s THEN NoOne ELSE lock
    /\ cur' = [cur EXCEPT ![s] = 0]
    /\ gen' = [gen EXCEPT ![s] = 0]
    /\ view' = [view EXCEPT ![s] = {}]
    /\ plan' = [plan EXCEPT ![s] = {}]
    /\ tmp' = tmp \ {s}
    /\ latched' = latched \ {s}
    /\ UNCHANGED <<store, head, cache, epoch, gcState>>

-----------------------------------------------------------------------------
(* gc_world. *)

(* The nodes the collector's roots reach, of those that are stored. *)
Marked == (head.nodes \cup cache) \cap Stored(disk)

(* Under the lock: the roots, every .tmp file removed, the packs there are. *)
GcStart ==
    /\ gcpc = "idle" /\ lock = NoOne
    /\ epoch + 2 <= MaxEpoch
    /\ lock' = Gc
    /\ gcpc' = "copy"
    /\ old' = disk
    /\ live' = Marked
    /\ copied' = {}
    /\ tmp' = {}
    /\ UNCHANGED <<store, head, cache, epoch, pc, cur, handle, plan, latched>>

(* Mutant: dead nodes are copied too. *)
GcCopyAll ==
    /\ gcpc = "copy"
    /\ \E nodes \in SUBSET (Stored(old) \ copied) \ {{}} :
          /\ PublishPack(nodes)
          /\ copied' = copied \cup nodes
    /\ UNCHANGED <<head, cache, epoch, lock, gcpc, old, live, pc, cur, handle, plan, tmp,
                   latched>>

(* Live nodes go to new packs, flushed as they reach the target size. *)
GcCopy ==
    /\ gcpc = "copy"
    /\ \E nodes \in SUBSET (live \ copied) \ {{}} :
          /\ PublishPack(nodes)
          /\ copied' = copied \cup nodes
    /\ UNCHANGED <<head, cache, epoch, lock, gcpc, old, live, pc, cur, handle, plan, tmp,
                   latched>>

(* The marker is rewritten before anything is retired. *)
GcMark ==
    /\ gcpc = "copy" /\ copied = live
    /\ epoch' = epoch + 1
    /\ gcpc' = "retire"
    /\ UNCHANGED <<store, head, cache, lock, old, live, copied, pc, cur, handle, plan, tmp,
                   latched>>

(* retire_packs: old packs are unlinked one by one. *)
GcRetire ==
    /\ gcpc = "retire"
    /\ \E p \in old \cap disk : disk' = disk \ {p}
    /\ UNCHANGED <<body, head, cache, epoch, lock, gcState, pc, cur, handle, plan, tmp,
                   latched>>

GcDone ==
    /\ gcpc' = "idle" /\ old' = {} /\ live' = {} /\ copied' = {}
    /\ lock' = NoOne
    /\ UNCHANGED <<store, head, cache, pc, cur, handle, plan, tmp, latched>>

(* Mutant: the marker is not written again. *)
GcFinishUnmarked ==
    /\ gcpc = "retire" /\ old \cap disk = {}
    /\ UNCHANGED epoch
    /\ GcDone

(* The marker again, after the last pack is gone. *)
GcFinish ==
    /\ gcpc = "retire" /\ old \cap disk = {}
    /\ epoch' = epoch + 1
    /\ GcDone

(* The collector is killed. *)
GcCrash ==
    /\ gcpc # "idle"
    /\ gcpc = "retire" /\ ~Window => \A s \in Session : gen[s] # epoch
    /\ UNCHANGED epoch
    /\ GcDone

-----------------------------------------------------------------------------
Next ==
    \/ \E s \in Session :
          \/ OpenHead(s) \/ OpenEpoch(s) \/ OpenStore(s)
          \/ CommitNodes(s) \/ PublishHead(s) \/ CommitFails(s)
          \/ RefreshLocked(s)
          \/ RefreshProbe(s) \/ RefreshSync(s) \/ RefreshStage(s)
          \/ RefreshFlush(s) \/ RefreshFlushFails(s)
          \/ RefreshPublish(s) \/ RefreshGivesUp(s)
          \/ Exit(s)
    \/ GcStart \/ GcCopy \/ GcMark \/ GcRetire \/ GcFinish \/ GcCrash

Spec == Init /\ [][Next]_vars

-----------------------------------------------------------------------------
(* Properties. *)

Packs == 1..Len(body)

(* Every variable has its type. *)
TypeOK ==
    /\ body \in Seq(SUBSET Node) /\ disk \subseteq Packs
    /\ head \in [seq : 0..MaxSeq, nodes : SUBSET Node]
    /\ cache \subseteq Node
    /\ epoch \in 0..MaxEpoch
    /\ lock \in Session \cup {NoOne, Gc}
    /\ gcpc \in {"idle", "copy", "retire"}
    /\ old \subseteq Packs /\ live \subseteq Node /\ copied \subseteq live
    /\ pc \in [Session -> PC]
    /\ cur \in [Session -> 0..MaxSeq]
    /\ gen \in [Session -> 0..MaxEpoch]
    /\ view \in [Session -> SUBSET Packs]
    /\ plan \in [Session -> SUBSET Node]
    /\ tmp \subseteq Session /\ latched \subseteq Session

(* Every node HEAD's roots reach is in a pack on disk: no collection       *)
(* removes one, and no session commits a revision whose nodes a collection *)
(* removed, however stale its caches.                                      *)
HeadResolvable == head.nodes \subseteq Stored(disk)

(* Every node the state-cache sidecar names is there (open restores from   *)
(* it, and a missing node is a hard error).                                *)
CacheResolvable == cache \subseteq Stored(disk)

(* With no retirement under way, a session that has the current marker     *)
(* vouches only for nodes that are stored.                                 *)
VouchSound ==
    gcpc # "retire" =>
        \A s \in Session : gen[s] = epoch => Vouched(s) \subseteq Stored(disk)
=============================================================================
