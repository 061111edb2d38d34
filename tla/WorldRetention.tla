--------------------------- MODULE WorldRetention ---------------------------
(***************************************************************************)
(* Which revisions of a world stay readable: reader and checkpoint pins,   *)
(* compact_history and pin_revision of crates/brix-kb/src/world/session.rs *)
(* and the retention policy of gc_world (gc.rs: collect_roots, the history *)
(* floor in the generation marker).                                        *)
(*                                                                         *)
(* Data.  A revision is its sequence number.  Its record is a file; its    *)
(* tries are either all in the node store or not readable.  Tries share    *)
(* nodes, so retirement may leave tries that were not kept.                *)
(***************************************************************************)
EXTENDS Naturals, FiniteSets

CONSTANTS Session,   \* processes, each holding at most one session
          MaxSeq,    \* bound on committed revisions
          MaxPins,   \* bound on reader pins a session holds on a revision
          Keeps,     \* values of keep_revisions the collector is run with
          KeepAll    \* keep_revisions = None

ASSUME RetentionAssumption ==
    /\ MaxSeq \in Nat /\ MaxPins \in Nat
    /\ KeepAll \notin Nat /\ Keeps \subseteq Nat \cup {KeepAll}

VARIABLES
    head,    \* current revision
    recs,    \* revisions whose record exists
    tries,   \* revisions whose tries are readable
    file,    \* the checkpoint pins on disk, pins.json
    floor,   \* the history floor in objects/GC_EPOCH
    gcpc,    \* where the collector is; it holds the lock unless idle
    keep,    \* its keep_revisions
    kept,    \* the revisions whose roots it collected
    open,    \* sessions that are open
    cur,     \* Session -> current_revision
    pins,    \* Session -> checkpoint pins in its registry
    readers, \* Session -> how many reader pins it holds on each revision
    use,     \* "alone" until two sessions are open at once, then "shared"
    anchors  \* checkpoints pinned with success and not released by anyone

gcState == <<gcpc, keep, kept>>
session == <<open, cur, pins, readers, use>>
vars == <<head, recs, tries, file, floor, gcState, session, anchors>>

Rev == 0..MaxSeq
NoPins == [n \in Rev |-> 0]

Init ==
    /\ head = 0 /\ recs = {0} /\ tries = {0}
    /\ file = {} /\ floor = 0
    /\ gcpc = "idle" /\ keep = KeepAll /\ kept = {}
    /\ open = {}
    /\ cur = [s \in Session |-> 0]
    /\ pins = [s \in Session |-> {}]
    /\ readers = [s \in Session |-> NoPins]
    /\ use = "alone"
    /\ anchors = {}

-----------------------------------------------------------------------------
(* Sessions. *)

(* open reads HEAD and pins.json. *)
Open(s) ==
    /\ s \notin open
    /\ open' = open \cup {s}
    /\ cur' = [cur EXCEPT ![s] = head]
    /\ pins' = [pins EXCEPT ![s] = file]
    /\ readers' = [readers EXCEPT ![s] = NoPins]
    /\ use' = IF open = {} THEN use ELSE "shared"
    /\ UNCHANGED <<head, recs, tries, file, floor, gcState, anchors>>

Close(s) ==
    /\ s \in open
    /\ open' = open \ {s}
    /\ cur' = [cur EXCEPT ![s] = 0]
    /\ pins' = [pins EXCEPT ![s] = {}]
    /\ readers' = [readers EXCEPT ![s] = NoPins]
    /\ UNCHANGED <<head, recs, tries, file, floor, gcState, use, anchors>>

(* apply_batch: under the lock, on the current revision. *)
Commit(s) ==
    /\ s \in open
    /\ gcpc = "idle"
    /\ cur[s] = head /\ head < MaxSeq
    /\ head' = head + 1
    /\ recs' = recs \cup {head + 1}
    /\ tries' = tries \cup {head + 1}
    /\ cur' = [cur EXCEPT ![s] = head + 1]
    /\ UNCHANGED <<file, floor, gcState, open, pins, readers, use, anchors>>

(* The check of pin_reader and pin_checkpoint. *)
MayPin(s, n) == s \in open /\ n <= cur[s] /\ n \in recs

PinReader(s, n) ==
    /\ MayPin(s, n)
    /\ readers[s][n] < MaxPins
    /\ readers' = [readers EXCEPT ![s][n] = @ + 1]
    /\ UNCHANGED <<head, recs, tries, file, floor, gcState, open, cur, pins, use, anchors>>

(* Mutant: a handle can be released twice. *)
UnpinReaderTwice(s, n) ==
    /\ s \in open
    /\ readers' = [readers EXCEPT ![s][n] = @ - 1]
    /\ UNCHANGED <<head, recs, tries, file, floor, gcState, open, cur, pins, use, anchors>>

UnpinReader(s, n) ==
    /\ s \in open
    /\ readers[s][n] > 0
    /\ readers' = [readers EXCEPT ![s][n] = @ - 1]
    /\ UNCHANGED <<head, recs, tries, file, floor, gcState, open, cur, pins, use, anchors>>

(* persist_pins writes the session's own set over pins.json; no lock. *)
PersistPins(s) == file' = pins'[s]

(* The pin is registered, then persisted; an I/O error in between is *)
(* reported and leaves the registry as it is.                        *)
PinCheckpoint(s, n) ==
    /\ MayPin(s, n)
    /\ pins' = [pins EXCEPT ![s] = @ \cup {n}]
    /\ \/ PersistPins(s) /\ anchors' = anchors \cup {n}
       \/ UNCHANGED <<file, anchors>>
    /\ UNCHANGED <<head, recs, tries, floor, gcState, open, cur, readers, use>>

(* Here the error is ignored. *)
UnpinCheckpoint(s, n) ==
    /\ s \in open
    /\ n \in pins[s]
    /\ pins' = [pins EXCEPT ![s] = @ \ {n}]
    /\ PersistPins(s) \/ UNCHANGED file
    /\ anchors' = anchors \ {n}
    /\ UNCHANGED <<head, recs, tries, floor, gcState, open, cur, readers, use>>

(* Mutants: the session's own revision, or a reader's, is not spared. *)
PinnedByPins(s, n) == n = 0 \/ n \in pins[s] \/ readers[s][n] > 0

PinnedForCheckpoints(s, n) == n = 0 \/ n = cur[s] \/ n \in pins[s]

(* is_revision_pinned *)
Pinned(s, n) == n = 0 \/ n = cur[s] \/ n \in pins[s] \/ readers[s][n] > 0

(* compact_history(upTo): under the lock, the records up to upTo and up to *)
(* the session's revision go, in order, but for the pinned ones; dying     *)
(* half way is a smaller upTo.                                             *)
CompactHistory(s, upTo) ==
    /\ s \in open
    /\ gcpc = "idle"
    /\ recs' = { n \in recs : n > upTo \/ n > cur[s] \/ Pinned(s, n) }
    /\ UNCHANGED <<head, tries, file, floor, gcState, session, anchors>>

(* Mutant: the floor is not looked at. *)
SnapshotsBlindly(s, n) == s \in open /\ n <= cur[s] /\ n \in recs

(* pin_revision hands out a snapshot. *)
Snapshots(s, n) ==
    /\ s \in open
    /\ n <= cur[s] /\ n \in recs
    /\ n # 0 /\ n < floor => n \in pins[s]

-----------------------------------------------------------------------------
(* gc_world, under the lock. *)

(* collect_roots: genesis, HEAD, the pins on disk and the newest k of the *)
(* revisions that have a record, or all of those.                         *)
Retained(k) ==
    { n \in recs : k = KeepAll \/ n = 0 \/ n = head \/ n \in file \/ head - n < k }

GcCollect(k) ==
    /\ gcpc = "idle"
    /\ gcpc' = "copy" /\ keep' = k /\ kept' = Retained(k)
    /\ UNCHANGED <<head, recs, tries, file, floor, session, anchors>>

(* Mutant: off by one. *)
FloorOneTooLow(k) ==
    LET asked == IF k = KeepAll THEN 0
                 ELSE IF k >= head THEN 0 ELSE head - k
    IN  IF asked > floor THEN asked ELSE floor

(* The floor never goes down. *)
Floor(k) ==
    LET asked == IF k = KeepAll THEN 0
                 ELSE IF k = 0 THEN head
                 ELSE IF k > head THEN 0 ELSE head - (k - 1)
    IN  IF asked > floor THEN asked ELSE floor

(* The kept tries are in new packs; the marker carries the floor. *)
GcMark ==
    /\ gcpc = "copy"
    /\ gcpc' = "retire"
    /\ floor' = Floor(keep)
    /\ UNCHANGED <<head, recs, tries, file, keep, kept, session, anchors>>

GcDone == gcpc' = "idle" /\ keep' = KeepAll /\ kept' = {}

(* The old packs go, all of them or, in a crash, some. *)
GcRetire ==
    /\ gcpc = "retire"
    /\ \E shared \in SUBSET (tries \ kept) : tries' = (tries \cap kept) \cup shared
    /\ GcDone
    /\ UNCHANGED <<head, recs, file, floor, session, anchors>>

GcCrash ==
    /\ gcpc # "idle"
    /\ GcDone
    /\ UNCHANGED <<head, recs, tries, file, floor, session, anchors>>

-----------------------------------------------------------------------------
(* Genesis is always kept: pins of it change nothing and are left out. *)
Pinnable == Rev \ {0}

Next ==
    \/ \E s \in Session :
          \/ Open(s) \/ Close(s) \/ Commit(s)
          \/ \E n \in Pinnable :
                \/ PinReader(s, n) \/ UnpinReader(s, n)
                \/ PinCheckpoint(s, n) \/ UnpinCheckpoint(s, n)
          \/ \E n \in Rev : CompactHistory(s, n)
    \/ \E k \in Keeps : GcCollect(k)
    \/ GcMark \/ GcRetire \/ GcCrash

Spec == Init /\ [][Next]_vars

-----------------------------------------------------------------------------
(* Properties. *)

(* Every variable has its type. *)
TypeOK ==
    /\ head \in Rev /\ recs \subseteq Rev /\ tries \subseteq Rev
    /\ file \subseteq Rev /\ floor \in Rev
    /\ gcpc \in {"idle", "copy", "retire"} /\ keep \in Keeps \cup {KeepAll}
    /\ kept \subseteq Rev
    /\ open \subseteq Session
    /\ cur \in [Session -> Rev]
    /\ pins \in [Session -> SUBSET Rev]
    /\ readers \in [Session -> [Rev -> 0..MaxPins]]
    /\ anchors \subseteq Rev /\ use \in {"alone", "shared"}

(* HEAD and genesis keep their records and their tries, whichever session, *)
(* however far behind, compacts the history, and whatever the collector    *)
(* keeps.                                                                  *)
HeadReadable == {0, head} \subseteq recs \cap tries

(* The floor in the marker tells the truth: a revision at or above it that *)
(* has a record has its tries, through any sequence of collections with    *)
(* different policies, commits and compactions between them, and crashes.  *)
FloorSound == \A n \in recs : n >= floor => n \in tries

(* pin_revision hands out a snapshot of a revision that is no checkpoint   *)
(* only when its tries are there, however stale the session; otherwise it  *)
(* reports the revision as compacted.                                      *)
SnapshotReadable ==
    \A s \in Session, n \in Rev : Snapshots(s, n) /\ n \notin pins[s] => n \in tries

(* As long as one session at a time has the world open, nobody loses what  *)
(* was pinned: what the session holds for a reader keeps its record, and a *)
(* checkpoint pin that was acknowledged and not released is on disk and    *)
(* keeps its revision's record, across reopens.                            *)
ReadersKept == \A s \in open : \A n \in Rev : readers[s][n] > 0 => n \in recs
AnchorsKept == anchors \subseteq file \cap recs
PinsKept == use = "alone" => ReadersKept /\ AnchorsKept

-----------------------------------------------------------------------------
(* What a test says and the code does not keep between two sessions. *)

(* "checkpoint pin must survive reopen", also when two sessions are open. *)
AnchorSurvives == anchors \subseteq file
=============================================================================
