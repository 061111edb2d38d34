---------------------------- MODULE StagedUpload ----------------------------
(***************************************************************************)
(* Chunked bulk ingestion (brix-kb, world/staging.rs and the session's     *)
(* stage_chunk and commit_staged).  One upload is staged as files          *)
(* chunk-0 .. chunk-(n-1); commit_staged reads them one by one, applies    *)
(* the combined batch at the session's own revision under the client's     *)
(* idempotency key, and then removes the directory.  Staging takes no lock *)
(* and the files are written in place, so sessions of different processes  *)
(* interleave with the reads and the removal, and a process may die        *)
(* between any two steps.  The commit itself is one step here: it runs     *)
(* under the world lock and WorldCommit models it in detail.               *)
(***************************************************************************)
EXTENDS Integers, Sequences, FiniteSets

CONSTANTS
    Session,        \* sessions, one process each
    NumChunks,      \* chunks of the upload
    Version,        \* contents a chunk may be staged with
    MaxRevision,    \* bound: revisions of the world
    MaxWrites,      \* bound: chunk writes
    MaxCrashes      \* bound: processes that die

ASSUME ChunksAssumption == NumChunks \in Nat \ {0}
ASSUME VersionAssumption == "none" \notin Version /\ "torn" \notin Version
ASSUME BoundsAssumption == MaxRevision \in Nat /\ MaxWrites \in Nat /\ MaxCrashes \in Nat

Chunk == 0..(NumChunks - 1)

VARIABLES
    files,      \* chunk file on disk: "none", "torn" (being or half written), or a version
    staged,     \* version of the last stage_chunk that returned for the chunk, or "none"
    world,      \* committed revisions after genesis: [key, base, content]
    sess,       \* per session: [pc, rev, chunk, version, want, read]
    answer,     \* per session, what its last commit_staged returned
    writes, crashes

\* A session at revision rev with no call in progress.
Idle(rev) == [pc |-> "idle", rev |-> rev, chunk |-> 0, version |-> "none",
              want |-> 0, read |-> <<>>]

vars == <<files, staged, world, sess, answer, writes, crashes>>

HeadSeq == Len(world)
\* The client always commits this upload under this key.
UploadKey == "upload"

-----------------------------------------------------------------------------
(* stage_chunk: fs::write truncates the file and then fills it.            *)

StageBegin(s, c, v) ==
    /\ sess[s].pc = "idle" /\ writes < MaxWrites
    \* The client stages a chunk from one process at a time.
    /\ \A t \in Session : ~(sess[t].pc = "writing" /\ sess[t].chunk = c)
    /\ files' = [files EXCEPT ![c] = "torn"]
    /\ sess' = [sess EXCEPT ![s].pc = "writing", ![s].chunk = c, ![s].version = v]
    /\ writes' = writes + 1
    /\ UNCHANGED <<staged, world, answer, crashes>>

StageEnd(s) ==
    /\ sess[s].pc = "writing"
    \* A file another session removed meanwhile stays removed: the open
    \* descriptor writes to an unlinked file.
    /\ files' = [files EXCEPT ![sess[s].chunk] = IF @ = "none" THEN @ ELSE sess[s].version]
    /\ staged' = [staged EXCEPT ![sess[s].chunk] = sess[s].version]
    /\ sess' = [sess EXCEPT ![s] = Idle(@.rev)]
    /\ UNCHANGED <<world, answer, writes, crashes>>

-----------------------------------------------------------------------------
(* commit_staged.                                                          *)

Reply(s, a) ==
    /\ sess' = [sess EXCEPT ![s] = Idle(@.rev)]
    /\ answer' = [answer EXCEPT ![s] = a]

\* consolidate's two refusals before it reads: no chunks asked for, no directory.
NothingToRead(want) == want = 0 \/ \A c \in Chunk : files[c] = "none"

CommitStaged(s, want) ==
    /\ sess[s].pc = "idle"
    /\ \/ NothingToRead(want) /\ Reply(s, "staging error")
       \/ /\ ~NothingToRead(want)
          /\ sess' = [sess EXCEPT ![s].pc = "reading", ![s].want = want, ![s].read = <<>>]
          /\ UNCHANGED answer
    /\ UNCHANGED <<files, staged, world, writes, crashes>>

\* Mutant of Readable: a half-written chunk is taken for a chunk.
ReadableAny(c) == files[c] # "none"

\* The file exists and parses.
Readable(c) == files[c] \notin {"none", "torn"}

\* Mutant of ReadChunk: consolidating consumes the files it reads.
ReadChunkConsuming(s) ==
    LET c == Len(sess[s].read)
    IN  /\ sess[s].pc = "reading" /\ c < sess[s].want
        /\ \/ ~Readable(c) /\ Reply(s, "staging error") /\ UNCHANGED files
           \/ /\ Readable(c)
              /\ sess' = [sess EXCEPT ![s].read = Append(@, files[c])]
              /\ files' = [files EXCEPT ![c] = "none"]
              /\ UNCHANGED answer
        /\ UNCHANGED <<staged, world, writes, crashes>>

ReadChunk(s) ==
    LET c == Len(sess[s].read)
    IN  /\ sess[s].pc = "reading" /\ c < sess[s].want
        /\ \/ ~Readable(c) /\ Reply(s, "staging error")
           \/ /\ Readable(c)
              /\ sess' = [sess EXCEPT ![s].read = Append(@, files[c])]
              /\ UNCHANGED answer
        /\ UNCHANGED <<files, staged, world, writes, crashes>>

\* Mutant of Applies: the consolidated batch is not checked against the key.
AppliesUnkeyed(s) == IF sess[s].rev # HeadSeq THEN "stale" ELSE "commit"

\* apply_batch: the disk HEAD, then the key, then the base revision, which the
\* consolidated batch takes from the session.  A revision is above its base,
\* so what is on record never has the session's base: "replay", a case of
\* apply_batch, is not met by an upload.
Applies(s) ==
    LET prior == {i \in 1..HeadSeq : world[i].key = UploadKey}
        same(i) == world[i].base = sess[s].rev /\ world[i].content = sess[s].read
    IN  CASE sess[s].rev # HeadSeq -> "stale"
          [] sess[s].rev = HeadSeq /\ prior # {} ->
                IF \E i \in prior : same(i) THEN "replay" ELSE "conflict"
          [] OTHER -> "commit"

\* The network or the normalization may also refuse the batch; nothing changes.
Apply(s) ==
    /\ sess[s].pc = "reading" /\ Len(sess[s].read) = sess[s].want
    /\ \/ Reply(s, "refused") /\ UNCHANGED world
       \/ /\ Applies(s) \in {"stale", "conflict"}
          /\ Reply(s, Applies(s)) /\ UNCHANGED world
       \/ /\ Applies(s) \in {"replay", "commit"} /\ HeadSeq < MaxRevision
          /\ world' = IF Applies(s) = "replay" THEN world
                      ELSE Append(world, [key |-> UploadKey, base |-> sess[s].rev,
                                          content |-> sess[s].read])
          /\ sess' = [sess EXCEPT ![s].pc = "cleaning", ![s].rev = Len(world')]
          /\ UNCHANGED answer
    /\ UNCHANGED <<files, staged, writes, crashes>>

\* remove_dir_all unlinks the files one by one; its errors are ignored.
RemoveChunk(s) ==
    /\ sess[s].pc = "cleaning"
    /\ \E c \in Chunk : files[c] # "none" /\ files' = [files EXCEPT ![c] = "none"]
    /\ UNCHANGED <<staged, world, sess, answer, writes, crashes>>

CleanupDone(s) ==
    /\ sess[s].pc = "cleaning"
    /\ Reply(s, "receipt")
    /\ UNCHANGED <<files, staged, world, writes, crashes>>

-----------------------------------------------------------------------------
(* The rest of the world: other writers, and processes that die and reopen. *)

OtherCommit ==
    /\ HeadSeq < MaxRevision
    /\ world' = Append(world, [key |-> "other", base |-> HeadSeq, content |-> <<>>])
    /\ UNCHANGED <<files, staged, sess, answer, writes, crashes>>

Crash(s) ==
    /\ sess[s].pc \notin {"idle", "closed"} /\ crashes < MaxCrashes
    /\ sess' = [sess EXCEPT ![s] = [Idle(@.rev) EXCEPT !.pc = "closed"]]
    /\ crashes' = crashes + 1
    /\ UNCHANGED <<files, staged, world, answer, writes>>

\* A session that died, or that was told its revision is stale, opens again.
Reopen(s) ==
    /\ sess[s].pc \in {"closed", "idle"} /\ sess[s] # Idle(HeadSeq)
    /\ sess' = [sess EXCEPT ![s] = Idle(HeadSeq)]
    /\ UNCHANGED <<files, staged, world, answer, writes, crashes>>

Init ==
    /\ files = [c \in Chunk |-> "none"]
    /\ staged = [c \in Chunk |-> "none"]
    /\ world = <<>>
    /\ sess = [s \in Session |-> Idle(0)]
    /\ answer = [s \in Session |-> "none"]
    /\ writes = 0 /\ crashes = 0

Next ==
    \/ \E s \in Session :
        \/ \E c \in Chunk, v \in Version : StageBegin(s, c, v)
        \/ StageEnd(s)
        \/ \E want \in {0, NumChunks} : CommitStaged(s, want)
        \/ ReadChunk(s) \/ Apply(s) \/ RemoveChunk(s) \/ CleanupDone(s)
        \/ Crash(s) \/ Reopen(s)
    \/ OtherCommit

Spec == Init /\ [][Next]_vars

-----------------------------------------------------------------------------
(* Properties.                                                             *)

Uploads == {i \in 1..HeadSeq : world[i].key = UploadKey}

\* Every variable keeps its type: a session holds only chunks that were
\* written in full, and never a revision the disk does not have.
TypeOK ==
    /\ files \in [Chunk -> Version \cup {"none", "torn"}]
    /\ staged \in [Chunk -> Version \cup {"none"}]
    /\ \A s \in Session :
          /\ sess[s].pc \in {"idle", "writing", "reading", "cleaning", "closed"}
          /\ sess[s].rev \in 0..HeadSeq
          /\ sess[s].chunk \in Chunk /\ sess[s].want \in 0..NumChunks
          /\ \A i \in 1..Len(sess[s].read) : sess[s].read[i] \in Version
          /\ answer[s] \in {"none", "receipt", "staging error", "refused", "stale", "conflict"}
    /\ \A i \in 1..HeadSeq : world[i].base = i - 1

\* A chunk whose stage_chunk returned stays staged until the upload is
\* committed: no failed or interrupted commit loses it.
StagedUntilCommitted ==
    Uploads = {} => \A c \in Chunk : staged[c] # "none" => files[c] # "none"

\* However often, from however many sessions and after whatever crash the
\* client retries under one key, the upload is committed once, and whole,
\* whatever is written or removed while its chunks are read; a receipt or a
\* conflict is answered only when it is.
CommittedOnce ==
    /\ Cardinality(Uploads) <= 1
    /\ \A i \in Uploads : Len(world[i].content) = NumChunks
    /\ \A s \in Session : answer[s] \in {"receipt", "conflict"} => Uploads # {}
=============================================================================
