------------------------- MODULE StagedUploadProofs -------------------------
(***************************************************************************)
(* Proofs about StagedUpload, for every set of sessions and versions, every *)
(* number of chunks and every bound.                                       *)
(***************************************************************************)
EXTENDS StagedUpload, FiniteSetTheorems, SequenceTheorems, TLAPS

Answers == {"none", "receipt", "staging error", "refused", "stale", "conflict"}
Call == [pc : {"idle", "writing", "reading", "cleaning", "closed"}, rev : Nat, chunk : Chunk,
         version : Version \cup {"none"}, want : 0..NumChunks, read : Seq(Version)]
Record == [key : {"upload", "other"}, base : Nat, content : Seq(Version)]

(* The full types of the variables. *)
Shape ==
    /\ files \in [Chunk -> Version \cup {"none", "torn"}]
    /\ staged \in [Chunk -> Version \cup {"none"}]
    /\ world \in Seq(Record)
    /\ sess \in [Session -> Call]
    /\ answer \in [Session -> Answers]

(* What the disk holds: revisions are numbered, an upload is whole and there *)
(* is at most one.                                                         *)
Disk ==
    /\ \A i \in 1..HeadSeq : world[i].base = i - 1
    /\ \A i \in Uploads : Len(world[i].content) = NumChunks
    /\ \A i, j \in Uploads : i = j

(* Where a session is: it knows a revision of the disk, it writes a version, *)
(* it reads for the whole upload, it cleans up only after a commit, and what it answered is  *)
(* true.                                                                   *)
Calls ==
    \A s \in Session :
        /\ sess[s].rev <= HeadSeq
        /\ sess[s].pc = "writing" => sess[s].version \in Version
        /\ sess[s].pc = "reading" => sess[s].want = NumChunks
        /\ sess[s].pc = "cleaning" => Uploads # {}
        /\ answer[s] \in {"receipt", "conflict"} => Uploads # {}

(* Before the commit a file that is written or staged exists. *)
Present ==
    Uploads = {} =>
        /\ \A s \in Session : sess[s].pc = "writing" => files[sess[s].chunk] # "none"
        /\ \A c \in Chunk : staged[c] # "none" => files[c] # "none"

IInv == Shape /\ Disk /\ Calls /\ Present

-----------------------------------------------------------------------------
(* An idle session is a call of its type. *)
LEMMA IdleType == ASSUME NEW r \in Nat PROVE Idle(r) \in Call
  BY ChunksAssumption DEF Idle, Call, Chunk

LEMMA ClosedType == ASSUME NEW r \in Nat PROVE [Idle(r) EXCEPT !.pc = "closed"] \in Call
<1>1. [Idle(r) EXCEPT !.pc = "closed"] =
        [pc |-> "closed", rev |-> r, chunk |-> 0, version |-> "none", want |-> 0, read |-> <<>>]
  BY DEF Idle
<1>2. [pc |-> "closed", rev |-> r, chunk |-> 0, version |-> "none", want |-> 0, read |-> <<>>] \in Call
  BY ChunksAssumption DEF Call, Chunk
<1> QED
  BY <1>1, <1>2, Zenon

(* Appending a revision keeps the uploads, and adds itself if it is one. *)
LEMMA UploadsAppend ==
    ASSUME Shape, NEW r \in Record, world' = Append(world, r)
    PROVE  /\ HeadSeq \in Nat /\ HeadSeq' = HeadSeq + 1
           /\ world' \in Seq(Record)
           /\ \A i \in 1..HeadSeq : world'[i] = world[i]
           /\ world'[HeadSeq + 1] = r
           /\ Uploads' = IF r.key = UploadKey THEN Uploads \cup {HeadSeq + 1} ELSE Uploads
<1>1. /\ HeadSeq \in Nat /\ HeadSeq' = HeadSeq + 1
      /\ world' \in Seq(Record)
      /\ \A i \in 1..HeadSeq : world'[i] = world[i]
      /\ world'[HeadSeq + 1] = r
  BY DEF Shape, HeadSeq
<1>2. 1..HeadSeq' = 1..HeadSeq \cup {HeadSeq + 1}
  BY <1>1
<1>3. Uploads' = {i \in 1..HeadSeq' : world'[i].key = UploadKey}
  BY DEF Uploads, UploadKey
<1> QED
  BY <1>1, <1>2, <1>3 DEF Uploads

(* Nothing about the uploads changes while the world does not. *)
LEMMA UploadsSame ==
    ASSUME world' = world
    PROVE  Uploads' = Uploads /\ HeadSeq' = HeadSeq
  BY DEF Uploads, HeadSeq

-----------------------------------------------------------------------------
LEMMA Initially == Init => IInv
<1> SUFFICES ASSUME Init PROVE IInv
  OBVIOUS
<1>1. Shape
  BY IdleType DEF Init, Shape, Answers, Record
<1>2. HeadSeq = 0 /\ Uploads = {}
  BY DEF Init, HeadSeq, Uploads
<1> QED
  BY <1>1, <1>2 DEF Init, IInv, Disk, Calls, Present, Idle

(* A call that ends with an answer, the world and the files as they were. *)
LEMMA ReplyInv ==
    ASSUME IInv, NEW s \in Session, NEW a \in Answers, Reply(s, a),
           a \in {"receipt", "conflict"} => Uploads # {},
           UNCHANGED <<files, staged, world>>
    PROVE  IInv'
<1>1. Uploads' = Uploads /\ HeadSeq' = HeadSeq
  BY UploadsSame
<1>2. Idle(sess[s].rev) \in Call
  BY IdleType DEF IInv, Shape, Call
<1>3. Shape'
  BY <1>2 DEF IInv, Shape, Reply
<1>4. \A t \in Session : /\ t # s => sess'[t] = sess[t] /\ answer'[t] = answer[t]
                         /\ t = s => sess'[t] = Idle(sess[s].rev) /\ answer'[t] = a
  BY DEF Reply, IInv, Shape
<1>5. Disk'
  BY <1>1 DEF IInv, Disk
<1>6. Calls'
  BY <1>1, <1>4 DEF IInv, Calls, Idle
<1>7. Present'
  BY <1>1, <1>4 DEF IInv, Present, Idle
<1> QED
  BY <1>3, <1>5, <1>6, <1>7 DEF IInv

LEMMA StageBeginInv ==
    ASSUME IInv, NEW s \in Session, NEW c \in Chunk, NEW v \in Version, StageBegin(s, c, v)
    PROVE  IInv'
<1>1. Uploads' = Uploads /\ HeadSeq' = HeadSeq
  BY UploadsSame DEF StageBegin
<1> DEFINE call == [sess[s] EXCEPT !.pc = "writing", !.chunk = c, !.version = v]
<1>a. call \in Call
  BY DEF IInv, Shape, Call
<1>b. sess' = [sess EXCEPT ![s] = call]
  BY DEF StageBegin, IInv, Shape, Call
<1>2. Shape'
  BY <1>a, <1>b DEF IInv, Shape, StageBegin
<1>3. \A t \in Session : /\ t # s => sess'[t] = sess[t]
                         /\ t = s => sess'[t].pc = "writing" /\ sess'[t].chunk = c
                                     /\ sess'[t].rev = sess[t].rev /\ sess'[t].version = v
  BY DEF IInv, Shape, StageBegin, Call
<1>4. files' = [files EXCEPT ![c] = "torn"] /\ staged' = staged /\ world' = world /\ answer' = answer
  BY DEF StageBegin
<1>5. Disk'
  BY <1>1, <1>4 DEF IInv, Disk
<1>6. Calls'
  BY <1>1, <1>3, <1>4 DEF IInv, Calls
<1>7. \A d \in Chunk : files[d] # "none" => files'[d] # "none"
  BY <1>4 DEF IInv, Shape
<1>8. files'[c] = "torn"
  BY <1>4 DEF IInv, Shape
<1>9. \A t \in Session : sess[t].chunk \in Chunk
  BY DEF IInv, Shape, Call
<1>10. Present'
  BY <1>1, <1>3, <1>4, <1>7, <1>8, <1>9 DEF IInv, Present
<1> QED
  BY <1>2, <1>5, <1>6, <1>10 DEF IInv

LEMMA StageEndInv ==
    ASSUME IInv, NEW s \in Session, StageEnd(s)
    PROVE  IInv'
<1> DEFINE c == sess[s].chunk
           v == sess[s].version
<1>1. Uploads' = Uploads /\ HeadSeq' = HeadSeq
  BY UploadsSame DEF StageEnd
<1>2. c \in Chunk /\ v \in Version \cup {"none"} /\ Idle(sess[s].rev) \in Call
  BY IdleType DEF IInv, Shape, Call
<1>3. /\ files' = [files EXCEPT ![c] = IF @ = "none" THEN @ ELSE v]
      /\ staged' = [staged EXCEPT ![c] = v]
      /\ sess' = [sess EXCEPT ![s] = Idle(sess[s].rev)]
      /\ world' = world /\ answer' = answer /\ sess[s].pc = "writing"
  BY DEF StageEnd
<1>4. Shape'
  BY <1>2, <1>3 DEF IInv, Shape
<1>5. \A t \in Session : /\ t # s => sess'[t] = sess[t]
                         /\ t = s => sess'[t] = Idle(sess[s].rev)
  BY <1>3 DEF IInv, Shape
<1>6. Disk'
  BY <1>1, <1>3 DEF IInv, Disk
<1>7. Calls'
  BY <1>1, <1>3, <1>5 DEF IInv, Calls, Idle
<1> HIDE DEF c, v
<1>8. \A d \in Chunk \ {c} : files'[d] = files[d] /\ staged'[d] = staged[d]
  BY <1>3 DEF IInv, Shape
<1>9. files[c] # "none" => files'[c] = v
  BY <1>2, <1>3 DEF IInv, Shape
<1>10. v # "none"
  BY <1>3, VersionAssumption DEF IInv, Calls, v
<1>11. Uploads = {} => files[c] # "none"
  BY <1>3 DEF IInv, Present, c
<1>12. Uploads = {} => \A d \in Chunk : files[d] # "none" => files'[d] # "none"
  BY <1>8, <1>9, <1>10
<1>13. \A t \in Session : sess'[t].pc = "writing" => sess'[t] = sess[t] /\ sess[t].chunk \in Chunk
  BY <1>5 DEF Idle, IInv, Shape, Call
<1>14. Present'
  BY <1>1, <1>2, <1>8, <1>9, <1>10, <1>11, <1>12, <1>13 DEF IInv, Present
<1> QED
  BY <1>4, <1>6, <1>7, <1>14 DEF IInv

LEMMA CommitStagedInv ==
    ASSUME IInv, NEW s \in Session, NEW want \in {0, NumChunks}, CommitStaged(s, want)
    PROVE  IInv'
<1>1. CASE Reply(s, "staging error") /\ UNCHANGED <<files, staged, world>>
  BY <1>1, ReplyInv DEF Answers
<1>2. CASE /\ ~NothingToRead(want)
           /\ sess' = [sess EXCEPT ![s].pc = "reading", ![s].want = want, ![s].read = <<>>]
           /\ UNCHANGED <<files, staged, world, answer>>
  <2> DEFINE call == [sess[s] EXCEPT !.pc = "reading", !.want = want, !.read = <<>>]
  <2>1. want = NumChunks
    BY <1>2 DEF NothingToRead
  <2>a. sess[s] \in Call /\ <<>> \in Seq(Version) /\ want \in 0..NumChunks
    BY <2>1, ChunksAssumption DEF IInv, Shape
  <2>2. call \in Call
    BY <2>a DEF Call
  <2>3. sess' = [sess EXCEPT ![s] = call]
    BY <1>2 DEF IInv, Shape, Call
  <2>4. \A t \in Session : /\ t # s => sess'[t] = sess[t]
                           /\ t = s => sess'[t].pc = "reading" /\ sess'[t].want = want
                                       /\ sess'[t].rev = sess[t].rev
    BY <1>2 DEF IInv, Shape, Call
  <2>5. Uploads' = Uploads /\ HeadSeq' = HeadSeq
    BY <1>2, UploadsSame
  <2>6. Shape'
    BY <1>2, <2>2, <2>3 DEF IInv, Shape
  <2>7. Disk'
    BY <1>2, <2>5 DEF IInv, Disk
  <2>8. Calls'
    BY <1>2, <2>1, <2>4, <2>5 DEF IInv, Calls
  <2>9. Present'
    BY <1>2, <2>4, <2>5 DEF IInv, Present
  <2> QED
    BY <2>6, <2>7, <2>8, <2>9 DEF IInv
<1> QED
  BY <1>1, <1>2 DEF CommitStaged

LEMMA ReadChunkInv ==
    ASSUME IInv, NEW s \in Session, ReadChunk(s)
    PROVE  IInv'
<1> DEFINE c == Len(sess[s].read)
<1>1. CASE Reply(s, "staging error") /\ UNCHANGED <<files, staged, world>>
  BY <1>1, ReplyInv DEF Answers
<1>2. CASE /\ sess[s].pc = "reading" /\ c < sess[s].want /\ Readable(c)
           /\ sess' = [sess EXCEPT ![s].read = Append(@, files[c])]
           /\ UNCHANGED <<files, staged, world, answer>>
  <2>1. sess[s] \in Call /\ sess[s].read \in Seq(Version) /\ c \in Nat /\ sess[s].want \in 0..NumChunks
    BY DEF IInv, Shape, Call
  <2>2. c \in Chunk
    BY <1>2, <2>1, ChunksAssumption DEF Chunk
  <2>3. files[c] \in Version
    BY <1>2, <2>2 DEF Readable, IInv, Shape
  <2> DEFINE read == Append(sess[s].read, files[c])
             call == [sess[s] EXCEPT !.read = read]
  <2>4. read \in Seq(Version)
    BY <2>1, <2>3
  <2>5. call \in Call
    BY <2>1, <2>4 DEF Call
  <2>6. sess' = [sess EXCEPT ![s] = call]
    BY <1>2 DEF IInv, Shape
  <2>7. \A t \in Session : /\ sess'[t].pc = sess[t].pc /\ sess'[t].want = sess[t].want
                           /\ sess'[t].rev = sess[t].rev /\ sess'[t].version = sess[t].version
                           /\ sess'[t].chunk = sess[t].chunk
    BY <2>1, <2>6 DEF IInv, Shape, Call
  <2>8. Uploads' = Uploads /\ HeadSeq' = HeadSeq
    BY <1>2, UploadsSame
  <2>9. Shape'
    BY <1>2, <2>5, <2>6 DEF IInv, Shape
  <2>10. Disk'
    BY <1>2, <2>8 DEF IInv, Disk
  <2>11. Calls'
    BY <1>2, <2>7, <2>8 DEF IInv, Calls
  <2>12. Present'
    BY <1>2, <2>7, <2>8 DEF IInv, Present
  <2> QED
    BY <2>9, <2>10, <2>11, <2>12 DEF IInv
<1> QED
  BY <1>1, <1>2 DEF ReadChunk

(* A session that goes on to clean up, the world at the revision it knows. *)
LEMMA CleaningInv ==
    ASSUME IInv, NEW s \in Session, Shape', Disk', HeadSeq' \in Nat, HeadSeq <= HeadSeq',
           Uploads' # {},
           NEW call \in Call, call.pc = "cleaning", call.rev = HeadSeq',
           sess' = [sess EXCEPT ![s] = call], answer' = answer
    PROVE  IInv'
<1>1. \A t \in Session : /\ t # s => sess'[t] = sess[t]
                         /\ t = s => sess'[t] = call
  BY DEF IInv, Shape
<1>2. HeadSeq \in Nat /\ \A t \in Session : sess[t].rev \in Nat
  BY DEF IInv, Shape, Call, HeadSeq
<1>3. \A t \in Session : sess'[t].rev <= HeadSeq'
  BY <1>1, <1>2 DEF IInv, Calls
<1>4. \A t \in Session : /\ sess'[t].pc = "writing" => sess'[t].version \in Version
                         /\ sess'[t].pc = "reading" => sess'[t].want = NumChunks
  BY <1>1 DEF IInv, Calls
<1>5. Calls'
  BY <1>3, <1>4 DEF Calls
<1> QED
  BY <1>5 DEF IInv, Present

LEMMA ApplyInv ==
    ASSUME IInv, NEW s \in Session, Apply(s)
    PROVE  IInv'
<1>1. HeadSeq \in Nat /\ sess[s].rev \in Nat /\ sess[s].read \in Seq(Version)
  BY DEF IInv, Shape, Call, HeadSeq
<1>2. CASE Reply(s, "refused") /\ UNCHANGED <<files, staged, world>>
  BY <1>2, ReplyInv DEF Answers
<1>3. CASE /\ Applies(s) \in {"stale", "conflict"} /\ Reply(s, Applies(s))
           /\ UNCHANGED <<files, staged, world>>
  <2>1. Applies(s) = "conflict" => Uploads # {}
    BY DEF Applies, Uploads
  <2> QED
    BY <1>3, <2>1, ReplyInv DEF Answers
<1>4. CASE /\ Applies(s) = "replay" /\ world' = world
           /\ sess' = [sess EXCEPT ![s].pc = "cleaning", ![s].rev = Len(world')]
           /\ UNCHANGED <<files, staged, answer>>
  <2>1. Uploads # {}
    BY <1>4 DEF Applies, Uploads
  <2>2. Uploads' = Uploads /\ HeadSeq' = HeadSeq
    BY <1>4, UploadsSame
  <2> DEFINE call == [sess[s] EXCEPT !.pc = "cleaning", !.rev = HeadSeq]
  <2>3. call \in Call /\ call.pc = "cleaning" /\ call.rev = HeadSeq'
    BY <1>1, <2>2 DEF IInv, Shape, Call
  <2>4. sess' = [sess EXCEPT ![s] = call]
    BY <1>4, <2>2 DEF IInv, Shape, Call, HeadSeq
  <2> HIDE DEF call
  <2>5. Shape' /\ Disk'
    BY <1>4, <2>2, <2>3, <2>4 DEF IInv, Shape, Disk
  <2>6. HeadSeq' \in Nat /\ HeadSeq <= HeadSeq' /\ Uploads' # {}
    BY <1>1, <2>1, <2>2
  <2> QED
    BY <1>4, <2>3, <2>4, <2>5, <2>6, CleaningInv
<1>5. CASE /\ sess[s].pc = "reading" /\ Len(sess[s].read) = sess[s].want
           /\ Applies(s) = "commit"
           /\ world' = Append(world, [key |-> UploadKey, base |-> sess[s].rev, content |-> sess[s].read])
           /\ sess' = [sess EXCEPT ![s].pc = "cleaning", ![s].rev = Len(world')]
           /\ UNCHANGED <<files, staged, answer>>
  <2> DEFINE r == [key |-> UploadKey, base |-> sess[s].rev, content |-> sess[s].read]
             call == [sess[s] EXCEPT !.pc = "cleaning", !.rev = HeadSeq + 1]
  <2>1. sess[s].rev = HeadSeq /\ Uploads = {}
    BY <1>5 DEF Applies, Uploads
  <2>2. r \in Record /\ r.key = UploadKey /\ r.base = HeadSeq /\ r.content = sess[s].read
    BY <1>1, <2>1 DEF Record, UploadKey
  <2>3. Len(sess[s].read) = NumChunks
    BY <1>5 DEF IInv, Calls
  <2> HIDE DEF r
  <2>4. /\ HeadSeq' = HeadSeq + 1
        /\ world' \in Seq(Record)
        /\ \A i \in 1..HeadSeq : world'[i] = world[i]
        /\ world'[HeadSeq + 1] = r
        /\ Uploads' = {HeadSeq + 1}
    BY <1>5, <2>1, <2>2, UploadsAppend DEF IInv, r
  <2>a. sess[s] \in Call /\ HeadSeq + 1 \in Nat /\ HeadSeq' = HeadSeq + 1
    BY <1>1, <2>4 DEF IInv, Shape
  <2>5. call \in Call /\ call.pc = "cleaning" /\ call.rev = HeadSeq'
    BY <2>a DEF Call
  <2>6. sess' = [sess EXCEPT ![s] = call]
    BY <1>5, <2>4 DEF IInv, Shape, Call, HeadSeq
  <2> HIDE DEF call
  <2>7. Shape'
    BY <1>5, <2>4, <2>5, <2>6 DEF IInv, Shape
  <2>8. \A i \in 1..HeadSeq' : i \in 1..HeadSeq \/ i = HeadSeq + 1
    BY <1>1, <2>4
  <2>9. \A i \in 1..HeadSeq' : world'[i].base = i - 1
    <3>1. \A i \in 1..HeadSeq : world'[i].base = i - 1
      BY <2>4 DEF IInv, Disk
    <3>2. world'[HeadSeq + 1].base = (HeadSeq + 1) - 1
      BY <1>1, <2>2, <2>4
    <3> QED
      BY <2>8, <3>1, <3>2
  <2>10. Disk'
    BY <2>2, <2>3, <2>4, <2>9 DEF Disk
  <2>11. HeadSeq' \in Nat /\ HeadSeq <= HeadSeq' /\ Uploads' # {}
    BY <1>1, <2>4
  <2> QED
    BY <1>5, <2>11, <2>5, <2>6, <2>7, <2>10, CleaningInv
<1> QED
  BY <1>2, <1>3, <1>4, <1>5 DEF Apply

LEMMA RemoveChunkInv ==
    ASSUME IInv, NEW s \in Session, RemoveChunk(s)
    PROVE  IInv'
<1>1. Uploads' = Uploads /\ HeadSeq' = HeadSeq /\ Uploads # {}
  BY UploadsSame DEF RemoveChunk, IInv, Calls
<1>2. Shape'
  BY DEF IInv, Shape, RemoveChunk
<1>3. Disk' /\ Calls'
  BY <1>1 DEF IInv, Disk, Calls, RemoveChunk
<1> QED
  BY <1>1, <1>2, <1>3 DEF IInv, Present

LEMMA CleanupDoneInv ==
    ASSUME IInv, NEW s \in Session, CleanupDone(s)
    PROVE  IInv'
<1>1. Uploads # {}
  BY DEF CleanupDone, IInv, Calls
<1> QED
  BY <1>1, ReplyInv DEF CleanupDone, Answers

LEMMA OtherCommitInv == ASSUME IInv, OtherCommit PROVE IInv'
<1> DEFINE r == [key |-> "other", base |-> HeadSeq, content |-> <<>>]
<1>1. HeadSeq \in Nat /\ <<>> \in Seq(Version)
  BY DEF IInv, Shape, HeadSeq
<1>2. r \in Record /\ r.key # UploadKey /\ r.base = HeadSeq
  BY <1>1 DEF Record, UploadKey
<1> HIDE DEF r
<1>3. /\ HeadSeq' = HeadSeq + 1
      /\ world' \in Seq(Record)
      /\ \A i \in 1..HeadSeq : world'[i] = world[i]
      /\ world'[HeadSeq + 1] = r
      /\ Uploads' = Uploads
  BY <1>2, UploadsAppend DEF IInv, OtherCommit, r
<1>4. Shape'
  BY <1>3 DEF IInv, Shape, OtherCommit
<1>5. \A i \in 1..HeadSeq' : i \in 1..HeadSeq \/ i = HeadSeq + 1
  BY <1>1, <1>3
<1>6. \A i \in 1..HeadSeq' : world'[i].base = i - 1
  BY <1>1, <1>2, <1>3, <1>5 DEF IInv, Disk
<1>7. \A i \in Uploads : world'[i] = world[i]
  BY <1>3 DEF Uploads
<1>8. Disk'
  BY <1>3, <1>6, <1>7 DEF IInv, Disk
<1>9. \A s \in Session : sess[s].rev <= HeadSeq'
  BY <1>1, <1>3 DEF IInv, Calls, Shape, Call
<1>10. Calls' /\ Present'
  BY <1>3, <1>9 DEF IInv, Calls, Present, OtherCommit
<1> QED
  BY <1>4, <1>8, <1>10 DEF IInv

(* A session that dies or opens again has no call in progress. *)
LEMMA RestartInv ==
    ASSUME IInv, NEW s \in Session, NEW call \in Call, sess' = [sess EXCEPT ![s] = call],
           call.pc \in {"idle", "closed"}, call.rev <= HeadSeq,
           UNCHANGED <<files, staged, world, answer>>
    PROVE  IInv'
<1>1. Uploads' = Uploads /\ HeadSeq' = HeadSeq
  BY UploadsSame
<1>2. \A t \in Session : /\ t # s => sess'[t] = sess[t]
                         /\ t = s => sess'[t] = call
  BY DEF IInv, Shape
<1>3. Shape'
  BY DEF IInv, Shape
<1>4. Disk'
  BY <1>1 DEF IInv, Disk
<1>5. Calls'
  BY <1>1, <1>2 DEF IInv, Calls
<1>6. Present'
  BY <1>1, <1>2 DEF IInv, Present
<1> QED
  BY <1>3, <1>4, <1>5, <1>6 DEF IInv

LEMMA CrashInv == ASSUME IInv, NEW s \in Session, Crash(s) PROVE IInv'
<1> DEFINE call == [Idle(sess[s].rev) EXCEPT !.pc = "closed"]
<1>1. sess[s].rev \in Nat /\ sess[s].rev <= HeadSeq
  BY DEF IInv, Shape, Call, Calls
<1>2. call \in Call
  BY <1>1, ClosedType
<1>3. call.pc = "closed" /\ call.rev = sess[s].rev
  BY DEF Idle
<1>4. sess' = [sess EXCEPT ![s] = call] /\ UNCHANGED <<files, staged, world, answer>>
  BY DEF Crash
<1> HIDE DEF call
<1> QED
  BY <1>1, <1>2, <1>3, <1>4, RestartInv

LEMMA ReopenInv == ASSUME IInv, NEW s \in Session, Reopen(s) PROVE IInv'
<1>1. HeadSeq \in Nat
  BY DEF IInv, Shape, HeadSeq
<1>2. Idle(HeadSeq) \in Call
  BY <1>1, IdleType
<1>3. Idle(HeadSeq).pc = "idle" /\ Idle(HeadSeq).rev = HeadSeq
  BY DEF Idle
<1>4. sess' = [sess EXCEPT ![s] = Idle(HeadSeq)] /\ UNCHANGED <<files, staged, world, answer>>
  BY DEF Reopen
<1>5. Idle(HeadSeq).rev <= HeadSeq
  BY <1>1, <1>3
<1> QED
  BY <1>2, <1>3, <1>4, <1>5, RestartInv

LEMMA StutterInv == ASSUME IInv, UNCHANGED vars PROVE IInv'
<1>1. Uploads' = Uploads /\ HeadSeq' = HeadSeq
  BY UploadsSame DEF vars
<1> QED
  BY <1>1 DEF vars, IInv, Shape, Disk, Calls, Present

(* Every step of Next keeps the invariant: one case per action. *)
LEMMA Stepwise == IInv /\ [Next]_vars => IInv'
<1> SUFFICES ASSUME IInv, [Next]_vars PROVE IInv'
  OBVIOUS
<1>1. CASE UNCHANGED vars
  BY <1>1, StutterInv
<1>2. CASE OtherCommit
  BY <1>2, OtherCommitInv
<1>3. ASSUME NEW s \in Session,
             \/ \E c \in Chunk, v \in Version : StageBegin(s, c, v)
             \/ StageEnd(s)
             \/ \E want \in {0, NumChunks} : CommitStaged(s, want)
             \/ ReadChunk(s) \/ Apply(s) \/ RemoveChunk(s) \/ CleanupDone(s)
             \/ Crash(s) \/ Reopen(s)
      PROVE  IInv'
  BY <1>3, StageBeginInv, StageEndInv, CommitStagedInv, ReadChunkInv, ApplyInv, RemoveChunkInv,
     CleanupDoneInv, CrashInv, ReopenInv, Zenon
<1> QED
  BY <1>1, <1>2, <1>3 DEF Next

(* The inductive invariant holds throughout. *)
THEOREM Invariance == Spec => []IInv
  BY Initially, Stepwise, PTL DEF Spec

-----------------------------------------------------------------------------
(* Every variable keeps its type, sessions hold chunks that were written in *)
(* full, and know a revision the disk has (stage_chunk, commit_staged).     *)
THEOREM TypeCorrect == Spec => []TypeOK
<1>1. IInv => TypeOK
  <2> SUFFICES ASSUME IInv PROVE TypeOK
    OBVIOUS
  <2>1. HeadSeq \in Nat
    BY DEF IInv, Shape, HeadSeq
  <2>2. ASSUME NEW s \in Session
        PROVE  /\ sess[s].pc \in {"idle", "writing", "reading", "cleaning", "closed"}
               /\ sess[s].rev \in 0..HeadSeq
               /\ sess[s].chunk \in Chunk /\ sess[s].want \in 0..NumChunks
               /\ \A i \in 1..Len(sess[s].read) : sess[s].read[i] \in Version
               /\ answer[s] \in Answers
    <3>1. sess[s] \in Call /\ answer[s] \in Answers /\ sess[s].rev <= HeadSeq
      BY DEF IInv, Shape, Calls
    <3>2. sess[s].read \in Seq(Version) /\ sess[s].rev \in Nat
      BY <3>1 DEF Call
    <3>3. \A i \in 1..Len(sess[s].read) : sess[s].read[i] \in Version
      BY <3>2
    <3>4. sess[s].rev \in 0..HeadSeq
      BY <2>1, <3>1, <3>2
    <3> QED
      BY <3>1, <3>3, <3>4 DEF Call
  <2> QED
    BY <2>2 DEF IInv, Shape, Disk, Answers, TypeOK
<1> QED
  BY <1>1, Invariance, PTL

(* No failed or interrupted commit_staged loses a chunk that was staged. *)
THEOREM StagedUntilCommittedCorrect == Spec => []StagedUntilCommitted
<1>1. IInv => StagedUntilCommitted
  BY DEF IInv, Present, StagedUntilCommitted
<1> QED
  BY <1>1, Invariance, PTL

(* Retries of commit_staged under one key commit the upload once and whole, *)
(* and a receipt or a conflict is answered only when it is committed.      *)
THEOREM CommittedOnceCorrect == Spec => []CommittedOnce
<1>1. IInv => CommittedOnce
  <2> SUFFICES ASSUME IInv PROVE CommittedOnce
    OBVIOUS
  <2>1. CASE Uploads = {}
    BY <2>1, FS_EmptySet DEF IInv, Calls, CommittedOnce
  <2>2. CASE Uploads # {}
    <3>a. PICK i \in Uploads : TRUE
      BY <2>2
    <3>1. Uploads = {i}
      BY <3>a DEF IInv, Disk
    <3>2. Cardinality(Uploads) = 1
      BY <3>1, FS_Singleton
    <3> QED
      BY <2>2, <3>2 DEF IInv, Disk, CommittedOnce
  <2> QED
    BY <2>1, <2>2
<1> QED
  BY <1>1, Invariance, PTL
=============================================================================
