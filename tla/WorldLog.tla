------------------------------ MODULE WorldLog ------------------------------
(***************************************************************************)
(* What a persistent world promises its clients (ADR-0046, section 3.6):   *)
(* an append-only log of batches, each appended on the revision it names   *)
(* as its base, each idempotency key at most once, and after a power cut   *)
(* one of the logs the disk may hold.  WorldCommit implements it.          *)
(***************************************************************************)
EXTENDS Naturals, Sequences, SequencesExt

CONSTANTS Batch,     \* batches: records with fields base, key and ops
          MaxSeq     \* bound on the number of committed revisions

VARIABLES log,       \* the history HEAD names
          outcomes,  \* the histories a power cut may leave behind HEAD
          durable    \* histories acknowledged as newly committed

vars == <<log, outcomes, durable>>

Keys(h) == { h[i].key : i \in 1..Len(h) }

Init ==
    /\ log = <<>>
    /\ outcomes = {<<>>}
    /\ durable = {}

(* A batch becomes revision Len(log) + 1; it may not be durable yet. *)
Publish ==
    \E b \in Batch :
        /\ Len(log) < MaxSeq
        /\ b.base = Len(log)
        /\ b.key \notin Keys(log)
        /\ log' = Append(log, b)
        /\ outcomes' = outcomes \cup {log'}
        /\ UNCHANGED durable

(* The publication is durable, and only then acknowledged as committed. *)
Acknowledge ==
    /\ log # <<>>
    /\ outcomes' = {log}
    /\ durable' = durable \cup {log}
    /\ UNCHANGED log

(* It is durable, whoever made it so, and not acknowledged yet. *)
Settle ==
    /\ outcomes' = {log}
    /\ UNCHANGED <<log, durable>>

(* A power cut leaves one of the histories the disk may hold. *)
PowerLoss ==
    /\ log' \in outcomes
    /\ outcomes' = {log'}
    /\ UNCHANGED durable

Next == Publish \/ Acknowledge \/ Settle \/ PowerLoss

Spec == Init /\ [][Next]_vars
=============================================================================
