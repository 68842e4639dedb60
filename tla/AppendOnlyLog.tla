---------------------------- MODULE AppendOnlyLog ----------------------------
(***************************************************************************)
(* What checkpointing promises to anyone who holds a checkpoint: the log   *)
(* only grows, and every commitment ever published is a commitment to a    *)
(* prefix of it, published once and never withdrawn or replaced.           *)
(*                                                                         *)
(* A commitment is the prefix it commits to: the root of a Merkle Mountain *)
(* Range determines the leaves it was computed from (module Mmr).          *)
(***************************************************************************)
EXTENDS Naturals, Sequences

CONSTANT Capsules       \* the records a log can hold

VARIABLES
    log,                \* the records appended so far
    published,          \* every commitment that left a process
    waived              \* a record was put at risk: the promise is off

avars == <<log, published, waived>>

AInit ==
    /\ log = <<>>
    /\ published = {}
    /\ waived = FALSE

Extend ==
    /\ \E c \in Capsules : log' = Append(log, c)
    /\ UNCHANGED <<published, waived>>

Publish ==
    /\ \E n \in 1..Len(log) : published' = published \cup {SubSeq(log, 1, n)}
    /\ UNCHANGED <<log, waived>>

(* A record appended that no one waited for, an older copy put back: from  *)
(* then on nothing is promised.                                            *)
Waive == waived'

ANext == Extend \/ Publish \/ Waive

ASpec == AInit /\ [][ANext]_avars

==============================================================================
