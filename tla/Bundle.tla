------------------------------- MODULE Bundle -------------------------------
(***************************************************************************)
(* `capsule bundle` (capsule_ledger/cli/bundle_cmd.py): select records,    *)
(* pull in the parents they cite, verify each, and attach an MMR range     *)
(* proof up to the size of the ledger.                                     *)
(*                                                                         *)
(* The command takes no lock: the scan, every fetch of a parent, the count *)
(* of the ledger and the sync of its MMR are reads of their own, and other *)
(* processes append in between.                                            *)
(***************************************************************************)
EXTENDS Verdicts

CONSTANT FreshIds(_)    \* the ids a new record may get, given those in use

ASSUME FreshAssumption ==
    \A used \in SUBSET Ids : FreshIds(used) \subseteq Ids \ used

MmrProofs == [of : Seq(Ids), leafIndex : Nat]

Certificates ==
    [fromSeq : Nat, toSeq : Nat, inclusionFrom : MmrProofs, inclusionTo : MmrProofs,
     rangeRoot : Seq(Ids), checkpointRoot : Seq(Ids),
     consistencyProof : Seq(Seq(Ids)) \cup {Nil}]

Bundles ==
    [records : Seq(Records), verification : UNION {[I -> BOOLEAN] : I \in SUBSET Ids},
     disclosed : Disclosures, cert : Certificates \cup {Nil}]

ASSUME NilAssumption == Nil \notin Certificates /\ Nil \notin Bundles

VARIABLES
    log,                \* the ledger's records; a record's seq is its index
    cli                 \* the process that runs the command

bvars == <<log, cli>>

Seqs == DOMAIN log

SeqNo(id) == CHOOSE s \in Seqs : log[s].id = id

IdsAt(seqs) == {log[s].id : s \in seqs}

LogIds(n) == [s \in 1..n |-> log[s].id]

BundleInit ==
    /\ log = <<>>
    /\ cli = [pc |-> "idle"]

(* Another process appends.  The store holds a capsule_id once; the parent *)
(* named may be there, come later, or never; a body may have been altered. *)
AppendRecord ==
    /\ \E id \in FreshIds(IdsAt(Seqs)), parent \in Ids \cup {Nil},
         intact \in BOOLEAN :
         log' = Append(log, [id |-> id, parent |-> parent, intact |-> intact])
    /\ UNCHANGED cli

(* store.scan(query): the filters may select any of the records.           *)
Scan ==
    /\ cli.pc = "idle"
    /\ \E matched \in SUBSET Seqs :
         cli' = [pc |-> "collect", found |-> matched, frontier |-> matched,
                 missing |-> {}, scanned |-> Len(log)]
    /\ UNCHANGED log

(* Defect variant of Wanted: a parent is fetched again.                    *)
WantedAgain(parent) == parent # Nil /\ parent \notin cli.missing

(* Defect variant of Wanted: a record that names no parent is not told.    *)
WantedUnnamed(parent) ==
    parent \notin IdsAt(cli.found) /\ parent \notin cli.missing

Wanted(parent) ==
    /\ parent # Nil
    /\ parent \notin IdsAt(cli.found)
    /\ parent \notin cli.missing

(* Defect variant of Taken: a fetched parent's own parent is not looked at. *)
TakenOnly(s, parentSeq) ==
    [cli EXCEPT !.found = @ \cup {parentSeq}, !.frontier = @ \ {s}]

(* One turn of _collect_with_parents' loop, on a record of the frontier.   *)
Taken(s, parentSeq) ==
    [cli EXCEPT !.found = @ \cup {parentSeq},
                !.frontier = (@ \ {s}) \cup {parentSeq}]

Collect(s) ==
    /\ cli.pc = "collect"
    /\ s \in cli.frontier
    /\ LET parent == log[s].parent IN
         \/ /\ ~Wanted(parent)
            /\ cli' = [cli EXCEPT !.frontier = @ \ {s}]
         \/ /\ Wanted(parent) /\ parent \notin IdsAt(Seqs)
            /\ cli' = [cli EXCEPT !.frontier = @ \ {s}, !.missing = @ \cup {parent}]
         \/ /\ Wanted(parent) /\ parent \in IdsAt(Seqs)
            /\ cli' = Taken(s, SeqNo(parent))
    /\ UNCHANGED log

(* verify_capsule: a record is ok if its body hashes to its id; what else  *)
(* it may find is left out.                                                *)
VerifyEach ==
    /\ cli.pc = "collect"
    /\ cli.frontier = {}
    /\ cli' = [pc |-> "verified", found |-> cli.found, scanned |-> cli.scanned]
    /\ UNCHANGED log

(* Defect variant of TreeSize: the ledger is taken as it was scanned.      *)
TreeSizeScanned == cli.scanned

TreeSize == Len(log)

Count ==
    /\ cli.pc = "verified"
    /\ cli' = [pc |-> "counted", found |-> cli.found, treeSize |-> TreeSize,
               scanned |-> cli.scanned]
    /\ UNCHANGED log

(* _build_completeness_certificate, over the MMR of the log as it is now.  *)
Certificate(fromSeq, toSeq, treeSize) ==
    LET range == LogIds(toSeq) IN
    [fromSeq          |-> fromSeq,
     toSeq            |-> toSeq,
     inclusionFrom    |-> [of |-> range, leafIndex |-> fromSeq - 1],
     inclusionTo      |-> [of |-> range, leafIndex |-> toSeq - 1],
     rangeRoot        |-> range,
     checkpointRoot   |-> LogIds(treeSize),
     consistencyProof |-> IF treeSize = toSeq THEN Nil
                          ELSE <<range, LogIds(treeSize)>>]

(* The records that were found, in the order of their seq.                 *)
InOrder(found) ==
    CHOOSE order \in [1..Cardinality(found) -> found] :
        \A i, j \in DOMAIN order : i < j => order[i] < order[j]

MakeBundle(found, treeSize) ==
    [records      |-> [i \in 1..Cardinality(found) |-> log[InOrder(found)[i]]],
     verification |-> [id \in IdsAt(found) |-> log[SeqNo(id)].intact],
     disclosed    |-> [id \in Ids |-> "none"],
     cert         |-> IF found = {} THEN Nil
                      ELSE Certificate(Min(found), Max(found), treeSize)]

Certify ==
    /\ cli.pc = "counted"
    /\ cli' = [pc |-> "done", scanned |-> cli.scanned,
               bundle |-> MakeBundle(cli.found, cli.treeSize)]
    /\ UNCHANGED log

RunBundle == (\E s \in Seqs : Collect(s)) \/ VerifyEach \/ Count \/ Certify

BundleNext == AppendRecord \/ Scan \/ RunBundle

(* A command that was started runs on; no step of it waits for anyone.     *)
BundleFairness == WF_bvars(RunBundle)

-----------------------------------------------------------------------------
(* Properties                                                              *)

(* A bundle just made passes the viewer's Completeness stage, whatever was *)
(* appended while it was made: the range proof never reaches beyond the    *)
(* checkpoint, nor the checkpoint beyond the MMR (bundle_cmd.py:173-189,   *)
(* offline_shell.html:1013-1045).                                          *)
BundleVerifies ==
    (cli.pc = "done" /\ cli.bundle.records # <<>>) =>
        CheckCompleteness(cli.bundle) = "pass"

(* The bundle verifies standalone: each cited parent that was in the       *)
(* ledger when the records were selected is in the bundle, and theirs      *)
(* (bundle_cmd.py:100-119); what the viewer shows as a gap is one.         *)
ParentsIncluded ==
    cli.pc = "done" =>
        \A i \in Declared(cli.bundle.records) :
            cli.bundle.records[i].parent \in IdsAt(1..cli.scanned) =>
                cli.bundle.records[i].parent \in IdsOf(cli.bundle.records)

(* The command ends, also on a chain that loops (bundle_cmd.py:108-118).   *)
BundleEnds == cli.pc = "collect" ~> cli.pc = "done"

=============================================================================
