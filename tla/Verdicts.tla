------------------------------ MODULE Verdicts ------------------------------
(***************************************************************************)
(* What the offline viewer says of a bundle (the bundle script of          *)
(* bundle_viewer/static/offline_shell.html): per record, and per stage of  *)
(* its ritual, Integrity, Sequence, Completeness and Cross-check.          *)
(*                                                                         *)
(* A record is its stated capsule_id, the parent it names, and whether its *)
(* body hashes to that id; the chain is not part of what is hashed.  The   *)
(* MMR of the ledger is its sequence of capsule_ids, and the MMR proofs    *)
(* are taken at what module Mmr shows them to prove.                       *)
(***************************************************************************)
EXTENDS Integers, Sequences, FiniteSets, SequencesExt, FiniteSetsExt

CONSTANTS
    Ids,                \* capsule_ids
    Nil                 \* no parent, no certificate, no bundle

ASSUME IdAssumption == Nil \notin Ids

Records == [id : Ids, parent : Ids \cup {Nil}, intact : BOOLEAN]

Disclosures == [Ids -> {"none", "match", "mismatch"}]

IdsOf(records) == {records[i].id : i \in DOMAIN records}

RecordOf(records, id) ==
    records[Max({i \in DOMAIN records : records[i].id = id})]

Declared(records) == {i \in DOMAIN records : records[i].parent # Nil}

(* verifyCapsuleId: the body is hashed again, without capsule_id and chain. *)
VerifyCapsuleId(r) == r.intact

(* verifyCapsuleDigests: what is disclosed is hashed again.                *)
DigestsMatch(r, disclosed) == disclosed[r.id] # "mismatch"

-----------------------------------------------------------------------------
(* The table of records                                                    *)

(* The indexes before which the table shows a gap; the first record's      *)
(* parent is never missed.                                                 *)
FindChainGaps(records) ==
    {i \in Declared(records) : i > 1 /\ records[i].parent \notin IdsOf(records)}

(* parseAac leaves matchOk unset, so _capMismatched never holds.           *)
CapMismatched(r) == FALSE

Altered(records) ==
    {records[i].id : i \in {j \in DOMAIN records :
        ~VerifyCapsuleId(records[j]) \/ CapMismatched(records[j])}}

(* Defect variant of CitesAltered: only the parent is looked at.           *)
CitesAlteredDirectly(records, r) == r.parent \in Altered(records)

(* Up the chain from r, each id once, for as long as it is in the bundle.  *)
CitesAltered(records, r) ==
    LET walk[cur \in Records] == [seen \in SUBSET Ids |->
          /\ cur.parent # Nil
          /\ cur.parent \notin seen
          /\ \/ cur.parent \in Altered(records)
             \/ /\ cur.parent \in IdsOf(records)
                /\ walk[RecordOf(records, cur.parent)][seen \cup {cur.parent}]]
    IN  walk[r][{}]

AnnotateRecord(records, r) ==
    IF r.id \in Altered(records) THEN "digest_mismatch"
    ELSE IF CitesAltered(records, r) THEN "cites an altered record"
    ELSE "verifies"

-----------------------------------------------------------------------------
(* The stages                                                              *)

(* Defect variant of IntegrityStage: what is disclosed is not looked at.   *)
IntegrityStageBodyOnly(records, disclosed) ==
    IF \A i \in DOMAIN records : VerifyCapsuleId(records[i])
    THEN "pass" ELSE "fail"

IntegrityStage(records, disclosed) ==
    IF \A i \in DOMAIN records : /\ VerifyCapsuleId(records[i])
                                 /\ DigestsMatch(records[i], disclosed)
    THEN "pass" ELSE "fail"

SequenceStage(records) ==
    IF Len(records) < 2 \/ Declared(records) = {} THEN "skip"
    ELSE IF FindChainGaps(records) # {} THEN "fail"
    ELSE IF Cardinality(Declared(records)) < Len(records) - 1 THEN "skip"
    ELSE "pass"

(* MMR.verifyInclusion and MMR.verifyConsistency, as module Mmr has them:  *)
(* an MMR is the sequence of its leaves, a proof says what it was made of. *)
VerifyInclusion(root, leafIndex, id, proof) ==
    /\ proof.of = root
    /\ proof.leafIndex = leafIndex
    /\ leafIndex < Len(root)
    /\ root[leafIndex + 1] = id

VerifyConsistency(rootA, rootB, proof) ==
    proof = <<rootA, rootB>> /\ IsPrefix(rootA, rootB)

(* Defect variant of CheckCompleteness: the last record is not checked.    *)
CheckCompletenessOneEnd(b) ==
    IF b.records = <<>> \/ b.cert = Nil THEN "skip"
    ELSE IF VerifyInclusion(b.cert.rangeRoot, b.cert.inclusionFrom.leafIndex,
                            b.records[1].id, b.cert.inclusionFrom)
    THEN "pass" ELSE "fail"

CheckCompleteness(b) ==
    IF b.records = <<>> \/ b.cert = Nil THEN "skip"
    ELSE LET cc == b.cert IN
         IF /\ VerifyInclusion(cc.rangeRoot, cc.inclusionFrom.leafIndex,
                               b.records[1].id, cc.inclusionFrom)
            /\ VerifyInclusion(cc.rangeRoot, cc.inclusionTo.leafIndex,
                               Last(b.records).id, cc.inclusionTo)
            /\ cc.consistencyProof # Nil =>
                 VerifyConsistency(cc.rangeRoot, cc.checkpointRoot,
                                   cc.consistencyProof)
         THEN "pass" ELSE "fail"

(* The producer's verdict on a record against the disclosed digests only.  *)
CrossCheckStage(b) ==
    IF \A i \in DOMAIN b.records :
         LET r == b.records[i] IN
         r.id \in DOMAIN b.verification =>
           b.verification[r.id] = DigestsMatch(r, b.disclosed)
    THEN "pass" ELSE "fail"

Ritual(b) ==
    [integrity    |-> IntegrityStage(b.records, b.disclosed),
     sequence     |-> SequenceStage(b.records),
     completeness |-> CheckCompleteness(b),
     crossCheck   |-> CrossCheckStage(b)]

=============================================================================
