------------------------------ MODULE Handoff ------------------------------
(***************************************************************************)
(* From the ledger to the reader: a bundle is made (module Bundle), handed *)
(* on as a file or a link, and looked at in the offline viewer (module     *)
(* Verdicts).  On the way it may change: a record is left out, a body or a *)
(* parent is edited, the certificate, which nobody signs, is taken off or  *)
(* replaced by that of another export.                                     *)
(***************************************************************************)
EXTENDS Bundle

CONSTANT MaxChanges     \* bound: changes on the way

ASSUME ChangesAssumption == MaxChanges \in Nat

VARIABLES
    carried,            \* the bundle on its way, or Nil
    changes,            \* changes made to it
    dropped             \* index of the record left out, or 0

vars == <<bvars, carried, changes, dropped>>

Init ==
    /\ BundleInit
    /\ carried = Nil
    /\ changes = 0
    /\ dropped = 0

HandOn ==
    /\ cli.pc = "done"
    /\ carried = Nil
    /\ carried' = cli.bundle
    /\ UNCHANGED <<bvars, changes, dropped>>

Change ==
    /\ carried # Nil
    /\ changes < MaxChanges
    /\ changes' = changes + 1
    /\ UNCHANGED bvars

Drop(i) ==
    /\ Change
    /\ dropped = 0
    /\ carried' = [carried EXCEPT !.records = RemoveAt(@, i)]
    /\ dropped' = i

EditBody(i) ==
    /\ Change
    /\ carried.records[i].intact
    /\ carried' = [carried EXCEPT !.records[i].intact = FALSE]
    /\ UNCHANGED dropped

EditParent(i) ==
    /\ Change
    /\ \E parent \in Ids \cup {Nil} :
         carried' = [carried EXCEPT !.records[i].parent = parent]
    /\ UNCHANGED dropped

Edit(i) == Drop(i) \/ EditBody(i) \/ EditParent(i)

LoseCertificate ==
    /\ Change
    /\ carried' = [carried EXCEPT !.cert = Nil]
    /\ UNCHANGED dropped

SwapCertificate ==
    /\ Change
    /\ \E from \in Seqs : \E to \in from..Len(log) : \E size \in to..Len(log) :
         carried' = [carried EXCEPT !.cert = Certificate(from, to, size)]
    /\ UNCHANGED dropped

Next ==
    \/ carried = Nil /\ BundleNext /\ UNCHANGED <<carried, changes, dropped>>
    \/ HandOn
    \/ carried # Nil /\ \E i \in DOMAIN carried.records : Edit(i)
    \/ carried # Nil /\ (LoseCertificate \/ SwapCertificate)

Spec == Init /\ [][Next]_vars

FairSpec == Spec /\ BundleFairness

-----------------------------------------------------------------------------
(* Properties                                                              *)

CertificateType(cert) ==
    /\ cert.fromSeq \in Seqs /\ cert.toSeq \in Seqs
    /\ cert.rangeRoot \in Seq(Ids) /\ cert.checkpointRoot \in Seq(Ids)
    /\ cert.consistencyProof \in Seq(Seq(Ids)) \cup {Nil}

BundleType(b) ==
    /\ b.records \in Seq(Records)
    /\ DOMAIN b.verification \subseteq Ids
    /\ b.disclosed \in Disclosures
    /\ b.cert # Nil => CertificateType(b.cert)

(* Every variable has its type; what a command has found is in the ledger, *)
(* and only ids, never the lack of one, are looked up and missed.          *)
TypeOK ==
    /\ log \in Seq(Records)
    /\ cli.pc \in {"idle", "collect", "verified", "counted", "done"}
    /\ cli.pc = "collect" =>
         cli.found \subseteq Seqs /\ cli.frontier \subseteq cli.found
           /\ cli.missing \subseteq Ids
    /\ cli.pc = "done" => BundleType(cli.bundle)
    /\ carried # Nil => BundleType(carried)
    /\ changes \in 0..MaxChanges
    /\ dropped \in Nat

(* What is told of a record left out, however bodies and parents were      *)
(* edited besides.  At either end of the bundle, its certificate fails;    *)
(* with the certificate gone too, the Completeness stage is skipped and    *)
(* never passes; a certificate put in its place may be one of the records  *)
(* that are left, and then nothing is told.  Anywhere, the Sequence stage  *)
(* fails by the gap where a record that came after it, and is not first,   *)
(* still names it, whatever the certificate says                           *)
(* (offline_shell.html:1013-1045, 1204-1231).                              *)
DropTold ==
    (carried # Nil /\ dropped # 0 /\ carried.records # <<>>) =>
        LET left == cli.bundle.records[dropped].id
            ends == {1, Len(cli.bundle.records)}
        IN  /\ (dropped \in ends /\ carried.cert \in {Nil, cli.bundle.cert}) =>
                 Ritual(carried).completeness =
                     IF carried.cert = Nil THEN "skip" ELSE "fail"
            /\ (\E i \in dropped..Len(carried.records) :
                   i > 1 /\ carried.records[i].parent = left) =>
                 Ritual(carried).sequence = "fail"

(* The ids r's chain leads to, by links of records in the bundle.          *)
Ancestry(records, r) ==
    LET closed(S) ==
          /\ r.parent \in S
          /\ \A i \in DOMAIN records :
               records[i].id \in S => records[i].parent \in S
    IN  {id \in Ids : \A S \in SUBSET (Ids \cup {Nil}) : closed(S) => id \in S}

(* The table marks a record as citing an altered one exactly when its      *)
(* chain leads to one, over any number of links, through gaps and loops    *)
(* (offline_shell.html:931-958).                                           *)
CitesExact ==
    carried # Nil =>
        \A i \in DOMAIN carried.records :
            LET r == carried.records[i] IN
            AnnotateRecord(carried.records, r) = "verifies" <=>
                /\ r.intact
                /\ \A j \in DOMAIN carried.records :
                     carried.records[j].id \in Ancestry(carried.records, r)
                       => carried.records[j].intact

-----------------------------------------------------------------------------
(* Claims the code does not keep                                           *)

(* offline_shell.html:1230, "unbroken -- every record names the one before *)
(* it".                                                                    *)
Unbroken(b) ==
    \A i \in 2..Len(b.records) : b.records[i].parent = b.records[i - 1].id

(* offline_shell.html:1040, "records <from>-<to> are provably complete".   *)
Complete(b) ==
    \A s \in b.cert.fromSeq..b.cert.toSeq : log[s].id \in IdsOf(b.records)

(* Nothing was altered, and records name records from before them.         *)
Ordinary ==
    \A s \in Seqs : log[s].intact /\ log[s].parent \in IdsAt(1..(s - 1)) \cup {Nil}

(* A stage that passes shows its text.  Of a bundle as it was made from an *)
(* ordinary ledger, and that both stages pass, at least one text is true   *)
(* (offline_shell.html:1040, 1230).                                        *)
SomePassIsTrue ==
    (cli.pc = "done" /\ Ordinary /\ SequenceStage(cli.bundle.records) = "pass"
                    /\ CheckCompleteness(cli.bundle) = "pass") =>
        Unbroken(cli.bundle) \/ Complete(cli.bundle)

=============================================================================
