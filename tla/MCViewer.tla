------------------------------ MODULE MCViewer ------------------------------
(***************************************************************************)
(* Viewer with bundles of two records, b citing a: each body intact or     *)
(* not, a payload disclosed or not, with and without a certificate.        *)
(***************************************************************************)
EXTENDS Viewer

CONSTANTS a, b

Cert == [fromSeq          |-> 1,
         toSeq            |-> 2,
         inclusionFrom    |-> [of |-> <<a, b>>, leafIndex |-> 0],
         inclusionTo      |-> [of |-> <<a, b>>, leafIndex |-> 1],
         rangeRoot        |-> <<a, b>>,
         checkpointRoot   |-> <<a, b>>,
         consistencyProof |-> Nil]

MCIncoming ==
    {[records      |-> <<[id |-> a, parent |-> Nil, intact |-> whole],
                         [id |-> b, parent |-> a, intact |-> TRUE]>>,
      verification |-> [id \in {a, b} |-> TRUE],
      disclosed    |-> [id \in {a, b} |-> IF id = b THEN payload ELSE "none"],
      cert         |-> cert] :
        whole \in BOOLEAN, payload \in {"none", "mismatch"}, cert \in {Nil, Cert}}

=============================================================================
