---------------------------- MODULE ViewerProofs ----------------------------
(***************************************************************************)
(* What the page of the viewer promises of any bundles and any number of   *)
(* loads: Viewer!TypeOK, LinksAgree, OneBundleShown and VerdictsAgree, as  *)
(* theorems of Spec.                                                       *)
(***************************************************************************)
EXTENDS Viewer, SequenceTheorems, TLAPS

Parts == {"permalink", "privlog", "table", "completeness", "ritual", "url", "saved"}

LoadRecords ==
    [pc : {"verifying", "certifying", "checking", "done", "dead"},
     bundle : Incoming \cup {Malformed, JsonNull}]

(* A part of the page is empty, or what some load of a readable bundle     *)
(* shows there.                                                            *)
Readable == {l \in Loads : loads[l].bundle \notin {Malformed, JsonNull}}

PartsInv ==
    /\ page.privlog = Nil \/ \E l \in Readable :
         page.privlog = Shown(l, Mismatched(loads[l].bundle))
    /\ page.table = Nil \/ \E l \in Readable :
         page.table = Shown(l, Table(loads[l].bundle))
    /\ page.completeness = Nil \/ \E l \in Readable :
         page.completeness = Shown(l, CheckCompleteness(loads[l].bundle))
    /\ page.ritual = Nil \/ \E l \in Readable :
         page.ritual = Shown(l, Ritual(loads[l].bundle))

ShapeInv ==
    /\ loads \in Seq(LoadRecords)
    /\ Len(loads) <= MaxLoads
    /\ \A l \in Loads :
         loads[l].pc \in {"certifying", "checking", "done"} => l \in Readable
    /\ DOMAIN page = Parts
    /\ \A l \in Loads : loads[l].bundle = JsonNull => loads[l].pc = "dead"
    /\ fragment = IF loads = <<>> THEN Nil ELSE loads[Len(loads)].bundle
    /\ page.permalink = fragment \/ fragment = JsonNull
    /\ download => loads # <<>>
    /\ {fragment, page.permalink, page.url, page.saved} \subseteq Bundles
    /\ download \in BOOLEAN
    /\ overlapped \in BOOLEAN

(* What load l has put on the page when it is done.                        *)
RecordsBy(l) ==
    /\ page.privlog = Shown(l, Mismatched(loads[l].bundle))
    /\ page.table = Shown(l, Table(loads[l].bundle))

CardBy(l) == page.completeness = Shown(l, CheckCompleteness(loads[l].bundle))

RitualBy(l) == page.ritual = Shown(l, Ritual(loads[l].bundle))

(* The page as one load left it.                                           *)
Whole ==
    page.ritual = Nil
      \/ \E l \in Readable : RecordsBy(l) /\ CardBy(l) /\ RitualBy(l)

(* Loads that do not overlap: the one that runs fills in the page part by  *)
(* part, and nothing but nulls came after it.                              *)
OrderInv ==
    ~overlapped =>
      /\ Running = {} => Whole
      /\ \A l \in Running :
           /\ \A k \in Running : k = l
           /\ \A k \in Loads : k > l => loads[k].bundle = JsonNull
           /\ loads[l].pc = "verifying" => Whole
           /\ loads[l].pc \in {"certifying", "checking"} => RecordsBy(l)
           /\ loads[l].pc = "checking" => CardBy(l)
      /\ \A l \in Loads : (l = Len(loads) /\ loads[l].pc = "done") =>
           RecordsBy(l) /\ CardBy(l) /\ RitualBy(l)

ViewerInv == ShapeInv /\ PartsInv /\ OrderInv

-----------------------------------------------------------------------------

(* An empty page satisfies the invariant.                                  *)
LEMMA InitInv == Init => ViewerInv
<1> SUFFICES ASSUME Init PROVE ViewerInv
  OBVIOUS
<1>1. ShapeInv
  <2>1. loads \in Seq(LoadRecords) /\ Len(loads) = 0 /\ Loads = {} /\ loads = <<>>
    BY DEF Init, Loads
  <2>2. DOMAIN page = Parts /\ page.permalink = Nil /\ page.url = Nil /\ page.saved = Nil
    BY DEF Init, Parts
  <2>3. Len(loads) <= MaxLoads
    BY <2>1, LoadAssumption
  <2>4. fragment = Nil /\ {fragment, page.permalink, page.url, page.saved} \subseteq Bundles
    BY <2>2 DEF Init, Bundles
  <2>5. download = FALSE /\ overlapped \in BOOLEAN
    BY DEF Init
  <2> QED BY <2>1, <2>2, <2>3, <2>4, <2>5 DEF ShapeInv
<1>2. PartsInv
  BY DEF Init, PartsInv
<1>3. OrderInv
  BY DEF Init, OrderInv, Whole, Loads, Running
<1> QED BY <1>1, <1>2, <1>3 DEF ViewerInv

(* What has been shown is still what a load shows, when loads are only     *)
(* added or go on.                                                         *)
LEMMA ShownStays ==
    ASSUME Loads \subseteq Loads', \A l \in Loads : loads'[l].bundle = loads[l].bundle
    PROVE  /\ Readable \subseteq Readable'
           /\ PartsInv /\ UNCHANGED <<page.privlog, page.table, page.completeness, page.ritual>>
                => PartsInv'
           /\ Whole /\ UNCHANGED <<page.privlog, page.table, page.completeness, page.ritual>>
                => Whole'
<1>1. Readable \subseteq Readable' /\ \A l \in Readable : loads'[l].bundle = loads[l].bundle
  BY DEF Readable
<1>2. ASSUME PartsInv, UNCHANGED <<page.privlog, page.table, page.completeness, page.ritual>>
      PROVE  PartsInv'
  BY <1>1, <1>2 DEF PartsInv
<1>3. ASSUME Whole, UNCHANGED <<page.privlog, page.table, page.completeness, page.ritual>>
      PROVE  Whole'
  BY <1>1, <1>3 DEF Whole, RecordsBy, CardBy, RitualBy
<1> QED BY <1>1, <1>2, <1>3

(* A load is started, on a page that earlier loads have left whole unless  *)
(* one of them still runs.                                                 *)
LEMMA OpenBundleKeepsInv == ASSUME ViewerInv, OpenBundle PROVE ViewerInv'
<1>1. PICK b \in Incoming \cup {Malformed} :
        /\ loads' = Append(loads, [pc |-> "verifying", bundle |-> b])
        /\ fragment' = b
        /\ page' = [page EXCEPT !.permalink = b]
  BY DEF OpenBundle
<1> DEFINE new == [pc |-> "verifying", bundle |-> b]
           n == Len(loads) + 1
<1>2. new \in LoadRecords /\ loads \in Seq(LoadRecords) /\ Len(loads) < MaxLoads
  BY DEF LoadRecords, ViewerInv, ShapeInv, OpenBundle
<1>3. /\ loads' \in Seq(LoadRecords) /\ Len(loads') = n /\ loads'[n] = new
      /\ Loads' = Loads \cup {n}
      /\ \A l \in Loads : l # n /\ loads'[l] = loads[l]
  BY <1>1, <1>2 DEF Loads
<1>4. /\ page'.permalink = b /\ DOMAIN page' = Parts
      /\ UNCHANGED <<page.privlog, page.table, page.completeness, page.ritual>>
      /\ page'.url = page.url /\ page'.saved = page.saved
  BY <1>1 DEF ViewerInv, ShapeInv, Parts
<1>5. Readable \subseteq Readable' /\ PartsInv' /\ (Whole => Whole')
  BY <1>3, <1>4, ShownStays DEF ViewerInv
<1>6. ShapeInv'
  <2>1. \A l \in Loads' :
          loads'[l].pc \in {"certifying", "checking", "done"} => l \in Readable'
    BY <1>3, <1>5 DEF ViewerInv, ShapeInv
  <2>2. b \in Bundles
    BY DEF Bundles
  <2>3. Len(loads') <= MaxLoads
    BY <1>2, <1>3, LoadAssumption
  <2>4. download' \in BOOLEAN /\ overlapped' \in BOOLEAN
    BY DEF ViewerInv, ShapeInv, OpenBundle
  <2>5. \A l \in Loads' : loads'[l].bundle = JsonNull => loads'[l].pc = "dead"
    BY <1>3, NullAssumption DEF ViewerInv, ShapeInv
  <2>6. loads' # <<>> /\ loads'[Len(loads')].bundle = b
    BY <1>3
  <2>7. page'.permalink = fragment' /\ fragment' = b
    BY <1>1, <1>4
  <2>8. {fragment', page'.permalink, page'.url, page'.saved} \subseteq Bundles
    BY <1>4, <2>2, <2>7 DEF ViewerInv, ShapeInv
  <2> QED BY <1>3, <1>4, <2>1, <2>3, <2>4, <2>5, <2>6, <2>7, <2>8
      DEF ShapeInv, Bundles
<1>7. OrderInv'
  <2> SUFFICES ASSUME ~overlapped' PROVE OrderInv'
    BY DEF OrderInv
  <2>1. ~overlapped /\ Running = {} /\ Whole
    BY DEF OpenBundle, ViewerInv, OrderInv
  <2>2. Running' = {n} /\ \A l \in Loads' : l <= n
    BY <1>2, <1>3, <2>1 DEF Running, Loads
  <2>3. Whole' /\ loads'[n].pc = "verifying" /\ Len(loads') = n /\ n \in Nat
    BY <1>2, <1>3, <1>5, <2>1
  <2>4. \A k \in Loads' : ~(k > n)
    BY <1>2, <1>3 DEF Loads
  <2> HIDE DEF n, new
  <2> QED BY <2>2, <2>3, <2>4 DEF OrderInv
<1> QED BY <1>5, <1>6, <1>7 DEF ViewerInv

(* A null ends at once, and leaves the page as it was.                     *)
LEMMA OpenNullKeepsInv == ASSUME ViewerInv, OpenNull PROVE ViewerInv'
<1> DEFINE new == [pc |-> "dead", bundle |-> JsonNull]
           n == Len(loads) + 1
<1>1. /\ loads' = Append(loads, new) /\ fragment' = JsonNull
      /\ UNCHANGED <<page, download, overlapped>>
  BY DEF OpenNull
<1>2. new \in LoadRecords /\ loads \in Seq(LoadRecords) /\ Len(loads) < MaxLoads
  BY DEF LoadRecords, ViewerInv, ShapeInv, OpenNull
<1>3. /\ loads' \in Seq(LoadRecords) /\ Len(loads') = n /\ loads'[n] = new
      /\ Loads' = Loads \cup {n} /\ loads' # <<>>
      /\ \A l \in Loads : l # n /\ loads'[l] = loads[l]
  BY <1>1, <1>2 DEF Loads
<1>4. Readable \subseteq Readable' /\ PartsInv' /\ (Whole => Whole')
  BY <1>1, <1>3, ShownStays DEF ViewerInv
<1>5. ShapeInv'
  <2>1. \A l \in Loads' :
          /\ loads'[l].pc \in {"certifying", "checking", "done"} => l \in Readable'
          /\ loads'[l].bundle = JsonNull => loads'[l].pc = "dead"
    BY <1>3, <1>4 DEF ViewerInv, ShapeInv
  <2>2. JsonNull \in Bundles /\ Len(loads') <= MaxLoads
    BY <1>2, <1>3, LoadAssumption DEF Bundles
  <2>3. fragment' = JsonNull /\ loads'[Len(loads')].bundle = JsonNull
    BY <1>1, <1>3
  <2>4. {fragment', page'.permalink, page'.url, page'.saved} \subseteq Bundles
    BY <1>1, <2>2 DEF ViewerInv, ShapeInv, Bundles
  <2>5. DOMAIN page' = Parts /\ download' \in BOOLEAN /\ overlapped' \in BOOLEAN
    BY <1>1 DEF ViewerInv, ShapeInv
  <2> HIDE DEF n, new
  <2> QED BY <1>3, <2>1, <2>2, <2>3, <2>4, <2>5 DEF ShapeInv, Bundles
<1>6. OrderInv'
  <2>1. Running' = Running /\ \A l \in Loads : l < n
    BY <1>2, <1>3 DEF Running, Loads
  <2>2. \A l \in Running : l \in Loads /\ loads'[l] = loads[l]
    BY <1>3 DEF Running
  <2>3. \A l \in Loads : /\ RecordsBy(l) => RecordsBy(l)'
                         /\ CardBy(l) => CardBy(l)'
    BY <1>1, <1>3 DEF RecordsBy, CardBy
  <2>4. \A l \in Loads' : l = Len(loads') => loads'[l].pc # "done"
    BY <1>3
  <2>5. \A l \in Loads' : l \notin Loads => loads'[l].bundle = JsonNull
    BY <1>3
  <2>6. OrderInv /\ overlapped' = overlapped /\ Loads \subseteq Loads'
    BY <1>1, <1>3 DEF ViewerInv
  <2>7. \A l \in Running, k \in Loads' :
          (~overlapped /\ k > l) => loads'[k].bundle = JsonNull
    BY <1>3, <2>5, <2>6 DEF OrderInv
  <2> HIDE DEF n, new
  <2> QED BY <1>4, <2>1, <2>2, <2>3, <2>4, <2>6, <2>7 DEF OrderInv
<1> QED BY <1>4, <1>5, <1>6 DEF ViewerInv

-----------------------------------------------------------------------------

(* A load goes on: the others stay where they are, and unless loads        *)
(* overlap it is the only one that runs.                                   *)
LEMMA LoadGoesOn ==
    ASSUME ViewerInv, NEW l \in Loads, NEW from, NEW to, At(l, from, to),
           from \notin {"done", "dead"},
           to \in {"certifying", "checking", "done", "dead"}
    PROVE  /\ loads' \in Seq(LoadRecords)
           /\ Loads' = Loads /\ Len(loads') = Len(loads)
           /\ loads[l].pc = from /\ loads'[l].pc = to
           /\ \A k \in Loads : loads'[k].bundle = loads[k].bundle
           /\ \A k \in Loads : k # l => loads'[k].pc = loads[k].pc
           /\ UNCHANGED <<fragment, download, overlapped>>
           /\ Running' = IF to \in {"done", "dead"} THEN Running \ {l} ELSE Running
           /\ ~overlapped => Running = {l}
           /\ Readable' = Readable
           /\ \A k \in Loads : loads'[k].bundle = JsonNull => loads'[k].pc = "dead"
           /\ fragment' = IF loads' = <<>> THEN Nil ELSE loads'[Len(loads')].bundle
<1>1. loads \in Seq(LoadRecords) /\ loads[l].pc = from /\ l \in 1..Len(loads)
      /\ loads' = [loads EXCEPT ![l].pc = to]
      /\ UNCHANGED <<fragment, download, overlapped>>
  BY DEF ViewerInv, ShapeInv, At, Loads
<1>2. loads[l] \in LoadRecords
  BY <1>1
<1>3. [loads[l] EXCEPT !.pc = to] \in LoadRecords
  BY <1>2 DEF LoadRecords
<1>4. loads' \in Seq(LoadRecords) /\ Loads' = Loads /\ Len(loads') = Len(loads)
  BY <1>1, <1>3 DEF Loads
<1>5. loads'[l].pc = to /\ loads'[l].bundle = loads[l].bundle
  BY <1>1, <1>2 DEF LoadRecords
<1>6. \A k \in Loads : k # l => loads'[k] = loads[k]
  BY <1>1 DEF Loads
<1>7. ~overlapped => Running = {l}
  BY <1>1 DEF ViewerInv, OrderInv, Running
<1>8. Running' = IF to \in {"done", "dead"} THEN Running \ {l} ELSE Running
  BY <1>1, <1>4, <1>5, <1>6 DEF Running
<1>9. \A k \in Loads : loads'[k].bundle = JsonNull => loads'[k].pc = "dead"
  BY <1>1, <1>5, <1>6 DEF ViewerInv, ShapeInv
<1>10. fragment' = IF loads' = <<>> THEN Nil ELSE loads'[Len(loads')].bundle
  <2>1. loads # <<>> /\ loads' # <<>> /\ Len(loads) \in Loads
    BY <1>1, <1>4 DEF Loads
  <2> QED BY <1>1, <1>4, <1>5, <1>6, <2>1 DEF ViewerInv, ShapeInv
<1> QED BY <1>1, <1>4, <1>5, <1>6, <1>7, <1>8, <1>9, <1>10 DEF Readable

(* What is to be shown of the order of loads when the only one that runs   *)
(* goes on.                                                                *)
LEMMA NewestRuns ==
    ASSUME ViewerInv, NEW l \in Loads, Loads' = Loads, Len(loads') = Len(loads),
           \A k \in Loads : loads'[k].bundle = loads[k].bundle,
           \A k \in Loads : loads'[k].bundle = JsonNull => loads'[k].pc = "dead",
           overlapped' = overlapped, ~overlapped => Running = {l},
           \/ Running' = Running /\ loads'[l].pc \in {"certifying", "checking"}
           \/ Running' = Running \ {l} /\ loads'[l].pc \in {"done", "dead"},
           loads'[l].pc \in {"done", "dead"} => (~overlapped => Whole'),
           ~overlapped => /\ loads'[l].pc \in {"certifying", "checking", "done"} => RecordsBy(l)'
                          /\ loads'[l].pc \in {"checking", "done"} => CardBy(l)'
                          /\ loads'[l].pc = "done" => RitualBy(l)'
    PROVE  OrderInv'
<1> SUFFICES ASSUME ~overlapped PROVE OrderInv'
  BY DEF OrderInv
<1>1. /\ Running = {l}
      /\ \A k \in Loads : k > l => loads[k].bundle = JsonNull
  BY DEF ViewerInv, OrderInv
<1>2. \A k \in Loads : k > l => loads'[k].bundle = JsonNull /\ loads'[k].pc = "dead"
  BY <1>1
<1>3. \A k \in Loads : k = Len(loads) /\ k # l => k > l
  BY DEF Loads, ViewerInv, ShapeInv
<1> QED BY <1>1, <1>2, <1>3 DEF OrderInv

(* The records of a bundle are shown.                                      *)
LEMMA ShowRecordsKeepsInv ==
    ASSUME ViewerInv, NEW l \in Loads, ShowRecords(l) PROVE ViewerInv'
<1>1. At(l, "verifying", "certifying") /\ loads[l].bundle # Malformed
      /\ page' = [page EXCEPT !.privlog = Shown(l, Mismatched(loads[l].bundle)),
                              !.table = Shown(l, Table(loads[l].bundle))]
  BY DEF ShowRecords
<1>2. /\ loads' \in Seq(LoadRecords)
      /\ Loads' = Loads /\ Len(loads') = Len(loads)
      /\ loads[l].pc = "verifying" /\ loads'[l].pc = "certifying"
      /\ \A k \in Loads : loads'[k].bundle = loads[k].bundle
      /\ \A k \in Loads : k # l => loads'[k].pc = loads[k].pc
      /\ UNCHANGED <<fragment, download, overlapped>>
      /\ Running' = Running
      /\ ~overlapped => Running = {l}
      /\ Readable' = Readable
      /\ \A k \in Loads : loads'[k].bundle = JsonNull => loads'[k].pc = "dead"
      /\ fragment' = IF loads' = <<>> THEN Nil ELSE loads'[Len(loads')].bundle
  BY <1>1, LoadGoesOn
<1>3. /\ DOMAIN page' = Parts
      /\ page'.privlog = Shown(l, Mismatched(loads[l].bundle))
      /\ page'.table = Shown(l, Table(loads[l].bundle))
      /\ UNCHANGED <<page.completeness, page.ritual>>
      /\ page'.permalink = page.permalink /\ page'.url = page.url /\ page'.saved = page.saved
  BY <1>1 DEF ViewerInv, ShapeInv, Parts
<1>4. l \in Readable
  BY <1>1, <1>2 DEF Readable, ViewerInv, ShapeInv
<1>5. ShapeInv'
  BY <1>2, <1>3, <1>4 DEF ViewerInv, ShapeInv
<1>6. PartsInv'
  BY <1>2, <1>3, <1>4 DEF ViewerInv, PartsInv, Readable
<1>7. OrderInv'
  <2>1. RecordsBy(l)'
    BY <1>2, <1>3 DEF RecordsBy
  <2> QED BY <1>2, <2>1, NewestRuns
<1> QED BY <1>5, <1>6, <1>7 DEF ViewerInv

(* The card of the certificate is shown.                                   *)
LEMMA ShowCompletenessKeepsInv ==
    ASSUME ViewerInv, NEW l \in Loads, ShowCompleteness(l) PROVE ViewerInv'
<1>1. At(l, "certifying", "checking")
      /\ page' = [page EXCEPT !.completeness = Shown(l, CheckCompleteness(loads[l].bundle))]
  BY DEF ShowCompleteness, Card
<1>2. /\ loads' \in Seq(LoadRecords)
      /\ Loads' = Loads /\ Len(loads') = Len(loads)
      /\ loads[l].pc = "certifying" /\ loads'[l].pc = "checking"
      /\ \A k \in Loads : loads'[k].bundle = loads[k].bundle
      /\ \A k \in Loads : k # l => loads'[k].pc = loads[k].pc
      /\ UNCHANGED <<fragment, download, overlapped>>
      /\ Running' = Running
      /\ ~overlapped => Running = {l}
      /\ Readable' = Readable
      /\ \A k \in Loads : loads'[k].bundle = JsonNull => loads'[k].pc = "dead"
      /\ fragment' = IF loads' = <<>> THEN Nil ELSE loads'[Len(loads')].bundle
  BY <1>1, LoadGoesOn
<1>3. /\ DOMAIN page' = Parts
      /\ page'.completeness = Shown(l, CheckCompleteness(loads[l].bundle))
      /\ UNCHANGED <<page.privlog, page.table, page.ritual>>
      /\ page'.permalink = page.permalink /\ page'.url = page.url /\ page'.saved = page.saved
  BY <1>1 DEF ViewerInv, ShapeInv, Parts
<1>4. l \in Readable
  BY <1>2 DEF ViewerInv, ShapeInv
<1>5. ShapeInv'
  BY <1>2, <1>3, <1>4 DEF ViewerInv, ShapeInv
<1>6. PartsInv'
  BY <1>2, <1>3, <1>4 DEF ViewerInv, PartsInv, Readable
<1>7. OrderInv'
  <2>1. ~overlapped => RecordsBy(l) /\ Running = {l}
    BY <1>2 DEF ViewerInv, OrderInv
  <2>2. ~overlapped => RecordsBy(l)' /\ CardBy(l)'
    BY <1>2, <1>3, <2>1 DEF RecordsBy, CardBy
  <2> QED BY <1>2, <2>2, NewestRuns
<1> QED BY <1>5, <1>6, <1>7 DEF ViewerInv

(* The stages are shown, and the address bar is written.                   *)
LEMMA ShowRitualKeepsInv ==
    ASSUME ViewerInv, NEW l \in Loads, ShowRitual(l) PROVE ViewerInv'
<1>1. At(l, "checking", "done")
      /\ page' = [page EXCEPT !.ritual = Shown(l, Ritual(loads[l].bundle)),
                              !.url = fragment]
  BY DEF ShowRitual, LinkOf
<1>2. /\ loads' \in Seq(LoadRecords)
      /\ Loads' = Loads /\ Len(loads') = Len(loads)
      /\ loads[l].pc = "checking" /\ loads'[l].pc = "done"
      /\ \A k \in Loads : loads'[k].bundle = loads[k].bundle
      /\ \A k \in Loads : k # l => loads'[k].pc = loads[k].pc
      /\ UNCHANGED <<fragment, download, overlapped>>
      /\ Running' = Running \ {l}
      /\ ~overlapped => Running = {l}
      /\ Readable' = Readable
      /\ \A k \in Loads : loads'[k].bundle = JsonNull => loads'[k].pc = "dead"
      /\ fragment' = IF loads' = <<>> THEN Nil ELSE loads'[Len(loads')].bundle
  BY <1>1, LoadGoesOn
<1>3. /\ DOMAIN page' = Parts
      /\ page'.ritual = Shown(l, Ritual(loads[l].bundle))
      /\ UNCHANGED <<page.privlog, page.table, page.completeness>>
      /\ page'.permalink = page.permalink /\ page'.url = fragment /\ page'.saved = page.saved
  BY <1>1 DEF ViewerInv, ShapeInv, Parts
<1>4. l \in Readable
  BY <1>2 DEF ViewerInv, ShapeInv
<1>5. ShapeInv'
  BY <1>2, <1>3, <1>4 DEF ViewerInv, ShapeInv
<1>6. PartsInv'
  BY <1>2, <1>3, <1>4 DEF ViewerInv, PartsInv, Readable
<1>7. OrderInv'
  <2>1. ~overlapped => RecordsBy(l) /\ CardBy(l) /\ Running = {l}
    BY <1>2 DEF ViewerInv, OrderInv
  <2>2. ~overlapped => RecordsBy(l)' /\ CardBy(l)' /\ RitualBy(l)'
    BY <1>2, <1>3, <2>1 DEF RecordsBy, CardBy, RitualBy
  <2>3. ~overlapped => Whole'
    BY <1>2, <1>4, <2>2 DEF Whole
  <2> QED BY <1>2, <2>2, <2>3, NewestRuns
<1> QED BY <1>5, <1>6, <1>7 DEF ViewerInv

(* A load of an unreadable bundle ends and leaves the page as it was.      *)
LEMMA RejectKeepsInv ==
    ASSUME ViewerInv, NEW l \in Loads, Reject(l) PROVE ViewerInv'
<1>1. At(l, "verifying", "dead") /\ page' = page
  BY DEF Reject
<1>2. /\ loads' \in Seq(LoadRecords)
      /\ Loads' = Loads /\ Len(loads') = Len(loads)
      /\ loads[l].pc = "verifying" /\ loads'[l].pc = "dead"
      /\ \A k \in Loads : loads'[k].bundle = loads[k].bundle
      /\ \A k \in Loads : k # l => loads'[k].pc = loads[k].pc
      /\ UNCHANGED <<fragment, download, overlapped>>
      /\ Running' = Running \ {l}
      /\ ~overlapped => Running = {l}
      /\ Readable' = Readable
      /\ \A k \in Loads : loads'[k].bundle = JsonNull => loads'[k].pc = "dead"
      /\ fragment' = IF loads' = <<>> THEN Nil ELSE loads'[Len(loads')].bundle
  BY <1>1, LoadGoesOn
<1>3. PartsInv' /\ (Whole => Whole')
  BY <1>1, <1>2, ShownStays DEF ViewerInv
<1>4. ShapeInv'
  BY <1>1, <1>2 DEF ViewerInv, ShapeInv
<1>5. OrderInv'
  <2>1. ~overlapped => Whole'
    BY <1>2, <1>3 DEF ViewerInv, OrderInv
  <2> QED BY <1>2, <2>1, NewestRuns
<1> QED BY <1>3, <1>4, <1>5 DEF ViewerInv

(* Downloads touch no load and none of what is shown.                      *)
LEMMA DownloadKeepsInv ==
    ASSUME ViewerInv, AskDownload \/ Download PROVE ViewerInv'
<1>1. UNCHANGED <<loads, fragment, overlapped>> /\ download' \in BOOLEAN
  BY DEF AskDownload, Download
<1>2. /\ DOMAIN page' = Parts
      /\ UNCHANGED <<page.privlog, page.table, page.completeness, page.ritual>>
      /\ page'.permalink = page.permalink /\ page'.url = page.url
      /\ page'.saved \in {page.saved, fragment}
  BY DEF ViewerInv, ShapeInv, Parts, AskDownload, Download
<1>3. Loads' = Loads
  BY <1>1 DEF Loads
<1>4. PartsInv' /\ (Whole => Whole') /\ Readable' = Readable
  BY <1>1, <1>2, <1>3, ShownStays DEF ViewerInv, Readable
<1>5. ShapeInv'
  <2>1. download' => loads' # <<>>
    BY <1>1, NullAssumption DEF ViewerInv, ShapeInv, AskDownload, Download
  <2>2. {fragment', page'.permalink, page'.url, page'.saved} \subseteq Bundles
    BY <1>1, <1>2 DEF ViewerInv, ShapeInv
  <2>3. page'.permalink = fragment' \/ fragment' = JsonNull
    BY <1>1, <1>2 DEF ViewerInv, ShapeInv
  <2>4. \A l \in Loads' :
          /\ loads'[l].pc \in {"certifying", "checking", "done"} => l \in Readable'
          /\ loads'[l].bundle = JsonNull => loads'[l].pc = "dead"
    BY <1>1, <1>3, <1>4 DEF ViewerInv, ShapeInv
  <2> QED BY <1>1, <1>2, <2>1, <2>2, <2>3, <2>4 DEF ViewerInv, ShapeInv, Bundles
<1>6. OrderInv'
  BY <1>1, <1>2, <1>3, <1>4 DEF ViewerInv, OrderInv, Running, RecordsBy, CardBy, RitualBy
<1> QED BY <1>4, <1>5, <1>6 DEF ViewerInv

(* Every step keeps the invariant.                                         *)
LEMMA NextKeepsInv == ViewerInv /\ [Next]_vars => ViewerInv'
<1> SUFFICES ASSUME ViewerInv, [Next]_vars PROVE ViewerInv'
  OBVIOUS
<1>1. CASE UNCHANGED vars
  <2>1. UNCHANGED <<loads, fragment, page, download, overlapped>> /\ Loads' = Loads
        /\ Readable' = Readable
    BY <1>1 DEF vars, Loads, Readable
  <2>2. ShapeInv' /\ PartsInv'
    BY <2>1 DEF ViewerInv, ShapeInv, PartsInv
  <2>3. OrderInv'
    BY <2>1 DEF ViewerInv, OrderInv, Running, Whole, RecordsBy, CardBy, RitualBy
  <2> QED BY <2>2, <2>3 DEF ViewerInv
<1>2. CASE Next
  BY <1>2, OpenBundleKeepsInv, OpenNullKeepsInv, ShowRecordsKeepsInv, ShowCompletenessKeepsInv,
     ShowRitualKeepsInv, RejectKeepsInv, DownloadKeepsInv DEF Next, LoadStep, Open
<1> QED BY <1>1, <1>2

(* The invariant holds in every reachable state.                           *)
THEOREM Invariance == Spec => []ViewerInv
<1> QED BY InitInv, NextKeepsInv, PTL DEF Spec

-----------------------------------------------------------------------------

Kinds == {"digest_mismatch", "verifies", "cites an altered record"}

Stages == [integrity : Verdict, sequence : Verdict,
           completeness : Verdict, crossCheck : Verdict]

(* What the parts of the page show of a readable bundle has its type, and  *)
(* the log, the table and the stages agree (offline_shell.html:931-958,    *)
(* 1085-1090, 1240-1243).                                                  *)
LEMMA ShownAgrees ==
    ASSUME NEW b \in Incoming
    PROVE  /\ Mismatched(b) \in SUBSET Nat
           /\ Table(b) \in Seq(Kinds)
           /\ CheckCompleteness(b) \in Verdict
           /\ Ritual(b) \in Stages
           /\ Ritual(b).integrity = "fail" <=>
                \/ Mismatched(b) # {}
                \/ \E i \in DOMAIN Table(b) : Table(b)[i] = "digest_mismatch"
           /\ Ritual(b).completeness = CheckCompleteness(b)
<1>1. b.records \in Seq(Records)
  BY IncomingAssumption
<1>2. DOMAIN b.records = 1..Len(b.records) /\ Len(b.records) \in Nat
  BY <1>1
<1>3. Mismatched(b) \in SUBSET Nat
  BY <1>2 DEF Mismatched
<1>4. \A r : AnnotateRecord(b.records, r) \in Kinds
  BY DEF AnnotateRecord, Kinds
<1>5. Table(b) \in Seq(Kinds)
  <2>1. Table(b) = [i \in 1..Len(b.records) |-> AnnotateRecord(b.records, b.records[i])]
    BY <1>2 DEF Table
  <2>2. Table(b) \in [1..Len(b.records) -> Kinds]
    BY <2>1, <1>4
  <2> QED BY <2>2, <1>2, SeqDef
<1>6. CheckCompleteness(b) \in Verdict
  BY DEF CheckCompleteness, Verdict
<1>7. /\ IntegrityStage(b.records, b.disclosed) \in Verdict
      /\ SequenceStage(b.records) \in Verdict
      /\ CrossCheckStage(b) \in Verdict
  BY DEF IntegrityStage, SequenceStage, CrossCheckStage, Verdict
<1>8. Ritual(b) \in Stages
  BY <1>6, <1>7 DEF Ritual, Stages
<1>9. Ritual(b).integrity = IntegrityStage(b.records, b.disclosed)
      /\ Ritual(b).completeness = CheckCompleteness(b)
  BY DEF Ritual
<1>10. IntegrityStage(b.records, b.disclosed) = "fail" <=>
         \/ \E i \in DOMAIN b.records : ~DigestsMatch(b.records[i], b.disclosed)
         \/ \E i \in DOMAIN b.records : ~VerifyCapsuleId(b.records[i])
  BY DEF IntegrityStage
<1>11. (\E i \in DOMAIN b.records : ~VerifyCapsuleId(b.records[i])) <=>
         \E i \in DOMAIN b.records : b.records[i].id \in Altered(b.records)
  BY DEF Altered, CapMismatched
<1>12. DOMAIN Table(b) = DOMAIN b.records
       /\ \A i \in DOMAIN b.records :
            Table(b)[i] = "digest_mismatch" <=> b.records[i].id \in Altered(b.records)
  BY DEF Table, AnnotateRecord
<1>13. Mismatched(b) # {} <=>
         \E i \in DOMAIN b.records : ~DigestsMatch(b.records[i], b.disclosed)
  BY DEF Mismatched
<1> QED BY <1>3, <1>5, <1>6, <1>8, <1>9, <1>10, <1>11, <1>12, <1>13

(* A readable load is of a bundle that came in.                            *)
LEMMA ReadableIncoming ==
    ASSUME ViewerInv, NEW l \in Readable
    PROVE  l \in Loads /\ l \in 1..MaxLoads /\ loads[l].bundle \in Incoming
<1>1. l \in Loads /\ loads[l].bundle # Malformed /\ loads \in Seq(LoadRecords)
      /\ Len(loads) <= MaxLoads
  BY DEF Readable, ViewerInv, ShapeInv
<1>2. l \in 1..Len(loads) /\ loads[l] \in LoadRecords /\ loads[l].bundle # JsonNull
  BY <1>1 DEF Loads, Readable
<1> QED BY <1>1, <1>2, LoadAssumption DEF LoadRecords

(* What a load shows is typed as its content is.                           *)
LEMMA ShownIsTyped ==
    ASSUME NEW S
    PROVE  /\ Nil \in ShownIn(S)
           /\ \A l \in Loads, c \in S : Shown(l, c) \in ShownIn(S)
BY DEF ShownIn, Shown

(* Every part of the page has its type.                                    *)
THEOREM TypeCorrect == Spec => []TypeOK
<1>1. ViewerInv => TypeOK
  <2> SUFFICES ASSUME ViewerInv PROVE TypeOK
    OBVIOUS
  <2>1. \A l \in Loads :
          /\ loads[l].pc \in {"verifying", "certifying", "checking", "done", "dead"}
          /\ loads[l].bundle \in Incoming \cup {Malformed, JsonNull}
    <3> SUFFICES ASSUME NEW l \in Loads PROVE loads[l] \in LoadRecords
      BY DEF LoadRecords
    <3>1. loads \in Seq(LoadRecords)
      BY DEF ViewerInv, ShapeInv
    <3> QED BY <3>1 DEF Loads
  <2>2. \A l \in Readable : l \in Loads /\ loads[l].bundle \in Incoming
    BY ReadableIncoming
  <2>3. page.privlog \in ShownIn(SUBSET Nat)
    <3>1. \A l \in Readable : Shown(l, Mismatched(loads[l].bundle)) \in ShownIn(SUBSET Nat)
      BY <2>2, ShownIsTyped, ShownAgrees
    <3> QED BY <3>1, ShownIsTyped DEF ViewerInv, PartsInv
  <2>4. page.table \in ShownIn(Seq(Kinds))
    <3>1. \A l \in Readable : Shown(l, Table(loads[l].bundle)) \in ShownIn(Seq(Kinds))
      BY <2>2, ShownIsTyped, ShownAgrees
    <3> QED BY <3>1, ShownIsTyped DEF ViewerInv, PartsInv
  <2>5. page.completeness \in ShownIn(Verdict)
    <3>1. \A l \in Readable : Shown(l, CheckCompleteness(loads[l].bundle)) \in ShownIn(Verdict)
      BY <2>2, ShownIsTyped, ShownAgrees
    <3> QED BY <3>1, ShownIsTyped DEF ViewerInv, PartsInv
  <2>6. page.ritual \in ShownIn(Stages)
    <3>1. \A l \in Readable : Shown(l, Ritual(loads[l].bundle)) \in ShownIn(Stages)
      BY <2>2, ShownIsTyped, ShownAgrees
    <3> QED BY <3>1, ShownIsTyped DEF ViewerInv, PartsInv
  <2> QED BY <2>1, <2>3, <2>4, <2>5, <2>6 DEF TypeOK, ViewerInv, ShapeInv, Kinds, Stages
<1> QED BY <1>1, Invariance, PTL

(* Links are written to what was loaded last, though the fragment is read  *)
(* after awaits, and to the permalink that is shown unless that was a null *)
(* (offline_shell.html:1345-1375, 1412).                                   *)
THEOREM LinksFollow == Spec => LinksAgree
<1> DEFINE Agree == \A link \in {"url", "saved"} : page'[link] # page[link] =>
                      /\ page'[link] = Last(loads).bundle
                      /\ page'[link] = page.permalink \/ page'[link] = JsonNull
<1>1. ViewerInv /\ [Next]_vars => [Agree]_vars
  <2> SUFFICES ASSUME ViewerInv, Next PROVE Agree
    BY DEF vars
  <2>1. /\ DOMAIN page = Parts
        /\ page.permalink = fragment \/ fragment = JsonNull
        /\ loads # <<>> => fragment = Last(loads).bundle
    BY DEF ViewerInv, ShapeInv, Last
  <2>2. CASE Open
    <3>1. page'.url = page.url /\ page'.saved = page.saved
      BY <2>1, <2>2 DEF Open, OpenBundle, OpenNull, Parts
    <3> QED BY <3>1
  <2>3. ASSUME NEW l \in Loads, LoadStep(l) PROVE Agree
    <3>1. loads # <<>>
      BY DEF Loads
    <3>2. page'.url \in {page.url, fragment} /\ page'.saved = page.saved
      BY <2>1, <2>3 DEF LoadStep, ShowRecords, ShowCompleteness, ShowRitual, Reject,
         LinkOf, Parts
    <3>3. fragment = Last(loads).bundle /\ (fragment = page.permalink \/ fragment = JsonNull)
      BY <2>1, <3>1
    <3>4. page'["url"] = page'.url /\ page'["saved"] = page'.saved
      OBVIOUS
    <3> QED BY <3>2, <3>3, <3>4
  <2>4. CASE AskDownload
    BY <2>4 DEF AskDownload
  <2>5. CASE Download
    <3>1. page'.url = page.url /\ page'.saved = fragment /\ download
      BY <2>1, <2>5 DEF Download, Parts
    <3>2. loads # <<>>
      BY <3>1 DEF ViewerInv, ShapeInv
    <3>3. fragment = Last(loads).bundle /\ (fragment = page.permalink \/ fragment = JsonNull)
      BY <2>1, <3>2
    <3> QED BY <3>1, <3>3
  <2> QED BY <2>2, <2>3, <2>4, <2>5 DEF Next
<1> QED BY <1>1, Invariance, PTL DEF Spec, LinksAgree

(* Loads that do not overlap leave one bundle on the page                  *)
(* (offline_shell.html:1365-1373).                                         *)
THEOREM NewestIsShown == Spec => []OneBundleShown
<1>1. ViewerInv => OneBundleShown
  <2> SUFFICES ASSUME ViewerInv, ~overlapped, loads # <<>>, Last(loads).pc = "done",
                      NEW part \in {"privlog", "table", "completeness", "ritual"}
               PROVE  page[part] # Nil /\ page[part].by = Len(loads)
    BY DEF OneBundleShown
  <2> DEFINE n == Len(loads)
  <2>1. n \in Loads /\ loads[n].pc = "done"
    BY DEF ViewerInv, ShapeInv, Loads, Last
  <2>2. RecordsBy(n) /\ CardBy(n) /\ RitualBy(n) /\ n \in Readable
    BY <2>1 DEF ViewerInv, ShapeInv, OrderInv
  <2>3. n \in 1..MaxLoads /\ loads[n].bundle \in Incoming
    BY <2>2, ReadableIncoming
  <2>4. CASE part = "privlog"
    BY <2>2, <2>3, <2>4, ShownAssumption DEF RecordsBy, Shown
  <2>5. CASE part = "table"
    BY <2>2, <2>3, <2>5, ShownAssumption DEF RecordsBy, Shown
  <2>6. CASE part = "completeness"
    BY <2>2, <2>3, <2>6, ShownAssumption DEF CardBy, Shown
  <2>7. CASE part = "ritual"
    BY <2>2, <2>3, <2>7, ShownAssumption DEF RitualBy, Shown
  <2> QED BY <2>4, <2>5, <2>6, <2>7
<1> QED BY <1>1, Invariance, PTL

(* The log, the table, the card and the stages tell the same, also after   *)
(* an unreadable bundle (offline_shell.html:1240-1243).                    *)
THEOREM VerdictsMatch == Spec => []VerdictsAgree
<1>1. ViewerInv => VerdictsAgree
  <2> SUFFICES ASSUME ViewerInv, ~overlapped, Running = {}, page.ritual # Nil
               PROVE  /\ page.ritual.content.integrity = "fail" <=>
                           \/ page.privlog.content # {}
                           \/ \E i \in DOMAIN page.table.content :
                                page.table.content[i] = "digest_mismatch"
                      /\ page.ritual.content.completeness = page.completeness.content
    BY DEF VerdictsAgree
  <2>1. PICK l \in Readable : RecordsBy(l) /\ CardBy(l) /\ RitualBy(l)
    BY DEF ViewerInv, OrderInv, Whole
  <2>2. loads[l].bundle \in Incoming
    BY ReadableIncoming
  <2>3. /\ page.privlog.content = Mismatched(loads[l].bundle)
        /\ page.table.content = Table(loads[l].bundle)
        /\ page.completeness.content = CheckCompleteness(loads[l].bundle)
        /\ page.ritual.content = Ritual(loads[l].bundle)
    BY <2>1 DEF RecordsBy, CardBy, RitualBy, Shown
  <2> QED BY <2>2, <2>3, ShownAgrees
<1> QED BY <1>1, Invariance, PTL

=============================================================================
