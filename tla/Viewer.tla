------------------------------- MODULE Viewer -------------------------------
(***************************************************************************)
(* The page of the offline viewer (loadBundle and the handlers around it,  *)
(* bundle_viewer/static/offline_shell.html).                               *)
(*                                                                         *)
(* A bundle is loaded when the page opens, and again whenever one is       *)
(* pasted: the form stays on the page, and nothing waits for an earlier    *)
(* load.  A load shows its results one by one, at each await others may    *)
(* run, and all of them write to the same places.                          *)
(***************************************************************************)
EXTENDS Verdicts

CONSTANTS
    Incoming,           \* bundles that may be loaded
    Malformed,          \* one whose records cannot be read
    JsonNull,           \* what JSON.parse makes of "null", which has no fields
    MaxLoads            \* bound: loads of the page

ASSUME LoadAssumption == MaxLoads \in Nat

ASSUME NullAssumption == JsonNull \notin Incoming \cup {Malformed, Nil}

ASSUME IncomingAssumption == \A b \in Incoming : b.records \in Seq(Records)

VARIABLES
    loads,              \* the loads, in the order they were started
    fragment,           \* _fragmentB64u: what was loaded last
    page,               \* what the page shows, and what its links lead to
    download,           \* is a download waiting for the shell?
    overlapped          \* history: was a bundle loaded during another load?

vars == <<loads, fragment, page, download, overlapped>>

Loads == DOMAIN loads

Running == {l \in Loads : loads[l].pc \notin {"done", "dead"}}

Shown(l, content) == [by |-> l, content |-> content]

Init ==
    /\ loads = <<>>
    /\ fragment = Nil
    /\ page = [permalink |-> Nil, privlog |-> Nil, table |-> Nil,
               completeness |-> Nil, ritual |-> Nil, url |-> Nil, saved |-> Nil]
    /\ download = FALSE
    /\ overlapped = FALSE

(* bootstrapLoad or the Load button, up to loadBundle's first await.       *)
OpenBundle ==
    /\ Len(loads) < MaxLoads
    /\ \E b \in Incoming \cup {Malformed} :
         /\ loads' = Append(loads, [pc |-> "verifying", bundle |-> b])
         /\ fragment' = b
         /\ page' = [page EXCEPT !.permalink = b]
    /\ overlapped' = (overlapped \/ Running # {})
    /\ UNCHANGED download

(* null is taken for a bundle until its records are asked for: by then the *)
(* fragment is set, and the permalink is not.  No one looks at the error.  *)
OpenNull ==
    /\ Len(loads) < MaxLoads
    /\ loads' = Append(loads, [pc |-> "dead", bundle |-> JsonNull])
    /\ fragment' = JsonNull
    /\ UNCHANGED <<page, download, overlapped>>

Open == OpenBundle \/ OpenNull

At(l, from, to) ==
    /\ loads[l].pc = from
    /\ loads' = [loads EXCEPT ![l].pc = to]
    /\ UNCHANGED <<fragment, download, overlapped>>

(* What the privilege log shows as revealed and not matching.              *)
Mismatched(b) ==
    {i \in DOMAIN b.records : ~DigestsMatch(b.records[i], b.disclosed)}

Table(b) ==
    [i \in DOMAIN b.records |-> AnnotateRecord(b.records, b.records[i])]

(* renderPrivlog and renderRecordsTable.                                   *)
ShowRecords(l) ==
    /\ At(l, "verifying", "certifying")
    /\ loads[l].bundle # Malformed
    /\ page' = [page EXCEPT !.privlog = Shown(l, Mismatched(loads[l].bundle)),
                            !.table = Shown(l, Table(loads[l].bundle))]

(* An unreadable record: the promise is rejected, and no one looks.        *)
Reject(l) ==
    /\ At(l, "verifying", "dead")
    /\ loads[l].bundle = Malformed
    /\ UNCHANGED page

(* Defect variant of Card: only a certificate that was checked is shown.   *)
CardIfChecked(l) ==
    IF CheckCompleteness(loads[l].bundle) = "skip" THEN page.completeness
    ELSE Shown(l, CheckCompleteness(loads[l].bundle))

(* Defect variant of Card: no certificate, no verdict.                     *)
CardOrNothing(l) ==
    Shown(l, IF loads[l].bundle.cert = Nil THEN Nil
             ELSE CheckCompleteness(loads[l].bundle))

Card(l) == Shown(l, CheckCompleteness(loads[l].bundle))

ShowCompleteness(l) ==
    /\ At(l, "certifying", "checking")
    /\ page' = [page EXCEPT !.completeness = Card(l)]

(* Defect variant of LinkOf: the load's own fragment.                      *)
LinkOfLoad(l) == loads[l].bundle

(* The fragment put into the address bar: read after the awaits.           *)
LinkOf(l) == fragment

ShowRitual(l) ==
    /\ At(l, "checking", "done")
    /\ page' = [page EXCEPT !.ritual = Shown(l, Ritual(loads[l].bundle)),
                            !.url = LinkOf(l)]

(* Nothing that the page shows is Nil.                                     *)
ASSUME ShownAssumption ==
    \A l \in 1..MaxLoads, b \in Incoming :
        /\ Shown(l, Mismatched(b)) # Nil
        /\ Shown(l, Table(b)) # Nil
        /\ Shown(l, CheckCompleteness(b)) # Nil
        /\ Shown(l, Ritual(b)) # Nil

(* The download button, which is enabled with the first permalink, and the *)
(* arrival of the shell it fetches.                                        *)
AskDownload ==
    /\ ~download
    /\ page.permalink # Nil
    /\ download' = TRUE
    /\ UNCHANGED <<loads, fragment, page, overlapped>>

Download ==
    /\ download
    /\ download' = FALSE
    /\ page' = [page EXCEPT !.saved = fragment]
    /\ UNCHANGED <<loads, fragment, overlapped>>

LoadStep(l) ==
    ShowRecords(l) \/ Reject(l) \/ ShowCompleteness(l) \/ ShowRitual(l)

Next == Open \/ (\E l \in Loads : LoadStep(l)) \/ AskDownload \/ Download

Spec == Init /\ [][Next]_vars

-----------------------------------------------------------------------------
(* Properties                                                              *)

Bundles == Incoming \cup {Malformed, JsonNull, Nil}

ShownIn(contents) == [by : Loads, content : contents] \cup {Nil}

Verdict == {"pass", "fail", "skip"}

(* Every variable has its type.                                            *)
TypeOK ==
    /\ \A l \in Loads :
         /\ loads[l].pc \in {"verifying", "certifying", "checking", "done", "dead"}
         /\ loads[l].bundle \in Incoming \cup {Malformed, JsonNull}
    /\ {fragment, page.permalink, page.url, page.saved} \subseteq Bundles
    /\ page.privlog \in ShownIn(SUBSET Nat)
    /\ page.table \in ShownIn(Seq({"digest_mismatch", "verifies",
                                   "cites an altered record"}))
    /\ page.completeness \in ShownIn(Verdict)
    /\ page.ritual \in ShownIn([integrity : Verdict, sequence : Verdict,
                                completeness : Verdict, crossCheck : Verdict])
    /\ download \in BOOLEAN
    /\ overlapped \in BOOLEAN

(* However loads overlap, the address bar and a saved copy are of what was *)
(* loaded last, though each is written after an await; and that is what    *)
(* the permalink shows, unless it was a pasted null, of which no permalink *)
(* is shown (offline_shell.html:1345-1375, 1412).                          *)
LinksAgree ==
    [][\A link \in {"url", "saved"} : page'[link] # page[link] =>
         /\ page'[link] = Last(loads).bundle
         /\ page'[link] = page.permalink \/ page'[link] = JsonNull]_vars

(* Loads that did not overlap leave nothing of an older bundle: once the   *)
(* newest is done, the log, the table, the card and the stages are its own *)
(* (offline_shell.html:1365-1373).                                         *)
OneBundleShown ==
    (~overlapped /\ loads # <<>> /\ Last(loads).pc = "done") =>
        \A part \in {"privlog", "table", "completeness", "ritual"} :
            page[part] # Nil /\ page[part].by = Len(loads)

(* "The displayed log and the ritual/cross-check verdicts read the same"   *)
(* (offline_shell.html:1240-1243): Integrity fails if and only if the log  *)
(* or the table shows a record that does not match, and the card and the   *)
(* Completeness stage agree.                                               *)
VerdictsAgree ==
    (~overlapped /\ Running = {} /\ page.ritual # Nil) =>
        /\ page.ritual.content.integrity = "fail" <=>
             \/ page.privlog.content # {}
             \/ \E i \in DOMAIN page.table.content :
                  page.table.content[i] = "digest_mismatch"
        /\ page.ritual.content.completeness = page.completeness.content

=============================================================================
