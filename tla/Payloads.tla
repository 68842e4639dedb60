------------------------------ MODULE Payloads ------------------------------
(***************************************************************************)
(* The payload store (payload_store.py), `capsule payload put` that fills  *)
(* it, and the two commands that read it: `capsule show` and `capsule log` *)
(* (cli/payload_cmd.py, show_cmd.py, log_cmd.py).                          *)
(*                                                                         *)
(* A payload is its digest.  put writes in place, so that a reader may     *)
(* find a file begun and not finished.                                     *)
(***************************************************************************)
EXTENDS LedgerAccess

(* PayloadStore.put: the file is opened, which empties it, and written.    *)
PutOpen(p) ==
    /\ At(p, "payload put", "open")
    /\ LET d == cmd[p].run.payload IN
         files' = [files EXCEPT ![d] =
           IF @ \in {Nil, "begun", "no JSON"} THEN "begun" ELSE "rewritten"]
    /\ Goto(p, [pc |-> "writing"])
    /\ UNCHANGED <<workload, log, durable, faults>>

(* Defect variant of PutWrite: what is there already is left alone.        *)
PutWriteOnce(p) ==
    /\ At(p, "payload put", "writing")
    /\ files' = [files EXCEPT ![cmd[p].run.payload] =
         IF @ = "rewritten" THEN @ ELSE cmd[p].run.payload]
    /\ Return(p, 0, [stored |-> cmd[p].run.payload])
    /\ UNCHANGED <<workload, log, durable, faults>>

PutWrite(p) ==
    /\ At(p, "payload put", "writing")
    /\ files' = [files EXCEPT ![cmd[p].run.payload] = cmd[p].run.payload]
    /\ Return(p, 0, [stored |-> cmd[p].run.payload])
    /\ UNCHANGED <<workload, log, durable, faults>>

(* Defect variant of Match: the digest is not computed again.              *)
MatchUnchecked(digest, content) == digest \in Digests

(* ResolvedPayload.match.                                                  *)
Match(digest, content) == content = digest

(* Defect variant of Resolved: a file is read without looking for it.      *)
ResolvedUnlooked(digest) ==
    IF files[digest] = Nil THEN {"no JSON"}
    ELSE IF files[digest] \in Torn THEN {"no JSON"} \cup (Digests \ {digest})
    ELSE {files[digest]}

(* PayloadStore.resolve: what reading payloads/<digest>.json may give.  A  *)
(* file that is not finished is no JSON, or, if the payload is a number,   *)
(* another payload.                                                        *)
Resolved(digest) ==
    IF files[digest] = Nil THEN {"nothing"}
    ELSE IF files[digest] \in Torn THEN {"no JSON"} \cup (Digests \ {digest})
    ELSE {files[digest]}

(* format_resolved_payload: the content, or that it does not match.        *)
Shown(digest, content) ==
    [digest |-> digest, content |-> IF Match(digest, content) THEN content ELSE Nil]

(* One digest of a record is resolved and printed; rest is what is left to *)
(* print.                                                                  *)
Resolve(p, digest, rest) ==
    \/ /\ cmd[p].payloads
       /\ "no JSON" \in Resolved(digest)
       /\ Raise(p)
    \/ /\ cmd[p].payloads
       /\ \E content \in Resolved(digest) \cap Digests :
            Goto(p, [shown |-> cmd[p].shown \cup {Shown(digest, content)}] ++ rest)
    \/ /\ ~cmd[p].payloads \/ "nothing" \in Resolved(digest)
       /\ Goto(p, rest)

-----------------------------------------------------------------------------
(* capsule show                                                            *)

ShowFetch(p) ==
    /\ At(p, "show", "open")
    /\ \/ NoSuchCapsule(p, 1)
       \/ /\ cmd[p].run.target \in IdsIn(Store(p))
          /\ LET c == Fetch(Store(p), cmd[p].run.target) IN
               IF cmd[p].run.json THEN Return(p, 0, [shown |-> {}])
               ELSE Goto(p, [pc |-> "show", record |-> c, shown |-> {},
                             todo |-> IF c.reason = Nil THEN c.evidence
                                      ELSE <<c.reason>> \o c.evidence])
    /\ UNCHANGED <<workload, log, durable, files, faults>>

ShowResolve(p) ==
    /\ At(p, "show", "show")
    /\ IF cmd[p].todo = <<>>
       THEN Return(p, 0, [shown |-> cmd[p].shown, record |-> cmd[p].record])
       ELSE Resolve(p, Head(cmd[p].todo), [todo |-> Tail(cmd[p].todo)])
    /\ UNCHANGED <<workload, log, durable, files, faults>>

-----------------------------------------------------------------------------
(* capsule log                                                             *)

(* build_scan_query: the filters may select any of the records.            *)
Selected(run, c) == c.id \in run.select

LogCount(p) ==
    /\ At(p, "log", "open")
    /\ Goto(p, [pc |-> "list", total |-> Len(Store(p)), next |-> 1,
                listed |-> {}, shown |-> {}])
    /\ UNCHANGED <<workload, log, durable, files, faults>>

(* Defect variant of GapsNoted: gaps are looked for in what was counted.   *)
GapsNotedEarly(p) == Gaps(SubSeq(Store(p), 1, cmd[p].total))

GapsNoted(p) == Gaps(Store(p))

(* The second scan, one record at a time.  Whether it reaches records      *)
(* appended since it began is the store's to say.                          *)
LogNext(p) ==
    /\ At(p, "log", "list")
    /\ cmd[p].next <= Len(Store(p))
    /\ LET c == Store(p)[cmd[p].next]
           rest == [next |-> cmd[p].next + 1,
                    listed |-> IF Selected(cmd[p].run, c)
                               THEN cmd[p].listed \cup {c.id} ELSE cmd[p].listed]
       IN  IF Selected(cmd[p].run, c) /\ c.reason # Nil
           THEN Resolve(p, c.reason, rest)
           ELSE Goto(p, rest)
    /\ UNCHANGED <<workload, log, durable, files, faults>>

LogEnd(p) ==
    /\ At(p, "log", "list")
    /\ cmd[p].next > cmd[p].total
    /\ Return(p, 0, [listed |-> cmd[p].listed, shown |-> cmd[p].shown,
                     total |-> cmd[p].total, gaps |-> Cardinality(GapsNoted(p))])
    /\ UNCHANGED <<workload, log, durable, files, faults>>

PayloadStep(p) ==
    \/ PutOpen(p) \/ PutWrite(p) \/ ShowFetch(p) \/ ShowResolve(p)
    \/ LogCount(p) \/ LogNext(p) \/ LogEnd(p)

-----------------------------------------------------------------------------
(* Properties                                                              *)

(* Content shown beside a digest is what the digest commits to, of a       *)
(* record of the ledger, and never for an imported file, whatever is put   *)
(* or damaged while the command runs (payload_store.py:85-98,              *)
(* ledger_io.py:60-71).                                                    *)
ResolvedIsCommitted ==
    \A p \in Procs : \A s \in (IF "shown" \in DOMAIN cmd[p] THEN cmd[p].shown ELSE {}) :
        /\ OnDirectory
        /\ s.content \in {Nil, s.digest}
        /\ "crash" \in faults \/ \E i \in DOMAIN log :
             s.digest = log[i].reason \/ s.digest \in {log[i].evidence[k] :
                                            k \in DOMAIN log[i].evidence}

(* A put of the payload is under way, or was killed.                       *)
PutCut(digest) ==
    \E q \in Procs : /\ cmd[q].pc \in {"writing", "killed"}
                    /\ cmd[q].run.verb = "payload put"
                    /\ cmd[q].run.payload = digest

(* A payload reported as stored is lost only to damage, or to a later put  *)
(* of the same payload that is under way or was cut short: writing over    *)
(* what a killed put left behind makes it whole (payload_store.py:74-83).  *)
StoredStays ==
    \A p \in Procs : Finished(p, "payload put") /\ cmd[p].exit = 0 =>
        \/ files[cmd[p].stored] = cmd[p].stored
        \/ files[cmd[p].stored] = "rewritten" /\ PutCut(cmd[p].stored)
        \/ faults \cap {"crash", "damage"} # {}

(* The digest that show or log comes to next.                              *)
Reading(p) == IF cmd[p].pc = "show" THEN Head(cmd[p].todo)
              ELSE Store(p)[cmd[p].next].reason

ReadFails(p) == cmd[p].pc \in {"show", "list"} /\ cmd'[p].pc = "raised"

(* show and log fail only over the file they come to next, which was       *)
(* damaged so that it is no JSON, or is one that a put of that payload has *)
(* begun: one under way, killed, or hit by a power cut                     *)
(* (payload_store.py:92-97).                                               *)
ReadFailsOnTornFile ==
    [][\A p \in Procs : ReadFails(p) =>
         /\ OnDirectory
         /\ IF files[Reading(p)] \in Torn
            THEN "crash" \in faults \/ PutCut(Reading(p))
            ELSE "damage" \in faults /\ files[Reading(p)] = "no JSON"]_avars

(* "sequence unbroken" holds of every record listed, also of those that    *)
(* were appended while the list was printed (log_cmd.py:48-72).            *)
SequenceNoteTrue ==
    \A p \in Procs :
        (Finished(p, "log") /\ cmd[p].exit = 0 /\ OnDirectory
           /\ "crash" \notin faults) =>
          (cmd[p].gaps = 0 =>
             \A i \in DOMAIN log :
               (log[i].id \in cmd[p].listed /\ log[i].relation # "epoch_opens")
                 => log[i].parent \in IdsIn(log) \cup {Nil})

=============================================================================
