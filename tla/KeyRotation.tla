---------------------------- MODULE KeyRotation ----------------------------
(***************************************************************************)
(* `capsule key rotate`, `capsule key status` (cli/key_cmds.py) and        *)
(* `capsule verify` of one record (cli/verify_cmd.py).                     *)
(*                                                                         *)
(* A rotation is an event capsule, signed by the key that goes, built by   *)
(* ledger/capsule.py.  What keys were live when is worked out from these   *)
(* events by cll.revocation, which is external: the tests say that a key   *)
(* is revoked at the time in its rotation event and that records dated     *)
(* later fail; of a key rotated twice they do not say which time counts.   *)
(***************************************************************************)
EXTENDS LedgerAccess

CONSTANTS
    Times,              \* timestamps, of any host's clock or of --at
    Empty               \* the empty string, for --new-secret

ASSUME TimesAssumption == Times \subseteq Nat

-----------------------------------------------------------------------------

(* key_fingerprint: the hash of key id and secret.                         *)
KeyFingerprint(key, secret) == <<key, secret>>

(* args.new_secret or token_hex(32); a process stands for what it draws.   *)
NewSecret(p, run) == IF run.newSecret \in {Nil, Empty} THEN p ELSE run.newSecret

Detail(p, run, rotatedAt) ==
    [old            |-> run.old,
     oldFingerprint |-> KeyFingerprint(run.old, run.secret),
     new            |-> run.new,
     newFingerprint |-> KeyFingerprint(run.new, NewSecret(p, run)),
     at             |-> rotatedAt]

(* build_event_capsule: its action_id is drawn, so its capsule_id is its   *)
(* own; it names no parent.  LocalSigner's bytes are left out, the key id  *)
(* they are filed under is not.                                            *)
EventCapsule(p, signer, event, timestamp) ==
    [id |-> p, parent |-> Nil, relation |-> Nil, key |-> signer,
     ts |-> timestamp, intact |-> TRUE, reason |-> Nil, evidence |-> <<>>,
     event |-> event]

(* Defect variant of RotationCapsule: the capsule is stamped when built.   *)
RotationCapsuleStampedNow(p, run, rotatedAt) ==
    EventCapsule(p, run.old, Detail(p, run, rotatedAt),
                 CHOOSE t \in Times : \A u \in Times : u <= t)

(* Defect variant of RotationCapsule: old and new change places.           *)
RotationCapsuleSwapped(p, run, rotatedAt) ==
    LET d == Detail(p, run, rotatedAt) IN
    EventCapsule(p, run.old,
                 [d EXCEPT !.old = d.new, !.oldFingerprint = d.newFingerprint,
                           !.new = d.old, !.newFingerprint = d.oldFingerprint],
                 rotatedAt)

RotationCapsule(p, run, rotatedAt) ==
    EventCapsule(p, run.old, Detail(p, run, rotatedAt), rotatedAt)

(* Defect variant of RotateAppend: the append does not wait for the disk.  *)
RotateAppendLazily(p) ==
    /\ At(p, "key rotate", "open")
    /\ \E rotatedAt \in IF cmd[p].run.at = Nil THEN Times ELSE {cmd[p].run.at} :
         LET capsule == RotationCapsule(p, cmd[p].run, rotatedAt) IN
         /\ IF OnDirectory THEN AppendToLog(capsule, FALSE)
            ELSE UNCHANGED <<log, durable>>
         /\ Goto(p, [pc |-> "recorded", detail |-> capsule.event])
    /\ UNCHANGED <<workload, files, faults>>

(* The event is appended, to the throwaway copy if the path is a file.     *)
RotateAppend(p) ==
    /\ At(p, "key rotate", "open")
    /\ \E rotatedAt \in IF cmd[p].run.at = Nil THEN Times ELSE {cmd[p].run.at} :
         LET capsule == RotationCapsule(p, cmd[p].run, rotatedAt) IN
         /\ IF OnDirectory THEN AppendToLog(capsule, TRUE)
            ELSE UNCHANGED <<log, durable>>
         /\ Goto(p, [pc |-> "recorded", detail |-> capsule.event])
    /\ UNCHANGED <<workload, files, faults>>

(* A secret is printed if --new-secret was not given.                      *)
RotateReport(p) ==
    /\ At(p, "key rotate", "recorded")
    /\ Return(p, 0, [detail |-> cmd[p].detail,
                     secret |-> IF cmd[p].run.newSecret = Nil THEN NewSecret(p, cmd[p].run)
                                ELSE Nil])
    /\ UNCHANGED <<workload, log, durable, files, faults>>

-----------------------------------------------------------------------------

Rotations(s, key) == {i \in DOMAIN s : s[i].event # Nil /\ s[i].event.old = key}

(* build_key_timeline: when a key was revoked, as far as the tests say.    *)
RevokedAt(s, key) == {s[i].event.at : i \in Rotations(s, key)}

Activated(s) == {s[i].event.new : i \in {j \in DOMAIN s : s[j].event # Nil}}

KeysOf(s) == Activated(s) \cup {s[i].event.old : i \in {j \in DOMAIN s : s[j].event # Nil}}

KeyStatus(p) ==
    /\ At(p, "key status", "open")
    /\ Return(p, 0, [revoked |-> {k \in KeysOf(Store(p)) : RevokedAt(Store(p), k) # {}},
                     live    |-> {k \in KeysOf(Store(p)) : RevokedAt(Store(p), k) = {}}])
    /\ UNCHANGED <<workload, log, durable, files, faults>>

(* store.verify: is the body what the id was computed from, and was the    *)
(* key live at the record's time?                                          *)
Verdicts(s, c) ==
    IF RevokedAt(s, c.key) = {} THEN {c.intact}
    ELSE {c.intact /\ c.ts <= at : at \in RevokedAt(s, c.key)}

VerifyFetch(p) ==
    /\ At(p, "verify", "open")
    /\ \/ NoSuchCapsule(p, 2)
       \/ /\ cmd[p].run.target \in IdsIn(Store(p))
          /\ Goto(p, [pc |-> "fetched"])
    /\ UNCHANGED <<workload, log, durable, files, faults>>

VerifyRecord(p) ==
    /\ At(p, "verify", "fetched")
    /\ LET c == Fetch(Store(p), cmd[p].run.target) IN
         \E ok \in Verdicts(Store(p), c) :
           Return(p, IF ok THEN 0 ELSE 1, [record |-> c])
    /\ UNCHANGED <<workload, log, durable, files, faults>>

KeyStep(p) ==
    \/ RotateAppend(p) \/ RotateReport(p) \/ KeyStatus(p)
    \/ VerifyFetch(p) \/ VerifyRecord(p)

-----------------------------------------------------------------------------
(* Properties                                                              *)

(* A rotation that was reported is in the ledger, whatever was killed or   *)
(* lost power since, and its new fingerprint is that of a secret somebody  *)
(* holds: given, or printed (key_cmds.py:60-98).  Not so on a JSONL file,  *)
(* and not with an empty --new-secret: a secret is drawn then and never    *)
(* shown.                                                                  *)
RotationRecorded ==
    \A p \in Procs :
        (Finished(p, "key rotate") /\ cmd[p].exit = 0 /\ OnDirectory) =>
            /\ p \in IdsIn(log)
            /\ LET run == cmd[p].run
                   event == Fetch(log, p).event
               IN  /\ event = cmd[p].detail
                   /\ <<event.old, event.new>> = <<run.old, run.new>>
                   /\ run.newSecret # Empty =>
                        \E secret \in {run.newSecret, cmd[p].secret} \ {Nil} :
                          event.newFingerprint = KeyFingerprint(run.new, secret)

(* A rotation event stands up to the fence it puts up itself, also when it *)
(* is dated back with --at (key_cmds.py:66, 85), unless its key is rotated *)
(* again.                                                                  *)
RotationVerifies ==
    \A i \in DOMAIN log :
        LET c == log[i] IN
        (c.event # Nil /\ Cardinality(Rotations(log, c.event.old)) = 1) =>
            Verdicts(log, c) = {TRUE}

(* Once a rotation is in the ledger, a verify started later fails a record *)
(* of the old key dated later, and status calls that key revoked; records  *)
(* of keys never rotated are not affected (key_cmds.py:69-87, 108,         *)
(* verify_cmd.py:57-82).                                                   *)
RotationSeen ==
    (OnDirectory /\ "crash" \notin faults) => \A p \in Procs :
        /\ (Finished(p, "verify") /\ cmd[p].exit # 2) =>
             LET c == cmd[p].record IN
             /\ (\E q \in Procs : \E i \in 1..cmd[p].opened :
                   /\ i \in DOMAIN log /\ log[i].id = q
                   /\ Rotations(log, cmd[q].run.old) = {i}
                   /\ cmd[q].run.old = c.key /\ c.ts > log[i].event.at)
                => cmd[p].exit = 1
             /\ (c.intact /\ \A q \in Procs : ~(cmd[q].pc # "idle"
                   /\ cmd[q].run.verb = "key rotate" /\ cmd[q].run.old = c.key))
                => cmd[p].exit = 0
        /\ (Finished(p, "key status") /\ cmd[p].exit = 0) =>
             \A q \in Procs : \A i \in DOMAIN log :
               (i <= cmd[p].opened /\ log[i].id = q) =>
                 cmd[q].run.old \in cmd[p].revoked

=============================================================================
