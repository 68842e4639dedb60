---------------------------- MODULE LedgerAccess ----------------------------
(***************************************************************************)
(* A ledger and the `capsule` commands that are run on it: the front door  *)
(* (cli/main.py, packaging.py), the opening of the path a command names    *)
(* (cli/ledger_io.py) and the store behind it, which is external and       *)
(* appears as what the commands ask of it.                                 *)
(*                                                                         *)
(* A process runs one command.  On a directory every read and append is of *)
(* the one log that agents append to meanwhile; of a JSONL file a command  *)
(* takes a copy that goes away with it.                                    *)
(***************************************************************************)
EXTENDS Integers, Sequences, FiniteSets

CONSTANTS
    Nil,                \* no such value
    Procs,              \* the processes that run commands
    Digests,            \* digests of payloads, each standing for its payload
    Workloads           \* bound: by name, what the actors of a behaviour may do

VARIABLES
    workload,           \* the workload of this behaviour, chosen by Init
    log,                \* the records at the ledger path; seq is the index
    durable,            \* how many of them are on disk
    files,              \* payloads/<digest>.json: a payload, or what is none
    cmd,                \* the command of each process
    faults              \* the kinds of faults that have happened

avars == <<workload, log, durable, files, cmd, faults>>

Work == Workloads[workload]

OnDirectory == Work.path = "directory"

(* What the store a command has opened holds at this moment.               *)
Store(p) == IF OnDirectory THEN log ELSE cmd[p].copy

IdsIn(s) == {s[i].id : i \in DOMAIN s}

SeqOf(s, id) == CHOOSE i \in DOMAIN s : s[i].id = id

(* store.fetch(id), for an id that the store holds.                        *)
Fetch(s, id) == s[SeqOf(s, id)]

(* store.find_gaps: the records whose parent is not there.  One that opens *)
(* an epoch has none to look for.                                          *)
Gaps(s) == {i \in DOMAIN s : /\ s[i].parent \notin IdsIn(s) \cup {Nil}
                             /\ s[i].relation # "epoch_opens"}

(* store.append, which waits for the disk if the record is consequential.  *)
AppendToLog(capsule, consequential) ==
    /\ log' = Append(log, capsule)
    /\ durable' = IF consequential THEN Len(log) + 1 ELSE durable

(* A file that a put has begun and not finished: a new one, or one that    *)
(* held the whole payload before.                                          *)
Torn == {"begun", "rewritten"}

-----------------------------------------------------------------------------

Init ==
    /\ workload \in DOMAIN Workloads
    /\ log = <<>>
    /\ durable = 0
    /\ files = [d \in Digests |-> Nil]
    /\ cmd = [p \in Procs |-> [pc |-> "idle"]]
    /\ faults = {}

(* An agent appends, and waits for the disk or does not.                   *)
AgentAppend ==
    /\ \E c \in Work.capsules, consequential \in Work.waits :
         /\ c.id \notin IdsIn(log)
         /\ AppendToLog(c, consequential)
    /\ UNCHANGED <<workload, files, cmd, faults>>

(* packaging.current_arm: $CAPSULE_LEDGER_ARM if it names one.             *)
CurrentArm ==
    IF Work.arm \in {"guards-only", "full"} THEN Work.arm ELSE "full"

EvidenceVerbs == {"log", "show", "verify", "payload put"}

(* _build_parser: the evidence verbs are not registered in every arm.      *)
Registered(verb) == verb \in EvidenceVerbs => CurrentArm = "full"

(* What a command refuses before it touches anything: exit code 2.         *)
UsageError(run) ==
    \/ ~Registered(run.verb)
    \/ Work.path = Nil
    \/ run.verb = "key rotate" /\
         (\/ Nil \in {run.old, run.secret, run.new}
          \/ run.new = run.old)
    \/ run.verb = "payload put" /\ (~OnDirectory \/ run.payload = Nil)
    \/ run.verb = "verify" /\ run.target = Nil

(* local_payload_store: only on a directory, and only if one is there.     *)
LocalPayloadStore == OnDirectory /\ \E d \in Digests : files[d] # Nil

(* main, up to the opening of the ledger.  A JSONL file is imported into a *)
(* store of its own.                                                       *)
Start(p) ==
    /\ cmd[p].pc = "idle"
    /\ \E run \in Work.runs[p] :
         cmd' = [cmd EXCEPT ![p] =
           IF UsageError(run) THEN [run |-> run, pc |-> "done", exit |-> 2]
           ELSE [run |-> run, pc |-> "open", opened |-> Len(log),
                 copy |-> IF OnDirectory THEN <<>> ELSE log,
                 payloads |-> LocalPayloadStore]]
    /\ UNCHANGED <<workload, log, durable, files, faults>>

(* The fields of f, and those of g that f does not have (TLC's @@, of      *)
(* which the provers know nothing).                                        *)
f ++ g == [x \in (DOMAIN f) \cup (DOMAIN g) |-> IF x \in DOMAIN f THEN f[x] ELSE g[x]]

(* The steps of a command: it goes on, returns an exit code with what it   *)
(* has printed, or ends in an exception.                                   *)
At(p, verb, pc) == cmd[p].pc = pc /\ cmd[p].run.verb = verb

Goto(p, changes) == cmd' = [cmd EXCEPT ![p] = changes ++ @]

Return(p, exit, printed) ==
    cmd' = [cmd EXCEPT ![p] = [run |-> @.run, pc |-> "done", exit |-> exit,
                               opened |-> @.opened] ++ printed]

Raise(p) == cmd' = [cmd EXCEPT ![p] = [run |-> @.run, pc |-> "raised"]]

NoSuchCapsule(p, exit) ==
    cmd[p].run.target \notin IdsIn(Store(p)) /\ Return(p, exit, <<>>)

Ended == {"idle", "done", "raised", "killed"}

Finished(p, verb) == cmd[p].pc = "done" /\ cmd[p].run.verb = verb

-----------------------------------------------------------------------------
(* Faults, each kind at most once, and only those of the workload.         *)

Fault(kind) ==
    /\ kind \in Work.faults \ faults
    /\ faults' = faults \cup {kind}
    /\ UNCHANGED workload

Killed(p) ==
    IF cmd[p].pc \in Ended THEN cmd[p] ELSE [run |-> cmd[p].run, pc |-> "killed"]

Kill(p) ==
    /\ Fault("kill")
    /\ cmd[p].pc \notin Ended
    /\ cmd' = [cmd EXCEPT ![p] = Killed(p)]
    /\ UNCHANGED <<log, durable, files>>

(* A power cut: records that nobody waited for may go, and so may payloads *)
(* (write_text does not wait for the disk).                                *)
Crash ==
    /\ Fault("crash")
    /\ \E n \in durable..Len(log) : log' = SubSeq(log, 1, n)
    /\ \E lost \in SUBSET {d \in Digests : files[d] # Nil} :
         files' = [d \in Digests |-> IF d \in lost THEN "begun" ELSE files[d]]
    /\ cmd' = [p \in Procs |-> Killed(p)]
    /\ UNCHANGED durable

(* A stored payload is changed to another one, or to what is no JSON.      *)
Damage ==
    /\ Fault("damage")
    /\ \E d \in Digests, other \in Digests \cup {"no JSON"} :
         /\ files[d] \notin {Nil, other}
         /\ files' = [files EXCEPT ![d] = other]
    /\ UNCHANGED <<log, durable, cmd>>

=============================================================================
