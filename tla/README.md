# capsule-ledger: a TLA+ development

This directory models capsule-ledger's commands and what its readers are told: the checkpointing commands,
the commands that read and write one ledger (key rotation, payloads, log, show, verify, blame, the remote
example), the export of bundles, the Merkle Mountain Range (MMR) arithmetic of the offline viewer, what the
viewer says and shows of a bundle, and the two gates that pull requests to the repository pass. The modules are
checked with TLC on small instances; every safety property of checkpointing, of the commands, of bundles and
their viewing, and of the gates is also proved with TLAPS, for every instance.

Paths below are relative to the repository.

## 1. The system

capsule-ledger is the Python command line and the HTML viewer around an append-only ledger of *capsules*
(signed records of what an agent did). The ledger's store, its MMR index, the making and saving of checkpoint
records, and their registration with a Transparency Service are in the external package `cll`;
`capsule_ledger/ledger/*.py` and `capsule_ledger/mmr/checkpoint.py` only re-export it. Digests and receipts
come from `agent_action_capsule`, `capsule_emit` and `scitt_cose`. What is written in this repository, with its
state and what must hold of it:

| component | state | operations | what makes it correct |
|---|---|---|---|
| checkpointing CLI, `cli/checkpoint_cmd.py` | `<ledger>/checkpoints/<size>.json`, `config.json`; the log of the store | emit, status, verify, init | published checkpoints are prefixes of the log; witnesses belong to the checkpoint that carries them; a failing service does not block; verify and status tell the truth |
| bundle export, `cli/bundle_cmd.py` | none kept; reads of the store | select, collect parents, verify, count, certify, write | the bundle verifies on its own, whatever is appended meanwhile |
| MMR of the viewer, `offline_shell.html` MMR_JS | none | positions, peaks, roots, verify inclusion and consistency | a proof is accepted exactly when it is right |
| verdicts of the viewer, `offline_shell.html` BUNDLE_JS | none | integrity, sequence, completeness, cross-check, table notes | a change is told |
| page of the viewer, `offline_shell.html` | `_fragmentB64u`, the DOM, the address bar | load, paste, download | one bundle is shown, and links lead to it |
| key lifecycle, `cli/key_cmds.py`, `ledger/capsule.py`, `ledger/signing.py` | an event in the ledger | rotate, status | what is reported as recorded is there, stays, and fences the old key |
| ledger access, `cli/ledger_io.py`; front door, `cli/main.py`, `packaging.py` | a temporary copy when the path is a JSONL file | dispatch, open_ledger | what is refused touches nothing |
| payload store, `payload_store.py`, `cli/payload_cmd.py` | `<ledger>/payloads/<digest>.json` | put, resolve | what is shown beside a digest is what it commits to |
| blame, `cli/blame_cmd.py` | none | walk the chain | ends, and shows a chain the ledger really held |
| verify, show, log; `cli/format.py` | none | reads and their display | what they say is true of the ledger they read |
| remote example, `examples/remote_ledger.py` | a server's ledger | append, scan, fetch, verify, find_gaps | no answer is not taken for an answer |
| repository gates, `.github/*.py` | pull requests, the base branch | scope check, vocabulary check | nothing unwanted is merged, nobody is stopped for others' changes |
| packaging of the viewer, registry, vectors, example scripts | none | text, constants | - |

The components meet in four places. Agents append to the log while the commands read it: nothing locks the
ledger directory. Commands meet each other in `checkpoints/`, in `payloads/` and through rotation events in the
log. The exporter meets the viewer through the bundle, which travels through hands that may change it. And pull
requests meet in the base branch.

What is hard to test is listed, line by line, under `hazards` in `PROJECT.json`: processes interleaved at
every read of the log, power cuts and restored copies between a checkpoint and the records it commits to,
services that record a statement and lose the answer, stale MMRs in verify and status, page loads that overlap
at every `await`, chains that loop, sizes at the edges of the MMR arithmetic, payload files that are read while
they are rewritten, rotations dated back or made twice, lists of a ledger that grows as it is listed, requests
served after their caller gave up, and pull requests checked against a base branch that has moved on.

## 2. Modules

```
AppendOnlyLog          the promise: the log grows, commitments are prefixes of it
  ^ refined by
Checkpoint             checkpoint_cmd.py          <- MCCheckpoint (five configurations)
  ^ proved in CheckpointProofs

Mmr                    MMR_JS of offline_shell.html                <- MCMmr
  ^ proved in MmrProofs
Verdicts               BUNDLE_JS: the stages and the table, as operators
  ^ extended by Bundle   bundle_cmd.py
       ^ extended by Handoff   export, carriage, viewing            <- MCHandoff
            ^ proved in HandoffProofs
  ^ extended by Viewer   loadBundle and the handlers of the page    <- MCViewer
       ^ proved in ViewerProofs

LedgerAccess           main.py, packaging.py, ledger_io.py; log, payload files, processes, faults
  ^ extended by KeyRotation    key_cmds.py, verify_cmd.py
       ^ extended by RemoteLedger   remote_ledger.py
  ^ extended by Payloads       payload_store.py, payload_cmd.py, show_cmd.py, log_cmd.py
  ^ extended by Blame          blame_cmd.py
Commands               composes RemoteLedger, Payloads and Blame   <- MCCommands
  ^ proved in CommandsProofs   rotations and payloads as reported
       ^ extended by ReadsProofs     what verify, status, show and log say
       ^ extended by AnswersProofs   blame and the remote example

Gates                  bucket_scope_gate.py, neutrality_scan.py    <- MCGates
  ^ proved in GatesProofs
```

### Checkpoint

`log` is the store (a sequence of records), `durable` how much of it has been fsynced, `saved` the files of
`checkpoints/` (one per MMR size; saving under the same size replaces), `config` its `config.json`,
`registered` the receipts services have issued, `em` the state of each running `emit` and `rd` that of a
running `status` or `verify`. `lossy` is a history variable: it becomes true when a record is appended that
is not consequential (no fsync) or an older copy of the segments is put back. `stamp` stands for the
timestamp, which makes two checkpoints of one size differ.

An emit is `EmitOpen` (signer, store and MMR, lines 77-82), `EmitSign` or `EmitRefuse` (85-94), `EmitTarget`
(96-104), one `RegisterOk` or `RegisterFail` for each service (102-113), and `EmitSave` (115). The others may
run between any two of them. `RegisterFail` includes the case where the service recorded the statement and the
answer was lost. `verify` and `status` are `ReadOpen`, which takes the MMR and closes the store (142-144,
196-198), and what follows on the checkpoints as they are then: for `verify` the report, with `VerifyOne` for one
checkpoint (212-266); for `status` first `StatusLoad`, which loads the newest checkpoint (146), and then
`StatusReport`, which reads the configuration and prints (169-171), with emits able to save in between. Faults are actions of the environment: `Kill`, `Crash` (power: any tail that was not fsynced may
go) and `Restore`.

The root of an MMR is the prefix of the log it was computed from; that this loses nothing is what `Mmr`
shows (`InclusionExact`, `ConsistencyExact`). The node count of `n` leaves is a constant operator, assumed
strictly increasing; the runs use 2n - popcount(n), which `Mmr` compares with a built MMR (`PositionsMatch`) and
which does increase (lemma `CountsRise` of `MmrProofs`).

What the external package does is modelled from how this repository uses it and what its tests pin down:
`emit_checkpoint` refuses an empty MMR and one shorter than its predecessor; `verify_checkpoint_consistency`
compares the recorded previous root and the MMR's root at the previous size (tests/test_checkpoint.py). Whether
a checkpoint may repeat the size of its predecessor is pinned down by neither, so `EqualSizeAllowed` is a
constant: TRUE in `cp_emit`, where it allows more behaviours, FALSE in `cp_read`. A saved file is taken to be
on disk. The secret of a signing key is looked up like its id and is not modelled apart.

### AppendOnlyLog

Extend the log, publish a prefix of it, or waive the promise. `Checkpoint` implements it with
`published <- ` the roots of all saved and all registered checkpoints and `waived <- lossy`. It says that
concurrent emits, kills, power cuts and lost answers never withdraw or change a commitment while every record
was appended as consequential.

### Mmr

Transcribes the arithmetic of the viewer (`heightAt`, `peaks`, `locatePath`, ...) and the two verifiers. The
state machine builds an MMR leaf by leaf and merge by merge from a stack of peaks, with no arithmetic on sizes,
and is the reference: heights, peaks, positions and roots computed from a size must agree with it. Between a
leaf and its merges the size is not the size of any MMR, and `peaks` must throw. A hash is the term it was
computed from.

### Verdicts, Bundle, Handoff

A record is its id, the parent it names and whether its body hashes to its id. `Bundle` has the steps of
`capsule bundle`: `Scan` (any subset of the log, whatever the filters), `Collect` (one turn of
`_collect_with_parents`), `VerifyEach`, `Count`, `Certify`, with `AppendRecord` of other processes in between
each. `Collect` takes any record of the frontier; the code takes the last. Records appended may be altered,
and name a parent that comes later or never, so chains may loop. `FreshIds` are the unused ids that a new record may
get: any, in the proofs; in the runs one, as ids are names that all actions treat alike. The MMR of the log is its sequence of ids, and
a proof says what it was made of. `Handoff` carries the finished bundle on: a record may be dropped, a body or
a parent edited, the certificate, which nobody signs, taken off (`LoseCertificate`) or replaced by one for any other
range (`SwapCertificate`), and `Verdicts` says what the viewer makes of it. The ledger stands still once the bundle is
carried.

### Viewer

One action from `await` to `await`: `OpenBundle` (to the first await; it sets the fragment and the permalink) or
`OpenNull` (a pasted `null`: the fragment is set at 1345, and 1346 throws before the permalink is), `ShowRecords`, `ShowCompleteness`, `ShowRitual` (which writes the address bar), and `Reject` for a bundle whose
records throw. `AskDownload` (the button is disabled until a permalink is shown) and `Download` are the two ends of the fetch. A load may be started while another
runs: the form hides an element with id `pasteSection`, and no element has it. Each part of the page remembers
the load that wrote it. Awaits without a visible effect between them (the two after the completeness card) are
one step.

### LedgerAccess, KeyRotation, Payloads, Blame, RemoteLedger, Commands

The commands that work on one ledger share a state: `log`, how much of it is `durable`, the payload `files`, and
`cmd`, what each process runs and where it stands. `LedgerAccess` has what all of them do: `Start` is
`main` up to `open_ledger`, with everything a command refuses by exit code 2 (`UsageError`) and the verbs that an
arm does not register; `Store(p)` is what the command reads, the living log of a directory or the copy of a
JSONL file. The store is external: appends, fetches and scans that see each other's effects, ids unique. A
command's steps end in `Goto`, `Return` (exit code and what it printed) or `Raise`. The environment appends,
kills a process, cuts power (records not waited for and payload files may go), and changes a stored payload, to another one or to
what is no JSON.

- `KeyRotation`: `RotateAppend` builds the event and appends it (64-87), `RotateReport` prints (89-99);
  `KeyStatus`; `VerifyFetch` and `VerifyRecord`. The key windows are in `cll.revocation`, external: the tests pin
  down that a key is revoked at its event's time and that later records fail; of a key rotated twice they do
  not say which time counts, so either may (`Verdicts`).
- `Payloads`: put is `PutOpen` (the file exists and is empty or cut) and `PutWrite`; `Resolve` reads one digest
  of a record, between which anything may happen. `LogCount`, `LogNext` for each record, `LogEnd` with the gaps.
  Whether the second scan reaches records appended since it began is left open.
- `Blame`: `BlameFetch`, `BlameGaps` (the gaps are taken before the walk), `BlameHop`, `BlameEnd`; the five
  ends are tested in the order of the code (`Terminal`).
- `RemoteLedger`: a request, its service, the answer, and the loss of either; `TimeOut` leaves a request on its
  way, which may still be served. The server may refuse to append, and may answer a second append of a capsule with the
  record or with an error. `ServeNothing` is a 404 that is not about a record, or an answer without a body, to any
  request: None to `_request`, and to its callers what `ReceiveNone` says (append raises, fetch and verify return
  it, a scan yields nothing).

A behaviour runs under one *workload*, which says what agents may append, what each process may be asked to run
and which faults there are. The workloads keep apart what does not interact (rotations and chains, say) and
together what does; the state spaces add up instead of multiplying.

### Gates

Branches are trees, a tree gives each path a line or nothing. A pull request has a head, a merge base, the
paths written in it (history) and the verdict of each check, which a push or an update resets. `ScopeGate` and
`NeutralityGate` are the two scripts; the second may run with or without the secret, and may be run again. A
merge is three-way and file by file. Lines are sequences of characters, because the order of alternatives, word
boundaries and overlap decide what the scanner finds. Git prints an unusual path between quotes, and then no
prefix matches it (`Quoted`); renames that git would follow in a merge are left out.

## 3. Runs

| run | asks | bounds | distinct states |
|---|---|---|---|
| `cp_emit` | do two concurrent emits with every fault keep witnesses genuine, implement `AppendOnlyLog`, and give verify no cause to fail but the one it has? | 2 emits, 2 record values, 1 service, 3 records, 2 checkpoints, 1 fault | 2.5 M |
| `cp_read` | are verify and status right while an emit, appends and faults go on? | 1 emit, 1 reader, 3 records, 2 checkpoints, 1 fault | 3.2 M |
| `cp_services` | what do --require-ts and its absence guarantee with two failing services? (with fairness) | 1 emit, 2 services, 2 records, 2 checkpoints, 1 fault | 0.1 M |
| `mmr` | is the viewer's arithmetic the MMR's, and is exactly the right proof accepted? | up to 9 leaves of 2 digests, MAX_MMR_SIZE 16 | 946 |
| `handoff` | does a bundle verify as made, hold its parents, and does the viewer tell what was changed? (with fairness) | 3 records, 2 changes | 1.0 M |
| `viewer` | do links follow the last load, and do the parts of the page agree? | 3 loads of 8 bundles, an unreadable one and null | 1.7 M |
| `commands` | is what each command reports true of the ledger, under appends, kills, power cuts, damage and lost answers, and does each end? (with fairness) | 3 processes with a command each, 3 records and rotations, 2 digests, 2 times; 10 workloads | 0.14 M |
| `gates` | do the gates keep out what they should, and stop nobody else? | 2 pull requests of 1 push, 3 paths, 5 lines, 2 secrets, every initial tree | 1.8 M |
| `cp_rollback` | claim: verify detects a rollback | violated | - |
| `cp_key` | claim: no key, no signature | violated | - |
| `stages_claim` | claim: of a bundle that Sequence and Completeness pass, the text of one at least is true | violated | - |
| `neutral_claim` | claim: only a match that is part of an approved phrase is exempt | violated | - |

Why the bounds are enough to meet the hazards. Two checkpoints and two emits are what it takes to share or skip
a predecessor and to save over each other; three records let a log shrink below a checkpoint and grow past it
again with other contents (two record values); one fault can fall between any two steps. Nine leaves pass
through every merge depth up to three and every number of peaks up to three; MAX_MMR_SIZE 16 stands for 2^50
and lies at the size of nine leaves, so the limit is met. Three ids make gaps, forks and loops of the
chain, and a middle record to drop; two changes drop a record and then its certificate. With three loads a load may overlap an older and a newer one. Of the
workloads of `commands`, `keys` has one rotation with every kind of `--new-secret` and `--at`, and a reader;
`twice` two rotations of one key, or there and back; `chains` all chains over three records up to renaming, in
every order of arrival, which include loops, gaps that close during a walk, and epochs; `disclosed` two puts of
one payload, a reader, a kill and damage of both kinds; `cut` a power cut around a put; `remote` two clients that append the
same capsule or ask for it, and answers of every kind; `file`, `guards`, `nowhere` and `default` what is refused or works on a copy. Two
pull requests are what it takes for one to be checked before and merged after the other; the characters
of `gates` make lines with a word inside a word, a phrase that holds a term, and a term beside that phrase.

Symmetry sets are used only for safety; `handoff` names ids in one order instead (`MCFreshIds`), which holds for liveness
as well. `mmr`, `handoff`, `viewer`, `commands` and `gates` stop when their bounds are
used up and so do not check deadlock; the checkpoint runs do.

What the passing properties say:

- `WitnessesGenuine`, `Refines`: see the proofs, below.
- `FailureMeansFork`: verify fails on a log that had no record at risk, as it stands, only if two saved checkpoints name
  one predecessor, or one names its own size. Two emits at once can bring that about (85), and then it does fail.
- `VerifySound`: if verify reports clean, each checkpoint but the newest commits to the records the MMR really
  holds, and the newest does unless it reaches beyond the log. The exception is the subject of `cp_rollback`.
- `NoFalseAlarm`: with one emit at a time and no record at risk, verify does not fail for being late, unless
  two checkpoints were saved after it took its MMR: then the older of the two is larger than the MMR and is
  asked of it. The property states that limit.
- `NoFalseLagAlarm`: from the load of the checkpoint to the print, a lag that status is to warn of is one the log has,
  unless an emit saved a larger checkpoint since the load; that alone can make the printed lag false.
- `StrictMeansWitnessed`, `AnchorNeverBlocks`: with --require-ts a saved checkpoint has a witness of every
  service listed; without it, the checkpoint is saved in the end.
- `PositionsMatch`, `InclusionExact`, `ConsistencyExact`: module `Mmr`.
- `BundleVerifies`, `ParentsIncluded`, `BundleEnds`: the completeness stage passes on what was made, cited
  parents of the ledger as scanned are in it, and the walk ends on loops.
- `DropTold`: a record left out at either end fails Completeness under its own certificate; with the certificate taken
  off too the stage is skipped, and under a certificate for another range nothing is claimed. A record that a later one
  still names fails Sequence whatever the certificate, unless that one is first in the bundle. `CitesExact`: the note "cites an altered record" is exact over
  gaps and loops.
- `LinksAgree`: what is written to the address bar or a saved copy is of the last load, also when loads overlap, and
  is what the permalink shows unless the last load was a pasted `null`.
  `OneBundleShown`, `VerdictsAgree`: loads that did not overlap leave one bundle on the page, and Integrity and
  Completeness agree with the log, the table and the card.

- `RotationRecorded`: a rotation that was reported is in the ledger whatever was killed or lost power since, as
  it was reported, and somebody holds the new secret. `RotationVerifies`: it stands up to the fence it puts up
  itself. `RotationSeen`: a verify or status started after it takes it into account, and keys never rotated are
  not touched.
- `ResolvedIsCommitted`: content shown is what the digest commits to and never for an imported file.
  `StoredStays`: a payload reported as stored is lost only to damage or to a put of the same payload that was cut
  short. `ReadFailsOnTornFile`: show and log raise only over the very file they come to next, and only if a
  put of that payload left it unfinished (under way, killed, or hit by a power cut) or damage made it no JSON.
- `SequenceNoteTrue`: "sequence unbroken" covers every record listed, also those appended meanwhile.
- `BlameTrue`: the chain shown and its end are true of one moment of the ledger while the command ran.
- `RemoteNeverInvents`: what a call returns is in the ledger, and a scan is of one moment of the call; that there is
  nothing is said only if so it was as the call began, or on a 404 or an empty body. `CommandsEnd`: every
  command ends.
- `BlockedNeverGrows`, `NoFalseBounce`: no merge adds or changes a file that moved out, and a pull request is
  stopped only for what was written in it. `MainNeutral`: wherever a reserved term begins on the base branch, a
  reserved term over that place has its text in an approved phrase of the same line. How much less that is than the
  schema promises is the subject of `neutral_claim`. `NoFalseFlag`: a flagged pull request holds a term that is not part of an approved phrase
  where it stands. (Part means the whole term: the proof did not go through for a term that only begins in a
  phrase, and such a term is rightly flagged.)

Each property of a passing run has a mutant in `PROJECT.json`, a variant of one definition that breaks it
("Defect variant of ..." in the modules).

What the violated ones found:

- `cp_rollback`: the inclusion check of verify is skipped for a checkpoint larger than the MMR
  (`checkpoint_cmd.py:234`) and consistency asks the MMR about predecessors only. Truncate the log
  below the newest checkpoint and verify says clean.
- `cp_key`: `env_get(new, legacy)` returns the legacy *name* when the variable is not set
  (`checkpoint_cmd.py:37-38`, `envcompat.py:10-12`), so the missing-key branch is not taken and emit signs
  with that text as key and secret.
- `stages_claim`: the texts of the two stages (`offline_shell.html:1230`, `1040`) promise more than is checked:
  parents are counted, not compared with neighbours; only the two ends of a range are proved. The trace is one bundle of
  which both texts are wrong: records 1, 3 and 4 of four, where 3 and 4 both name 1.
- `neutral_claim`: a token is exempt if its text is in the text of a phrase that the line carries
  (`neutrality_scan.py:73`), wherever the token stands; the schema says "only when it is part of such a phrase"
  (19-20) and the comment "any other match still fails" (72). A term beside the phrase is merged.

Observations without a run of their own:

- Cross-check compares the producer's verdict with the disclosed digests only (`offline_shell.html:1090`), so an
  altered body that the producer rightly reports reads as a disagreement; and overlapping loads can leave the
  table of one bundle beside the stages of another.
- `key rotate` on a JSONL file reports "recorded as ..." of a copy that is deleted (`key_cmds.py:68`,
  `ledger_io.py:50-57`); with an empty `--new-secret` a secret is drawn and never shown (`key_cmds.py:60-61`).
  `RotationRecorded` states both limits.
- A put over a payload that is stored already empties the file first: cut short, it loses the payload
  (`payload_store.py:80`). A file that is no JSON, also one that was damaged with no put involved, ends `show` and the
  whole `log` in an exception (97), where resolve's docstring promises that "a mismatch (local corruption/tampering) is
  returned" (88-90). `ReadFailsOnTornFile` lists damage among the causes for that reason.
- A 404 or an answer without a body reads as an empty ledger to a remote scan (`remote_ledger.py:69-73, 91`), where the
  docstring promises "no caller-visible difference" from the local store and to "fail loud, not silently" (4-6, 12-14);
  fetch and verify say there is no such record. `RemoteNeverInvents` excepts these answers for that reason.
- A pasted `null` replaces the fragment and leaves the older permalink on the page (`offline_shell.html:1345-1346`): the
  copy button, a download and an older load that is still under way then use the fragment of `null`. `LinksAgree` names
  the exception.
- Whoever drops the last record of a bundle can drop the unsigned certificate with it: Completeness is then skipped, not
  failed (1017-1021). `DropTold` names the exception.
- The scanner walks the tree with `rglob` where the workflow says `git ls-files` (`neutrality.yml`).
- `docs/key-management.md` calls rotation and `docs/concepts.md` blame not implemented; both are. The docstring
  of blame announces four ends and lists five.

## 4. Fairness

`cp_services`: weak fairness of each emit's steps once it has been started. Nothing in the process waits for
another process; `register_checkpoint` is called with a timeout and returns or raises. No fairness on starting a
command, on appends or on faults, and `AnchorNeverBlocks` speaks of emits that no later fault kills.
`handoff`: weak fairness of the steps of a started bundle command, a single process with no waits. Appends are
not fair; their number is bounded by the ids, without which the walk could still not be kept from ending, as
the frontier grows only by records not found before.

`commands`: weak fairness of the steps of each process that was started. They wait for no other process; a remote
call waits for an answer, and that wait has a timeout (`remote_ledger.py:66`), which is one of its steps. Appends,
faults, the server and the start of commands are not fair. `log` ends although others append because appends
are bounded by the ids; in the code the scan's own end does that.

## 5. Proofs

`CheckpointProofs` proves, for all values of the constants allowed by the assumptions of `Checkpoint`
(any number of processes, services, keys and records, any bounds):

| theorem | statement |
|---|---|
| `TypeCorrect` | `Spec => []TypeInv` |
| `TypeOKHolds` | `Spec => []TypeOK` |
| `WitnessesAreGenuine` | `Spec => []WitnessesGenuine` |
| `CheckpointRefines` | `Spec => Refines` |
| `StrictIsWitnessed` | `Spec => StrictMeansWitnessed` |
| `VerifyIsSound` | `Spec => []VerifySound` |
| `LagAlarmIsTrue` | `Spec => []NoFalseLagAlarm` |
| `FailuresAreForks` | `Spec => []FailureMeansFork` |
| `VerifyCriesTrue` | `Spec => []NoFalseAlarm`, for one emit process and `~EqualSizeAllowed` |

None of the safety properties is inductive. `WitnessesGenuine` speaks of saved files, which come from the record an
emit carries through its registrations, so its invariant says the same of every checkpoint in the hands of
an emit. The refinement needs that a published commitment is a prefix not only of the log but of its durable
part: `PrefixInv` says that, while nothing is at risk, everything appended is durable, and that all MMRs
held by processes and all checkpoints signed but not yet published are prefixes of the log. A crash then takes
away nothing, and an append keeps prefixes prefixes (`PrefixFacts`). The refinement maps `AppendRecord` of a
consequential record to `Extend`, a first `RegisterOk`, `RegisterFail` or `EmitSave` of a root to `Publish`,
steps that set `lossy` to `Waive`, and the rest to stuttering; that saving replaces a file but not its root
(`SaveKeepsRoots`) is what keeps a published commitment published.

`StrictMeansWitnessed` is a property of one step, but needs two facts about the states before it, `StrictInv`:
no two processes hold checkpoints with one stamp, and a process with `--require-ts` holds a witness of each
service it has gone through. `VerifySound` rests on what verify never checks itself, `OneFileASize`: as there is one
file for each size, every checkpoint but the newest is the predecessor of some checkpoint (`SuccessorExists`,
by the least size above it), and the link of that one bounds its size by the MMR. `NoFalseLagAlarm` needs
`ReadInv`: the MMR that status took is, while nothing is at risk, a prefix of the log at any later step, and the
checkpoint it loaded is still there or one of its size is; so, unless a larger one was saved, the log lags by at least
as much as it reports. `NoFalseAlarm` is the one property with hypotheses beyond the module's: with
two emits at once, or two checkpoints of one size, the files verify reads need not be each other's predecessors,
and then it does fail. Given both, `ChainInv` says that each saved checkpoint names the root of the one below it,
and that what an emit is about to save goes on top (`PutOnTop`); prefixes of one log agree (`CommitsTo`).
`FailureMeansFork` has no such hypotheses, for any number of emits: `ForkInv` says that every checkpoint names a
predecessor that is no larger, of the same log, and of a size that is still saved, or the empty log; if no two name the same and none names its own size,
each names the one below it (`NoForkNamesBelow`), and the rest of verify passes on prefixes of one log.

`GatesProofs` proves, for any tree, prefixes, secrets and number of pull requests and pushes:

| theorem | statement |
|---|---|
| `TypeCorrect` | `Spec => []TypeOK` |
| `BouncesFair` | `Spec => []NoFalseBounce` |
| `NothingGrows` | `Spec => BlockedNeverGrows` |
| `BranchStaysNeutral` | `Spec => []MainNeutral` |
| `FlagsFair` | `Spec => []NoFalseFlag` |

The invariant `GatesInv` ties a pull request's verdict to what it is a verdict of: where head and merge base
differ, the path was written in the pull request or removed, and while a verdict of the scope gate stands, the
offenders of that very head and base are as it says (`Sound`). A push and an update reset the verdict; an update
moves head and base together, so that a path nobody wrote still agrees (`UpdateKeepsInv`, from the three-way
merge). A merge then changes a path only where head and base differ, and there nothing was added or changed on
a blocked path. That the base branch has moved on since the check does not matter, and this is what the proof is for.

`ScanInv` ties the verdict of the vocabulary gate to the head it is of, and says of every head that passed with the
secret at hand what `MainNeutral` says of the base branch; a file-by-file merge of neutral trees is neutral
(`MergeIsNeutral`). What one line means rests on the scanner: it finds, from the left and without overlap, the first
alternative that matches. That there is such a walk over a line (`ScanExists`) and that every token it finds is a
reserved term where it stands (`TokensReserved`) are shown by the least-number principle over positions, as is that
a line with a reserved term has some token (`ReservedSeen`): whatever hides a term from the scanner is itself a
token, and it covers the place. Assumed is that terms are texts that are not empty, that words begin and end with a word's character, and
that an unset secret is none (`SecretsAssumption`), and that lines are texts (`LinesAssumption`).

`ViewerProofs` proves, for any bundles and any number of loads:

| theorem | statement |
|---|---|
| `TypeCorrect` | `Spec => []TypeOK` |
| `LinksFollow` | `Spec => LinksAgree` |
| `NewestIsShown` | `Spec => []OneBundleShown` |
| `VerdictsMatch` | `Spec => []VerdictsAgree` |

`ShapeInv` says that the fragment is always the last load's, and the permalink too unless that was `null`, from which
`LinksAgree` follows: a load that comes back after an await reads the fragment, not its own bundle. `PartsInv` says that each part of the page is
empty or what a load of a readable bundle shows there. Neither says that the parts belong together; `OrderInv`
does, while loads do not overlap: all but the newest have ended, the newest has filled in just the parts its
`pc` says, and before its first write, or after its rejection, the page is still `Whole`, as one earlier load left
it. `ShownAgrees` then compares what a load shows with itself: the table marks a record if and only if its capsule
id is among those of records that do not recompute, and Integrity fails on just those and the mismatched
disclosures. The assumptions are that a bundle's records are a sequence (`IncomingAssumption`) and that no content
of the page is `Nil` (`ShownAssumption`).

`HandoffProofs` proves, for any records, any number of appends and of changes on the way:

| theorem | statement |
|---|---|
| `TypeCorrect` | `Spec => []TypeOK` |
| `BundlesVerify` | `Spec => []BundleVerifies` |
| `ParentsAreIncluded` | `Spec => []ParentsIncluded` |
| `DropsTold` | `Spec => []DropTold` |
| `CitesAreExact` | `Spec => []CitesExact` |

The invariant `HandInv` follows the export from stage to stage. While it collects, every record found that is not in
the frontier is `Settled`: its parent is found too, if the log of the scan has it; an empty frontier then gives
`ParentsIncluded`. From the count on, all that was found lies within the tree of the certificate, so that the range
proof holds (`CertificateHolds`). `InOrder`, the order by sequence number, is a choice, and `RankBijection` shows that
there is one to choose. Once carried, the ids are those the bundle was made with but for the one left out
(`CarryInv`), from which the two ends and the gap are told; of the certificate the proof uses only whether it is the
bundle's own, none, or another. `CitesExact` compares the viewer's walk with the least
set closed under parents: that the recursive walk is defined is shown by the trails it may follow (`WalkExists`),
that it is sound and misses nothing by the least number of records not yet seen (`WalkSound`, `WalkComplete`).
Assumed is that no certificate and no bundle is `Nil` (`NilAssumption`), and no id (`IdAssumption`), and that a new record gets an id that is not in use
(`FreshAssumption`).

`CommandsProofs`, `ReadsProofs` and `AnswersProofs` prove, for any processes, payloads, records and workloads (with
any faults):

| theorem | statement |
|---|---|
| `TypeCorrect` | `Spec => []TypeOK` |
| `RotationsStay` | `Spec => []RotationRecorded` |
| `PayloadsStay` | `Spec => []StoredStays` |
| `RotationsVerify` | `Spec => []RotationVerifies` |
| `RotationsSeen` | `Spec => []RotationSeen` |
| `ShownIsCommitted` | `Spec => []ResolvedIsCommitted` |
| `ReadsFailOnTornFiles` | `Spec => ReadFailsOnTornFile` |
| `SequenceNotesTrue` | `Spec => []SequenceNoteTrue` |
| `BlamesTrue` | `Spec => []BlameTrue` |
| `RemoteAnswersTrue` | `Spec => []RemoteNeverInvents` |

`RotationRecorded` is about commands that have ended; `RotateInv` says the same already of a rotation that is
appended and not reported (`recorded`), and says it of the durable part of the log, which a power cut leaves alone.
It needs that ids are unique (`LogInv`), and for that `OwnInv`: the id of a process is in the log only as that of the
event it has appended, so that a process about to append finds no such record. `PutInv` says of each payload
reported as stored that its file is whole, or emptied by a put of that payload that still runs or was
killed (`PutCut`): a put that opens the file makes itself the witness, one that writes it needs none, and a kill
leaves a witness a witness. All other commands only read: `Quiet` says what such a step may do, and
`ReadsKeepsInv` that a step which ends in `Goto`, `Return` or `Raise` is one.

What the reading commands say was true at some moment since they opened the ledger, and `Since(p)` is the set of
those moments: the prefixes of the log from the length it had then (`OpenedInv`). Without a power cut the log only grows
(`Growth`), so a moment stays one. Each invariant says which moment: `KeyInv` of a verdict and of the keys called
revoked, `ListInv` of the gaps that log counts after its listing, `BlameInv` of the chain walked so far and of the gaps
looked up before the walk, `RemoteInv` of an answer on the wire, also one that comes after its caller gave up. The ends
of a blame are true of the log at its last step, because every hop is still there and a gap found closed is not
called one. `RecordInv` says where records come from: an agent, a remote caller, or a rotation as the process with that
id builds it; so a rotation is dated as its own capsule, and stands up to the fence it puts up. `TornInv` and
`ShownInv` are about files: a torn one is some put's or comes from a power cut, one that is whole and no JSON was
damaged, and what is shown is empty or matches its digest.

Assumed, each because the code or the hash guarantees it: what agents append is a plain capsule with an id of its own
and no rotation (`CapsulesAssumption`); equal ids are equal capsules (`HashAssumption`); arguments are what the
parsers let through (`RunsAssumption`); `Nil` and the marks of torn files name nothing else (`NamesAssumption`).

`MmrProofs` proves, for MMRs of any size:

| theorem | statement |
|---|---|
| `MmrTyped` | `Spec => []TypeOK` |
| `PositionsAlways` | `Spec => []PositionsMatch` |
| `InclusionAlways` | `Spec => []InclusionExact` |
| `ConsistencyAlways` | `Spec => []ConsistencyExact` |
| `InclusionOfAnyProof` | `Spec => []InclusionExactFor(T, D)`: the same for every proof of hashes in `T`, every index and every digest in `D` |
| `ConsistencyOfAnyProof` | `Spec => []ConsistencyExactFor(T, R)`: the same for every proof of hashes in `T`, every old size and every old root in `R` |

The model's functions are recursive LET functions, of which TLA+ says nothing unless some function meets the
recursion; `RecursionExists` shows that one does wherever a value depends only on smaller arguments. `PositionsMatch`
compares two ways to the same positions: the viewer works them out from a size, the machine gets them by merging. The
bridge is `RidgeOf`: the stack of peaks is a row of complete mountains, of heights that fall from the left except
that, while a merge is due, the last two are equal. Taking the largest mountain that fits, again and again, finds just
those heights, because what is left after a peak is at most twice the next mountain; when two peaks of one height end
the row, it gets stuck, and `peaks` throws (`PeaksAre`, `MountainsAre`). The height of a position is found by
subtracting whole mountains from it, which is what it is on the mountain it belongs to (`HeightOfPeak`,
`HeightBelowLow`). Nodes are two for each leaf less one for each peak, and peaks are the ones of the binary number of
leaves (`BitsAreMountains`, `LeafCountIs`).

What the verifiers accept rests on a second invariant, `ShapeInv`: every inner node joins the two mountains just before
it (`TreeInv`), no node is joined twice and those on the stack not yet (`ParentsInv`), and what the stack was with k
leaves is a row of mountains too, of falling heights, that ends where leaf k begins (`HistoryInv`). From it the path
that the viewer works out top down from positions is the one the merges made bottom up (`LeadsUp`), so the siblings as
built hash to the peak (`PeakReached`): the built proof is accepted. That no other is: a hash is a term, so peaks of
one number with one root are the same peaks (`RootInjective`), and two climbs of one path that reach the same hash
started from the same hash with the same witnesses (`ClimbInjective`). This is where the counts that `VerifyInclusion`
and `VerifyConsistency` compare first are needed, and a node hash that tells the sides apart. An old size that
`peaks` does not refuse and that is no larger than the log is one the log had: its mountains hold all its nodes
(`MountainsFill`), so it is the node count of some number of leaves, and more leaves have more nodes (`CountsRise`,
`SizesOnly`). The runs check `InclusionExact` and `ConsistencyExact` with proofs that differ from the built ones in one
place; the theorems about any proof put no bound on what is shown.

Assumed: two inputs of sha256 that differ have hashes that differ, as stated in the header of `Mmr`. The hash in a leaf
is of the record's body digest; that the digest is the body's is checked in another stage.

Only model-checked: liveness (`AnchorNeverBlocks`, `BundleEnds`, `CommandsEnd`), which is out of this prover's reach.
Every safety invariant and action property that a passing run checks is a theorem.

## 6. Plan

Done: checkpointing, the MMR, the bundle and its viewing, the commands on one ledger, the gates. Left:

1. Viewer: envelope-wrapped records and the self-report's own meaning in Cross-check; overlapping loads;
   `capsule verify --bundle` beside the viewer's Integrity stage.
2. A rename followed by a merge in `Gates`, and the title gate.

## 7. Not modelled

The packaging of the viewer (text substitution and build-time checks), argument parsing and help, the wording of
`format.py`, registry tables and the vectors runner are sequential text work without a state.
`examples/two_agents.py` imports `capsule_ledger.folds` and `capsule_ledger.guards`, which this repository no
longer has, and does not run at this commit. The store itself is external and appears only as
appends, scans and fetches that see each other's effects, with capsule ids unique; a prefix of an id that is
ambiguous is left out. `verify_capsule` appears as whether a record is intact; its other findings are left out.
Signatures are not checked by any code here: a record's key id is what it says. In the viewer, ids are taken to
be well formed and WebCrypto to be there; `describeBundle`, bilateral records and the fragment's encoding are
left out. Files that the scanner cannot read it passes over; that is left out as well.
