----------------------------- MODULE Checkpoint -----------------------------
(***************************************************************************)
(* `capsule checkpoint emit | status | verify | init` over one ledger      *)
(* directory (capsule_ledger/cli/checkpoint_cmd.py).                       *)
(*                                                                         *)
(* Nothing locks the directory: agents append to the log while any number  *)
(* of emit processes, and a status or verify process, run against it.  An  *)
(* emit process opens the ledger and takes its MMR, reads the newest saved *)
(* checkpoint, signs, talks to each Transparency Service, and saves; every *)
(* one of these is a step of its own here, with the others in between.     *)
(*                                                                         *)
(* The root of an MMR is modelled by the prefix of the log it commits to,  *)
(* and sizes are MMR node counts, as in the code.                          *)
(***************************************************************************)
EXTENDS Integers, Sequences, SequencesExt

CONSTANTS
    Capsules,           \* records that can be appended
    Emitters,           \* concurrent `checkpoint emit` processes
    Services,           \* Transparency Services
    Keys,               \* signing keys an operator can supply
    EnvValues,          \* what the signing-key variable may hold
    LegacyName,         \* the text "ASG_MCP_SIGNING_KEY_ID", used as a key
    DefaultService,     \* DEFAULT_TS_URL
    TargetLists,        \* the --ts-url lists and configured ts_urls tried
    NodeCount(_),       \* nodes of an MMR with this many leaves
    EqualSizeAllowed,   \* may a checkpoint repeat its predecessor's size?
    MaxLagEntries,      \* max_lag_entries of the configuration
    Commands,           \* subset of {"status", "verify"}
    FaultKinds,         \* subset of {"kill", "crash", "restore"}
    Nil,                \* no value: an unset variable, no signer, no config
    MaxLog,             \* bound: records in the log
    MaxEmits,           \* bound: checkpoints signed
    MaxFaults           \* bound: faults

ASSUME ServiceAssumption ==
    /\ DefaultService \in Services
    /\ TargetLists \subseteq Seq(Services)

ASSUME KeyAssumption ==
    /\ Nil \notin Keys
    /\ LegacyName \notin Keys \cup {Nil}
    /\ "" \notin Keys \cup {LegacyName, Nil}
    /\ EnvValues \subseteq Keys \cup {"", Nil}

ASSUME BoundAssumption ==
    /\ MaxLog \in Nat
    /\ MaxEmits \in Nat
    /\ MaxFaults \in Nat
    /\ MaxLagEntries \in Nat
    /\ EqualSizeAllowed \in BOOLEAN
    /\ Commands \subseteq {"status", "verify"}
    /\ FaultKinds \subseteq {"kill", "crash", "restore"}

(* An MMR grows by at least one node a leaf.                               *)
ASSUME NodeCountAssumption ==
    /\ NodeCount(0) = 0
    /\ \A n \in 0..MaxLog : NodeCount(n) \in Nat
    /\ \A m, n \in 0..MaxLog : m < n => NodeCount(m) < NodeCount(n)

VARIABLES
    log,                \* records of the store, in sequence order
    durable,            \* how many of them are known to be on disk
    lossy,              \* history: was a record ever put at risk?
    config,             \* ts_urls of checkpoints/config.json, or Nil
    saved,              \* checkpoints/<mmr_size>.json, one per size
    registered,         \* witnesses issued by the services
    stamp,              \* the clock behind CheckpointRecord.timestamp
    faults,             \* faults so far
    em,                 \* state of each emit process
    rd                  \* state of the process running status or verify

vars == <<log, durable, lossy, config, saved, registered, stamp, faults,
          em, rd>>

-----------------------------------------------------------------------------
(* Records                                                                 *)

Sizes == {NodeCount(n) : n \in 0..MaxLog}

Size(mmr) == NodeCount(Len(mmr))

LeafCount(size) == CHOOSE n \in 0..MaxLog : NodeCount(n) = size

RootAt(mmr, size) == SubSeq(mmr, 1, LeafCount(size))

Signers == Keys \cup {LegacyName}

Logs == {s \in Seq(Capsules) : Len(s) <= MaxLog}

Bodies == [size : Sizes, root : Logs, prevSize : Sizes, prevRoot : Logs,
           key : Signers, stamp : 1..MaxEmits]

Witnesses == [ts : Services, digest : Bodies]

CheckpointRecord ==
    [body : Bodies, witnesses : SUBSET Witnesses]

(* What the signature covers and the services witness: not the witnesses.  *)
Digest(cp) == cp.body

(* load_latest_checkpoint, over a set of checkpoints that is not empty.    *)
Latest(cps) == CHOOSE c \in cps : \A d \in cps : d.body.size <= c.body.size

(* save_checkpoint: the file is named after the size, and replaced.        *)
Put(cps, cp) == {c \in cps : c.body.size # cp.body.size} \cup {cp}

Idle == [pc |-> "idle"]

Init ==
    /\ log = <<>>
    /\ durable = 0
    /\ lossy = FALSE
    /\ config = Nil
    /\ saved = {}
    /\ registered = {}
    /\ stamp = 0
    /\ faults = 0
    /\ em = [p \in Emitters |-> Idle]
    /\ rd = Idle

-----------------------------------------------------------------------------
(* The ledger and the faults it meets                                      *)

(* LedgerStore.append: a consequential record is fsynced, and with it all  *)
(* that was written before it; another may still be lost to a power cut.   *)
Flushed(consequential) == IF consequential THEN Len(log) + 1 ELSE durable

AppendRecord ==
    /\ Len(log) < MaxLog
    /\ \E c \in Capsules, consequential \in BOOLEAN :
         /\ log' = Append(log, c)
         /\ durable' = Flushed(consequential)
         /\ lossy' = (lossy \/ ~consequential)
    /\ UNCHANGED <<config, saved, registered, stamp, faults, em, rd>>

(* The faults are the environment's; the code has no step for them.        *)
Fault(kind) ==
    /\ kind \in FaultKinds
    /\ faults < MaxFaults
    /\ faults' = faults + 1

(* An emit process dies between two of its steps.                          *)
Kill(p) ==
    /\ Fault("kill")
    /\ em[p].pc # "idle"
    /\ em' = [em EXCEPT ![p] = Idle]
    /\ UNCHANGED <<log, durable, lossy, config, saved, registered, stamp, rd>>

(* Power loss: every process dies, a tail that was not fsynced may go.     *)
Crash ==
    /\ Fault("crash")
    /\ \E n \in durable..Len(log) : log' = SubSeq(log, 1, n) /\ durable' = n
    /\ em' = [p \in Emitters |-> Idle]
    /\ rd' = Idle
    /\ UNCHANGED <<lossy, config, saved, registered, stamp>>

(* The segments are put back from an older copy, the checkpoints are not.  *)
Restore ==
    /\ Fault("restore")
    /\ \E n \in 0..Len(log) :
         /\ n < Len(log)
         /\ log' = SubSeq(log, 1, n)
         /\ durable' = n
    /\ lossy' = TRUE
    /\ UNCHANGED <<config, saved, registered, stamp, em, rd>>

(* Defect variant of InitConfig: checkpoints/ is made anew.                *)
InitConfigAnew ==
    /\ \E urls \in TargetLists :
         config' = IF urls = <<>> THEN <<DefaultService>> ELSE urls
    /\ saved' = {}
    /\ UNCHANGED <<log, durable, lossy, registered, stamp, faults, em, rd>>

(* checkpoint init                                                         *)
InitConfig ==
    /\ \E urls \in TargetLists :
         config' = IF urls = <<>> THEN <<DefaultService>> ELSE urls
    /\ UNCHANGED <<log, durable, lossy, saved, registered, stamp, faults,
                   em, rd>>

-----------------------------------------------------------------------------
(* checkpoint emit                                                         *)

(* The flag, else the environment; when the variable is not set at all,    *)
(* env_get returns its second argument: the other variable's name.  What   *)
(* is left as "no key" is a variable set to the empty text ("").           *)
ResolveKey(arg, env) ==
    IF arg # "" THEN arg ELSE IF env = Nil THEN LegacyName ELSE env

BuildSigner(arg, env) ==
    LET key == ResolveKey(arg, env) IN IF key = "" THEN Nil ELSE key

(* _build_signer and _open_mmr_ledger: the MMR of the log as it is now.    *)
EmitOpen(p) ==
    /\ em[p].pc = "idle"
    /\ stamp < MaxEmits
    /\ \E arg \in Keys \cup {""}, env \in EnvValues :
         LET signer == BuildSigner(arg, env) IN
           /\ signer # Nil
           /\ em' = [em EXCEPT ![p] = [pc |-> "opened", mmr |-> log,
                                       signer |-> signer]]
    /\ UNCHANGED <<log, durable, lossy, config, saved, registered, stamp,
                   faults, rd>>

(* emit_checkpoint refuses an empty MMR, and one shorter than prev.        *)
Emittable(mmr, cps) ==
    /\ mmr # <<>>
    /\ cps # {} => \/ Latest(cps).body.size < Size(mmr)
                   \/ EqualSizeAllowed /\ Latest(cps).body.size = Size(mmr)

BuildBody(mmr, signer, cps) ==
    LET first == cps = {} IN
    [size     |-> Size(mmr),
     root     |-> RootAt(mmr, Size(mmr)),
     prevSize |-> IF first THEN 0 ELSE Latest(cps).body.size,
     prevRoot |-> IF first THEN <<>> ELSE Latest(cps).body.root,
     key      |-> signer,
     stamp    |-> stamp + 1]

NewRecord(body) == [body |-> body, witnesses |-> {}]

(* load_latest_checkpoint and emit_checkpoint.                             *)
EmitSign(p) ==
    /\ em[p].pc = "opened"
    /\ stamp < MaxEmits
    /\ Emittable(em[p].mmr, saved)
    /\ em' = [em EXCEPT ![p] =
                [pc |-> "signed",
                 cp |-> NewRecord(BuildBody(em[p].mmr, em[p].signer, saved))]]
    /\ stamp' = stamp + 1
    /\ UNCHANGED <<log, durable, lossy, config, saved, registered, faults, rd>>

(* RollbackError or CheckpointError: exit 1, nothing saved.                *)
EmitRefuse(p) ==
    /\ em[p].pc = "opened"
    /\ ~Emittable(em[p].mmr, saved)
    /\ em' = [em EXCEPT ![p] = Idle]
    /\ UNCHANGED <<log, durable, lossy, config, saved, registered, stamp,
                   faults, rd>>

(* Defect variant of ChooseTargets: load_config's None is not handled.     *)
ChooseTargetsConfigured(urls, noRegister, cfg) ==
    IF noRegister THEN <<>> ELSE IF urls # <<>> THEN urls ELSE cfg

(* --ts-url, else the configuration, else the default; --no-register wins. *)
ChooseTargets(urls, noRegister, cfg) ==
    IF noRegister THEN <<>>
    ELSE IF urls # <<>> THEN urls
    ELSE IF cfg # Nil THEN cfg
    ELSE <<DefaultService>>

EmitTarget(p) ==
    /\ em[p].pc = "signed"
    /\ \E urls \in TargetLists, noRegister, requireTs \in BOOLEAN :
         em' = [em EXCEPT ![p] =
                  [pc |-> "register", cp |-> em[p].cp, next |-> 1,
                   targets |-> ChooseTargets(urls, noRegister, config),
                   requireTs |-> requireTs]]
    /\ UNCHANGED <<log, durable, lossy, config, saved, registered, stamp,
                   faults, rd>>

Registering(p) == em[p].pc = "register" /\ em[p].next <= Len(em[p].targets)

WitnessOf(p) == [ts |-> em[p].targets[em[p].next], digest |-> Digest(em[p].cp)]

AddWitness(cp, w) == [body |-> cp.body, witnesses |-> cp.witnesses \cup {w}]

AfterSuccess(p) ==
    [em[p] EXCEPT !.cp = AddWitness(em[p].cp, WitnessOf(p)), !.next = @ + 1]

(* register_checkpoint returns a witness.                                  *)
RegisterOk(p) ==
    /\ Registering(p)
    /\ registered' = registered \cup {WitnessOf(p)}
    /\ em' = [em EXCEPT ![p] = AfterSuccess(p)]
    /\ UNCHANGED <<log, durable, lossy, config, saved, stamp, faults, rd>>

(* Defect variants of AfterFailure: a witness that never was, --require-ts *)
(* ignored, or always on.                                                  *)
AfterFailureWitnessed(p) == IF em[p].requireTs THEN Idle ELSE AfterSuccess(p)

AfterFailureGoOn(p) == [em[p] EXCEPT !.next = @ + 1]

AfterFailureStop(p) == Idle

AfterFailure(p) ==
    IF em[p].requireTs THEN Idle ELSE [em[p] EXCEPT !.next = @ + 1]

(* It raises: refused, unreachable, or timed out after the service had     *)
(* recorded the statement.                                                 *)
RegisterFail(p) ==
    /\ Registering(p)
    /\ registered' \in {registered, registered \cup {WitnessOf(p)}}
    /\ em' = [em EXCEPT ![p] = AfterFailure(p)]
    /\ UNCHANGED <<log, durable, lossy, config, saved, stamp, faults, rd>>

EmitSave(p) ==
    /\ em[p].pc = "register"
    /\ em[p].next > Len(em[p].targets)
    /\ saved' = Put(saved, em[p].cp)
    /\ em' = [em EXCEPT ![p] = Idle]
    /\ UNCHANGED <<log, durable, lossy, config, registered, stamp, faults, rd>>

Emit(p) ==
    \/ EmitOpen(p) \/ EmitSign(p) \/ EmitRefuse(p) \/ EmitTarget(p)
    \/ RegisterOk(p) \/ RegisterFail(p) \/ EmitSave(p)

-----------------------------------------------------------------------------
(* checkpoint status and checkpoint verify                                 *)

(* Both take the MMR first and only then look at the saved checkpoints.    *)
ReadOpen(command) ==
    /\ rd.pc \in {"idle", "reported"}
    /\ rd' = [pc |-> command, mmr |-> log]
    /\ UNCHANGED <<log, durable, lossy, config, saved, registered, stamp,
                   faults, em>>

(* Defect variant of Lag: nodes are counted for records.                   *)
LagInNodes(mmr, cp) == Size(mmr) - cp.body.size

Lag(mmr, cp) == Len(mmr) - LeafCount(cp.body.size)

(* load_latest_checkpoint; without one there is nothing to warn of.        *)
StatusLoad ==
    /\ rd.pc = "status"
    /\ rd' = IF saved = {} THEN [pc |-> "reported", result |-> "ok"]
             ELSE [pc |-> "loaded", mmr |-> rd.mmr, cp |-> Latest(saved)]
    /\ UNCHANGED <<log, durable, lossy, config, saved, registered, stamp,
                   faults, em>>

(* The warning needs a configuration: it holds max_lag_entries.            *)
StatusWarns(mmr, cp) == config # Nil /\ Lag(mmr, cp) > MaxLagEntries

StatusReport ==
    /\ rd.pc = "loaded"
    /\ rd' = [pc |-> "reported",
              result |-> IF StatusWarns(rd.mmr, rd.cp) THEN "warn" ELSE "ok"]
    /\ UNCHANGED <<log, durable, lossy, config, saved, registered, stamp,
                   faults, em>>

(* verify_checkpoint_consistency(prev, cp, mmr).                           *)
Consistent(prev, cp, mmr) ==
    /\ cp.body.prevRoot = prev.body.root
    /\ prev.body.size <= Size(mmr)
    /\ RootAt(mmr, prev.body.size) = prev.body.root

(* Defect variant of IncludedOrSkipped: off by one.                        *)
IncludedOrSkippedBelow(cp, mmr) ==
    cp.body.size < Size(mmr) => RootAt(mmr, cp.body.size) = cp.body.root

(* The inclusion proof of the last witnessed record leads to cp.root; the  *)
(* check is skipped when the MMR is shorter than the checkpoint.           *)
IncludedOrSkipped(cp, mmr) ==
    cp.body.size <= Size(mmr) => RootAt(mmr, cp.body.size) = cp.body.root

(* verify_receipt_offline sees the witness and the key of its service, not *)
(* the checkpoint; the key must be cached or the service reachable.        *)
ReceiptOk(w, reachable) == w \in registered /\ w.ts \in reachable

(* Defect variant of Below: the loop moves on to cp before it checks it.   *)
BelowOrSelf(cp, cps) == {c \in cps : c.body.size <= cp.body.size}

(* The checkpoint before cp in list_checkpoints' order, if there is one.   *)
Below(cp, cps) == {c \in cps : c.body.size < cp.body.size}

VerifyOne(cp, cps, mmr, signer, reachable) ==
    /\ cp.body.key = signer
    /\ Below(cp, cps) # {} => Consistent(Latest(Below(cp, cps)), cp, mmr)
    /\ IncludedOrSkipped(cp, mmr)
    /\ \A w \in cp.witnesses : ReceiptOk(w, reachable)

VerifyAll(cps, mmr, signer, reachable) ==
    \A cp \in cps : VerifyOne(cp, cps, mmr, signer, reachable)

VerifyReport ==
    /\ rd.pc = "verify"
    /\ \E signer \in Signers, reachable \in SUBSET Services :
         rd' = [pc |-> "reported",
                result |-> IF saved = {} THEN "nothing"
                           ELSE IF VerifyAll(saved, rd.mmr, signer, reachable)
                           THEN "clean" ELSE "failed"]
    /\ UNCHANGED <<log, durable, lossy, config, saved, registered, stamp,
                   faults, em>>

Next ==
    \/ AppendRecord
    \/ \E p \in Emitters : Kill(p)
    \/ Crash
    \/ Restore
    \/ InitConfig
    \/ \E p \in Emitters : Emit(p)
    \/ \E command \in Commands : ReadOpen(command)
    \/ StatusLoad
    \/ StatusReport
    \/ VerifyReport

Spec == Init /\ [][Next]_vars

(* A process that runs goes on to its end: register_checkpoint returns or  *)
(* raises within its timeout.  Nothing makes anyone start a command.       *)
EmitStep(p) ==
    \/ EmitSign(p) \/ EmitRefuse(p) \/ EmitTarget(p)
    \/ RegisterOk(p) \/ RegisterFail(p) \/ EmitSave(p)

FairSpec == Spec /\ \A p \in Emitters : WF_vars(EmitStep(p))

-----------------------------------------------------------------------------
(* Properties                                                              *)

OpenedStates == [pc : {"opened"}, mmr : Logs, signer : Signers]

SignedStates == [pc : {"signed"}, cp : CheckpointRecord]

RegisterStates ==
    [pc : {"register"}, cp : CheckpointRecord, next : Nat \ {0},
     targets : Seq(Services), requireTs : BOOLEAN]

EmitStates == {Idle} \cup OpenedStates \cup SignedStates \cup RegisterStates

ReadStates ==
    {Idle}
    \cup [pc : {"status", "verify"}, mmr : Logs]
    \cup [pc : {"loaded"}, mmr : Logs, cp : CheckpointRecord]
    \cup [pc : {"reported"},
          result : {"ok", "warn", "nothing", "clean", "failed"}]

(* Every variable has its type; a config holds a list of services, never   *)
(* the absence of one.                                                     *)
TypeOK ==
    /\ log \in Logs
    /\ durable \in 0..Len(log)
    /\ lossy \in BOOLEAN
    /\ config \in Seq(Services) \cup {Nil}
    /\ saved \subseteq CheckpointRecord
    /\ registered \subseteq Witnesses
    /\ stamp \in 0..MaxEmits
    /\ faults \in 0..MaxFaults
    /\ em \in [Emitters -> EmitStates]
    /\ rd \in ReadStates

(* What a saved checkpoint shows as a witness is a receipt that service    *)
(* issued for that very checkpoint: not for its predecessor, nor for one   *)
(* that a concurrent emit saved under the same size                        *)
(* (checkpoint_cmd.py:107-108; verify itself looks only at the receipt).   *)
WitnessesGenuine ==
    \A cp \in saved : \A w \in cp.witnesses :
        w.digest = Digest(cp) /\ w \in registered

(* --require-ts: a checkpoint such an emit saves is witnessed by every     *)
(* service on its list (checkpoint_cmd.py:110-113).                        *)
StrictMeansWitnessed ==
    [][\A p \in Emitters, cp \in saved' \ saved :
         /\ em[p].pc = "register"
         /\ em[p].requireTs
         /\ cp.body.stamp = em[p].cp.body.stamp
         => \A i \in 1..Len(em[p].targets) :
              \E w \in cp.witnesses : w.ts = em[p].targets[i]]_vars

(* The commitments that left a process: saved or given to a service.       *)
Published ==
    {cp.body.root : cp \in saved} \cup {w.digest.root : w \in registered}

(* The ledger with its checkpoints implements AppendOnlyLog.               *)
Abstract == INSTANCE AppendOnlyLog WITH published <- Published, waived <- lossy

Refines == Abstract!ASpec

(* When verify reports clean, each checkpoint commits to the records the   *)
(* log has in its place, whatever was lost and appended anew in between;   *)
(* only the newest may reach beyond the log (checkpoint_cmd.py:224-250).   *)
VerifySound ==
    rd.pc = "verify" =>
        \A signer \in Signers :
            VerifyAll(saved, rd.mmr, signer, Services) =>
                \A cp \in saved :
                    IF cp.body.size <= Size(rd.mmr)
                    THEN cp.body.root = RootAt(rd.mmr, cp.body.size)
                    ELSE cp = Latest(saved)

(* status takes its MMR, loads the newest checkpoint and prints: three     *)
(* steps, with appends and emits in between.  When it warns, more records  *)
(* than allowed are not witnessed, unless an emit has saved a larger       *)
(* checkpoint since the load: only that can make the printed lag false     *)
(* (checkpoint_cmd.py:141-146, 158-159, 169-171).                          *)
NoFalseLagAlarm ==
    (~lossy /\ rd.pc = "loaded" /\ StatusWarns(rd.mmr, rd.cp)) =>
        \/ Len(log) - LeafCount(Latest(saved).body.size) > MaxLagEntries
        \/ \E cp \in saved : cp.body.size > rd.cp.body.size

(* verify has every service at hand and the key of every checkpoint.       *)
VerifyFails(mmr) ==
    \E signer \in Signers :
        /\ \A cp \in saved : cp.body.key = signer
        /\ ~VerifyAll(saved, mmr, signer, Services)

(* Two emits at once may read one newest checkpoint (checkpoint_cmd.py:85) *)
(* and save at two sizes, and a checkpoint may repeat the size of the one  *)
(* before it: then the files are not each other's predecessors, and verify *)
(* cries rollback though nothing was lost.  Nothing else makes it do so:   *)
(* with no record ever at risk it fails on the log as it stands only if    *)
(* two checkpoints name one predecessor, or one its own size.              *)
FailureMeansFork ==
    (~lossy /\ VerifyFails(log)) =>
        \/ \E c, d \in saved : c # d /\ c.body.prevSize = d.body.prevSize
        \/ \E c \in saved : c.body.prevSize = c.body.size

(* With one emit at a time and no record ever at risk, verify does not cry *)
(* rollback, unless two checkpoints or more were saved since it took its   *)
(* MMR (checkpoint_cmd.py:196-204).                                        *)
NoFalseAlarm ==
    (~lossy /\ rd.pc = "verify"
     /\ \A cp \in saved : cp = Latest(saved) \/ cp.body.size <= Size(rd.mmr))
        => ~VerifyFails(rd.mmr)

(* A failing service never blocks a checkpoint: once an emit without       *)
(* --require-ts is to register, and no further fault kills it, its         *)
(* checkpoint is saved in the end, with whatever witnesses it got          *)
(* (docs/failure-semantics.md:14).                                         *)
AnchorNeverBlocks ==
    \A p \in Emitters, s \in 1..MaxEmits :
        (/\ faults = MaxFaults
         /\ em[p].pc = "register"
         /\ ~em[p].requireTs
         /\ em[p].cp.body.stamp = s)
            ~> (\E cp \in saved : cp.body.stamp = s)

-----------------------------------------------------------------------------
(* Claims the code does not keep                                           *)

(* checkpoint_cmd.py:8-9 calls verify end-to-end with rollback detection:  *)
(* run on the log as it stands, it then does not report clean when records *)
(* a checkpoint commits to are gone.                                       *)
CleanMeansNotRolledBack ==
    (rd.pc = "verify" /\ rd.mmr = log) =>
        \A signer \in Signers :
            VerifyAll(saved, rd.mmr, signer, Services) =>
                \A cp \in saved : cp.body.size <= Size(rd.mmr)

(* docs/failure-semantics.md:15, "Signing key unavailable: fail closed":   *)
(* a checkpoint is signed with a key the operator supplied, or not at all. *)
SignedByOperator == \A cp \in saved : cp.body.key \in Keys

=============================================================================
