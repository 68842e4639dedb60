--------------------------- MODULE CommandsProofs ---------------------------
(***************************************************************************)
(* What holds of the commands on one ledger, for any workloads, processes  *)
(* and payloads: TypeOK, and that what a command reported as done stays    *)
(* done (RotationRecorded, StoredStays), as theorems of Spec.              *)
(***************************************************************************)
EXTENDS Commands, SequenceTheorems, FiniteSetTheorems, TLAPS

Verb(p) == cmd[p].run.verb

(* The commands of the processes: one that is past its arguments has none  *)
(* that it refuses, and only some are ever at a given place.               *)
CmdInv ==
    /\ workload \in DOMAIN Workloads
    /\ DOMAIN cmd = Procs
    /\ \A p \in Procs :
         /\ cmd[p].pc \in Pcs
         /\ "pc" \in DOMAIN cmd[p]
         /\ cmd[p].pc # "idle" =>
              /\ "run" \in DOMAIN cmd[p]
              /\ cmd[p].run \in Work.runs[p]
         /\ cmd[p].pc \notin {"idle", "done"} /\ Verb(p) = "payload put"
              => cmd[p].run.payload \in Digests
         /\ cmd[p].pc = "recorded" => Verb(p) = "key rotate"
         /\ cmd[p].pc = "writing" => Verb(p) = "payload put"
         /\ cmd[p].pc = "sent" => Verb(p) \in RemoteVerbs

WireInv ==
    /\ DOMAIN wire = Procs
    /\ \A p \in Procs : wire[p] # Nil => cmd[p].pc # "idle" /\ Verb(p) \in RemoteVerbs

(* No two records have one id, and the id of a process is that of the      *)
(* event it has appended.                                                  *)
LogInv ==
    /\ \E S : log \in Seq(S)
    /\ durable \in 0..Len(log)
    /\ \A i, j \in DOMAIN log : log[i].id = log[j].id => i = j

OwnInv ==
    \A i \in DOMAIN log : \A p \in Procs : log[i].id = p =>
        /\ cmd[p].pc \in {"recorded", "done", "killed"}
        /\ Verb(p) = "key rotate"

(* A rotation that was appended, whether it has been reported or not.      *)
Rotated(p) ==
    \/ cmd[p].pc = "recorded"
    \/ Finished(p, "key rotate") /\ cmd[p].exit = 0

DetailOf(p) ==
    LET run == cmd[p].run
        detail == cmd[p].detail
    IN  /\ detail.old = run.old
        /\ detail.new = run.new
        /\ detail.newFingerprint = KeyFingerprint(run.new, NewSecret(p, run))
        /\ cmd[p].pc = "done" /\ run.newSecret = Nil => cmd[p].secret = p

OnDisk(p) == \E i \in 1..durable : log[i].id = p /\ log[i].event = cmd[p].detail

(* It is on disk, as it was reported.                                      *)
RotateInv ==
    \A p \in Procs : Rotated(p) => DetailOf(p) /\ (OnDirectory => OnDisk(p))

Stored(p) == Finished(p, "payload put") /\ cmd[p].exit = 0

Kept(p) ==
    LET d == cmd[p].stored IN
    /\ d \in Digests
    /\ \/ files[d] = d
       \/ files[d] = "rewritten" /\ PutCut(d)
       \/ faults \cap {"crash", "damage"} # {}

PutInv ==
    /\ files \in [Digests -> {Nil, "no JSON"} \cup Torn \cup Digests]
    /\ faults \subseteq Work.faults
    /\ \A p \in Procs : Stored(p) => Kept(p)

CommandsInv == CmdInv /\ WireInv /\ LogInv /\ OwnInv /\ RotateInv /\ PutInv

-----------------------------------------------------------------------------
(* Steps of a command                                                      *)

(* The new fields replace the old ones, and the others stay.               *)
LEMMA Overrides ==
    ASSUME NEW f, NEW g
    PROVE  /\ DOMAIN (f ++ g) = (DOMAIN f) \cup (DOMAIN g)
           /\ \A x \in DOMAIN f : (f ++ g)[x] = f[x]
           /\ \A x \in (DOMAIN g) \ (DOMAIN f) : (f ++ g)[x] = g[x]
BY DEF ++

(* Where a command is after a step, and that it is the same command.       *)
Turn(p, pcs) ==
    /\ DOMAIN cmd' = Procs
    /\ \A q \in Procs \ {p} : cmd'[q] = cmd[q]
    /\ {"run", "pc"} \subseteq DOMAIN cmd'[p]
    /\ cmd'[p].run = cmd[p].run
    /\ cmd'[p].pc \in pcs

LEMMA GotoTurns ==
    ASSUME CmdInv, NEW p \in Procs, cmd[p].pc # "idle", NEW changes, Goto(p, changes),
           "run" \notin DOMAIN changes, "pc" \in DOMAIN changes
    PROVE  /\ Turn(p, {changes.pc})
           /\ \A x \in DOMAIN changes : cmd'[p][x] = changes[x]
<1>1. cmd' = [cmd EXCEPT ![p] = changes ++ cmd[p]] /\ DOMAIN cmd = Procs
      /\ {"run", "pc"} \subseteq DOMAIN cmd[p]
  BY DEF Goto, CmdInv
<1> DEFINE new == changes ++ cmd[p]
<1>2. cmd'[p] = new /\ DOMAIN cmd' = Procs /\ \A q \in Procs \ {p} : cmd'[q] = cmd[q]
  BY <1>1
<1>3. /\ DOMAIN new = DOMAIN changes \cup DOMAIN cmd[p]
      /\ \A x \in DOMAIN changes : new[x] = changes[x]
      /\ \A x \in DOMAIN cmd[p] \ DOMAIN changes : new[x] = cmd[p][x]
  BY Overrides
<1> HIDE DEF new
<1>4. new.run = cmd[p].run /\ {"run", "pc"} \subseteq DOMAIN new
  BY <1>1, <1>3
<1> QED BY <1>2, <1>3, <1>4 DEF Turn

LEMMA GotoStays ==
    ASSUME CmdInv, NEW p \in Procs, cmd[p].pc # "idle", NEW changes, Goto(p, changes),
           {"run", "pc"} \cap DOMAIN changes = {}
    PROVE  Turn(p, {cmd[p].pc})
<1>1. cmd' = [cmd EXCEPT ![p] = changes ++ cmd[p]] /\ DOMAIN cmd = Procs
      /\ {"run", "pc"} \subseteq DOMAIN cmd[p]
  BY DEF Goto, CmdInv
<1> DEFINE new == changes ++ cmd[p]
<1>2. cmd'[p] = new /\ DOMAIN cmd' = Procs /\ \A q \in Procs \ {p} : cmd'[q] = cmd[q]
  BY <1>1
<1>3. /\ DOMAIN new = DOMAIN changes \cup DOMAIN cmd[p]
      /\ \A x \in DOMAIN changes : new[x] = changes[x]
      /\ \A x \in DOMAIN cmd[p] \ DOMAIN changes : new[x] = cmd[p][x]
  BY Overrides
<1> HIDE DEF new
<1>4. new.run = cmd[p].run /\ new.pc = cmd[p].pc /\ {"run", "pc"} \subseteq DOMAIN new
  BY <1>1, <1>3
<1> QED BY <1>2, <1>3, <1>4 DEF Turn

LEMMA ReturnTurns ==
    ASSUME CmdInv, NEW p \in Procs, NEW exit, NEW printed, Return(p, exit, printed)
    PROVE  /\ Turn(p, {"done"})
           /\ cmd'[p].exit = exit
           /\ \A x \in (DOMAIN printed) \ {"run", "pc", "exit", "opened"} :
                cmd'[p][x] = printed[x]
<1> DEFINE r == [run |-> cmd[p].run, pc |-> "done", exit |-> exit, opened |-> cmd[p].opened]
<1>1. cmd' = [cmd EXCEPT ![p] = r ++ printed] /\ DOMAIN cmd = Procs
  BY DEF Return, CmdInv
<1>2. cmd'[p] = r ++ printed /\ DOMAIN cmd' = Procs
      /\ \A q \in Procs \ {p} : cmd'[q] = cmd[q]
  BY <1>1
<1>3. DOMAIN r = {"run", "pc", "exit", "opened"} /\ r.run = cmd[p].run
      /\ r.pc = "done" /\ r.exit = exit
  OBVIOUS
<1> HIDE DEF r
<1> DEFINE new == r ++ printed
<1>4. /\ DOMAIN new = DOMAIN r \cup DOMAIN printed
      /\ \A x \in DOMAIN r : new[x] = r[x]
      /\ \A x \in DOMAIN printed \ DOMAIN r : new[x] = printed[x]
  BY Overrides
<1> HIDE DEF new
<1>5. cmd'[p] = new
  BY <1>2 DEF new
<1> QED BY <1>2, <1>3, <1>4, <1>5 DEF Turn

LEMMA RaiseTurns ==
    ASSUME CmdInv, NEW p \in Procs, Raise(p)
    PROVE  Turn(p, {"raised"})
BY DEF Raise, CmdInv, Turn

-----------------------------------------------------------------------------
(* Steps that neither rotate nor put                                       *)

LEMMA TurnKeepsCmd ==
    ASSUME CmdInv, UNCHANGED workload, NEW p \in Procs, cmd[p].pc \notin {"idle", "done"},
           NEW pcs \in SUBSET (Pcs \ {"idle"}), Turn(p, pcs),
           "recorded" \in pcs => Verb(p) = "key rotate",
           "writing" \in pcs => Verb(p) = "payload put",
           cmd'[p].pc = "sent" => Verb(p) \in RemoteVerbs
    PROVE  CmdInv'
<1>1. Work' = Work /\ cmd'[p].pc \in Pcs \ {"idle"} /\ cmd'[p].run = cmd[p].run
      /\ {"run", "pc"} \subseteq DOMAIN cmd'[p]
  BY DEF Turn, Work
<1>2. \A q \in Procs \ {p} : cmd'[q] = cmd[q]
  BY DEF Turn
<1>3. cmd'[p].pc = "recorded" => Verb(p) = "key rotate"
  BY DEF Turn
<1>4. cmd'[p].pc = "writing" => Verb(p) = "payload put"
  BY DEF Turn
<1>5. DOMAIN cmd' = Procs /\ workload' \in DOMAIN Workloads
  BY DEF Turn, CmdInv
<1> SUFFICES ASSUME NEW q \in Procs
             PROVE  /\ cmd'[q].pc \in Pcs
                    /\ "pc" \in DOMAIN cmd'[q]
                    /\ cmd'[q].pc # "idle" =>
                         "run" \in DOMAIN cmd'[q] /\ cmd'[q].run \in Work.runs[q]
                    /\ cmd'[q].pc \notin {"idle", "done"} /\ cmd'[q].run.verb = "payload put"
                         => cmd'[q].run.payload \in Digests
                    /\ cmd'[q].pc = "recorded" => cmd'[q].run.verb = "key rotate"
                    /\ cmd'[q].pc = "writing" => cmd'[q].run.verb = "payload put"
                    /\ cmd'[q].pc = "sent" => cmd'[q].run.verb \in RemoteVerbs
  BY <1>1, <1>5 DEF CmdInv, Verb
<1>6. CASE q = p
  BY <1>1, <1>3, <1>4, <1>6 DEF CmdInv, Verb
<1>7. CASE q # p
  BY <1>2, <1>7 DEF CmdInv, Verb
<1> QED BY <1>6, <1>7

(* A step of another command: it reads, or asks the server.                *)
Quiet(p) ==
    /\ UNCHANGED <<workload, log, durable, files, faults>>
    /\ cmd[p].pc \notin Ended
    /\ Verb(p) \notin {"key rotate", "payload put"}
    /\ Turn(p, Pcs \ {"idle", "recorded", "writing"})
    /\ cmd'[p].pc = "sent" => Verb(p) \in RemoteVerbs
    /\ DOMAIN wire' = Procs
    /\ \A q \in Procs : wire'[q] # Nil =>
         wire[q] # Nil \/ (q = p /\ Verb(p) \in RemoteVerbs)

LEMMA QuietKeepsInv ==
    ASSUME CommandsInv, NEW p \in Procs, Quiet(p)
    PROVE  CommandsInv'
<1>1. /\ CmdInv /\ WireInv /\ LogInv /\ OwnInv /\ RotateInv /\ PutInv
      /\ cmd[p].pc \notin {"idle", "done"}
      /\ \A q \in Procs \ {p} : cmd'[q] = cmd[q]
      /\ cmd'[p].run = cmd[p].run /\ cmd'[p].pc \notin {"idle", "recorded", "writing"}
      /\ Verb(p) \notin {"key rotate", "payload put"}
      /\ Work' = Work
  BY DEF CommandsInv, Quiet, Turn, Ended, Work
<1>2. CmdInv'
  BY <1>1, TurnKeepsCmd DEF Quiet
<1>3. WireInv'
  BY <1>1 DEF WireInv, Quiet, Verb
<1>4. LogInv' /\ OwnInv'
  <2>1. UNCHANGED <<log, durable>>
    BY DEF Quiet
  <2>2. LogInv'
    BY <1>1, <2>1 DEF LogInv
  <2>3. OwnInv'
    BY <1>1, <2>1 DEF OwnInv, Verb
  <2> QED BY <2>2, <2>3
<1>5. RotateInv'
  <2>1. \A q \in Procs : Rotated(q)' => q # p /\ Rotated(q)
    BY <1>1 DEF Rotated, Finished, Verb
  <2>2. \A q \in Procs : q # p /\ DetailOf(q) => DetailOf(q)'
    BY <1>1 DEF DetailOf, NewSecret
  <2>3. \A q \in Procs : q # p /\ OnDisk(q) => OnDisk(q)'
    BY <1>1 DEF OnDisk, Quiet
  <2>4. OnDirectory' = OnDirectory
    BY <1>1 DEF OnDirectory
  <2> QED BY <1>1, <2>1, <2>2, <2>3, <2>4 DEF RotateInv
<1>6. PutInv'
  <2>1. \A q \in Procs : Stored(q)' => q # p /\ Stored(q)
    BY <1>1 DEF Stored, Finished, Verb
  <2>2. \A q \in Procs \ {p} : Kept(q) => Kept(q)'
    BY <1>1 DEF Kept, PutCut, Verb, Quiet
  <2> QED BY <1>1, <2>1, <2>2 DEF PutInv, Quiet
<1> QED BY <1>2, <1>3, <1>4, <1>5, <1>6 DEF CommandsInv

LEMMA ReadingKeepsInv ==
    ASSUME CommandsInv, NEW p \in Procs, cmd[p].pc \notin Ended,
           Verb(p) \notin {"key rotate", "payload put"},
           UNCHANGED <<workload, log, durable, files, faults, wire>>,
           NEW pc \in Pcs \ {"idle", "recorded", "writing"}, Turn(p, {pc}),
           pc = "sent" => Verb(p) \in RemoteVerbs
    PROVE  CommandsInv'
<1>1. DOMAIN wire = Procs
  BY DEF CommandsInv, WireInv
<1>2. Turn(p, Pcs \ {"idle", "recorded", "writing"}) /\ cmd'[p].pc = pc
  BY DEF Turn
<1>3. Quiet(p)
  BY <1>1, <1>2 DEF Quiet
<1> QED BY <1>3, QuietKeepsInv

(* A return, a jump, a step on the spot or an exception of such a command. *)
Reads(p) ==
    \/ \E exit, printed : Return(p, exit, printed)
    \/ \E changes : /\ Goto(p, changes) /\ "run" \notin DOMAIN changes
                    /\ "pc" \in DOMAIN changes
                    /\ changes.pc \in Pcs \ {"idle", "recorded", "writing", "sent"}
    \/ \E changes : Goto(p, changes) /\ {"run", "pc"} \cap DOMAIN changes = {}
    \/ Raise(p)

LEMMA ReadsKeepsInv ==
    ASSUME CommandsInv, NEW p \in Procs, cmd[p].pc \notin Ended,
           Verb(p) \notin {"key rotate", "payload put"},
           UNCHANGED <<workload, log, durable, files, faults, wire>>, Reads(p)
    PROVE  CommandsInv'
<1>1. /\ CmdInv /\ cmd[p].pc # "idle"
      /\ cmd[p].pc \in Pcs \ {"idle", "recorded", "writing"}
      /\ cmd[p].pc = "sent" => Verb(p) \in RemoteVerbs
      /\ {"done", "raised"} \subseteq Pcs \ {"idle", "recorded", "writing"}
  BY DEF CommandsInv, CmdInv, Ended, Pcs
<1>2. ASSUME NEW exit, NEW printed, Return(p, exit, printed) PROVE CommandsInv'
  <2>1. Turn(p, {"done"})
    BY <1>1, <1>2, ReturnTurns
  <2> QED BY <1>1, <2>1, ReadingKeepsInv
<1>3. ASSUME NEW changes, Goto(p, changes), "run" \notin DOMAIN changes,
             "pc" \in DOMAIN changes,
             changes.pc \in Pcs \ {"idle", "recorded", "writing", "sent"}
      PROVE  CommandsInv'
  <2>1. Turn(p, {changes.pc})
    BY <1>1, <1>3, GotoTurns
  <2> QED BY <1>3, <2>1, ReadingKeepsInv
<1>4. ASSUME NEW changes, Goto(p, changes), {"run", "pc"} \cap DOMAIN changes = {}
      PROVE  CommandsInv'
  <2>1. Turn(p, {cmd[p].pc})
    BY <1>1, <1>4, GotoStays
  <2> QED BY <1>1, <2>1, ReadingKeepsInv
<1>5. CASE Raise(p)
  <2>1. Turn(p, {"raised"})
    BY <1>1, <1>5, RaiseTurns
  <2> QED BY <1>1, <2>1, ReadingKeepsInv
<1> QED BY <1>2, <1>3, <1>4, <1>5 DEF Reads

(* key status and verify.                                                  *)
LEMMA KeyReadsKeepInv ==
    ASSUME CommandsInv, NEW p \in Procs, UNCHANGED wire,
           KeyStatus(p) \/ VerifyFetch(p) \/ VerifyRecord(p)
    PROVE  CommandsInv'
<1>1. cmd[p].pc \notin Ended /\ Verb(p) \notin {"key rotate", "payload put"}
      /\ UNCHANGED <<workload, log, durable, files, faults>>
  BY DEF KeyStatus, VerifyFetch, VerifyRecord, At, Ended, Verb
<1>2. CASE KeyStatus(p)
  <2>1. Reads(p)
    BY <1>2 DEF KeyStatus, Reads
  <2> QED BY <1>1, <2>1, ReadsKeepsInv
<1>3. CASE VerifyFetch(p)
  <2>1. Reads(p)
    BY <1>3 DEF VerifyFetch, NoSuchCapsule, Reads, Pcs
  <2> QED BY <1>1, <2>1, ReadsKeepsInv
<1>4. CASE VerifyRecord(p)
  <2>1. Reads(p)
    BY <1>4 DEF VerifyRecord, Reads
  <2> QED BY <1>1, <2>1, ReadsKeepsInv
<1> QED BY <1>2, <1>3, <1>4

LEMMA ResolveReads ==
    ASSUME NEW p, NEW digest, NEW rest, Resolve(p, digest, rest),
           {"run", "pc"} \cap DOMAIN rest = {}
    PROVE  Reads(p)
<1>1. ASSUME NEW content,
             Goto(p, [shown |-> cmd[p].shown \cup {Shown(digest, content)}] ++ rest)
      PROVE  Reads(p)
  <2> DEFINE changes == [shown |-> cmd[p].shown \cup {Shown(digest, content)}] ++ rest
  <2>1. {"run", "pc"} \cap DOMAIN changes = {}
    BY Overrides
  <2>2. Goto(p, changes)
    BY <1>1
  <2> HIDE DEF changes
  <2> QED BY <2>1, <2>2 DEF Reads
<1>2. Goto(p, rest) \/ Raise(p) => Reads(p)
  BY DEF Reads
<1> QED BY <1>1, <1>2 DEF Resolve

(* show and log.                                                           *)
LEMMA PayloadReadsKeepInv ==
    ASSUME CommandsInv, NEW p \in Procs, UNCHANGED wire,
           \/ ShowFetch(p) \/ ShowResolve(p)
           \/ LogCount(p) \/ LogNext(p) \/ LogEnd(p)
    PROVE  CommandsInv'
<1>1. cmd[p].pc \notin Ended /\ Verb(p) \notin {"key rotate", "payload put"}
      /\ UNCHANGED <<workload, log, durable, files, faults>>
  BY DEF ShowFetch, ShowResolve, LogCount, LogNext, LogEnd, At, Ended, Verb
<1>2. CASE ShowFetch(p)
  <2>1. NoSuchCapsule(p, 1) => Reads(p)
    BY DEF NoSuchCapsule, Reads
  <2>2. Return(p, 0, [shown |-> {}]) => Reads(p)
    BY DEF Reads
  <2>3. ASSUME NEW c, NEW todo,
               Goto(p, [pc |-> "show", record |-> c, shown |-> {}, todo |-> todo])
        PROVE  Reads(p)
    BY <2>3 DEF Reads, Pcs
  <2>4. Reads(p)
    BY <1>2, <2>1, <2>2, <2>3 DEF ShowFetch
  <2> QED BY <1>1, <2>4, ReadsKeepsInv
<1>3. CASE ShowResolve(p)
  <2>1. ASSUME cmd[p].todo = <<>> PROVE Reads(p)
    BY <1>3, <2>1 DEF ShowResolve, Reads
  <2>2. ASSUME Resolve(p, Head(cmd[p].todo), [todo |-> Tail(cmd[p].todo)])
        PROVE  Reads(p)
    <3>1. {"run", "pc"} \cap DOMAIN [todo |-> Tail(cmd[p].todo)] = {}
      OBVIOUS
    <3> QED BY <2>2, <3>1, ResolveReads
  <2>3. Reads(p)
    BY <1>3, <2>1, <2>2 DEF ShowResolve
  <2> QED BY <1>1, <2>3, ReadsKeepsInv
<1>4. CASE LogCount(p)
  <2>1. Reads(p)
    BY <1>4 DEF LogCount, Reads, Pcs
  <2> QED BY <1>1, <2>1, ReadsKeepsInv
<1>5. CASE LogNext(p)
  <2> DEFINE c == Store(p)[cmd[p].next]
             rest == [next |-> cmd[p].next + 1,
                      listed |-> IF Selected(cmd[p].run, c)
                                 THEN cmd[p].listed \cup {c.id} ELSE cmd[p].listed]
  <2>1. {"run", "pc"} \cap DOMAIN rest = {}
    OBVIOUS
  <2>2. Resolve(p, c.reason, rest) \/ Goto(p, rest)
    BY <1>5 DEF LogNext
  <2> HIDE DEF rest
  <2>3. Reads(p)
    BY <2>1, <2>2, ResolveReads DEF Reads
  <2> QED BY <1>1, <2>3, ReadsKeepsInv
<1>6. CASE LogEnd(p)
  <2>1. Reads(p)
    BY <1>6 DEF LogEnd, Reads
  <2> QED BY <1>1, <2>1, ReadsKeepsInv
<1> QED BY <1>2, <1>3, <1>4, <1>5, <1>6

LEMMA BlameKeepsInv ==
    ASSUME CommandsInv, NEW p \in Procs, UNCHANGED wire, BlameStep(p)
    PROVE  CommandsInv'
<1>1. cmd[p].pc \notin Ended /\ Verb(p) \notin {"key rotate", "payload put"}
      /\ UNCHANGED <<workload, log, durable, files, faults>>
  BY DEF BlameStep, BlameFetch, BlameGaps, BlameHop, BlameEnd, At, Ended, Verb
<1>2. BlameFetch(p) => Reads(p)
  BY DEF BlameFetch, NoSuchCapsule, Reads, Pcs
<1>3. BlameGaps(p) => Reads(p)
  BY DEF BlameGaps, Reads, Pcs
<1>4. BlameHop(p) => Reads(p)
  BY DEF BlameHop, Reads
<1>5. BlameEnd(p) => Reads(p)
  BY DEF BlameEnd, Reads
<1>6. Reads(p)
  BY <1>2, <1>3, <1>4, <1>5 DEF BlameStep
<1> QED BY <1>1, <1>6, ReadsKeepsInv

-----------------------------------------------------------------------------
(* Remote calls                                                            *)

LEMMA RemoteKeepsInv ==
    ASSUME CommandsInv, NEW p \in Procs, cmd[p].pc \notin Ended, RemoteStep(p)
    PROVE  CommandsInv'
<1>1. /\ CmdInv /\ WireInv /\ cmd[p].pc # "idle" /\ DOMAIN wire = Procs
      /\ "sent" \in Pcs
      /\ {"done", "raised", "sent"} \subseteq Pcs \ {"idle", "recorded", "writing"}
  BY DEF CommandsInv, CmdInv, WireInv, Ended, Pcs
<1>2. ASSUME RemoteSend(p) PROVE Quiet(p)
  <2>1. Turn(p, {"sent"})
    BY <1>1, <1>2, GotoTurns DEF RemoteSend
  <2>2. Verb(p) \in RemoteVerbs \ {"key rotate", "payload put"}
    BY <1>2 DEF RemoteSend, Verb, RemoteVerbs
  <2> QED BY <1>1, <1>2, <2>1, <2>2 DEF RemoteSend, Quiet, Turn
<1>3. ASSUME cmd[p].pc = "sent", Receive(p) \/ TimeOut(p) PROVE Quiet(p)
  <2>1. Turn(p, {"done"}) \/ Turn(p, {"raised"})
    BY <1>1, <1>3, ReturnTurns, RaiseTurns DEF Receive, ReceiveNone, TimeOut
  <2>2. Verb(p) \in RemoteVerbs \ {"key rotate", "payload put"}
    BY <1>1, <1>3 DEF CmdInv, RemoteVerbs
  <2>3. DOMAIN wire' = Procs /\ \A q \in Procs : wire'[q] # Nil => wire[q] # Nil
    BY <1>1, <1>3 DEF Receive, TimeOut
  <2> QED BY <1>1, <1>3, <2>1, <2>2, <2>3 DEF Receive, TimeOut, Quiet, Turn
<1>4. ASSUME RemoteFindGaps(p) PROVE Quiet(p)
  <2>1. Turn(p, {"raised"})
    BY <1>1, <1>4, RaiseTurns DEF RemoteFindGaps
  <2> QED BY <1>1, <1>4, <2>1 DEF RemoteFindGaps, At, Verb, Quiet, Turn
<1>5. Quiet(p)
  BY <1>2, <1>3, <1>4 DEF RemoteStep, Receive, TimeOut
<1> QED BY <1>5, QuietKeepsInv

(* The log may grow; what is in it stays where it is, and nothing that is  *)
(* on disk is lost.                                                        *)
LEMMA AppendFacts ==
    ASSUME CommandsInv, NEW c, NEW w, AppendToLog(c, w), c.id \notin IdsIn(log)
    PROVE  /\ LogInv'
           /\ durable' \in Nat /\ durable <= durable'
           /\ Len(log) \in Nat
           /\ DOMAIN log' = 1..(Len(log) + 1) /\ log'[Len(log) + 1] = c
           /\ DOMAIN log = 1..Len(log) /\ \A i \in DOMAIN log : log'[i] = log[i]
<1>1. PICK S : log \in Seq(S)
  BY DEF CommandsInv, LogInv
<1>2. durable \in 0..Len(log) /\ Len(log) \in Nat /\ DOMAIN log = 1..Len(log)
  BY <1>1 DEF CommandsInv, LogInv
<1>3. /\ log' \in Seq(S \cup {c}) /\ Len(log') = Len(log) + 1
      /\ DOMAIN log' = 1..(Len(log) + 1) /\ log'[Len(log) + 1] = c
      /\ \A i \in DOMAIN log : log'[i] = log[i]
  <2>1. log \in Seq(S \cup {c}) /\ c \in S \cup {c} /\ log' = Append(log, c)
    BY <1>1 DEF AppendToLog
  <2> QED BY <1>2, <2>1
<1>4. durable <= durable' /\ durable' \in 0..Len(log')
  BY <1>2, <1>3 DEF AppendToLog
<1>5. \A i, j \in DOMAIN log' : log'[i].id = log'[j].id => i = j
  <2>1. \A i \in DOMAIN log : log'[i].id \in IdsIn(log)
    BY <1>3 DEF IdsIn
  <2>2. \A i, j \in DOMAIN log : log'[i].id = log'[j].id => i = j
    BY <1>3 DEF CommandsInv, LogInv
  <2>3. \A i \in DOMAIN log' : i \in DOMAIN log \/ i = Len(log) + 1
    BY <1>2, <1>3
  <2> QED BY <1>3, <2>1, <2>2, <2>3
<1> QED BY <1>2, <1>3, <1>4, <1>5 DEF LogInv

(* What a step of another command leaves of what was reported.             *)
LEMMA OthersStay ==
    ASSUME NEW q, cmd'[q] = cmd[q]
    PROVE  /\ Rotated(q)' <=> Rotated(q)
           /\ DetailOf(q)' <=> DetailOf(q)
           /\ Stored(q)' <=> Stored(q)
BY DEF Rotated, Finished, DetailOf, NewSecret, Stored

LEMMA LogStepsKeepCommands ==
    ASSUME CommandsInv, UNCHANGED <<workload, cmd, files, faults>>
    PROVE  CmdInv' /\ PutInv' /\ OnDirectory' = OnDirectory
<1>1. CmdInv' /\ Work' = Work /\ OnDirectory' = OnDirectory
  BY DEF CommandsInv, CmdInv, Verb, Work, OnDirectory
<1>2. \A p \in Procs : Stored(p)' => Stored(p)
  BY OthersStay
<1>3. \A p \in Procs : Kept(p) => Kept(p)'
  BY DEF Kept, PutCut
<1> QED BY <1>1, <1>2, <1>3 DEF CommandsInv, PutInv

LEMMA OnDiskStays ==
    ASSUME CommandsInv, NEW c, NEW w, AppendToLog(c, w), c.id \notin IdsIn(log),
           NEW p \in Procs, OnDisk(p), cmd'[p] = cmd[p]
    PROVE  OnDisk(p)'
<1>1. PICK i \in 1..durable : log[i].id = p /\ log[i].event = cmd[p].detail
  BY DEF OnDisk
<1>2. durable \in 0..Len(log) /\ durable' \in Nat /\ durable <= durable'
      /\ Len(log) \in Nat /\ DOMAIN log = 1..Len(log)
      /\ \A k \in DOMAIN log : log'[k] = log[k]
  BY AppendFacts DEF CommandsInv, LogInv
<1>3. i \in DOMAIN log /\ i \in 1..durable'
  <2>1. i \in 1..durable
    OBVIOUS
  <2> QED BY <1>2, <2>1
<1> QED BY <1>1, <1>2, <1>3 DEF OnDisk

(* A record that is no event of a command is appended.                     *)
LEMMA PlainAppendKeepsInv ==
    ASSUME CommandsInv, NEW c, NEW w, AppendToLog(c, w), c.id \notin IdsIn(log),
           c.id \notin Procs, UNCHANGED <<workload, cmd, files, faults>>, WireInv'
    PROVE  CommandsInv'
<1>1. CmdInv' /\ PutInv' /\ OnDirectory' = OnDirectory
  BY LogStepsKeepCommands
<1>2. LogInv'
  BY AppendFacts
<1>3. OwnInv'
  <2>1. /\ DOMAIN log' = 1..(Len(log) + 1) /\ log'[Len(log) + 1] = c
        /\ Len(log) \in Nat /\ DOMAIN log = 1..Len(log)
        /\ \A i \in DOMAIN log : log'[i] = log[i]
    BY AppendFacts
  <2>2. \A i \in DOMAIN log' : i \in DOMAIN log \/ log'[i] = c
    BY <2>1
  <2> QED BY <2>1, <2>2 DEF CommandsInv, OwnInv, Verb
<1>4. RotateInv'
  <2>1. \A p \in Procs : OnDisk(p) => OnDisk(p)'
    BY OnDiskStays
  <2>2. \A p \in Procs : Rotated(p)' => Rotated(p)
    BY OthersStay
  <2>3. \A p \in Procs : DetailOf(p) => DetailOf(p)'
    BY OthersStay
  <2> QED BY <1>1, <2>1, <2>2, <2>3 DEF CommandsInv, RotateInv
<1> QED BY <1>1, <1>2, <1>3, <1>4 DEF CommandsInv

LEMMA AgentKeepsInv ==
    ASSUME CommandsInv, AgentAppend, UNCHANGED wire
    PROVE  CommandsInv'
<1>1. PICK c \in Work.capsules, w \in Work.waits : c.id \notin IdsIn(log) /\ AppendToLog(c, w)
  BY DEF AgentAppend
<1>2. c.id \notin Procs
  BY CapsulesAssumption DEF CommandsInv, CmdInv, Work, Capsules, PlainCapsule
<1>3. UNCHANGED <<workload, cmd, files, faults>>
  BY DEF AgentAppend
<1>4. WireInv'
  BY <1>3 DEF CommandsInv, WireInv, Verb
<1> QED BY <1>1, <1>2, <1>3, <1>4, PlainAppendKeepsInv

(* The server answers, or a message is lost.                               *)
LEMMA ServeKeepsInv ==
    ASSUME CommandsInv, NEW p \in Procs, Serve(p)
    PROVE  CommandsInv'
<1>1. /\ UNCHANGED <<workload, cmd, files, faults>>
      /\ wire[p] # Nil
      /\ \E m : wire' = [wire EXCEPT ![p] = m]
  BY DEF Serve, ServeAppend, ServeQuestion, Lose, Reply, Request, avars
<1>2. WireInv'
  BY <1>1 DEF CommandsInv, WireInv, Verb
<1>3. CASE UNCHANGED <<log, durable>>
  <2>1. CmdInv' /\ PutInv' /\ OnDirectory' = OnDirectory
    BY <1>1, LogStepsKeepCommands
  <2>2. LogInv' /\ OwnInv'
    BY <1>1, <1>3 DEF CommandsInv, LogInv, OwnInv, Verb
  <2>3. \A q \in Procs : Rotated(q)' => Rotated(q)
    BY <1>1, OthersStay
  <2>4. \A q \in Procs : DetailOf(q) => DetailOf(q)'
    BY <1>1, OthersStay
  <2>5. \A q \in Procs : OnDisk(q) => OnDisk(q)'
    BY <1>1, <1>3 DEF OnDisk
  <2>6. RotateInv'
    BY <2>1, <2>3, <2>4, <2>5 DEF CommandsInv, RotateInv
  <2> QED BY <1>2, <2>1, <2>2, <2>6 DEF CommandsInv
<1>4. CASE ~UNCHANGED <<log, durable>>
  <2>1. /\ Verb(p) = "remote append"
        /\ cmd[p].run.capsule.id \notin IdsIn(log)
        /\ AppendToLog(cmd[p].run.capsule, cmd[p].run.consequential)
    BY <1>4 DEF Serve, ServeAppend, ServeQuestion, Lose, Verb, avars
  <2>2. cmd[p].run \in Work.runs[p]
    BY <1>1 DEF CommandsInv, CmdInv, WireInv
  <2>3. cmd[p].run.capsule.id \notin Procs
    <3>1. cmd[p].run.capsule \in Sent(Work, p)
      BY <2>1, <2>2 DEF Sent, Verb
    <3>2. cmd[p].run.capsule \in Capsules(Work) /\ workload \in DOMAIN Workloads
      BY <3>1 DEF Capsules, CommandsInv, CmdInv
    <3> QED BY <3>2, CapsulesAssumption DEF PlainCapsule, Work
  <2> QED BY <1>1, <1>2, <2>1, <2>3, PlainAppendKeepsInv
<1> QED BY <1>3, <1>4

-----------------------------------------------------------------------------
(* Rotations                                                               *)

(* The puts do not care for a rotation.                                    *)
LEMMA RotateKeepsPuts ==
    ASSUME CommandsInv, NEW p \in Procs, cmd[p].pc # "idle", Verb(p) = "key rotate",
           UNCHANGED <<workload, files, faults, wire>>, NEW pcs, Turn(p, pcs), "idle" \notin pcs
    PROVE  PutInv' /\ WireInv'
<1>1. /\ PutInv /\ WireInv /\ Work' = Work
      /\ cmd'[p].run = cmd[p].run /\ cmd'[p].pc # "idle"
      /\ \A q \in Procs \ {p} : cmd'[q] = cmd[q]
  BY DEF CommandsInv, Turn, Work
<1>2. \A q \in Procs : Stored(q)' => q # p /\ Stored(q)
  BY <1>1 DEF Stored, Finished, Verb
<1>3. \A q \in Procs \ {p} : Kept(q) => Kept(q)'
  BY <1>1 DEF Kept, PutCut, Verb
<1>4. PutInv'
  BY <1>1, <1>2, <1>3 DEF PutInv
<1>5. WireInv'
  BY <1>1 DEF WireInv, Verb
<1> QED BY <1>4, <1>5

LEMMA RotateAppendKeepsInv ==
    ASSUME CommandsInv, NEW p \in Procs, RotateAppend(p), UNCHANGED wire
    PROVE  CommandsInv'
<1>1. PICK t : LET c == RotationCapsule(p, cmd[p].run, t) IN
        /\ IF OnDirectory THEN AppendToLog(c, TRUE) ELSE UNCHANGED <<log, durable>>
        /\ Goto(p, [pc |-> "recorded", detail |-> c.event])
  BY DEF RotateAppend
<1> DEFINE c == RotationCapsule(p, cmd[p].run, t)
<1>2. c.id = p /\ c.event = Detail(p, cmd[p].run, t)
  BY DEF RotationCapsule, EventCapsule
<1>3. /\ UNCHANGED <<workload, files, faults>>
      /\ cmd[p].pc = "open" /\ Verb(p) = "key rotate"
  BY DEF RotateAppend, At, Verb
<1>4. /\ IF OnDirectory THEN AppendToLog(c, TRUE) ELSE UNCHANGED <<log, durable>>
      /\ Goto(p, [pc |-> "recorded", detail |-> c.event])
  BY <1>1
<1> HIDE DEF c
<1>5. Turn(p, {"recorded"}) /\ cmd'[p].detail = c.event
  <2> DEFINE changes == [pc |-> "recorded", detail |-> c.event]
  <2>1. /\ DOMAIN changes = {"pc", "detail"} /\ changes.pc = "recorded"
        /\ changes.detail = c.event /\ Goto(p, changes)
    BY <1>4
  <2> HIDE DEF changes
  <2>2. Turn(p, {changes.pc}) /\ \A x \in DOMAIN changes : cmd'[p][x] = changes[x]
    BY <1>3, <2>1, GotoTurns DEF CommandsInv
  <2> QED BY <2>1, <2>2
<1>6. CmdInv'
  BY <1>3, <1>5, TurnKeepsCmd DEF CommandsInv, Pcs, Turn
<1>7. PutInv' /\ WireInv'
  BY <1>3, <1>5, RotateKeepsPuts
<1>8. /\ cmd'[p].pc = "recorded" /\ cmd'[p].run = cmd[p].run
      /\ \A q \in Procs \ {p} : cmd'[q] = cmd[q]
      /\ OnDirectory' = OnDirectory
  BY <1>3, <1>5 DEF Turn, OnDirectory, Work
<1>9. DetailOf(p)'
  <2>1. /\ c.event.old = cmd[p].run.old /\ c.event.new = cmd[p].run.new
        /\ c.event.newFingerprint = KeyFingerprint(cmd[p].run.new, NewSecret(p, cmd[p].run))
    BY <1>2 DEF Detail
  <2>2. NewSecret(p, cmd'[p].run) = NewSecret(p, cmd[p].run)
    BY <1>8 DEF NewSecret
  <2> QED BY <1>5, <1>8, <2>1, <2>2 DEF DetailOf, KeyFingerprint
<1>10. \A q \in Procs \ {p} : /\ Rotated(q)' => Rotated(q)
                              /\ DetailOf(q) => DetailOf(q)'
  BY <1>8, OthersStay
<1>11. CASE OnDirectory
  <2>1. AppendToLog(c, TRUE) /\ c.id \notin IdsIn(log)
    BY <1>2, <1>3, <1>4, <1>11 DEF CommandsInv, OwnInv, IdsIn
  <2>2. /\ DOMAIN log' = 1..(Len(log) + 1) /\ log'[Len(log) + 1] = c
        /\ Len(log) \in Nat /\ DOMAIN log = 1..Len(log)
        /\ \A i \in DOMAIN log : log'[i] = log[i]
        /\ LogInv'
    BY <2>1, AppendFacts
  <2>3. OwnInv'
    <3>1. \A i \in DOMAIN log' : i \in DOMAIN log \/ log'[i] = c
      BY <2>2
    <3>2. ASSUME NEW i \in DOMAIN log', NEW q \in Procs, log'[i].id = q
          PROVE  cmd'[q].pc \in {"recorded", "done", "killed"} /\ cmd'[q].run.verb = "key rotate"
      <4>1. CASE q = p
        BY <1>3, <1>8, <4>1 DEF Verb
      <4>2. CASE q # p
        <5>1. i \in DOMAIN log /\ log[i].id = q
          BY <1>2, <2>2, <3>1, <3>2, <4>2
        <5>2. cmd[q].pc \in {"recorded", "done", "killed"} /\ cmd[q].run.verb = "key rotate"
          BY <5>1 DEF CommandsInv, OwnInv, Verb
        <5> QED BY <1>8, <4>2, <5>2
      <4> QED BY <4>1, <4>2
    <3> QED BY <3>2 DEF OwnInv, Verb
  <2>4. OnDisk(p)'
    <3>1. durable' = Len(log) + 1
      BY <2>1 DEF AppendToLog
    <3>2. Len(log) + 1 \in 1..durable'
      BY <2>2, <3>1
    <3> QED BY <1>2, <1>5, <2>2, <3>2 DEF OnDisk
  <2>5. \A q \in Procs \ {p} : OnDisk(q) => OnDisk(q)'
    BY <1>8, <2>1, OnDiskStays
  <2>6. RotateInv'
    BY <1>8, <1>9, <1>10, <2>4, <2>5 DEF CommandsInv, RotateInv
  <2> QED BY <1>6, <1>7, <2>2, <2>3, <2>6 DEF CommandsInv
<1>12. CASE ~OnDirectory
  <2>1. UNCHANGED <<log, durable>>
    BY <1>4, <1>12
  <2>2. LogInv'
    BY <2>1 DEF CommandsInv, LogInv
  <2>3. OwnInv'
    BY <1>3, <1>8, <2>1 DEF CommandsInv, OwnInv, Verb
  <2>4. RotateInv'
    BY <1>8, <1>9, <1>10, <1>12 DEF CommandsInv, RotateInv
  <2> QED BY <1>6, <1>7, <2>2, <2>3, <2>4 DEF CommandsInv
<1> QED BY <1>11, <1>12

LEMMA RotateReportKeepsInv ==
    ASSUME CommandsInv, NEW p \in Procs, RotateReport(p), UNCHANGED wire
    PROVE  CommandsInv'
<1> DEFINE secret == IF cmd[p].run.newSecret = Nil THEN NewSecret(p, cmd[p].run) ELSE Nil
           printed == [detail |-> cmd[p].detail, secret |-> secret]
<1>1. /\ UNCHANGED <<workload, log, durable, files, faults>>
      /\ cmd[p].pc = "recorded" /\ Verb(p) = "key rotate"
      /\ Return(p, 0, printed)
  BY DEF RotateReport, At, Verb
<1>2. /\ DOMAIN printed = {"detail", "secret"}
      /\ printed.detail = cmd[p].detail /\ printed.secret = secret
  OBVIOUS
<1> HIDE DEF printed
<1>3. Turn(p, {"done"}) /\ cmd'[p].detail = cmd[p].detail /\ cmd'[p].secret = secret
  <2>1. /\ Turn(p, {"done"})
        /\ \A x \in DOMAIN printed \ {"run", "pc", "exit", "opened"} :
             cmd'[p][x] = printed[x]
    BY <1>1, ReturnTurns DEF CommandsInv
  <2> QED BY <1>2, <2>1
<1>4. CmdInv'
  BY <1>1, <1>3, TurnKeepsCmd DEF CommandsInv, Pcs, Ended, Turn
<1>5. PutInv' /\ WireInv'
  BY <1>1, <1>3, RotateKeepsPuts
<1>6. /\ cmd'[p].pc = "done" /\ cmd'[p].run = cmd[p].run
      /\ \A q \in Procs \ {p} : cmd'[q] = cmd[q]
      /\ OnDirectory' = OnDirectory
  BY <1>1, <1>3 DEF Turn, OnDirectory, Work
<1>7. LogInv' /\ OwnInv'
  BY <1>1, <1>6 DEF CommandsInv, LogInv, OwnInv, Verb
<1>8. Rotated(p) /\ DetailOf(p) /\ (OnDirectory => OnDisk(p))
  BY <1>1 DEF CommandsInv, RotateInv, Rotated
<1>9. DetailOf(p)'
  <2>1. NewSecret(p, cmd'[p].run) = NewSecret(p, cmd[p].run)
    BY <1>6 DEF NewSecret
  <2>2. cmd[p].run.newSecret = Nil => secret = p
    BY DEF NewSecret
  <2> HIDE DEF secret
  <2> QED BY <1>3, <1>6, <1>8, <2>1, <2>2 DEF DetailOf, KeyFingerprint
<1>10. \A q \in Procs : OnDisk(q) => OnDisk(q)'
  BY <1>1, <1>3, <1>6 DEF OnDisk
<1>11. \A q \in Procs \ {p} : /\ Rotated(q)' => Rotated(q)
                              /\ DetailOf(q) => DetailOf(q)'
  BY <1>6, OthersStay
<1>12. RotateInv'
  BY <1>6, <1>8, <1>9, <1>10, <1>11 DEF CommandsInv, RotateInv
<1> QED BY <1>4, <1>5, <1>7, <1>12 DEF CommandsInv

-----------------------------------------------------------------------------
(* Puts                                                                    *)

(* The log and the rotations do not care for a put.                        *)
LEMMA PutKeepsRotations ==
    ASSUME CommandsInv, NEW p \in Procs, cmd[p].pc # "idle", Verb(p) = "payload put",
           UNCHANGED <<workload, log, durable, wire>>, NEW pcs, Turn(p, pcs),
           pcs \cap {"idle", "recorded"} = {}
    PROVE  LogInv' /\ OwnInv' /\ RotateInv' /\ WireInv'
<1>1. /\ cmd'[p].run = cmd[p].run /\ cmd'[p].pc \notin {"idle", "recorded"}
      /\ \A q \in Procs \ {p} : cmd'[q] = cmd[q]
      /\ OnDirectory' = OnDirectory
  BY DEF Turn, OnDirectory, Work
<1>2. LogInv'
  BY DEF CommandsInv, LogInv
<1>3. OwnInv'
  BY <1>1 DEF CommandsInv, OwnInv, Verb
<1>4. WireInv'
  BY <1>1 DEF CommandsInv, WireInv, Verb
<1>5. RotateInv'
  <2>1. \A q \in Procs : Rotated(q)' => q # p
    BY <1>1 DEF Rotated, Finished, Verb
  <2>2. \A q \in Procs \ {p} : Rotated(q)' => Rotated(q)
    BY <1>1, OthersStay
  <2>3. \A q \in Procs \ {p} : DetailOf(q) => DetailOf(q)'
    BY <1>1, OthersStay
  <2>4. \A q \in Procs \ {p} : OnDisk(q) => OnDisk(q)'
    BY <1>1 DEF OnDisk
  <2> QED BY <1>1, <2>1, <2>2, <2>3, <2>4 DEF CommandsInv, RotateInv
<1> QED BY <1>2, <1>3, <1>4, <1>5

(* A put empties its file: what others have reported as stored there is    *)
(* being written again.                                                    *)
LEMMA PutOpenKeepsInv ==
    ASSUME CommandsInv, NEW p \in Procs, PutOpen(p), UNCHANGED wire
    PROVE  CommandsInv'
<1> DEFINE d == cmd[p].run.payload
<1>1. /\ UNCHANGED <<workload, log, durable, faults>>
      /\ cmd[p].pc = "open" /\ Verb(p) = "payload put"
      /\ Goto(p, [pc |-> "writing"])
      /\ files' = [files EXCEPT ![d] =
           IF files[d] \in {Nil, "begun", "no JSON"} THEN "begun" ELSE "rewritten"]
  BY DEF PutOpen, At, Verb
<1>2. Turn(p, {"writing"})
  <2> DEFINE changes == [pc |-> "writing"]
  <2>1. DOMAIN changes = {"pc"} /\ changes.pc = "writing" /\ Goto(p, changes)
    BY <1>1
  <2> HIDE DEF changes
  <2>2. Turn(p, {changes.pc})
    BY <1>1, <2>1, GotoTurns DEF CommandsInv
  <2> QED BY <2>1, <2>2
<1>3. CmdInv'
  BY <1>1, <1>2, TurnKeepsCmd DEF CommandsInv, Pcs, Turn
<1>4. LogInv' /\ OwnInv' /\ RotateInv' /\ WireInv'
  BY <1>1, <1>2, PutKeepsRotations
<1>5. d \in Digests
  BY <1>1 DEF CommandsInv, CmdInv
<1>6. /\ cmd'[p].pc = "writing" /\ cmd'[p].run = cmd[p].run
      /\ \A q \in Procs \ {p} : cmd'[q] = cmd[q]
      /\ Work' = Work
  BY <1>1, <1>2 DEF Turn, Work
<1>8. files' \in [Digests -> {Nil, "no JSON"} \cup Torn \cup Digests]
      /\ \A e \in Digests : e # d => files'[e] = files[e]
  BY <1>1, <1>5 DEF CommandsInv, PutInv, Torn
<1>9. \A q \in Procs : Stored(q)' => q # p /\ Stored(q) /\ cmd'[q].stored = cmd[q].stored
  BY <1>6 DEF Stored, Finished
<1>10. files[d] \in {d, "rewritten"} => files'[d] = "rewritten"
  BY <1>1, <1>5, NamesAssumption DEF CommandsInv, PutInv, Torn
<1> HIDE DEF d
<1>11. PutInv'
  <2>1. ASSUME NEW q \in Procs, Stored(q)'
        PROVE  Kept(q)'
    <3>1. Stored(q) /\ Kept(q) /\ cmd'[q].stored = cmd[q].stored
      BY <1>9, <2>1 DEF CommandsInv, PutInv
    <3> DEFINE e == cmd[q].stored
    <3>2. /\ e \in Digests
          /\ \/ files[e] = e
             \/ files[e] = "rewritten" /\ PutCut(e)
             \/ faults \cap {"crash", "damage"} # {}
      BY <3>1 DEF Kept
    <3>3. e = d \/ PutCut(e) =>
            \E r \in Procs : /\ cmd'[r].pc \in {"writing", "killed"}
                             /\ cmd'[r].run.verb = "payload put"
                             /\ cmd'[r].run.payload = e
      BY <1>1, <1>6 DEF PutCut, Verb, d
    <3>4. e = d => (files[e] \in {e, "rewritten"} => files'[e] = "rewritten")
      BY <1>10
    <3>5. e # d => files'[e] = files[e]
      BY <1>8, <3>2
    <3> HIDE DEF e
    <3>6. cmd'[q].stored = e
      BY <3>1 DEF e
    <3> QED BY <1>1, <3>2, <3>3, <3>4, <3>5, <3>6 DEF Kept, PutCut
  <2>2. faults' \subseteq Work'.faults
    BY <1>1, <1>6 DEF CommandsInv, PutInv
  <2> QED BY <1>8, <2>1, <2>2 DEF PutInv
<1> QED BY <1>3, <1>4, <1>11 DEF CommandsInv

(* The payload is whole again, whoever else was writing it.                *)
LEMMA PutWriteKeepsInv ==
    ASSUME CommandsInv, NEW p \in Procs, PutWrite(p), UNCHANGED wire
    PROVE  CommandsInv'
<1> DEFINE d == cmd[p].run.payload
           printed == [stored |-> d]
<1>1. /\ UNCHANGED <<workload, log, durable, faults>>
      /\ cmd[p].pc = "writing" /\ Verb(p) = "payload put"
      /\ Return(p, 0, printed)
      /\ files' = [files EXCEPT ![d] = d]
  BY DEF PutWrite, At, Verb
<1>2. Turn(p, {"done"}) /\ cmd'[p].stored = d
  <2>1. DOMAIN printed = {"stored"} /\ printed.stored = d
    OBVIOUS
  <2> HIDE DEF printed
  <2>2. /\ Turn(p, {"done"})
        /\ \A x \in DOMAIN printed \ {"run", "pc", "exit", "opened"} :
             cmd'[p][x] = printed[x]
    BY <1>1, ReturnTurns DEF CommandsInv
  <2> QED BY <2>1, <2>2
<1>3. CmdInv'
  BY <1>1, <1>2, TurnKeepsCmd DEF CommandsInv, Pcs, Ended, Turn
<1>4. LogInv' /\ OwnInv' /\ RotateInv' /\ WireInv'
  BY <1>1, <1>2, PutKeepsRotations
<1>5. d \in Digests
  BY <1>1 DEF CommandsInv, CmdInv
<1>6. /\ cmd'[p].pc = "done" /\ cmd'[p].run = cmd[p].run
      /\ \A q \in Procs \ {p} : cmd'[q] = cmd[q]
      /\ Work' = Work
  BY <1>1, <1>2 DEF Turn, Work
<1>7. /\ files' \in [Digests -> {Nil, "no JSON"} \cup Torn \cup Digests]
      /\ files'[d] = d
      /\ \A e \in Digests : e # d => files'[e] = files[e]
  BY <1>1, <1>5 DEF CommandsInv, PutInv
<1>8. \A e : e # d /\ PutCut(e) =>
        \E r \in Procs : /\ cmd'[r].pc \in {"writing", "killed"}
                         /\ cmd'[r].run.verb = "payload put"
                         /\ cmd'[r].run.payload = e
  BY <1>6 DEF PutCut
<1>9. ASSUME NEW q \in Procs, Stored(q)'
      PROVE  Kept(q)'
  <2>1. CASE q = p
    BY <1>2, <1>5, <1>7, <2>1 DEF Kept
  <2>2. CASE q # p
    <3> DEFINE e == cmd[q].stored
    <3>1. Stored(q) /\ Kept(q) /\ cmd'[q].stored = e
      BY <1>6, <1>9, <2>2 DEF CommandsInv, PutInv, Stored, Finished
    <3>2. /\ e \in Digests
          /\ \/ files[e] = e
             \/ files[e] = "rewritten" /\ PutCut(e)
             \/ faults \cap {"crash", "damage"} # {}
      BY <3>1 DEF Kept
    <3>3. e = d => files'[e] = e
      BY <1>7
    <3>4. e # d => /\ files'[e] = files[e]
                   /\ PutCut(e) =>
                        \E r \in Procs : /\ cmd'[r].pc \in {"writing", "killed"}
                                         /\ cmd'[r].run.verb = "payload put"
                                         /\ cmd'[r].run.payload = e
      BY <1>7, <1>8, <3>2
    <3> HIDE DEF e, d
    <3>5. CASE e = d
      BY <3>1, <3>2, <3>3, <3>5 DEF Kept
    <3>6. CASE e # d
      BY <1>1, <3>1, <3>2, <3>4, <3>6 DEF Kept, PutCut
    <3> QED BY <3>5, <3>6
  <2> QED BY <2>1, <2>2
<1>10. faults' \subseteq Work'.faults
  BY <1>1, <1>6 DEF CommandsInv, PutInv
<1> QED BY <1>3, <1>4, <1>7, <1>9, <1>10 DEF CommandsInv, PutInv

-----------------------------------------------------------------------------
(* Starts and faults                                                       *)

LEMMA StartKeepsInv ==
    ASSUME CommandsInv, NEW p \in Procs, Start(p), UNCHANGED wire
    PROVE  CommandsInv'
<1>1. PICK run \in Work.runs[p] :
        cmd' = [cmd EXCEPT ![p] =
          IF UsageError(run) THEN [run |-> run, pc |-> "done", exit |-> 2]
          ELSE [run |-> run, pc |-> "open", opened |-> Len(log),
                copy |-> IF OnDirectory THEN <<>> ELSE log,
                payloads |-> LocalPayloadStore]]
  BY DEF Start
<1>2. /\ cmd[p].pc = "idle" /\ DOMAIN cmd = Procs /\ workload \in DOMAIN Workloads
      /\ UNCHANGED <<workload, log, durable, files, faults, wire>>
      /\ Work' = Work /\ OnDirectory' = OnDirectory
  BY DEF Start, CommandsInv, CmdInv, Work, OnDirectory
<1>3. /\ DOMAIN cmd' = Procs /\ \A q \in Procs \ {p} : cmd'[q] = cmd[q]
      /\ {"run", "pc"} \subseteq DOMAIN cmd'[p] /\ cmd'[p].run = run
      /\ \/ cmd'[p].pc = "done" /\ cmd'[p].exit = 2
         \/ cmd'[p].pc = "open" /\ ~UsageError(run)
  <2>1. CASE UsageError(run)
    BY <1>1, <1>2, <2>1
  <2>2. CASE ~UsageError(run)
    BY <1>1, <1>2, <2>2
  <2> QED BY <2>1, <2>2
<1>4. ~UsageError(run) /\ run.verb = "payload put" => run.payload \in Digests
  BY <1>2, RunsAssumption DEF UsageError, Work
<1>5. CmdInv'
  <2> SUFFICES ASSUME NEW q \in Procs
               PROVE  /\ cmd'[q].pc \in Pcs
                      /\ "pc" \in DOMAIN cmd'[q]
                      /\ cmd'[q].pc # "idle" =>
                           "run" \in DOMAIN cmd'[q] /\ cmd'[q].run \in Work.runs[q]
                      /\ cmd'[q].pc \notin {"idle", "done"} /\ cmd'[q].run.verb = "payload put"
                           => cmd'[q].run.payload \in Digests
                      /\ cmd'[q].pc = "recorded" => cmd'[q].run.verb = "key rotate"
                      /\ cmd'[q].pc = "writing" => cmd'[q].run.verb = "payload put"
                      /\ cmd'[q].pc = "sent" => cmd'[q].run.verb \in RemoteVerbs
    BY <1>2, <1>3 DEF CmdInv, Verb
  <2>1. CASE q = p
    BY <1>3, <1>4, <2>1 DEF Pcs, Ended
  <2>2. CASE q # p
    BY <1>3, <2>2 DEF CommandsInv, CmdInv, Verb
  <2> QED BY <2>1, <2>2
<1>6. WireInv'
  BY <1>2, <1>3 DEF CommandsInv, WireInv, Verb
<1>7. LogInv'
  BY <1>2 DEF CommandsInv, LogInv
<1>8. OwnInv'
  BY <1>2, <1>3 DEF CommandsInv, OwnInv, Verb
<1>9. \A q \in Procs : Rotated(q)' \/ Stored(q)' => q # p
  <2>1. cmd'[p].pc \in {"done", "open"} /\ (cmd'[p].pc = "done" => cmd'[p].exit # 0)
    BY <1>3
  <2> QED BY <2>1 DEF Rotated, Stored, Finished
<1>10. RotateInv'
  <2>1. \A q \in Procs \ {p} : Rotated(q)' => Rotated(q)
    BY <1>3, OthersStay
  <2>2. \A q \in Procs \ {p} : DetailOf(q) => DetailOf(q)'
    BY <1>3, OthersStay
  <2>3. \A q \in Procs \ {p} : OnDisk(q) => OnDisk(q)'
    BY <1>2, <1>3 DEF OnDisk
  <2> QED BY <1>2, <1>9, <2>1, <2>2, <2>3 DEF CommandsInv, RotateInv
<1>11. PutInv'
  <2>1. \A q \in Procs \ {p} : Stored(q)' => Stored(q)
    BY <1>3, OthersStay
  <2>2. \A q \in Procs \ {p} : Kept(q) => Kept(q)'
    BY <1>2, <1>3 DEF CommandsInv, CmdInv, Kept, PutCut
  <2> QED BY <1>2, <1>9, <2>1, <2>2 DEF CommandsInv, PutInv
<1> QED BY <1>5, <1>6, <1>7, <1>8, <1>10, <1>11 DEF CommandsInv

(* Some commands are killed, where they stand.                             *)
Cut ==
    /\ DOMAIN cmd' = Procs
    /\ \A q \in Procs :
         \/ cmd'[q] = cmd[q]
         \/ /\ cmd[q].pc \notin Ended
            /\ {"run", "pc"} \subseteq DOMAIN cmd'[q]
            /\ cmd'[q].run = cmd[q].run
            /\ cmd'[q].pc = "killed"

LEMMA CutKeepsCommands ==
    ASSUME CommandsInv, Cut, UNCHANGED workload
    PROVE  /\ CmdInv'
           /\ \A q \in Procs : /\ Rotated(q)' => Rotated(q) /\ cmd'[q] = cmd[q]
                               /\ Stored(q)' => Stored(q) /\ cmd'[q] = cmd[q]
           /\ \A d : PutCut(d) =>
                \E q \in Procs : /\ cmd'[q].pc \in {"writing", "killed"}
                                 /\ cmd'[q].run.verb = "payload put"
                                 /\ cmd'[q].run.payload = d
           /\ \A q \in Procs :
                cmd[q].pc \in {"recorded", "done", "killed"} /\ cmd[q].run.verb = "key rotate" =>
                  /\ cmd'[q].pc \in {"recorded", "done", "killed"}
                  /\ cmd'[q].run.verb = "key rotate"
<1>1. Work' = Work
  BY DEF Work
<1>2. CmdInv'
  <2> SUFFICES ASSUME NEW q \in Procs
               PROVE  /\ cmd'[q].pc \in Pcs
                      /\ "pc" \in DOMAIN cmd'[q]
                      /\ cmd'[q].pc # "idle" =>
                           "run" \in DOMAIN cmd'[q] /\ cmd'[q].run \in Work.runs[q]
                      /\ cmd'[q].pc \notin {"idle", "done"} /\ cmd'[q].run.verb = "payload put"
                           => cmd'[q].run.payload \in Digests
                      /\ cmd'[q].pc = "recorded" => cmd'[q].run.verb = "key rotate"
                      /\ cmd'[q].pc = "writing" => cmd'[q].run.verb = "payload put"
                      /\ cmd'[q].pc = "sent" => cmd'[q].run.verb \in RemoteVerbs
    BY <1>1 DEF CommandsInv, CmdInv, Verb, Cut
  <2>1. CASE cmd'[q] = cmd[q]
    BY <2>1 DEF CommandsInv, CmdInv, Verb
  <2>2. CASE cmd'[q] # cmd[q]
    BY <2>2 DEF CommandsInv, CmdInv, Verb, Cut, Pcs, Ended
  <2> QED BY <2>1, <2>2
<1>3. \A q \in Procs : cmd'[q].pc # "killed" => cmd'[q] = cmd[q]
  BY DEF Cut
<1>4. ASSUME NEW q \in Procs
      PROVE  /\ Rotated(q)' => Rotated(q) /\ cmd'[q] = cmd[q]
             /\ Stored(q)' => Stored(q) /\ cmd'[q] = cmd[q]
  BY <1>3 DEF Rotated, Stored, Finished
<1>5. ASSUME NEW d, PutCut(d)
      PROVE  \E q \in Procs : /\ cmd'[q].pc \in {"writing", "killed"}
                              /\ cmd'[q].run.verb = "payload put"
                              /\ cmd'[q].run.payload = d
  BY <1>5 DEF PutCut, Cut
<1>6. ASSUME NEW q \in Procs, cmd[q].pc \in {"recorded", "done", "killed"},
             cmd[q].run.verb = "key rotate"
      PROVE  /\ cmd'[q].pc \in {"recorded", "done", "killed"}
             /\ cmd'[q].run.verb = "key rotate"
  BY <1>6 DEF Cut
<1> QED BY <1>2, <1>4, <1>5, <1>6

LEMMA KillKeepsInv ==
    ASSUME CommandsInv, NEW p \in Procs, Kill(p), UNCHANGED wire
    PROVE  CommandsInv'
<1>1. /\ cmd' = [cmd EXCEPT ![p] = [run |-> cmd[p].run, pc |-> "killed"]]
      /\ cmd[p].pc \notin Ended /\ DOMAIN cmd = Procs
      /\ UNCHANGED <<workload, log, durable, files>>
      /\ faults' = faults \cup {"kill"} /\ "kill" \in Work.faults
      /\ Work' = Work /\ OnDirectory' = OnDirectory
  BY DEF Kill, Killed, Fault, CommandsInv, CmdInv, Work, OnDirectory
<1>2. Cut
  BY <1>1 DEF Cut
<1>3. /\ CmdInv'
      /\ \A q \in Procs : Rotated(q)' => Rotated(q) /\ cmd'[q] = cmd[q]
      /\ \A q \in Procs : Stored(q)' => Stored(q) /\ cmd'[q] = cmd[q]
      /\ \A d : PutCut(d) =>
           \E q \in Procs : /\ cmd'[q].pc \in {"writing", "killed"}
                            /\ cmd'[q].run.verb = "payload put"
                            /\ cmd'[q].run.payload = d
      /\ \A q \in Procs :
           cmd[q].pc \in {"recorded", "done", "killed"} /\ cmd[q].run.verb = "key rotate" =>
             /\ cmd'[q].pc \in {"recorded", "done", "killed"}
             /\ cmd'[q].run.verb = "key rotate"
  BY <1>1, <1>2, CutKeepsCommands
<1>4. WireInv'
  BY <1>2 DEF CommandsInv, WireInv, Verb, Cut, Ended
<1>5. LogInv'
  BY <1>1 DEF CommandsInv, LogInv
<1>6. OwnInv'
  <2> SUFFICES ASSUME NEW i \in DOMAIN log', NEW q \in Procs, log'[i].id = q
               PROVE  /\ cmd'[q].pc \in {"recorded", "done", "killed"}
                      /\ cmd'[q].run.verb = "key rotate"
    BY DEF OwnInv, Verb
  <2>1. i \in DOMAIN log /\ log[i].id = q
    BY <1>1
  <2>2. cmd[q].pc \in {"recorded", "done", "killed"} /\ cmd[q].run.verb = "key rotate"
    BY <2>1 DEF CommandsInv, OwnInv, Verb
  <2> QED BY <1>3, <2>2
<1>7. RotateInv'
  <2>1. \A q \in Procs : cmd'[q] = cmd[q] /\ DetailOf(q) => DetailOf(q)'
    BY OthersStay
  <2>2. \A q \in Procs : cmd'[q] = cmd[q] /\ OnDisk(q) => OnDisk(q)'
    BY <1>1 DEF OnDisk
  <2> QED BY <1>1, <1>3, <2>1, <2>2 DEF CommandsInv, RotateInv
<1>8. PutInv'
  <2>1. ASSUME NEW q \in Procs, cmd'[q] = cmd[q], Kept(q) PROVE Kept(q)'
    <3> DEFINE e == cmd[q].stored
    <3>1. /\ e \in Digests
          /\ \/ files[e] = e
             \/ files[e] = "rewritten" /\ PutCut(e)
             \/ faults \cap {"crash", "damage"} # {}
      BY <2>1 DEF Kept
    <3>2. cmd'[q].stored = e
      BY <2>1
    <3>3. PutCut(e) => \E r \in Procs : /\ cmd'[r].pc \in {"writing", "killed"}
                                           /\ cmd'[r].run.verb = "payload put"
                                           /\ cmd'[r].run.payload = e
      BY <1>3
    <3> HIDE DEF e
    <3> QED BY <1>1, <3>1, <3>2, <3>3 DEF Kept, PutCut
  <2> QED BY <1>1, <1>3, <2>1 DEF CommandsInv, PutInv
<1> QED BY <1>3, <1>4, <1>5, <1>6, <1>7, <1>8 DEF CommandsInv

LEMMA CrashKeepsInv ==
    ASSUME CommandsInv, Crash, wire' = [p \in Procs |-> Nil]
    PROVE  CommandsInv'
<1>1. /\ cmd' = [p \in Procs |-> Killed(p)] /\ DOMAIN cmd = Procs
      /\ UNCHANGED <<workload, durable>>
      /\ faults' = faults \cup {"crash"} /\ "crash" \in Work.faults
      /\ Work' = Work /\ OnDirectory' = OnDirectory
  BY DEF Crash, Fault, CommandsInv, CmdInv, Work, OnDirectory
<1>2. Cut
  BY <1>1 DEF Cut, Killed
<1>3. /\ CmdInv'
      /\ \A q \in Procs : Rotated(q)' => Rotated(q) /\ cmd'[q] = cmd[q]
      /\ \A q \in Procs : Stored(q)' => Stored(q) /\ cmd'[q] = cmd[q]
      /\ \A q \in Procs :
           cmd[q].pc \in {"recorded", "done", "killed"} /\ cmd[q].run.verb = "key rotate" =>
             /\ cmd'[q].pc \in {"recorded", "done", "killed"}
             /\ cmd'[q].run.verb = "key rotate"
  BY <1>1, <1>2, CutKeepsCommands
<1>4. WireInv'
  BY DEF WireInv
<1>5. PICK n \in durable..Len(log) : log' = SubSeq(log, 1, n)
  BY DEF Crash
<1>6. PICK S : log \in Seq(S)
  BY DEF CommandsInv, LogInv
<1>7. /\ log' \in Seq(S) /\ Len(log') = n /\ DOMAIN log' = 1..n /\ durable \in 0..n
      /\ DOMAIN log' \subseteq DOMAIN log
      /\ \A i \in DOMAIN log' : log'[i] = log[i]
  <2>1. durable \in 0..Len(log) /\ Len(log) \in Nat /\ DOMAIN log = 1..Len(log)
    BY <1>6 DEF CommandsInv, LogInv
  <2>2. n \in 0..Len(log) /\ durable \in 0..n
    BY <2>1
  <2> QED BY <1>5, <1>6, <2>1, <2>2
<1>8. LogInv'
  BY <1>1, <1>7 DEF CommandsInv, LogInv
<1>9. OwnInv'
  <2> SUFFICES ASSUME NEW i \in DOMAIN log', NEW q \in Procs, log'[i].id = q
               PROVE  /\ cmd'[q].pc \in {"recorded", "done", "killed"}
                      /\ cmd'[q].run.verb = "key rotate"
    BY DEF OwnInv, Verb
  <2>1. i \in DOMAIN log /\ log[i].id = q
    BY <1>7
  <2>2. cmd[q].pc \in {"recorded", "done", "killed"} /\ cmd[q].run.verb = "key rotate"
    BY <2>1 DEF CommandsInv, OwnInv, Verb
  <2> QED BY <1>3, <2>2
<1>10. RotateInv'
  <2>1. \A q \in Procs : cmd'[q] = cmd[q] /\ DetailOf(q) => DetailOf(q)'
    BY OthersStay
  <2>2. \A i \in 1..durable : log'[i] = log[i]
    BY <1>7
  <2>3. \A q \in Procs : cmd'[q] = cmd[q] /\ OnDisk(q) => OnDisk(q)'
    BY <1>1, <2>2 DEF OnDisk
  <2> QED BY <1>1, <1>3, <2>1, <2>3 DEF CommandsInv, RotateInv
<1>11. PutInv'
  <2>1. files' \in [Digests -> {Nil, "no JSON"} \cup Torn \cup Digests]
    BY DEF Crash, CommandsInv, PutInv, Torn
  <2>2. \A q \in Procs : cmd'[q] = cmd[q] /\ Kept(q) => Kept(q)'
    BY <1>1 DEF Kept
  <2> QED BY <1>1, <1>3, <2>1, <2>2 DEF CommandsInv, PutInv
<1> QED BY <1>3, <1>4, <1>8, <1>9, <1>10, <1>11 DEF CommandsInv

LEMMA DamageKeepsInv ==
    ASSUME CommandsInv, Damage, UNCHANGED wire
    PROVE  CommandsInv'
<1>1. /\ UNCHANGED <<workload, log, durable, cmd>>
      /\ faults' = faults \cup {"damage"} /\ "damage" \in Work.faults
      /\ Work' = Work /\ OnDirectory' = OnDirectory
  BY DEF Damage, Fault, Work, OnDirectory
<1>2. CmdInv' /\ WireInv' /\ LogInv' /\ OwnInv'
  BY <1>1 DEF CommandsInv, CmdInv, WireInv, LogInv, OwnInv, Verb
<1>3. RotateInv'
  <2>1. \A q \in Procs : (Rotated(q)' => Rotated(q)) /\ (DetailOf(q) => DetailOf(q)')
    BY <1>1, OthersStay
  <2>2. \A q \in Procs : OnDisk(q) => OnDisk(q)'
    BY <1>1 DEF OnDisk
  <2> QED BY <1>1, <2>1, <2>2 DEF CommandsInv, RotateInv
<1>4. PutInv'
  <2>1. \A q \in Procs : (Stored(q)' => Stored(q)) /\ (Kept(q) => Kept(q)')
    BY <1>1, OthersStay DEF Kept
  <2>2. files' \in [Digests -> {Nil, "no JSON"} \cup Torn \cup Digests]
    BY DEF Damage, CommandsInv, PutInv
  <2> QED BY <1>1, <2>1, <2>2 DEF CommandsInv, PutInv
<1> QED BY <1>2, <1>3, <1>4 DEF CommandsInv

(* An answer that names nothing.                                           *)
LEMMA NothingKeepsInv ==
    ASSUME CommandsInv, NEW p \in Procs, ServeNothing(p)
    PROVE  CommandsInv'
<1>1. /\ UNCHANGED <<workload, log, durable, files, cmd>>
      /\ faults' = faults \cup {"nothing"} /\ "nothing" \in Work.faults
      /\ Work' = Work /\ OnDirectory' = OnDirectory
      /\ wire[p] # Nil
      /\ \E m : wire' = [wire EXCEPT ![p] = m]
  BY DEF ServeNothing, Fault, Work, OnDirectory, Request, Reply
<1>2. WireInv'
  BY <1>1 DEF CommandsInv, WireInv, Verb
<1>3. CmdInv' /\ LogInv' /\ OwnInv'
  BY <1>1 DEF CommandsInv, CmdInv, LogInv, OwnInv, Verb
<1>4. RotateInv'
  <2>1. \A q \in Procs : (Rotated(q)' => Rotated(q)) /\ (DetailOf(q) => DetailOf(q)')
    BY <1>1, OthersStay
  <2>2. \A q \in Procs : OnDisk(q) => OnDisk(q)'
    BY <1>1 DEF OnDisk
  <2> QED BY <1>1, <2>1, <2>2 DEF CommandsInv, RotateInv
<1>5. PutInv'
  <2>1. \A q \in Procs : Stored(q)' => Stored(q)
    BY <1>1, OthersStay
  <2>2. \A q \in Procs : Kept(q) => Kept(q)'
    BY <1>1 DEF Kept, PutCut
  <2> QED BY <1>1, <2>1, <2>2 DEF CommandsInv, PutInv
<1> QED BY <1>2, <1>3, <1>4, <1>5 DEF CommandsInv

-----------------------------------------------------------------------------
(* The theorems                                                            *)

(* What is on disk is in the log.                                          *)
LEMMA DurableLogged ==
    ASSUME CommandsInv
    PROVE  \A i \in 1..durable : i \in DOMAIN log
<1>1. PICK S : log \in Seq(S)
  BY DEF CommandsInv, LogInv
<1>2. DOMAIN log = 1..Len(log) /\ Len(log) \in Nat /\ durable \in 0..Len(log)
  BY <1>1 DEF CommandsInv, LogInv
<1> QED BY <1>2

LEMMA InitInv == CommandsInit => CommandsInv
<1> SUFFICES ASSUME CommandsInit PROVE CommandsInv
  OBVIOUS
<1>1. /\ DOMAIN cmd = Procs /\ \A p \in Procs : cmd[p] = [pc |-> "idle"]
      /\ workload \in DOMAIN Workloads /\ log = <<>> /\ durable = 0 /\ faults = {}
  BY DEF CommandsInit, Init
<1>2. \A p \in Procs : cmd[p].pc = "idle" /\ "pc" \in DOMAIN cmd[p]
  BY <1>1
<1>3. CmdInv
  BY <1>1, <1>2 DEF CmdInv, Pcs, Ended
<1>4. WireInv
  BY DEF CommandsInit, WireInv
<1>5. LogInv /\ OwnInv
  <2>1. log \in Seq({}) /\ Len(log) = 0 /\ DOMAIN log = {}
    BY <1>1
  <2> QED BY <1>1, <2>1 DEF LogInv, OwnInv
<1>6. RotateInv
  BY <1>2 DEF RotateInv, Rotated, Finished
<1>7. PutInv
  <2>1. \A p \in Procs : ~Stored(p)
    BY <1>2 DEF Stored, Finished
  <2>2. files \in [Digests -> {Nil, "no JSON"} \cup Torn \cup Digests]
    BY DEF CommandsInit, Init
  <2> QED BY <1>1, <2>1, <2>2 DEF PutInv
<1> QED BY <1>3, <1>4, <1>5, <1>6, <1>7 DEF CommandsInv

LEMMA NextKeepsInv == CommandsInv /\ [Next]_vars => CommandsInv'
<1> SUFFICES ASSUME CommandsInv, [Next]_vars PROVE CommandsInv'
  OBVIOUS
<1>1. CASE UNCHANGED vars
  <2>1. UNCHANGED <<workload, log, durable, files, cmd, faults, wire>>
    BY <1>1 DEF vars, avars
  <2>2. CmdInv' /\ PutInv' /\ OnDirectory' = OnDirectory
    BY <2>1, LogStepsKeepCommands
  <2>3. WireInv' /\ LogInv' /\ OwnInv'
    BY <2>1 DEF CommandsInv, WireInv, LogInv, OwnInv, Verb
  <2>4. \A q \in Procs : (Rotated(q)' => Rotated(q)) /\ (DetailOf(q) => DetailOf(q)')
    BY <2>1, OthersStay
  <2>5. \A q \in Procs : OnDisk(q) => OnDisk(q)'
    BY <2>1 DEF OnDisk
  <2>6. RotateInv'
    BY <2>2, <2>4, <2>5 DEF CommandsInv, RotateInv
  <2> QED BY <2>2, <2>3, <2>6 DEF CommandsInv
<1>2. CASE Environment
  BY <1>2, AgentKeepsInv, StartKeepsInv, KillKeepsInv, ServeKeepsInv, NothingKeepsInv,
     DamageKeepsInv, CrashKeepsInv DEF Environment
<1>3. ASSUME NEW p \in Procs, CommandStep(p) PROVE CommandsInv'
  <2>1. CASE KeyStep(p) /\ UNCHANGED wire
    BY <2>1, RotateAppendKeepsInv, RotateReportKeepsInv, KeyReadsKeepInv DEF KeyStep
  <2>2. CASE PayloadStep(p) /\ UNCHANGED wire
    BY <2>2, PutOpenKeepsInv, PutWriteKeepsInv, PayloadReadsKeepInv DEF PayloadStep
  <2>3. CASE BlameStep(p) /\ UNCHANGED wire
    BY <2>3, BlameKeepsInv
  <2>4. CASE RemoteStep(p)
    BY <1>3, <2>4, RemoteKeepsInv DEF CommandStep
  <2> QED BY <1>3, <2>1, <2>2, <2>3, <2>4 DEF CommandStep
<1> QED BY <1>1, <1>2, <1>3 DEF Next

(* The invariant holds in every reachable state.                           *)
THEOREM Invariance == Spec => []CommandsInv
<1> QED BY InitInv, NextKeepsInv, PTL DEF Spec

(* As many ids as records, if no two records share one.                    *)
LEMMA DistinctCount ==
    ASSUME NEW s, NEW S, s \in Seq(S), \A i, j \in DOMAIN s : s[i].id = s[j].id => i = j
    PROVE  Cardinality(IdsIn(s)) = Len(s)
<1> DEFINE n == Len(s)
           f == [i \in 1..n |-> s[i].id]
<1>1. n \in Nat /\ DOMAIN s = 1..n
  OBVIOUS
<1>2. f \in Bijection(1..n, IdsIn(s))
  <2>1. \A i \in 1..n : f[i] \in IdsIn(s)
    BY <1>1 DEF IdsIn
  <2>2. \A i, j \in 1..n : f[i] = f[j] => i = j
    BY <1>1
  <2>3. \A id \in IdsIn(s) : \E i \in 1..n : f[i] = id
    BY <1>1 DEF IdsIn
  <2> HIDE DEF n
  <2> QED BY <2>1, <2>2, <2>3 DEF Bijection, Injection, Surjection, IsInjective
<1>3. IsFiniteSet(1..n) /\ Cardinality(1..n) = n
  <2> HIDE DEF n
  <2>1. IsFiniteSet(1..n) /\ Cardinality(1..n) = IF 1 > n THEN 0 ELSE n - 1 + 1
    BY <1>1, FS_Interval
  <2> QED BY <1>1, <2>1
<1> HIDE DEF n, f
<1>4. ExistsBijection(1..n, IdsIn(s))
  BY <1>2 DEF ExistsBijection
<1>5. Cardinality(IdsIn(s)) = n
  BY <1>3, <1>4, FS_Bijection
<1> QED BY <1>5 DEF n

(* Every variable has its type; ids in the log are unique, and what is on  *)
(* disk is part of it.                                                     *)
THEOREM TypeCorrect == Spec => []TypeOK
<1>1. CommandsInv => TypeOK
  <2> SUFFICES ASSUME CommandsInv PROVE TypeOK
    OBVIOUS
  <2>1. Cardinality(IdsIn(log)) = Len(log)
    BY DistinctCount DEF CommandsInv, LogInv
  <2>2. durable \in 0..Len(log)
    BY DEF CommandsInv, LogInv
  <2>3. \A p \in Procs : /\ cmd[p].pc \in Pcs
                          /\ cmd[p].pc # "idle" => cmd[p].run \in Work.runs[p]
    BY DEF CommandsInv, CmdInv
  <2>4. \A p \in Procs : wire[p] # Nil => cmd[p].run.verb \in RemoteVerbs
    BY DEF CommandsInv, WireInv, Verb
  <2> QED BY <2>1, <2>2, <2>3, <2>4 DEF TypeOK, CommandsInv, CmdInv, PutInv
<1> QED BY <1>1, Invariance, PTL

(* A rotation that was reported is on disk, and somebody holds the new     *)
(* secret (key_cmds.py:60-98).                                             *)
THEOREM RotationsStay == Spec => []RotationRecorded
<1>1. CommandsInv => RotationRecorded
  <2> SUFFICES ASSUME CommandsInv, NEW p \in Procs, Finished(p, "key rotate"),
                      cmd[p].exit = 0, OnDirectory
               PROVE  /\ p \in IdsIn(log)
                      /\ LET run == cmd[p].run
                             event == Fetch(log, p).event
                         IN  /\ event = cmd[p].detail
                             /\ <<event.old, event.new>> = <<run.old, run.new>>
                             /\ run.newSecret # Empty =>
                                  \E secret \in {run.newSecret, cmd[p].secret} \ {Nil} :
                                    event.newFingerprint = KeyFingerprint(run.new, secret)
    BY DEF RotationRecorded
  <2>1. DetailOf(p) /\ OnDisk(p)
    BY DEF CommandsInv, RotateInv, Rotated
  <2>2. PICK i \in 1..durable : log[i].id = p /\ log[i].event = cmd[p].detail
    BY <2>1 DEF OnDisk
  <2>3. i \in DOMAIN log /\ \A j \in DOMAIN log : log[j].id = p => j = i
    <3>1. i \in DOMAIN log
      BY DurableLogged
    <3> QED BY <2>2, <3>1 DEF CommandsInv, LogInv
  <2>4. SeqOf(log, p) = i
    BY <2>2, <2>3 DEF SeqOf
  <2>5. p \in IdsIn(log) /\ Fetch(log, p).event = cmd[p].detail
    BY <2>2, <2>3, <2>4 DEF IdsIn, Fetch
  <2>6. /\ cmd[p].detail.old = cmd[p].run.old /\ cmd[p].detail.new = cmd[p].run.new
        /\ cmd[p].detail.newFingerprint = KeyFingerprint(cmd[p].run.new, NewSecret(p, cmd[p].run))
        /\ cmd[p].run.newSecret = Nil => cmd[p].secret = p
    BY <2>1 DEF DetailOf, Finished
  <2>7. cmd[p].run.newSecret # Empty =>
          NewSecret(p, cmd[p].run) \in {cmd[p].run.newSecret, cmd[p].secret} \ {Nil}
    BY <2>6, NamesAssumption DEF NewSecret
  <2> QED BY <2>5, <2>6, <2>7
<1> QED BY <1>1, Invariance, PTL

(* A payload that was reported as stored is there, or being written again, *)
(* whoever puts, is killed or reads (payload_store.py:74-83).              *)
THEOREM PayloadsStay == Spec => []StoredStays
<1>1. CommandsInv => StoredStays
  <2> SUFFICES ASSUME CommandsInv, NEW p \in Procs, Finished(p, "payload put"),
                      cmd[p].exit = 0
               PROVE  \/ files[cmd[p].stored] = cmd[p].stored
                      \/ files[cmd[p].stored] = "rewritten" /\ PutCut(cmd[p].stored)
                      \/ faults \cap {"crash", "damage"} # {}
    BY DEF StoredStays
  <2>1. Kept(p)
    BY DEF CommandsInv, PutInv, Stored
  <2> QED BY <2>1 DEF Kept
<1> QED BY <1>1, Invariance, PTL

=============================================================================
