----------------------------- MODULE ReadsProofs -----------------------------
(***************************************************************************)
(* What the commands that read tell, for any workloads, processes and      *)
(* payloads: rotations, `key status` and `verify`, `show` and `log`.  The  *)
(* log only grows while nothing loses power, so that what a command read   *)
(* of it is some prefix, no shorter than when the command was started.     *)
(***************************************************************************)
EXTENDS CommandsProofs

Sound == "crash" \notin faults

RecordsOf(s) == {s[i] : i \in DOMAIN s}

(* The ledgers that p may have read.                                       *)
Since(p) ==
    IF "opened" \in DOMAIN cmd[p] THEN {SubSeq(log, 1, n) : n \in cmd[p].opened..Len(log)}
    ELSE {}

-----------------------------------------------------------------------------
(* Prefixes of the log                                                     *)

LEMMA PrefixFacts ==
    ASSUME NEW S, NEW s \in Seq(S), NEW n \in 0..Len(s)
    PROVE  /\ SubSeq(s, 1, n) \in Seq(S) /\ Len(SubSeq(s, 1, n)) = n
           /\ DOMAIN SubSeq(s, 1, n) = 1..n /\ 1..n \subseteq DOMAIN s
           /\ \A i \in 1..n : SubSeq(s, 1, n)[i] = s[i]
OBVIOUS

LEMMA WholePrefix ==
    ASSUME NEW S, NEW s \in Seq(S)
    PROVE  SubSeq(s, 1, Len(s)) = s
OBVIOUS

LEMMA LogFacts ==
    ASSUME LogInv
    PROVE  /\ Len(log) \in Nat /\ DOMAIN log = 1..Len(log)
           /\ SubSeq(log, 1, Len(log)) = log
           /\ \A n \in 0..Len(log) :
                /\ Len(SubSeq(log, 1, n)) = n /\ DOMAIN SubSeq(log, 1, n) = 1..n
                /\ 1..n \subseteq DOMAIN log
                /\ \A i \in 1..n : SubSeq(log, 1, n)[i] = log[i]
<1>1. PICK S : log \in Seq(S)
  BY DEF LogInv
<1> QED BY <1>1, PrefixFacts, WholePrefix

(* The log after a step that loses nothing.                                *)
Grows ==
    /\ Len(log) <= Len(log')
    /\ \A i \in DOMAIN log : i \in DOMAIN log' /\ log'[i] = log[i]
    /\ \A n \in 0..Len(log) : SubSeq(log', 1, n) = SubSeq(log, 1, n)

LEMMA AppendGrows ==
    ASSUME LogInv, NEW c, log' = Append(log, c)
    PROVE  Grows /\ Len(log') = Len(log) + 1
           /\ RecordsOf(log)' = RecordsOf(log) \cup {c}
<1>1. PICK S : log \in Seq(S)
  BY DEF LogInv
<1>2. log \in Seq(S \cup {c}) /\ c \in S \cup {c}
  BY <1>1
<1>3. /\ log' \in Seq(S \cup {c}) /\ Len(log') = Len(log) + 1
      /\ DOMAIN log' = 1..(Len(log) + 1) /\ log'[Len(log) + 1] = c
      /\ DOMAIN log = 1..Len(log) /\ Len(log) \in Nat
      /\ \A i \in DOMAIN log : log'[i] = log[i]
  BY <1>2
<1>4. ASSUME NEW n \in 0..Len(log)
      PROVE  SubSeq(log', 1, n) = SubSeq(log, 1, n)
  <2>1. n \in 0..Len(log')
    BY <1>3
  <2>2. \A i \in 1..n : i \in DOMAIN log
    BY <1>3
  <2> QED BY <1>2, <1>3, <2>1, <2>2
<1>5. RecordsOf(log)' = RecordsOf(log) \cup {c}
  <2>1. \A i \in DOMAIN log' : i \in DOMAIN log \/ i = Len(log) + 1
    BY <1>3
  <2>2. Len(log) + 1 \in DOMAIN log' /\ \A i \in DOMAIN log : i \in DOMAIN log'
    BY <1>3
  <2> QED BY <1>3, <2>1, <2>2 DEF RecordsOf
<1>6. Grows
  BY <1>3, <1>4 DEF Grows
<1> QED BY <1>3, <1>5, <1>6

LEMMA SameGrows ==
    ASSUME LogInv, log' = log
    PROVE  Grows /\ RecordsOf(log)' = RecordsOf(log)
BY LogFacts DEF Grows, RecordsOf

-----------------------------------------------------------------------------
(* What a step changes                                                     *)

(* A step of a command is its own: it moves no other command.              *)
LEMMA OwnStep ==
    ASSUME CommandsInv, NEW p \in Procs, CommandStep(p)
    PROVE  /\ DOMAIN cmd' = Procs /\ \A q \in Procs \ {p} : cmd'[q] = cmd[q]
           /\ UNCHANGED <<workload, faults>>
           /\ log' = log \/ RotateAppend(p)
<1>1. DOMAIN cmd = Procs /\ \E new : cmd' = [cmd EXCEPT ![p] = new]
  <2>1. ASSUME NEW changes, Goto(p, changes) PROVE \E new : cmd' = [cmd EXCEPT ![p] = new]
    BY <2>1 DEF Goto
  <2>2. ASSUME NEW exit, NEW printed, Return(p, exit, printed)
        PROVE  \E new : cmd' = [cmd EXCEPT ![p] = new]
    BY <2>2 DEF Return
  <2>3. Raise(p) => \E new : cmd' = [cmd EXCEPT ![p] = new]
    BY DEF Raise
  <2>4. KeyStep(p) => \E new : cmd' = [cmd EXCEPT ![p] = new]
    BY <2>1, <2>2 DEF KeyStep, RotateAppend, RotateReport, KeyStatus, VerifyFetch,
       VerifyRecord, NoSuchCapsule
  <2>5. ASSUME NEW digest, NEW rest, Resolve(p, digest, rest)
        PROVE  \E new : cmd' = [cmd EXCEPT ![p] = new]
    BY <2>1, <2>3, <2>5 DEF Resolve
  <2>6. PutOpen(p) \/ PutWrite(p) \/ ShowFetch(p) =>
          \E new : cmd' = [cmd EXCEPT ![p] = new]
    BY <2>1, <2>2 DEF PutOpen, PutWrite, ShowFetch, NoSuchCapsule
  <2>7. ShowResolve(p) \/ LogCount(p) \/ LogNext(p) \/ LogEnd(p) =>
          \E new : cmd' = [cmd EXCEPT ![p] = new]
    BY <2>1, <2>2, <2>5 DEF ShowResolve, LogCount, LogNext, LogEnd
  <2>8. BlameStep(p) => \E new : cmd' = [cmd EXCEPT ![p] = new]
    BY <2>1, <2>2 DEF BlameStep, BlameFetch, BlameGaps, BlameHop, BlameEnd, NoSuchCapsule
  <2>9. RemoteStep(p) => \E new : cmd' = [cmd EXCEPT ![p] = new]
    BY <2>1, <2>2, <2>3 DEF RemoteStep, RemoteSend, Receive, ReceiveNone, TimeOut, RemoteFindGaps
  <2> QED BY <2>4, <2>6, <2>7, <2>8, <2>9 DEF CommandStep, PayloadStep, CommandsInv, CmdInv
<1>2. UNCHANGED <<workload, faults>> /\ (log' = log \/ RotateAppend(p))
  <2>1. KeyStep(p) => UNCHANGED <<workload, faults>> /\ (log' = log \/ RotateAppend(p))
    BY DEF KeyStep, RotateAppend, RotateReport, KeyStatus, VerifyFetch, VerifyRecord
  <2>2. PayloadStep(p) => UNCHANGED <<workload, faults, log>>
    BY DEF PayloadStep, PutOpen, PutWrite, ShowFetch, ShowResolve, LogCount, LogNext, LogEnd
  <2>3. BlameStep(p) => UNCHANGED <<workload, faults, log>>
    BY DEF BlameStep, BlameFetch, BlameGaps, BlameHop, BlameEnd
  <2>4. RemoteStep(p) => UNCHANGED <<workload, faults, log>>
    BY DEF RemoteStep, RemoteSend, Receive, TimeOut, RemoteFindGaps
  <2> QED BY <2>1, <2>2, <2>3, <2>4 DEF CommandStep
<1> QED BY <1>1, <1>2

(* A command stays as it is, makes a step, is started or is killed.        *)
LEMMA StepKinds ==
    ASSUME CommandsInv, [Next]_vars, NEW q \in Procs
    PROVE  \/ cmd'[q] = cmd[q]
           \/ CommandStep(q)
           \/ Start(q)
           \/ cmd[q].pc \notin Ended /\ cmd'[q] = [run |-> cmd[q].run, pc |-> "killed"]
<1>1. CASE UNCHANGED vars
  BY <1>1 DEF vars, avars
<1>2. ASSUME NEW p \in Procs, CommandStep(p)
      PROVE  cmd'[q] = cmd[q] \/ CommandStep(q)
  BY <1>2, OwnStep
<1>3. DOMAIN cmd = Procs
  BY DEF CommandsInv, CmdInv
<1>4. CASE Environment
  <2>1. AgentAppend \/ Damage => cmd' = cmd
    BY DEF AgentAppend, Damage
  <2>2. ASSUME NEW p \in Procs, Serve(p) \/ ServeNothing(p) PROVE cmd' = cmd
    BY <2>2 DEF Serve, ServeAppend, ServeQuestion, ServeNothing, Lose, avars
  <2>3. ASSUME NEW p \in Procs, Start(p) PROVE cmd'[q] = cmd[q] \/ Start(q)
    BY <1>3, <2>3 DEF Start
  <2>4. \/ Killed(q) = cmd[q]
        \/ cmd[q].pc \notin Ended /\ Killed(q) = [run |-> cmd[q].run, pc |-> "killed"]
    BY DEF Killed
  <2>5. ASSUME NEW p \in Procs, Kill(p) PROVE cmd'[q] \in {cmd[q], Killed(q)}
    BY <1>3, <2>5 DEF Kill
  <2>6. Crash => cmd'[q] = Killed(q)
    BY DEF Crash
  <2> QED BY <1>4, <2>1, <2>2, <2>3, <2>4, <2>5, <2>6 DEF Environment
<1> QED BY <1>1, <1>2, <1>4 DEF Next

(* What is appended is of an agent, of a remote call or of a rotation.     *)
LEMMA LogSteps ==
    ASSUME CommandsInv, [Next]_vars
    PROVE  /\ Work' = Work /\ faults \subseteq faults'
           /\ \/ log' = log
              \/ \E c \in Capsules(Work) : c.id \notin IdsIn(log) /\ log' = Append(log, c)
              \/ \E p \in Procs : RotateAppend(p)
              \/ ~Sound' /\ \E n \in 0..Len(log) : log' = SubSeq(log, 1, n)
<1>1. CASE UNCHANGED vars
  BY <1>1 DEF vars, avars, Work
<1>2. ASSUME NEW p \in Procs, CommandStep(p)
      PROVE  Work' = Work /\ faults' = faults /\ (log' = log \/ RotateAppend(p))
  BY <1>2, OwnStep DEF Work
<1>3. CASE AgentAppend
  BY <1>3 DEF AgentAppend, AppendToLog, Capsules, Work
<1>4. ASSUME NEW p \in Procs, Start(p) \/ Kill(p)
      PROVE  Work' = Work /\ faults \subseteq faults' /\ log' = log
  BY <1>4 DEF Start, Kill, Fault, Work
<1>5. ASSUME NEW p \in Procs, Serve(p)
      PROVE  /\ Work' = Work /\ faults \subseteq faults'
             /\ \/ log' = log
                \/ \E c \in Capsules(Work) : c.id \notin IdsIn(log) /\ log' = Append(log, c)
  <2>1. CASE log' = log
    BY <1>5, <2>1 DEF Serve, ServeAppend, ServeQuestion, Lose, avars, Work
  <2>2. CASE log' # log
    <3> DEFINE c == cmd[p].run.capsule
    <3>1. /\ wire[p] # Nil /\ Verb(p) = "remote append" /\ UNCHANGED <<workload, faults>>
          /\ c.id \notin IdsIn(log) /\ log' = Append(log, c)
      BY <1>5, <2>2 DEF Serve, ServeAppend, ServeQuestion, Lose, avars, Request, Verb,
         AppendToLog
    <3>2. cmd[p].run \in Work.runs[p]
      BY <3>1 DEF CommandsInv, CmdInv, WireInv
    <3>3. c \in Sent(Work, p)
      BY <3>1, <3>2 DEF Sent, Verb
    <3>4. c \in Capsules(Work)
      BY <3>3 DEF Capsules
    <3> HIDE DEF c
    <3> QED BY <3>1, <3>4 DEF Work
  <2> QED BY <2>1, <2>2
<1>6. CASE Damage \/ \E p \in Procs : ServeNothing(p)
  BY <1>6 DEF Damage, ServeNothing, Fault, Work
<1>7. CASE Crash
  <2>1. PICK n \in durable..Len(log) : log' = SubSeq(log, 1, n)
    BY <1>7 DEF Crash
  <2>2. n \in 0..Len(log)
    BY LogFacts DEF CommandsInv, LogInv
  <2>3. ~Sound' /\ faults \subseteq faults' /\ Work' = Work
    BY <1>7 DEF Crash, Fault, Sound, Work
  <2> QED BY <2>1, <2>2, <2>3
<1> QED BY <1>1, <1>2, <1>3, <1>4, <1>5, <1>6, <1>7 DEF Next, Environment

LEMMA Growth ==
    ASSUME CommandsInv, [Next]_vars, Sound'
    PROVE  Sound /\ Grows
<1>1. Sound /\ LogInv
  BY LogSteps DEF Sound, CommandsInv
<1>2. ASSUME NEW p \in Procs, RotateAppend(p)
      PROVE  log' = log \/ \E c : log' = Append(log, c)
  BY <1>2 DEF RotateAppend, AppendToLog
<1> QED BY <1>1, <1>2, LogSteps, AppendGrows, SameGrows

(* The fields of a command after a step of it.                             *)
LEMMA GotoSets ==
    ASSUME CmdInv, NEW p \in Procs, NEW changes, Goto(p, changes)
    PROVE  /\ DOMAIN cmd'[p] = DOMAIN changes \cup DOMAIN cmd[p]
           /\ \A x \in DOMAIN changes : cmd'[p][x] = changes[x]
           /\ \A x \in DOMAIN cmd[p] \ DOMAIN changes : cmd'[p][x] = cmd[p][x]
<1> DEFINE new == changes ++ cmd[p]
<1>1. cmd'[p] = new
  BY DEF Goto, CmdInv
<1>2. /\ DOMAIN new = DOMAIN changes \cup DOMAIN cmd[p]
      /\ \A x \in DOMAIN changes : new[x] = changes[x]
      /\ \A x \in DOMAIN cmd[p] \ DOMAIN changes : new[x] = cmd[p][x]
  BY Overrides
<1> HIDE DEF new
<1> QED BY <1>1, <1>2

LEMMA ReturnSets ==
    ASSUME CmdInv, NEW p \in Procs, NEW exit, NEW printed, Return(p, exit, printed),
           {"run", "pc", "exit", "opened"} \cap DOMAIN printed = {}
    PROVE  /\ DOMAIN cmd'[p] = {"run", "pc", "exit", "opened"} \cup DOMAIN printed
           /\ cmd'[p].run = cmd[p].run /\ cmd'[p].pc = "done" /\ cmd'[p].exit = exit
           /\ cmd'[p].opened = cmd[p].opened
           /\ \A x \in DOMAIN printed : cmd'[p][x] = printed[x]
<1> DEFINE r == [run |-> cmd[p].run, pc |-> "done", exit |-> exit, opened |-> cmd[p].opened]
           new == r ++ printed
<1>1. cmd'[p] = new
  BY DEF Return, CmdInv
<1>2. DOMAIN r = {"run", "pc", "exit", "opened"} /\ r.run = cmd[p].run
      /\ r.pc = "done" /\ r.exit = exit /\ r.opened = cmd[p].opened
  OBVIOUS
<1> HIDE DEF r
<1>3. /\ DOMAIN new = DOMAIN r \cup DOMAIN printed
      /\ \A x \in DOMAIN r : new[x] = r[x]
      /\ \A x \in DOMAIN printed \ DOMAIN r : new[x] = printed[x]
  BY Overrides
<1> HIDE DEF new
<1>4. \A x \in DOMAIN printed : x \notin DOMAIN r
  BY <1>2
<1> QED BY <1>1, <1>2, <1>3, <1>4

LEMMA RaiseSets ==
    ASSUME CmdInv, NEW p \in Procs, Raise(p)
    PROVE  cmd'[p] = [run |-> cmd[p].run, pc |-> "raised"]
BY DEF Raise, CmdInv

LEMMA NoSuchSets ==
    ASSUME CmdInv, NEW p \in Procs, NEW exit, NoSuchCapsule(p, exit)
    PROVE  /\ DOMAIN cmd'[p] = {"run", "pc", "exit", "opened"}
           /\ cmd'[p].run = cmd[p].run /\ cmd'[p].pc = "done" /\ cmd'[p].exit = exit
           /\ cmd'[p].opened = cmd[p].opened
<1> DEFINE printed == <<>>
<1>1. DOMAIN printed = {} /\ Return(p, exit, printed)
  BY DEF NoSuchCapsule
<1> HIDE DEF printed
<1> QED BY <1>1, ReturnSets

(* A reader's next field, and what it prints, one record at a time.        *)
LEMMA ResolveSets ==
    ASSUME CmdInv, NEW p \in Procs, NEW digest, NEW rest, Resolve(p, digest, rest),
           "shown" \in DOMAIN cmd[p], "shown" \notin DOMAIN rest
    PROVE  \/ /\ cmd'[p] = [run |-> cmd[p].run, pc |-> "raised"]
              /\ cmd[p].payloads /\ "no JSON" \in Resolved(digest)
           \/ /\ DOMAIN cmd'[p] = DOMAIN rest \cup DOMAIN cmd[p]
              /\ \A x \in DOMAIN rest : cmd'[p][x] = rest[x]
              /\ \A x \in DOMAIN cmd[p] \ (DOMAIN rest \cup {"shown"}) :
                   cmd'[p][x] = cmd[p][x]
              /\ \/ cmd'[p].shown = cmd[p].shown
                 \/ /\ cmd[p].payloads
                    /\ \E content \in Digests :
                         cmd'[p].shown = cmd[p].shown \cup {Shown(digest, content)}
<1>1. ASSUME cmd[p].payloads, "no JSON" \in Resolved(digest), Raise(p)
      PROVE  cmd'[p] = [run |-> cmd[p].run, pc |-> "raised"]
  BY <1>1, RaiseSets
<1>2. ASSUME NEW content,
             Goto(p, [shown |-> cmd[p].shown \cup {Shown(digest, content)}] ++ rest)
      PROVE  /\ DOMAIN cmd'[p] = DOMAIN rest \cup DOMAIN cmd[p]
             /\ \A x \in DOMAIN rest : cmd'[p][x] = rest[x]
             /\ \A x \in DOMAIN cmd[p] \ (DOMAIN rest \cup {"shown"}) :
                  cmd'[p][x] = cmd[p][x]
             /\ cmd'[p].shown = cmd[p].shown \cup {Shown(digest, content)}
  <2> DEFINE one == [shown |-> cmd[p].shown \cup {Shown(digest, content)}]
             both == one ++ rest
  <2>1. DOMAIN one = {"shown"} /\ one.shown = cmd[p].shown \cup {Shown(digest, content)}
    OBVIOUS
  <2>2. Goto(p, both)
    BY <1>2
  <2> HIDE DEF one
  <2>3. /\ DOMAIN both = DOMAIN one \cup DOMAIN rest
        /\ \A x \in DOMAIN one : both[x] = one[x]
        /\ \A x \in DOMAIN rest \ DOMAIN one : both[x] = rest[x]
    BY Overrides
  <2> HIDE DEF both
  <2>4. /\ DOMAIN cmd'[p] = DOMAIN both \cup DOMAIN cmd[p]
        /\ \A x \in DOMAIN both : cmd'[p][x] = both[x]
        /\ \A x \in DOMAIN cmd[p] \ DOMAIN both : cmd'[p][x] = cmd[p][x]
    BY <2>2, GotoSets
  <2> QED BY <2>1, <2>3, <2>4
<1>3. ASSUME Goto(p, rest)
      PROVE  /\ DOMAIN cmd'[p] = DOMAIN rest \cup DOMAIN cmd[p]
             /\ \A x \in DOMAIN rest : cmd'[p][x] = rest[x]
             /\ \A x \in DOMAIN cmd[p] \ (DOMAIN rest \cup {"shown"}) :
                  cmd'[p][x] = cmd[p][x]
             /\ cmd'[p].shown = cmd[p].shown
  BY <1>3, GotoSets
<1> QED BY <1>1, <1>2, <1>3 DEF Resolve

(* A step goes on with the same command, returns or raises.                *)
Shapes(p) ==
    \/ \E changes : /\ Goto(p, changes)
                    /\ {"run", "opened", "payloads"} \cap DOMAIN changes = {}
                    /\ "pc" \in DOMAIN changes => changes.pc \in Pcs \ Ended
                    /\ "shown" \in DOMAIN changes => Verb(p) \in {"show", "log"}
    \/ \E exit, printed : /\ Return(p, exit, printed)
                          /\ {"run", "pc", "exit", "opened"} \cap DOMAIN printed = {}
                          /\ "shown" \in DOMAIN printed => Verb(p) \in {"show", "log"}
    \/ Raise(p)

LEMMA StepShapes ==
    ASSUME NEW p \in Procs, CommandStep(p)
    PROVE  Shapes(p)
<1>1. ASSUME NEW changes, Goto(p, changes),
             {"run", "opened", "payloads"} \cap DOMAIN changes = {},
             "pc" \in DOMAIN changes => changes.pc \in Pcs \ Ended,
             "shown" \in DOMAIN changes => Verb(p) \in {"show", "log"}
      PROVE  Shapes(p)
  BY <1>1 DEF Shapes
<1>2. ASSUME NEW exit, NEW printed, Return(p, exit, printed),
             {"run", "pc", "exit", "opened"} \cap DOMAIN printed = {},
             "shown" \in DOMAIN printed => Verb(p) \in {"show", "log"}
      PROVE  Shapes(p)
  BY <1>2 DEF Shapes
<1>3. ASSUME NEW exit, NoSuchCapsule(p, exit) PROVE Shapes(p)
  <2> DEFINE printed == <<>>
  <2>1. DOMAIN printed = {} /\ Return(p, exit, printed)
    BY <1>3 DEF NoSuchCapsule
  <2> HIDE DEF printed
  <2> QED BY <1>2, <2>1
<1>4. Raise(p) => Shapes(p)
  BY DEF Shapes
<1>5. ASSUME NEW digest, NEW rest, Resolve(p, digest, rest),
             {"run", "pc", "opened", "payloads"} \cap DOMAIN rest = {},
             Verb(p) \in {"show", "log"}
      PROVE  Shapes(p)
  <2>1. ASSUME NEW content,
               Goto(p, [shown |-> cmd[p].shown \cup {Shown(digest, content)}] ++ rest)
        PROVE  Shapes(p)
    <3> DEFINE one == [shown |-> cmd[p].shown \cup {Shown(digest, content)}]
               both == one ++ rest
    <3>1. DOMAIN one = {"shown"}
      OBVIOUS
    <3>2. Goto(p, both)
      BY <2>1
    <3> HIDE DEF one
    <3>3. DOMAIN both = DOMAIN one \cup DOMAIN rest
      BY Overrides
    <3> HIDE DEF both
    <3> QED BY <1>1, <1>5, <3>1, <3>2, <3>3
  <2>2. Goto(p, rest) => Shapes(p)
    BY <1>1, <1>5
  <2> QED BY <1>4, <1>5, <2>1, <2>2 DEF Resolve
<1> USE DEF Pcs, Ended, At, Verb
<1>6. CASE KeyStep(p)
  BY <1>1, <1>2, <1>3, <1>6 DEF KeyStep, RotateAppend, RotateReport, KeyStatus, VerifyFetch,
     VerifyRecord
<1>7. CASE PutOpen(p) \/ PutWrite(p) \/ ShowFetch(p) \/ LogCount(p) \/ LogEnd(p)
  BY <1>1, <1>2, <1>3, <1>7 DEF PutOpen, PutWrite, ShowFetch, LogCount, LogEnd
<1>8. CASE ShowResolve(p)
  <2> DEFINE rest == [todo |-> Tail(cmd[p].todo)]
  <2>1. {"run", "pc", "opened", "payloads"} \cap DOMAIN rest = {}
    OBVIOUS
  <2>2. \/ Resolve(p, Head(cmd[p].todo), rest)
        \/ Return(p, 0, [shown |-> cmd[p].shown, record |-> cmd[p].record])
    BY <1>8 DEF ShowResolve
  <2>3. Verb(p) = "show"
    BY <1>8 DEF ShowResolve
  <2> HIDE DEF rest
  <2> QED BY <1>2, <1>5, <2>1, <2>2, <2>3
<1>9. CASE LogNext(p)
  <2> DEFINE c == Store(p)[cmd[p].next]
             rest == [next |-> cmd[p].next + 1,
                      listed |-> IF Selected(cmd[p].run, c)
                                 THEN cmd[p].listed \cup {c.id} ELSE cmd[p].listed]
  <2>1. DOMAIN rest = {"next", "listed"}
    OBVIOUS
  <2>2. Resolve(p, c.reason, rest) \/ Goto(p, rest)
    BY <1>9 DEF LogNext
  <2>3. Verb(p) = "log"
    BY <1>9 DEF LogNext
  <2> HIDE DEF rest, c
  <2> QED BY <1>1, <1>5, <2>1, <2>2, <2>3
<1>10. CASE BlameStep(p)
  BY <1>1, <1>2, <1>3, <1>10 DEF BlameStep, BlameFetch, BlameGaps, BlameHop, BlameEnd
<1>11. CASE RemoteStep(p)
  BY <1>1, <1>2, <1>4, <1>11 DEF RemoteStep, RemoteSend, Receive, ReceiveNone,
     TimeOut, RemoteFindGaps
<1> QED BY <1>6, <1>7, <1>8, <1>9, <1>10, <1>11 DEF CommandStep, PayloadStep

(* A process runs one command, and what it found when it opened the ledger *)
(* it keeps until it ends.                                                 *)
LEMMA StepKeeps ==
    ASSUME CommandsInv, NEW p \in Procs, CommandStep(p)
    PROVE  /\ cmd'[p].run = cmd[p].run /\ cmd'[p].pc # "idle"
           /\ cmd'[p].pc \notin Ended =>
                \A x \in {"opened", "payloads"} :
                  x \in DOMAIN cmd[p] => x \in DOMAIN cmd'[p] /\ cmd'[p][x] = cmd[p][x]
           /\ "opened" \in DOMAIN cmd[p] /\ "opened" \in DOMAIN cmd'[p] =>
                cmd'[p].opened = cmd[p].opened
<1>1. /\ CmdInv /\ Shapes(p) /\ cmd[p].pc \notin Ended
      /\ {"run", "pc"} \subseteq DOMAIN cmd[p]
  <2>1. cmd[p].pc \notin Ended
    BY DEF CommandStep
  <2> QED BY <2>1, StepShapes DEF CommandsInv, CmdInv, Ended
<1>2. ASSUME NEW changes, Goto(p, changes),
             {"run", "opened", "payloads"} \cap DOMAIN changes = {},
             "pc" \in DOMAIN changes => changes.pc \in Pcs \ Ended
      PROVE  /\ cmd'[p].run = cmd[p].run /\ cmd'[p].pc \notin Ended
             /\ \A x \in {"opened", "payloads"} :
                  x \in DOMAIN cmd[p] => x \in DOMAIN cmd'[p] /\ cmd'[p][x] = cmd[p][x]
  BY <1>1, <1>2, GotoSets
<1>3. ASSUME NEW exit, NEW printed, Return(p, exit, printed),
             {"run", "pc", "exit", "opened"} \cap DOMAIN printed = {}
      PROVE  /\ cmd'[p].run = cmd[p].run /\ cmd'[p].pc = "done"
             /\ cmd'[p].opened = cmd[p].opened
  BY <1>1, <1>3, ReturnSets
<1>4. ASSUME Raise(p)
      PROVE  /\ cmd'[p].run = cmd[p].run /\ cmd'[p].pc = "raised"
             /\ "opened" \notin DOMAIN cmd'[p]
  <2>1. cmd'[p] = [run |-> cmd[p].run, pc |-> "raised"]
    BY <1>1, <1>4, RaiseSets
  <2> QED BY <2>1
<1> DEFINE Good ==
      /\ cmd'[p].run = cmd[p].run /\ cmd'[p].pc # "idle"
      /\ cmd'[p].pc \notin Ended =>
           \A x \in {"opened", "payloads"} :
             x \in DOMAIN cmd[p] => x \in DOMAIN cmd'[p] /\ cmd'[p][x] = cmd[p][x]
      /\ "opened" \in DOMAIN cmd[p] /\ "opened" \in DOMAIN cmd'[p] =>
           cmd'[p].opened = cmd[p].opened
<1>5. {"idle", "done", "raised"} \subseteq Ended
  BY DEF Ended
<1>6. ASSUME NEW changes, Goto(p, changes),
             {"run", "opened", "payloads"} \cap DOMAIN changes = {},
             "pc" \in DOMAIN changes => changes.pc \in Pcs \ Ended
      PROVE  Good
  BY <1>2, <1>5, <1>6
<1>7. ASSUME NEW exit, NEW printed, Return(p, exit, printed),
             {"run", "pc", "exit", "opened"} \cap DOMAIN printed = {}
      PROVE  Good
  BY <1>3, <1>5, <1>7
<1>8. ASSUME Raise(p) PROVE Good
  BY <1>4, <1>5, <1>8
<1>9. Good
  <2> HIDE DEF Good
  <2> QED BY <1>1, <1>6, <1>7, <1>8 DEF Shapes
<1> QED BY <1>9

LEMMA RunKept ==
    ASSUME CommandsInv, [Next]_vars, NEW q \in Procs, cmd[q].pc # "idle"
    PROVE  cmd'[q].run = cmd[q].run /\ cmd'[q].pc # "idle"
<1>1. CommandStep(q) => cmd'[q].run = cmd[q].run /\ cmd'[q].pc # "idle"
  BY StepKeeps
<1>2. ~Start(q)
  BY DEF Start
<1>3. cmd'[q] = [run |-> cmd[q].run, pc |-> "killed"] =>
        cmd'[q].run = cmd[q].run /\ cmd'[q].pc # "idle"
  OBVIOUS
<1> QED BY <1>1, <1>2, <1>3, StepKinds

-----------------------------------------------------------------------------
(* The records of the log                                                  *)

(* A record is an agent's or a remote caller's, or the event of a rotation *)
(* as the process with its id builds it.                                   *)
Recorded(c) ==
    \/ c \in Capsules(Work)
    \/ /\ c.id \in Procs
       /\ cmd[c.id].pc # "idle"
       /\ Verb(c.id) = "key rotate"
       /\ \E t \in Times : c = RotationCapsule(c.id, cmd[c.id].run, t)

RecordInv == \A c \in RecordsOf(log) : Recorded(c)

LEMMA RotationAppended ==
    ASSUME CommandsInv, NEW p \in Procs, RotateAppend(p)
    PROVE  /\ cmd[p].pc = "open" /\ Verb(p) = "key rotate"
           /\ \/ log' = log /\ ~OnDirectory
              \/ \E t \in Times : log' = Append(log, RotationCapsule(p, cmd[p].run, t))
<1>1. cmd[p].pc = "open" /\ Verb(p) = "key rotate" /\ cmd[p].run \in Work.runs[p]
      /\ workload \in DOMAIN Workloads
  BY DEF RotateAppend, At, Verb, CommandsInv, CmdInv
<1>2. cmd[p].run.at \in Times \cup {Nil}
  BY <1>1, RunsAssumption DEF Work, Verb
<1>3. PICK t \in IF cmd[p].run.at = Nil THEN Times ELSE {cmd[p].run.at} :
        IF OnDirectory THEN AppendToLog(RotationCapsule(p, cmd[p].run, t), TRUE)
        ELSE UNCHANGED <<log, durable>>
  BY DEF RotateAppend
<1>4. t \in Times
  BY <1>2
<1> QED BY <1>1, <1>3, <1>4 DEF AppendToLog

LEMMA RecordStays ==
    ASSUME CommandsInv, [Next]_vars, NEW c, Recorded(c)
    PROVE  Recorded(c)'
BY LogSteps, RunKept DEF Recorded, Verb

LEMMA RecordInductive == CommandsInv /\ RecordInv /\ [Next]_vars => RecordInv'
<1> SUFFICES ASSUME CommandsInv, RecordInv, [Next]_vars, NEW c \in RecordsOf(log)'
             PROVE  Recorded(c)'
  BY DEF RecordInv
<1>1. CASE c \in RecordsOf(log)
  BY <1>1, RecordStays DEF RecordInv
<1>2. ASSUME NEW d \in Capsules(Work), log' = Append(log, d) PROVE Recorded(c)'
  <2>1. c \in RecordsOf(log) \cup {d}
    BY <1>2, AppendGrows DEF CommandsInv
  <2>2. Recorded(d)
    BY DEF Recorded
  <2> QED BY <1>1, <2>1, <2>2, RecordStays
<1>3. ASSUME NEW p \in Procs, RotateAppend(p) PROVE Recorded(c)'
  <2>1. ASSUME NEW t \in Times, log' = Append(log, RotationCapsule(p, cmd[p].run, t))
        PROVE  Recorded(c)'
    <3> DEFINE d == RotationCapsule(p, cmd[p].run, t)
    <3>1. c \in RecordsOf(log) \cup {d}
      BY <2>1, AppendGrows DEF CommandsInv
    <3>2. d.id = p
      BY DEF RotationCapsule, EventCapsule
    <3>3. d = RotationCapsule(p, cmd[p].run, t)
      OBVIOUS
    <3> HIDE DEF d
    <3>4. Recorded(d)
      BY <1>3, <3>2, <3>3, RotationAppended DEF Recorded
    <3> QED BY <1>1, <3>1, <3>4, RecordStays
  <2> QED BY <1>1, <1>3, <2>1, RotationAppended
<1>4. ASSUME NEW n \in 0..Len(log), log' = SubSeq(log, 1, n) PROVE Recorded(c)'
  <2>1. DOMAIN log' = 1..n /\ 1..n \subseteq DOMAIN log /\ \A i \in 1..n : log'[i] = log[i]
    BY <1>4, LogFacts DEF CommandsInv
  <2>2. c \in RecordsOf(log)
    BY <2>1 DEF RecordsOf
  <2> QED BY <1>1, <2>2
<1> QED BY <1>1, <1>2, <1>3, <1>4, LogSteps

LEMMA RecordsHold == Spec => [](CommandsInv /\ RecordInv)
<1>1. CommandsInit => RecordInv
  BY DEF CommandsInit, Init, RecordInv, RecordsOf
<1> QED BY <1>1, RecordInductive, Invariance, PTL DEF Spec

(* What a record is like.                                                  *)
LEMMA RecordFacts ==
    ASSUME CommandsInv, NEW c, Recorded(c)
    PROVE  /\ c # Nil /\ c.ts \in Nat /\ c.intact \in BOOLEAN
           /\ c.reason \in Digests \cup {Nil} /\ c.evidence \in Seq(Digests)
           /\ c.id \notin Procs => c \in Capsules(Work) /\ c.event = Nil
           /\ c.id \in Procs =>
                /\ Verb(c.id) = "key rotate" /\ cmd[c.id].pc # "idle"
                /\ c.event # Nil /\ c.intact /\ c.key = c.event.old /\ c.ts = c.event.at
                /\ c.event.old = cmd[c.id].run.old
<1>1. workload \in DOMAIN Workloads
  BY DEF CommandsInv, CmdInv
<1>2. CASE c \in Capsules(Work)
  <2>1. PlainCapsule(c)
    BY <1>1, <1>2, CapsulesAssumption DEF Work
  <2> QED BY <1>2, <2>1, TimesAssumption DEF PlainCapsule
<1>3. CASE c \notin Capsules(Work)
  <2> DEFINE p == c.id
  <2>1. /\ p \in Procs /\ cmd[p].pc # "idle" /\ Verb(p) = "key rotate"
        /\ \E t \in Times : c = RotationCapsule(p, cmd[p].run, t)
    BY <1>3 DEF Recorded
  <2>2. PICK t \in Times : c = RotationCapsule(p, cmd[p].run, t)
    BY <2>1
  <2>3. cmd[p].run \in Work.runs[p]
    BY <2>1 DEF CommandsInv, CmdInv
  <2>4. c # Nil /\ Detail(p, cmd[p].run, t) # Nil
    <3> DEFINE run == cmd[p].run
    <3>1. run \in Workloads[workload].runs[p] /\ run.verb = "key rotate"
      BY <2>1, <2>3 DEF Work, Verb
    <3> HIDE DEF p, run
    <3>2. Nil \notin {Detail(p, run, t), RotationCapsule(p, run, t)}
      BY <1>1, <2>1, <3>1, RunsAssumption
    <3> QED BY <2>2, <3>2 DEF run
  <2>5. /\ c.ts = t /\ c.intact = TRUE /\ c.reason = Nil /\ c.evidence = <<>>
        /\ c.key = cmd[p].run.old /\ c.event = Detail(p, cmd[p].run, t)
    <3> HIDE DEF p
    <3> QED BY <2>2 DEF RotationCapsule, EventCapsule
  <2>6. c.event.old = cmd[p].run.old /\ c.event.at = t
    BY <2>5 DEF Detail
  <2>7. <<>> \in Seq(Digests)
    OBVIOUS
  <2> QED BY <2>1, <2>4, <2>5, <2>6, <2>7, TimesAssumption
<1> QED BY <1>2, <1>3

-----------------------------------------------------------------------------
(* Rotations in force                                                      *)

(* The verdict on a record of a key that was rotated once, or never.       *)
LEMMA VerdictsOnce ==
    ASSUME NEW s, NEW c, NEW i, Rotations(s, c.key) = {i}
    PROVE  Verdicts(s, c) = {c.intact /\ c.ts <= s[i].event.at}
<1>1. RevokedAt(s, c.key) = {s[i].event.at}
  BY DEF RevokedAt
<1> QED BY <1>1 DEF Verdicts

LEMMA VerdictsNever ==
    ASSUME NEW s, NEW c, Rotations(s, c.key) = {}
    PROVE  Verdicts(s, c) = {c.intact}
BY DEF Verdicts, RevokedAt

(* A rotation event stands up to the fence it puts up itself, unless its   *)
(* key is rotated again (key_cmds.py:66, 85).                              *)
THEOREM RotationsVerify == Spec => []RotationVerifies
<1>1. CommandsInv /\ RecordInv => RotationVerifies
  <2> SUFFICES ASSUME CommandsInv, RecordInv, NEW i \in DOMAIN log,
                      log[i].event # Nil,
                      Cardinality(Rotations(log, log[i].event.old)) = 1
               PROVE  Verdicts(log, log[i]) = {TRUE}
    BY DEF RotationVerifies
  <2> DEFINE c == log[i]
  <2>1. Recorded(c)
    BY DEF RecordInv, RecordsOf
  <2>2. c.intact = TRUE /\ c.key = c.event.old /\ c.ts = c.event.at /\ c.ts \in Nat
    BY <2>1, RecordFacts
  <2>3. IsFiniteSet(Rotations(log, c.key))
    <3>1. DOMAIN log = 1..Len(log) /\ Len(log) \in Nat
      BY LogFacts DEF CommandsInv
    <3>2. IsFiniteSet(DOMAIN log)
      BY <3>1, FS_Interval
    <3>3. Rotations(log, c.key) \subseteq DOMAIN log
      BY DEF Rotations
    <3> QED BY <3>2, <3>3, FS_Subset
  <2>4. \E x : Rotations(log, c.key) = {x}
    BY <2>2, <2>3, FS_Singleton
  <2>5. i \in Rotations(log, c.key)
    BY <2>2 DEF Rotations
  <2>6. Rotations(log, c.key) = {i}
    BY <2>4, <2>5
  <2>7. Verdicts(log, c) = {c.intact /\ c.ts <= c.event.at}
    BY <2>6, VerdictsOnce
  <2>8. c.ts <= c.event.at
    BY <2>2
  <2> QED BY <2>2, <2>7, <2>8
<1> QED BY <1>1, RecordsHold, PTL

-----------------------------------------------------------------------------
(* When a command was started                                              *)

(* A command that runs knows how much there was when it opened the ledger, *)
(* and has a payload store only on a directory.                            *)
OpenedInv ==
    \A p \in Procs :
        /\ cmd[p].pc \notin Ended =>
             /\ {"opened", "payloads"} \subseteq DOMAIN cmd[p]
             /\ cmd[p].payloads => OnDirectory
        /\ Sound /\ "opened" \in DOMAIN cmd[p] => cmd[p].opened \in 0..Len(log)

(* Started: refused, or open.                                              *)
LEMMA StartSets ==
    ASSUME CmdInv, NEW p \in Procs, Start(p)
    PROVE  /\ cmd[p].pc = "idle" /\ UNCHANGED <<workload, log, durable, files, faults>>
           /\ \/ /\ DOMAIN cmd'[p] = {"run", "pc", "exit"}
                 /\ cmd'[p].pc = "done" /\ cmd'[p].exit = 2
              \/ /\ DOMAIN cmd'[p] = {"run", "pc", "opened", "copy", "payloads"}
                 /\ cmd'[p].pc = "open" /\ cmd'[p].opened = Len(log)
                 /\ cmd'[p].payloads = LocalPayloadStore
<1>1. ASSUME NEW run, cmd' = [cmd EXCEPT ![p] = [run |-> run, pc |-> "done", exit |-> 2]]
      PROVE  /\ DOMAIN cmd'[p] = {"run", "pc", "exit"}
             /\ cmd'[p].pc = "done" /\ cmd'[p].exit = 2
  <2> DEFINE new == [run |-> run, pc |-> "done", exit |-> 2]
  <2>1. cmd'[p] = new
    BY <1>1 DEF CmdInv
  <2>2. DOMAIN new = {"run", "pc", "exit"} /\ new.pc = "done" /\ new.exit = 2
    OBVIOUS
  <2> HIDE DEF new
  <2> QED BY <2>1, <2>2
<1>2. ASSUME NEW run, NEW copy,
             cmd' = [cmd EXCEPT ![p] = [run |-> run, pc |-> "open", opened |-> Len(log),
                                        copy |-> copy, payloads |-> LocalPayloadStore]]
      PROVE  /\ DOMAIN cmd'[p] = {"run", "pc", "opened", "copy", "payloads"}
             /\ cmd'[p].pc = "open" /\ cmd'[p].opened = Len(log)
             /\ cmd'[p].payloads = LocalPayloadStore
  <2> DEFINE new == [run |-> run, pc |-> "open", opened |-> Len(log),
                     copy |-> copy, payloads |-> LocalPayloadStore]
  <2>1. cmd'[p] = new
    BY <1>2 DEF CmdInv
  <2>2. /\ DOMAIN new = {"run", "pc", "opened", "copy", "payloads"}
        /\ new.pc = "open" /\ new.opened = Len(log) /\ new.payloads = LocalPayloadStore
    OBVIOUS
  <2> HIDE DEF new
  <2> QED BY <2>1, <2>2
<1> QED BY <1>1, <1>2 DEF Start

LEMMA OpenedInductive == CommandsInv /\ OpenedInv /\ [Next]_vars => OpenedInv'
<1> SUFFICES ASSUME CommandsInv, OpenedInv, [Next]_vars, NEW q \in Procs
             PROVE  /\ cmd'[q].pc \notin Ended =>
                         /\ {"opened", "payloads"} \subseteq DOMAIN cmd'[q]
                         /\ cmd'[q].payloads => OnDirectory'
                    /\ Sound' /\ "opened" \in DOMAIN cmd'[q] =>
                         cmd'[q].opened \in 0..Len(log')
  BY DEF OpenedInv
<1>1. CmdInv /\ LogInv /\ OnDirectory' = OnDirectory /\ Len(log) \in Nat
  BY LogSteps, LogFacts DEF CommandsInv, OnDirectory
<1>2. Sound' => Sound /\ Len(log) <= Len(log') /\ Len(log') \in Nat
  <2>1. LogInv'
    BY NextKeepsInv DEF CommandsInv
  <2>2. Len(log') \in Nat
    BY <2>1 DEF LogInv
  <2> QED BY <2>2, Growth DEF Grows
<1>3. CASE cmd'[q] = cmd[q]
  BY <1>1, <1>2, <1>3 DEF OpenedInv
<1>4. CASE CommandStep(q)
  <2>1. cmd[q].pc \notin Ended
    BY <1>4 DEF CommandStep
  <2>2. /\ {"opened", "payloads"} \subseteq DOMAIN cmd[q]
        /\ cmd[q].payloads => OnDirectory
        /\ Sound => cmd[q].opened \in 0..Len(log)
    BY <2>1 DEF OpenedInv
  <2> QED BY <1>1, <1>2, <1>4, <2>2, StepKeeps
<1>5. CASE Start(q)
  <2>1. UNCHANGED log /\ "done" \in Ended
    BY <1>1, <1>5, StartSets DEF Ended
  <2>2. LocalPayloadStore => OnDirectory
    BY DEF LocalPayloadStore
  <2> QED BY <1>1, <1>5, <2>1, <2>2, StartSets
<1>6. CASE cmd'[q] = [run |-> cmd[q].run, pc |-> "killed"]
  <2>1. cmd'[q].pc \in Ended /\ "opened" \notin DOMAIN cmd'[q]
    BY <1>6 DEF Ended
  <2> QED BY <2>1
<1> QED BY <1>3, <1>4, <1>5, <1>6, StepKinds

LEMMA OpenedHold == Spec => [](CommandsInv /\ OpenedInv)
<1>1. CommandsInit => OpenedInv
  <2>1. ASSUME CommandsInit, NEW p \in Procs
        PROVE  cmd[p].pc \in Ended /\ "opened" \notin DOMAIN cmd[p]
    <3>1. cmd[p] = [pc |-> "idle"]
      BY <2>1 DEF CommandsInit, Init
    <3> QED BY <3>1 DEF Ended
  <2> QED BY <2>1 DEF OpenedInv
<1> QED BY <1>1, OpenedInductive, Invariance, PTL DEF Spec

LEMMA SinceFacts ==
    ASSUME CommandsInv, OpenedInv, Sound, NEW p \in Procs, NEW s \in Since(p)
    PROVE  /\ cmd[p].opened \in 0..Len(log)
           /\ \E n \in cmd[p].opened..Len(log) :
                /\ n \in 0..Len(log) /\ s = SubSeq(log, 1, n)
                /\ Len(s) = n /\ DOMAIN s = 1..n /\ 1..n \subseteq DOMAIN log
                /\ \A i \in 1..n : s[i] = log[i]
<1>1. "opened" \in DOMAIN cmd[p] /\ \E n \in cmd[p].opened..Len(log) : s = SubSeq(log, 1, n)
  BY DEF Since
<1>2. cmd[p].opened \in 0..Len(log) /\ Len(log) \in Nat
  BY <1>1, LogFacts DEF OpenedInv, CommandsInv
<1>3. \A n \in cmd[p].opened..Len(log) : n \in 0..Len(log)
  BY <1>2
<1> QED BY <1>1, <1>2, <1>3, LogFacts DEF CommandsInv

(* What a command has read it may have read, also when there is more.      *)
LEMMA SinceStays ==
    ASSUME CommandsInv, OpenedInv, [Next]_vars, Sound', NEW p \in Procs, NEW s \in Since(p),
           "opened" \in DOMAIN cmd'[p], cmd'[p].opened = cmd[p].opened
    PROVE  s \in Since(p)'
<1>1. Sound /\ Grows /\ Len(log') \in Nat
  <2>1. LogInv'
    BY NextKeepsInv DEF CommandsInv
  <2> QED BY <2>1, Growth DEF LogInv
<1>2. PICK n \in cmd[p].opened..Len(log) : n \in 0..Len(log) /\ s = SubSeq(log, 1, n)
  BY <1>1, SinceFacts
<1>3. cmd[p].opened \in 0..Len(log) /\ Len(log) \in Nat
  BY <1>1, SinceFacts, LogFacts DEF CommandsInv
<1>4. s = SubSeq(log', 1, n) /\ n \in cmd'[p].opened..Len(log')
  BY <1>1, <1>2, <1>3 DEF Grows
<1> QED BY <1>4 DEF Since

(* A step that reads the log reads one that the command may read.          *)
LEMMA SinceNow ==
    ASSUME CommandsInv, OpenedInv, Sound, NEW p \in Procs, CommandStep(p), UNCHANGED log,
           "opened" \in DOMAIN cmd'[p]
    PROVE  log \in Since(p)'
<1>1. cmd[p].pc \notin Ended
  BY DEF CommandStep
<1>2. cmd[p].opened \in 0..Len(log) /\ cmd'[p].opened = cmd[p].opened
  BY <1>1, StepKeeps DEF OpenedInv
<1>3. Len(log) \in Nat /\ SubSeq(log, 1, Len(log)) = log
  BY LogFacts DEF CommandsInv
<1>4. Len(log) \in cmd'[p].opened..Len(log') /\ log = SubSeq(log', 1, Len(log))
  BY <1>2, <1>3
<1> QED BY <1>4 DEF Since

(* The verb of a command says what it may do.                              *)
LEMMA VerbSteps ==
    ASSUME CommandsInv, NEW p \in Procs, CommandStep(p)
    PROVE  /\ Verb(p) = "key status" => KeyStatus(p)
           /\ Verb(p) = "verify" => VerifyFetch(p) \/ VerifyRecord(p)
           /\ Verb(p) = "show" => ShowFetch(p) \/ ShowResolve(p)
           /\ Verb(p) = "log" => LogCount(p) \/ LogNext(p) \/ LogEnd(p)
           /\ Verb(p) = "blame" => BlameStep(p)
           /\ Verb(p) \in RemoteVerbs => RemoteSend(p) \/ Receive(p) \/ TimeOut(p)
<1>1. cmd[p].pc = "sent" => Verb(p) \in RemoteVerbs
  BY DEF CommandsInv, CmdInv
<1>2. KeyStep(p) =>
        \/ Verb(p) = "key rotate"
        \/ Verb(p) = "key status" /\ KeyStatus(p)
        \/ Verb(p) = "verify" /\ (VerifyFetch(p) \/ VerifyRecord(p))
  BY DEF KeyStep, RotateAppend, RotateReport, KeyStatus, VerifyFetch, VerifyRecord, At, Verb
<1>3. PayloadStep(p) =>
        \/ Verb(p) = "payload put"
        \/ Verb(p) = "show" /\ (ShowFetch(p) \/ ShowResolve(p))
        \/ Verb(p) = "log" /\ (LogCount(p) \/ LogNext(p) \/ LogEnd(p))
  BY DEF PayloadStep, PutOpen, PutWrite, ShowFetch, ShowResolve, LogCount, LogNext, LogEnd,
     At, Verb
<1>4. BlameStep(p) => Verb(p) = "blame"
  BY DEF BlameStep, BlameFetch, BlameGaps, BlameHop, BlameEnd, At, Verb
<1>5. RemoteStep(p) =>
        \/ Verb(p) = "remote find_gaps"
        \/ Verb(p) \in RemoteVerbs /\ (RemoteSend(p) \/ Receive(p) \/ TimeOut(p))
  BY <1>1 DEF RemoteStep, RemoteSend, Receive, TimeOut, RemoteFindGaps, At, Verb
<1> QED BY <1>2, <1>3, <1>4, <1>5 DEF CommandStep, RemoteVerbs

-----------------------------------------------------------------------------
(* verify and key status                                                   *)

(* A verify has judged a record by the ledger as it was at some moment of  *)
(* the call, and status has read the rotations of such a ledger.           *)
VerifyTold(p) ==
    \E s \in Since(p) : \E ok \in Verdicts(s, cmd[p].record) :
      /\ cmd[p].record \in RecordsOf(s)
      /\ cmd[p].exit = IF ok THEN 0 ELSE 1

StatusTold(p) ==
    \E s \in Since(p) : cmd[p].revoked = {k \in KeysOf(s) : RevokedAt(s, k) # {}}

KeyInv ==
    Sound /\ OnDirectory => \A p \in Procs :
        /\ Verb(p) = "verify" /\ cmd[p].pc = "fetched" => cmd[p].run.target \in IdsIn(log)
        /\ Finished(p, "verify") /\ cmd[p].exit # 2 => VerifyTold(p)
        /\ Finished(p, "key status") /\ cmd[p].exit = 0 => StatusTold(p)

LEMMA FetchFacts ==
    ASSUME NEW s, NEW id \in IdsIn(s)
    PROVE  /\ SeqOf(s, id) \in DOMAIN s /\ s[SeqOf(s, id)].id = id
           /\ Fetch(s, id) \in RecordsOf(s) /\ Fetch(s, id).id = id
<1>1. \E i \in DOMAIN s : s[i].id = id
  BY DEF IdsIn
<1>2. SeqOf(s, id) \in DOMAIN s /\ s[SeqOf(s, id)].id = id
  BY <1>1 DEF SeqOf
<1> QED BY <1>2 DEF Fetch, RecordsOf

(* Ids that are there stay there.                                          *)
LEMMA IdsStay ==
    ASSUME Grows
    PROVE  /\ IdsIn(log) \subseteq IdsIn(log)'
           /\ RecordsOf(log) \subseteq RecordsOf(log)'
BY DEF Grows, IdsIn, RecordsOf

LEMMA VerifyKeeps ==
    ASSUME CommandsInv, OpenedInv, KeyInv, Sound, OnDirectory,
           NEW p \in Procs, CommandStep(p), Verb(p) = "verify"
    PROVE  /\ UNCHANGED log
           /\ cmd'[p].pc = "fetched" => cmd[p].run.target \in IdsIn(log)
           /\ cmd'[p].pc = "done" /\ cmd'[p].exit # 2 => VerifyTold(p)'
<1>1. CmdInv /\ Store(p) = log
  BY DEF CommandsInv, Store
<1>2. CASE VerifyFetch(p)
  <2>1. ASSUME NoSuchCapsule(p, 2) PROVE cmd'[p].pc = "done" /\ cmd'[p].exit = 2
    BY <1>1, <2>1, NoSuchSets
  <2>2. ASSUME Goto(p, [pc |-> "fetched"]) PROVE cmd'[p].pc = "fetched"
    <3> DEFINE changes == [pc |-> "fetched"]
    <3>1. DOMAIN changes = {"pc"} /\ changes.pc = "fetched" /\ Goto(p, changes)
      BY <2>2
    <3> HIDE DEF changes
    <3> QED BY <1>1, <3>1, GotoSets
  <2> QED BY <1>1, <1>2, <2>1, <2>2 DEF VerifyFetch
<1>3. CASE VerifyRecord(p)
  <2> DEFINE c == Fetch(log, cmd[p].run.target)
             printed == [record |-> c]
  <2>1. cmd[p].pc = "fetched" /\ UNCHANGED log
    BY <1>3 DEF VerifyRecord, At
  <2>2. c \in RecordsOf(log)
    BY <2>1, FetchFacts DEF KeyInv
  <2>3. PICK ok \in Verdicts(log, c) : Return(p, IF ok THEN 0 ELSE 1, printed)
    BY <1>1, <1>3 DEF VerifyRecord
  <2>4. DOMAIN printed = {"record"} /\ printed.record = c
    OBVIOUS
  <2> HIDE DEF c, printed
  <2>5. /\ cmd'[p].pc = "done" /\ cmd'[p].exit = (IF ok THEN 0 ELSE 1)
        /\ cmd'[p].record = c /\ "opened" \in DOMAIN cmd'[p]
    BY <1>1, <2>3, <2>4, ReturnSets
  <2>6. log \in Since(p)'
    BY <2>1, <2>5, SinceNow
  <2> QED BY <2>1, <2>2, <2>3, <2>5, <2>6 DEF VerifyTold
<1> QED BY <1>2, <1>3, VerbSteps

LEMMA StatusKeeps ==
    ASSUME CommandsInv, OpenedInv, Sound, OnDirectory,
           NEW p \in Procs, CommandStep(p), Verb(p) = "key status"
    PROVE  cmd'[p].pc = "done" /\ StatusTold(p)'
<1>1. CmdInv /\ Store(p) = log
  BY DEF CommandsInv, Store
<1> DEFINE revoked == {k \in KeysOf(log) : RevokedAt(log, k) # {}}
           live == {k \in KeysOf(log) : RevokedAt(log, k) = {}}
           printed == [revoked |-> revoked, live |-> live]
<1>2. Return(p, 0, printed) /\ UNCHANGED log
  BY <1>1, VerbSteps DEF KeyStatus
<1>3. DOMAIN printed = {"revoked", "live"} /\ printed.revoked = revoked
  OBVIOUS
<1> HIDE DEF printed, revoked, live
<1>4. cmd'[p].pc = "done" /\ cmd'[p].revoked = revoked /\ "opened" \in DOMAIN cmd'[p]
  BY <1>1, <1>2, <1>3, ReturnSets
<1>5. log \in Since(p)'
  BY <1>2, <1>4, SinceNow
<1> QED BY <1>4, <1>5 DEF StatusTold, revoked

LEMMA KeyInductive == CommandsInv /\ OpenedInv /\ KeyInv /\ [Next]_vars => KeyInv'
<1> SUFFICES ASSUME CommandsInv, OpenedInv, KeyInv, [Next]_vars, Sound', OnDirectory',
                    NEW q \in Procs
             PROVE  /\ Verb(q)' = "verify" /\ cmd'[q].pc = "fetched" =>
                         cmd'[q].run.target \in IdsIn(log)'
                    /\ Finished(q, "verify")' /\ cmd'[q].exit # 2 => VerifyTold(q)'
                    /\ Finished(q, "key status")' /\ cmd'[q].exit = 0 => StatusTold(q)'
  BY DEF KeyInv
<1>1. Sound /\ Grows /\ OnDirectory
  BY Growth, LogSteps DEF OnDirectory
<1>2. IdsIn(log) \subseteq IdsIn(log)'
  BY <1>1, IdsStay
<1>3. CASE cmd'[q] = cmd[q]
  <2>1. /\ Verb(q) = "verify" /\ cmd[q].pc = "fetched" => cmd[q].run.target \in IdsIn(log)
        /\ Finished(q, "verify") /\ cmd[q].exit # 2 => VerifyTold(q)
        /\ Finished(q, "key status") /\ cmd[q].exit = 0 => StatusTold(q)
    BY <1>1 DEF KeyInv
  <2>2. Since(q) \subseteq Since(q)'
    BY <1>3, SinceStays DEF Since
  <2>3. VerifyTold(q) => VerifyTold(q)'
    BY <1>3, <2>2 DEF VerifyTold
  <2>4. StatusTold(q) => StatusTold(q)'
    BY <1>3, <2>2 DEF StatusTold
  <2> QED BY <1>2, <1>3, <2>1, <2>3, <2>4 DEF Finished, Verb
<1>4. CASE CommandStep(q)
  <2>1. cmd'[q].run = cmd[q].run
    BY <1>4, StepKeeps
  <2>2. CASE Verb(q) = "verify"
    BY <1>1, <1>2, <1>4, <2>1, <2>2, VerifyKeeps DEF Finished, Verb
  <2>3. CASE Verb(q) = "key status"
    BY <1>1, <1>4, <2>1, <2>3, StatusKeeps DEF Finished, Verb
  <2>4. CASE Verb(q) \notin {"verify", "key status"}
    BY <2>1, <2>4 DEF Finished, Verb
  <2> QED BY <2>2, <2>3, <2>4
<1>5. CASE Start(q)
  <2>1. /\ cmd'[q].pc # "fetched"
        /\ cmd'[q].pc = "done" => cmd'[q].exit = 2
    BY <1>5, StartSets DEF CommandsInv
  <2>2. cmd'[q].pc = "done" => cmd'[q].exit # 0
    BY <2>1
  <2> QED BY <2>1, <2>2 DEF Finished
<1>6. CASE cmd'[q] = [run |-> cmd[q].run, pc |-> "killed"]
  <2>1. cmd'[q].pc = "killed"
    BY <1>6
  <2> QED BY <2>1 DEF Finished
<1> QED BY <1>3, <1>4, <1>5, <1>6, StepKinds

LEMMA KeyHolds == Spec => [](CommandsInv /\ RecordInv /\ OpenedInv /\ KeyInv)
<1>1. CommandsInit => KeyInv
  <2>1. ASSUME CommandsInit, NEW p \in Procs PROVE cmd[p].pc = "idle"
    <3>1. cmd[p] = [pc |-> "idle"]
      BY <2>1 DEF CommandsInit, Init
    <3> QED BY <3>1
  <2> QED BY <2>1 DEF KeyInv, Finished
<1> QED BY <1>1, KeyInductive, RecordsHold, OpenedHold, PTL DEF Spec

(* The rotations of a prefix are those of the log that are in it.          *)
LEMMA PrefixRotations ==
    ASSUME NEW n \in Nat, NEW s, DOMAIN s = 1..n, 1..n \subseteq DOMAIN log,
           \A i \in 1..n : s[i] = log[i], NEW k
    PROVE  Rotations(s, k) = Rotations(log, k) \cap 1..n
BY DEF Rotations

(* A rotation is seen by every verify and status that starts after it, and *)
(* by none if there was none (key_cmds.py:69-87, 108, verify_cmd.py:57-82).*)
THEOREM RotationsSeen == Spec => []RotationSeen
<1>1. CommandsInv /\ RecordInv /\ OpenedInv /\ KeyInv => RotationSeen
  <2> SUFFICES ASSUME CommandsInv, RecordInv, OpenedInv, KeyInv, OnDirectory, Sound,
                      NEW p \in Procs
               PROVE  /\ (Finished(p, "verify") /\ cmd[p].exit # 2) =>
                           LET c == cmd[p].record IN
                           /\ (\E q \in Procs : \E i \in 1..cmd[p].opened :
                                 /\ i \in DOMAIN log /\ log[i].id = q
                                 /\ Rotations(log, cmd[q].run.old) = {i}
                                 /\ cmd[q].run.old = c.key /\ c.ts > log[i].event.at)
                              => cmd[p].exit = 1
                           /\ (c.intact /\ \A q \in Procs : ~(cmd[q].pc # "idle"
                                 /\ cmd[q].run.verb = "key rotate"
                                 /\ cmd[q].run.old = c.key))
                              => cmd[p].exit = 0
                      /\ (Finished(p, "key status") /\ cmd[p].exit = 0) =>
                           \A q \in Procs : \A i \in DOMAIN log :
                             (i <= cmd[p].opened /\ log[i].id = q) =>
                               cmd[q].run.old \in cmd[p].revoked
    BY DEF RotationSeen, Sound
  <2>1. \A i \in DOMAIN log : Recorded(log[i])
    BY DEF RecordInv, RecordsOf
  <2>2. ASSUME NEW i \in DOMAIN log, log[i].event # Nil
        PROVE  /\ log[i].id \in Procs /\ cmd[log[i].id].pc # "idle"
               /\ Verb(log[i].id) = "key rotate"
               /\ log[i].event.old = cmd[log[i].id].run.old
               /\ log[i].event.at \in Nat
    BY <2>1, <2>2, RecordFacts
  <2>3. ASSUME NEW q \in Procs, NEW i \in DOMAIN log, log[i].id = q
        PROVE  log[i].event # Nil /\ log[i].event.old = cmd[q].run.old
    BY <2>1, <2>3, RecordFacts
  <2>4. ASSUME Finished(p, "verify"), cmd[p].exit # 2
        PROVE  LET c == cmd[p].record IN
               /\ (\E q \in Procs : \E i \in 1..cmd[p].opened :
                     /\ i \in DOMAIN log /\ log[i].id = q
                     /\ Rotations(log, cmd[q].run.old) = {i}
                     /\ cmd[q].run.old = c.key /\ c.ts > log[i].event.at)
                  => cmd[p].exit = 1
               /\ (c.intact /\ \A q \in Procs : ~(cmd[q].pc # "idle"
                     /\ cmd[q].run.verb = "key rotate"
                     /\ cmd[q].run.old = c.key))
                  => cmd[p].exit = 0
    <3> DEFINE c == cmd[p].record
    <3>1. PICK s \in Since(p) : \E ok \in Verdicts(s, c) :
            c \in RecordsOf(s) /\ cmd[p].exit = IF ok THEN 0 ELSE 1
      BY <2>4 DEF KeyInv, VerifyTold
    <3>2. PICK ok \in Verdicts(s, c) : c \in RecordsOf(s) /\ cmd[p].exit = IF ok THEN 0 ELSE 1
      BY <3>1
    <3>3. cmd[p].opened \in 0..Len(log)
      BY SinceFacts
    <3>4. PICK n \in cmd[p].opened..Len(log) :
            /\ n \in 0..Len(log) /\ DOMAIN s = 1..n /\ 1..n \subseteq DOMAIN log
            /\ \A i \in 1..n : s[i] = log[i]
      BY SinceFacts
    <3>5. \A k : Rotations(s, k) = Rotations(log, k) \cap 1..n
      BY <3>4, PrefixRotations
    <3>6. c.ts \in Nat /\ c.intact \in BOOLEAN
      <4>1. Recorded(c)
        BY <2>1, <3>2, <3>4 DEF RecordsOf
      <4> QED BY <4>1, RecordFacts
    <3>7. ASSUME NEW q \in Procs, NEW i \in 1..cmd[p].opened, i \in DOMAIN log,
                 log[i].id = q, Rotations(log, cmd[q].run.old) = {i},
                 cmd[q].run.old = c.key, c.ts > log[i].event.at
          PROVE  cmd[p].exit = 1
      <4>1. i \in 1..n
        BY <3>3, <3>4
      <4>2. Rotations(s, c.key) = {i} /\ s[i] = log[i]
        BY <3>4, <3>5, <3>7, <4>1
      <4>3. Verdicts(s, c) = {c.intact /\ c.ts <= log[i].event.at}
        BY <4>2, VerdictsOnce
      <4>4. log[i].event.at \in Nat
        BY <2>2, <2>3, <3>7
      <4>5. ~(c.ts <= log[i].event.at)
        BY <3>6, <3>7, <4>4
      <4>6. ~ok
        BY <3>2, <4>3, <4>5
      <4> QED BY <3>2, <4>6
    <3>8. ASSUME c.intact, \A q \in Procs : ~(cmd[q].pc # "idle"
                   /\ cmd[q].run.verb = "key rotate" /\ cmd[q].run.old = c.key)
          PROVE  cmd[p].exit = 0
      <4>1. Rotations(log, c.key) = {}
        BY <2>2, <3>8 DEF Rotations, Verb
      <4>2. Verdicts(s, c) = {c.intact}
        BY <3>5, <4>1, VerdictsNever
      <4> QED BY <3>2, <3>8, <4>2
    <3> QED BY <3>7, <3>8
  <2>5. ASSUME Finished(p, "key status"), cmd[p].exit = 0, NEW i \in DOMAIN log,
               i <= cmd[p].opened, log[i].id \in Procs
        PROVE  cmd[log[i].id].run.old \in cmd[p].revoked
    <3> DEFINE k == cmd[log[i].id].run.old
    <3>1. PICK s \in Since(p) : cmd[p].revoked = {x \in KeysOf(s) : RevokedAt(s, x) # {}}
      BY <2>5 DEF KeyInv, StatusTold
    <3>2. PICK n \in cmd[p].opened..Len(log) :
            /\ n \in 0..Len(log) /\ DOMAIN s = 1..n /\ 1..n \subseteq DOMAIN log
            /\ \A j \in 1..n : s[j] = log[j]
      BY SinceFacts
    <3>3. i \in DOMAIN s /\ s[i] = log[i]
      <4>1. cmd[p].opened \in 0..Len(log) /\ DOMAIN log = 1..Len(log) /\ Len(log) \in Nat
        BY SinceFacts, LogFacts DEF CommandsInv
      <4>2. i \in 1..Len(log) /\ i <= cmd[p].opened
        BY <2>5, <4>1
      <4>3. n \in cmd[p].opened..Len(log)
        OBVIOUS
      <4>4. i \in 1..n
        BY <4>1, <4>2, <4>3
      <4> QED BY <3>2, <4>4
    <3>4. s[i].event # Nil /\ s[i].event.old = k
      BY <2>3, <2>5, <3>3
    <3> HIDE DEF k
    <3>5. i \in Rotations(s, k) /\ k \in KeysOf(s)
      BY <3>3, <3>4 DEF Rotations, KeysOf
    <3>6. s[i].event.at \in RevokedAt(s, k)
      BY <3>5 DEF RevokedAt
    <3> QED BY <3>1, <3>5, <3>6 DEF k
  <2> QED BY <2>4, <2>5
<1> QED BY <1>1, KeyHolds, PTL

-----------------------------------------------------------------------------
(* Payload files                                                           *)

(* Short of a power cut, a file that is not whole is some put's; one that  *)
(* is whole and no JSON was damaged.                                       *)
TornInv == \A d \in Digests :
    /\ Sound /\ files[d] \in Torn => PutCut(d)
    /\ files[d] = "no JSON" => "damage" \in faults

LEMMA FileSteps ==
    ASSUME CommandsInv, [Next]_vars, NEW d \in Digests, files'[d] # files[d]
    PROVE  \/ \E p \in Procs : PutOpen(p) /\ cmd[p].run.payload = d
           \/ files'[d] \in Digests
           \/ files'[d] = "no JSON" /\ "damage" \in faults'
           \/ ~Sound' /\ files'[d] # "no JSON"
<1>1. files \in [Digests -> {Nil, "no JSON"} \cup Torn \cup Digests]
  BY DEF CommandsInv, PutInv
<1>2. ~UNCHANGED files
  OBVIOUS
<1>3. ASSUME NEW p \in Procs, CommandStep(p) PROVE PutOpen(p) \/ PutWrite(p)
  <2>1. KeyStep(p) \/ BlameStep(p) \/ RemoteStep(p) => UNCHANGED files
    BY DEF KeyStep, RotateAppend, RotateReport, KeyStatus, VerifyFetch, VerifyRecord,
       BlameStep, BlameFetch, BlameGaps, BlameHop, BlameEnd,
       RemoteStep, RemoteSend, Receive, TimeOut, RemoteFindGaps
  <2>2. PayloadStep(p) => UNCHANGED files \/ PutOpen(p) \/ PutWrite(p)
    BY DEF PayloadStep, ShowFetch, ShowResolve, LogCount, LogNext, LogEnd
  <2> QED BY <1>2, <1>3, <2>1, <2>2 DEF CommandStep
<1>4. ASSUME NEW p \in Procs, PutOpen(p) PROVE cmd[p].run.payload = d
  BY <1>1, <1>4 DEF PutOpen
<1>5. ASSUME NEW p \in Procs, PutWrite(p) PROVE files'[d] \in Digests
  <2>1. cmd[p].run.payload = d /\ files'[d] = d
    BY <1>1, <1>5 DEF PutWrite
  <2> QED BY <2>1
<1>6. CASE Environment
  <2>1. AgentAppend => UNCHANGED files
    BY DEF AgentAppend
  <2>2. ASSUME NEW p \in Procs, Start(p) \/ Kill(p) \/ Serve(p) \/ ServeNothing(p)
        PROVE  UNCHANGED files
    BY <2>2 DEF Start, Kill, Serve, ServeAppend, ServeQuestion, ServeNothing, Lose, avars
  <2>3. Damage => \/ files'[d] \in Digests
                  \/ files'[d] = "no JSON" /\ "damage" \in faults'
    BY <1>1 DEF Damage, Fault
  <2>4. ASSUME Crash PROVE ~Sound' /\ files'[d] # "no JSON"
    <3>1. files'[d] \in {files[d], "begun"}
      BY <2>4 DEF Crash
    <3> QED BY <1>2, <2>4, <3>1 DEF Crash, Fault, Sound
  <2> QED BY <1>2, <1>6, <2>1, <2>2, <2>3, <2>4 DEF Environment
<1>7. UNCHANGED vars => UNCHANGED files
  BY DEF vars, avars
<1> QED BY <1>2, <1>3, <1>4, <1>5, <1>6, <1>7 DEF Next

(* A put that has begun ends by writing, or is killed.                     *)
LEMMA PutCutStays ==
    ASSUME CommandsInv, [Next]_vars, NEW d \in Digests, PutCut(d)
    PROVE  PutCut(d)' \/ files'[d] = d
<1>1. PICK q \in Procs : /\ cmd[q].pc \in {"writing", "killed"}
                         /\ cmd[q].run.verb = "payload put"
                         /\ cmd[q].run.payload = d
  BY DEF PutCut
<1>2. CASE cmd'[q] = cmd[q]
  BY <1>1, <1>2 DEF PutCut
<1>3. CASE cmd'[q] = [run |-> cmd[q].run, pc |-> "killed"]
  <2>1. cmd'[q].pc = "killed" /\ cmd'[q].run = cmd[q].run
    BY <1>3
  <2> QED BY <1>1, <2>1 DEF PutCut
<1>4. CASE CommandStep(q)
  <2>1. cmd[q].pc = "writing" /\ Verb(q) = "payload put"
    BY <1>1, <1>4 DEF CommandStep, Ended, Verb
  <2>2. PutWrite(q)
    <3>1. ~KeyStep(q) /\ ~BlameStep(q)
      BY <2>1 DEF KeyStep, RotateAppend, RotateReport, KeyStatus, VerifyFetch, VerifyRecord,
         BlameStep, BlameFetch, BlameGaps, BlameHop, BlameEnd, At, Verb
    <3>2. ~RemoteStep(q)
      BY <2>1 DEF RemoteStep, RemoteSend, Receive, TimeOut, RemoteFindGaps, At, Verb
    <3>3. PayloadStep(q) => PutWrite(q)
      BY <2>1 DEF PayloadStep, PutOpen, ShowFetch, ShowResolve, LogCount, LogNext, LogEnd,
         At, Verb
    <3> QED BY <1>4, <3>1, <3>2, <3>3 DEF CommandStep
  <2>3. files \in [Digests -> {Nil, "no JSON"} \cup Torn \cup Digests]
    BY DEF CommandsInv, PutInv
  <2> QED BY <1>1, <2>2, <2>3 DEF PutWrite
<1>5. ~Start(q)
  BY <1>1 DEF Start
<1> QED BY <1>2, <1>3, <1>4, <1>5, StepKinds

LEMMA TornStays ==
    ASSUME CommandsInv, TornInv, [Next]_vars, Sound', NEW d \in Digests, files'[d] \in Torn
    PROVE  PutCut(d)'
<1>1. files'[d] \notin Digests /\ files'[d] # "no JSON"
  BY NamesAssumption DEF Torn
<1>2. CASE files'[d] = files[d]
  <2>1. PutCut(d)
    BY <1>2, Growth DEF TornInv
  <2> QED BY <1>1, <2>1, PutCutStays
<1>3. CASE files'[d] # files[d]
  <2>1. PICK p \in Procs : PutOpen(p) /\ cmd[p].run.payload = d
    BY <1>1, <1>3, FileSteps
  <2> DEFINE changes == [pc |-> "writing"]
  <2>2. Goto(p, changes) /\ CmdInv /\ Verb(p) = "payload put"
    BY <2>1 DEF PutOpen, At, CommandsInv, Verb
  <2>3. {"run", "pc"} \subseteq DOMAIN cmd[p]
    BY <2>1 DEF PutOpen, At, CommandsInv, CmdInv
  <2>4. DOMAIN changes = {"pc"} /\ changes.pc = "writing"
    OBVIOUS
  <2> HIDE DEF changes
  <2>5. /\ \A x \in DOMAIN changes : cmd'[p][x] = changes[x]
        /\ \A x \in DOMAIN cmd[p] \ DOMAIN changes : cmd'[p][x] = cmd[p][x]
    BY <2>2, GotoSets
  <2>6. cmd'[p].pc = "writing" /\ cmd'[p].run = cmd[p].run
    BY <2>3, <2>4, <2>5
  <2> QED BY <2>1, <2>2, <2>6 DEF PutCut, Verb
<1> QED BY <1>2, <1>3

LEMMA TornInductive == CommandsInv /\ TornInv /\ [Next]_vars => TornInv'
<1> SUFFICES ASSUME CommandsInv, TornInv, [Next]_vars, NEW d \in Digests
             PROVE  /\ Sound' /\ files'[d] \in Torn => PutCut(d)'
                    /\ files'[d] = "no JSON" => "damage" \in faults'
  BY DEF TornInv
<1>1. ASSUME files'[d] = "no JSON" PROVE "damage" \in faults'
  <2>1. CASE files'[d] = files[d]
    BY <1>1, <2>1, LogSteps DEF TornInv
  <2>2. CASE files'[d] # files[d]
    <3>1. files \in [Digests -> {Nil, "no JSON"} \cup Torn \cup Digests]
      BY DEF CommandsInv, PutInv
    <3>2. ASSUME NEW p \in Procs, PutOpen(p), cmd[p].run.payload = d
          PROVE  files'[d] \in Torn
      BY <3>1, <3>2 DEF PutOpen, Torn
    <3>3. "no JSON" \notin Digests \cup Torn
      BY NamesAssumption DEF Torn
    <3> QED BY <1>1, <2>2, <3>2, <3>3, FileSteps
  <2> QED BY <2>1, <2>2
<1> QED BY <1>1, TornStays

-----------------------------------------------------------------------------
(* show and log                                                            *)

(* Some record of the log names the payload.                               *)
Committed(d) ==
    \E c \in RecordsOf(log) :
      d = c.reason \/ d \in {c.evidence[k] : k \in DOMAIN c.evidence}

GoodShown(s) ==
    OnDirectory /\ s.content \in {Nil, s.digest} /\ (Sound => Committed(s.digest))

ShownTrue(p) ==
    "shown" \in DOMAIN cmd[p] =>
      Verb(p) \in {"show", "log"} /\ \A s \in cmd[p].shown : GoodShown(s)

(* What show has still to resolve are digests of a record of the log.      *)
Showing(p) ==
    Verb(p) = "show" /\ cmd[p].pc = "show" =>
      /\ "shown" \in DOMAIN cmd[p]
      /\ OnDirectory =>
           /\ cmd[p].todo \in Seq(Digests)
           /\ Sound => \A k \in DOMAIN cmd[p].todo : Committed(cmd[p].todo[k])

Listing(p) ==
    Verb(p) = "log" /\ cmd[p].pc = "list" =>
      "shown" \in DOMAIN cmd[p] /\ cmd[p].next \in Nat \ {0}

(* The file that the reader comes to next may be no JSON.                  *)
Unreadable(p) ==
    OnDirectory /\ Reading(p) \in Digests /\ "no JSON" \in Resolved(Reading(p))

ShownInv == \A p \in Procs : ShownTrue(p) /\ Showing(p) /\ Listing(p)

LEMMA CommittedStays ==
    ASSUME CommandsInv, [Next]_vars
    PROVE  /\ OnDirectory' = OnDirectory
           /\ \A d : Sound' /\ (Sound => Committed(d)) => Sound /\ Committed(d)'
           /\ \A s : GoodShown(s) => GoodShown(s)'
<1>1. OnDirectory' = OnDirectory
  BY LogSteps DEF OnDirectory
<1>2. ASSUME NEW d, Sound', Sound => Committed(d) PROVE Sound /\ Committed(d)'
  BY <1>2, Growth, IdsStay DEF Committed
<1> QED BY <1>1, <1>2 DEF GoodShown

(* Nobody else shows payloads.                                             *)
LEMMA OthersShowNothing ==
    ASSUME CommandsInv, ShownInv, NEW p \in Procs, CommandStep(p),
           Verb(p) \notin {"show", "log"}
    PROVE  "shown" \notin DOMAIN cmd'[p]
<1>1. CmdInv /\ Shapes(p) /\ "shown" \notin DOMAIN cmd[p]
  BY StepShapes DEF CommandsInv, ShownInv, ShownTrue
<1>2. ASSUME NEW changes, Goto(p, changes),
             "shown" \in DOMAIN changes => Verb(p) \in {"show", "log"}
      PROVE  "shown" \notin DOMAIN cmd'[p]
  <2>1. DOMAIN cmd'[p] = DOMAIN changes \cup DOMAIN cmd[p]
    BY <1>1, <1>2, GotoSets
  <2> QED BY <1>1, <1>2, <2>1
<1>3. ASSUME NEW exit, NEW printed, Return(p, exit, printed),
             {"run", "pc", "exit", "opened"} \cap DOMAIN printed = {},
             "shown" \in DOMAIN printed => Verb(p) \in {"show", "log"}
      PROVE  "shown" \notin DOMAIN cmd'[p]
  <2>1. DOMAIN cmd'[p] = {"run", "pc", "exit", "opened"} \cup DOMAIN printed
    BY <1>1, <1>3, ReturnSets
  <2> QED BY <1>3, <2>1
<1>4. ASSUME Raise(p) PROVE "shown" \notin DOMAIN cmd'[p]
  <2>1. cmd'[p] = [run |-> cmd[p].run, pc |-> "raised"]
    BY <1>1, <1>4, RaiseSets
  <2> QED BY <2>1
<1> QED BY <1>1, <1>2, <1>3, <1>4 DEF Shapes

(* What resolving one more digest of a record shows.                       *)
LEMMA ResolveShows ==
    ASSUME CommandsInv, OpenedInv, NEW p \in Procs, cmd[p].pc \notin Ended,
           [Next]_vars, NEW digest, NEW rest, Resolve(p, digest, rest),
           {"run", "pc", "shown"} \cap DOMAIN rest = {},
           "shown" \in DOMAIN cmd[p], \A s \in cmd[p].shown : GoodShown(s),
           OnDirectory /\ Sound => Committed(digest)
    PROVE  \/ /\ cmd'[p].pc = "raised" /\ "shown" \notin DOMAIN cmd'[p]
              /\ OnDirectory /\ "no JSON" \in Resolved(digest)
           \/ /\ cmd'[p].pc = cmd[p].pc
              /\ \A x \in DOMAIN rest : cmd'[p][x] = rest[x]
              /\ "shown" \in DOMAIN cmd'[p]
              /\ \A s \in cmd'[p].shown : GoodShown(s)'
<1>1. CmdInv /\ (cmd[p].payloads => OnDirectory) /\ "pc" \in DOMAIN cmd[p]
  BY DEF CommandsInv, CmdInv, OpenedInv
<1> DEFINE Fails == /\ cmd'[p] = [run |-> cmd[p].run, pc |-> "raised"]
                    /\ cmd[p].payloads /\ "no JSON" \in Resolved(digest)
           Shows == /\ DOMAIN cmd'[p] = DOMAIN rest \cup DOMAIN cmd[p]
                    /\ \A x \in DOMAIN rest : cmd'[p][x] = rest[x]
                    /\ \A x \in DOMAIN cmd[p] \ (DOMAIN rest \cup {"shown"}) :
                         cmd'[p][x] = cmd[p][x]
                    /\ \/ cmd'[p].shown = cmd[p].shown
                       \/ /\ cmd[p].payloads
                          /\ \E content \in Digests :
                               cmd'[p].shown = cmd[p].shown \cup {Shown(digest, content)}
<1>2. CASE Fails
  <2>1. cmd'[p] = [run |-> cmd[p].run, pc |-> "raised"]
    BY <1>2
  <2>2. cmd'[p].pc = "raised" /\ "shown" \notin DOMAIN cmd'[p]
    BY <2>1
  <2> QED BY <1>1, <1>2, <2>2
<1>3. CASE Shows
  <2>1. cmd'[p].pc = cmd[p].pc /\ "shown" \in DOMAIN cmd'[p]
    BY <1>1, <1>3
  <2>2. ASSUME cmd[p].payloads, NEW content PROVE GoodShown(Shown(digest, content))
    <3>1. Shown(digest, content).digest = digest
          /\ Shown(digest, content).content \in {Nil, digest}
      BY DEF Shown, Match
    <3> QED BY <1>1, <2>2, <3>1 DEF GoodShown
  <2>3. \A s \in cmd'[p].shown : GoodShown(s)
    BY <1>3, <2>2
  <2>4. \A s \in cmd'[p].shown : GoodShown(s)'
    BY <2>3, CommittedStays
  <2> QED BY <1>3, <2>1, <2>4
<1>4. "shown" \notin DOMAIN rest
  OBVIOUS
<1>5. Fails \/ Shows
  BY <1>1, <1>4, ResolveSets
<1> HIDE DEF Fails, Shows
<1> QED BY <1>2, <1>3, <1>5

(* What show has to resolve.                                               *)
ToResolve(c) == IF c.reason = Nil THEN c.evidence ELSE <<c.reason>> \o c.evidence

LEMMA ToResolveFacts ==
    ASSUME CommandsInv, RecordInv, NEW c \in RecordsOf(log)
    PROVE  /\ ToResolve(c) \in Seq(Digests)
           /\ \A k \in DOMAIN ToResolve(c) : Committed(ToResolve(c)[k])
<1>1. c.reason \in Digests \cup {Nil} /\ c.evidence \in Seq(Digests)
  BY RecordFacts DEF RecordInv
<1>2. CASE c.reason = Nil
  <2>1. ToResolve(c) = c.evidence
    BY <1>2 DEF ToResolve
  <2> QED BY <1>1, <2>1 DEF Committed
<1>3. CASE c.reason # Nil
  <2>1. ToResolve(c) = <<c.reason>> \o c.evidence /\ <<c.reason>> \in Seq(Digests)
    BY <1>1, <1>3 DEF ToResolve
  <2>2. /\ ToResolve(c) \in Seq(Digests)
        /\ DOMAIN ToResolve(c) = 1..(Len(c.evidence) + 1)
        /\ ToResolve(c)[1] = c.reason
        /\ \A k \in 2..(Len(c.evidence) + 1) : ToResolve(c)[k] = c.evidence[k - 1]
    BY <1>1, <2>1
  <2>3. ASSUME NEW k \in DOMAIN ToResolve(c) PROVE Committed(ToResolve(c)[k])
    <3>1. CASE k = 1
      BY <2>2, <3>1 DEF Committed
    <3>2. CASE k # 1
      <4>1. k \in 2..(Len(c.evidence) + 1) /\ k - 1 \in DOMAIN c.evidence
        BY <1>1, <2>2, <3>2
      <4>2. ToResolve(c)[k] \in {c.evidence[j] : j \in DOMAIN c.evidence}
        BY <2>2, <4>1
      <4> QED BY <4>2 DEF Committed
    <3> QED BY <3>1, <3>2
  <2> QED BY <2>2, <2>3
<1> QED BY <1>2, <1>3

LEMMA ShowKeeps ==
    ASSUME CommandsInv, RecordInv, OpenedInv, ShownInv, [Next]_vars,
           NEW p \in Procs, CommandStep(p), Verb(p) = "show"
    PROVE  /\ ShownTrue(p)' /\ Showing(p)' /\ Listing(p)'
           /\ cmd[p].pc = "show" /\ cmd'[p].pc = "raised" => Unreadable(p)
<1>1. CmdInv /\ cmd'[p].run = cmd[p].run /\ OnDirectory' = OnDirectory /\ Verb(p)' = "show"
      /\ cmd[p].pc \notin Ended
  BY StepKeeps, CommittedStays DEF CommandsInv, Verb, CommandStep
<1>2. ASSUME "shown" \notin DOMAIN cmd'[p], cmd'[p].pc # "show"
      PROVE  ShownTrue(p)' /\ Showing(p)' /\ Listing(p)'
  BY <1>1, <1>2 DEF ShownTrue, Showing, Listing
<1>3. ASSUME cmd'[p].shown = {}, cmd'[p].pc # "show"
      PROVE  ShownTrue(p)' /\ Showing(p)' /\ Listing(p)'
  BY <1>1, <1>3 DEF ShownTrue, Showing, Listing
<1>4. CASE ShowFetch(p)
  <2> DEFINE c == Fetch(Store(p), cmd[p].run.target)
             none == [shown |-> {}]
             changes == [pc |-> "show", record |-> c, shown |-> {}, todo |-> ToResolve(c)]
  <2>1. /\ cmd[p].pc = "open"
        /\ \/ NoSuchCapsule(p, 1)
           \/ /\ cmd[p].run.target \in IdsIn(Store(p))
              /\ Return(p, 0, none) \/ Goto(p, changes)
    BY <1>4 DEF ShowFetch, At, ToResolve
  <2>2. DOMAIN none = {"shown"} /\ none.shown = {}
    OBVIOUS
  <2>3. /\ DOMAIN changes = {"pc", "record", "shown", "todo"} /\ changes.pc = "show"
        /\ changes.shown = {} /\ changes.todo = ToResolve(c)
    OBVIOUS
  <2> HIDE DEF none, changes
  <2>4. ASSUME NoSuchCapsule(p, 1) PROVE "shown" \notin DOMAIN cmd'[p] /\ cmd'[p].pc = "done"
    BY <1>1, <2>4, NoSuchSets
  <2>5. ASSUME Return(p, 0, none) PROVE cmd'[p].shown = {} /\ cmd'[p].pc = "done"
    BY <1>1, <2>2, <2>5, ReturnSets
  <2>6. ASSUME Goto(p, changes), cmd[p].run.target \in IdsIn(Store(p))
        PROVE  ShownTrue(p)' /\ Showing(p)' /\ Listing(p)'
    <3>1. /\ cmd'[p].pc = "show" /\ cmd'[p].shown = {} /\ cmd'[p].todo = ToResolve(c)
          /\ "shown" \in DOMAIN cmd'[p]
      BY <1>1, <2>3, <2>6, GotoSets
    <3>2. OnDirectory => c \in RecordsOf(log)
      BY <2>6, FetchFacts DEF Store
    <3> HIDE DEF c
    <3>3. OnDirectory => /\ ToResolve(c) \in Seq(Digests)
                         /\ \A k \in DOMAIN ToResolve(c) : Committed(ToResolve(c)[k])
      BY <3>2, ToResolveFacts
    <3>4. ShownTrue(p)' /\ Listing(p)'
      BY <1>1, <3>1 DEF ShownTrue, Listing
    <3>5. Showing(p)'
      BY <1>1, <3>1, <3>3, CommittedStays DEF Showing
    <3> QED BY <3>4, <3>5
  <2>7. cmd'[p].pc # "raised" \/ cmd[p].pc # "show"
    BY <2>1
  <2> HIDE DEF c
  <2> QED BY <1>2, <1>3, <2>1, <2>4, <2>5, <2>6, <2>7
<1>5. CASE ShowResolve(p)
  <2>1. cmd[p].pc = "show" /\ "shown" \in DOMAIN cmd[p]
        /\ \A s \in cmd[p].shown : GoodShown(s)
    BY <1>5 DEF ShowResolve, At, ShownInv, ShownTrue, Showing, Verb
  <2>2. CASE cmd[p].todo = <<>>
    <3> DEFINE printed == [shown |-> cmd[p].shown, record |-> cmd[p].record]
    <3>1. Return(p, 0, printed)
      BY <1>5, <2>2 DEF ShowResolve
    <3>2. DOMAIN printed = {"shown", "record"} /\ printed.shown = cmd[p].shown
      OBVIOUS
    <3> HIDE DEF printed
    <3>3. cmd'[p].pc = "done" /\ cmd'[p].shown = cmd[p].shown
      BY <1>1, <3>1, <3>2, ReturnSets
    <3>4. \A s \in cmd'[p].shown : GoodShown(s)'
      BY <2>1, <3>3, CommittedStays
    <3> QED BY <1>1, <3>3, <3>4 DEF ShownTrue, Showing, Listing
  <2>3. CASE cmd[p].todo # <<>>
    <3> DEFINE digest == Head(cmd[p].todo)
               rest == [todo |-> Tail(cmd[p].todo)]
    <3>1. Resolve(p, digest, rest)
      BY <1>5, <2>3 DEF ShowResolve
    <3>2. DOMAIN rest = {"todo"} /\ rest.todo = Tail(cmd[p].todo)
      OBVIOUS
    <3> HIDE DEF rest
    <3>3. OnDirectory =>
            /\ digest \in Digests /\ Tail(cmd[p].todo) \in Seq(Digests)
            /\ Sound => Committed(digest)
            /\ Sound => \A k \in DOMAIN Tail(cmd[p].todo) : Committed(Tail(cmd[p].todo)[k])
      <4> SUFFICES ASSUME OnDirectory
                   PROVE  /\ digest \in Digests /\ Tail(cmd[p].todo) \in Seq(Digests)
                          /\ Sound => Committed(digest)
                          /\ Sound => \A k \in DOMAIN Tail(cmd[p].todo) :
                                        Committed(Tail(cmd[p].todo)[k])
        OBVIOUS
      <4> DEFINE todo == cmd[p].todo
      <4>1. /\ todo \in Seq(Digests) /\ todo # <<>>
            /\ Sound => \A k \in DOMAIN todo : Committed(todo[k])
        BY <2>1, <2>3 DEF ShownInv, Showing
      <4> HIDE DEF todo
      <4>2. /\ Head(todo) \in Digests /\ Tail(todo) \in Seq(Digests)
            /\ 1 \in DOMAIN todo /\ Head(todo) = todo[1]
            /\ \A k \in DOMAIN Tail(todo) : k + 1 \in DOMAIN todo /\ Tail(todo)[k] = todo[k + 1]
        BY <4>1
      <4> QED BY <4>1, <4>2 DEF todo
    <3> HIDE DEF digest
    <3>4. {"run", "pc", "shown"} \cap DOMAIN rest = {}
      BY <3>2
    <3>5. \/ /\ cmd'[p].pc = "raised" /\ "shown" \notin DOMAIN cmd'[p]
             /\ OnDirectory /\ "no JSON" \in Resolved(digest)
          \/ /\ cmd'[p].pc = cmd[p].pc
             /\ \A x \in DOMAIN rest : cmd'[p][x] = rest[x]
             /\ "shown" \in DOMAIN cmd'[p]
             /\ \A s \in cmd'[p].shown : GoodShown(s)'
      BY <1>1, <2>1, <3>1, <3>3, <3>4, ResolveShows
    <3>6. CASE /\ cmd'[p].pc = "raised" /\ "shown" \notin DOMAIN cmd'[p]
               /\ OnDirectory /\ "no JSON" \in Resolved(digest)
      <4>1. Unreadable(p)
        BY <2>1, <3>3, <3>6 DEF Unreadable, Reading, digest
      <4> QED BY <1>2, <3>6, <4>1
    <3>7. CASE /\ cmd'[p].pc = cmd[p].pc
               /\ \A x \in DOMAIN rest : cmd'[p][x] = rest[x]
               /\ "shown" \in DOMAIN cmd'[p]
               /\ \A s \in cmd'[p].shown : GoodShown(s)'
      <4>1. cmd'[p].todo = Tail(cmd[p].todo) /\ cmd'[p].pc = "show"
        BY <2>1, <3>2, <3>7
      <4>2. ShownTrue(p)' /\ Listing(p)'
        BY <1>1, <3>7, <4>1 DEF ShownTrue, Listing
      <4>3. Showing(p)'
        BY <1>1, <3>3, <3>7, <4>1, CommittedStays DEF Showing
      <4> QED BY <4>1, <4>2, <4>3
    <3> QED BY <3>5, <3>6, <3>7
  <2> QED BY <2>2, <2>3
<1> QED BY <1>4, <1>5, VerbSteps

(* One more record of the list.                                            *)
LEMMA NextShows ==
    ASSUME CommandsInv, RecordInv, OpenedInv, ShownInv, [Next]_vars,
           NEW p \in Procs, cmd[p].pc \notin Ended, LogNext(p)
    PROVE  LET c == Store(p)[cmd[p].next] IN
           /\ OnDirectory => c \in RecordsOf(log)
           /\ \/ /\ cmd'[p].pc = "raised" /\ "shown" \notin DOMAIN cmd'[p]
                 /\ Unreadable(p)
              \/ /\ cmd'[p].pc = "list" /\ "shown" \in DOMAIN cmd'[p]
                 /\ \A s \in cmd'[p].shown : GoodShown(s)'
                 /\ cmd'[p].next = cmd[p].next + 1
                 /\ cmd'[p].listed \subseteq cmd[p].listed \cup {c.id}
<1> DEFINE c == Store(p)[cmd[p].next]
           listed == IF Selected(cmd[p].run, c) THEN cmd[p].listed \cup {c.id}
                     ELSE cmd[p].listed
           rest == [next |-> cmd[p].next + 1, listed |-> listed]
<1>1. /\ CmdInv /\ cmd[p].pc = "list" /\ "shown" \in DOMAIN cmd[p]
      /\ cmd[p].next \in Nat \ {0} /\ cmd[p].next <= Len(Store(p))
      /\ \A s \in cmd[p].shown : GoodShown(s) /\ GoodShown(s)'
      /\ "pc" \in DOMAIN cmd[p]
  BY CommittedStays DEF LogNext, At, CommandsInv, CmdInv, ShownInv, ShownTrue, Listing, Verb
<1>2. OnDirectory => c \in RecordsOf(log)
  <2>1. DOMAIN log = 1..Len(log) /\ Len(log) \in Nat
    BY LogFacts DEF CommandsInv
  <2>2. OnDirectory => cmd[p].next \in DOMAIN log
    BY <1>1, <2>1 DEF Store
  <2> QED BY <2>2 DEF RecordsOf, Store
<1>3. (c.reason # Nil /\ Resolve(p, c.reason, rest)) \/ Goto(p, rest)
  BY DEF LogNext
<1>4. /\ DOMAIN rest = {"next", "listed"} /\ rest.next = cmd[p].next + 1
      /\ rest.listed \subseteq cmd[p].listed \cup {c.id}
  OBVIOUS
<1> HIDE DEF rest, c
<1>5. {"run", "pc", "shown"} \cap DOMAIN rest = {}
  BY <1>4
<1>6. CASE c.reason # Nil /\ Resolve(p, c.reason, rest)
  <2>1. OnDirectory => c.reason \in Digests /\ Committed(c.reason)
    BY <1>2, <1>6, RecordFacts DEF RecordInv, Committed
  <2>2. \/ /\ cmd'[p].pc = "raised" /\ "shown" \notin DOMAIN cmd'[p]
           /\ OnDirectory /\ "no JSON" \in Resolved(c.reason)
        \/ /\ cmd'[p].pc = cmd[p].pc
           /\ \A x \in DOMAIN rest : cmd'[p][x] = rest[x]
           /\ "shown" \in DOMAIN cmd'[p]
           /\ \A s \in cmd'[p].shown : GoodShown(s)'
    BY <1>1, <1>5, <1>6, <2>1, ResolveShows
  <2>3. Reading(p) = c.reason
    BY <1>1 DEF Reading, c
  <2>4. OnDirectory /\ "no JSON" \in Resolved(c.reason) => Unreadable(p)
    BY <2>1, <2>3 DEF Unreadable
  <2> QED BY <1>1, <1>2, <1>4, <2>2, <2>4 DEF c
<1>7. CASE Goto(p, rest)
  <2>1. /\ DOMAIN cmd'[p] = DOMAIN rest \cup DOMAIN cmd[p]
        /\ \A x \in DOMAIN rest : cmd'[p][x] = rest[x]
        /\ \A x \in DOMAIN cmd[p] \ DOMAIN rest : cmd'[p][x] = cmd[p][x]
    BY <1>1, <1>7, GotoSets
  <2>2. cmd'[p].pc = "list" /\ cmd'[p].shown = cmd[p].shown /\ "shown" \in DOMAIN cmd'[p]
    BY <1>1, <1>5, <2>1
  <2>3. cmd'[p].next = rest.next /\ cmd'[p].listed = rest.listed
    BY <1>4, <2>1
  <2> QED BY <1>1, <1>2, <1>4, <2>2, <2>3 DEF c
<1> QED BY <1>3, <1>6, <1>7

LEMMA CountStarts ==
    ASSUME CmdInv, NEW p \in Procs, LogCount(p)
    PROVE  /\ cmd[p].pc = "open" /\ cmd'[p].pc = "list" /\ "shown" \in DOMAIN cmd'[p]
           /\ cmd'[p].shown = {} /\ cmd'[p].listed = {} /\ cmd'[p].next = 1
<1> DEFINE changes == [pc |-> "list", total |-> Len(Store(p)), next |-> 1,
                       listed |-> {}, shown |-> {}]
<1>1. /\ DOMAIN changes = {"pc", "total", "next", "listed", "shown"}
      /\ changes.pc = "list" /\ changes.shown = {} /\ changes.listed = {} /\ changes.next = 1
  OBVIOUS
<1>2. Goto(p, changes) /\ cmd[p].pc = "open"
  BY DEF LogCount, At
<1> HIDE DEF changes
<1> QED BY <1>1, <1>2, GotoSets

LEMMA EndReturns ==
    ASSUME CmdInv, NEW p \in Procs, LogEnd(p)
    PROVE  /\ cmd[p].pc = "list" /\ cmd'[p].pc = "done"
           /\ {"shown", "opened"} \subseteq DOMAIN cmd'[p]
           /\ cmd'[p].shown = cmd[p].shown /\ cmd'[p].listed = cmd[p].listed
           /\ cmd'[p].gaps = Cardinality(Gaps(Store(p)))
<1> DEFINE printed == [listed |-> cmd[p].listed, shown |-> cmd[p].shown,
                       total |-> cmd[p].total, gaps |-> Cardinality(GapsNoted(p))]
<1>1. /\ DOMAIN printed = {"listed", "shown", "total", "gaps"}
      /\ printed.shown = cmd[p].shown /\ printed.listed = cmd[p].listed
      /\ printed.gaps = Cardinality(GapsNoted(p))
  OBVIOUS
<1>2. Return(p, 0, printed) /\ cmd[p].pc = "list"
  BY DEF LogEnd, At
<1> HIDE DEF printed
<1> QED BY <1>1, <1>2, ReturnSets DEF GapsNoted

LEMMA LogKeeps ==
    ASSUME CommandsInv, RecordInv, OpenedInv, ShownInv, [Next]_vars,
           NEW p \in Procs, CommandStep(p), Verb(p) = "log"
    PROVE  /\ ShownTrue(p)' /\ Showing(p)' /\ Listing(p)'
           /\ cmd[p].pc = "list" /\ cmd'[p].pc = "raised" => Unreadable(p)
<1>1. CmdInv /\ cmd'[p].run = cmd[p].run /\ Verb(p)' = "log" /\ cmd[p].pc \notin Ended
  BY StepKeeps DEF CommandsInv, Verb, CommandStep
<1>2. CASE LogCount(p)
  <2>1. /\ cmd[p].pc = "open" /\ cmd'[p].pc = "list" /\ "shown" \in DOMAIN cmd'[p]
        /\ cmd'[p].shown = {} /\ cmd'[p].next = 1
    BY <1>1, <1>2, CountStarts
  <2>2. cmd'[p].next \in Nat \ {0}
    BY <2>1
  <2> QED BY <1>1, <2>1, <2>2 DEF ShownTrue, Showing, Listing
<1>3. CASE LogNext(p)
  <2>1. \/ /\ cmd'[p].pc = "raised" /\ "shown" \notin DOMAIN cmd'[p]
           /\ Unreadable(p)
        \/ /\ cmd'[p].pc = "list" /\ "shown" \in DOMAIN cmd'[p]
           /\ \A s \in cmd'[p].shown : GoodShown(s)'
           /\ cmd'[p].next = cmd[p].next + 1
    BY <1>1, <1>3, NextShows
  <2>2. cmd[p].next \in Nat \ {0}
    BY <1>1, <1>3 DEF LogNext, At, ShownInv, Listing, Verb
  <2>3. cmd[p].next + 1 \in Nat \ {0}
    BY <2>2
  <2> QED BY <1>1, <2>1, <2>3 DEF ShownTrue, Showing, Listing
<1>4. CASE LogEnd(p)
  <2>1. cmd[p].pc = "list" /\ cmd'[p].pc = "done" /\ cmd'[p].shown = cmd[p].shown
        /\ "shown" \in DOMAIN cmd[p]
    BY <1>1, <1>4, EndReturns DEF ShownInv, Listing
  <2>2. \A s \in cmd[p].shown : GoodShown(s)'
    BY <2>1, CommittedStays DEF ShownInv, ShownTrue
  <2> QED BY <1>1, <2>1, <2>2 DEF ShownTrue, Showing, Listing
<1> QED BY <1>2, <1>3, <1>4, VerbSteps

LEMMA ShownInductive ==
    CommandsInv /\ RecordInv /\ OpenedInv /\ ShownInv /\ [Next]_vars => ShownInv'
<1> SUFFICES ASSUME CommandsInv, RecordInv, OpenedInv, ShownInv, [Next]_vars, NEW q \in Procs
             PROVE  ShownTrue(q)' /\ Showing(q)' /\ Listing(q)'
  BY DEF ShownInv
<1>1. CASE cmd'[q] = cmd[q]
  <2>1. ShownTrue(q)' /\ Listing(q)'
    BY <1>1, CommittedStays DEF ShownInv, ShownTrue, Listing, Verb
  <2>2. Showing(q)'
    BY <1>1, CommittedStays DEF ShownInv, Showing, Verb
  <2> QED BY <2>1, <2>2
<1>2. CASE CommandStep(q)
  <2>1. CASE Verb(q) \notin {"show", "log"}
    <3>1. cmd'[q].run = cmd[q].run /\ "shown" \notin DOMAIN cmd'[q]
      BY <1>2, <2>1, StepKeeps, OthersShowNothing
    <3> QED BY <2>1, <3>1 DEF ShownTrue, Showing, Listing, Verb
  <2> QED BY <1>2, <2>1, ShowKeeps, LogKeeps
<1>3. ASSUME "shown" \notin DOMAIN cmd'[q], cmd'[q].pc \notin {"show", "list"}
      PROVE  ShownTrue(q)' /\ Showing(q)' /\ Listing(q)'
  BY <1>3 DEF ShownTrue, Showing, Listing
<1>4. Start(q) => "shown" \notin DOMAIN cmd'[q] /\ cmd'[q].pc \notin {"show", "list"}
  BY StartSets DEF CommandsInv
<1>5. cmd'[q] = [run |-> cmd[q].run, pc |-> "killed"] =>
        "shown" \notin DOMAIN cmd'[q] /\ cmd'[q].pc \notin {"show", "list"}
  OBVIOUS
<1> QED BY <1>1, <1>2, <1>3, <1>4, <1>5, StepKinds

LEMMA ShownHolds == Spec => [](CommandsInv /\ RecordInv /\ OpenedInv /\ TornInv /\ ShownInv)
<1>1. CommandsInit => TornInv /\ ShownInv
  <2>1. ASSUME CommandsInit, NEW p \in Procs
        PROVE  cmd[p].pc = "idle" /\ "shown" \notin DOMAIN cmd[p]
    <3>1. cmd[p] = [pc |-> "idle"]
      BY <2>1 DEF CommandsInit, Init
    <3> QED BY <3>1
  <2>2. ASSUME CommandsInit, NEW d \in Digests
        PROVE  files[d] \notin Torn /\ files[d] # "no JSON"
    <3>1. files[d] = Nil
      BY <2>2 DEF CommandsInit, Init
    <3> QED BY <3>1, NamesAssumption
  <2> QED BY <2>1, <2>2 DEF TornInv, ShownInv, ShownTrue, Showing, Listing
<1> QED BY <1>1, TornInductive, ShownInductive, RecordsHold, OpenedHold, PTL DEF Spec

(* Content shown beside a digest is what the digest commits to             *)
(* (payload_store.py:85-98, ledger_io.py:60-71).                           *)
THEOREM ShownIsCommitted == Spec => []ResolvedIsCommitted
<1>1. ShownInv => ResolvedIsCommitted
  <2> SUFFICES ASSUME ShownInv, NEW p \in Procs, "shown" \in DOMAIN cmd[p],
                      NEW s \in cmd[p].shown
               PROVE  /\ OnDirectory
                      /\ s.content \in {Nil, s.digest}
                      /\ "crash" \in faults \/ \E i \in DOMAIN log :
                           s.digest = log[i].reason
                             \/ s.digest \in {log[i].evidence[k] :
                                                k \in DOMAIN log[i].evidence}
    BY DEF ResolvedIsCommitted
  <2>1. GoodShown(s)
    BY DEF ShownInv, ShownTrue
  <2> QED BY <2>1 DEF GoodShown, Committed, RecordsOf, Sound
<1> QED BY <1>1, ShownHolds, PTL

(* show and log fail only over the file they come to next: one that was    *)
(* damaged, or that a put of that payload has begun                        *)
(* (payload_store.py:92-97).                                               *)
THEOREM ReadsFailOnTornFiles == Spec => ReadFailsOnTornFile
<1> DEFINE Blamed(p) ==
      /\ OnDirectory
      /\ IF files[Reading(p)] \in Torn
         THEN "crash" \in faults \/ PutCut(Reading(p))
         ELSE "damage" \in faults /\ files[Reading(p)] = "no JSON"
           Fails == \A p \in Procs : ReadFails(p) => Blamed(p)
<1>1. CommandsInv /\ RecordInv /\ OpenedInv /\ TornInv /\ ShownInv /\ [Next]_vars => Fails
  <2> SUFFICES ASSUME CommandsInv, RecordInv, OpenedInv, TornInv, ShownInv, [Next]_vars,
                      NEW p \in Procs, cmd[p].pc \in {"show", "list"}, cmd'[p].pc = "raised"
               PROVE  Blamed(p)
    BY DEF ReadFails
  <2>1. CommandStep(p)
    <3>1. cmd'[p] # [run |-> cmd[p].run, pc |-> "killed"]
      OBVIOUS
    <3>2. ~Start(p)
      BY DEF Start
    <3> QED BY <3>1, <3>2, StepKinds
  <2>2. \/ cmd[p].pc = "show" /\ Verb(p) = "show"
        \/ cmd[p].pc = "list" /\ Verb(p) = "log"
    <3>1. ~KeyStep(p) /\ ~BlameStep(p)
      BY DEF KeyStep, RotateAppend, RotateReport, KeyStatus, VerifyFetch, VerifyRecord,
         BlameStep, BlameFetch, BlameGaps, BlameHop, BlameEnd, At
    <3>2. ~RemoteStep(p)
      BY DEF RemoteStep, RemoteSend, Receive, TimeOut, RemoteFindGaps, At
    <3>3. PayloadStep(p) => ShowResolve(p) \/ LogNext(p) \/ LogEnd(p)
      BY DEF PayloadStep, PutOpen, PutWrite, ShowFetch, LogCount, At
    <3> QED BY <2>1, <3>1, <3>2, <3>3 DEF CommandStep, ShowResolve, LogNext, LogEnd, At, Verb
  <2> DEFINE d == Reading(p)
  <2>3. OnDirectory /\ d \in Digests /\ "no JSON" \in Resolved(d)
    BY <2>1, <2>2, ShowKeeps, LogKeeps DEF Unreadable
  <2> HIDE DEF d
  <2>4. files[d] \in Torn \/ files[d] = "no JSON"
    <3>1. files[d] = Nil => \A x \in Resolved(d) : x = "nothing"
      BY DEF Resolved
    <3>2. files[d] # Nil /\ files[d] \notin Torn => \A x \in Resolved(d) : x = files[d]
      BY DEF Resolved
    <3>3. files[d] # Nil
      BY <2>3, <3>1
    <3> QED BY <2>3, <3>2, <3>3
  <2>5. /\ files[d] \in Torn => "crash" \in faults \/ PutCut(d)
        /\ files[d] = "no JSON" => "damage" \in faults
    BY <2>3 DEF TornInv, Sound
  <2> QED BY <2>3, <2>4, <2>5 DEF d
<1>2. Fails => [Fails]_avars
  OBVIOUS
<1> HIDE DEF Fails
<1> QED BY <1>1, <1>2, ShownHolds, PTL DEF Spec, ReadFailsOnTornFile, Fails

-----------------------------------------------------------------------------
(* The sequence note                                                       *)

(* What a list shows was there, and its gaps are those of a ledger that    *)
(* has all of it.                                                          *)
NoteTold(p) ==
    \E s \in Since(p) : cmd[p].listed \subseteq IdsIn(s) /\ cmd[p].gaps = Cardinality(Gaps(s))

ListInv ==
    Sound /\ OnDirectory => \A p \in Procs :
        /\ Verb(p) = "log" /\ cmd[p].pc = "list" => cmd[p].listed \subseteq IdsIn(log)
        /\ Finished(p, "log") /\ cmd[p].exit = 0 => NoteTold(p)

LEMMA ListKeeps ==
    ASSUME CommandsInv, RecordInv, OpenedInv, ShownInv, ListInv, [Next]_vars,
           Sound, OnDirectory, NEW p \in Procs, CommandStep(p), Verb(p) = "log"
    PROVE  /\ UNCHANGED log
           /\ cmd'[p].pc = "list" => cmd'[p].listed \subseteq IdsIn(log)
           /\ cmd'[p].pc = "done" => NoteTold(p)'
<1>1. CmdInv /\ Store(p) = log /\ cmd[p].pc \notin Ended
  BY DEF CommandsInv, Store, CommandStep
<1>2. CASE LogCount(p)
  <2>1. cmd'[p].pc = "list" /\ cmd'[p].listed = {}
    BY <1>1, <1>2, CountStarts
  <2> QED BY <1>2, <2>1 DEF LogCount
<1>3. CASE LogNext(p)
  <2> DEFINE c == log[cmd[p].next]
  <2>1. /\ c \in RecordsOf(log)
        /\ \/ cmd'[p].pc = "raised"
           \/ cmd'[p].pc = "list" /\ cmd'[p].listed \subseteq cmd[p].listed \cup {c.id}
    BY <1>1, <1>3, NextShows
  <2> HIDE DEF c
  <2>2. cmd[p].listed \subseteq IdsIn(log) /\ c.id \in IdsIn(log) /\ UNCHANGED log
    BY <1>3, <2>1 DEF LogNext, At, ListInv, Verb, IdsIn, RecordsOf
  <2> QED BY <2>1, <2>2
<1>4. CASE LogEnd(p)
  <2>1. /\ cmd[p].pc = "list" /\ cmd'[p].pc = "done" /\ "opened" \in DOMAIN cmd'[p]
        /\ cmd'[p].listed = cmd[p].listed /\ cmd'[p].gaps = Cardinality(Gaps(log))
    BY <1>1, <1>4, EndReturns
  <2>2. cmd[p].listed \subseteq IdsIn(log) /\ UNCHANGED log
    BY <1>4, <2>1 DEF LogEnd, ListInv
  <2>3. log \in Since(p)'
    BY <2>1, <2>2, SinceNow
  <2> QED BY <2>1, <2>2, <2>3 DEF NoteTold
<1> QED BY <1>2, <1>3, <1>4, VerbSteps

LEMMA ListInductive ==
    CommandsInv /\ RecordInv /\ OpenedInv /\ ShownInv /\ ListInv /\ [Next]_vars => ListInv'
<1> SUFFICES ASSUME CommandsInv, RecordInv, OpenedInv, ShownInv, ListInv, [Next]_vars,
                    Sound', OnDirectory', NEW q \in Procs
             PROVE  /\ Verb(q)' = "log" /\ cmd'[q].pc = "list" =>
                         cmd'[q].listed \subseteq IdsIn(log)'
                    /\ Finished(q, "log")' /\ cmd'[q].exit = 0 => NoteTold(q)'
  BY DEF ListInv
<1>1. Sound /\ Grows /\ OnDirectory
  BY Growth, LogSteps DEF OnDirectory
<1>2. IdsIn(log) \subseteq IdsIn(log)'
  BY <1>1, IdsStay
<1>3. CASE cmd'[q] = cmd[q]
  <2>1. Since(q) \subseteq Since(q)'
    BY <1>3, SinceStays DEF Since
  <2>2. NoteTold(q) => NoteTold(q)'
    BY <1>3, <2>1 DEF NoteTold
  <2>3. /\ Verb(q) = "log" /\ cmd[q].pc = "list" => cmd[q].listed \subseteq IdsIn(log)
        /\ Finished(q, "log") /\ cmd[q].exit = 0 => NoteTold(q)
    BY <1>1 DEF ListInv
  <2> QED BY <1>2, <1>3, <2>2, <2>3 DEF Finished, Verb
<1>4. CASE CommandStep(q)
  <2>1. cmd'[q].run = cmd[q].run
    BY <1>4, StepKeeps
  <2>2. CASE Verb(q) = "log"
    BY <1>1, <1>2, <1>4, <2>1, <2>2, ListKeeps DEF Finished, Verb
  <2>3. CASE Verb(q) # "log"
    BY <2>1, <2>3 DEF Finished, Verb
  <2> QED BY <2>2, <2>3
<1>5. CASE Start(q)
  <2>1. /\ cmd'[q].pc # "list"
        /\ cmd'[q].pc = "done" => cmd'[q].exit = 2
    BY <1>5, StartSets DEF CommandsInv
  <2>2. cmd'[q].pc = "done" => cmd'[q].exit # 0
    BY <2>1
  <2> QED BY <2>1, <2>2 DEF Finished
<1>6. CASE cmd'[q] = [run |-> cmd[q].run, pc |-> "killed"]
  <2>1. cmd'[q].pc = "killed"
    BY <1>6
  <2> QED BY <2>1 DEF Finished
<1> QED BY <1>3, <1>4, <1>5, <1>6, StepKinds

LEMMA ListHolds == Spec => [](CommandsInv /\ OpenedInv /\ ListInv)
<1>1. CommandsInit => ListInv
  <2>1. ASSUME CommandsInit, NEW p \in Procs PROVE cmd[p].pc = "idle"
    <3>1. cmd[p] = [pc |-> "idle"]
      BY <2>1 DEF CommandsInit, Init
    <3> QED BY <3>1
  <2> QED BY <2>1 DEF ListInv, Finished
<1> QED BY <1>1, ListInductive, ShownHolds, PTL DEF Spec

(* "sequence unbroken" holds of every record listed (log_cmd.py:48-72).    *)
THEOREM SequenceNotesTrue == Spec => []SequenceNoteTrue
<1>1. CommandsInv /\ OpenedInv /\ ListInv => SequenceNoteTrue
  <2> SUFFICES ASSUME CommandsInv, OpenedInv, ListInv, NEW p \in Procs,
                      Finished(p, "log"), cmd[p].exit = 0, OnDirectory, Sound,
                      cmd[p].gaps = 0, NEW i \in DOMAIN log,
                      log[i].id \in cmd[p].listed, log[i].relation # "epoch_opens"
               PROVE  log[i].parent \in IdsIn(log) \cup {Nil}
    BY DEF SequenceNoteTrue, Sound
  <2>1. PICK s \in Since(p) :
          cmd[p].listed \subseteq IdsIn(s) /\ cmd[p].gaps = Cardinality(Gaps(s))
    BY DEF ListInv, NoteTold
  <2>2. PICK n \in 0..Len(log) : /\ DOMAIN s = 1..n /\ 1..n \subseteq DOMAIN log
                                 /\ \A k \in 1..n : s[k] = log[k]
    BY SinceFacts
  <2>3. Gaps(s) = {}
    <3>1. Gaps(s) \subseteq 1..n /\ n \in Int
      BY <2>2, LogFacts DEF Gaps, CommandsInv
    <3> DEFINE numbers == 1..n
    <3>2. IsFiniteSet(numbers)
      BY <3>1, FS_Interval
    <3>3. Gaps(s) \subseteq numbers
      BY <3>1
    <3> HIDE DEF numbers
    <3>4. IsFiniteSet(Gaps(s))
      BY <3>2, <3>3, FS_Subset
    <3> QED BY <2>1, <3>4, FS_EmptySet
  <2>4. i \in DOMAIN s /\ s[i] = log[i]
    <3>1. PICK k \in DOMAIN s : s[k].id = log[i].id
      BY <2>1 DEF IdsIn
    <3>2. k = i
      BY <2>2, <3>1 DEF CommandsInv, LogInv
    <3> QED BY <2>2, <3>1, <3>2
  <2>5. log[i].parent \in IdsIn(s) \cup {Nil}
    BY <2>3, <2>4 DEF Gaps
  <2>6. IdsIn(s) \subseteq IdsIn(log)
    BY <2>2 DEF IdsIn
  <2> QED BY <2>5, <2>6
<1> QED BY <1>1, ListHolds, PTL

=============================================================================
