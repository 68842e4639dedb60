---------------------------- MODULE AnswersProofs ----------------------------
(***************************************************************************)
(* What the commands that walk and ask tell, for any workloads, processes  *)
(* and payloads: the chain that `blame` shows is one the ledger held, and  *)
(* an answer of the remote ledger that was returned is true.               *)
(***************************************************************************)
EXTENDS ReadsProofs

-----------------------------------------------------------------------------
(* The walk of blame                                                       *)

(* A chain as far as it was walked, of records of the ledger s.            *)
Chain(hops, run, s) ==
    /\ Len(hops) >= 1 /\ \E S : hops \in Seq(S)
    /\ \A i \in DOMAIN hops : hops[i] \in RecordsOf(s)
    /\ hops[1].id = run.target
    /\ \A i, j \in DOMAIN hops : hops[i].id = hops[j].id => i = j
    /\ \A i \in 1..(Len(hops) - 1) :
         hops[i].parent = hops[i + 1].id /\ hops[i].relation # "epoch_opens"
    /\ run.maxDepth # Nil => Len(hops) = 1 \/ Len(hops) <= run.maxDepth

(* The chain shown, and what is said of its end.                           *)
BlameTold(p) ==
    LET last == cmd[p].hops[Len(cmd[p].hops)] IN
    /\ \E s \in Since(p) :
         /\ Chain(cmd[p].hops, cmd[p].run, s)
         /\ EndsTruly(s, cmd[p].hops, cmd[p].terminal, cmd[p].run.maxDepth)
    /\ cmd[p].terminal = "gap" /\ last.id \in IdsIn(SubSeq(log, 1, cmd[p].opened)) =>
         cmd[p].window

(* The gaps that blame has looked up are those of a ledger that it read.   *)
GapsRead(p) ==
    /\ "gapChildren" \in DOMAIN cmd[p]
    /\ \E s \in Since(p) : cmd[p].gapChildren = {s[i].id : i \in Gaps(s)}

BlameInv ==
    Sound /\ OnDirectory => \A p \in Procs : Verb(p) = "blame" =>
        /\ cmd[p].pc = "found" => cmd[p].run.target \in IdsIn(log)
        /\ cmd[p].pc = "walk" => Chain(cmd[p].hops, cmd[p].run, log) /\ GapsRead(p)
        /\ cmd[p].pc = "done" /\ cmd[p].exit = 0 => BlameTold(p)

LEMMA AppendElements ==
    ASSUME NEW S, NEW s \in Seq(S), NEW x
    PROVE  /\ Append(s, x) \in Seq(S \cup {x}) /\ Len(Append(s, x)) = Len(s) + 1
           /\ DOMAIN Append(s, x) = 1..(Len(s) + 1) /\ Append(s, x)[Len(s) + 1] = x
           /\ \A i \in DOMAIN s : Append(s, x)[i] = s[i]
           /\ DOMAIN s = 1..Len(s) /\ Len(s) \in Nat
<1>1. s \in Seq(S \cup {x}) /\ x \in S \cup {x}
  OBVIOUS
<1> QED BY <1>1

LEMMA ChainStarts ==
    ASSUME NEW s, NEW run, NEW c \in RecordsOf(s), c.id = run.target
    PROVE  Chain(<<c>>, run, s)
<1> DEFINE hops == <<c>>
<1>1. hops \in Seq({c}) /\ Len(hops) = 1 /\ DOMAIN hops = {1} /\ hops[1] = c
  OBVIOUS
<1>2. \E S : hops \in Seq(S)
  BY <1>1
<1> HIDE DEF hops
<1>3. 1..(Len(hops) - 1) = {}
  BY <1>1
<1>4. Chain(hops, run, s)
  BY <1>1, <1>2, <1>3 DEF Chain
<1> QED BY <1>4 DEF hops

LEMMA ChainGoesOn ==
    ASSUME NEW s, NEW run, NEW hops, Chain(hops, run, s), NEW c \in RecordsOf(s),
           hops[Len(hops)].parent = c.id, hops[Len(hops)].relation # "epoch_opens",
           c.id \notin IdsIn(hops),
           run.maxDepth # Nil => run.maxDepth \in Int /\ Len(hops) < run.maxDepth
    PROVE  Chain(Append(hops, c), run, s)
<1> DEFINE more == Append(hops, c)
           n == Len(hops)
<1>1. PICK S : hops \in Seq(S)
  BY DEF Chain
<1>2. /\ more \in Seq(S \cup {c}) /\ Len(more) = n + 1
      /\ DOMAIN more = 1..(n + 1) /\ more[n + 1] = c
      /\ \A i \in DOMAIN hops : more[i] = hops[i]
      /\ DOMAIN hops = 1..n /\ n \in Nat
  BY <1>1, AppendElements
<1>3. n >= 1
  BY DEF Chain
<1>4. \E T : more \in Seq(T)
  BY <1>2
<1> HIDE DEF more, n
<1>5. \A i \in DOMAIN more : i \in DOMAIN hops \/ i = n + 1
  BY <1>2
<1>6. \A i \in DOMAIN more : more[i] \in RecordsOf(s)
  BY <1>2, <1>5 DEF Chain
<1>7. 1 \in DOMAIN hops /\ more[1].id = run.target
  BY <1>2, <1>3 DEF Chain
<1>8. \A i, j \in DOMAIN more : more[i].id = more[j].id => i = j
  <2>1. \A i \in DOMAIN hops : more[i].id \in IdsIn(hops)
    BY <1>2 DEF IdsIn
  <2>2. \A i, j \in DOMAIN hops : more[i].id = more[j].id => i = j
    BY <1>2 DEF Chain
  <2> QED BY <1>2, <1>5, <2>1, <2>2
<1>9. ASSUME NEW i \in 1..n
      PROVE  more[i].parent = more[i + 1].id /\ more[i].relation # "epoch_opens"
  <2>1. CASE i = n
    <3>1. n \in DOMAIN hops /\ more[n] = hops[n] /\ more[n + 1] = c
      BY <1>2, <1>3
    <3> QED BY <2>1, <3>1 DEF n
  <2>2. CASE i # n
    <3>1. i \in 1..(n - 1) /\ i \in DOMAIN hops /\ i + 1 \in DOMAIN hops
      BY <1>2, <2>2
    <3>2. hops[i].parent = hops[i + 1].id /\ hops[i].relation # "epoch_opens"
      BY <3>1 DEF Chain, n
    <3> QED BY <1>2, <3>1, <3>2
  <2> QED BY <2>1, <2>2
<1>10. Len(more) >= 1 /\ Len(more) - 1 = n
  BY <1>2
<1>11. run.maxDepth # Nil => Len(more) <= run.maxDepth
  <2>1. run.maxDepth # Nil => run.maxDepth \in Int /\ n < run.maxDepth
    BY DEF n
  <2> QED BY <1>2, <2>1
<1>12. Chain(more, run, s)
  BY <1>4, <1>6, <1>7, <1>8, <1>9, <1>10, <1>11 DEF Chain
<1> QED BY <1>12 DEF more

LEMMA ChainStays ==
    ASSUME NEW s, NEW t, RecordsOf(s) \subseteq RecordsOf(t),
           NEW hops, NEW run, Chain(hops, run, s)
    PROVE  Chain(hops, run, t)
BY DEF Chain

(* What the walk of blame finds at the end of a chain is true of it.       *)
LEMMA TerminalTrue ==
    ASSUME NEW p, Chain(cmd[p].hops, cmd[p].run, log), Store(p) = log,
           cmd[p].run.maxDepth \in Int \cup {Nil}, Terminal(p) # "none"
    PROVE  /\ EndsTruly(log, cmd[p].hops, Terminal(p), cmd[p].run.maxDepth)
           /\ Terminal(p) = "gap" =>
                /\ Current(p).relation # "epoch_opens"
                /\ Current(p).parent \notin IdsIn(log) \cup {Nil}
<1> DEFINE c == Current(p)
           hops == cmd[p].hops
           maxDepth == cmd[p].run.maxDepth
<1>1. c = hops[Len(hops)]
  BY DEF Current
<1>2. \/ Terminal(p) = "epoch_open" /\ c.relation = "epoch_opens"
      \/ Terminal(p) = "standalone" /\ c.parent = Nil
      \/ Terminal(p) = "truncated" /\ AtMaxDepth(p)
      \/ Terminal(p) = "cycle" /\ c.parent \in Visited(p)
      \/ /\ Terminal(p) = "gap" /\ c.relation # "epoch_opens"
         /\ c.parent \notin IdsIn(log) \cup {Nil}
  BY DEF Terminal
<1>3. CASE Terminal(p) = "epoch_open" /\ c.relation = "epoch_opens"
  BY <1>1, <1>3 DEF EndsTruly
<1>4. CASE Terminal(p) = "standalone" /\ c.parent = Nil
  BY <1>1, <1>4 DEF EndsTruly
<1>5. CASE Terminal(p) = "truncated" /\ AtMaxDepth(p)
  <2>1. maxDepth \in Int /\ Len(hops) >= maxDepth
    BY <1>5 DEF AtMaxDepth
  <2>2. Len(hops) \in Nat /\ Len(hops) >= 1
    BY DEF Chain
  <2>3. Len(hops) = 1 \/ Len(hops) <= maxDepth
    BY <1>5 DEF Chain, AtMaxDepth
  <2> DEFINE n == Len(hops)
  <2> HIDE DEF maxDepth
  <2>4. n = IF maxDepth < 1 THEN 1 ELSE maxDepth
    <3> HIDE DEF n
    <3> SUFFICES ASSUME maxDepth \in Int, n \in Int, n >= maxDepth, n >= 1,
                        n = 1 \/ n <= maxDepth
                 PROVE  n = IF maxDepth < 1 THEN 1 ELSE maxDepth
      BY <2>1, <2>2, <2>3 DEF n
    <3> QED OBVIOUS
  <2> QED BY <1>5, <2>4 DEF EndsTruly, maxDepth
<1>6. CASE Terminal(p) = "cycle" /\ c.parent \in Visited(p)
  BY <1>1, <1>6 DEF EndsTruly, Visited
<1>7. CASE /\ Terminal(p) = "gap" /\ c.relation # "epoch_opens"
           /\ c.parent \notin IdsIn(log) \cup {Nil}
  BY <1>1, <1>7 DEF EndsTruly
<1> QED BY <1>2, <1>3, <1>4, <1>5, <1>6, <1>7

LEMMA BlameBegins ==
    ASSUME CommandsInv, OpenedInv, BlameInv, Sound, OnDirectory,
           NEW p \in Procs, CommandStep(p), Verb(p) = "blame",
           BlameFetch(p) \/ BlameGaps(p)
    PROVE  /\ cmd'[p].pc = "found" => cmd[p].run.target \in IdsIn(log)
           /\ cmd'[p].pc = "walk" => Chain(cmd'[p].hops, cmd[p].run, log) /\ GapsRead(p)'
           /\ cmd'[p].pc = "done" => cmd'[p].exit = 1
<1>1. CmdInv /\ Store(p) = log
  BY DEF CommandsInv, Store
<1>2. CASE BlameFetch(p)
  <2>1. ASSUME NoSuchCapsule(p, 1) PROVE cmd'[p].pc = "done" /\ cmd'[p].exit = 1
    BY <1>1, <2>1, NoSuchSets
  <2>2. ASSUME Goto(p, [pc |-> "found"]) PROVE cmd'[p].pc = "found"
    <3> DEFINE changes == [pc |-> "found"]
    <3>1. DOMAIN changes = {"pc"} /\ changes.pc = "found" /\ Goto(p, changes)
      BY <2>2
    <3> HIDE DEF changes
    <3> QED BY <1>1, <3>1, GotoSets
  <2> QED BY <1>1, <1>2, <2>1, <2>2 DEF BlameFetch
<1>3. CASE BlameGaps(p)
  <2> DEFINE hops == <<Fetch(log, cmd[p].run.target)>>
             children == {log[i].id : i \in Gaps(log)}
             changes == [pc |-> "walk", hops |-> hops, gapChildren |-> children]
  <2>1. Goto(p, changes) /\ cmd[p].pc = "found" /\ UNCHANGED log
    BY <1>1, <1>3 DEF BlameGaps, At
  <2>2. DOMAIN changes = {"pc", "hops", "gapChildren"} /\ changes.pc = "walk"
        /\ changes.hops = hops /\ changes.gapChildren = children
    OBVIOUS
  <2>3. Chain(hops, cmd[p].run, log)
    <3>1. cmd[p].run.target \in IdsIn(log)
      BY <2>1 DEF BlameInv
    <3>2. /\ Fetch(log, cmd[p].run.target) \in RecordsOf(log)
          /\ Fetch(log, cmd[p].run.target).id = cmd[p].run.target
      BY <3>1, FetchFacts
    <3> QED BY <3>2, ChainStarts
  <2> HIDE DEF changes, hops, children
  <2>4. cmd'[p].pc = "walk" /\ cmd'[p].hops = hops /\ cmd'[p].gapChildren = children
        /\ DOMAIN cmd[p] \subseteq DOMAIN cmd'[p] /\ "gapChildren" \in DOMAIN cmd'[p]
    BY <1>1, <2>1, <2>2, GotoSets
  <2>5. log \in Since(p)'
    <3>1. "opened" \in DOMAIN cmd'[p]
      BY <2>1, <2>4 DEF OpenedInv, Ended
    <3> QED BY <2>1, <3>1, SinceNow
  <2>6. GapsRead(p)'
    BY <2>1, <2>4, <2>5 DEF GapsRead, children
  <2> QED BY <2>3, <2>4, <2>6
<1> QED BY <1>2, <1>3

LEMMA DepthTyped ==
    ASSUME CommandsInv, NEW p \in Procs, cmd[p].pc # "idle", Verb(p) = "blame"
    PROVE  cmd[p].run.maxDepth \in Int \cup {Nil}
BY RunsAssumption DEF CommandsInv, CmdInv, Work, Verb

LEMMA HopGoesOn ==
    ASSUME CommandsInv, OpenedInv, BlameInv, Sound, OnDirectory,
           NEW p \in Procs, BlameHop(p)
    PROVE  /\ cmd'[p].pc = "walk" /\ cmd'[p].gapChildren = cmd[p].gapChildren
           /\ "gapChildren" \in DOMAIN cmd'[p] /\ UNCHANGED log
           /\ Chain(cmd'[p].hops, cmd[p].run, log)
           /\ "opened" \in DOMAIN cmd'[p] /\ cmd'[p].opened = cmd[p].opened
<1> DEFINE hops == cmd[p].hops
           c == Fetch(log, Current(p).parent)
           more == Append(hops, c)
           changes == [hops |-> more]
<1>1. CmdInv /\ Store(p) = log /\ cmd[p].pc = "walk" /\ Verb(p) = "blame"
  BY DEF CommandsInv, Store, BlameHop, At, Verb
<1>2. Chain(hops, cmd[p].run, log) /\ GapsRead(p)
      /\ cmd[p].run.maxDepth \in Int \cup {Nil}
  BY <1>1, DepthTyped DEF BlameInv
<1>3. /\ Current(p).relation # "epoch_opens" /\ Current(p).parent \in IdsIn(log)
      /\ Current(p).parent \notin IdsIn(hops) /\ ~AtMaxDepth(p)
  BY <1>1 DEF BlameHop, Terminal, Visited
<1>4. c \in RecordsOf(log) /\ c.id = Current(p).parent
  BY <1>3, FetchFacts
<1>5. Goto(p, changes)
  BY <1>1 DEF BlameHop
<1>6. DOMAIN changes = {"hops"} /\ changes.hops = more
  OBVIOUS
<1>7. Len(hops) \in Nat
  BY <1>2 DEF Chain
<1>8. cmd[p].run.maxDepth # Nil =>
        cmd[p].run.maxDepth \in Int /\ Len(hops) < cmd[p].run.maxDepth
  BY <1>2, <1>3, <1>7 DEF AtMaxDepth
<1> HIDE DEF c, changes
<1>9. Chain(more, cmd[p].run, log)
  <2>1. hops[Len(hops)].parent = c.id /\ hops[Len(hops)].relation # "epoch_opens"
        /\ c.id \notin IdsIn(hops)
    BY <1>3, <1>4 DEF Current
  <2> HIDE DEF hops
  <2> QED BY <1>2, <1>4, <1>8, <2>1, ChainGoesOn
<1> HIDE DEF more
<1>10. /\ DOMAIN cmd'[p] = DOMAIN changes \cup DOMAIN cmd[p]
       /\ \A x \in DOMAIN changes : cmd'[p][x] = changes[x]
       /\ \A x \in DOMAIN cmd[p] \ DOMAIN changes : cmd'[p][x] = cmd[p][x]
  BY <1>1, <1>5, GotoSets
<1>11. {"pc", "gapChildren", "opened"} \subseteq DOMAIN cmd[p]
  BY <1>1, <1>2 DEF CmdInv, OpenedInv, Ended, GapsRead
<1>12. cmd'[p].hops = more
  BY <1>6, <1>10
<1>13. cmd'[p].pc = "walk" /\ cmd'[p].gapChildren = cmd[p].gapChildren
       /\ {"gapChildren", "opened"} \subseteq DOMAIN cmd'[p]
       /\ cmd'[p].opened = cmd[p].opened
  BY <1>1, <1>6, <1>10, <1>11
<1> QED BY <1>9, <1>12, <1>13 DEF BlameHop

LEMMA EndTold ==
    ASSUME CommandsInv, OpenedInv, BlameInv, Sound, OnDirectory,
           NEW p \in Procs, CommandStep(p), BlameEnd(p)
    PROVE  cmd'[p].pc = "done" /\ BlameTold(p)'
<1> DEFINE hops == cmd[p].hops
           terminal == Terminal(p)
           window == terminal = "gap" /\ Current(p).id \in cmd[p].gapChildren
           printed == [hops |-> hops, terminal |-> terminal, window |-> window]
<1>1. /\ CmdInv /\ Store(p) = log /\ cmd[p].pc = "walk" /\ Verb(p) = "blame"
      /\ terminal # "none" /\ Return(p, 0, printed) /\ UNCHANGED log
      /\ Current(p) = hops[Len(hops)]
  BY DEF CommandsInv, Store, BlameEnd, At, Verb, Current
<1>2. Chain(hops, cmd[p].run, log) /\ GapsRead(p)
      /\ cmd[p].run.maxDepth \in Int \cup {Nil}
  BY <1>1, DepthTyped DEF BlameInv
<1>3. /\ EndsTruly(log, hops, terminal, cmd[p].run.maxDepth)
      /\ terminal = "gap" => /\ Current(p).relation # "epoch_opens"
                             /\ Current(p).parent \notin IdsIn(log) \cup {Nil}
  BY <1>1, <1>2, TerminalTrue
<1>4. DOMAIN printed = {"hops", "terminal", "window"} /\ printed.hops = hops
      /\ printed.terminal = terminal /\ printed.window = window
  OBVIOUS
<1>5. ASSUME terminal = "gap", Current(p).id \in IdsIn(SubSeq(log, 1, cmd[p].opened))
      PROVE  window
  <2> DEFINE c == Current(p)
             m == cmd[p].opened
  <2>1. PICK s \in Since(p) : cmd[p].gapChildren = {s[i].id : i \in Gaps(s)}
    BY <1>2 DEF GapsRead
  <2>2. m \in 0..Len(log)
    BY <2>1, SinceFacts
  <2>3. PICK n \in m..Len(log) : /\ n \in 0..Len(log) /\ DOMAIN s = 1..n
                                 /\ 1..n \subseteq DOMAIN log
                                 /\ \A i \in 1..n : s[i] = log[i]
    BY <2>1, SinceFacts
  <2>4. PICK k \in 1..m : log[k].id = c.id /\ k \in DOMAIN log
    <3>1. DOMAIN SubSeq(log, 1, m) = 1..m /\ 1..m \subseteq DOMAIN log
          /\ \A i \in 1..m : SubSeq(log, 1, m)[i] = log[i]
      BY <2>2, LogFacts DEF CommandsInv
    <3> HIDE DEF m
    <3> QED BY <1>5, <3>1 DEF IdsIn, m
  <2>5. log[k] = c
    <3>1. Len(hops) \in DOMAIN hops
      BY <1>2 DEF Chain
    <3>2. c \in RecordsOf(log)
      BY <1>1, <1>2, <3>1 DEF Chain
    <3> HIDE DEF c
    <3> QED BY <2>4, <3>2 DEF RecordsOf, CommandsInv, LogInv
  <2>6. k \in 1..n
    BY <2>2, <2>3
  <2>7. k \in DOMAIN s /\ s[k] = c
    BY <2>3, <2>5, <2>6
  <2>8. IdsIn(s) \subseteq IdsIn(log)
    BY <2>3 DEF IdsIn
  <2>9. k \in Gaps(s)
    BY <1>3, <1>5, <2>7, <2>8 DEF Gaps
  <2> QED BY <1>5, <2>1, <2>7, <2>9
<1> HIDE DEF hops, terminal, window, printed
<1>6. /\ cmd'[p].pc = "done" /\ cmd'[p].hops = hops /\ cmd'[p].terminal = terminal
      /\ cmd'[p].window = window /\ cmd'[p].run = cmd[p].run
      /\ "opened" \in DOMAIN cmd'[p] /\ cmd'[p].opened = cmd[p].opened
  BY <1>1, <1>4, ReturnSets
<1>7. log \in Since(p)'
  BY <1>1, <1>6, SinceNow
<1>8. BlameTold(p)'
  BY <1>1, <1>2, <1>3, <1>5, <1>6, <1>7 DEF BlameTold
<1> QED BY <1>6, <1>8

LEMMA BlameKeeps ==
    ASSUME CommandsInv, OpenedInv, BlameInv, [Next]_vars, Sound, Sound', OnDirectory,
           NEW p \in Procs, CommandStep(p), Verb(p) = "blame"
    PROVE  /\ UNCHANGED log
           /\ cmd'[p].pc = "found" => cmd[p].run.target \in IdsIn(log)
           /\ cmd'[p].pc = "walk" => Chain(cmd'[p].hops, cmd[p].run, log) /\ GapsRead(p)'
           /\ cmd'[p].pc = "done" /\ cmd'[p].exit = 0 => BlameTold(p)'
<1>1. BlameStep(p)
  BY VerbSteps
<1>2. CASE BlameFetch(p) \/ BlameGaps(p)
  <2>1. UNCHANGED log
    BY <1>2 DEF BlameFetch, BlameGaps
  <2>2. ~(cmd'[p].pc = "done" /\ cmd'[p].exit = 0)
    <3>1. cmd'[p].pc = "done" => cmd'[p].exit = 1
      BY <1>2, BlameBegins
    <3> QED BY <3>1
  <2> QED BY <1>2, <2>1, <2>2, BlameBegins
<1>3. CASE BlameHop(p)
  <2>1. /\ cmd'[p].pc = "walk" /\ cmd'[p].gapChildren = cmd[p].gapChildren
        /\ "gapChildren" \in DOMAIN cmd'[p] /\ UNCHANGED log
        /\ Chain(cmd'[p].hops, cmd[p].run, log)
        /\ "opened" \in DOMAIN cmd'[p] /\ cmd'[p].opened = cmd[p].opened
    BY <1>3, HopGoesOn
  <2>2. GapsRead(p)
    BY <1>3 DEF BlameHop, At, BlameInv, Verb
  <2>3. \A s \in Since(p) : s \in Since(p)'
    BY <2>1, SinceStays
  <2>4. GapsRead(p)'
    BY <2>1, <2>2, <2>3 DEF GapsRead
  <2> QED BY <2>1, <2>4
<1>4. CASE BlameEnd(p)
  <2>1. UNCHANGED log
    BY <1>4 DEF BlameEnd
  <2> QED BY <1>4, <2>1, EndTold
<1> QED BY <1>1, <1>2, <1>3, <1>4 DEF BlameStep

(* What was told stays true when there is more.                            *)
LEMMA BlameToldStays ==
    ASSUME CommandsInv, OpenedInv, [Next]_vars, Sound', NEW p \in Procs,
           cmd'[p] = cmd[p], BlameTold(p)
    PROVE  BlameTold(p)'
<1>1. \A s \in Since(p) : s \in Since(p)'
  BY SinceStays DEF Since
<1>2. PICK s \in Since(p) :
        /\ Chain(cmd[p].hops, cmd[p].run, s)
        /\ EndsTruly(s, cmd[p].hops, cmd[p].terminal, cmd[p].run.maxDepth)
  BY DEF BlameTold
<1>3. SubSeq(log', 1, cmd[p].opened) = SubSeq(log, 1, cmd[p].opened)
  BY <1>2, Growth, SinceFacts DEF Grows
<1> QED BY <1>1, <1>2, <1>3 DEF BlameTold

LEMMA BlameInductive == CommandsInv /\ OpenedInv /\ BlameInv /\ [Next]_vars => BlameInv'
<1> SUFFICES ASSUME CommandsInv, OpenedInv, BlameInv, [Next]_vars, Sound', OnDirectory',
                    NEW q \in Procs, Verb(q)' = "blame"
             PROVE  /\ cmd'[q].pc = "found" => cmd'[q].run.target \in IdsIn(log)'
                    /\ cmd'[q].pc = "walk" =>
                         Chain(cmd'[q].hops, cmd'[q].run, log') /\ GapsRead(q)'
                    /\ cmd'[q].pc = "done" /\ cmd'[q].exit = 0 => BlameTold(q)'
  BY DEF BlameInv
<1>1. Sound /\ Grows /\ OnDirectory
  BY Growth, LogSteps DEF OnDirectory
<1>2. IdsIn(log) \subseteq IdsIn(log)' /\ RecordsOf(log) \subseteq RecordsOf(log')
  BY <1>1, IdsStay DEF RecordsOf
<1>3. CASE cmd'[q] = cmd[q]
  <2>1. /\ cmd[q].pc = "found" => cmd[q].run.target \in IdsIn(log)
        /\ cmd[q].pc = "walk" => Chain(cmd[q].hops, cmd[q].run, log) /\ GapsRead(q)
        /\ cmd[q].pc = "done" /\ cmd[q].exit = 0 => BlameTold(q)
    BY <1>1, <1>3 DEF BlameInv, Verb
  <2>2. \A s \in Since(q) : s \in Since(q)'
    BY <1>3, SinceStays DEF Since
  <2>3. GapsRead(q) => GapsRead(q)'
    BY <1>3, <2>2 DEF GapsRead
  <2>4. Chain(cmd[q].hops, cmd[q].run, log) => Chain(cmd[q].hops, cmd[q].run, log')
    BY <1>2, ChainStays
  <2> QED BY <1>2, <1>3, <2>1, <2>3, <2>4, BlameToldStays
<1>4. CASE CommandStep(q)
  <2>1. cmd'[q].run = cmd[q].run
    BY <1>4, StepKeeps
  <2> QED BY <1>1, <1>4, <2>1, BlameKeeps DEF Verb
<1>5. CASE Start(q)
  <2>1. /\ cmd'[q].pc \in {"done", "open"}
        /\ cmd'[q].pc = "done" => cmd'[q].exit = 2
    BY <1>5, StartSets DEF CommandsInv
  <2>2. cmd'[q].pc = "done" => cmd'[q].exit # 0
    BY <2>1
  <2> QED BY <2>1, <2>2
<1>6. CASE cmd'[q] = [run |-> cmd[q].run, pc |-> "killed"]
  <2>1. cmd'[q].pc = "killed"
    BY <1>6
  <2> QED BY <2>1
<1> QED BY <1>3, <1>4, <1>5, <1>6, StepKinds

LEMMA BlameHolds == Spec => [](CommandsInv /\ OpenedInv /\ BlameInv)
<1>1. CommandsInit => BlameInv
  <2>1. ASSUME CommandsInit, NEW p \in Procs PROVE cmd[p].pc = "idle"
    <3>1. cmd[p] = [pc |-> "idle"]
      BY <2>1 DEF CommandsInit, Init
    <3> QED BY <3>1
  <2> QED BY <2>1 DEF BlameInv
<1> QED BY <1>1, BlameInductive, OpenedHold, PTL DEF Spec

(* The chain shown is one that the ledger held at some moment of the       *)
(* command, with the end it is said to have (blame_cmd.py:59-92, 150-155). *)
THEOREM BlamesTrue == Spec => []BlameTrue
<1>1. CommandsInv /\ OpenedInv /\ BlameInv => BlameTrue
  <2> SUFFICES ASSUME CommandsInv, OpenedInv, BlameInv, NEW p \in Procs,
                      Finished(p, "blame"), cmd[p].exit = 0, OnDirectory, Sound
               PROVE  LET hops == cmd[p].hops IN
                      /\ hops[1].id = cmd[p].run.target
                      /\ Cardinality(IdsIn(hops)) = Len(hops)
                      /\ \A i \in 1..(Len(hops) - 1) :
                           /\ hops[i].parent = hops[i + 1].id
                           /\ hops[i].relation # "epoch_opens"
                      /\ \E n \in cmd[p].opened..Len(log) :
                           LET s == SubSeq(log, 1, n) IN
                           /\ \A i \in DOMAIN hops : hops[i] \in {s[k] : k \in DOMAIN s}
                           /\ EndsTruly(s, hops, cmd[p].terminal, cmd[p].run.maxDepth)
                      /\ (cmd[p].terminal = "gap"
                            /\ hops[Len(hops)].id \in IdsIn(SubSeq(log, 1, cmd[p].opened)))
                           => cmd[p].window
    BY DEF BlameTrue, Sound
  <2> DEFINE hops == cmd[p].hops
  <2>1. BlameTold(p)
    BY DEF BlameInv, Finished, Verb
  <2>2. PICK s \in Since(p) :
          /\ Chain(hops, cmd[p].run, s)
          /\ EndsTruly(s, hops, cmd[p].terminal, cmd[p].run.maxDepth)
    BY <2>1 DEF BlameTold
  <2>3. PICK n \in cmd[p].opened..Len(log) : s = SubSeq(log, 1, n)
    BY SinceFacts
  <2>4. Cardinality(IdsIn(hops)) = Len(hops)
    <3>1. PICK S : hops \in Seq(S)
      BY <2>2 DEF Chain
    <3>2. \A i, j \in DOMAIN hops : hops[i].id = hops[j].id => i = j
      BY <2>2 DEF Chain
    <3> HIDE DEF hops
    <3> QED BY <3>1, <3>2, DistinctCount
  <2> QED BY <2>1, <2>2, <2>3, <2>4 DEF Chain, BlameTold, RecordsOf
<1> QED BY <1>1, BlameHolds, PTL

-----------------------------------------------------------------------------
(* The answers of the remote ledger                                        *)

Questions == {"remote fetch", "remote verify"}

(* A record asked for was not there when the call began.                   *)
Missed(p) ==
    /\ "opened" \in DOMAIN cmd[p]
    /\ cmd[p].run.target \notin IdsIn(SubSeq(log, 1, cmd[p].opened))

(* What is told is true: where the capsule is, what the ledger held, that  *)
(* the record asked for is there.                                          *)
Told(p, data) ==
    /\ Verb(p) = "remote append" =>
         data.seq \in DOMAIN log /\ log[data.seq] = cmd[p].run.capsule
    /\ Verb(p) = "remote scan" => data \in Since(p)
    /\ Verb(p) \in Questions => data # Nil /\ cmd[p].run.target \in IdsIn(log)

(* That there is none is true, or was concluded from an answer that named  *)
(* nothing.                                                                *)
NoneTold(p, data) ==
    \/ Verb(p) \in Questions /\ data = Nil /\ Missed(p)
    \/ Verb(p) \in Questions /\ data = Nil /\ "nothing" \in faults
    \/ Verb(p) = "remote scan" /\ data = <<>> /\ "nothing" \in faults

AnswerTrue(p) ==
    /\ wire[p].status = "ok" => Told(p, wire[p].data)
    /\ wire[p].status \in {"not found", "empty"} =>
         \/ Verb(p) = "remote append"
         \/ Verb(p) \in Questions /\ Missed(p)
         \/ "nothing" \in faults

RemoteInv ==
    Sound => \A p \in Procs : Verb(p) \in RemoteVerbs =>
        /\ cmd[p].pc = "sent" /\ Answered(p) => AnswerTrue(p)
        /\ cmd[p].pc = "done" /\ cmd[p].exit = 0 =>
             Told(p, cmd[p].got) \/ NoneTold(p, cmd[p].got)

(* What is true of an answer stays true when there is more.                *)
LEMMA ToldStays ==
    ASSUME CommandsInv, OpenedInv, [Next]_vars, Sound', NEW p \in Procs,
           cmd'[p].run = cmd[p].run,
           "opened" \in DOMAIN cmd[p] =>
             "opened" \in DOMAIN cmd'[p] /\ cmd'[p].opened = cmd[p].opened
    PROVE  /\ \A data : Told(p, data) => Told(p, data)'
           /\ Missed(p) => Missed(p)'
           /\ \A data : NoneTold(p, data) => NoneTold(p, data)'
<1>1. Sound /\ Grows /\ IdsIn(log) \subseteq IdsIn(log)' /\ faults \subseteq faults'
  BY Growth, IdsStay, LogSteps
<1>2. ASSUME NEW data, Told(p, data) PROVE Told(p, data)'
  <2>1. Verb(p)' = "remote append" =>
          data.seq \in DOMAIN log' /\ log'[data.seq] = cmd'[p].run.capsule
    BY <1>1, <1>2 DEF Told, Verb, Grows
  <2>2. Verb(p)' = "remote scan" => data \in Since(p)'
    <3>1. data \in Since(p) => "opened" \in DOMAIN cmd[p]
      BY DEF Since
    <3> QED BY <1>2, <3>1, SinceStays DEF Told, Verb
  <2>3. Verb(p)' \in Questions' => data # Nil /\ cmd'[p].run.target \in IdsIn(log)'
    BY <1>1, <1>2 DEF Told, Verb, Questions
  <2> QED BY <2>1, <2>2, <2>3 DEF Told
<1>3. ASSUME Missed(p) PROVE Missed(p)'
  <2>1. "opened" \in DOMAIN cmd[p] /\ cmd[p].opened \in 0..Len(log)
    BY <1>1, <1>3 DEF Missed, OpenedInv
  <2>2. SubSeq(log', 1, cmd[p].opened) = SubSeq(log, 1, cmd[p].opened)
    BY <1>1, <2>1 DEF Grows
  <2> QED BY <1>3, <2>1, <2>2 DEF Missed
<1>4. ASSUME NEW data, NoneTold(p, data) PROVE NoneTold(p, data)'
  BY <1>1, <1>3, <1>4 DEF NoneTold, Verb, Questions
<1> QED BY <1>2, <1>3, <1>4

(* An answer of the server is true when it is given.                       *)
LEMMA AppendAnswered ==
    ASSUME CommandsInv, RecordInv, NEW p \in Procs, ServeAppend(p), cmd[p].pc = "sent"
    PROVE  /\ UNCHANGED cmd /\ Verb(p) = "remote append"
           /\ wire'[p].status = "ok" => Told(p, wire[p].data)'
<1> DEFINE c == cmd[p].run.capsule
<1>1. /\ UNCHANGED cmd /\ Verb(p) = "remote append" /\ DOMAIN wire = Procs
      /\ cmd[p].run \in Work.runs[p] /\ workload \in DOMAIN Workloads
      /\ "remote append" \notin Questions
  BY DEF ServeAppend, Verb, CommandsInv, WireInv, CmdInv, Questions
<1>2. ASSUME NEW seq \in DOMAIN log', log'[seq] = c,
             wire'[p] = Answer("ok", [seq |-> seq, capsule |-> c])
      PROVE  Told(p, wire[p].data)'
  <2>1. wire'[p].data.seq = seq
    BY <1>2 DEF Answer
  <2> QED BY <1>1, <1>2, <2>1 DEF Told, Verb, Questions
<1>3. \A status \in {"empty", "error"} : Answer(status, Nil).status # "ok"
  BY DEF Answer
<1>4. CASE /\ c.id \notin IdsIn(log)
           /\ AppendToLog(c, cmd[p].run.consequential)
           /\ Reply(p, {Answer("ok", [seq |-> Len(log) + 1, capsule |-> c]),
                        Answer("empty", Nil), Answer("error", Nil)})
  <2>1. Len(log) + 1 \in DOMAIN log' /\ log'[Len(log) + 1] = c
    <3> HIDE DEF c
    <3> QED BY <1>4, AppendFacts
  <2>2. \/ wire'[p] = Answer("ok", [seq |-> Len(log) + 1, capsule |-> c])
        \/ wire'[p] = Answer("empty", Nil) \/ wire'[p] = Answer("error", Nil)
    BY <1>1, <1>4 DEF Reply
  <2> HIDE DEF c
  <2> QED BY <1>1, <1>2, <1>3, <2>1, <2>2
<1>5. CASE /\ c.id \in IdsIn(log)
           /\ Reply(p, {Answer("ok", [seq |-> SeqOf(log, c.id), capsule |-> c])})
           /\ UNCHANGED <<log, durable>>
  <2> DEFINE seq == SeqOf(log, c.id)
  <2>1. seq \in DOMAIN log /\ log[seq].id = c.id
    BY <1>5, FetchFacts
  <2>2. c \in Sent(Work, p)
    BY <1>1 DEF Sent, Verb
  <2>3. c \in Capsules(Work)
    BY <2>2 DEF Capsules
  <2>4. PlainCapsule(c)
    BY <1>1, <2>3, CapsulesAssumption DEF Work
  <2>5. Recorded(log[seq])
    BY <2>1 DEF RecordInv, RecordsOf
  <2>6. log[seq] \in Capsules(Work)
    BY <2>1, <2>4, <2>5 DEF Recorded, PlainCapsule
  <2>7. log[seq] = c
    BY <1>1, <2>1, <2>2, <2>6, HashAssumption DEF Work
  <2>8. wire'[p] = Answer("ok", [seq |-> seq, capsule |-> c])
    BY <1>1, <1>5 DEF Reply
  <2> HIDE DEF c, seq
  <2> QED BY <1>1, <1>2, <1>3, <1>5, <2>1, <2>7, <2>8
<1>6. CASE Reply(p, {Answer("error", Nil)}) /\ UNCHANGED <<log, durable>>
  <2>1. wire'[p] = Answer("error", Nil)
    BY <1>1, <1>6 DEF Reply
  <2> QED BY <1>1, <1>3, <2>1
<1> QED BY <1>1, <1>4, <1>5, <1>6 DEF ServeAppend

LEMMA NothingAnswered ==
    ASSUME CommandsInv, NEW p \in Procs, ServeNothing(p), cmd[p].pc = "sent"
    PROVE  AnswerTrue(p)'
<1>1. wire'[p] \in {Answer("not found", Nil), Answer("empty", Nil)} /\ "nothing" \in faults'
  BY DEF ServeNothing, Reply, Fault, CommandsInv, WireInv
<1>2. \A status : Answer(status, Nil).status = status
  BY DEF Answer
<1>3. wire'[p].status # "ok"
  BY <1>1, <1>2
<1> QED BY <1>1, <1>3 DEF AnswerTrue

LEMMA QuestionAnswered ==
    ASSUME CommandsInv, RecordInv, OpenedInv, Sound, NEW p \in Procs, ServeQuestion(p),
           cmd[p].pc = "sent", Answered(p)'
    PROVE  AnswerTrue(p)'
<1>1. /\ UNCHANGED <<log, cmd>> /\ DOMAIN wire = Procs /\ "opened" \in DOMAIN cmd[p]
      /\ Verb(p) \in Questions \cup {"remote scan"}
      /\ cmd[p].opened \in 0..Len(log) /\ Len(log) \in Nat
  BY LogFacts DEF ServeQuestion, Request, Verb, CommandsInv, WireInv, Questions, RemoteVerbs,
     OpenedInv, Ended
<1> DEFINE run == cmd[p].run
           found == Fetch(log, run.target)
<1>2. \/ wire'[p] \in Answers(run)
      \/ wire'[p] = Answer("error", Nil)
  BY <1>1 DEF ServeQuestion, Reply
<1>3. /\ \A data : Answer("ok", data).status = "ok" /\ Answer("ok", data).data = data
      /\ Answer("not found", Nil).status = "not found"
      /\ Answer("error", Nil).status = "error"
  BY DEF Answer
<1>4. ASSUME NEW data, wire'[p] = Answer("ok", data), Told(p, data)' PROVE AnswerTrue(p)'
  BY <1>3, <1>4 DEF AnswerTrue
<1>5. CASE wire'[p] = Answer("error", Nil)
  BY <1>3, <1>5 DEF AnswerTrue
<1>6. CASE Verb(p) = "remote scan" /\ wire'[p] \in Answers(run)
  <2>1. wire'[p] = Answer("ok", log)
    BY <1>6 DEF Answers, Verb
  <2>2. log \in Since(p)'
    <3>1. log = SubSeq(log, 1, Len(log))
      BY LogFacts DEF CommandsInv
    <3>2. ASSUME NEW m \in Nat, NEW k \in 0..m PROVE m \in k..m
      OBVIOUS
    <3>3. Len(log) \in cmd[p].opened..Len(log)
      BY <1>1, <3>2
    <3> QED BY <1>1, <3>1, <3>3 DEF Since
  <2>3. Told(p, log)'
    BY <1>1, <1>6, <2>2 DEF Told, Verb, Questions
  <2>4. log' = log
    BY <1>1
  <2>5. \A data : data = log => Told(p, data)'
    BY <2>3, <2>4
  <2> QED BY <1>4, <2>1, <2>5
<1>7. CASE Verb(p) \in Questions /\ wire'[p] \in Answers(run)
  <2>1. CASE run.target \notin IdsIn(log)
    <3>1. wire'[p] = Answer("not found", Nil)
      BY <1>7, <2>1 DEF Answers, Verb, Questions
    <3>2. Missed(p)'
      <4>1. IdsIn(SubSeq(log, 1, cmd[p].opened)) \subseteq IdsIn(log)
        <5> DEFINE m == cmd[p].opened
        <5>1. /\ DOMAIN SubSeq(log, 1, m) = 1..m /\ 1..m \subseteq DOMAIN log
              /\ \A i \in 1..m : SubSeq(log, 1, m)[i] = log[i]
          BY <1>1, LogFacts DEF CommandsInv
        <5> HIDE DEF m
        <5>2. IdsIn(SubSeq(log, 1, m)) \subseteq IdsIn(log)
          BY <5>1 DEF IdsIn
        <5> QED BY <5>2 DEF m
      <4> QED BY <1>1, <2>1, <4>1 DEF Missed
    <3> QED BY <1>1, <1>3, <1>7, <3>1, <3>2 DEF AnswerTrue, Verb, Questions
  <2>2. CASE run.target \in IdsIn(log)
    <3>1. found \in RecordsOf(log)
      BY <2>2, FetchFacts
    <3>2. found # Nil /\ found.intact \in BOOLEAN
      BY <3>1, RecordFacts DEF RecordInv
    <3>3. \A ok \in Verdicts(log, found) : ok \in BOOLEAN
      BY <3>2 DEF Verdicts
    <3>4. \E data : wire'[p] = Answer("ok", data) /\ (data = found \/ data \in Verdicts(log, found))
      BY <1>7, <2>2 DEF Answers, Verb, Questions
    <3>5. PICK data : wire'[p] = Answer("ok", data) /\ data # Nil
      BY <3>2, <3>3, <3>4, NamesAssumption
    <3>6. Told(p, data)'
      BY <1>1, <1>7, <2>2, <3>5 DEF Told, Verb, Questions
    <3> QED BY <1>4, <3>5, <3>6
  <2> QED BY <2>1, <2>2
<1> QED BY <1>1, <1>2, <1>5, <1>6, <1>7

(* What happens on the wire of p.                                          *)
LEMMA WireSteps ==
    ASSUME CommandsInv, [Next]_vars, NEW p \in Procs
    PROVE  \/ wire'[p] = wire[p]
           \/ wire'[p] = Nil
           \/ RemoteSend(p)
           \/ ServeAppend(p) \/ ServeQuestion(p) \/ ServeNothing(p)
<1>1. DOMAIN wire = Procs
  BY DEF CommandsInv, WireInv
<1>2. UNCHANGED vars => UNCHANGED wire
  BY DEF vars
<1>3. ASSUME NEW q \in Procs, CommandStep(q)
      PROVE  wire'[p] = wire[p] \/ wire'[p] = Nil \/ RemoteSend(p)
  <2>1. RemoteStep(q) => wire'[p] = wire[p] \/ wire'[p] = Nil \/ RemoteSend(p)
    BY <1>1 DEF RemoteStep, RemoteSend, Receive, TimeOut, RemoteFindGaps
  <2> QED BY <1>3, <2>1 DEF CommandStep
<1>4. ASSUME NEW q \in Procs, Serve(q)
      PROVE  \/ wire'[p] = wire[p] \/ wire'[p] = Nil
             \/ ServeAppend(p) \/ ServeQuestion(p)
  <2>1. q # p => wire'[p] = wire[p]
    BY <1>1, <1>4 DEF Serve, ServeAppend, ServeQuestion, Lose, Reply
  <2>2. Lose(p) => wire'[p] = Nil
    BY <1>1 DEF Lose
  <2> QED BY <1>4, <2>1, <2>2 DEF Serve
<1>5. ASSUME NEW q \in Procs, ServeNothing(q)
      PROVE  wire'[p] = wire[p] \/ ServeNothing(p)
  BY <1>1, <1>5 DEF ServeNothing, Reply
<1>6. Environment => \/ wire'[p] = wire[p] \/ wire'[p] = Nil
                     \/ ServeAppend(p) \/ ServeQuestion(p) \/ ServeNothing(p)
  BY <1>1, <1>4, <1>5 DEF Environment
<1> QED BY <1>2, <1>3, <1>6 DEF Next

(* What a call returns is what was answered.                               *)
LEMMA RemoteReturns ==
    ASSUME CommandsInv, OpenedInv, RemoteInv, Sound, NEW p \in Procs, CommandStep(p),
           Verb(p) \in RemoteVerbs
    PROVE  \/ RemoteSend(p) /\ cmd'[p].pc = "sent"
           \/ cmd'[p].pc = "raised"
           \/ /\ cmd'[p].pc = "done" /\ "opened" \in DOMAIN cmd'[p]
              /\ Told(p, cmd'[p].got) \/ NoneTold(p, cmd'[p].got)
<1>1. CmdInv
  BY DEF CommandsInv
<1>2. ASSUME Raise(p) PROVE cmd'[p].pc = "raised"
  <2>1. cmd'[p] = [run |-> cmd[p].run, pc |-> "raised"]
    BY <1>1, <1>2, RaiseSets
  <2> QED BY <2>1
<1>3. ASSUME NEW data, Return(p, 0, [got |-> data])
      PROVE  cmd'[p].pc = "done" /\ "opened" \in DOMAIN cmd'[p] /\ cmd'[p].got = data
  <2> DEFINE printed == [got |-> data]
  <2>1. DOMAIN printed = {"got"} /\ printed.got = data /\ Return(p, 0, printed)
    BY <1>3
  <2> HIDE DEF printed
  <2> QED BY <1>1, <2>1, ReturnSets
<1>4. CASE RemoteSend(p)
  <2> DEFINE changes == [pc |-> "sent"]
  <2>1. DOMAIN changes = {"pc"} /\ changes.pc = "sent" /\ Goto(p, changes)
    BY <1>4 DEF RemoteSend
  <2> HIDE DEF changes
  <2> QED BY <1>1, <1>4, <2>1, GotoSets
<1>5. CASE TimeOut(p)
  BY <1>2, <1>5 DEF TimeOut
<1>6. CASE Receive(p)
  <2>1. AnswerTrue(p)
    BY <1>6 DEF Receive, RemoteInv
  <2>2. CASE wire[p].status = "ok" /\ Return(p, 0, [got |-> wire[p].data])
    BY <1>3, <2>1, <2>2 DEF AnswerTrue
  <2>3. CASE wire[p].status \in {"not found", "empty"} /\ Verb(p) = "remote scan"
             /\ Return(p, 0, [got |-> <<>>])
    BY <1>3, <2>1, <2>3 DEF AnswerTrue, NoneTold, Questions
  <2>4. CASE wire[p].status \in {"not found", "empty"} /\ Verb(p) \in Questions
             /\ Return(p, 0, [got |-> Nil])
    BY <1>3, <2>1, <2>4 DEF AnswerTrue, NoneTold, Questions
  <2> QED BY <1>2, <1>6, <2>2, <2>3, <2>4 DEF Receive, ReceiveNone, Verb, Questions
<1> QED BY <1>4, <1>5, <1>6, VerbSteps

LEMMA RemoteInductive ==
    CommandsInv /\ RecordInv /\ OpenedInv /\ RemoteInv /\ [Next]_vars => RemoteInv'
<1> SUFFICES ASSUME CommandsInv, RecordInv, OpenedInv, RemoteInv, [Next]_vars, Sound',
                    NEW q \in Procs, Verb(q)' \in RemoteVerbs
             PROVE  /\ cmd'[q].pc = "sent" /\ Answered(q)' => AnswerTrue(q)'
                    /\ cmd'[q].pc = "done" /\ cmd'[q].exit = 0 =>
                         Told(q, cmd[q].got)' \/ NoneTold(q, cmd[q].got)'
  BY DEF RemoteInv, RemoteVerbs, Questions
<1>1. Sound
  BY Growth
<1>2. CASE cmd'[q] = cmd[q]
  <2>1. /\ \A data : Told(q, data) => Told(q, data)'
        /\ Missed(q) => Missed(q)'
        /\ \A data : NoneTold(q, data) => NoneTold(q, data)'
        /\ Verb(q)' = Verb(q) /\ faults \subseteq faults'
    BY <1>2, ToldStays, LogSteps DEF Verb
  <2>2. ASSUME cmd[q].pc = "sent", Answered(q)' PROVE AnswerTrue(q)'
    <3>1. CASE wire'[q] = wire[q]
      <4>1. AnswerTrue(q)
        BY <1>1, <2>1, <2>2, <3>1 DEF RemoteInv, Answered
      <4> QED BY <2>1, <3>1, <4>1 DEF AnswerTrue
    <3>2. wire'[q] # Nil /\ wire'[q].status # "asked"
      BY <2>2 DEF Answered
    <3>3. CASE RemoteSend(q)
      <4>1. wire'[q] = Asked
        BY <3>3 DEF RemoteSend, CommandsInv, WireInv
      <4>2. Asked.status = "asked"
        BY DEF Asked, Answer
      <4> QED BY <3>2, <4>1, <4>2
    <3>4. CASE ServeAppend(q)
      <4>1. /\ Verb(q) = "remote append"
            /\ wire'[q].status = "ok" => Told(q, wire[q].data)'
        BY <2>2, <3>4, AppendAnswered
      <4> QED BY <2>1, <4>1 DEF AnswerTrue
    <3>5. CASE ServeQuestion(q)
      BY <1>1, <2>2, <3>5, QuestionAnswered
    <3>6. CASE ServeNothing(q)
      BY <2>2, <3>6, NothingAnswered DEF ServeNothing
    <3> QED BY <3>1, <3>2, <3>3, <3>4, <3>5, <3>6, WireSteps
  <2>3. ASSUME cmd[q].pc = "done", cmd[q].exit = 0
        PROVE  Told(q, cmd[q].got)' \/ NoneTold(q, cmd[q].got)'
    <3>1. Told(q, cmd[q].got) \/ NoneTold(q, cmd[q].got)
      BY <1>1, <2>1, <2>3 DEF RemoteInv
    <3>2. \A data : data = cmd'[q].got =>
            /\ Told(q, data) => Told(q, cmd[q].got)'
            /\ NoneTold(q, data) => NoneTold(q, cmd[q].got)'
      BY <2>1
    <3> QED BY <1>2, <2>1, <3>1, <3>2
  <2> QED BY <1>2, <2>2, <2>3
<1>3. CASE CommandStep(q)
  <2>1. cmd'[q].run = cmd[q].run /\ Verb(q) \in RemoteVerbs /\ Verb(q)' = Verb(q)
        /\ cmd[q].pc \notin Ended
    BY <1>3, StepKeeps DEF Verb, CommandStep
  <2>2. CASE RemoteSend(q) /\ cmd'[q].pc = "sent"
    <3>1. wire'[q] = Asked
      BY <2>2 DEF RemoteSend, CommandsInv, WireInv
    <3>2. Asked.status = "asked"
      BY DEF Asked, Answer
    <3> QED BY <2>2, <3>1, <3>2 DEF Answered
  <2>3. CASE /\ cmd'[q].pc = "done" /\ "opened" \in DOMAIN cmd'[q]
             /\ Told(q, cmd'[q].got) \/ NoneTold(q, cmd'[q].got)
    <3>1. cmd'[q].opened = cmd[q].opened
      BY <1>3, <2>1, <2>3, StepKeeps DEF OpenedInv
    <3>2. /\ \A data : Told(q, data) => Told(q, data)'
          /\ \A data : NoneTold(q, data) => NoneTold(q, data)'
      BY <2>1, <2>3, <3>1, ToldStays
    <3>3. \A data : data = cmd'[q].got =>
            /\ Told(q, data) => Told(q, cmd[q].got)'
            /\ NoneTold(q, data) => NoneTold(q, cmd[q].got)'
      BY <3>2
    <3> QED BY <2>1, <2>3, <3>2, <3>3
  <2> QED BY <1>1, <1>3, <2>1, <2>2, <2>3, RemoteReturns
<1>4. CASE Start(q)
  <2>1. /\ cmd'[q].pc \in {"done", "open"}
        /\ cmd'[q].pc = "done" => cmd'[q].exit = 2
    BY <1>4, StartSets DEF CommandsInv
  <2>2. cmd'[q].pc = "done" => cmd'[q].exit # 0
    BY <2>1
  <2> QED BY <2>1, <2>2
<1>5. CASE cmd'[q] = [run |-> cmd[q].run, pc |-> "killed"]
  <2>1. cmd'[q].pc = "killed"
    BY <1>5
  <2> QED BY <2>1
<1> QED BY <1>2, <1>3, <1>4, <1>5, StepKinds

LEMMA RemoteHolds == Spec => [](CommandsInv /\ RemoteInv)
<1>1. CommandsInit => RemoteInv
  <2>1. ASSUME CommandsInit, NEW p \in Procs PROVE cmd[p].pc = "idle"
    <3>1. cmd[p] = [pc |-> "idle"]
      BY <2>1 DEF CommandsInit, Init
    <3> QED BY <3>1
  <2> QED BY <2>1 DEF RemoteInv
<1> QED BY <1>1, RemoteInductive, RecordsHold, OpenedHold, PTL DEF Spec

(* A record that a call tells of is there, and that there is none is       *)
(* concluded of no answer lost, late or failed (remote_ledger.py:52-108).  *)
THEOREM RemoteAnswersTrue == Spec => []RemoteNeverInvents
<1>1. RemoteInv => RemoteNeverInvents
  <2> SUFFICES ASSUME RemoteInv, Sound, NEW p \in Procs, RemoteReturned(p, RemoteVerbs)
               PROVE  LET run == cmd[p].run
                          got == cmd[p].got
                          then == SubSeq(log, 1, cmd[p].opened)
                      IN  CASE run.verb = "remote append" ->
                                 got.seq \in DOMAIN log /\ log[got.seq] = run.capsule
                            [] run.verb = "remote scan" ->
                                 ScanTrue(p) \/ (got = <<>> /\ "nothing" \in faults)
                            [] OTHER ->
                                 IF got = Nil
                                 THEN run.target \notin IdsIn(then) \/ "nothing" \in faults
                                 ELSE run.target \in IdsIn(log)
    BY DEF RemoteNeverInvents, Sound
  <2>1. Verb(p) \in RemoteVerbs /\ (Told(p, cmd[p].got) \/ NoneTold(p, cmd[p].got))
    BY DEF RemoteInv, RemoteReturned, Verb
  <2>2. CASE Verb(p) = "remote append"
    BY <2>1, <2>2 DEF Told, NoneTold, Verb, Questions
  <2>3. CASE Verb(p) = "remote scan"
    BY <2>1, <2>3 DEF Told, NoneTold, Verb, Questions, Since, ScanTrue
  <2>4. CASE Verb(p) \in Questions
    BY <2>1, <2>4 DEF Told, NoneTold, Verb, Questions, Missed
  <2> QED BY <2>1, <2>2, <2>3, <2>4 DEF RemoteVerbs, Questions
<1> QED BY <1>1, RemoteHolds, PTL

=============================================================================
