------------------------------- MODULE Blame -------------------------------
(***************************************************************************)
(* `capsule blame` (cli/blame_cmd.py): from a record back along the        *)
(* parents its chain names.  Each hop is a fetch of its own, others append *)
(* in between, and the gaps of the ledger are looked up before the walk.   *)
(***************************************************************************)
EXTENDS LedgerAccess

BlameFetch(p) ==
    /\ At(p, "blame", "open")
    /\ \/ NoSuchCapsule(p, 1)
       \/ /\ cmd[p].run.target \in IdsIn(Store(p))
          /\ Goto(p, [pc |-> "found"])
    /\ UNCHANGED <<workload, log, durable, files, faults>>

(* gaps_by_child, and the walk begins with the target.                     *)
BlameGaps(p) ==
    /\ At(p, "blame", "found")
    /\ LET s == Store(p) IN
         Goto(p, [pc |-> "walk", hops |-> <<Fetch(s, cmd[p].run.target)>>,
                  gapChildren |-> {s[i].id : i \in Gaps(s)}])
    /\ UNCHANGED <<workload, log, durable, files, faults>>

Current(p) == cmd[p].hops[Len(cmd[p].hops)]

Visited(p) == IdsIn(cmd[p].hops)

AtMaxDepth(p) == cmd[p].run.maxDepth # Nil /\ Len(cmd[p].hops) >= cmd[p].run.maxDepth

(* Defect variant of Terminal: the walk goes on past an epoch's opening.    *)
TerminalPastEpochs(p) ==
    LET c == Current(p) IN
    IF c.parent = Nil THEN "standalone"
    ELSE IF AtMaxDepth(p) THEN "truncated"
    ELSE IF c.parent \in Visited(p) THEN "cycle"
    ELSE IF c.parent \notin IdsIn(Store(p)) THEN "gap"
    ELSE "none"

(* What ends the walk at the record at hand; the tests come in this order. *)
Terminal(p) ==
    LET c == Current(p) IN
    IF c.relation = "epoch_opens" THEN "epoch_open"
    ELSE IF c.parent = Nil THEN "standalone"
    ELSE IF AtMaxDepth(p) THEN "truncated"
    ELSE IF c.parent \in Visited(p) THEN "cycle"
    ELSE IF c.parent \notin IdsIn(Store(p)) THEN "gap"
    ELSE "none"

BlameHop(p) ==
    /\ At(p, "blame", "walk")
    /\ Terminal(p) = "none"
    /\ Goto(p, [hops |-> Append(cmd[p].hops, Fetch(Store(p), Current(p).parent))])
    /\ UNCHANGED <<workload, log, durable, files, faults>>

BlameEnd(p) ==
    /\ At(p, "blame", "walk")
    /\ Terminal(p) # "none"
    /\ Return(p, 0, [hops     |-> cmd[p].hops,
                     terminal |-> Terminal(p),
                     window   |-> /\ Terminal(p) = "gap"
                                  /\ Current(p).id \in cmd[p].gapChildren])
    /\ UNCHANGED <<workload, log, durable, files, faults>>

BlameStep(p) == BlameFetch(p) \/ BlameGaps(p) \/ BlameHop(p) \/ BlameEnd(p)

-----------------------------------------------------------------------------
(* Properties                                                              *)

(* What ends a chain, as the command's help words it.                      *)
EndsTruly(s, hops, terminal, maxDepth) ==
    LET c == hops[Len(hops)] IN
    CASE terminal = "epoch_open" -> c.relation = "epoch_opens"
      [] terminal = "standalone" -> c.parent = Nil
      [] terminal = "truncated"  -> Len(hops) = IF maxDepth < 1 THEN 1 ELSE maxDepth
      [] terminal = "cycle"      -> c.parent \in IdsIn(hops)
      [] terminal = "gap"        -> c.parent \notin IdsIn(s)

(* The chain shown is one the ledger really held at some moment while the  *)
(* command ran: all hops and the end are true of one and the same prefix   *)
(* of it, no record comes twice, none but the last opens an epoch          *)
(* (blame_cmd.py:59-92; docs/tutorials/02-reading-what-happened.md:126,    *)
(* "it's exact").  If it ends in a gap that was there when the command     *)
(* was started, the window is shown (150-155).                             *)
BlameTrue ==
    \A p \in Procs :
        (Finished(p, "blame") /\ cmd[p].exit = 0 /\ OnDirectory
           /\ "crash" \notin faults) =>
          LET hops == cmd[p].hops IN
          /\ hops[1].id = cmd[p].run.target
          /\ Cardinality(IdsIn(hops)) = Len(hops)
          /\ \A i \in 1..(Len(hops) - 1) :
               hops[i].parent = hops[i + 1].id /\ hops[i].relation # "epoch_opens"
          /\ \E n \in cmd[p].opened..Len(log) :
               LET s == SubSeq(log, 1, n) IN
               /\ \A i \in DOMAIN hops : hops[i] \in {s[k] : k \in DOMAIN s}
               /\ EndsTruly(s, hops, cmd[p].terminal, cmd[p].run.maxDepth)
          /\ (cmd[p].terminal = "gap"
                /\ hops[Len(hops)].id \in IdsIn(SubSeq(log, 1, cmd[p].opened)))
               => cmd[p].window

=============================================================================
