------------------------------ MODULE Commands ------------------------------
(***************************************************************************)
(* The commands that work on one ledger, together: rotations, payloads,    *)
(* queries, walks and remote calls of several processes, while agents      *)
(* append and processes are killed or lose power.                          *)
(***************************************************************************)
EXTENDS RemoteLedger, Payloads, Blame

(* What agents append, and what a remote append sends: capsules with ids   *)
(* of their own, none a rotation draws.  No agent writes rotation events.  *)
Sent(work, p) ==
    {run.capsule : run \in {r \in work.runs[p] : r.verb = "remote append"}}

Capsules(work) == work.capsules \cup UNION {Sent(work, p) : p \in Procs}

PlainCapsule(c) ==
    /\ c # Nil
    /\ c.id \notin Procs
    /\ c.event = Nil
    /\ c.ts \in Times
    /\ c.intact \in BOOLEAN
    /\ c.reason \in Digests \cup {Nil}
    /\ c.evidence \in Seq(Digests)

ASSUME CapsulesAssumption ==
    \A w \in DOMAIN Workloads : \A c \in Capsules(Workloads[w]) : PlainCapsule(c)

(* An id is the hash of its capsule: what a remote append sends has the id *)
(* of no other.                                                            *)
ASSUME HashAssumption ==
    \A w \in DOMAIN Workloads : \A p \in Procs :
        \A c \in Sent(Workloads[w], p), d \in Capsules(Workloads[w]) :
            c.id = d.id => c = d

(* The arguments of the commands, as their parsers let them through.       *)
ASSUME RunsAssumption ==
    \A w \in DOMAIN Workloads : \A p \in Procs : \A run \in Workloads[w].runs[p] :
        /\ run.verb = "key rotate" =>
             /\ run.at \in Times \cup {Nil}
             /\ \A t \in Times : Nil \notin {Detail(p, run, t), RotationCapsule(p, run, t)}
        /\ run.verb = "payload put" => run.payload \in Digests \cup {Nil}
        /\ run.verb = "blame" => run.maxDepth \in Int \cup {Nil}

ASSUME NamesAssumption ==
    /\ Nil \notin Procs \cup Digests \cup BOOLEAN
    /\ (Torn \cup {"no JSON"}) \cap (Digests \cup {Nil}) = {}

vars == <<avars, wire>>

CommandsInit ==
    /\ Init
    /\ wire = [p \in Procs |-> Nil]

CommandStep(p) ==
    /\ cmd[p].pc \notin Ended
    /\ \/ (KeyStep(p) \/ PayloadStep(p) \/ BlameStep(p)) /\ UNCHANGED wire
       \/ RemoteStep(p)

Environment ==
    \/ AgentAppend /\ UNCHANGED wire
    \/ \E p \in Procs : (Start(p) \/ Kill(p)) /\ UNCHANGED wire
    \/ \E p \in Procs : Serve(p) \/ ServeNothing(p)
    \/ Damage /\ UNCHANGED wire
    \/ Crash /\ wire' = [p \in Procs |-> Nil]

Next == Environment \/ \E p \in Procs : CommandStep(p)

Spec == CommandsInit /\ [][Next]_vars

(* A process that was started runs on: nothing in it waits for another,    *)
(* but for an answer, and that wait has a timeout.                         *)
FairSpec == Spec /\ \A p \in Procs : WF_vars(CommandStep(p))

-----------------------------------------------------------------------------
(* Properties                                                              *)

Pcs == Ended \cup {"open", "recorded", "fetched", "writing", "show", "list",
                   "found", "walk", "sent"}

(* Every variable has its type; ids in the log are unique, and what is on  *)
(* disk is part of it.                                                     *)
TypeOK ==
    /\ workload \in DOMAIN Workloads
    /\ Cardinality(IdsIn(log)) = Len(log)
    /\ durable \in 0..Len(log)
    /\ files \in [Digests -> {Nil, "no JSON"} \cup Torn \cup Digests]
    /\ \A p \in Procs : /\ cmd[p].pc \in Pcs
                        /\ cmd[p].pc # "idle" => cmd[p].run \in Work.runs[p]
    /\ \A p \in Procs : wire[p] # Nil => cmd[p].run.verb \in RemoteVerbs
    /\ faults \subseteq Work.faults

(* Every command that is started ends, also blame on a chain that loops,   *)
(* log while others append, and a remote call that nobody answers          *)
(* (blame_cmd.py:67-92, log_cmd.py:48-70, remote_ledger.py:66): a process  *)
(* runs one command, and in the end none is still running.                 *)
CommandsEnd == <>[](\A p \in Procs : cmd[p].pc \in Ended)

=============================================================================
