---------------------------- MODULE RemoteLedger ----------------------------
(***************************************************************************)
(* RemoteLedgerAPI (examples/remote_ledger.py): the ledger's API over      *)
(* HTTP.  The server is external; it keeps the log of LedgerAccess.  A     *)
(* request or its answer may be lost, and a request whose caller has given *)
(* up may still be served.                                                 *)
(***************************************************************************)
EXTENDS KeyRotation

VARIABLE wire           \* for each process, its request or the answer to it

Answer(status, data) == [status |-> status, data |-> data]

Asked == Answer("asked", Nil)

Request(p) == wire[p] # Nil /\ wire[p].status = "asked"

Answered(p) == wire[p] # Nil /\ wire[p].status # "asked"

RemoteVerbs == {"remote append", "remote fetch", "remote scan", "remote verify"}

(* _request, up to the wait for the answer.                                *)
RemoteSend(p) ==
    /\ cmd[p].pc = "open"
    /\ cmd[p].run.verb \in RemoteVerbs
    /\ Goto(p, [pc |-> "sent"])
    /\ wire' = [wire EXCEPT ![p] = Asked]
    /\ UNCHANGED <<workload, log, durable, files, faults>>

(* What the server answers; nobody may be waiting for it any more.         *)
Reply(p, answers) ==
    \E answer \in answers :
      wire' = [wire EXCEPT ![p] = IF cmd[p].pc = "sent" THEN answer ELSE Nil]

(* Defect variant of ServeAppend: a request repeated is appended again.     *)
ServeAppendAgain(p) ==
    /\ Request(p)
    /\ cmd[p].run.verb = "remote append"
    /\ AppendToLog(cmd[p].run.capsule, cmd[p].run.consequential)
    /\ Reply(p, {Answer("ok", [seq |-> Len(log) + 1, capsule |-> cmd[p].run.capsule])})
    /\ UNCHANGED <<workload, files, cmd, faults>>

(* The server appends, or refuses; that a capsule is there already it may  *)
(* answer with the record or with an error.  The answer may lack a body,   *)
(* or be that something failed after the append.                           *)
ServeAppend(p) ==
    /\ Request(p)
    /\ cmd[p].run.verb = "remote append"
    /\ LET c == cmd[p].run.capsule IN
         \/ /\ c.id \notin IdsIn(log)
            /\ AppendToLog(c, cmd[p].run.consequential)
            /\ Reply(p, {Answer("ok", [seq |-> Len(log) + 1, capsule |-> c]),
                         Answer("empty", Nil), Answer("error", Nil)})
         \/ /\ c.id \in IdsIn(log)
            /\ Reply(p, {Answer("ok", [seq |-> SeqOf(log, c.id), capsule |-> c])})
            /\ UNCHANGED <<log, durable>>
         \/ /\ Reply(p, {Answer("error", Nil)})
            /\ UNCHANGED <<log, durable>>
    /\ UNCHANGED <<workload, files, cmd, faults>>

(* What the server may answer to a question.                               *)
Answers(run) ==
    IF run.verb = "remote scan" THEN {Answer("ok", log)}
    ELSE IF run.target \notin IdsIn(log) THEN {Answer("not found", Nil)}
    ELSE IF run.verb = "remote fetch" THEN {Answer("ok", Fetch(log, run.target))}
    ELSE {Answer("ok", ok) : ok \in Verdicts(log, Fetch(log, run.target))}

ServeQuestion(p) ==
    /\ Request(p)
    /\ cmd[p].run.verb # "remote append"
    /\ Reply(p, Answers(cmd[p].run) \cup {Answer("error", Nil)})
    /\ UNCHANGED <<workload, log, durable, files, cmd, faults>>

(* A 404 that is not about a record (another address, a tenant that is not *)
(* known), or an answer without a body.                                    *)
ServeNothing(p) ==
    /\ Request(p)
    /\ Fault("nothing")
    /\ Reply(p, {Answer("not found", Nil), Answer("empty", Nil)})
    /\ UNCHANGED <<log, durable, files, cmd>>

Lose(p) ==
    /\ wire[p] # Nil
    /\ wire' = [wire EXCEPT ![p] = Nil]
    /\ UNCHANGED avars

(* What a call makes of None: fetch and verify return it, a scan yields no *)
(* record (data or []), append makes a record of it and fails.             *)
ReceiveNone(p) ==
    \/ cmd[p].run.verb = "remote append" /\ Raise(p)
    \/ cmd[p].run.verb = "remote scan" /\ Return(p, 0, [got |-> <<>>])
    \/ cmd[p].run.verb \in {"remote fetch", "remote verify"} /\ Return(p, 0, [got |-> Nil])

(* 404 and an empty body are None.  Any other HTTP error is raised.        *)
Receive(p) ==
    /\ cmd[p].pc = "sent"
    /\ Answered(p)
    /\ LET a == wire[p] IN
         \/ a.status = "ok" /\ Return(p, 0, [got |-> a.data])
         \/ a.status \in {"not found", "empty"} /\ ReceiveNone(p)
         \/ a.status = "error" /\ Raise(p)
    /\ wire' = [wire EXCEPT ![p] = Nil]
    /\ UNCHANGED <<workload, log, durable, files, faults>>

(* Defect variant of TimeOut: no answer is taken for nothing found.        *)
TimeOutAsMissing(p) ==
    /\ cmd[p].pc = "sent"
    /\ ReceiveNone(p)
    /\ wire' = [wire EXCEPT ![p] = IF Request(p) THEN @ ELSE Nil]
    /\ UNCHANGED <<workload, log, durable, files, faults>>

(* Defect variant of TimeOut: the request is sent again, and again.        *)
TimeOutRetries(p) ==
    /\ cmd[p].pc = "sent"
    /\ wire' = [wire EXCEPT ![p] = Asked]
    /\ UNCHANGED avars

(* The connection fails or times out; a request on its way stays there.    *)
TimeOut(p) ==
    /\ cmd[p].pc = "sent"
    /\ Raise(p)
    /\ wire' = [wire EXCEPT ![p] = IF Request(p) THEN @ ELSE Nil]
    /\ UNCHANGED <<workload, log, durable, files, faults>>

RemoteFindGaps(p) ==
    /\ At(p, "remote find_gaps", "open")
    /\ Raise(p)
    /\ UNCHANGED <<workload, log, durable, files, faults, wire>>

RemoteStep(p) == RemoteSend(p) \/ Receive(p) \/ TimeOut(p) \/ RemoteFindGaps(p)

Serve(p) == ServeAppend(p) \/ ServeQuestion(p) \/ Lose(p)

-----------------------------------------------------------------------------
(* Properties                                                              *)

(* The log that p has scanned is one that the ledger held during the call. *)
ScanTrue(p) == \E n \in cmd[p].opened..Len(log) : cmd[p].got = SubSeq(log, 1, n)

RemoteReturned(p, verbs) ==
    cmd[p].pc = "done" /\ cmd[p].run.verb \in verbs /\ cmd[p].exit = 0

(* A record that a call tells of is there, an appended one where it is     *)
(* said to be, and every record scanned is where the ledger has it.  That  *)
(* there is none is told only when there was none as the call began, or on *)
(* an answer that names none: of a request or an answer lost, late or      *)
(* failed it is never concluded (remote_ledger.py:52-108).                 *)
RemoteNeverInvents ==
    "crash" \notin faults => \A p \in Procs :
        RemoteReturned(p, RemoteVerbs) =>
          LET run == cmd[p].run
              got == cmd[p].got
              then == SubSeq(log, 1, cmd[p].opened)
          IN  CASE run.verb = "remote append" ->
                     got.seq \in DOMAIN log /\ log[got.seq] = run.capsule
                [] run.verb = "remote scan" ->
                     ScanTrue(p) \/ (got = <<>> /\ "nothing" \in faults)
                [] OTHER ->
                     IF got = Nil
                     THEN run.target \notin IdsIn(then) \/ "nothing" \in faults
                     ELSE run.target \in IdsIn(log)

=============================================================================
