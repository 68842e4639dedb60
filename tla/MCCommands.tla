----------------------------- MODULE MCCommands -----------------------------
(***************************************************************************)
(* Commands on small ledgers.  A workload is what agents may append, what  *)
(* may be run, by which processes, and which faults there are.             *)
(***************************************************************************)
EXTENDS Commands, TLC

CONSTANTS r1, r2, r3, p1, p2, p3, k1, k2, k3, s1, s2, d1, d2

Plain(id) ==
    [id |-> id, parent |-> Nil, relation |-> Nil, key |-> k1, ts |-> 1,
     intact |-> TRUE, reason |-> Nil, evidence |-> <<>>, event |-> Nil]

Usual == [path |-> "directory", arm |-> "full", waits |-> {TRUE}, faults |-> {}]

Runs(first, second, third) == p1 :> first @@ p2 :> second @@ p3 :> third

Rotate(old, new, newSecret, at) ==
    [verb |-> "key rotate", old |-> old, secret |-> s1, new |-> new,
     newSecret |-> newSecret, at |-> at]

KeyStatusRun == [verb |-> "key status"]

Verify(id) == [verb |-> "verify", target |-> id]

Show(id, json) == [verb |-> "show", target |-> id, json |-> json]

BlameOf(id, depth) == [verb |-> "blame", target |-> id, maxDepth |-> depth]

Log(select) == [verb |-> "log", select |-> select]

Put(digest) == [verb |-> "payload put", payload |-> digest]

(* A rotation, with every kind of --new-secret and --at, looked at by      *)
(* another process.                                                        *)
Keys ==
    [capsules |-> {[Plain(r1) EXCEPT !.key = k, !.ts = t] : k \in {k1, k3}, t \in {1, 2}}
                    \cup {[Plain(r1) EXCEPT !.intact = FALSE]},
     waits    |-> {FALSE},
     faults   |-> {"kill", "crash"},
     runs     |-> Runs({Rotate(k1, k2, secret, at) : secret \in {Nil, Empty, s2}, at \in {Nil, 1}},
                       {},
                       {KeyStatusRun, Verify(r1), Verify(p1)})] @@ Usual

(* Two rotations: of the same key, or there and back.                      *)
KeyTwice ==
    [capsules |-> {[Plain(r1) EXCEPT !.ts = 2]},
     runs     |-> Runs({Rotate(k1, k2, Nil, Nil)},
                       {Rotate(k1, k3, s2, 1), Rotate(k2, k1, Nil, 1)},
                       {KeyStatusRun, Verify(r1)})] @@ Usual

KeysOfFile ==
    [path     |-> "file",
     capsules |-> {Plain(r1)},
     runs     |-> Runs({Rotate(k1, k2, Nil, 1)},
                       {KeyStatusRun, Show(r1, FALSE), Verify(r1), BlameOf(r1, Nil)},
                       {Put(d1)})] @@ Usual

Chained(id, parents, relations) ==
    {[Plain(id) EXCEPT !.parent = parent, !.relation = relation] :
       parent \in parents, relation \in relations} \cup {Plain(id)}

(* Chains of every shape over three records (up to a renaming of r2 and    *)
(* r3), appended in every order.                                           *)
Chains ==
    [capsules |-> Chained(r1, {r2}, {"confirms"}) \cup
                  Chained(r2, {r1, r3}, {"confirms", "epoch_opens"}) \cup
                  Chained(r3, {r1, r2}, {"confirms"}),
     runs     |-> Runs({BlameOf(r1, depth) : depth \in {Nil, 0, 2}}
                         \cup {Log({r1, r2, r3})}, {}, {})] @@ Usual

(* Two puts of one payload and a reader.                                   *)
Disclosed ==
    [capsules |-> {[Plain(r1) EXCEPT !.reason = d1, !.evidence = <<d2>>]},
     faults   |-> {"kill", "damage"},
     runs     |-> Runs({Put(d1)}, {Put(d1), Put(d2)},
                       {Show(r1, FALSE), Log({r1})})]
      @@ Usual

(* A power cut after a put, or in the middle of it.                        *)
PowerCut ==
    [capsules |-> {[Plain(r1) EXCEPT !.reason = d1]},
     waits    |-> BOOLEAN,
     faults   |-> {"crash"},
     runs     |-> Runs({Put(d1)}, {}, {Show(r1, FALSE), Log({r1})})] @@ Usual

Remote ==
    [capsules |-> {Plain(r2)},
     faults   |-> {"kill", "nothing"},
     runs     |-> LET Appending(w) == [verb |-> "remote append", capsule |-> Plain(r1),
                                       consequential |-> w]
                  IN  Runs({Appending(FALSE)},
                           {Appending(TRUE), [verb |-> "remote scan"],
                            [verb |-> "remote fetch", target |-> r1],
                            [verb |-> "remote verify", target |-> r1]}, {})] @@ Usual

(* What is refused, and what has little to do.                             *)
Refused(path, arm) ==
    [path |-> path, arm |-> arm, capsules |-> {Plain(r1)},
     runs |-> Runs({Show(r1, TRUE), Show(r2, FALSE), Log({}), Put(Nil)},
                   {KeyStatusRun, Verify(r2), Verify(Nil)},
                   {Rotate(k1, k1, Nil, Nil), Rotate(Nil, k2, Nil, Nil)}
                     \cup IF path = Nil THEN {} ELSE {[verb |-> "remote find_gaps"]})]
      @@ Usual

MCWorkloads ==
    [keys |-> Keys, twice |-> KeyTwice, file |-> KeysOfFile, chains |-> Chains,
     disclosed |-> Disclosed, cut |-> PowerCut, remote |-> Remote,
     guards |-> Refused("directory", "guards-only"), nowhere |-> Refused(Nil, "full"),
     default |-> Refused("directory", "")]

=============================================================================
