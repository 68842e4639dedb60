---------------------------- MODULE HandoffProofs ----------------------------
(***************************************************************************)
(* What a bundle promises, however many records there are, whatever is     *)
(* appended while it is made and whatever happens to it on the way:        *)
(* Handoff!TypeOK, Bundle!BundleVerifies, Bundle!ParentsIncluded and       *)
(* Handoff!DropTold, as theorems of Spec.                                  *)
(***************************************************************************)
EXTENDS Handoff, FiniteSetTheorems, SequenceTheorems, WellFoundedInduction, TLAPS

-----------------------------------------------------------------------------
(* Records in the order of their seq                                       *)

(* The place of x in S, by size.                                           *)
Below(S, x) == {y \in S : y <= x}

Rank(S) == [x \in S |-> Cardinality(Below(S, x))]

(* Of two numbers, the smaller has the lower rank.                         *)
LEMMA RankMonotone ==
    ASSUME NEW S \in SUBSET Nat, IsFiniteSet(S), NEW x \in S, NEW y \in S, x < y
    PROVE  Rank(S)[x] < Rank(S)[y]
<1>1. IsFiniteSet(Below(S, y)) /\ Cardinality(Below(S, y)) \in Nat
  <2>1. Below(S, y) \in SUBSET S
    BY DEF Below
  <2>2. IsFiniteSet(Below(S, y))
    BY <2>1, FS_Subset
  <2> QED BY <2>2, FS_CardinalityType
<1>2. Below(S, x) \in SUBSET Below(S, y)
  <2>1. \A z \in S : z <= x => z <= y
    <3>1. \A z \in S : z \in Nat
      OBVIOUS
    <3> QED BY <3>1
  <2> QED BY <2>1 DEF Below
<1>3. y \in Below(S, y) /\ y \notin Below(S, x)
  BY DEF Below
<1>4. IsFiniteSet(Below(S, x))
  BY <1>1, <1>2, FS_Subset
<1>5. Cardinality(Below(S, x)) \in Nat
  BY <1>4, FS_CardinalityType
<1>6. Cardinality(Below(S, x)) <= Cardinality(Below(S, y))
  BY <1>1, <1>2, FS_Subset
<1>7. Cardinality(Below(S, x)) # Cardinality(Below(S, y))
  <2>1. Below(S, y) # Below(S, x)
    BY <1>3
  <2> QED BY <1>1, <1>2, <2>1, FS_Subset
<1> QED BY <1>1, <1>5, <1>6, <1>7 DEF Rank

(* The ranks are the numbers up to the size of the set, each once.         *)
LEMMA RankBijection ==
    ASSUME NEW S \in SUBSET Nat, IsFiniteSet(S)
    PROVE  Rank(S) \in Bijection(S, 1..Cardinality(S))
<1> DEFINE n == Cardinality(S)
           I == 1..n
<1>1. n \in Nat
  BY FS_CardinalityType
<1>2. IsFiniteSet(I) /\ Cardinality(I) = n
  BY <1>1, FS_Interval
<1>3. ASSUME NEW x \in S PROVE Rank(S)[x] \in I
  <2>1. Below(S, x) \in SUBSET S
    BY DEF Below
  <2>2. IsFiniteSet(Below(S, x)) /\ Cardinality(Below(S, x)) <= n
    BY <2>1, FS_Subset
  <2>3. Cardinality(Below(S, x)) \in Nat
    BY <2>2, FS_CardinalityType
  <2>4. Cardinality(Below(S, x)) # 0
    <3>1. x \in Below(S, x)
      BY DEF Below
    <3> QED BY <2>2, <3>1, FS_EmptySet
  <2> QED BY <1>1, <2>2, <2>3, <2>4 DEF Rank
<1>4. Rank(S) \in [S -> I]
  <2>1. Rank(S) = [x \in S |-> Rank(S)[x]]
    BY DEF Rank
  <2> QED BY <1>3, <2>1
<1>5. ASSUME NEW x \in S, NEW y \in S, x # y PROVE Rank(S)[x] # Rank(S)[y]
  <2>1. CASE x < y
    <3>1. Rank(S)[x] < Rank(S)[y]
      BY <2>1, RankMonotone
    <3>2. Rank(S)[x] \in Nat /\ Rank(S)[y] \in Nat
      BY <1>1, <1>3
    <3> QED BY <3>1, <3>2
  <2>2. CASE y < x
    <3>1. Rank(S)[y] < Rank(S)[x]
      BY <2>2, RankMonotone
    <3>2. Rank(S)[x] \in Nat /\ Rank(S)[y] \in Nat
      BY <1>1, <1>3
    <3> QED BY <3>1, <3>2
  <2> QED BY <1>5, <2>1, <2>2
<1>6. Rank(S) \in Injection(S, I)
  BY <1>4, <1>5 DEF Injection, IsInjective
<1> HIDE DEF I
<1>7. Rank(S) \in Surjection(S, I)
  BY <1>2, <1>6, FS_Injection
<1> QED BY <1>6, <1>7 DEF Bijection, I

(* The order by seq lists the records that were found, each once, with     *)
(* ascending seqs.                                                         *)
LEMMA InOrderSorts ==
    ASSUME NEW S \in SUBSET Nat, IsFiniteSet(S)
    PROVE  /\ InOrder(S) \in [1..Cardinality(S) -> S]
           /\ \A i, j \in 1..Cardinality(S) : i < j => InOrder(S)[i] < InOrder(S)[j]
           /\ \A s \in S : \E i \in 1..Cardinality(S) : InOrder(S)[i] = s
<1> DEFINE n == Cardinality(S)
           order == [i \in 1..n |-> CHOOSE x \in S : Rank(S)[x] = i]
<1>0. n \in Nat
  BY FS_CardinalityType
<1> HIDE DEF n
<1>1. Rank(S) \in Bijection(S, 1..n)
  BY RankBijection DEF n
<1>2. ASSUME NEW i \in 1..n PROVE order[i] \in S /\ Rank(S)[order[i]] = i
  <2>1. PICK x \in S : Rank(S)[x] = i
    BY <1>1 DEF Bijection, Surjection
  <2> QED BY <2>1
<1>3. order \in [1..n -> S]
  BY <1>2
<1>4. ASSUME NEW i \in 1..n, NEW j \in 1..n, i < j PROVE order[i] < order[j]
  <2>1. order[i] \in Nat /\ order[j] \in Nat
    BY <1>2
  <2>2. order[i] # order[j]
    BY <1>2, <1>4
  <2>3. ~(order[j] < order[i])
    <3>1. SUFFICES ASSUME order[j] < order[i] PROVE FALSE
      OBVIOUS
    <3>2. Rank(S)[order[j]] < Rank(S)[order[i]]
      BY <1>2, <3>1, RankMonotone
    <3>3. j < i
      BY <1>2, <3>2
    <3> QED BY <1>4, <3>3
  <2> QED BY <2>1, <2>2, <2>3
<1> HIDE DEF order
<1>5. /\ InOrder(S) \in [1..n -> S]
      /\ \A i, j \in 1..n : i < j => InOrder(S)[i] < InOrder(S)[j]
  <2>1. DOMAIN order = 1..n
    BY <1>3
  <2>2. \A i, j \in DOMAIN order : i < j => order[i] < order[j]
    BY <1>4, <2>1
  <2>3. /\ InOrder(S) \in [1..n -> S]
        /\ \A i, j \in DOMAIN InOrder(S) : i < j => InOrder(S)[i] < InOrder(S)[j]
    BY <1>3, <2>2 DEF InOrder, n
  <2> QED BY <2>3
<1>6. InOrder(S) \in Injection(1..n, S)
  <2>1. ASSUME NEW i \in 1..n, NEW j \in 1..n, i # j
        PROVE  InOrder(S)[i] # InOrder(S)[j]
    <3>1. InOrder(S)[i] \in Nat /\ InOrder(S)[j] \in Nat
      BY <1>5
    <3>2. i < j \/ j < i
      BY <2>1
    <3> QED BY <1>5, <3>1, <3>2
  <2> QED BY <1>5, <2>1 DEF Injection, IsInjective
<1>7. InOrder(S) \in Surjection(1..n, S)
  <2> DEFINE I == 1..n
  <2>1. IsFiniteSet(I) /\ Cardinality(I) = n
    BY <1>0, FS_Interval
  <2> HIDE DEF I
  <2>2. InOrder(S) \in Injection(I, S)
    BY <1>6 DEF I
  <2>3. InOrder(S) \in Surjection(I, S)
    BY <2>1, <2>2, FS_Injection DEF n
  <2> QED BY <2>3 DEF I
<1> QED BY <1>5, <1>7 DEF Surjection, n

-----------------------------------------------------------------------------
(* The inductive invariant                                                 *)

Distinct(records) ==
    \A i, j \in DOMAIN records : records[i].id = records[j].id => i = j

LogInv == log \in Seq(Records) /\ Distinct(log)

(* A record is settled when its parent, if it was in the log at the scan,  *)
(* is among those found.                                                   *)
Settled(s) ==
    log[s].parent \in IdsAt(1..cli.scanned) => log[s].parent \in IdsAt(cli.found)

(* The parents that were missed were not in the log at the scan.           *)
CollectInv ==
    cli.pc = "collect" =>
        /\ cli \in [pc : {"collect"}, found : SUBSET Seqs, frontier : SUBSET Seqs,
                    missing : SUBSET Ids, scanned : 0..Len(log)]
        /\ cli.frontier \subseteq cli.found
        /\ cli.missing \cap IdsAt(1..cli.scanned) = {}
        /\ \A s \in cli.found \ cli.frontier : Settled(s)

VerifiedInv ==
    /\ cli.pc = "verified" =>
         /\ cli \in [pc : {"verified"}, found : SUBSET Seqs, scanned : 0..Len(log)]
         /\ \A s \in cli.found : Settled(s)
    /\ cli.pc = "counted" =>
         /\ cli \in [pc : {"counted"}, found : SUBSET Seqs, treeSize : 0..Len(log),
                     scanned : 0..Len(log)]
         /\ cli.found \subseteq 1..cli.treeSize
         /\ \A s \in cli.found : Settled(s)

(* A bundle that was made: no record twice, and a certificate that holds.  *)
Made(b) ==
    /\ b \in Bundles
    /\ Distinct(b.records)
    /\ b.cert # Nil => CertificateType(b.cert)
    /\ b.records # <<>> => b.cert # Nil /\ CheckCompleteness(b) = "pass"

DoneInv ==
    cli.pc = "done" => /\ cli \in [pc : {"done"}, scanned : 0..Len(log), bundle : Bundles]
                       /\ Made(cli.bundle)
                       /\ ParentsIncluded

CliInv ==
    /\ cli.pc \in {"idle", "collect", "verified", "counted", "done"}
    /\ CollectInv
    /\ VerifiedInv
    /\ DoneInv

(* The ids of the bundle on its way are those it was made with, but for    *)
(* the record that was left out.                                           *)
Place(i) == IF dropped # 0 /\ dropped <= i THEN i + 1 ELSE i

CarryInv ==
    /\ carried = Nil => dropped = 0
    /\ carried # Nil =>
         LET made == cli.bundle.records IN
         /\ cli.pc = "done"
         /\ carried \in Bundles
         /\ carried.cert # Nil => CertificateType(carried.cert)
         /\ dropped \in 0..Len(made)
         /\ Len(carried.records) = IF dropped = 0 THEN Len(made) ELSE Len(made) - 1
         /\ \A i \in DOMAIN carried.records : carried.records[i].id = made[Place(i)].id

HandInv == LogInv /\ CliInv /\ CarryInv /\ changes \in 0..MaxChanges

-----------------------------------------------------------------------------
(* Other processes append                                                  *)

(* What was in the log stays where it was, and an id is there once.        *)
LEMMA AppendsRecord ==
    ASSUME LogInv, AppendRecord
    PROVE  /\ LogInv'
           /\ Len(log') = Len(log) + 1
           /\ Seqs \subseteq Seqs'
           /\ \A s \in Seqs : log'[s] = log[s]
<1>1. log \in Seq(Records) /\ Len(log) \in Nat /\ Seqs = 1..Len(log)
  BY DEF LogInv, Seqs
<1>2. PICK id \in Ids \ IdsAt(Seqs), parent \in Ids \cup {Nil}, intact \in BOOLEAN :
        log' = Append(log, [id |-> id, parent |-> parent, intact |-> intact])
  <2>1. IdsAt(Seqs) \in SUBSET Ids
    <3>1. \A s \in Seqs : log[s] \in Records
      BY <1>1
    <3>2. \A s \in Seqs : log[s].id \in Ids
      BY <3>1 DEF Records
    <3> QED BY <3>2 DEF IdsAt
  <2>2. FreshIds(IdsAt(Seqs)) \subseteq Ids \ IdsAt(Seqs)
    BY <2>1, FreshAssumption
  <2> QED BY <2>2 DEF AppendRecord
<1> DEFINE new == [id |-> id, parent |-> parent, intact |-> intact]
<1>3. new \in Records /\ new.id = id
  BY DEF Records
<1> HIDE DEF new
<1>4. log' = Append(log, new)
  BY <1>2 DEF new
<1>5. /\ log' \in Seq(Records)
      /\ Len(log') = Len(log) + 1
      /\ log'[Len(log) + 1] = new
      /\ \A s \in 1..Len(log) : log'[s] = log[s]
  BY <1>1, <1>3, <1>4
<1>6. Seqs' = 1..(Len(log) + 1)
  BY <1>5 DEF Seqs
<1>7. \A s \in Seqs : log[s].id # id
  BY <1>2 DEF IdsAt
<1>8. Distinct(log')
  <2>1. SUFFICES ASSUME NEW s \in 1..(Len(log) + 1), NEW t \in 1..(Len(log) + 1),
                        log'[s].id = log'[t].id
                 PROVE  s = t
    BY <1>6 DEF Distinct, Seqs
  <2>2. CASE s \in 1..Len(log) /\ t \in 1..Len(log)
    BY <1>1, <1>5, <2>1, <2>2 DEF LogInv, Distinct
  <2>3. CASE s \in 1..Len(log) /\ t = Len(log) + 1
    BY <1>1, <1>3, <1>5, <1>7, <2>1, <2>3
  <2>4. CASE s = Len(log) + 1 /\ t \in 1..Len(log)
    BY <1>1, <1>3, <1>5, <1>7, <2>1, <2>4
  <2> QED BY <1>1, <2>1, <2>2, <2>3, <2>4
<1> QED BY <1>1, <1>5, <1>6, <1>8 DEF LogInv

(* The invariant of the command is about records that stay.                *)
LEMMA AppendKeepsInv ==
    ASSUME HandInv, carried = Nil, AppendRecord, UNCHANGED <<carried, changes, dropped>>
    PROVE  HandInv'
<1>1. /\ LogInv'
      /\ Len(log') = Len(log) + 1
      /\ Seqs \subseteq Seqs'
      /\ \A s \in Seqs : log'[s] = log[s]
  BY AppendsRecord DEF HandInv
<1>2. Len(log) \in Nat /\ Seqs = 1..Len(log) /\ 0..Len(log) \subseteq 0..Len(log')
  <2>1. Len(log) \in Nat /\ Seqs = 1..Len(log)
    BY DEF HandInv, LogInv, Seqs
  <2> QED BY <1>1, <2>1
<1>3. cli' = cli
  BY DEF AppendRecord
<1>4. ASSUME cli.scanned \in 0..Len(log)
      PROVE  IdsAt(1..cli.scanned)' = IdsAt(1..cli.scanned)
  <2>1. 1..cli.scanned \subseteq Seqs
    BY <1>2, <1>4
  <2> QED BY <1>1, <1>3, <2>1 DEF IdsAt
<1>5. ASSUME cli.found \in SUBSET Seqs PROVE IdsAt(cli.found)' = IdsAt(cli.found)
  BY <1>1, <1>3, <1>5 DEF IdsAt
<1>6. ASSUME cli.scanned \in 0..Len(log), cli.found \in SUBSET Seqs,
             NEW s \in cli.found, Settled(s)
      PROVE  Settled(s)'
  <2>1. log'[s] = log[s]
    BY <1>1, <1>6
  <2> QED BY <1>4, <1>5, <1>6, <2>1 DEF Settled
<1>7. CollectInv'
  <2>1. SUFFICES ASSUME cli.pc = "collect" PROVE CollectInv'
    BY <1>3 DEF CollectInv
  <2>2. /\ cli \in [pc : {"collect"}, found : SUBSET Seqs, frontier : SUBSET Seqs,
                    missing : SUBSET Ids, scanned : 0..Len(log)]
        /\ cli.frontier \subseteq cli.found
        /\ cli.missing \cap IdsAt(1..cli.scanned) = {}
        /\ \A s \in cli.found \ cli.frontier : Settled(s)
    BY <2>1 DEF HandInv, CliInv, CollectInv
  <2>3. cli \in [pc : {"collect"}, found : SUBSET Seqs', frontier : SUBSET Seqs',
                 missing : SUBSET Ids, scanned : 0..Len(log')]
    BY <1>1, <1>2, <2>2
  <2>4. (cli.missing \cap IdsAt(1..cli.scanned) = {})'
    BY <1>3, <1>4, <2>2
  <2>5. \A s \in cli.found \ cli.frontier : Settled(s)'
    BY <1>6, <2>2
  <2> QED BY <1>3, <2>2, <2>3, <2>4, <2>5 DEF CollectInv
<1>8. VerifiedInv'
  <2>1. CASE cli.pc = "verified"
    <3>1. /\ cli \in [pc : {"verified"}, found : SUBSET Seqs, scanned : 0..Len(log)]
          /\ \A s \in cli.found : Settled(s)
      BY <2>1 DEF HandInv, CliInv, VerifiedInv
    <3>2. cli \in [pc : {"verified"}, found : SUBSET Seqs', scanned : 0..Len(log')]
      BY <1>1, <1>2, <3>1
    <3>3. \A s \in cli.found : Settled(s)'
      BY <1>6, <3>1
    <3> QED BY <1>3, <2>1, <3>2, <3>3 DEF VerifiedInv
  <2>2. CASE cli.pc = "counted"
    <3>1. /\ cli \in [pc : {"counted"}, found : SUBSET Seqs, treeSize : 0..Len(log),
                      scanned : 0..Len(log)]
          /\ cli.found \subseteq 1..cli.treeSize
          /\ \A s \in cli.found : Settled(s)
      BY <2>2 DEF HandInv, CliInv, VerifiedInv
    <3>2. cli \in [pc : {"counted"}, found : SUBSET Seqs', treeSize : 0..Len(log'),
                   scanned : 0..Len(log')]
      BY <1>1, <1>2, <3>1
    <3>3. \A s \in cli.found : Settled(s)'
      BY <1>6, <3>1
    <3> QED BY <1>3, <2>2, <3>1, <3>2, <3>3 DEF VerifiedInv
  <2> QED BY <1>3, <2>1, <2>2 DEF VerifiedInv
<1>9. DoneInv'
  <2>1. SUFFICES ASSUME cli.pc = "done" PROVE DoneInv'
    BY <1>3 DEF DoneInv
  <2>2. /\ cli \in [pc : {"done"}, scanned : 0..Len(log), bundle : Bundles]
        /\ Made(cli.bundle)
        /\ ParentsIncluded
    BY <2>1 DEF HandInv, CliInv, DoneInv
  <2>3. cli \in [pc : {"done"}, scanned : 0..Len(log'), bundle : Bundles]
    BY <1>2, <2>2
  <2>4. Made(cli.bundle)'
    <3>1. (cli.bundle.cert # Nil => CertificateType(cli.bundle.cert))'
      BY <1>1, <1>3, <2>2 DEF Made, CertificateType
    <3> QED BY <1>3, <2>2, <3>1 DEF Made
  <2>5. ParentsIncluded'
    <3>1. IdsAt(1..cli.scanned)' = IdsAt(1..cli.scanned)
      BY <1>4, <2>2
    <3> QED BY <1>3, <2>2, <3>1 DEF ParentsIncluded
  <2> QED BY <1>3, <2>3, <2>4, <2>5 DEF DoneInv
<1>10. CarryInv' /\ (changes \in 0..MaxChanges)'
  BY DEF HandInv, CarryInv
<1> QED BY <1>1, <1>3, <1>7, <1>8, <1>9, <1>10 DEF HandInv, CliInv

-----------------------------------------------------------------------------
(* The command selects and collects                                        *)

LEMMA LogFacts ==
    ASSUME LogInv
    PROVE  /\ Len(log) \in Nat
           /\ Seqs = 1..Len(log)
           /\ \A s \in Seqs : log[s] \in Records
BY DEF LogInv, Seqs

(* The log holds an id once, and so it is found by it.                     *)
LEMMA SeqNoFinds ==
    ASSUME LogInv, NEW s \in Seqs
    PROVE  SeqNo(log[s].id) = s
<1>1. \A t \in Seqs : log[t].id = log[s].id => t = s
  BY DEF LogInv, Distinct, Seqs
<1> QED BY <1>1 DEF SeqNo

(* What is left of the invariant when only the command moves.              *)
LEMMA OnlyCli ==
    ASSUME HandInv, carried = Nil, CliInv',
           UNCHANGED <<log, carried, changes, dropped>>
    PROVE  HandInv'
<1>1. LogInv'
  BY DEF HandInv, LogInv
<1>2. CarryInv'
  BY DEF HandInv, CarryInv
<1> QED BY <1>1, <1>2 DEF HandInv

(* Everything that was selected is in the frontier.                        *)
LEMMA ScanKeepsInv ==
    ASSUME HandInv, carried = Nil, Scan, UNCHANGED <<carried, changes, dropped>>
    PROVE  HandInv'
<1>1. PICK matched \in SUBSET Seqs :
        cli' = [pc |-> "collect", found |-> matched, frontier |-> matched,
                missing |-> {}, scanned |-> Len(log)]
  BY DEF Scan
<1>2. log' = log /\ Len(log) \in Nat
  BY LogFacts DEF Scan, HandInv
<1>3. /\ cli'.pc = "collect" /\ cli'.found = matched /\ cli'.frontier = matched
      /\ cli'.missing = {} /\ cli'.scanned = Len(log)
  BY <1>1
<1>4. cli' \in [pc : {"collect"}, found : SUBSET Seqs, frontier : SUBSET Seqs,
                missing : SUBSET Ids, scanned : 0..Len(log)]
  BY <1>1, <1>2
<1>5. Seqs' = Seqs
  BY <1>2 DEF Seqs
<1>6. CollectInv'
  BY <1>2, <1>3, <1>4, <1>5 DEF CollectInv
<1>7. CliInv'
  BY <1>3, <1>6 DEF CliInv, VerifiedInv, DoneInv
<1> QED BY <1>2, <1>7, OnlyCli

(* A record leaves the frontier settled.                                   *)
LEMMA CollectKeepsInv ==
    ASSUME HandInv, carried = Nil, NEW s \in Seqs, Collect(s),
           UNCHANGED <<carried, changes, dropped>>
    PROVE  HandInv'
<1> DEFINE parent == log[s].parent
           Shape == [pc : {"collect"}, found : SUBSET Seqs, frontier : SUBSET Seqs,
                     missing : SUBSET Ids, scanned : 0..Len(log)]
<1>1. /\ cli \in Shape
      /\ cli.pc = "collect"
      /\ cli.frontier \subseteq cli.found
      /\ cli.missing \cap IdsAt(1..cli.scanned) = {}
      /\ \A t \in cli.found \ cli.frontier : Settled(t)
      /\ s \in cli.frontier
  BY DEF Collect, HandInv, CliInv, CollectInv
<1>2. log' = log /\ Seqs' = Seqs
  BY DEF Collect, Seqs
<1>3. /\ Len(log) \in Nat
      /\ Seqs = 1..Len(log)
      /\ \A t \in Seqs : log[t] \in Records
  BY LogFacts DEF HandInv
<1>4. parent \in Ids \cup {Nil}
  BY <1>3 DEF Records
<1>5. IdsAt(1..cli.scanned) \subseteq Ids /\ IdsAt(1..cli.scanned) \subseteq IdsAt(Seqs)
  <2>1. cli.scanned \in 0..Len(log)
    BY <1>1
  <2>2. 1..cli.scanned \subseteq Seqs
    BY <1>3, <2>1
  <2> QED BY <1>3, <2>2 DEF IdsAt, Records
<1>6. SUFFICES CollectInv' /\ cli'.pc = "collect"
  <2>1. CliInv'
    BY <1>6 DEF CliInv, VerifiedInv, DoneInv
  <2> QED BY <1>2, <2>1, OnlyCli
<1>7. CASE ~Wanted(parent) /\ cli' = [cli EXCEPT !.frontier = @ \ {s}]
  <2>1. /\ cli' \in Shape
        /\ cli'.pc = "collect" /\ cli'.found = cli.found
        /\ cli'.frontier = cli.frontier \ {s}
        /\ cli'.missing = cli.missing /\ cli'.scanned = cli.scanned
    BY <1>1, <1>7
  <2>2. ASSUME NEW t \in cli.found \ (cli.frontier \ {s}) PROVE Settled(t)
    <3>1. CASE t = s
      <4>1. parent \notin IdsAt(cli.found) => parent = Nil \/ parent \in cli.missing
        BY <1>7 DEF Wanted
      <4>2. parent \in IdsAt(1..cli.scanned) => parent \in IdsAt(cli.found)
        BY <1>1, <1>5, <4>1, IdAssumption
      <4> QED BY <3>1, <4>2 DEF Settled
    <3> QED BY <1>1, <2>2, <3>1
  <2>3. \A t \in cli'.found \ cli'.frontier : Settled(t)'
    BY <1>2, <2>1, <2>2 DEF Settled, IdsAt
  <2>4. (cli.missing \cap IdsAt(1..cli.scanned) = {})'
    BY <1>1, <1>2, <2>1 DEF IdsAt
  <2> QED BY <1>1, <1>2, <2>1, <2>3, <2>4 DEF CollectInv
<1>8. CASE /\ Wanted(parent) /\ parent \notin IdsAt(Seqs)
           /\ cli' = [cli EXCEPT !.frontier = @ \ {s}, !.missing = @ \cup {parent}]
  <2>0. parent \in Ids
    BY <1>4, <1>8 DEF Wanted
  <2>1. /\ cli' \in Shape
        /\ cli'.pc = "collect" /\ cli'.found = cli.found
        /\ cli'.frontier = cli.frontier \ {s}
        /\ cli'.missing = cli.missing \cup {parent} /\ cli'.scanned = cli.scanned
    BY <1>1, <1>8, <2>0
  <2>2. ASSUME NEW t \in cli.found \ (cli.frontier \ {s}) PROVE Settled(t)
    <3>1. CASE t = s
      BY <1>5, <1>8, <3>1 DEF Settled
    <3> QED BY <1>1, <2>2, <3>1
  <2>3. \A t \in cli'.found \ cli'.frontier : Settled(t)'
    BY <1>2, <2>1, <2>2 DEF Settled, IdsAt
  <2>4. (cli.missing \cap IdsAt(1..cli.scanned) = {})'
    <3>1. (cli.missing \cup {parent}) \cap IdsAt(1..cli.scanned) = {}
      BY <1>1, <1>5, <1>8
    <3> QED BY <1>2, <2>1, <3>1 DEF IdsAt
  <2> QED BY <1>1, <1>2, <2>1, <2>3, <2>4 DEF CollectInv
<1>9. CASE Wanted(parent) /\ parent \in IdsAt(Seqs) /\ cli' = Taken(s, SeqNo(parent))
  <2> DEFINE u == SeqNo(parent)
  <2>0. u \in Seqs /\ log[u].id = parent
    <3>1. PICK t \in Seqs : log[t].id = parent
      BY <1>9 DEF IdsAt
    <3> QED BY <3>1, SeqNoFinds DEF HandInv
  <2> HIDE DEF u
  <2>1. /\ cli' \in Shape
        /\ cli'.pc = "collect" /\ cli'.found = cli.found \cup {u}
        /\ cli'.frontier = (cli.frontier \ {s}) \cup {u}
        /\ cli'.missing = cli.missing /\ cli'.scanned = cli.scanned
    BY <1>1, <1>9, <2>0 DEF Taken, u
  <2>2. ASSUME NEW t \in cli'.found \ cli'.frontier
        PROVE  log[t].parent \in IdsAt(1..cli.scanned)
                 => log[t].parent \in IdsAt(cli.found \cup {u})
    <3>1. IdsAt(cli.found) \subseteq IdsAt(cli.found \cup {u})
      BY DEF IdsAt
    <3>2. CASE t = s
      <4>1. parent \in IdsAt(cli.found \cup {u})
        BY <2>0 DEF IdsAt
      <4> QED BY <3>2, <4>1
    <3>3. CASE t # s
      <4>1. t \in cli.found \ cli.frontier
        BY <2>1, <2>2, <3>3
      <4> QED BY <1>1, <3>1, <4>1 DEF Settled
    <3> QED BY <3>2, <3>3
  <2>3. \A t \in cli'.found \ cli'.frontier : Settled(t)'
    BY <1>2, <2>1, <2>2 DEF Settled, IdsAt
  <2>4. (cli.missing \cap IdsAt(1..cli.scanned) = {})'
    BY <1>1, <1>2, <2>1 DEF IdsAt
  <2>5. cli'.frontier \subseteq cli'.found
    BY <1>1, <2>1
  <2> QED BY <1>1, <1>2, <2>1, <2>3, <2>4, <2>5 DEF CollectInv
<1> QED BY <1>7, <1>8, <1>9 DEF Collect

(* An empty frontier leaves nothing unsettled, and the log only grows      *)
(* until it is counted.                                                    *)
LEMMA VerifyKeepsInv ==
    ASSUME HandInv, carried = Nil, VerifyEach, UNCHANGED <<carried, changes, dropped>>
    PROVE  HandInv'
<1>1. /\ cli \in [pc : {"collect"}, found : SUBSET Seqs, frontier : SUBSET Seqs,
                  missing : SUBSET Ids, scanned : 0..Len(log)]
      /\ cli.frontier = {}
      /\ \A t \in cli.found \ cli.frontier : Settled(t)
  BY DEF VerifyEach, HandInv, CliInv, CollectInv
<1>2. log' = log /\ Seqs' = Seqs
  BY DEF VerifyEach, Seqs
<1>3. cli' = [pc |-> "verified", found |-> cli.found, scanned |-> cli.scanned]
  BY DEF VerifyEach
<1>4. /\ cli' \in [pc : {"verified"}, found : SUBSET Seqs, scanned : 0..Len(log)]
      /\ cli'.pc = "verified" /\ cli'.found = cli.found /\ cli'.scanned = cli.scanned
  BY <1>1, <1>3
<1>5. \A t \in cli.found : Settled(t)'
  BY <1>1, <1>2, <1>4 DEF Settled, IdsAt
<1>6. CliInv'
  BY <1>2, <1>4, <1>5 DEF CliInv, CollectInv, VerifiedInv, DoneInv
<1> QED BY <1>2, <1>6, OnlyCli

LEMMA CountKeepsInv ==
    ASSUME HandInv, carried = Nil, Count, UNCHANGED <<carried, changes, dropped>>
    PROVE  HandInv'
<1>1. /\ cli \in [pc : {"verified"}, found : SUBSET Seqs, scanned : 0..Len(log)]
      /\ \A t \in cli.found : Settled(t)
  BY DEF Count, HandInv, CliInv, VerifiedInv
<1>2. log' = log /\ Seqs' = Seqs
  BY DEF Count, Seqs
<1>3. Len(log) \in Nat /\ Seqs = 1..Len(log)
  BY LogFacts DEF HandInv
<1>4. cli' = [pc |-> "counted", found |-> cli.found, treeSize |-> Len(log),
              scanned |-> cli.scanned]
  BY DEF Count, TreeSize
<1>5. /\ cli' \in [pc : {"counted"}, found : SUBSET Seqs, treeSize : 0..Len(log),
                   scanned : 0..Len(log)]
      /\ cli'.pc = "counted" /\ cli'.found = cli.found /\ cli'.scanned = cli.scanned
      /\ cli'.treeSize = Len(log)
  BY <1>1, <1>3, <1>4
<1>6. cli'.found \subseteq 1..cli'.treeSize
  BY <1>1, <1>3, <1>5
<1>7. \A t \in cli.found : Settled(t)'
  BY <1>1, <1>2, <1>5 DEF Settled, IdsAt
<1>8. CliInv'
  BY <1>2, <1>5, <1>6, <1>7 DEF CliInv, CollectInv, VerifiedInv, DoneInv
<1> QED BY <1>2, <1>8, OnlyCli

-----------------------------------------------------------------------------
(* The command makes the bundle                                            *)

(* The ends of the order are the least and the greatest of the set.        *)
LEMMA OrderEnds ==
    ASSUME NEW S \in SUBSET Nat, IsFiniteSet(S), S # {}
    PROVE  /\ Cardinality(S) \in Nat \ {0}
           /\ InOrder(S)[1] = Min(S) /\ Min(S) \in S
           /\ InOrder(S)[Cardinality(S)] = Max(S) /\ Max(S) \in S
           /\ \A s \in S : Min(S) <= s /\ s <= Max(S)
<1> DEFINE n == Cardinality(S)
           order == InOrder(S)
<1>1. n \in Nat \ {0}
  <2>1. n \in Nat
    BY FS_CardinalityType
  <2> QED BY <2>1, FS_EmptySet
<1>2. /\ order \in [1..n -> S]
      /\ \A i, j \in 1..n : i < j => order[i] < order[j]
      /\ \A s \in S : \E i \in 1..n : order[i] = s
  BY InOrderSorts
<1> HIDE DEF n, order
<1>3. \A i \in 1..n : order[i] \in Nat /\ order[i] \in S
  BY <1>2
<1>4. 1 \in 1..n /\ n \in 1..n
  BY <1>1
<1>5. ASSUME NEW s \in S PROVE order[1] <= s /\ s <= order[n]
  <2>1. PICK i \in 1..n : order[i] = s
    BY <1>2
  <2>2. i = 1 \/ 1 < i
    BY <1>1
  <2>3. i = n \/ i < n
    BY <1>1
  <2>4. order[1] <= order[i]
    BY <1>2, <1>3, <1>4, <2>2
  <2>5. order[i] <= order[n]
    BY <1>2, <1>3, <1>4, <2>3
  <2> QED BY <2>1, <2>4, <2>5
<1>6. \A s \in S : s \in Nat
  OBVIOUS
<1>7. Min(S) = order[1]
  <2>1. Min(S) \in S /\ \A s \in S : Min(S) <= s
    BY <1>3, <1>4, <1>5 DEF Min
  <2>2. Min(S) <= order[1] /\ order[1] <= Min(S)
    BY <1>3, <1>4, <1>5, <2>1
  <2>3. Min(S) \in Nat /\ order[1] \in Nat
    BY <1>3, <1>4, <1>6, <2>1
  <2> QED BY <2>2, <2>3
<1>8. Max(S) = order[n]
  <2>1. Max(S) \in S /\ \A s \in S : Max(S) >= s
    BY <1>3, <1>4, <1>5, <1>6 DEF Max
  <2>2. Max(S) >= order[n] /\ order[n] >= Max(S)
    BY <1>3, <1>4, <1>5, <1>6, <2>1
  <2>3. Max(S) \in Nat /\ order[n] \in Nat
    BY <1>3, <1>4, <1>6, <2>1
  <2> QED BY <2>2, <2>3
<1> QED BY <1>1, <1>3, <1>4, <1>5, <1>7, <1>8 DEF n, order

(* A beginning of the log, by its ids, is a prefix of any longer one.      *)
LEMMA LogIdsPrefix ==
    ASSUME LogInv, NEW m \in 0..Len(log), NEW n \in m..Len(log)
    PROVE  /\ LogIds(n) \in Seq(Ids) /\ Len(LogIds(n)) = n
           /\ \A s \in 1..n : LogIds(n)[s] = log[s].id
           /\ IsPrefix(LogIds(m), LogIds(n))
<1>1. /\ Len(log) \in Nat
      /\ Seqs = 1..Len(log)
      /\ \A s \in Seqs : log[s] \in Records
  BY LogFacts
<1>2. ASSUME NEW k \in 0..Len(log)
      PROVE  /\ LogIds(k) \in Seq(Ids) /\ Len(LogIds(k)) = k
             /\ \A s \in 1..k : LogIds(k)[s] = log[s].id
  <2>1. k \in Nat /\ 1..k \subseteq Seqs
    BY <1>1
  <2>2. \A s \in 1..k : log[s].id \in Ids
    BY <1>1, <2>1 DEF Records
  <2> QED BY <2>1, <2>2 DEF LogIds
<1>3. m \in 0..Len(log) /\ n \in 0..Len(log) /\ m <= n
  BY <1>1
<1>4. SubSeq(LogIds(m), 1, m) = SubSeq(LogIds(n), 1, m)
  <2> DEFINE a == LogIds(m)
             b == LogIds(n)
  <2>1. a \in Seq(Ids) /\ b \in Seq(Ids) /\ Len(a) = m /\ Len(b) = n
    BY <1>2, <1>3
  <2>2. \A s \in 1..m : a[s] = b[s]
    <3>1. \A s \in 1..m : s \in 1..n
      BY <1>1, <1>3
    <3> QED BY <1>2, <1>3, <3>1
  <2> HIDE DEF a, b
  <2>3. SubSeq(a, 1, m) = [s \in 1..m |-> a[s]] /\ SubSeq(b, 1, m) = [s \in 1..m |-> b[s]]
    BY <1>1, <1>3, <2>1
  <2>4. SubSeq(a, 1, m) = SubSeq(b, 1, m)
    BY <2>2, <2>3
  <2> QED BY <2>4 DEF a, b
<1> QED BY <1>2, <1>3, <1>4 DEF IsPrefix

(* The certificate of a range within the tree holds for the records at     *)
(* the ends of the range.                                                  *)
LEMMA CertificateHolds ==
    ASSUME LogInv, NEW from \in Seqs, NEW to \in Seqs, from <= to,
           NEW size \in to..Len(log),
           NEW b, b.cert = Certificate(from, to, size), b.records # <<>>,
           b.records[1].id = log[from].id, Last(b.records).id = log[to].id
    PROVE  /\ b.cert \in Certificates
           /\ CertificateType(b.cert)
           /\ b.cert # Nil
           /\ CheckCompleteness(b) = "pass"
<1> DEFINE cc == Certificate(from, to, size)
           range == LogIds(to)
           whole == LogIds(size)
<1>1. Len(log) \in Nat /\ Seqs = 1..Len(log)
  BY LogFacts
<1>2. to \in 0..Len(log) /\ size \in to..Len(log) /\ to \in to..Len(log)
  BY <1>1
<1>3. /\ range \in Seq(Ids) /\ Len(range) = to
      /\ \A s \in 1..to : range[s] = log[s].id
  BY <1>2, LogIdsPrefix
<1>4. whole \in Seq(Ids) /\ IsPrefix(range, whole)
  BY <1>2, LogIdsPrefix
<1> HIDE DEF range, whole
<1>5. cc = [fromSeq |-> from, toSeq |-> to,
            inclusionFrom |-> [of |-> range, leafIndex |-> from - 1],
            inclusionTo |-> [of |-> range, leafIndex |-> to - 1],
            rangeRoot |-> range, checkpointRoot |-> whole,
            consistencyProof |-> IF size = to THEN Nil ELSE <<range, whole>>]
  BY DEF Certificate, range, whole
<1>6. /\ from \in Nat /\ to \in Nat /\ from - 1 \in Nat /\ to - 1 \in Nat
      /\ from \in 1..to /\ to \in 1..to
  BY <1>1
<1> DEFINE proof == IF size = to THEN Nil ELSE <<range, whole>>
<1>7. proof \in Seq(Seq(Ids)) \cup {Nil}
  BY <1>3, <1>4
<1>8. /\ [of |-> range, leafIndex |-> from - 1] \in MmrProofs
      /\ [of |-> range, leafIndex |-> to - 1] \in MmrProofs
  BY <1>3, <1>6 DEF MmrProofs
<1> HIDE DEF cc
<1>9. cc \in Certificates
  BY <1>3, <1>4, <1>5, <1>6, <1>7, <1>8 DEF Certificates
<1>10. CertificateType(cc)
  <2>1. /\ cc.fromSeq = from /\ cc.toSeq = to /\ cc.rangeRoot = range
        /\ cc.checkpointRoot = whole /\ cc.consistencyProof = proof
    BY <1>5
  <2> HIDE DEF proof
  <2> QED BY <1>3, <1>4, <1>7, <2>1 DEF CertificateType
<1>11. cc # Nil
  BY <1>9, NilAssumption
<1>12. VerifyInclusion(cc.rangeRoot, cc.inclusionFrom.leafIndex,
                       b.records[1].id, cc.inclusionFrom)
  <2>1. /\ cc.rangeRoot = range
        /\ cc.inclusionFrom.of = range /\ cc.inclusionFrom.leafIndex = from - 1
    BY <1>5
  <2>2. from - 1 < Len(range) /\ range[from - 1 + 1] = log[from].id
    BY <1>3, <1>6
  <2> QED BY <2>1, <2>2 DEF VerifyInclusion
<1>13. VerifyInclusion(cc.rangeRoot, cc.inclusionTo.leafIndex,
                       Last(b.records).id, cc.inclusionTo)
  <2>1. /\ cc.rangeRoot = range
        /\ cc.inclusionTo.of = range /\ cc.inclusionTo.leafIndex = to - 1
    BY <1>5
  <2>2. to - 1 < Len(range) /\ range[to - 1 + 1] = log[to].id
    BY <1>3, <1>6
  <2> QED BY <2>1, <2>2 DEF VerifyInclusion
<1>14. cc.consistencyProof # Nil =>
         VerifyConsistency(cc.rangeRoot, cc.checkpointRoot, cc.consistencyProof)
  <2>1. /\ cc.rangeRoot = range /\ cc.checkpointRoot = whole
        /\ cc.consistencyProof = proof
    BY <1>5
  <2>2. proof # Nil => proof = <<range, whole>>
    OBVIOUS
  <2> HIDE DEF proof
  <2> QED BY <1>4, <2>1, <2>2 DEF VerifyConsistency
<1>15. b.cert = cc
  BY DEF cc
<1> QED BY <1>9, <1>10, <1>11, <1>12, <1>13, <1>14, <1>15 DEF CheckCompleteness

(* The bundle holds the records that were found, each once, and its        *)
(* certificate is of their range.                                          *)
LEMMA BundleIsMade ==
    ASSUME LogInv, NEW size \in 0..Len(log), NEW found \in SUBSET Seqs,
           found \subseteq 1..size
    PROVE  /\ Made(MakeBundle(found, size))
           /\ IdsOf(MakeBundle(found, size).records) = IdsAt(found)
           /\ \A i \in DOMAIN MakeBundle(found, size).records :
                \E s \in found : MakeBundle(found, size).records[i] = log[s]
<1> DEFINE b == MakeBundle(found, size)
           n == Cardinality(found)
           order == InOrder(found)
           cert == IF found = {} THEN Nil
                   ELSE Certificate(Min(found), Max(found), size)
           verdicts == [id \in IdsAt(found) |-> log[SeqNo(id)].intact]
           disclosed == [id \in Ids |-> "none"]
<1>1. /\ Len(log) \in Nat
      /\ Seqs = 1..Len(log)
      /\ \A s \in Seqs : log[s] \in Records
  BY LogFacts
<1>2. found \in SUBSET Nat /\ IsFiniteSet(found) /\ n \in Nat
  <2> DEFINE I == 1..Len(log)
  <2>1. IsFiniteSet(I) /\ I \subseteq Nat
    BY <1>1, FS_Interval
  <2> HIDE DEF I
  <2>2. found \in SUBSET I
    BY <1>1 DEF I
  <2>3. IsFiniteSet(found)
    BY <2>1, <2>2, FS_Subset
  <2> QED BY <2>1, <2>2, <2>3, FS_CardinalityType
<1>3. /\ order \in [1..n -> found]
      /\ \A i, j \in 1..n : i < j => order[i] < order[j]
      /\ \A s \in found : \E i \in 1..n : order[i] = s
  BY <1>2, InOrderSorts
<1>4. b = [records |-> [i \in 1..n |-> log[order[i]]], verification |-> verdicts,
           disclosed |-> disclosed, cert |-> cert]
  BY DEF MakeBundle
<1> HIDE DEF b, n, order, cert, verdicts, disclosed
<1>5. /\ b.records = [i \in 1..n |-> log[order[i]]]
      /\ DOMAIN b.records = 1..n
      /\ \A i \in 1..n : b.records[i] = log[order[i]] /\ order[i] \in found
      /\ b.cert = cert
  BY <1>3, <1>4
<1>6. b.records \in Seq(Records) /\ Len(b.records) = n
  <2>1. \A i \in 1..n : log[order[i]] \in Records
    BY <1>1, <1>5
  <2> QED BY <1>2, <1>5, <2>1
<1>7. IdsOf(b.records) = IdsAt(found)
  <2>1. ASSUME NEW s \in found PROVE log[s].id \in IdsOf(b.records)
    <3>1. PICK i \in 1..n : order[i] = s
      BY <1>3, <2>1
    <3>2. i \in DOMAIN b.records /\ b.records[i].id = log[s].id
      BY <1>5, <3>1
    <3> QED BY <3>2 DEF IdsOf
  <2>2. IdsAt(found) \subseteq IdsOf(b.records)
    BY <2>1 DEF IdsAt
  <2>3. IdsOf(b.records) \subseteq IdsAt(found)
    <3>1. ASSUME NEW i \in 1..n PROVE b.records[i].id \in IdsAt(found)
      <4>1. b.records[i].id = log[order[i]].id /\ order[i] \in found
        BY <1>5, <3>1
      <4> QED BY <4>1 DEF IdsAt
    <3> QED BY <1>5, <3>1 DEF IdsOf
  <2> QED BY <2>2, <2>3
<1>8. Distinct(b.records)
  <2>1. SUFFICES ASSUME NEW i \in 1..n, NEW j \in 1..n,
                        b.records[i].id = b.records[j].id
                 PROVE  i = j
    BY <1>5 DEF Distinct
  <2>2. order[i] \in Seqs /\ order[j] \in Seqs /\ log[order[i]].id = log[order[j]].id
    BY <1>5, <2>1
  <2>3. order[i] = order[j]
    BY <2>2 DEF LogInv, Distinct, Seqs
  <2>4. order[i] \in Nat /\ order[j] \in Nat
    BY <1>2, <1>5
  <2>5. ~(i < j) /\ ~(j < i)
    BY <1>3, <2>3, <2>4
  <2> QED BY <1>2, <2>5
<1>9. verdicts \in UNION {[I -> BOOLEAN] : I \in SUBSET Ids}
  <2>1. IdsAt(found) \in SUBSET Ids
    BY <1>1 DEF IdsAt, Records
  <2>2. ASSUME NEW id \in IdsAt(found) PROVE log[SeqNo(id)].intact \in BOOLEAN
    <3>1. PICK s \in found : log[s].id = id
      BY <2>2 DEF IdsAt
    <3>2. SeqNo(id) = s
      BY <3>1, SeqNoFinds
    <3> QED BY <1>1, <3>2 DEF Records
  <2>3. verdicts \in [IdsAt(found) -> BOOLEAN]
    BY <2>2 DEF verdicts
  <2> QED BY <2>1, <2>3
<1>10. disclosed \in Disclosures
  BY DEF disclosed, Disclosures
<1>11. b.records # <<>> => found # {}
  <2>1. ASSUME found = {} PROVE b.records = <<>>
    <3>1. n = 0
      BY <2>1, FS_EmptySet DEF n
    <3> QED BY <1>6, <3>1
  <2> QED BY <2>1
<1>12. CASE found # {}
  <2>1. /\ n \in Nat \ {0}
        /\ order[1] = Min(found) /\ Min(found) \in found
        /\ order[n] = Max(found) /\ Max(found) \in found
        /\ \A s \in found : Min(found) <= s /\ s <= Max(found)
    BY <1>2, <1>12, OrderEnds DEF n, order
  <2>2. /\ b.cert = Certificate(Min(found), Max(found), size)
        /\ Min(found) \in Seqs /\ Max(found) \in Seqs /\ Min(found) <= Max(found)
    BY <1>5, <1>12, <2>1 DEF cert
  <2>3. size \in Max(found)..Len(log)
    <3>1. Max(found) \in 1..size /\ size \in 0..Len(log)
      BY <2>1
    <3> QED BY <1>1, <3>1
  <2>4. /\ b.records # <<>>
        /\ b.records[1].id = log[Min(found)].id
        /\ Last(b.records).id = log[Max(found)].id
    <3>1. 1 \in 1..n /\ n \in 1..n
      BY <2>1
    <3>2. Last(b.records) = b.records[n]
      BY <1>6 DEF Last
    <3> QED BY <1>5, <1>6, <2>1, <3>1, <3>2
  <2>5. /\ b.cert \in Certificates
        /\ CertificateType(b.cert)
        /\ b.cert # Nil
        /\ CheckCompleteness(b) = "pass"
    BY <2>2, <2>3, <2>4, CertificateHolds
  <2>6. b \in Bundles
    BY <1>4, <1>5, <1>6, <1>9, <1>10, <2>5 DEF Bundles
  <2> QED BY <1>5, <1>7, <1>8, <2>5, <2>6 DEF Made, b
<1>13. CASE found = {}
  <2>1. b.cert = Nil /\ b.records = <<>>
    BY <1>5, <1>11, <1>13 DEF cert
  <2>2. b \in Bundles
    BY <1>4, <1>5, <1>6, <1>9, <1>10, <2>1 DEF Bundles
  <2> QED BY <1>5, <1>7, <1>8, <2>1, <2>2 DEF Made, b
<1> QED BY <1>12, <1>13

LEMMA CertifyKeepsInv ==
    ASSUME HandInv, carried = Nil, Certify, UNCHANGED <<carried, changes, dropped>>
    PROVE  HandInv'
<1> DEFINE b == MakeBundle(cli.found, cli.treeSize)
<1>1. /\ cli \in [pc : {"counted"}, found : SUBSET Seqs, treeSize : 0..Len(log),
                  scanned : 0..Len(log)]
      /\ cli.found \subseteq 1..cli.treeSize
      /\ \A s \in cli.found : Settled(s)
  BY DEF Certify, HandInv, CliInv, VerifiedInv
<1>2. LogInv /\ log' = log /\ Seqs' = Seqs
  BY DEF Certify, Seqs, HandInv
<1>3. /\ Made(b)
      /\ IdsOf(b.records) = IdsAt(cli.found)
      /\ \A i \in DOMAIN b.records : \E s \in cli.found : b.records[i] = log[s]
  BY <1>1, <1>2, BundleIsMade
<1>4. cli' = [pc |-> "done", scanned |-> cli.scanned, bundle |-> b]
  BY DEF Certify
<1> HIDE DEF b
<1>5. /\ cli'.pc = "done" /\ cli'.scanned = cli.scanned /\ cli'.bundle = b
      /\ cli' \in [pc : {"done"}, scanned : 0..Len(log), bundle : Bundles]
  BY <1>1, <1>3, <1>4 DEF Made
<1>6. Made(cli.bundle)'
  BY <1>2, <1>3, <1>5 DEF Made, CertificateType
<1>7. ParentsIncluded'
  <2>1. ASSUME NEW i \in DOMAIN b.records, b.records[i].parent \in IdsAt(1..cli.scanned)
        PROVE  b.records[i].parent \in IdsOf(b.records)
    <3>1. PICK s \in cli.found : b.records[i] = log[s]
      BY <1>3
    <3> QED BY <1>1, <1>3, <2>1, <3>1 DEF Settled
  <2>2. IdsAt(1..cli.scanned)' = IdsAt(1..cli.scanned)
    BY <1>2, <1>5 DEF IdsAt
  <2>3. Declared(b.records) \subseteq DOMAIN b.records
    BY DEF Declared
  <2> QED BY <1>5, <2>1, <2>2, <2>3 DEF ParentsIncluded
<1>8. CliInv'
  BY <1>2, <1>5, <1>6, <1>7 DEF CliInv, CollectInv, VerifiedInv, DoneInv
<1> QED BY <1>2, <1>8, OnlyCli DEF Certify

-----------------------------------------------------------------------------
(* The bundle on its way                                                   *)

(* Nothing of the command moves when the bundle is handed on or changed.   *)
LEMMA OnlyCarried ==
    ASSUME HandInv, UNCHANGED bvars
    PROVE  LogInv' /\ CliInv'
<1>1. log' = log /\ cli' = cli /\ Seqs' = Seqs
  BY DEF bvars, Seqs
<1>2. \A S : IdsAt(S)' = IdsAt(S)
  BY <1>1 DEF IdsAt
<1>3. LogInv'
  BY <1>1 DEF HandInv, LogInv
<1>4. CollectInv' /\ VerifiedInv'
  BY <1>1 DEF HandInv, CliInv, CollectInv, VerifiedInv, Settled, IdsAt
<1>5. DoneInv'
  BY <1>1 DEF HandInv, CliInv, DoneInv, Made, CertificateType, ParentsIncluded, IdsAt
<1> QED BY <1>1, <1>3, <1>4, <1>5 DEF HandInv, CliInv

LEMMA HandOnKeepsInv ==
    ASSUME HandInv, HandOn
    PROVE  HandInv'
<1>1. LogInv' /\ CliInv'
  BY OnlyCarried DEF HandOn
<1>2. /\ cli.pc = "done" /\ cli.bundle \in Bundles
      /\ dropped = 0 /\ carried' = cli.bundle
      /\ cli' = cli /\ dropped' = dropped /\ changes' = changes
  BY DEF HandOn, bvars, HandInv, CarryInv, CliInv, DoneInv
<1>3. Len(cli.bundle.records) \in Nat
  BY <1>2 DEF Bundles
<1>4. CarryInv'
  <2>1. cli.bundle.cert # Nil => CertificateType(cli.bundle.cert)
    BY <1>2 DEF HandInv, CliInv, DoneInv, Made
  <2>2. (carried.cert # Nil => CertificateType(carried.cert))'
    BY <1>2, <2>1 DEF HandOn, bvars, Seqs, CertificateType
  <2> QED BY <1>2, <1>3, <2>2 DEF CarryInv, Place
<1> QED BY <1>1, <1>2, <1>4 DEF HandInv

LEMMA ChangeFacts ==
    ASSUME HandInv, carried # Nil, Change
    PROVE  /\ LogInv' /\ CliInv' /\ (changes \in 0..MaxChanges)'
           /\ cli' = cli /\ cli.pc = "done"
           /\ carried \in Bundles /\ cli.bundle \in Bundles
           /\ carried.records \in Seq(Records)
           /\ cli.bundle.records \in Seq(Records)
           /\ carried'.cert = carried.cert =>
                (carried.cert # Nil => CertificateType(carried.cert))'
<1>1. LogInv' /\ CliInv'
  BY OnlyCarried DEF Change
<1>4. carried.cert # Nil => CertificateType(carried.cert)
  BY DEF HandInv, CarryInv
<1>5. ASSUME carried'.cert = carried.cert, carried'.cert # Nil
      PROVE  CertificateType(carried.cert)'
  BY <1>4, <1>5 DEF Change, bvars, Seqs, CertificateType
<1>2. changes + 1 \in 0..MaxChanges
  BY ChangesAssumption DEF HandInv, Change
<1>3. cli.pc = "done" /\ carried \in Bundles /\ cli.bundle \in Bundles
  BY DEF HandInv, CarryInv, CliInv, DoneInv
<1> QED BY <1>1, <1>2, <1>3, <1>5 DEF Change, bvars, Bundles

(* The record after the one left out moves up one place.                   *)
LEMMA DropKeepsInv ==
    ASSUME HandInv, carried # Nil, NEW i \in DOMAIN carried.records, Drop(i)
    PROVE  HandInv'
<1> DEFINE made == cli.bundle.records
           old == carried.records
           new == RemoveAt(old, i)
<1>1. /\ LogInv' /\ CliInv' /\ (changes \in 0..MaxChanges)'
      /\ cli' = cli /\ cli.pc = "done"
      /\ carried \in Bundles /\ cli.bundle \in Bundles
      /\ old \in Seq(Records) /\ made \in Seq(Records)
      /\ carried'.cert = carried.cert =>
           (carried.cert # Nil => CertificateType(carried.cert))'
  BY ChangeFacts DEF Drop
<1>2. /\ dropped = 0 /\ dropped' = i
      /\ carried' = [carried EXCEPT !.records = new]
  BY DEF Drop
<1>3. /\ Len(old) = Len(made)
      /\ \A j \in DOMAIN old : old[j].id = made[j].id
  BY <1>2 DEF HandInv, CarryInv, Place
<1> HIDE DEF made, old
<1>4. Len(old) \in Nat /\ i \in 1..Len(old) /\ DOMAIN old = 1..Len(old)
  BY <1>1 DEF old
<1>5. /\ new \in Seq(Records)
      /\ Len(new) = Len(old) - 1
      /\ \A j \in 1..(Len(old) - 1) : new[j] = IF i <= j THEN old[j + 1] ELSE old[j]
  <2> DEFINE n == Len(old)
             head == SubSeq(old, 1, i - 1)
             tail == SubSeq(old, i + 1, n)
  <2>1. head \in Seq(Records) /\ Len(head) = i - 1 /\ \A j \in 1..(i - 1) : head[j] = old[j]
    BY <1>1, <1>4
  <2>2. tail \in Seq(Records) /\ Len(tail) = n - i /\ \A j \in 1..(n - i) : tail[j] = old[i + j]
    BY <1>1, <1>4
  <2>3. new = head \o tail
    BY DEF RemoveAt
  <2> HIDE DEF head, tail, new
  <2>4. /\ new \in Seq(Records)
        /\ Len(new) = n - 1
        /\ \A j \in 1..(n - 1) :
             new[j] = IF j <= i - 1 THEN head[j] ELSE tail[j - (i - 1)]
    <3>1. n - 1 = Len(head) + Len(tail)
      BY <1>4, <2>1, <2>2
    <3>2. /\ head \o tail \in Seq(Records)
          /\ Len(head \o tail) = Len(head) + Len(tail)
          /\ \A j \in 1..(Len(head) + Len(tail)) : (head \o tail)[j] =
               IF j <= Len(head) THEN head[j] ELSE tail[j - Len(head)]
      BY <2>1, <2>2, ConcatProperties
    <3> QED BY <2>1, <2>3, <3>1, <3>2
  <2>5. ASSUME NEW j \in 1..(n - 1), i <= j PROVE new[j] = old[j + 1]
    <3>1. j - (i - 1) \in 1..(n - i) /\ i + (j - (i - 1)) = j + 1 /\ ~(j <= i - 1)
      BY <1>4, <2>5
    <3>2. new[j] = tail[j - (i - 1)] /\ tail[j - (i - 1)] = old[i + (j - (i - 1))]
      BY <2>2, <2>4, <3>1
    <3> QED BY <3>1, <3>2
  <2>6. ASSUME NEW j \in 1..(n - 1), ~(i <= j) PROVE new[j] = old[j]
    <3>1. j <= i - 1 /\ j \in 1..(i - 1)
      BY <1>4, <2>6
    <3> QED BY <2>1, <2>4, <3>1
  <2> QED BY <2>4, <2>5, <2>6
<1> HIDE DEF new
<1>6. /\ carried' \in Bundles
      /\ carried'.records = new
      /\ carried'.cert = carried.cert
  BY <1>1, <1>2, <1>5 DEF Bundles
<1>7. ASSUME NEW j \in 1..(Len(old) - 1)
      PROVE  new[j].id = made[IF i <= j THEN j + 1 ELSE j].id
  <2>1. j \in 1..Len(old) /\ j + 1 \in 1..Len(old)
    BY <1>4
  <2> QED BY <1>3, <1>4, <1>5, <2>1
<1>8. CarryInv'
  <2>1. \A j \in DOMAIN new : new[j].id = made[IF i # 0 /\ i <= j THEN j + 1 ELSE j].id
    <3>1. DOMAIN new = 1..(Len(old) - 1) /\ i # 0
      BY <1>4, <1>5
    <3> QED BY <1>7, <3>1
  <2>2. i \in 0..Len(made) /\ i # 0
    BY <1>3, <1>4
  <2>3. carried' # Nil
    BY <1>6, NilAssumption
  <2> QED BY <1>1, <1>2, <1>3, <1>5, <1>6, <2>1, <2>2, <2>3 DEF CarryInv, Place, made
<1> QED BY <1>1, <1>8 DEF HandInv

(* An edit leaves the ids of the records, and where they stand.            *)
LEMMA EditKeepsInv ==
    ASSUME HandInv, carried # Nil, NEW i \in DOMAIN carried.records,
           Change, dropped' = dropped, NEW r \in Records,
           r.id = carried.records[i].id,
           carried' = [carried EXCEPT !.records[i] = r]
    PROVE  HandInv'
<1> DEFINE old == carried.records
           new == [old EXCEPT ![i] = r]
<1>1. /\ LogInv' /\ CliInv' /\ (changes \in 0..MaxChanges)'
      /\ cli' = cli /\ cli.pc = "done"
      /\ carried \in Bundles /\ cli.bundle \in Bundles
      /\ old \in Seq(Records)
      /\ carried'.cert = carried.cert =>
           (carried.cert # Nil => CertificateType(carried.cert))'
  BY ChangeFacts
<1>2. carried' = [carried EXCEPT !.records = new]
  BY <1>1 DEF Bundles
<1>3. /\ new \in Seq(Records) /\ Len(new) = Len(old) /\ DOMAIN new = DOMAIN old
      /\ \A j \in DOMAIN old : new[j].id = old[j].id
  BY <1>1
<1> HIDE DEF new
<1>4. /\ carried' \in Bundles
      /\ carried'.records = new
      /\ carried'.cert = carried.cert
  BY <1>1, <1>2, <1>3 DEF Bundles
<1>5. carried' # Nil
  BY <1>4, NilAssumption
<1>6. CarryInv'
  BY <1>1, <1>3, <1>4, <1>5 DEF HandInv, CarryInv, Place
<1> QED BY <1>1, <1>6 DEF HandInv

(* Whatever certificate is put on, the records stay.                       *)
LEMMA CertificateKeepsInv ==
    ASSUME HandInv, carried # Nil, Change, dropped' = dropped,
           NEW cc \in Certificates \cup {Nil}, cc # Nil => CertificateType(cc),
           carried' = [carried EXCEPT !.cert = cc]
    PROVE  HandInv'
<1>1. /\ LogInv' /\ CliInv' /\ (changes \in 0..MaxChanges)'
      /\ cli' = cli /\ cli.pc = "done"
      /\ carried \in Bundles /\ cli.bundle \in Bundles
  BY ChangeFacts
<1>2. /\ carried' \in Bundles
      /\ carried'.records = carried.records
      /\ carried'.cert = cc
  BY <1>1 DEF Bundles
<1>3. carried' # Nil
  BY <1>2, NilAssumption
<1>4. (carried.cert # Nil => CertificateType(carried.cert))'
  BY <1>2 DEF Change, bvars, Seqs, CertificateType
<1>5. CarryInv'
  BY <1>1, <1>2, <1>3, <1>4 DEF HandInv, CarryInv, Place
<1> QED BY <1>1, <1>5 DEF HandInv

LEMMA CertificatesKeepInv ==
    ASSUME HandInv, carried # Nil, LoseCertificate \/ SwapCertificate
    PROVE  HandInv'
<1>1. CASE LoseCertificate
  BY <1>1, CertificateKeepsInv DEF LoseCertificate
<1>2. CASE SwapCertificate
  <2>1. PICK from \in Seqs : \E to \in from..Len(log) : \E size \in to..Len(log) :
          carried' = [carried EXCEPT !.cert = Certificate(from, to, size)]
    BY <1>2 DEF SwapCertificate
  <2>2. PICK to \in from..Len(log) : \E size \in to..Len(log) :
          carried' = [carried EXCEPT !.cert = Certificate(from, to, size)]
    BY <2>1
  <2>3. PICK size \in to..Len(log) :
          carried' = [carried EXCEPT !.cert = Certificate(from, to, size)]
    BY <2>2
  <2>4. LogInv /\ from \in Seqs /\ to \in Seqs /\ from <= to
    BY LogFacts DEF HandInv
  <2>5. /\ Certificate(from, to, size) \in Certificates
        /\ CertificateType(Certificate(from, to, size))
    <3> DEFINE b == [cert |-> Certificate(from, to, size),
                     records |-> <<log[from], log[to]>>]
    <3>1. /\ b.cert = Certificate(from, to, size) /\ b.records # <<>>
          /\ b.records[1].id = log[from].id /\ Last(b.records).id = log[to].id
      BY DEF Last
    <3> HIDE DEF b
    <3> QED BY <2>4, <3>1, CertificateHolds
  <2> QED BY <1>2, <2>3, <2>5, CertificateKeepsInv DEF SwapCertificate
<1> QED BY <1>1, <1>2

LEMMA EditsKeepInv ==
    ASSUME HandInv, carried # Nil, NEW i \in DOMAIN carried.records, Edit(i)
    PROVE  HandInv'
<1> DEFINE r == carried.records[i]
<1>1. CASE Drop(i)
  BY <1>1, DropKeepsInv
<1>2. CASE EditBody(i)
  <2>1. Change /\ dropped' = dropped
    BY <1>2 DEF EditBody
  <2>2. r \in Records /\ carried \in Bundles
    BY <2>1, ChangeFacts
  <2>3. /\ [r EXCEPT !.intact = FALSE] \in Records
        /\ [r EXCEPT !.intact = FALSE].id = r.id
    BY <2>2 DEF Records
  <2>4. carried' = [carried EXCEPT !.records[i] = [r EXCEPT !.intact = FALSE]]
    BY <1>2 DEF EditBody
  <2> QED BY <2>1, <2>3, <2>4, EditKeepsInv
<1>3. CASE EditParent(i)
  <2>1. Change /\ dropped' = dropped
    BY <1>3 DEF EditParent
  <2>2. r \in Records /\ carried \in Bundles
    BY <2>1, ChangeFacts
  <2>3. PICK parent \in Ids \cup {Nil} :
          carried' = [carried EXCEPT !.records[i].parent = parent]
    BY <1>3 DEF EditParent
  <2>4. /\ [r EXCEPT !.parent = parent] \in Records
        /\ [r EXCEPT !.parent = parent].id = r.id
    BY <2>2 DEF Records
  <2>5. carried' = [carried EXCEPT !.records[i] = [r EXCEPT !.parent = parent]]
    BY <2>3
  <2> QED BY <2>1, <2>4, <2>5, EditKeepsInv
<1> QED BY <1>1, <1>2, <1>3 DEF Edit

-----------------------------------------------------------------------------
(* All together                                                            *)

LEMMA HandInvInit == Init => HandInv
<1> SUFFICES ASSUME Init PROVE HandInv
  OBVIOUS
<1>1. log = <<>> /\ cli.pc = "idle" /\ carried = Nil /\ changes = 0 /\ dropped = 0
  BY DEF Init, BundleInit
<1>2. LogInv
  <2>1. log \in Seq(Records) /\ DOMAIN log = {}
    BY <1>1
  <2> QED BY <2>1 DEF LogInv, Distinct
<1>3. CliInv
  BY <1>1 DEF CliInv, CollectInv, VerifiedInv, DoneInv
<1>4. CarryInv
  BY <1>1 DEF CarryInv
<1> QED BY <1>1, <1>2, <1>3, <1>4, ChangesAssumption DEF HandInv

LEMMA HandInvNext == HandInv /\ [Next]_vars => HandInv'
<1> SUFFICES ASSUME HandInv, [Next]_vars PROVE HandInv'
  OBVIOUS
<1>1. CASE carried = Nil /\ BundleNext /\ UNCHANGED <<carried, changes, dropped>>
  <2>1. CASE AppendRecord
    BY <1>1, <2>1, AppendKeepsInv
  <2>2. CASE Scan
    BY <1>1, <2>2, ScanKeepsInv
  <2>3. ASSUME NEW s \in Seqs, Collect(s) PROVE HandInv'
    BY <1>1, <2>3, CollectKeepsInv
  <2>4. CASE VerifyEach
    BY <1>1, <2>4, VerifyKeepsInv
  <2>5. CASE Count
    BY <1>1, <2>5, CountKeepsInv
  <2>6. CASE Certify
    BY <1>1, <2>6, CertifyKeepsInv
  <2> QED BY <1>1, <2>1, <2>2, <2>3, <2>4, <2>5, <2>6 DEF BundleNext, RunBundle
<1>2. CASE HandOn
  BY <1>2, HandOnKeepsInv
<1>3. ASSUME carried # Nil, NEW i \in DOMAIN carried.records, Edit(i) PROVE HandInv'
  BY <1>3, EditsKeepInv
<1>5. CASE carried # Nil /\ (LoseCertificate \/ SwapCertificate)
  BY <1>5, CertificatesKeepInv
<1>4. CASE UNCHANGED vars
  <2>1. UNCHANGED bvars /\ UNCHANGED <<carried, changes, dropped, cli>>
    BY <1>4 DEF vars, bvars
  <2>2. LogInv' /\ CliInv'
    BY <2>1, OnlyCarried
  <2>3. CarryInv'
    <3>1. log' = log /\ Seqs' = Seqs
      BY <2>1 DEF bvars, Seqs
    <3> QED BY <2>1, <3>1 DEF HandInv, CarryInv, Place, CertificateType
  <2> QED BY <2>1, <2>2, <2>3 DEF HandInv
<1> QED BY <1>1, <1>2, <1>3, <1>4, <1>5 DEF Next

LEMMA HandInvariance == Spec => []HandInv
BY HandInvInit, HandInvNext, PTL DEF Spec

(* Every variable has its type; what a command has found is in the ledger, *)
(* and only ids are looked up and missed.                                  *)
THEOREM TypeCorrect == Spec => []TypeOK
<1>1. HandInv => TypeOK
  <2> SUFFICES ASSUME HandInv PROVE TypeOK
    OBVIOUS
  <2>1. log \in Seq(Records) /\ changes \in 0..MaxChanges
    BY DEF HandInv, LogInv
  <2>2. /\ cli.pc \in {"idle", "collect", "verified", "counted", "done"}
        /\ cli.pc = "collect" =>
             cli.found \subseteq Seqs /\ cli.frontier \subseteq cli.found
               /\ cli.missing \subseteq Ids
    BY DEF HandInv, CliInv, CollectInv
  <2>3. ASSUME NEW b \in Bundles, b.cert # Nil => CertificateType(b.cert)
        PROVE  BundleType(b)
    <3>1. PICK I \in SUBSET Ids : b.verification \in [I -> BOOLEAN]
      BY <2>3 DEF Bundles
    <3> QED BY <2>3, <3>1 DEF Bundles, BundleType
  <2>4. cli.pc = "done" =>
          /\ cli.bundle \in Bundles
          /\ cli.bundle.cert # Nil => CertificateType(cli.bundle.cert)
    BY DEF HandInv, CliInv, DoneInv, Made
  <2>5. cli.pc = "done" => BundleType(cli.bundle)
    BY <2>3, <2>4
  <2>6. carried # Nil => BundleType(carried)
    BY <2>3, <2>4 DEF HandInv, CarryInv
  <2>7. dropped \in Nat
    <3>1. CASE carried = Nil
      BY <3>1 DEF HandInv, CarryInv
    <3>2. CASE carried # Nil
      <4>1. cli.bundle \in Bundles /\ dropped \in 0..Len(cli.bundle.records)
        BY <2>4, <3>2 DEF HandInv, CarryInv
      <4>2. Len(cli.bundle.records) \in Nat
        BY <4>1 DEF Bundles
      <4> QED BY <4>1, <4>2
    <3> QED BY <3>1, <3>2
  <2> QED BY <2>1, <2>2, <2>5, <2>6, <2>7 DEF TypeOK
<1> QED BY <1>1, HandInvariance, PTL

(* A bundle just made passes the viewer's Completeness stage, whatever was *)
(* appended while it was made (bundle_cmd.py:173-189).                     *)
THEOREM BundlesVerify == Spec => []BundleVerifies
<1>1. HandInv => BundleVerifies
  BY DEF HandInv, CliInv, DoneInv, Made, BundleVerifies
<1> QED BY <1>1, HandInvariance, PTL

(* Every cited parent that was in the ledger when the records were         *)
(* selected is in the bundle, and so are its own (bundle_cmd.py:100-119).  *)
THEOREM ParentsAreIncluded == Spec => []ParentsIncluded
<1>1. HandInv => ParentsIncluded
  BY DEF HandInv, CliInv, DoneInv, ParentsIncluded
<1> QED BY <1>1, HandInvariance, PTL

(* No id of a bundle is left when its record is left out.                  *)
LEMMA LeftIsGone ==
    ASSUME HandInv, carried # Nil, dropped # 0
    PROVE  /\ cli.bundle \in Bundles /\ carried \in Bundles /\ Made(cli.bundle)
           /\ dropped \in 1..Len(cli.bundle.records)
           /\ cli.bundle.records[dropped].id \in Ids
           /\ cli.bundle.records[dropped].id \notin IdsOf(carried.records)
<1> DEFINE made == cli.bundle.records
           kept == carried.records
<1>1. /\ cli.bundle \in Bundles /\ Made(cli.bundle) /\ carried \in Bundles
      /\ dropped \in 0..Len(made)
      /\ Len(kept) = Len(made) - 1
      /\ \A i \in DOMAIN kept : kept[i].id = made[Place(i)].id
  BY DEF HandInv, CarryInv, CliInv, DoneInv
<1>2. made \in Seq(Records) /\ kept \in Seq(Records)
  BY <1>1 DEF Bundles
<1>3. /\ Len(made) \in Nat /\ dropped \in 1..Len(made)
      /\ DOMAIN made = 1..Len(made) /\ DOMAIN kept = 1..(Len(made) - 1)
  BY <1>1, <1>2
<1>4. \A i, j \in DOMAIN made : made[i].id = made[j].id => i = j
  BY <1>1 DEF Made, Distinct
<1> HIDE DEF made, kept
<1>5. ASSUME NEW i \in DOMAIN kept PROVE kept[i].id # made[dropped].id
  <2>1. Place(i) \in DOMAIN made /\ Place(i) # dropped /\ dropped \in DOMAIN made
    BY <1>3 DEF Place
  <2> QED BY <1>1, <1>4, <2>1 DEF made, kept
<1>6. made[dropped].id \in Ids
  <2>1. made[dropped] \in Records
    BY <1>2, <1>3 DEF made
  <2> QED BY <2>1 DEF Records
<1> QED BY <1>1, <1>3, <1>5, <1>6 DEF IdsOf, made, kept

(* A record left out at an end fails the bundle's own certificate, and the *)
(* stage is skipped, not passed, with none; any record left out is a gap   *)
(* where one that came after it, not first itself, still names it, whatever *)
(* certificate there is (offline_shell.html:1013-1045, 1204-1231).         *)
THEOREM DropsTold == Spec => []DropTold
<1>1. ASSUME HandInv, carried # Nil, dropped # 0, carried.records # <<>>
      PROVE  LET made == cli.bundle.records
                 left == made[dropped].id
             IN  /\ (dropped \in {1, Len(made)}
                       /\ carried.cert \in {Nil, cli.bundle.cert}) =>
                      Ritual(carried).completeness =
                          IF carried.cert = Nil THEN "skip" ELSE "fail"
                 /\ (\E i \in dropped..Len(carried.records) :
                        i > 1 /\ carried.records[i].parent = left) =>
                      Ritual(carried).sequence = "fail"
  <2> DEFINE made == cli.bundle.records
             kept == carried.records
             cc == cli.bundle.cert
             left == made[dropped].id
  <2>1. /\ cli.bundle \in Bundles /\ carried \in Bundles /\ Made(cli.bundle)
        /\ dropped \in 1..Len(made)
        /\ left \in Ids /\ left \notin IdsOf(kept)
    BY <1>1, LeftIsGone
  <2>2. /\ made \in Seq(Records) /\ kept \in Seq(Records)
        /\ Len(made) \in Nat /\ Len(kept) \in Nat /\ Len(kept) # 0
    BY <1>1, <2>1 DEF Bundles
  <2>4. made # <<>>
    BY <2>1, <2>2
  <2>5. cc # Nil /\ CheckCompleteness(cli.bundle) = "pass"
    BY <2>1, <2>4 DEF Made
  <2>6. /\ VerifyInclusion(cc.rangeRoot, cc.inclusionFrom.leafIndex,
                           made[1].id, cc.inclusionFrom)
        /\ VerifyInclusion(cc.rangeRoot, cc.inclusionTo.leafIndex,
                           Last(made).id, cc.inclusionTo)
    BY <2>4, <2>5 DEF CheckCompleteness
  <2>3. ASSUME carried.cert = Nil PROVE Ritual(carried).completeness = "skip"
    BY <2>3 DEF Ritual, CheckCompleteness
  <2>7. ASSUME dropped \in {1, Len(made)}, carried.cert = cc
        PROVE  Ritual(carried).completeness = "fail"
    <3>1. 1 \in DOMAIN kept /\ Len(kept) \in DOMAIN kept
      BY <2>2
    <3>2. kept[1].id # left /\ Last(kept).id # left
      BY <2>1, <3>1 DEF IdsOf, Last
    <3>3. kept[1].id # made[1].id \/ Last(kept).id # Last(made).id
      BY <2>7, <3>2 DEF Last
    <3>4. ~(/\ VerifyInclusion(cc.rangeRoot, cc.inclusionFrom.leafIndex,
                               kept[1].id, cc.inclusionFrom)
            /\ VerifyInclusion(cc.rangeRoot, cc.inclusionTo.leafIndex,
                               Last(kept).id, cc.inclusionTo))
      BY <2>6, <3>3 DEF VerifyInclusion
    <3>5. CheckCompleteness(carried) = "fail"
      BY <1>1, <2>5, <2>7, <3>4 DEF CheckCompleteness
    <3> QED BY <3>5 DEF Ritual
  <2>8. ASSUME NEW i \in dropped..Len(kept), i > 1, kept[i].parent = left
        PROVE  Ritual(carried).sequence = "fail"
    <3>1. i \in DOMAIN kept /\ i > 1 /\ Len(kept) >= 2
      BY <2>1, <2>2, <2>8
    <3>2. left # Nil
      BY <2>1, IdAssumption
    <3>3. i \in Declared(kept) /\ i \in FindChainGaps(kept)
      BY <2>1, <2>8, <3>1, <3>2 DEF Declared, FindChainGaps
    <3>4. SequenceStage(kept) = "fail"
      BY <2>2, <3>1, <3>3 DEF SequenceStage
    <3> QED BY <3>4 DEF Ritual
  <2> QED BY <2>3, <2>5, <2>7, <2>8
<1>2. HandInv => DropTold
  BY <1>1 DEF DropTold
<1> QED BY <1>2, HandInvariance, PTL

-----------------------------------------------------------------------------
(* The walk up the chain                                                   *)

LEMMA LeastNat ==
    ASSUME NEW T \in SUBSET Nat, T # {}
    PROVE  \E m \in T : \A k \in T : m <= k
<1> DEFINE R == OpToRel(<, Nat)
<1>1. IsWellFoundedOn(R, Nat)
  BY NatLessThanWellFounded
<1>2. \A x, y \in Nat : y < x => <<y, x>> \in R
  BY Zenon DEF OpToRel
<1> HIDE DEF R
<1>3. PICK m \in T : \A y \in T : ~ (<<y, m>> \in R)
  BY <1>1, WFMin
<1>4. ASSUME NEW k \in T PROVE m <= k
  <2>1. m \in Nat /\ k \in Nat
    OBVIOUS
  <2>2. ~(k < m)
    BY <1>2, <1>3, <2>1
  <2> QED BY <2>1, <2>2
<1> QED BY <1>4

(* One turn of the walk: the function w is asked for the turns after it.   *)
Turn(w, records, cur, seen) ==
    /\ cur.parent # Nil
    /\ cur.parent \notin seen
    /\ \/ cur.parent \in Altered(records)
       \/ /\ cur.parent \in IdsOf(records)
          /\ w[RecordOf(records, cur.parent)][seen \cup {cur.parent}]

Walks(w, records) ==
    w = [cur \in Records |-> [seen \in SUBSET Ids |-> Turn(w, records, cur, seen)]]

(* The ids that a walk passes until it comes to an altered one.            *)
Trail(records, cur, seen, p) ==
    /\ Len(p) > 0
    /\ p[1] = cur.parent
    /\ \A k \in DOMAIN p : p[k] \notin seen
    /\ \A k, l \in DOMAIN p : p[k] = p[l] => k = l
    /\ \A k \in 1..(Len(p) - 1) : /\ p[k] \in IdsOf(records)
                                  /\ p[k + 1] = RecordOf(records, p[k]).parent
    /\ p[Len(p)] \in Altered(records)

LEMMA RecordOfId ==
    ASSUME NEW records \in Seq(Records), Distinct(records), NEW id \in IdsOf(records)
    PROVE  /\ RecordOf(records, id) \in Records
           /\ RecordOf(records, id).id = id
           /\ \A j \in DOMAIN records :
                records[j].id = id => records[j] = RecordOf(records, id)
<1>1. PICK i \in DOMAIN records : records[i].id = id
  BY DEF IdsOf
<1>2. \A j \in DOMAIN records : records[j].id = id => j = i
  BY <1>1 DEF Distinct
<1>3. {j \in DOMAIN records : records[j].id = id} = {i}
  BY <1>1, <1>2
<1>4. i \in Nat /\ records[i] \in Records
  OBVIOUS
<1>5. Max({i}) = i
  BY <1>4 DEF Max
<1>6. RecordOf(records, id) = records[i]
  BY <1>3, <1>5 DEF RecordOf
<1> QED BY <1>1, <1>2, <1>4, <1>6

(* A trail goes on as a trail from the record it came to.                  *)
LEMMA TrailGoesOn ==
    ASSUME NEW records \in Seq(Records), NEW cur \in Records, NEW seen \in SUBSET Ids,
           NEW p \in Seq(Ids), Trail(records, cur, seen, p), Len(p) # 1
    PROVE  /\ cur.parent \in IdsOf(records)
           /\ Tail(p) \in Seq(Ids)
           /\ Trail(records, RecordOf(records, cur.parent), seen \cup {cur.parent}, Tail(p))
<1> DEFINE n == Len(p)
           q == Tail(p)
           next == RecordOf(records, cur.parent)
<1>1. n \in Nat /\ n > 1 /\ DOMAIN p = 1..n
  <2>1. n \in Nat /\ n > 0 /\ n # 1 /\ DOMAIN p = 1..n
    BY DEF Trail
  <2> HIDE DEF n
  <2> QED BY <2>1
<1>2. q \in Seq(Ids) /\ Len(q) = n - 1 /\ DOMAIN q = 1..(n - 1)
  BY <1>1
<1>3. \A k \in 1..(n - 1) : q[k] = p[k + 1] /\ k + 1 \in DOMAIN p
  BY <1>1
<1> HIDE DEF q, n
<1>4. 1 \in 1..(n - 1) /\ n - 1 \in 1..(n - 1) /\ 1 \in DOMAIN p
  BY <1>1
<1>5. p[1] = cur.parent /\ p[1] \in IdsOf(records) /\ p[2] = next.parent
  BY <1>4 DEF Trail, n
<1>6. Len(q) > 0 /\ q[1] = next.parent
  <2>1. 1 + 1 = 2 /\ n - 1 > 0
    BY <1>1
  <2> QED BY <1>2, <1>3, <1>4, <1>5, <2>1
<1>7. ASSUME NEW k \in 1..(n - 1) PROVE q[k] \notin seen \cup {cur.parent}
  <2>1. k + 1 # 1
    BY <1>1
  <2>2. p[k + 1] # p[1]
    BY <1>3, <1>4, <2>1 DEF Trail
  <2> QED BY <1>3, <1>5, <2>2 DEF Trail
<1>8. ASSUME NEW k \in 1..(n - 1), NEW l \in 1..(n - 1), q[k] = q[l] PROVE k = l
  <2>1. k + 1 = l + 1
    BY <1>3, <1>8 DEF Trail
  <2> QED BY <1>1, <2>1
<1>9. ASSUME NEW k \in 1..(n - 2)
      PROVE  q[k] \in IdsOf(records) /\ q[k + 1] = RecordOf(records, q[k]).parent
  <2>1. k \in 1..(n - 1) /\ k + 1 \in 1..(n - 1)
    BY <1>1
  <2> QED BY <1>3, <2>1 DEF Trail, n
<1>10. q[n - 1] \in Altered(records)
  <2>1. (n - 1) + 1 = n
    BY <1>1
  <2> QED BY <1>3, <1>4, <2>1 DEF Trail, n
<1>11. n - 1 - 1 = n - 2
  BY <1>1
<1> QED BY <1>2, <1>5, <1>6, <1>7, <1>8, <1>9, <1>10, <1>11 DEF Trail, q

(* A trail from the record that is cited makes one from the citing record. *)
LEMMA TrailComesFrom ==
    ASSUME NEW records \in Seq(Records), NEW cur \in Records, NEW seen \in SUBSET Ids,
           cur.parent \in Ids, cur.parent \notin seen, cur.parent \in IdsOf(records),
           NEW q \in Seq(Ids),
           Trail(records, RecordOf(records, cur.parent), seen \cup {cur.parent}, q)
    PROVE  \E p \in Seq(Ids) : Trail(records, cur, seen, p)
<1> DEFINE n == Len(q)
           p == <<cur.parent>> \o q
           next == RecordOf(records, cur.parent)
<1>1. n \in Nat /\ n > 0 /\ DOMAIN q = 1..n
  BY DEF Trail
<1>2. /\ p \in Seq(Ids)
      /\ Len(p) = n + 1
      /\ p[1] = cur.parent
      /\ \A k \in 1..n : p[k + 1] = q[k]
  <2> DEFINE one == <<cur.parent>>
  <2>1. one \in Seq(Ids) /\ Len(one) = 1 /\ one[1] = cur.parent
    OBVIOUS
  <2> HIDE DEF one
  <2>2. /\ one \o q \in Seq(Ids)
        /\ Len(one \o q) = Len(one) + Len(q)
        /\ \A k \in 1..(Len(one) + Len(q)) :
             (one \o q)[k] = IF k <= Len(one) THEN one[k] ELSE q[k - Len(one)]
    BY <2>1, ConcatProperties
  <2>3. p = one \o q
    BY DEF one
  <2>4. 1 \in 1..(1 + n) /\ 1 + n = n + 1
    BY <1>1
  <2>5. ASSUME NEW k \in 1..n PROVE p[k + 1] = q[k]
    <3>1. k + 1 \in 1..(1 + n) /\ ~(k + 1 <= 1) /\ (k + 1) - 1 = k
      BY <1>1
    <3> QED BY <2>1, <2>2, <2>3, <3>1
  <2> HIDE DEF p
  <2>6. p[1] = cur.parent /\ Len(p) = n + 1 /\ p \in Seq(Ids)
    BY <2>1, <2>2, <2>3, <2>4
  <2> QED BY <2>5, <2>6
<1> HIDE DEF p, n
<1>3. ASSUME NEW k \in 1..(n + 1) PROVE k = 1 \/ (k - 1 \in 1..n /\ p[k] = q[k - 1])
  <2>1. k = 1 \/ (k - 1 \in 1..n /\ (k - 1) + 1 = k)
    BY <1>1
  <2> QED BY <1>2, <2>1
<1>4. DOMAIN p = 1..(n + 1) /\ n + 1 > 0
  BY <1>1, <1>2
<1>5. \A k \in 1..n : q[k] \notin seen /\ q[k] # cur.parent
  BY <1>1 DEF Trail
<1>6. ASSUME NEW k \in 1..(n + 1) PROVE p[k] \notin seen
  BY <1>2, <1>3, <1>5
<1>7. ASSUME NEW k \in 1..(n + 1), NEW l \in 1..(n + 1), p[k] = p[l] PROVE k = l
  <2>1. (k = 1 /\ l = 1) \/ (k # 1 /\ l # 1)
    BY <1>2, <1>3, <1>5, <1>7
  <2>2. CASE k # 1 /\ l # 1
    <3>1. k - 1 \in 1..n /\ l - 1 \in 1..n /\ q[k - 1] = q[l - 1]
      BY <1>3, <1>7, <2>2
    <3>2. k - 1 = l - 1
      BY <1>1, <3>1 DEF Trail
    <3> QED BY <3>2
  <2> QED BY <2>1, <2>2
<1>8. ASSUME NEW k \in 1..n
      PROVE  p[k] \in IdsOf(records) /\ p[k + 1] = RecordOf(records, p[k]).parent
  <2>1. CASE k = 1
    <3>1. q[1] = next.parent
      BY DEF Trail
    <3>2. p[k + 1] = q[1]
      BY <1>2, <2>1
    <3> QED BY <1>2, <2>1, <3>1, <3>2
  <2>2. CASE k # 1
    <3>1. k - 1 \in 1..(n - 1) /\ (k - 1) + 1 = k /\ k - 1 \in 1..n
      BY <1>1, <2>2
    <3>2. q[k - 1] \in IdsOf(records) /\ q[k] = RecordOf(records, q[k - 1]).parent
      BY <3>1 DEF Trail, n
    <3>3. p[k] = q[k - 1] /\ p[k + 1] = q[k]
      BY <1>2, <3>1
    <3> QED BY <3>2, <3>3
  <2> QED BY <2>1, <2>2
<1>9. p[n + 1] \in Altered(records)
  <2>1. n \in 1..n
    BY <1>1
  <2> QED BY <1>2, <2>1 DEF Trail, n
<1>10. (n + 1) - 1 = n
  BY <1>1
<1>11. Trail(records, cur, seen, p)
  BY <1>2, <1>4, <1>6, <1>7, <1>8, <1>9, <1>10 DEF Trail
<1> QED BY <1>2, <1>11

(* There is such a walk: it says whether there is a trail.                 *)
LEMMA WalkExists ==
    ASSUME NEW records \in Seq(Records), Distinct(records)
    PROVE  \E w : Walks(w, records)
<1> DEFINE There(cur, seen) == \E p \in Seq(Ids) : Trail(records, cur, seen, p)
           w == [cur \in Records |-> [seen \in SUBSET Ids |-> There(cur, seen)]]
<1>1. ASSUME NEW cur \in Records, NEW seen \in SUBSET Ids
      PROVE  w[cur][seen] <=> There(cur, seen)
  BY Zenon
<1> HIDE DEF w
<1>2. ASSUME NEW cur \in Records, NEW seen \in SUBSET Ids, There(cur, seen)
      PROVE  Turn(w, records, cur, seen)
  <2>1. PICK p \in Seq(Ids) : Trail(records, cur, seen, p)
    BY <1>2
  <2>2. 1 \in DOMAIN p /\ Len(p) \in DOMAIN p /\ p[1] = cur.parent
    BY <2>1 DEF Trail
  <2>3. cur.parent \in Ids /\ cur.parent # Nil /\ cur.parent \notin seen
    BY <2>1, <2>2, IdAssumption DEF Trail
  <2>4. CASE Len(p) = 1
    <3>1. cur.parent \in Altered(records)
      BY <2>1, <2>2, <2>4 DEF Trail
    <3> QED BY <2>3, <3>1 DEF Turn
  <2>5. CASE Len(p) # 1
    <3> DEFINE next == RecordOf(records, cur.parent)
               passed == seen \cup {cur.parent}
    <3>1. /\ cur.parent \in IdsOf(records)
          /\ Tail(p) \in Seq(Ids)
          /\ Trail(records, next, passed, Tail(p))
      BY <2>1, <2>5, TrailGoesOn
    <3>2. next \in Records /\ passed \in SUBSET Ids
      BY <2>3, <3>1, RecordOfId
    <3> HIDE DEF next, passed
    <3>3. w[next][passed]
      BY <1>1, <3>1, <3>2
    <3> QED BY <2>3, <3>1, <3>3 DEF Turn, next, passed
  <2> QED BY <2>4, <2>5
<1>3. ASSUME NEW cur \in Records, NEW seen \in SUBSET Ids, Turn(w, records, cur, seen)
      PROVE  There(cur, seen)
  <2>1. cur.parent \in Ids /\ cur.parent \notin seen
    BY <1>3 DEF Turn, Records
  <2>2. CASE cur.parent \in Altered(records)
    <3> DEFINE p == <<cur.parent>>
    <3>1. p \in Seq(Ids) /\ Len(p) = 1 /\ p[1] = cur.parent /\ DOMAIN p = {1}
      BY <2>1
    <3> HIDE DEF p
    <3>2. 1..(Len(p) - 1) = {} /\ Len(p) > 0
      BY <3>1
    <3>3. Trail(records, cur, seen, p)
      BY <2>1, <2>2, <3>1, <3>2 DEF Trail
    <3> QED BY <3>1, <3>3
  <2>3. CASE /\ cur.parent \in IdsOf(records)
             /\ w[RecordOf(records, cur.parent)][seen \cup {cur.parent}]
    <3> DEFINE next == RecordOf(records, cur.parent)
               passed == seen \cup {cur.parent}
    <3>1. next \in Records /\ passed \in SUBSET Ids
      BY <2>1, <2>3, RecordOfId
    <3>2. w[next][passed]
      BY <2>3
    <3> HIDE DEF next, passed
    <3>3. PICK q \in Seq(Ids) : Trail(records, next, passed, q)
      BY <1>1, <3>1, <3>2
    <3> QED BY <2>1, <2>3, <3>3, TrailComesFrom DEF next, passed
  <2> QED BY <1>3, <2>2, <2>3 DEF Turn
<1>4. ASSUME NEW cur \in Records, NEW seen \in SUBSET Ids
      PROVE  There(cur, seen) = Turn(w, records, cur, seen)
  <2>1. There(cur, seen) <=> Turn(w, records, cur, seen)
    BY <1>2, <1>3
  <2> QED BY Zenon, <2>1 DEF Turn
<1>5. w = [cur \in Records |-> [seen \in SUBSET Ids |-> Turn(w, records, cur, seen)]]
  <2>1. w = [cur \in Records |-> [seen \in SUBSET Ids |-> There(cur, seen)]]
    BY DEF w
  <2> HIDE DEF There
  <2> QED BY <1>4, <2>1
<1> QED BY <1>5 DEF Walks

LEMMA WalkTurns ==
    ASSUME NEW records, NEW w, Walks(w, records),
           NEW cur \in Records, NEW seen \in SUBSET Ids
    PROVE  w[cur][seen] <=> Turn(w, records, cur, seen)
<1>1. w[cur] = [s \in SUBSET Ids |-> Turn(w, records, cur, s)]
  BY Zenon DEF Walks
<1> QED BY Zenon, <1>1

(* CitesAltered is what some walk says.                                    *)
LEMMA CitesAlteredWalks ==
    ASSUME NEW records \in Seq(Records), Distinct(records), NEW r \in Records
    PROVE  \E w : Walks(w, records) /\ CitesAltered(records, r) = w[r][{}]
<1> DEFINE walk ==
      CHOOSE f : f = [cur \in Records |-> [seen \in SUBSET Ids |->
          /\ cur.parent # Nil
          /\ cur.parent \notin seen
          /\ \/ cur.parent \in Altered(records)
             \/ /\ cur.parent \in IdsOf(records)
                /\ f[RecordOf(records, cur.parent)][seen \cup {cur.parent}]]]
<1>1. Walks(walk, records)
  BY Zenon, WalkExists DEF Walks, Turn
<1>2. CitesAltered(records, r) = walk[r][{}]
  BY DEF CitesAltered
<1> HIDE DEF walk
<1> QED BY <1>1, <1>2

LEMMA IdsOfFinite ==
    ASSUME NEW records \in Seq(Records)
    PROVE  IsFiniteSet(IdsOf(records)) /\ IdsOf(records) \in SUBSET Ids
<1> DEFINE f == [i \in 1..Len(records) |-> records[i].id]
<1>1. f \in Surjection(1..Len(records), IdsOf(records))
  BY DEF Surjection, IdsOf
<1>2. ExistsSurjection(1..Len(records), IdsOf(records))
  BY <1>1 DEF ExistsSurjection
<1>3. IsFiniteSet(IdsOf(records))
  <2>1. Len(records) \in Nat
    OBVIOUS
  <2> QED BY <1>2, <2>1, FS_NatSurjection
<1>4. \A i \in DOMAIN records : records[i].id \in Ids
  <2>1. \A i \in DOMAIN records : records[i] \in Records
    OBVIOUS
  <2> QED BY <2>1 DEF Records
<1> QED BY <1>3, <1>4 DEF IdsOf

(* Each turn sees one more id of the bundle.                               *)
Unseen(records, seen) == Cardinality(IdsOf(records) \ seen)

LEMMA UnseenShrinks ==
    ASSUME NEW records \in Seq(Records), NEW seen, NEW id \in IdsOf(records), id \notin seen
    PROVE  /\ Unseen(records, seen) \in Nat
           /\ Unseen(records, seen \cup {id}) \in Nat
           /\ Unseen(records, seen \cup {id}) < Unseen(records, seen)
<1> DEFINE left == IdsOf(records) \ seen
<1>1. IsFiniteSet(left) /\ id \in left
  <2>1. left \in SUBSET IdsOf(records)
    OBVIOUS
  <2> QED BY <2>1, IdsOfFinite, FS_Subset
<1>2. IdsOf(records) \ (seen \cup {id}) = left \ {id}
  OBVIOUS
<1> HIDE DEF left
<1>3. Cardinality(left) \in Nat
  BY <1>1, FS_CardinalityType
<1>4. IsFiniteSet(left \ {id}) /\ Cardinality(left \ {id}) = Cardinality(left) - 1
  BY <1>1, FS_RemoveElement
<1>5. Cardinality(left \ {id}) \in Nat
  BY <1>4, FS_CardinalityType
<1>6. /\ Unseen(records, seen) = Cardinality(left)
      /\ Unseen(records, seen \cup {id}) = Cardinality(left \ {id})
  BY <1>2 DEF Unseen, left
<1> QED BY <1>3, <1>4, <1>5, <1>6

LEMMA UnseenIsNat ==
    ASSUME NEW records \in Seq(Records), NEW seen
    PROVE  Unseen(records, seen) \in Nat
<1>1. IdsOf(records) \ seen \in SUBSET IdsOf(records)
  OBVIOUS
<1>2. IsFiniteSet(IdsOf(records) \ seen)
  BY <1>1, IdsOfFinite, FS_Subset
<1> QED BY <1>2, FS_CardinalityType DEF Unseen

(* The ancestry holds the parent, and the parents of its own.              *)
LEMMA AncestryClosed ==
    ASSUME NEW records \in Seq(Records), NEW r \in Records
    PROVE  /\ r.parent # Nil => r.parent \in Ancestry(records, r)
           /\ \A i \in DOMAIN records :
                records[i].id \in Ancestry(records, r) /\ records[i].parent # Nil
                  => records[i].parent \in Ancestry(records, r)
<1>1. r.parent # Nil => r.parent \in Ids
  BY DEF Records
<1>2. \A i \in DOMAIN records : records[i].parent # Nil => records[i].parent \in Ids
  <2>1. \A i \in DOMAIN records : records[i] \in Records
    OBVIOUS
  <2> QED BY <2>1 DEF Records
<1> QED BY <1>1, <1>2 DEF Ancestry

(* A walk that finds an altered record finds it in the ancestry.           *)
LEMMA WalkSound ==
    ASSUME NEW records \in Seq(Records), Distinct(records), NEW r \in Records,
           NEW w, Walks(w, records), w[r][{}]
    PROVE  Ancestry(records, r) \cap Altered(records) # {}
<1> DEFINE A == Ancestry(records, r)
           On(cur, seen) == w[cur][seen] /\ (cur.parent = Nil \/ cur.parent \in A)
           T == {n \in Nat : \E cur \in Records, seen \in SUBSET Ids :
                               On(cur, seen) /\ n = Unseen(records, seen)}
<1>1. SUFFICES ASSUME A \cap Altered(records) = {} PROVE FALSE
  OBVIOUS
<1>2. /\ r.parent # Nil => r.parent \in A
      /\ \A i \in DOMAIN records :
           records[i].id \in A /\ records[i].parent # Nil => records[i].parent \in A
  BY AncestryClosed
<1> HIDE DEF A
<1>3. On(r, {})
  BY <1>2
<1>4. ASSUME NEW cur \in Records, NEW seen \in SUBSET Ids, On(cur, seen)
      PROVE  \E next \in Records, passed \in SUBSET Ids :
               /\ On(next, passed)
               /\ Unseen(records, passed) < Unseen(records, seen)
  <2> DEFINE next == RecordOf(records, cur.parent)
             passed == seen \cup {cur.parent}
  <2>1. Turn(w, records, cur, seen)
    BY <1>4, WalkTurns
  <2>2. cur.parent \in A /\ cur.parent \in IdsOf(records) /\ w[next][passed]
    BY <1>1, <1>4, <2>1 DEF Turn
  <2>3. cur.parent \in Ids /\ cur.parent \notin seen
    BY <2>1 DEF Turn, Records
  <2>4. next \in Records /\ next.id = cur.parent
    BY <2>2, RecordOfId
  <2>5. PICK j \in DOMAIN records : records[j].id = cur.parent
    BY <2>2 DEF IdsOf
  <2>6. records[j] = next
    BY <2>2, <2>5, RecordOfId
  <2>7. next.parent = Nil \/ next.parent \in A
    BY <1>2, <2>2, <2>5, <2>6
  <2>8. Unseen(records, passed) < Unseen(records, seen)
    BY <2>2, <2>3, UnseenShrinks
  <2>9. passed \in SUBSET Ids
    BY <2>3
  <2> HIDE DEF next, passed
  <2> QED BY <2>2, <2>4, <2>7, <2>8, <2>9
<1> HIDE DEF On
<1>5. T # {} /\ T \in SUBSET Nat
  <2>1. Unseen(records, {}) \in Nat
    BY UnseenIsNat
  <2>2. Unseen(records, {}) \in T
    BY <1>3, <2>1
  <2> QED BY <2>2
<1>6. PICK m \in T : \A k \in T : m <= k
  BY <1>5, LeastNat
<1>7. PICK cur \in Records, seen \in SUBSET Ids :
        On(cur, seen) /\ m = Unseen(records, seen)
  BY <1>6
<1>8. PICK next \in Records, passed \in SUBSET Ids :
        On(next, passed) /\ Unseen(records, passed) < Unseen(records, seen)
  BY <1>4, <1>7
<1>9. Unseen(records, passed) \in Nat
  BY UnseenIsNat
<1>10. Unseen(records, passed) \in T
  BY <1>8, <1>9
<1> QED BY <1>6, <1>7, <1>8, <1>9, <1>10

(* A set that holds the parents of its own holds the ancestry.             *)
LEMMA AncestryLeast ==
    ASSUME NEW records \in Seq(Records), NEW r \in Records,
           NEW S \in SUBSET (Ids \cup {Nil}), r.parent \in S,
           \A i \in DOMAIN records : records[i].id \in S => records[i].parent \in S
    PROVE  Ancestry(records, r) \subseteq S
BY DEF Ancestry

(* A walk that finds none has been wherever the chain leads.               *)
LEMMA WalkComplete ==
    ASSUME NEW records \in Seq(Records), Distinct(records), NEW r \in Records,
           NEW w, Walks(w, records), ~w[r][{}]
    PROVE  Ancestry(records, r) \cap Altered(records) = {}
<1> DEFINE A == Ancestry(records, r)
           Behind(cur, seen) ==
             /\ ~w[cur][seen]
             /\ seen \cap Altered(records) = {}
             /\ r.parent \in seen \cup {cur.parent}
             /\ \A i \in DOMAIN records :
                  records[i].id \in seen => records[i].parent \in seen \cup {cur.parent}
           T == {n \in Nat : \E cur \in Records, seen \in SUBSET Ids :
                               Behind(cur, seen) /\ n = Unseen(records, seen)}
<1>1. SUFFICES ASSUME NEW x \in A, x \in Altered(records) PROVE FALSE
  OBVIOUS
<1>2. A \subseteq Ids
  BY DEF Ancestry
<1>3. \A i \in DOMAIN records : records[i].id \in Ids /\ records[i] \in Records
  <2>1. \A i \in DOMAIN records : records[i] \in Records
    OBVIOUS
  <2> QED BY <2>1 DEF Records
<1>4. Behind(r, {})
  OBVIOUS
<1>5. ASSUME NEW cur \in Records, NEW seen \in SUBSET Ids, Behind(cur, seen)
      PROVE  \E next \in Records, passed \in SUBSET Ids :
               /\ Behind(next, passed)
               /\ Unseen(records, passed) < Unseen(records, seen)
  <2> DEFINE parent == cur.parent
             S == seen \cup {parent}
             next == RecordOf(records, parent)
  <2>1. ~Turn(w, records, cur, seen)
    BY <1>5, WalkTurns
  <2>2. parent \in Ids \cup {Nil} /\ S \in SUBSET (Ids \cup {Nil})
    BY DEF Records
  <2>3. \/ \E i \in DOMAIN records : records[i].id \in S /\ records[i].parent \notin S
        \/ parent # Nil /\ parent \in Altered(records)
    <3>1. SUFFICES ASSUME \A i \in DOMAIN records :
                            records[i].id \in S => records[i].parent \in S
                   PROVE  parent # Nil /\ parent \in Altered(records)
      OBVIOUS
    <3>2. r.parent \in S
      BY <1>5
    <3>3. x \in S
      BY <2>2, <3>1, <3>2, AncestryLeast
    <3>4. x = parent
      BY <1>1, <1>5, <3>3
    <3> QED BY <1>1, <1>2, <3>4, IdAssumption
  <2>4. parent # Nil /\ parent \notin seen
    <3>1. CASE parent = Nil
      <4>1. \A i \in DOMAIN records : records[i].id \in S => records[i].id \in seen
        BY <1>3, <3>1, IdAssumption
      <4> QED BY <1>5, <2>3, <3>1, <4>1
    <3>2. CASE parent \in seen
      <4>1. S = seen /\ parent \notin Altered(records)
        BY <1>5, <3>2
      <4> QED BY <1>5, <2>3, <4>1
    <3> QED BY <3>1, <3>2
  <2>5. parent \notin Altered(records)
    BY <2>1, <2>4 DEF Turn
  <2>6. parent \in IdsOf(records)
    <3>1. PICK i \in DOMAIN records : records[i].id \in S /\ records[i].parent \notin S
      BY <2>3, <2>5
    <3>2. records[i].id = parent
      BY <1>5, <3>1
    <3> QED BY <3>2 DEF IdsOf
  <2>7. ~w[next][S]
    BY <2>1, <2>4, <2>6 DEF Turn
  <2>8. next \in Records /\ \A j \in DOMAIN records : records[j].id = parent => records[j] = next
    BY <2>6, RecordOfId
  <2>9. Behind(next, S)
    <3>1. S \cap Altered(records) = {} /\ r.parent \in S \cup {next.parent}
      BY <1>5, <2>5
    <3>2. ASSUME NEW i \in DOMAIN records, records[i].id \in S
          PROVE  records[i].parent \in S \cup {next.parent}
      BY <1>5, <2>8, <3>2
    <3> QED BY <2>7, <3>1, <3>2
  <2>10. Unseen(records, S) < Unseen(records, seen)
    BY <2>4, <2>6, UnseenShrinks
  <2>11. S \in SUBSET Ids
    BY <2>2, <2>4
  <2> HIDE DEF next, S, Behind
  <2> QED BY <2>8, <2>9, <2>10, <2>11
<1> HIDE DEF Behind
<1>6. T # {} /\ T \in SUBSET Nat
  <2>1. Unseen(records, {}) \in Nat
    BY UnseenIsNat
  <2>2. Unseen(records, {}) \in T
    BY <1>4, <2>1
  <2> QED BY <2>2
<1>7. PICK m \in T : \A k \in T : m <= k
  BY <1>6, LeastNat
<1>8. PICK cur \in Records, seen \in SUBSET Ids :
        Behind(cur, seen) /\ m = Unseen(records, seen)
  BY <1>7
<1>9. PICK next \in Records, passed \in SUBSET Ids :
        Behind(next, passed) /\ Unseen(records, passed) < Unseen(records, seen)
  BY <1>5, <1>8
<1>10. Unseen(records, passed) \in Nat
  BY UnseenIsNat
<1>11. Unseen(records, passed) \in T
  BY <1>9, <1>10
<1> QED BY <1>7, <1>8, <1>9, <1>10, <1>11

(* The chain leads to an altered record exactly when the walk says so.     *)
LEMMA WalkExact ==
    ASSUME NEW records \in Seq(Records), Distinct(records), NEW r \in Records
    PROVE  CitesAltered(records, r) <=> Ancestry(records, r) \cap Altered(records) # {}
<1>1. PICK w : Walks(w, records) /\ CitesAltered(records, r) = w[r][{}]
  BY CitesAlteredWalks
<1>2. CASE w[r][{}]
  BY <1>1, <1>2, WalkSound
<1>3. CASE ~w[r][{}]
  BY <1>1, <1>3, WalkComplete
<1> QED BY <1>2, <1>3

(* What is on the way holds no id twice.                                   *)
LEMMA CarriedDistinct ==
    ASSUME HandInv, carried # Nil
    PROVE  carried.records \in Seq(Records) /\ Distinct(carried.records)
<1> DEFINE made == cli.bundle.records
           kept == carried.records
<1>1. /\ cli.bundle \in Bundles /\ Made(cli.bundle) /\ carried \in Bundles
      /\ dropped \in 0..Len(made)
      /\ Len(kept) = IF dropped = 0 THEN Len(made) ELSE Len(made) - 1
      /\ \A i \in DOMAIN kept : kept[i].id = made[Place(i)].id
  BY DEF HandInv, CarryInv, CliInv, DoneInv
<1>2. made \in Seq(Records) /\ kept \in Seq(Records)
  BY <1>1 DEF Bundles
<1>3. \A i, j \in DOMAIN made : made[i].id = made[j].id => i = j
  BY <1>1 DEF Made, Distinct
<1> HIDE DEF made, kept
<1>4. /\ Len(made) \in Nat /\ DOMAIN made = 1..Len(made)
      /\ DOMAIN kept = 1..(IF dropped = 0 THEN Len(made) ELSE Len(made) - 1)
  BY <1>1, <1>2 DEF kept, made
<1>5. dropped \in Int
  BY <1>1, <1>4 DEF made
<1>6. ASSUME NEW i \in DOMAIN kept, NEW j \in DOMAIN kept, kept[i].id = kept[j].id
      PROVE  i = j
  <2>1. Place(i) \in DOMAIN made /\ Place(j) \in DOMAIN made
    BY <1>4, <1>5 DEF Place
  <2>2. made[Place(i)].id = made[Place(j)].id
    BY <1>1, <1>6 DEF kept, made
  <2>3. Place(i) = Place(j)
    BY <1>3, <2>1, <2>2
  <2> QED BY <1>4, <1>5, <2>3 DEF Place
<1> QED BY <1>2, <1>6 DEF Distinct, kept

(* The table marks a record as citing an altered one exactly when its      *)
(* chain leads to one, over any number of links, through gaps and loops    *)
(* (offline_shell.html:931-958).                                           *)
THEOREM CitesAreExact == Spec => []CitesExact
<1>1. ASSUME HandInv, carried # Nil, NEW i \in DOMAIN carried.records
      PROVE  LET r == carried.records[i] IN
             AnnotateRecord(carried.records, r) = "verifies" <=>
                /\ r.intact
                /\ \A j \in DOMAIN carried.records :
                     carried.records[j].id \in Ancestry(carried.records, r)
                       => carried.records[j].intact
  <2> DEFINE kept == carried.records
             r == kept[i]
             A == Ancestry(kept, r)
  <2>1. kept \in Seq(Records) /\ Distinct(kept)
    BY <1>1, CarriedDistinct
  <2>2. r \in Records
    BY <2>1
  <2>3. CitesAltered(kept, r) <=> A \cap Altered(kept) # {}
    BY <2>1, <2>2, WalkExact
  <2>4. \A id : id \in Altered(kept) <=> \E j \in DOMAIN kept : kept[j].id = id /\ ~kept[j].intact
    BY DEF Altered, VerifyCapsuleId, CapMismatched
  <2>5. r.id \in Altered(kept) <=> ~r.intact
    BY <1>1, <2>1, <2>4 DEF Distinct
  <2>6. AnnotateRecord(kept, r) = "verifies"
          <=> r.id \notin Altered(kept) /\ ~CitesAltered(kept, r)
    BY DEF AnnotateRecord
  <2>7. A \cap Altered(kept) = {}
          <=> \A j \in DOMAIN kept : kept[j].id \in A => kept[j].intact
    BY <2>4
  <2> HIDE DEF kept, r, A
  <2>8. AnnotateRecord(kept, r) = "verifies"
          <=> r.intact /\ \A j \in DOMAIN kept : kept[j].id \in A => kept[j].intact
    BY <2>3, <2>5, <2>6, <2>7
  <2> QED BY <2>8 DEF kept, r, A
<1>2. HandInv => CitesExact
  BY <1>1 DEF CitesExact
<1> QED BY <1>2, HandInvariance, PTL

=============================================================================
