---------------------------- MODULE GatesProofs ----------------------------
(***************************************************************************)
(* What the gates promise of every repository, every number of pull        *)
(* requests and of pushes: Gates!TypeOK, NoFalseBounce and                 *)
(* BlockedNeverGrows, as theorems of Spec.                                 *)
(***************************************************************************)
EXTENDS Gates, SequenceTheorems, WellFoundedInduction, TLAPS

(* The files that the bucket gate would name of a pull request.            *)
Offenders(r) ==
    {path \in Paths : /\ r.head[path] # r.base[path]
                      /\ r.head[path] # Absent
                      /\ path \in Blocked \ Quoted}

(* A pull request has not begun, is open or has passed; what it differs in *)
(* from its merge base was written in it, or removed; and its verdict is   *)
(* about the head and the merge base it has.                               *)
Sound(r) ==
    /\ r.open \/ r = NoPull \/ (r.scope = 0 /\ r.neutrality = 0)
    /\ \A path \in Paths : r.head[path] # r.base[path] =>
         r.head[path] = Absent \/ path \in r.written
    /\ r.scope = 0 => Offenders(r) = {}
    /\ r.scope = 1 => Offenders(r) # {}

PullRecords == [open : BOOLEAN, base : Trees, head : Trees,
                written : SUBSET Paths, pushes : 0..MaxPushes,
                scope : {Pending, 0, 1}, neutrality : {Pending, 0, 1, 2}]

GatesInv ==
    /\ main \in Trees
    /\ secret \in Secrets
    /\ pull \in [Pulls -> PullRecords]
    /\ \A p \in Pulls : Sound(pull[p])

-----------------------------------------------------------------------------

(* A three-way merge of trees is a tree (the merge of neutrality.yml and   *)
(* bucket-scope-gate.yml's pull requests).                                 *)
LEMMA MergedIsTree ==
    ASSUME GatesInv, NEW p \in Pulls
    PROVE  Merged(p) \in Trees
<1>1. main \in Trees /\ pull[p].head \in Trees
  BY DEF GatesInv, PullRecords
<1> QED BY <1>1 DEF Merged, Trees

(* What bucket_scope_gate.py names is a matter of the pull request alone.  *)
LEMMA OffendersOf == ASSUME NEW p \in Pulls PROVE ScopeOffenders(p) = Offenders(pull[p])
<1> QED BY DEF ScopeOffenders, ChangedFiles, Offenders

(* A pull request from a tree is one, and differs from it in nothing.      *)
LEMMA PullFromTree ==
    ASSUME NEW tree \in Trees, NEW open \in BOOLEAN
    PROVE  /\ PullFrom(tree, open) \in PullRecords
           /\ open => Sound(PullFrom(tree, open))
<1> QED BY MaxPushesAssumption DEF PullFrom, PullRecords, Sound, Pending

(* The initial states satisfy the invariant.                               *)
LEMMA InitInv == Init => GatesInv
<1> SUFFICES ASSUME Init PROVE GatesInv
  OBVIOUS
<1>1. NoPull \in PullRecords
  <2>1. [path \in Paths |-> Absent] \in Trees
    BY DEF Trees
  <2> QED BY <2>1, PullFromTree DEF NoPull
<1>2. Sound(NoPull)
  BY DEF NoPull, PullFrom, Sound, Pending
<1> QED BY <1>1, <1>2 DEF Init, GatesInv

(* One pull request changes and the rest stay: what has to be shown then.  *)
LEMMA OneChanges ==
    ASSUME GatesInv, main' \in Trees, secret' = secret,
           NEW p \in Pulls, NEW r \in PullRecords, Sound(r),
           pull' = [pull EXCEPT ![p] = r]
    PROVE  GatesInv'
<1>1. pull' \in [Pulls -> PullRecords] /\ pull'[p] = r
  BY DEF GatesInv
<1>2. \A q \in Pulls : q # p => pull'[q] = pull[q]
  BY DEF GatesInv
<1>3. \A q \in Pulls : Sound(pull'[q])
  BY <1>1, <1>2 DEF GatesInv
<1> QED BY <1>1, <1>3 DEF GatesInv

(* A pull request is opened: it does not differ from its merge base.       *)
LEMMA OpenKeepsInv == ASSUME GatesInv, NEW p \in Pulls, Open(p) PROVE GatesInv'
<1>1. main' \in Trees /\ main \in Trees /\ secret' = secret
  BY DEF GatesInv, Open
<1>2. pull' = [pull EXCEPT ![p] = PullFrom(main, TRUE)]
  BY DEF Open
<1>3. PullFrom(main, TRUE) \in PullRecords /\ Sound(PullFrom(main, TRUE))
  BY <1>1, PullFromTree
<1> QED BY <1>1, <1>2, <1>3, OneChanges

(* A push is written down, and takes the verdicts back.                    *)
LEMMA PushKeepsInv == ASSUME GatesInv, NEW p \in Pulls, Push(p) PROVE GatesInv'
<1>1. PICK path \in Paths, line \in Lines \cup {Absent} :
        pull' = [pull EXCEPT
              ![p].head[path] = line,
              ![p].written    = IF line = Absent THEN @ ELSE @ \cup {path},
              ![p].pushes     = @ + 1,
              ![p].scope      = Pending,
              ![p].neutrality = Pending]
  BY DEF Push
<1> DEFINE
      old == pull[p]
      r == [open |-> old.open, base |-> old.base,
            head |-> [old.head EXCEPT ![path] = line],
            written |-> IF line = Absent THEN old.written ELSE old.written \cup {path},
            pushes |-> old.pushes + 1, scope |-> Pending, neutrality |-> Pending]
<1>2. old \in PullRecords /\ pull \in [Pulls -> PullRecords] /\ Sound(old)
  BY DEF GatesInv
<1>3. pull' = [pull EXCEPT ![p] = r]
  BY <1>1, <1>2 DEF PullRecords
<1>4. main' \in Trees /\ secret' = secret /\ old.open /\ old.pushes < MaxPushes
  BY DEF GatesInv, Push
<1>5. r \in PullRecords
  BY <1>2, <1>4, MaxPushesAssumption DEF PullRecords, Trees, Pending
<1>6. Sound(r)
  BY <1>2, <1>4 DEF PullRecords, Trees, Sound, Pending
<1> HIDE DEF r, old
<1> QED BY <1>3, <1>4, <1>5, <1>6, OneChanges

(* The base branch is merged in: the merge base moves on, and what differs *)
(* from it differed before.                                                *)
LEMMA UpdateKeepsInv ==
    ASSUME GatesInv, NEW p \in Pulls, UpdateBranch(p) PROVE GatesInv'
<1> DEFINE
      old == pull[p]
      r == [open |-> old.open, base |-> main, head |-> Merged(p),
            written |-> old.written, pushes |-> old.pushes,
            scope |-> Pending, neutrality |-> Pending]
<1>1. old \in PullRecords /\ pull \in [Pulls -> PullRecords] /\ Sound(old)
  BY DEF GatesInv
<1>2. pull' = [pull EXCEPT ![p] = r]
  BY <1>1 DEF UpdateBranch, PullRecords
<1>3. main \in Trees /\ main' = main /\ secret' = secret /\ old.open
  BY DEF GatesInv, UpdateBranch
<1>4. r \in PullRecords
  BY <1>1, <1>3, MergedIsTree DEF PullRecords, Pending
<1>5. Sound(r)
  BY <1>1, <1>3 DEF Sound, Merged, Pending
<1> HIDE DEF r, old
<1> QED BY <1>2, <1>3, <1>4, <1>5, OneChanges

(* The bucket gate looks at the head and the merge base there are.         *)
LEMMA ScopeKeepsInv == ASSUME GatesInv, NEW p \in Pulls, ScopeGate(p) PROVE GatesInv'
<1> DEFINE
      old == pull[p]
      verdict == IF Offenders(old) = {} THEN 0 ELSE 1
      r == [old EXCEPT !.scope = verdict]
<1>1. old \in PullRecords /\ pull \in [Pulls -> PullRecords] /\ Sound(old)
  BY DEF GatesInv
<1>2. pull' = [pull EXCEPT ![p].scope = verdict]
  BY OffendersOf DEF ScopeGate
<1> HIDE DEF verdict
<1>3. pull' = [pull EXCEPT ![p] = r]
  BY <1>1, <1>2
<1>4. main' \in Trees /\ secret' = secret /\ old.open
  BY DEF GatesInv, ScopeGate
<1>5. verdict \in {0, 1} /\ (verdict = 0 <=> Offenders(old) = {})
  BY DEF verdict
<1>6. r \in PullRecords
  BY <1>1, <1>5 DEF PullRecords
<1>7. /\ r.open /\ r.base = old.base /\ r.head = old.head
      /\ r.written = old.written /\ r.scope = verdict
  BY <1>1, <1>4 DEF PullRecords
<1> HIDE DEF r, old
<1>8. Offenders(r) = Offenders(old)
  BY <1>7 DEF Offenders
<1>9. Sound(r)
  BY <1>1, <1>5, <1>7, <1>8 DEF Sound
<1> QED BY <1>3, <1>4, <1>6, <1>9, OneChanges

(* The neutrality gate touches nothing that the bucket gate looks at.      *)
LEMMA NeutralityKeepsInv ==
    ASSUME GatesInv, NEW p \in Pulls, NeutralityGate(p) PROVE GatesInv'
<1>1. PICK s : pull' = [pull EXCEPT ![p].neutrality = NeutralityExit(s, pull[p].head)]
  BY DEF NeutralityGate
<1> DEFINE
      old == pull[p]
      verdict == NeutralityExit(s, pull[p].head)
      r == [old EXCEPT !.neutrality = verdict]
<1>2. old \in PullRecords /\ pull \in [Pulls -> PullRecords] /\ Sound(old)
  BY DEF GatesInv
<1>3. verdict \in {0, 1, 2}
  BY DEF NeutralityExit
<1> HIDE DEF verdict
<1>4. pull' = [pull EXCEPT ![p] = r]
  BY <1>1, <1>2 DEF verdict
<1>5. main' \in Trees /\ secret' = secret /\ old.open
  BY DEF GatesInv, NeutralityGate
<1>6. r \in PullRecords
  BY <1>2, <1>3 DEF PullRecords
<1>7. /\ r.open /\ r.base = old.base /\ r.head = old.head
      /\ r.written = old.written /\ r.scope = old.scope
  BY <1>2, <1>5 DEF PullRecords
<1> HIDE DEF r, old
<1>8. Offenders(r) = Offenders(old)
  BY <1>7 DEF Offenders
<1>9. Sound(r)
  BY <1>2, <1>7, <1>8 DEF Sound
<1> QED BY <1>4, <1>5, <1>6, <1>9, OneChanges

(* A merge closes the pull request, which has passed both checks.          *)
LEMMA MergeKeepsInv == ASSUME GatesInv, NEW p \in Pulls, MergePull(p) PROVE GatesInv'
<1> DEFINE
      old == pull[p]
      r == [old EXCEPT !.open = FALSE]
<1>1. old \in PullRecords /\ pull \in [Pulls -> PullRecords] /\ Sound(old)
  BY DEF GatesInv
<1>2. pull' = [pull EXCEPT ![p] = r]
  BY <1>1 DEF MergePull
<1>3. main' \in Trees /\ secret' = secret
  BY MergedIsTree DEF MergePull
<1>4. old.scope = 0 /\ old.neutrality = 0
  BY DEF MergePull
<1>5. r \in PullRecords
  BY <1>1 DEF PullRecords
<1>6. /\ r.scope = 0 /\ r.neutrality = 0 /\ r.base = old.base
      /\ r.head = old.head /\ r.written = old.written
  BY <1>1, <1>4 DEF PullRecords
<1> HIDE DEF r, old
<1>7. Offenders(r) = Offenders(old)
  BY <1>6 DEF Offenders
<1>8. Sound(r)
  BY <1>1, <1>4, <1>6, <1>7 DEF Sound
<1> QED BY <1>2, <1>3, <1>5, <1>8, OneChanges

(* Every step keeps the invariant.                                         *)
LEMMA NextKeepsInv == GatesInv /\ [Next]_vars => GatesInv'
<1> SUFFICES ASSUME GatesInv, [Next]_vars PROVE GatesInv'
  OBVIOUS
<1>1. CASE UNCHANGED vars
  BY <1>1 DEF vars, GatesInv
<1>2. CASE Next
  BY <1>2, OpenKeepsInv, PushKeepsInv, UpdateKeepsInv, ScopeKeepsInv,
     NeutralityKeepsInv, MergeKeepsInv DEF Next
<1> QED BY <1>1, <1>2

(* The invariant holds in every reachable state.                           *)
THEOREM Invariance == Spec => []GatesInv
<1> QED BY InitInv, NextKeepsInv, PTL DEF Spec

-----------------------------------------------------------------------------

(* Branches are trees, verdicts are exit codes, and what was merged has    *)
(* passed both gates.                                                      *)
THEOREM TypeCorrect == Spec => []TypeOK
<1>1. GatesInv => TypeOK
  BY DEF GatesInv, TypeOK, PullRecords, Sound
<1> QED BY <1>1, Invariance, PTL

(* Nobody is bounced for what happened on the base branch                  *)
(* (bucket_scope_gate.py:33-35, 173-185).                                  *)
THEOREM BouncesFair == Spec => []NoFalseBounce
<1>1. GatesInv => NoFalseBounce
  <2> SUFFICES ASSUME GatesInv, NEW p \in Pulls, pull[p].scope = 1
               PROVE  pull[p].written \cap (Blocked \ Quoted) # {}
    BY DEF NoFalseBounce
  <2>1. PICK path \in Offenders(pull[p]) : TRUE
    BY DEF GatesInv, Sound
  <2>2. /\ path \in Paths /\ pull[p].head[path] # pull[p].base[path]
        /\ pull[p].head[path] # Absent /\ path \in Blocked \ Quoted
    BY <2>1 DEF Offenders
  <2>3. path \in pull[p].written
    BY <2>2 DEF GatesInv, Sound
  <2> QED BY <2>2, <2>3
<1> QED BY <1>1, Invariance, PTL

(* Nothing new lands on a path that has moved out, whatever order pull     *)
(* requests are checked, updated and merged in                             *)
(* (bucket_scope_gate.py:173-211).                                         *)
THEOREM NothingGrows == Spec => BlockedNeverGrows
<1>1. GatesInv /\ [Next]_vars =>
        [\A path \in Blocked \ Quoted : main'[path] \in {main[path], Absent}]_vars
  <2> SUFFICES ASSUME GatesInv, Next, NEW path \in Blocked \ Quoted
               PROVE  main'[path] \in {main[path], Absent}
    BY DEF vars
  <2>1. path \in Paths
    BY PathsAssumption
  <2>2. CASE main' = main
    BY <2>2
  <2>3. ASSUME NEW p \in Pulls, MergePull(p) PROVE main'[path] \in {main[path], Absent}
    <3>1. Offenders(pull[p]) = {}
      BY <2>3 DEF MergePull, GatesInv, Sound
    <3>2. pull[p].head[path] = pull[p].base[path] \/ pull[p].head[path] = Absent
      BY <2>1, <3>1 DEF Offenders
    <3>3. main'[path] = IF pull[p].head[path] = pull[p].base[path]
                        THEN main[path] ELSE pull[p].head[path]
      BY <2>1, <2>3 DEF MergePull, Merged
    <3> QED BY <3>2, <3>3
  <2>4. main' = main \/ \E p \in Pulls : MergePull(p)
    BY DEF Next, Open, Push, UpdateBranch, ScopeGate, NeutralityGate
  <2> QED BY <2>2, <2>3, <2>4
<1> QED BY <1>1, Invariance, PTL DEF Spec, BlockedNeverGrows

-----------------------------------------------------------------------------
(* The scanner                                                             *)

LEMMA LeastNat ==
    ASSUME NEW T \in SUBSET Nat, T # {}
    PROVE  \E m \in T : \A k \in T : m <= k
<1> DEFINE R == OpToRel(<, Nat)
<1>1. IsWellFoundedOn(R, Nat)
  BY NatLessThanWellFounded
<1>2. \A x, y \in Nat : y < x => <<y, x>> \in R
  BY Zenon DEF OpToRel
<1> HIDE DEF R
<1>3. PICK m \in T : \A y \in T : ~ (<<y, m>> \in R)
  BY <1>1, WFMin
<1>4. ASSUME NEW k \in T PROVE m <= k
  <2>1. m \in Nat /\ k \in Nat
    OBVIOUS
  <2>2. ~(k < m)
    BY <1>2, <1>3, <2>1
  <2> QED BY <2>1, <2>2
<1> QED BY <1>4

LEMMA GreatestBelow ==
    ASSUME NEW n \in Nat, NEW T \in SUBSET (1..n), T # {}
    PROVE  \E m \in T : \A k \in T : k <= m
<1> DEFINE U == {n - k : k \in T}
<1>1. U \in SUBSET Nat /\ U # {}
  <2>1. ASSUME NEW k \in T PROVE n - k \in Nat
    <3>1. k \in 1..n
      OBVIOUS
    <3> QED BY <3>1
  <2> QED BY <2>1
<1>2. PICK u \in U : \A v \in U : u <= v
  BY <1>1, LeastNat
<1>3. PICK m \in T : u = n - m
  OBVIOUS
<1>4. ASSUME NEW k \in T PROVE k <= m
  <2>1. n - k \in U /\ k \in Int /\ m \in Int
    OBVIOUS
  <2>2. n - m <= n - k
    BY <1>2, <1>3, <2>1
  <2> QED BY <2>1, <2>2
<1> QED BY <1>4

LEMMA SecretFacts ==
    ASSUME NEW s \in Secrets
    PROVE  /\ s # Unset
           /\ s.substring \in Seq(Texts) /\ s.word \in Seq(Texts)
           /\ Terms(s) \in Seq(Texts)
           /\ Len(Terms(s)) = Len(s.substring) + Len(s.word)
           /\ \A k \in 1..Len(s.substring) : Terms(s)[k] = s.substring[k]
           /\ \A k \in 1..Len(s.word) : Terms(s)[Len(s.substring) + k] = s.word[k]
           /\ \A k \in DOMAIN Terms(s) :
                k > Len(s.substring) => \E l \in DOMAIN s.word : Terms(s)[k] = s.word[l]
<1> DEFINE a == s.substring
           b == s.word
<1>1. s # Unset /\ a \in Seq(Texts) /\ b \in Seq(Texts)
  BY SecretsAssumption
<1> HIDE DEF a, b
<1>2. /\ a \o b \in Seq(Texts)
      /\ Len(a \o b) = Len(a) + Len(b)
      /\ \A k \in 1..(Len(a) + Len(b)) :
           (a \o b)[k] = IF k <= Len(a) THEN a[k] ELSE b[k - Len(a)]
  BY <1>1, ConcatProperties
<1>3. Len(a) \in Nat /\ Len(b) \in Nat
  BY <1>1
<1>4. Terms(s) = a \o b
  BY DEF Terms, a, b
<1>5. ASSUME NEW k \in 1..Len(a) PROVE Terms(s)[k] = a[k]
  <2>1. k \in 1..(Len(a) + Len(b)) /\ k <= Len(a)
    BY <1>3
  <2> QED BY <1>2, <1>4, <2>1
<1>6. ASSUME NEW k \in 1..Len(b) PROVE Terms(s)[Len(a) + k] = b[k]
  <2>1. /\ Len(a) + k \in 1..(Len(a) + Len(b)) /\ ~(Len(a) + k <= Len(a))
        /\ (Len(a) + k) - Len(a) = k
    BY <1>3
  <2> QED BY <1>2, <1>4, <2>1
<1>7. ASSUME NEW k \in DOMAIN Terms(s), k > Len(a)
      PROVE  \E l \in DOMAIN b : Terms(s)[k] = b[l]
  <2>1. DOMAIN Terms(s) = 1..(Len(a) + Len(b)) /\ DOMAIN b = 1..Len(b)
    BY <1>1, <1>2, <1>4
  <2>2. k - Len(a) \in 1..Len(b) /\ ~(k <= Len(a))
    BY <1>3, <1>7, <2>1
  <2> QED BY <1>2, <1>4, <1>7, <2>1, <2>2
<1> QED BY <1>1, <1>2, <1>4, <1>5, <1>6, <1>7 DEF a, b

(* A text that stands at i, character by character.                        *)
LEMMA TermAtChars ==
    ASSUME NEW line \in Seq(STRING), NEW i \in DOMAIN line, NEW text \in Seq(STRING),
           text # <<>>
    PROVE  /\ Len(text) \in Nat \ {0}
           /\ TermAt(line, i, text) <=>
                /\ i + Len(text) <= Len(line) + 1
                /\ \A k \in 1..Len(text) : line[i + k - 1] = text[k]
<1> DEFINE n == Len(text)
           m == i + n - 1
           part == SubSeq(line, i, m)
<1>1. n \in Nat \ {0} /\ i \in 1..Len(line) /\ Len(line) \in Nat
  OBVIOUS
<1>2. CASE m <= Len(line)
  <2>1. /\ part \in Seq(STRING) /\ Len(part) = n
        /\ \A k \in 1..n : part[k] = line[i + k - 1]
    <3>1. part = [k \in 1..(m - i + 1) |-> line[i + k - 1]]
      BY <1>1, <1>2
    <3>2. m - i + 1 = n
      BY <1>1
    <3>3. part = [k \in 1..n |-> line[i + k - 1]]
      BY <3>1, <3>2
    <3>4. ASSUME NEW k \in 1..n PROVE line[i + k - 1] \in STRING
      <4>1. i + k - 1 \in 1..Len(line)
        BY <1>1, <1>2
      <4> QED BY <4>1
    <3> HIDE DEF part
    <3> QED BY <1>1, <3>3, <3>4
  <2>2. part = text <=> \A k \in 1..n : part[k] = text[k]
    <3> HIDE DEF part, m
    <3> QED BY <1>1, <2>1
  <2>3. TermAt(line, i, text) <=> part = text
    BY <1>2 DEF TermAt
  <2>4. i + n <= Len(line) + 1
    BY <1>1, <1>2
  <2> HIDE DEF part
  <2> QED BY <1>1, <2>1, <2>2, <2>3, <2>4
<1>3. CASE ~(m <= Len(line))
  <2>1. ~(i + n <= Len(line) + 1)
    BY <1>1, <1>3
  <2>2. ~TermAt(line, i, text)
    BY <1>3 DEF TermAt
  <2> QED BY <1>1, <2>1, <2>2
<1> QED BY <1>2, <1>3

(* A text with word boundaries at its ends.                                *)
IsWord(text) == text[1] # " " /\ text[Len(text)] # " "

(* At the ends of a word \b says what the schema says.                     *)
LEMMA WordBoundaries ==
    ASSUME NEW line \in Seq(STRING), NEW i \in DOMAIN line, NEW text \in Texts,
           IsWord(text), TermAt(line, i, text)
    PROVE  /\ Boundary(line, i) <=> (i = 1 \/ line[i - 1] = " ")
           /\ Boundary(line, i + Len(text)) <=>
                (i + Len(text) = Len(line) + 1 \/ line[i + Len(text)] = " ")
<1> DEFINE n == Len(text)
           e == i + n
<1>1. /\ n \in Nat \ {0}
      /\ e <= Len(line) + 1
      /\ \A k \in 1..n : line[i + k - 1] = text[k]
  BY TermAtChars DEF Texts
<1>2. Len(line) \in Nat /\ DOMAIN line = 1..Len(line) /\ i \in 1..Len(line)
  OBVIOUS
<1>3. 1 \in 1..n /\ n \in 1..n /\ i + 1 - 1 = i /\ i + n - 1 = e - 1
  BY <1>1, <1>2
<1>4. line[i] # " " /\ line[e - 1] # " "
  BY <1>1, <1>3 DEF IsWord
<1>5. InWord(line, i)
  BY <1>4 DEF InWord
<1>6. e - 1 \in DOMAIN line
  BY <1>1, <1>2
<1>7. InWord(line, e - 1)
  BY <1>4, <1>6 DEF InWord
<1>8. i - 1 \in DOMAIN line <=> i # 1
  BY <1>2
<1>9. e \in DOMAIN line <=> e # Len(line) + 1
  BY <1>1, <1>2
<1>10. ~InWord(line, i - 1) <=> (i = 1 \/ line[i - 1] = " ")
  BY <1>8 DEF InWord
<1>11. ~InWord(line, e) <=> (e = Len(line) + 1 \/ line[e] = " ")
  BY <1>9 DEF InWord
<1>12. Boundary(line, i) <=> ~InWord(line, i - 1)
  BY <1>5 DEF Boundary, InWord
<1>13. Boundary(line, e) <=> ~InWord(line, e)
  BY <1>7 DEF Boundary, InWord
<1> QED BY <1>10, <1>11, <1>12, <1>13

(* The pattern matches at i what the schema reserves there.                *)
LEMMA AlternativesReserved ==
    ASSUME NEW s \in Secrets, NEW line \in Seq(STRING), NEW i \in DOMAIN line
    PROVE  /\ \A k \in Alternatives(s, line, i) : Terms(s)[k] \in ReservedAt(s, line, i)
           /\ Alternatives(s, line, i) = {} => ReservedAt(s, line, i) = {}
<1>1. /\ s.substring \in Seq(Texts) /\ s.word \in Seq(Texts)
      /\ Terms(s) \in Seq(Texts)
      /\ Len(Terms(s)) = Len(s.substring) + Len(s.word)
      /\ \A k \in 1..Len(s.substring) : Terms(s)[k] = s.substring[k]
      /\ \A k \in 1..Len(s.word) : Terms(s)[Len(s.substring) + k] = s.word[k]
      /\ \A k \in DOMAIN Terms(s) :
           k > Len(s.substring) => \E l \in DOMAIN s.word : Terms(s)[k] = s.word[l]
  BY SecretFacts
<1>2. \A l \in DOMAIN s.word :
        s.word[l] \in Texts /\ IsWord(s.word[l])
  <2>1. \A l \in DOMAIN s.word : s.word[l] \in Texts
    BY <1>1
  <2>2. \A l \in DOMAIN s.word :
          s.word[l][1] # " " /\ s.word[l][Len(s.word[l])] # " "
    BY Zenon, SecretsAssumption
  <2> QED BY Zenon, <2>1, <2>2 DEF IsWord
<1>3. /\ Len(s.substring) \in Nat /\ Len(s.word) \in Nat
      /\ DOMAIN s.substring = 1..Len(s.substring) /\ DOMAIN s.word = 1..Len(s.word)
      /\ DOMAIN Terms(s) = 1..(Len(s.substring) + Len(s.word))
      /\ \A k \in 1..Len(s.substring) : k \in DOMAIN Terms(s) /\ ~(k > Len(s.substring))
      /\ \A k \in 1..Len(s.word) : Len(s.substring) + k \in DOMAIN Terms(s)
  <2>1. ASSUME NEW m \in Nat, NEW n \in Nat
        PROVE  /\ \A k \in 1..m : k \in 1..(m + n) /\ ~(k > m)
               /\ \A k \in 1..n : m + k \in 1..(m + n)
    OBVIOUS
  <2>2. /\ Len(s.substring) \in Nat /\ Len(s.word) \in Nat
        /\ DOMAIN s.substring = 1..Len(s.substring) /\ DOMAIN s.word = 1..Len(s.word)
        /\ DOMAIN Terms(s) = 1..(Len(s.substring) + Len(s.word))
    BY <1>1
  <2> QED BY <2>1, <2>2
<1>4. ASSUME NEW k \in Alternatives(s, line, i)
      PROVE  Terms(s)[k] \in ReservedAt(s, line, i)
  <2>1. k \in DOMAIN Terms(s) /\ TermAt(line, i, Terms(s)[k])
    BY <1>4 DEF Alternatives
  <2>2. CASE k > Len(s.substring)
    <3>1. PICK l \in DOMAIN s.word : Terms(s)[k] = s.word[l]
      BY <1>1, <2>1, <2>2
    <3>2. Boundary(line, i) /\ Boundary(line, i + Len(s.word[l]))
      BY <1>4, <2>2, <3>1 DEF Alternatives
    <3>3. /\ i = 1 \/ line[i - 1] = " "
          /\ i + Len(s.word[l]) = Len(line) + 1 \/ line[i + Len(s.word[l])] = " "
      BY <1>2, <2>1, <3>1, <3>2, WordBoundaries
    <3> QED BY <2>1, <3>1, <3>3 DEF ReservedAt
  <2>3. CASE ~(k > Len(s.substring))
    <3>1. k \in 1..Len(s.substring)
      BY <1>3, <2>1, <2>3
    <3> QED BY <1>1, <1>3, <2>1, <3>1 DEF ReservedAt
  <2> QED BY <2>2, <2>3
<1>5. ASSUME NEW text \in ReservedAt(s, line, i) PROVE Alternatives(s, line, i) # {}
  <2>1. CASE \E k \in DOMAIN s.substring : text = s.substring[k] /\ TermAt(line, i, text)
    <3>1. PICK k \in DOMAIN s.substring : text = s.substring[k] /\ TermAt(line, i, text)
      BY <2>1
    <3>2. k \in DOMAIN Terms(s) /\ ~(k > Len(s.substring)) /\ Terms(s)[k] = text
      <4>1. k \in 1..Len(s.substring)
        BY <1>3
      <4>2. k \in DOMAIN Terms(s) /\ ~(k > Len(s.substring))
        BY <1>3, <4>1
      <4>3. Terms(s)[k] = s.substring[k]
        BY <1>1, <4>1
      <4> QED BY <3>1, <4>2, <4>3
    <3>3. k \in Alternatives(s, line, i)
      BY <3>1, <3>2 DEF Alternatives
    <3> QED BY <3>3
  <2>2. CASE \E k \in DOMAIN s.word :
               /\ text = s.word[k] /\ TermAt(line, i, text)
               /\ i = 1 \/ line[i - 1] = " "
               /\ i + Len(text) = Len(line) + 1 \/ line[i + Len(text)] = " "
    <3>1. PICK k \in DOMAIN s.word :
               /\ text = s.word[k] /\ TermAt(line, i, text)
               /\ i = 1 \/ line[i - 1] = " "
               /\ i + Len(text) = Len(line) + 1 \/ line[i + Len(text)] = " "
      BY <2>2
    <3> DEFINE at == Len(s.substring) + k
    <3>2. at \in DOMAIN Terms(s) /\ Terms(s)[at] = text
      <4>1. k \in 1..Len(s.word)
        BY <1>3
      <4>2. at \in DOMAIN Terms(s)
        BY <1>3, <4>1
      <4>3. Terms(s)[at] = s.word[k]
        BY <1>1, <4>1
      <4> QED BY <3>1, <4>2, <4>3
    <3>3. Boundary(line, i) /\ Boundary(line, i + Len(text))
      BY <1>2, <3>1, WordBoundaries
    <3> HIDE DEF at
    <3>4. at \in Alternatives(s, line, i)
      BY <3>1, <3>2, <3>3 DEF Alternatives
    <3> QED BY <3>4
  <2> QED BY <1>5, <2>1, <2>2 DEF ReservedAt
<1> QED BY <1>4, <1>5

(* What finditer yields at i is an alternative, and it advances.           *)
LEMMA MatchAdvances ==
    ASSUME NEW s \in Secrets, NEW line \in Seq(STRING), NEW i \in DOMAIN line,
           Alternatives(s, line, i) # {}
    PROVE  /\ Match(s, line, i) \in ReservedAt(s, line, i)
           /\ Match(s, line, i) \in Texts /\ TermAt(line, i, Match(s, line, i))
           /\ i + Len(Match(s, line, i)) \in (i + 1)..(Len(line) + 1)
<1> DEFINE K == Alternatives(s, line, i)
           first == CHOOSE k \in K : \A l \in K : k <= l
<1>1. Terms(s) \in Seq(Texts)
  BY SecretFacts
<1>2. K \in SUBSET Nat /\ K \subseteq DOMAIN Terms(s)
  BY <1>1 DEF Alternatives
<1> HIDE DEF K
<1>3. first \in K
  <2>1. \E k \in K : \A l \in K : k <= l
    BY <1>2, LeastNat DEF K
  <2> QED BY <2>1
<1>4. Match(s, line, i) = Terms(s)[first]
  BY DEF Match, K
<1> HIDE DEF first
<1>5. Terms(s)[first] \in Texts /\ TermAt(line, i, Terms(s)[first])
  BY <1>1, <1>2, <1>3 DEF Alternatives, K
<1>6. Terms(s)[first] \in ReservedAt(s, line, i)
  BY <1>3, AlternativesReserved DEF K
<1> DEFINE text == Terms(s)[first]
<1>7. /\ Len(text) \in Nat \ {0} /\ i + Len(text) <= Len(line) + 1
  BY <1>5, TermAtChars DEF Texts
<1>8. i \in Nat /\ Len(line) \in Nat
  OBVIOUS
<1> HIDE DEF text
<1>9. i + Len(text) \in (i + 1)..(Len(line) + 1)
  BY <1>7, <1>8
<1> QED BY <1>4, <1>5, <1>6, <1>9 DEF text

(* What is found from place i on, when f says it of the places after it.   *)
Found(s, line, f, i) ==
    IF i > Len(line) THEN {}
    ELSE IF Alternatives(s, line, i) = {} THEN f[i + 1]
    ELSE {Match(s, line, i)} \cup f[i + Len(Match(s, line, i))]

Scans(s, line, f, m) ==
    f = [i \in m..(Len(line) + 1) |-> Found(s, line, f, i)]

(* The places after i that Found looks at.                                 *)
LEMMA FoundLooksAhead ==
    ASSUME NEW s \in Secrets, NEW line \in Seq(STRING), NEW i \in 1..(Len(line) + 1),
           NEW f, NEW g, \A k \in (i + 1)..(Len(line) + 1) : f[k] = g[k]
    PROVE  Found(s, line, f, i) = Found(s, line, g, i)
<1>1. Len(line) \in Nat /\ DOMAIN line = 1..Len(line)
  OBVIOUS
<1>2. CASE i > Len(line)
  BY <1>2 DEF Found
<1>3. CASE ~(i > Len(line)) /\ Alternatives(s, line, i) = {}
  <2>1. i + 1 \in (i + 1)..(Len(line) + 1)
    BY <1>1, <1>3
  <2> QED BY <1>3, <2>1 DEF Found
<1>4. CASE ~(i > Len(line)) /\ Alternatives(s, line, i) # {}
  <2>1. i \in DOMAIN line
    BY <1>1, <1>4
  <2>2. i + Len(Match(s, line, i)) \in (i + 1)..(Len(line) + 1)
    BY <1>4, <2>1, MatchAdvances
  <2> QED BY <1>4, <2>2 DEF Found
<1> QED BY <1>2, <1>3, <1>4

(* The scan of a line is there: if it is from place m on, it is from the   *)
(* place before.                                                           *)
LEMMA ScanExists ==
    ASSUME NEW s \in Secrets, NEW line \in Seq(STRING)
    PROVE  \E f : Scans(s, line, f, 1)
<1> DEFINE n == Len(line)
           T == {m \in Nat : m \in 1..(n + 1) /\ \E f : Scans(s, line, f, m)}
<1>1. n \in Nat
  OBVIOUS
<1>2. n + 1 \in T
  <2> DEFINE f == [i \in (n + 1)..(n + 1) |-> {}]
  <2>1. \A i \in (n + 1)..(n + 1) : i > n
    BY <1>1
  <2>2. \A g : \A i \in (n + 1)..(n + 1) : Found(s, line, g, i) = {}
    BY <2>1 DEF Found
  <2>3. f = [i \in (n + 1)..(n + 1) |-> Found(s, line, f, i)]
    BY <2>2
  <2> HIDE DEF f
  <2>4. Scans(s, line, f, n + 1)
    BY <2>3 DEF Scans
  <2>5. n + 1 \in Nat /\ n + 1 \in 1..(n + 1)
    BY <1>1
  <2> QED BY <2>4, <2>5
<1> HIDE DEF n
<1>3. PICK m \in T : \A k \in T : m <= k
  <2>1. T \in SUBSET Nat /\ T # {}
    BY <1>2
  <2> HIDE DEF T
  <2> QED BY <2>1, LeastNat
<1>4. m \in 1..(n + 1)
  OBVIOUS
<1>5. CASE m = 1
  BY <1>5
<1>6. CASE m # 1
  <2> DEFINE l == m - 1
  <2>1. PICK f : Scans(s, line, f, m)
    OBVIOUS
  <2> DEFINE g == [i \in l..(n + 1) |-> IF i = l THEN Found(s, line, f, l) ELSE f[i]]
  <2>2. /\ l \in Nat /\ l \in 1..(n + 1) /\ l + 1 = m /\ ~(m <= l)
        /\ \A i \in l..(n + 1) : i = l \/ i \in m..(n + 1)
        /\ \A i \in m..(n + 1) : i \in l..(n + 1) /\ i # l /\ i \in 1..(n + 1)
        /\ \A i \in m..(n + 1) : \A k \in (i + 1)..(n + 1) : k \in m..(n + 1)
    BY <1>1, <1>4, <1>6
  <2> HIDE DEF l
  <2>3. \A k \in m..(n + 1) : g[k] = f[k]
    BY <2>2
  <2>4. \A i \in m..(n + 1) : f[i] = Found(s, line, f, i)
    <3>1. f = [i \in m..(n + 1) |-> Found(s, line, f, i)]
      BY <2>1 DEF Scans, n
    <3> QED BY <3>1
  <2>5. ASSUME NEW i \in m..(n + 1) PROVE g[i] = Found(s, line, g, i)
    <3>1. i \in 1..(Len(line) + 1)
      BY <2>2 DEF n
    <3>2. \A k \in (i + 1)..(Len(line) + 1) : g[k] = f[k]
      BY <2>2, <2>3 DEF n
    <3> HIDE DEF g
    <3>3. Found(s, line, g, i) = Found(s, line, f, i)
      BY <3>1, <3>2, FoundLooksAhead
    <3> QED BY <2>3, <2>4, <3>3
  <2>6. g[l] = Found(s, line, g, l)
    <3>1. l \in 1..(Len(line) + 1) /\ l \in l..(n + 1)
      BY <1>1, <2>2 DEF n
    <3>2. \A k \in (l + 1)..(Len(line) + 1) : g[k] = f[k]
      BY <2>2, <2>3 DEF n
    <3>3. g[l] = Found(s, line, f, l)
      BY <3>1
    <3> HIDE DEF g
    <3>4. Found(s, line, g, l) = Found(s, line, f, l)
      BY <3>1, <3>2, FoundLooksAhead
    <3> QED BY <3>3, <3>4
  <2>7. g = [i \in l..(n + 1) |-> g[i]]
    OBVIOUS
  <2> HIDE DEF g
  <2>8. \A i \in l..(n + 1) : g[i] = Found(s, line, g, i)
    BY <2>2, <2>5, <2>6
  <2>9. g = [i \in l..(n + 1) |-> Found(s, line, g, i)]
    BY <2>7, <2>8
  <2>10. Scans(s, line, g, l)
    BY <2>9 DEF Scans, n
  <2>11. l \in T
    BY <2>2, <2>10
  <2> QED BY <1>3, <2>2, <2>11
<1> QED BY <1>5, <1>6

LEMMA TokensScan ==
    ASSUME NEW s \in Secrets, NEW line \in Seq(STRING)
    PROVE  \E f : /\ Tokens(s, line) = f[1]
                  /\ \A i \in 1..(Len(line) + 1) : f[i] = Found(s, line, f, i)
<1> DEFINE from ==
      CHOOSE f : f = [i \in 1..(Len(line) + 1) |->
          IF i > Len(line) THEN {}
          ELSE IF Alternatives(s, line, i) = {} THEN f[i + 1]
          ELSE {Match(s, line, i)} \cup f[i + Len(Match(s, line, i))]]
<1>1. Scans(s, line, from, 1)
  BY Zenon, ScanExists DEF Scans, Found
<1>2. Tokens(s, line) = from[1]
  BY DEF Tokens
<1> HIDE DEF from
<1>3. \A i \in 1..(Len(line) + 1) : from[i] = Found(s, line, from, i)
  BY Zenon, <1>1 DEF Scans
<1> QED BY <1>2, <1>3

(* Every token is a reserved term where it stands.                         *)
LEMMA TokensReserved ==
    ASSUME NEW s \in Secrets, NEW line \in Seq(STRING), NEW token \in Tokens(s, line)
    PROVE  \E i \in DOMAIN line : /\ token \in ReservedAt(s, line, i)
                                  /\ token \in Texts /\ TermAt(line, i, token)
<1> DEFINE n == Len(line)
<1>0. n \in Nat /\ DOMAIN line = 1..n
  OBVIOUS
<1>1. PICK f : /\ Tokens(s, line) = f[1]
               /\ \A i \in 1..(n + 1) : f[i] = Found(s, line, f, i)
  BY TokensScan
<1> DEFINE T == {i \in 1..(n + 1) : token \in f[i]}
<1>2. 1 \in T
  BY <1>0, <1>1
<1>3. n + 1 \in Nat /\ T \in SUBSET (1..(n + 1)) /\ T # {}
  BY <1>0, <1>2
<1> HIDE DEF T
<1>4. PICK i \in T : \A k \in T : k <= i
  BY <1>3, GreatestBelow
<1>5. i \in 1..(n + 1) /\ token \in Found(s, line, f, i)
  BY <1>1 DEF T
<1>6. ASSUME NEW k \in (i + 1)..(n + 1) PROVE token \notin f[k]
  <2>1. k \in 1..(n + 1) /\ ~(k <= i)
    BY <1>0, <1>5
  <2> QED BY <1>4, <2>1 DEF T
<1>7. ~(i > n)
  BY <1>5 DEF Found
<1>8. i \in DOMAIN line /\ i + 1 \in (i + 1)..(n + 1)
  BY <1>0, <1>5, <1>7
<1>9. Alternatives(s, line, i) # {}
  BY <1>5, <1>6, <1>7, <1>8 DEF Found
<1>10. i + Len(Match(s, line, i)) \in (i + 1)..(n + 1)
  BY <1>8, <1>9, MatchAdvances
<1>11. token = Match(s, line, i)
  BY <1>5, <1>6, <1>7, <1>9, <1>10 DEF Found
<1> QED BY <1>8, <1>9, <1>11, MatchAdvances

(* Where a reserved term begins, a token stands that covers the place.     *)
LEMMA ReservedSeen ==
    ASSUME NEW s \in Secrets, NEW line \in Seq(STRING), NEW at \in DOMAIN line,
           OccursAt(s, line, at)
    PROVE  \E j \in 1..at : \E token \in ReservedAt(s, line, j) :
             token \in Tokens(s, line) /\ at < j + Len(token)
<1> DEFINE n == Len(line)
<1>0. n \in Nat /\ DOMAIN line = 1..n /\ at \in 1..n
  OBVIOUS
<1>2. PICK f : /\ Tokens(s, line) = f[1]
               /\ \A i \in 1..(n + 1) : f[i] = Found(s, line, f, i)
  BY TokensScan
<1> DEFINE T == {i \in 1..at : f[i] \subseteq Tokens(s, line)}
<1>3. 1 \in T
  BY <1>0, <1>2
<1>4. at \in Nat /\ T \in SUBSET (1..at) /\ T # {}
  BY <1>0, <1>3
<1> HIDE DEF T
<1>5. PICK i \in T : \A k \in T : k <= i
  BY <1>4, GreatestBelow
<1>6. i \in 1..at /\ f[i] \subseteq Tokens(s, line)
  BY <1>5 DEF T
<1>7. i \in 1..(n + 1) /\ ~(i > n) /\ i \in DOMAIN line
  BY <1>0, <1>6
<1>8. f[i] = Found(s, line, f, i)
  BY <1>2, <1>7
<1>9. Alternatives(s, line, i) # {}
  <2>1. SUFFICES ASSUME Alternatives(s, line, i) = {} PROVE FALSE
    OBVIOUS
  <2>2. f[i + 1] = f[i]
    BY <1>7, <1>8, <2>1 DEF Found
  <2>3. i # at
    BY <1>7, <2>1, AlternativesReserved DEF OccursAt
  <2>4. i + 1 \in 1..at /\ ~(i + 1 <= i)
    BY <1>0, <1>6, <2>3
  <2> QED BY <1>5, <1>6, <2>2, <2>4 DEF T
<1> DEFINE token == Match(s, line, i)
           next == i + Len(token)
<1>10. token \in ReservedAt(s, line, i) /\ next \in (i + 1)..(n + 1)
  BY <1>7, <1>9, MatchAdvances
<1>11. f[i] = {token} \cup f[next]
  BY <1>7, <1>8, <1>9 DEF Found
<1>12. at < next
  <2>1. SUFFICES ASSUME next <= at PROVE FALSE
    BY <1>0, <1>10
  <2>2. next \in 1..at /\ ~(next <= i)
    BY <1>0, <1>6, <1>10, <2>1
  <2> QED BY <1>5, <1>6, <1>11, <2>2 DEF T
<1> QED BY <1>6, <1>10, <1>11, <1>12

-----------------------------------------------------------------------------
(* What was scanned                                                        *)

(* Every place where a reserved term begins is excused.                    *)
NeutralLine(s, line) ==
    \A i \in DOMAIN line : OccursAt(s, line, i) => Excused(s, line, i)

NeutralTree(s, tree) ==
    \A path \in Scanned : tree[path] # Absent => NeutralLine(s, tree[path])

Flagged(s, tree) ==
    \E path \in Scanned : tree[path] # Absent /\ LineOffenders(s, tree[path]) # {}

(* The verdict on a pull request is one on the head it has.                *)
ScanInv ==
    /\ Terms(secret) # <<>> => NeutralTree(secret, main)
    /\ \A p \in Pulls :
         /\ pull[p].neutrality = 0 /\ Terms(secret) # <<>> => NeutralTree(secret, pull[p].head)
         /\ pull[p].neutrality = 1 => Flagged(secret, pull[p].head)

LEMMA LineFacts ==
    ASSUME NEW tree \in Trees, NEW path \in Scanned, tree[path] # Absent
    PROVE  tree[path] \in Seq(STRING)
BY PathsAssumption, LinesAssumption DEF Trees

(* What passes the scanner is neutral; what it stops holds an offender.    *)
LEMMA ExitMeans ==
    ASSUME NEW tree \in Trees, NEW s \in Secrets \cup {Unset}
    PROVE  /\ NeutralityExit(s, tree) = 0 => NeutralTree(s, tree)
           /\ NeutralityExit(s, tree) = 1 => s \in Secrets /\ Flagged(s, tree)
<1>1. SUFFICES ASSUME NeutralityExit(s, tree) \in {0, 1}
               PROVE  /\ NeutralityExit(s, tree) = 0 => NeutralTree(s, tree)
                      /\ NeutralityExit(s, tree) = 1 => s \in Secrets /\ Flagged(s, tree)
  OBVIOUS
<1>2. s # Unset /\ Terms(s) # <<>> /\ s \in Secrets
  BY <1>1 DEF NeutralityExit
<1>3. NeutralityExit(s, tree) = IF Flagged(s, tree) THEN 1 ELSE 0
  BY <1>2 DEF NeutralityExit, Flagged
<1>4. ASSUME ~Flagged(s, tree), NEW path \in Scanned, tree[path] # Absent,
             NEW i \in DOMAIN tree[path], OccursAt(s, tree[path], i)
      PROVE  Excused(s, tree[path], i)
  <2> DEFINE line == tree[path]
  <2>1. line \in Seq(STRING)
    BY <1>4, LineFacts
  <2>2. PICK j \in 1..i : \E token \in ReservedAt(s, line, j) :
          token \in Tokens(s, line) /\ i < j + Len(token)
    BY <1>2, <1>4, <2>1, ReservedSeen
  <2>3. LineOffenders(s, line) = {}
    BY <1>4 DEF Flagged
  <2> QED BY <2>2, <2>3 DEF LineOffenders, Excused
<1>5. ~Flagged(s, tree) => NeutralTree(s, tree)
  BY <1>4 DEF NeutralTree, NeutralLine
<1> QED BY <1>2, <1>3, <1>5

LEMMA InitScan == Init => ScanInv
<1> SUFFICES ASSUME Init PROVE ScanInv
  OBVIOUS
<1>1. \A p \in Pulls : pull[p].neutrality = Pending
  BY DEF Init, NoPull, PullFrom
<1>2. NeutralTree(secret, main)
  BY DEF Init, NeutralTree, NeutralLine
<1> QED BY <1>1, <1>2 DEF ScanInv, Pending

(* One pull request changes: what has to be shown then.                    *)
LEMMA OneScanned ==
    ASSUME GatesInv, ScanInv, secret' = secret, NEW p \in Pulls, NEW r,
           pull' = [pull EXCEPT ![p] = r],
           Terms(secret) # <<>> => NeutralTree(secret, main'),
           r.neutrality = 0 /\ Terms(secret) # <<>> => NeutralTree(secret, r.head),
           r.neutrality = 1 => Flagged(secret, r.head)
    PROVE  ScanInv'
<1>1. \A q \in Pulls : pull'[q] = IF q = p THEN r ELSE pull[q]
  BY DEF GatesInv
<1> QED BY <1>1 DEF ScanInv

(* Two trees that are neutral merge into one that is.                      *)
LEMMA MergeIsNeutral ==
    ASSUME NEW p \in Pulls, NeutralTree(secret, main), NeutralTree(secret, pull[p].head)
    PROVE  NeutralTree(secret, Merged(p))
BY PathsAssumption DEF NeutralTree, Merged

LEMMA ScanKeepsInv == GatesInv /\ ScanInv /\ [Next]_vars => ScanInv'
<1> SUFFICES ASSUME GatesInv, ScanInv, [Next]_vars PROVE ScanInv'
  OBVIOUS
<1>0. pull \in [Pulls -> PullRecords] /\ secret \in Secrets
  BY DEF GatesInv
<1>1. CASE UNCHANGED vars
  BY <1>1 DEF vars, ScanInv
<1>2. ASSUME NEW p \in Pulls, Open(p) PROVE ScanInv'
  <2> DEFINE r == PullFrom(main, TRUE)
  <2>1. /\ pull' = [pull EXCEPT ![p] = r]
        /\ main' = main /\ secret' = secret /\ r.neutrality = Pending
    BY <1>2 DEF Open, PullFrom
  <2> HIDE DEF r
  <2> QED BY <2>1, OneScanned DEF ScanInv, Pending
<1>3. ASSUME NEW p \in Pulls, Push(p) PROVE ScanInv'
  <2> DEFINE r == pull'[p]
  <2>1. /\ pull' = [pull EXCEPT ![p] = r]
        /\ main' = main /\ secret' = secret /\ r.neutrality = Pending
    BY <1>0, <1>3 DEF Push, PullRecords
  <2> HIDE DEF r
  <2> QED BY <2>1, OneScanned DEF ScanInv, Pending
<1>4. ASSUME NEW p \in Pulls, UpdateBranch(p) PROVE ScanInv'
  <2> DEFINE r == pull'[p]
  <2>1. /\ pull' = [pull EXCEPT ![p] = r]
        /\ main' = main /\ secret' = secret /\ r.neutrality = Pending
    BY <1>0, <1>4 DEF UpdateBranch, PullRecords
  <2> HIDE DEF r
  <2> QED BY <2>1, OneScanned DEF ScanInv, Pending
<1>5. ASSUME NEW p \in Pulls, ScopeGate(p) PROVE ScanInv'
  <2> DEFINE r == pull'[p]
  <2>1. /\ pull' = [pull EXCEPT ![p] = r]
        /\ main' = main /\ secret' = secret
        /\ r.neutrality = pull[p].neutrality /\ r.head = pull[p].head
    BY <1>0, <1>5 DEF ScopeGate, PullRecords
  <2> HIDE DEF r
  <2> QED BY <2>1, OneScanned DEF ScanInv
<1>6. ASSUME NEW p \in Pulls, NeutralityGate(p) PROVE ScanInv'
  <2> DEFINE r == pull'[p]
  <2>1. PICK s \in {secret, Unset} :
          pull' = [pull EXCEPT ![p].neutrality = NeutralityExit(s, pull[p].head)]
    BY <1>6 DEF NeutralityGate
  <2>2. /\ pull' = [pull EXCEPT ![p] = r]
        /\ main' = main /\ secret' = secret
        /\ r.neutrality = NeutralityExit(s, pull[p].head) /\ r.head = pull[p].head
    BY <1>0, <1>6, <2>1 DEF NeutralityGate, PullRecords
  <2>3. pull[p].head \in Trees /\ s \in Secrets \cup {Unset}
    BY <1>0 DEF PullRecords
  <2> HIDE DEF r
  <2>4. /\ r.neutrality = 0 => NeutralTree(s, r.head)
        /\ r.neutrality = 1 => s \in Secrets /\ Flagged(s, r.head)
    BY <2>2, <2>3, ExitMeans
  <2>5. s = Unset => r.neutrality = 2
    BY <2>2 DEF NeutralityExit
  <2>6. r.neutrality \in {0, 1} => s = secret
    BY <2>5
  <2> QED BY <2>2, <2>4, <2>6, OneScanned DEF ScanInv
<1>7. ASSUME NEW p \in Pulls, MergePull(p) PROVE ScanInv'
  <2> DEFINE r == pull'[p]
  <2>1. /\ pull' = [pull EXCEPT ![p] = r]
        /\ main' = Merged(p) /\ secret' = secret /\ pull[p].neutrality = 0
        /\ r.neutrality = 0 /\ r.head = pull[p].head
    BY <1>0, <1>7 DEF MergePull, PullRecords
  <2> HIDE DEF r
  <2>2. Terms(secret) # <<>> => NeutralTree(secret, main')
    BY <2>1, MergeIsNeutral DEF ScanInv
  <2> QED BY <2>1, <2>2, OneScanned DEF ScanInv
<1> QED BY <1>1, <1>2, <1>3, <1>4, <1>5, <1>6, <1>7 DEF Next

LEMMA ScanInvariance == Spec => []ScanInv
BY InitScan, ScanKeepsInv, Invariance, PTL DEF Spec

(* Wherever a reserved term begins on a line of the base branch, a term    *)
(* that stands over the place is also part of an approved phrase of that   *)
(* line, after any merges of heads that were scanned apart and any runs    *)
(* without the secret (neutrality_scan.py:40-93, neutrality.yml:61-63).    *)
THEOREM BranchStaysNeutral == Spec => []MainNeutral
<1>1. ScanInv => MainNeutral
  BY DEF ScanInv, NeutralTree, NeutralLine, MainNeutral
<1> QED BY <1>1, ScanInvariance, PTL

(* Where a text of n that stands at i lies within one of m that stands at  *)
(* j: the positions it has in the longer one.                              *)
LEMMA Within ==
  ASSUME NEW i \in Nat, NEW j \in Nat, NEW n \in Nat \ {0}, NEW m \in Nat,
         j <= i, i + n <= j + m
  PROVE  /\ m # 0
         /\ i - j + 1 \in 1..m
         /\ (i - j + 1) + n <= m + 1
         /\ \A k \in 1..n : /\ (i - j + 1) + k - 1 \in 1..m
                          /\ j + ((i - j + 1) + k - 1) - 1 = i + k - 1
OBVIOUS

(* A pull request is flagged only for a reserved term that is not part of  *)
(* an approved phrase where it stands (neutrality_scan.py:66-76).          *)
THEOREM FlagsFair == Spec => []NoFalseFlag
<1>1. ASSUME NEW s \in Secrets, NEW line \in Seq(STRING), LineOffenders(s, line) # {}
      PROVE  \E i \in DOMAIN line : \E text \in ReservedAt(s, line, i) :
               ~WithinPhrase(s, line, i, text)
  <2>1. PICK token \in Tokens(s, line) :
          ~\E phrase \in Carried(s, line) : PartOf(token, phrase)
    BY <1>1 DEF LineOffenders
  <2>2. PICK i \in DOMAIN line : /\ token \in ReservedAt(s, line, i)
                                 /\ token \in Texts /\ TermAt(line, i, token)
    BY <1>1, TokensReserved
  <2>3. ASSUME NEW phrase \in s.allow, NEW j \in DOMAIN line, TermAt(line, j, phrase),
               j <= i, i + Len(token) <= j + Len(phrase)
        PROVE  FALSE
    <3> DEFINE at == i - j + 1
               n == Len(token)
               m == Len(phrase)
    <3>1. token \in Seq(STRING) /\ token # <<>> /\ phrase \in Seq(STRING)
      BY <2>2, SecretsAssumption DEF Texts
    <3>2. n \in Nat \ {0} /\ \A k \in 1..n : line[i + k - 1] = token[k]
      BY <2>2, <3>1, TermAtChars
    <3>3. i \in Nat /\ j \in Nat /\ m \in Nat
      BY <3>1
    <3> HIDE DEF n, m
    <3>4. i + n <= j + m
      BY <2>3 DEF n, m
    <3>5. /\ m # 0 /\ at \in 1..m /\ at + n <= m + 1
          /\ \A k \in 1..n : /\ at + k - 1 \in 1..m
                           /\ j + (at + k - 1) - 1 = i + k - 1
      <4>1. j <= i /\ n \in Nat \ {0}
        BY <2>3, <3>2
      <4> HIDE DEF at
      <4>3. n \in Nat \ {0} /\ i \in Nat /\ j \in Nat /\ m \in Nat
        BY <3>3, <4>1
      <4>4. j <= i /\ i + n <= j + m
        BY <3>4, <4>1
      <4>5. m # 0 /\ i - j + 1 \in 1..m /\ (i - j + 1) + n <= m + 1
        BY <4>3, <4>4, Within
      <4>6. \A k \in 1..n : /\ (i - j + 1) + k - 1 \in 1..m
                            /\ j + ((i - j + 1) + k - 1) - 1 = i + k - 1
        BY <4>3, <4>4, Within
      <4> QED BY <4>5, <4>6 DEF at
    <3>6. phrase # <<>>
      BY <3>5 DEF m
    <3>7. \A k \in 1..m : line[j + k - 1] = phrase[k]
      BY <2>3, <3>1, <3>6, TermAtChars DEF m
    <3>8. ASSUME NEW k \in 1..n PROVE phrase[at + k - 1] = token[k]
      <4>1. at + k - 1 \in 1..m /\ j + (at + k - 1) - 1 = i + k - 1
        BY <3>5
      <4> QED BY <3>2, <3>7, <4>1
    <3>9. at \in DOMAIN phrase
      BY <3>1, <3>5 DEF m
    <3> HIDE DEF at
    <3>10. TermAt(phrase, at, token)
      BY <3>1, <3>5, <3>8, <3>9, TermAtChars DEF n, m
    <3>11. PartOf(token, phrase) /\ phrase \in Carried(s, line)
      BY <2>3, <3>9, <3>10 DEF PartOf, Carried
    <3> QED BY <2>1, <3>11
  <2> QED BY <2>2, <2>3 DEF WithinPhrase
<1>2. GatesInv /\ ScanInv => NoFalseFlag
  <2> SUFFICES ASSUME GatesInv, ScanInv, NEW p \in Pulls, pull[p].neutrality = 1
               PROVE  \E path \in Scanned :
                        /\ pull[p].head[path] # Absent
                        /\ pull[p].head[path] \in Seq(STRING)
                        /\ LineOffenders(secret, pull[p].head[path]) # {}
    BY <1>1 DEF NoFalseFlag, GatesInv
  <2>1. PICK path \in Scanned :
          /\ pull[p].head[path] # Absent
          /\ LineOffenders(secret, pull[p].head[path]) # {}
    BY DEF ScanInv, Flagged
  <2>2. pull[p].head \in Trees
    BY DEF GatesInv, PullRecords
  <2> QED BY <2>1, <2>2, LineFacts
<1> QED BY <1>2, Invariance, ScanInvariance, PTL

=============================================================================
