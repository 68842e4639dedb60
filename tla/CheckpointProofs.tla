-------------------------- MODULE CheckpointProofs --------------------------
(***************************************************************************)
(* Theorems about Checkpoint, for every number of emit processes, every    *)
(* set of services and records, every bound and every set of faults.       *)
(***************************************************************************)
EXTENDS Checkpoint, SequenceTheorems, WellFoundedInduction, TLAPS

-----------------------------------------------------------------------------
(* Prefixes                                                                *)

(* The first n records of a log, by index.                                 *)
LEMMA SubSeqOfLog ==
    ASSUME NEW S, NEW s \in Seq(S), NEW n \in 0..Len(s)
    PROVE  /\ SubSeq(s, 1, n) \in Seq(S)
           /\ Len(SubSeq(s, 1, n)) = n
           /\ \A i \in 1..n : SubSeq(s, 1, n)[i] = s[i]
<1>1. \A i \in 1..n : s[i] \in S
  OBVIOUS
<1> QED
  BY <1>1, SubSeqProperties

(* Sequences of one length that agree everywhere are the same.             *)
LEMMA SeqExtensional ==
    ASSUME NEW S, NEW s \in Seq(S), NEW t \in Seq(S),
           Len(s) = Len(t), \A i \in 1..Len(s) : s[i] = t[i]
    PROVE  s = t
  OBVIOUS

(* IsPrefix, by index.                                                     *)
LEMMA PrefixByIndex ==
    ASSUME NEW S, NEW s \in Seq(S), NEW t \in Seq(S)
    PROVE  IsPrefix(s, t) <=>
              Len(s) <= Len(t) /\ \A i \in 1..Len(s) : s[i] = t[i]
<1>1. CASE Len(s) <= Len(t)
  <2>1. /\ SubSeq(s, 1, Len(s)) = s
        /\ SubSeq(t, 1, Len(s)) \in Seq(S)
        /\ Len(SubSeq(t, 1, Len(s))) = Len(s)
        /\ \A i \in 1..Len(s) : SubSeq(t, 1, Len(s))[i] = t[i]
    BY <1>1, SubSeqOfLog, SubSeqFull
  <2> QED
    BY <1>1, <2>1, SeqExtensional DEF IsPrefix
<1>2. CASE ~(Len(s) <= Len(t))
  BY <1>2 DEF IsPrefix
<1> QED
  BY <1>1, <1>2

(* A log is a prefix of itself and of what it grows into; a prefix of a    *)
(* given length is the initial part of that length.                        *)
LEMMA PrefixFacts ==
    ASSUME NEW S, NEW s \in Seq(S), NEW t \in Seq(S)
    PROVE  /\ IsPrefix(s, s)
           /\ \A c \in S : IsPrefix(s, t) => IsPrefix(s, Append(t, c))
           /\ IsPrefix(s, t) => s = SubSeq(t, 1, Len(s))
           /\ \A u \in Seq(S) :
                IsPrefix(s, t) /\ IsPrefix(u, t) /\ Len(s) = Len(u) => s = u
<1>1. IsPrefix(s, s)
  BY PrefixByIndex
<1>2. ASSUME NEW c \in S, IsPrefix(s, t)
      PROVE  IsPrefix(s, Append(t, c))
  <2>1. Len(s) <= Len(t) /\ \A i \in 1..Len(s) : s[i] = t[i]
    BY <1>2, PrefixByIndex
  <2>2. /\ Append(t, c) \in Seq(S)
        /\ Len(Append(t, c)) = Len(t) + 1
        /\ \A i \in 1..Len(t) : Append(t, c)[i] = t[i]
    BY AppendProperties
  <2>3. Len(s) <= Len(Append(t, c))
        /\ \A i \in 1..Len(s) : s[i] = Append(t, c)[i]
    BY <2>1, <2>2
  <2> QED
    BY <2>2, <2>3, PrefixByIndex
<1>3. ASSUME IsPrefix(s, t)
      PROVE  s = SubSeq(t, 1, Len(s))
  BY <1>3, SubSeqFull DEF IsPrefix
<1>4. ASSUME NEW u \in Seq(S), IsPrefix(s, t), IsPrefix(u, t), Len(s) = Len(u)
      PROVE  s = u
  BY <1>3, <1>4, PrefixByIndex, SeqExtensional
<1> QED
  BY <1>1, <1>2, <1>3, <1>4

-----------------------------------------------------------------------------
(* Sizes                                                                   *)

(* The size of an MMR determines how many records it holds.                *)
LEMMA LeafCountOfSize ==
    ASSUME NEW n \in 0..MaxLog
    PROVE  NodeCount(n) \in Nat /\ LeafCount(NodeCount(n)) = n
<1>1. \A m \in 0..MaxLog : NodeCount(m) = NodeCount(n) => m = n
  <2> SUFFICES ASSUME NEW m \in 0..MaxLog, m # n
               PROVE  NodeCount(m) # NodeCount(n)
    OBVIOUS
  <2>1. m < n \/ n < m
    BY BoundAssumption
  <2>2. NodeCount(m) \in Nat /\ NodeCount(n) \in Nat
    BY NodeCountAssumption
  <2> QED
    BY <2>1, <2>2, NodeCountAssumption, BoundAssumption
<1> QED
  BY <1>1, NodeCountAssumption DEF LeafCount

(* The root of a whole MMR commits to the whole log it was taken of.       *)
LEMMA WholeRoot ==
    ASSUME NEW mmr \in Logs
    PROVE  /\ Size(mmr) \in Sizes
           /\ Size(mmr) \in Nat
           /\ RootAt(mmr, Size(mmr)) = mmr
<1>1. Len(mmr) \in 0..MaxLog /\ mmr \in Seq(Capsules)
  BY DEF Logs
<1>2. LeafCount(Size(mmr)) = Len(mmr)
  BY <1>1, LeafCountOfSize DEF Size
<1> QED
  BY <1>1, <1>2, SubSeqFull, LeafCountOfSize DEF Size, Sizes, RootAt

LEMMA SizesAreNat == Sizes \subseteq Nat
  BY NodeCountAssumption DEF Sizes

(* Only a log that ends up empty has size 0.                               *)
LEMMA EmptySize == <<>> \in Logs /\ 0 \in Sizes
  BY BoundAssumption, NodeCountAssumption DEF Logs, Sizes

-----------------------------------------------------------------------------
(* Type correctness                                                        *)

(* Among the saved checkpoints one is the largest: without it Latest would *)
(* be no checkpoint at all.  Put keeps it, so no counting is needed.       *)
HasLatest ==
    saved # {} => \E c \in saved : \A d \in saved : d.body.size <= c.body.size

TypeInv == TypeOK /\ HasLatest

LEMMA LatestIsSaved ==
    ASSUME TypeInv, saved # {}
    PROVE  /\ Latest(saved) \in saved
           /\ Latest(saved) \in CheckpointRecord
           /\ \A d \in saved : d.body.size <= Latest(saved).body.size
BY DEF TypeInv, TypeOK, HasLatest, Latest

(* Put over the saved checkpoints.                                         *)
LEMMA PutFacts ==
    ASSUME TypeInv, NEW cp \in CheckpointRecord
    PROVE  /\ Put(saved, cp) \subseteq CheckpointRecord
           /\ \E c \in Put(saved, cp) :
                \A d \in Put(saved, cp) : d.body.size <= c.body.size
<1>1. \A c \in CheckpointRecord : c.body.size \in Nat
  BY SizesAreNat DEF CheckpointRecord, Bodies
<1>2. saved \subseteq CheckpointRecord
  BY DEF TypeInv, TypeOK
<1>3. CASE \A d \in saved : d.body.size <= cp.body.size
  <2>1. \A d \in Put(saved, cp) : d.body.size <= cp.body.size
    BY <1>1, <1>3 DEF Put
  <2> QED
    BY <1>2, <2>1 DEF Put
<1>4. CASE ~ \A d \in saved : d.body.size <= cp.body.size
  <2>1. PICK c \in saved : \A d \in saved : d.body.size <= c.body.size
    BY <1>4 DEF TypeInv, HasLatest
  <2>2. cp.body.size < c.body.size
    BY <1>1, <1>2, <1>4, <2>1
  <2>3. c \in Put(saved, cp)
    BY <1>1, <1>2, <2>2 DEF Put
  <2>4. \A d \in Put(saved, cp) : d.body.size <= c.body.size
    BY <1>1, <1>2, <2>1, <2>2 DEF Put
  <2> QED
    BY <1>2, <2>3, <2>4 DEF Put
<1> QED
  BY <1>3, <1>4

(* What emit_checkpoint signs is a checkpoint body.                        *)
LEMMA BodyType ==
    ASSUME TypeInv, NEW mmr \in Logs, NEW signer \in Signers, stamp < MaxEmits
    PROVE  BuildBody(mmr, signer, saved) \in Bodies
<1>1. Size(mmr) \in Sizes /\ RootAt(mmr, Size(mmr)) \in Logs
  BY WholeRoot
<1>2. saved # {} => /\ Latest(saved).body.size \in Sizes
                    /\ Latest(saved).body.root \in Logs
  BY LatestIsSaved DEF CheckpointRecord, Bodies
<1>3. stamp + 1 \in 1..MaxEmits
  BY BoundAssumption DEF TypeInv, TypeOK
<1> QED
  BY <1>1, <1>2, <1>3, EmptySize DEF BuildBody, Bodies

LEMMA TargetsType ==
    ASSUME TypeInv, NEW urls \in TargetLists, NEW noRegister \in BOOLEAN
    PROVE  ChooseTargets(urls, noRegister, config) \in Seq(Services)
BY ServiceAssumption DEF TypeInv, TypeOK, ChooseTargets

LEMMA WitnessType ==
    ASSUME TypeInv, NEW p \in Emitters, Registering(p)
    PROVE  /\ em[p] \in RegisterStates
           /\ WitnessOf(p) \in Witnesses
<1>1. em[p] \in RegisterStates
  BY DEF TypeInv, TypeOK, Registering, EmitStates, Idle, OpenedStates,
         SignedStates, RegisterStates
<1>2. /\ em[p].targets \in Seq(Services)
      /\ em[p].next \in 1..Len(em[p].targets)
      /\ em[p].cp \in CheckpointRecord
  BY <1>1 DEF RegisterStates, Registering
<1>3. em[p].targets[em[p].next] \in Services
  BY <1>2
<1>4. Digest(em[p].cp) \in Bodies
  BY <1>2 DEF Digest, CheckpointRecord
<1> QED
  BY <1>1, <1>3, <1>4 DEF WitnessOf, Witnesses

(* A registering process with its next service and a checkpoint.           *)
LEMMA RegisterAdvance ==
    ASSUME NEW e \in RegisterStates, NEW cp \in CheckpointRecord
    PROVE  [e EXCEPT !.cp = cp, !.next = @ + 1] \in RegisterStates
<1> DEFINE f == [e EXCEPT !.cp = cp]
<1>1. f \in RegisterStates
  BY DEF RegisterStates
<1>2. [f EXCEPT !.next = @ + 1] \in RegisterStates
  <2> HIDE DEF f
  <2> QED
    BY <1>1 DEF RegisterStates
<1> QED
  BY <1>2

LEMMA InitTypeInv == Init => TypeInv
<1> SUFFICES ASSUME Init
             PROVE  TypeInv
  OBVIOUS
<1>1. log \in Logs /\ durable \in 0..Len(log)
  BY EmptySize DEF Init
<1>2. em \in [Emitters -> EmitStates] /\ rd \in ReadStates
  BY DEF Init, EmitStates, ReadStates
<1>3. stamp \in 0..MaxEmits /\ faults \in 0..MaxFaults
  BY BoundAssumption DEF Init
<1> QED
  BY <1>1, <1>2, <1>3 DEF Init, TypeInv, TypeOK, HasLatest

(* The emit processes stay typed when one of them takes a typed state.     *)
LEMMA EmitUpdate ==
    ASSUME TypeInv, NEW p \in Emitters, NEW e \in EmitStates
    PROVE  [em EXCEPT ![p] = e] \in [Emitters -> EmitStates]
BY DEF TypeInv, TypeOK

LEMMA NextTypeInv == TypeInv /\ [Next]_vars => TypeInv'
<1> SUFFICES ASSUME TypeInv, [Next]_vars
             PROVE  TypeInv'
  OBVIOUS
<1> USE DEF TypeInv, TypeOK
<1>1. CASE AppendRecord
  <2>1. PICK c \in Capsules, consequential \in BOOLEAN :
          /\ log' = Append(log, c)
          /\ durable' = Flushed(consequential)
          /\ lossy' = (lossy \/ ~consequential)
    BY <1>1 DEF AppendRecord
  <2>2. log \in Seq(Capsules) /\ Len(log) < MaxLog
    BY <1>1 DEF AppendRecord, Logs
  <2>3. log' \in Seq(Capsules) /\ Len(log') = Len(log) + 1
    BY <2>1, <2>2, AppendProperties
  <2>4. log' \in Logs /\ durable' \in 0..Len(log')
    BY <2>1, <2>2, <2>3, BoundAssumption DEF Logs, Flushed
  <2> QED
    BY <1>1, <2>1, <2>4 DEF AppendRecord, HasLatest
<1>2. ASSUME NEW p \in Emitters, Kill(p)
      PROVE  TypeInv'
  <2>1. em' \in [Emitters -> EmitStates]
    BY <1>2, EmitUpdate DEF Kill, EmitStates
  <2>2. faults' \in 0..MaxFaults
    BY <1>2, BoundAssumption DEF Kill, Fault
  <2> QED
    BY <1>2, <2>1, <2>2 DEF Kill, HasLatest
<1>3. CASE Crash
  <2>1. PICK n \in durable..Len(log) : log' = SubSeq(log, 1, n) /\ durable' = n
    BY <1>3 DEF Crash
  <2>2. n \in 0..Len(log)
    BY <2>1 DEF Logs
  <2>3. log' \in Logs /\ durable' \in 0..Len(log')
    BY <2>1, <2>2, SubSeqOfLog, BoundAssumption DEF Logs
  <2>4. em' \in [Emitters -> EmitStates] /\ rd' \in ReadStates
    BY <1>3 DEF Crash, EmitStates, ReadStates
  <2>5. faults' \in 0..MaxFaults
    BY <1>3, BoundAssumption DEF Crash, Fault
  <2> QED
    BY <1>3, <2>3, <2>4, <2>5 DEF Crash, HasLatest
<1>4. CASE Restore
  <2>1. PICK n \in 0..Len(log) : log' = SubSeq(log, 1, n) /\ durable' = n
    BY <1>4 DEF Restore
  <2>2. log' \in Logs /\ durable' \in 0..Len(log')
    BY <2>1, SubSeqOfLog, BoundAssumption DEF Logs
  <2>3. faults' \in 0..MaxFaults
    BY <1>4, BoundAssumption DEF Restore, Fault
  <2> QED
    BY <1>4, <2>2, <2>3 DEF Restore, HasLatest
<1>5. CASE InitConfig
  <2>1. config' \in Seq(Services)
    BY <1>5, ServiceAssumption DEF InitConfig
  <2> QED
    BY <1>5, <2>1 DEF InitConfig, HasLatest
<1>6. ASSUME NEW p \in Emitters, EmitOpen(p)
      PROVE  TypeInv'
  <2>1. PICK arg \in Keys \cup {""}, env \in EnvValues :
          /\ BuildSigner(arg, env) # Nil
          /\ em' = [em EXCEPT ![p] = [pc |-> "opened", mmr |-> log,
                                      signer |-> BuildSigner(arg, env)]]
    BY <1>6 DEF EmitOpen
  <2>2. BuildSigner(arg, env) \in Signers
    BY <2>1, KeyAssumption DEF BuildSigner, ResolveKey, Signers
  <2>3. [pc |-> "opened", mmr |-> log, signer |-> BuildSigner(arg, env)]
          \in EmitStates
    BY <2>2 DEF EmitStates, OpenedStates
  <2> QED
    BY <1>6, <2>1, <2>3, EmitUpdate DEF EmitOpen, HasLatest
<1>7. ASSUME NEW p \in Emitters, EmitSign(p)
      PROVE  TypeInv'
  <2>1. em[p] \in OpenedStates
    BY <1>7 DEF EmitSign, EmitStates, Idle, OpenedStates, SignedStates,
                RegisterStates
  <2>2. NewRecord(BuildBody(em[p].mmr, em[p].signer, saved)) \in CheckpointRecord
    BY <1>7, <2>1, BodyType
       DEF EmitSign, OpenedStates, NewRecord, CheckpointRecord
  <2>3. em' \in [Emitters -> EmitStates]
    BY <1>7, <2>2, EmitUpdate DEF EmitSign, EmitStates, SignedStates
  <2>4. stamp' \in 0..MaxEmits
    BY <1>7, BoundAssumption DEF EmitSign
  <2> QED
    BY <1>7, <2>3, <2>4 DEF EmitSign, HasLatest
<1>8. ASSUME NEW p \in Emitters, EmitRefuse(p)
      PROVE  TypeInv'
  <2>1. em' \in [Emitters -> EmitStates]
    BY <1>8, EmitUpdate DEF EmitRefuse, EmitStates
  <2> QED
    BY <1>8, <2>1 DEF EmitRefuse, HasLatest
<1>9. ASSUME NEW p \in Emitters, EmitTarget(p)
      PROVE  TypeInv'
  <2>1. PICK urls \in TargetLists, noRegister \in BOOLEAN, requireTs \in BOOLEAN :
          em' = [em EXCEPT ![p] =
                   [pc |-> "register", cp |-> em[p].cp, next |-> 1,
                    targets |-> ChooseTargets(urls, noRegister, config),
                    requireTs |-> requireTs]]
    BY <1>9 DEF EmitTarget
  <2>2. em[p] \in SignedStates
    BY <1>9 DEF EmitTarget, EmitStates, Idle, OpenedStates, SignedStates,
                RegisterStates
  <2>3. ChooseTargets(urls, noRegister, config) \in Seq(Services)
    BY TargetsType
  <2>4. [pc |-> "register", cp |-> em[p].cp, next |-> 1,
         targets |-> ChooseTargets(urls, noRegister, config),
         requireTs |-> requireTs] \in EmitStates
    BY <2>2, <2>3 DEF EmitStates, SignedStates, RegisterStates
  <2> QED
    BY <1>9, <2>1, <2>4, EmitUpdate DEF EmitTarget, HasLatest
<1>10. ASSUME NEW p \in Emitters, RegisterOk(p)
       PROVE  TypeInv'
  <2>1. em[p] \in RegisterStates /\ WitnessOf(p) \in Witnesses
    BY <1>10, WitnessType DEF RegisterOk
  <2>2. AddWitness(em[p].cp, WitnessOf(p)) \in CheckpointRecord
    BY <2>1 DEF AddWitness, RegisterStates, CheckpointRecord
  <2>3. AfterSuccess(p) \in EmitStates
    <3> DEFINE cp == AddWitness(em[p].cp, WitnessOf(p))
    <3>1. cp \in CheckpointRecord
      BY <2>2
    <3> HIDE DEF cp
    <3>2. [em[p] EXCEPT !.cp = cp, !.next = @ + 1] \in RegisterStates
      BY <2>1, <3>1, RegisterAdvance
    <3> QED
      BY <3>2 DEF AfterSuccess, EmitStates, cp
  <2> QED
    BY <1>10, <2>1, <2>3, EmitUpdate DEF RegisterOk, HasLatest
<1>11. ASSUME NEW p \in Emitters, RegisterFail(p)
       PROVE  TypeInv'
  <2>1. em[p] \in RegisterStates /\ WitnessOf(p) \in Witnesses
    BY <1>11, WitnessType DEF RegisterFail
  <2>2. AfterFailure(p) \in EmitStates
    BY <2>1 DEF AfterFailure, EmitStates, RegisterStates
  <2> QED
    BY <1>11, <2>1, <2>2, EmitUpdate DEF RegisterFail, HasLatest
<1>12. ASSUME NEW p \in Emitters, EmitSave(p)
       PROVE  TypeInv'
  <2>1. em[p] \in RegisterStates
    BY <1>12 DEF EmitSave, EmitStates, Idle, OpenedStates, SignedStates,
                 RegisterStates
  <2>2. /\ saved' \subseteq CheckpointRecord
        /\ \E c \in saved' : \A d \in saved' : d.body.size <= c.body.size
    BY <1>12, <2>1, PutFacts DEF EmitSave, RegisterStates
  <2>3. em' \in [Emitters -> EmitStates]
    BY <1>12, EmitUpdate DEF EmitSave, EmitStates
  <2> QED
    BY <1>12, <2>2, <2>3 DEF EmitSave, HasLatest
<1>13. ASSUME NEW command \in Commands, ReadOpen(command)
       PROVE  TypeInv'
  <2>1. rd' \in ReadStates
    BY <1>13, BoundAssumption DEF ReadOpen, ReadStates
  <2> QED
    BY <1>13, <2>1 DEF ReadOpen, HasLatest
<1>14. CASE StatusLoad \/ StatusReport
  <2>1. CASE StatusLoad
    <3>1. rd \in [pc : {"status", "verify"}, mmr : Logs]
      BY <2>1 DEF StatusLoad, ReadStates, Idle
    <3>2. saved # {} => Latest(saved) \in CheckpointRecord
      BY LatestIsSaved
    <3>3. rd' \in ReadStates
      BY <2>1, <3>1, <3>2 DEF StatusLoad, ReadStates
    <3> QED BY <2>1, <3>3 DEF StatusLoad, HasLatest
  <2>2. CASE StatusReport
    BY <2>2 DEF StatusReport, ReadStates, HasLatest
  <2> QED BY <1>14, <2>1, <2>2
<1>15. CASE VerifyReport
  <2>1. rd' \in ReadStates
    BY <1>15 DEF VerifyReport, ReadStates
  <2> QED
    BY <1>15, <2>1 DEF VerifyReport, HasLatest
<1>16. CASE UNCHANGED vars
  BY <1>16 DEF vars, HasLatest
<1> QED
  BY <1>1, <1>2, <1>3, <1>4, <1>5, <1>6, <1>7, <1>8, <1>9, <1>10, <1>11,
     <1>12, <1>13, <1>14, <1>15, <1>16 DEF Next, Emit

(* Type correctness, with a largest checkpoint: for every instance.        *)
THEOREM TypeCorrect == Spec => []TypeInv
<1> QED
  BY InitTypeInv, NextTypeInv, PTL DEF Spec

(* Every variable has its type in every reachable state.                   *)
THEOREM TypeOKHolds == Spec => []TypeOK
<1>1. TypeInv => TypeOK
  BY DEF TypeInv
<1> QED
  BY <1>1, TypeCorrect, PTL

-----------------------------------------------------------------------------
(* Witnesses                                                               *)

Holding(p) == em[p].pc \in {"signed", "register"}

Genuine(cp) == \A w \in cp.witnesses : w.digest = Digest(cp) /\ w \in registered

(* A checkpoint carries genuine witnesses from before it is saved.         *)
WitnessInv ==
    /\ WitnessesGenuine
    /\ \A p \in Emitters : Holding(p) => Genuine(em[p].cp)

LEMMA HeldRecord ==
    ASSUME TypeInv, NEW p \in Emitters, Holding(p)
    PROVE  /\ em[p] \in SignedStates \cup RegisterStates
           /\ em[p].cp \in CheckpointRecord
           /\ em[p].cp.body \in Bodies
<1>1. em[p] \in SignedStates \cup RegisterStates
  BY DEF Holding, TypeInv, TypeOK, EmitStates, Idle, OpenedStates,
         SignedStates, RegisterStates
<1>2. em[p].cp \in CheckpointRecord
  BY <1>1 DEF SignedStates, RegisterStates
<1> QED
  BY <1>1, <1>2 DEF CheckpointRecord

(* No step changes the state of a process it is not a step of, save a      *)
(* power cut, and none withdraws a witness.                                *)
LEMMA RegisteredGrows ==
    ASSUME TypeInv, [Next]_vars
    PROVE  registered \subseteq registered'
BY DEF Next, Emit, vars, AppendRecord, Kill, Crash, Restore, InitConfig,
       EmitOpen, EmitSign, EmitRefuse, EmitTarget, RegisterOk, RegisterFail,
       EmitSave, ReadOpen, StatusLoad, StatusReport, VerifyReport

(* The checkpoint a process holds after a step: the one it held, one newly *)
(* signed and without witnesses, or the one it held with one more witness. *)
LEMMA HeldAfterStep ==
    ASSUME TypeInv, [Next]_vars, NEW p \in Emitters, Holding(p)'
    PROVE  \/ Holding(p) /\ em[p].cp' = em[p].cp
           \/ /\ EmitSign(p)
              /\ em[p].cp' = NewRecord(BuildBody(em[p].mmr, em[p].signer, saved))
           \/ /\ RegisterOk(p)
              /\ Holding(p)
              /\ em[p].cp' = AddWitness(em[p].cp, WitnessOf(p))
<1> DEFINE Goal ==
           \/ Holding(p) /\ em[p].cp' = em[p].cp
           \/ /\ EmitSign(p)
              /\ em[p].cp' = NewRecord(BuildBody(em[p].mmr, em[p].signer, saved))
           \/ /\ RegisterOk(p)
              /\ Holding(p)
              /\ em[p].cp' = AddWitness(em[p].cp, WitnessOf(p))
<1> USE DEF Holding, Idle
<1>0. em \in [Emitters -> EmitStates]
  BY DEF TypeInv, TypeOK
<1>1. CASE UNCHANGED em
  BY <1>1
<1>2. ASSUME NEW q \in Emitters, Kill(q)
      PROVE  Goal
  BY <1>0, <1>2 DEF Kill
<1>3. CASE Crash
  BY <1>3 DEF Crash
<1>4. ASSUME NEW q \in Emitters, EmitOpen(q)
      PROVE  Goal
  <2>1. PICK signer : em' = [em EXCEPT ![q] = [pc |-> "opened", mmr |-> log,
                                               signer |-> signer]]
    BY <1>4, Zenon DEF EmitOpen
  <2> QED
    BY <1>0, <2>1
<1>5. ASSUME NEW q \in Emitters, EmitSign(q)
      PROVE  Goal
  BY <1>0, <1>5 DEF EmitSign
<1>6. ASSUME NEW q \in Emitters, EmitRefuse(q)
      PROVE  Goal
  BY <1>0, <1>6 DEF EmitRefuse
<1>7. ASSUME NEW q \in Emitters, EmitTarget(q)
      PROVE  Goal
  BY <1>0, <1>7 DEF EmitTarget
<1>8. ASSUME NEW q \in Emitters, RegisterOk(q)
      PROVE  Goal
  <2>1. em[q] \in RegisterStates
    BY <1>8, WitnessType DEF RegisterOk
  <2>2. AfterSuccess(q).cp = AddWitness(em[q].cp, WitnessOf(q))
    BY <2>1 DEF AfterSuccess, RegisterStates
  <2>3. em' = [em EXCEPT ![q] = AfterSuccess(q)]
    BY <1>8 DEF RegisterOk
  <2>4. CASE p = q
    BY <1>0, <1>8, <2>1, <2>2, <2>3, <2>4 DEF RegisterStates
  <2>5. CASE p # q
    BY <1>0, <2>3, <2>5
  <2> QED
    BY <2>4, <2>5
<1>9. ASSUME NEW q \in Emitters, RegisterFail(q)
      PROVE  Goal
  <2>1. em[q] \in RegisterStates
    BY <1>9, WitnessType DEF RegisterFail
  <2>2. em' = [em EXCEPT ![q] = AfterFailure(q)]
    BY <1>9 DEF RegisterFail
  <2>3. AfterFailure(q).pc = "idle" \/ AfterFailure(q).cp = em[q].cp
    BY <2>1 DEF AfterFailure, RegisterStates
  <2> QED
    BY <1>0, <2>1, <2>2, <2>3 DEF RegisterStates
<1>10. ASSUME NEW q \in Emitters, EmitSave(q)
       PROVE  Goal
  BY <1>0, <1>10 DEF EmitSave
<1> QED
  BY <1>1, <1>2, <1>3, <1>4, <1>5, <1>6, <1>7, <1>8, <1>9, <1>10
     DEF Next, Emit, vars, AppendRecord, Restore, InitConfig, ReadOpen,
         StatusLoad, StatusReport, VerifyReport

(* A checkpoint is saved only by the process that held it.                 *)
LEMMA SavedAfterStep ==
    ASSUME TypeInv, [Next]_vars
    PROVE  \/ saved' = saved
           \/ \E p \in Emitters :
                EmitSave(p) /\ Holding(p) /\ saved' = Put(saved, em[p].cp)
BY DEF Next, Emit, vars, AppendRecord, Kill, Crash, Restore, InitConfig,
       EmitOpen, EmitSign, EmitRefuse, EmitTarget, RegisterOk, RegisterFail,
       EmitSave, ReadOpen, StatusLoad, StatusReport, VerifyReport, Holding

LEMMA NextWitnessInv == TypeInv /\ WitnessInv /\ [Next]_vars => WitnessInv'
<1> SUFFICES ASSUME TypeInv, WitnessInv, [Next]_vars
             PROVE  WitnessInv'
  OBVIOUS
<1>1. registered \subseteq registered'
  BY RegisteredGrows
<1>2. ASSUME NEW p \in Emitters, Holding(p)'
      PROVE  Genuine(em[p].cp)'
  <2>1. CASE Holding(p) /\ em[p].cp' = em[p].cp
    BY <1>1, <2>1 DEF WitnessInv, Genuine
  <2>2. CASE em[p].cp' = NewRecord(BuildBody(em[p].mmr, em[p].signer, saved))
    BY <2>2 DEF NewRecord, Genuine
  <2>3. CASE /\ RegisterOk(p)
             /\ Holding(p)
             /\ em[p].cp' = AddWitness(em[p].cp, WitnessOf(p))
    <3>1. WitnessOf(p) \in registered' /\ WitnessOf(p).digest = Digest(em[p].cp)
      BY <2>3 DEF RegisterOk, WitnessOf
    <3> QED
      BY <1>1, <2>3, <3>1 DEF WitnessInv, Genuine, AddWitness, Digest
  <2> QED
    BY <1>2, <2>1, <2>2, <2>3, HeldAfterStep
<1>3. WitnessesGenuine'
  BY <1>1, SavedAfterStep DEF WitnessInv, WitnessesGenuine, Genuine, Put
<1> QED
  BY <1>2, <1>3 DEF WitnessInv

(* A checkpoint shows only witnesses issued for that very checkpoint, in   *)
(* every interleaving of emits, failures and retries.                      *)
THEOREM WitnessesAreGenuine == Spec => []WitnessesGenuine
<1>1. Init => WitnessInv
  BY DEF Init, WitnessInv, WitnessesGenuine, Holding, Idle
<1>2. WitnessInv => WitnessesGenuine
  BY DEF WitnessInv
<1> QED
  BY <1>1, <1>2, TypeCorrect, NextWitnessInv, PTL DEF Spec

-----------------------------------------------------------------------------
(* --require-ts                                                            *)

(* Stamps tell the checkpoints that are held apart, and a process that     *)
(* requires its services has a witness of each one it has been through.    *)
StrictInv ==
    /\ \A p \in Emitters : Holding(p) => em[p].cp.body.stamp <= stamp
    /\ \A p, q \in Emitters :
         Holding(p) /\ Holding(q) /\ p # q =>
             em[p].cp.body.stamp # em[q].cp.body.stamp
    /\ \A p \in Emitters :
         em[p].pc = "register" /\ em[p].requireTs =>
             \A i \in 1..(em[p].next - 1) :
                 \E w \in em[p].cp.witnesses : w.ts = em[p].targets[i]

LEMMA StampGrows ==
    ASSUME TypeInv, [Next]_vars
    PROVE  stamp \in Nat /\ stamp' \in Nat /\ stamp <= stamp'
<1>1. stamp \in 0..MaxEmits /\ MaxEmits \in Nat
  BY BoundAssumption DEF TypeInv, TypeOK
<1>2. stamp' = stamp \/ stamp' = stamp + 1
  BY DEF Next, Emit, vars, AppendRecord, Kill, Crash, Restore, InitConfig,
         EmitOpen, EmitSign, EmitRefuse, EmitTarget, RegisterOk, RegisterFail,
         EmitSave, ReadOpen, StatusLoad, StatusReport, VerifyReport
<1> QED
  BY <1>1, <1>2

(* The body a process holds after a step is the one it held, or new.       *)
LEMMA BodyAfterStep ==
    ASSUME TypeInv, [Next]_vars, NEW p \in Emitters, Holding(p)'
    PROVE  \/ /\ Holding(p)
              /\ em'[p].cp.body = em[p].cp.body
           \/ /\ EmitSign(p)
              /\ em'[p].cp.body.stamp = stamp + 1
              /\ stamp' = stamp + 1
<1>1. CASE Holding(p) /\ em[p].cp' = em[p].cp
  BY <1>1
<1>2. CASE /\ EmitSign(p)
           /\ em[p].cp' = NewRecord(BuildBody(em[p].mmr, em[p].signer, saved))
  BY <1>2 DEF EmitSign, NewRecord, BuildBody
<1>3. CASE /\ RegisterOk(p)
           /\ Holding(p)
           /\ em[p].cp' = AddWitness(em[p].cp, WitnessOf(p))
  BY <1>3 DEF AddWitness
<1> QED
  BY <1>1, <1>2, <1>3, HeldAfterStep

(* A process that registers after a step did not move, begins, has a       *)
(* witness more, or does not require one.                                  *)
LEMMA RegisterAfterStep ==
    ASSUME TypeInv, [Next]_vars, NEW p \in Emitters, em'[p].pc = "register"
    PROVE  \/ em'[p] = em[p]
           \/ em'[p].next = 1
           \/ Registering(p) /\ em'[p] = AfterSuccess(p)
           \/ ~em'[p].requireTs
<1> DEFINE Goal == \/ em'[p] = em[p]
                   \/ em'[p].next = 1
                   \/ Registering(p) /\ em'[p] = AfterSuccess(p)
                   \/ ~em'[p].requireTs
<1>0. em \in [Emitters -> EmitStates]
  BY DEF TypeInv, TypeOK
<1>1. CASE UNCHANGED em
  BY <1>1
<1>2. CASE Crash
  BY <1>2 DEF Crash, Idle
<1>3. ASSUME NEW q \in Emitters, NEW e, em' = [em EXCEPT ![q] = e],
             p = q => e.pc # "register"
      PROVE  Goal
  <2>1. CASE p = q
    BY <1>0, <1>3, <2>1
  <2>2. CASE p # q
    BY <1>0, <1>3, <2>2
  <2> QED
    BY <2>1, <2>2
<1>4. ASSUME NEW q \in Emitters,
             \/ Kill(q) \/ EmitOpen(q) \/ EmitSign(q) \/ EmitRefuse(q)
             \/ EmitSave(q)
      PROVE  Goal
  <2>1. CASE Kill(q) \/ EmitRefuse(q) \/ EmitSave(q)
    BY <1>3, <2>1 DEF Kill, EmitRefuse, EmitSave, Idle
  <2>2. CASE EmitSign(q)
    BY <1>3, <2>2 DEF EmitSign
  <2>3. CASE EmitOpen(q)
    <3>1. PICK signer : em' = [em EXCEPT ![q] = [pc |-> "opened", mmr |-> log,
                                                 signer |-> signer]]
      BY <2>3, Zenon DEF EmitOpen
    <3> QED
      BY <1>3, <3>1
  <2> QED
    BY <1>4, <2>1, <2>2, <2>3
<1>5. ASSUME NEW q \in Emitters, EmitTarget(q)
      PROVE  Goal
  <2>1. CASE p = q
    BY <1>0, <1>5, <2>1 DEF EmitTarget
  <2>2. CASE p # q
    BY <1>0, <1>5, <2>2 DEF EmitTarget
  <2> QED
    BY <2>1, <2>2
<1>6. ASSUME NEW q \in Emitters, RegisterOk(q)
      PROVE  Goal
  BY <1>0, <1>6 DEF RegisterOk
<1>7. ASSUME NEW q \in Emitters, RegisterFail(q)
      PROVE  Goal
  <2>1. em[q] \in RegisterStates
    BY <1>7, WitnessType DEF RegisterFail
  <2>2. em' = [em EXCEPT ![q] = AfterFailure(q)]
    BY <1>7 DEF RegisterFail
  <2>3. CASE p # q
    BY <1>0, <2>2, <2>3
  <2>4. CASE p = q
    <3>1. em'[p] = AfterFailure(p)
      BY <1>0, <2>2, <2>4
    <3>2. ~em[p].requireTs
      BY <3>1 DEF AfterFailure, Idle
    <3>3. AfterFailure(p).requireTs = em[p].requireTs
      BY <2>1, <2>4, <3>2 DEF AfterFailure, RegisterStates
    <3> QED
      BY <3>1, <3>2, <3>3
  <2> QED
    BY <2>3, <2>4
<1> QED
  BY <1>1, <1>2, <1>4, <1>5, <1>6, <1>7
     DEF Next, Emit, vars, AppendRecord, Restore, InitConfig, ReadOpen,
         StatusLoad, StatusReport, VerifyReport

LEMMA NextStrictInv == TypeInv /\ StrictInv /\ [Next]_vars => StrictInv'
<1> SUFFICES ASSUME TypeInv, StrictInv, [Next]_vars
             PROVE  StrictInv'
  OBVIOUS
<1>0. ASSUME NEW p \in Emitters, Holding(p)
      PROVE  em[p].cp.body.stamp \in Nat
  BY <1>0, HeldRecord, BoundAssumption DEF Bodies
<1>1. ASSUME NEW p \in Emitters, Holding(p)'
      PROVE  (em[p].cp.body.stamp <= stamp)'
  BY <1>0, <1>1, BodyAfterStep, StampGrows DEF StrictInv
<1>2. ASSUME NEW p \in Emitters, NEW q \in Emitters,
             Holding(p)', Holding(q)', p # q
      PROVE  em'[p].cp.body.stamp # em'[q].cp.body.stamp
  <2>1. ~(EmitSign(p) /\ EmitSign(q))
    <3> SUFFICES ASSUME EmitSign(p), EmitSign(q)
                 PROVE  FALSE
      OBVIOUS
    <3>1. em'[q] = em[q] /\ em[q].pc = "opened"
      BY <1>2 DEF EmitSign, TypeInv, TypeOK
    <3> QED
      BY <1>2, <3>1 DEF Holding
  <2>2. CASE Holding(p) /\ em'[p].cp.body = em[p].cp.body
    <3>1. em[p].cp.body.stamp <= stamp /\ em[p].cp.body.stamp \in Nat
      BY <1>0, <2>2 DEF StrictInv
    <3> QED
      BY <1>2, <2>2, <3>1, BodyAfterStep, StampGrows DEF StrictInv
  <2>3. CASE EmitSign(p) /\ em'[p].cp.body.stamp = stamp + 1
    <3>1. Holding(q) /\ em'[q].cp.body = em[q].cp.body
      BY <1>2, <2>1, <2>3, BodyAfterStep
    <3>2. em[q].cp.body.stamp <= stamp /\ em[q].cp.body.stamp \in Nat
      BY <1>0, <3>1 DEF StrictInv
    <3> QED
      BY <2>3, <3>1, <3>2, StampGrows
  <2> QED
    BY <1>2, <2>2, <2>3, BodyAfterStep
<1>3. ASSUME NEW p \in Emitters, em'[p].pc = "register", em'[p].requireTs,
             NEW i \in 1..(em'[p].next - 1)
      PROVE  \E w \in em'[p].cp.witnesses : w.ts = em'[p].targets[i]
  <2>1. CASE em'[p] = em[p]
    BY <1>3, <2>1 DEF StrictInv
  <2>2. CASE em'[p].next = 1
    BY <1>3, <2>2
  <2>3. CASE Registering(p) /\ em'[p] = AfterSuccess(p)
    <3>1. em[p] \in RegisterStates
      BY <2>3, WitnessType
    <3>2. /\ em'[p].next = em[p].next + 1
          /\ em'[p].targets = em[p].targets
          /\ em'[p].requireTs = em[p].requireTs
          /\ em'[p].cp = AddWitness(em[p].cp, WitnessOf(p))
      BY <2>3, <3>1 DEF AfterSuccess, RegisterStates
    <3>3. em[p].next \in Nat /\ em[p].pc = "register"
      BY <3>1 DEF RegisterStates
    <3>4. em'[p].cp.witnesses = em[p].cp.witnesses \cup {WitnessOf(p)}
      BY <3>2 DEF AddWitness
    <3>5. CASE i = em[p].next
      <4>1. WitnessOf(p).ts = em[p].targets[i]
        BY <3>5 DEF WitnessOf
      <4> QED
        BY <3>2, <3>4, <4>1
    <3>6. CASE i \in 1..(em[p].next - 1)
      BY <1>3, <3>2, <3>3, <3>4, <3>6 DEF StrictInv
    <3> QED
      BY <1>3, <3>2, <3>3, <3>5, <3>6
  <2> QED
    BY <1>3, <2>1, <2>2, <2>3, RegisterAfterStep
<1> QED
  BY <1>1, <1>2, <1>3 DEF StrictInv

(* --require-ts: whatever other emits, faults and services do meanwhile, a *)
(* checkpoint such an emit saves is witnessed by each of its services.     *)
THEOREM StrictIsWitnessed == Spec => StrictMeansWitnessed
<1>1. Init => StrictInv
  BY DEF Init, StrictInv, Holding, Idle
<1> DEFINE Strict ==
      \A p \in Emitters, cp \in saved' \ saved :
         /\ em[p].pc = "register"
         /\ em[p].requireTs
         /\ cp.body.stamp = em[p].cp.body.stamp
         => \A i \in 1..Len(em[p].targets) :
              \E w \in cp.witnesses : w.ts = em[p].targets[i]
<1>2. TypeInv /\ StrictInv /\ [Next]_vars => [Strict]_vars
  <2> SUFFICES ASSUME TypeInv, StrictInv, [Next]_vars,
                      NEW p \in Emitters, NEW cp \in saved' \ saved,
                      em[p].pc = "register", em[p].requireTs,
                      cp.body.stamp = em[p].cp.body.stamp,
                      NEW i \in 1..Len(em[p].targets)
               PROVE  \E w \in cp.witnesses : w.ts = em[p].targets[i]
    OBVIOUS
  <2>1. PICK q \in Emitters :
          EmitSave(q) /\ Holding(q) /\ saved' = Put(saved, em[q].cp)
    BY SavedAfterStep
  <2>2. cp = em[q].cp
    BY <2>1 DEF Put
  <2>3. p = q
    BY <2>1, <2>2 DEF StrictInv, Holding
  <2>4. em[p].next > Len(em[p].targets)
    BY <2>1, <2>3 DEF EmitSave
  <2>5. em[p] \in RegisterStates
    BY DEF TypeInv, TypeOK, EmitStates, Idle, OpenedStates, SignedStates,
           RegisterStates
  <2>6. i \in 1..(em[p].next - 1)
    BY <2>4, <2>5 DEF RegisterStates
  <2> QED
    BY <2>2, <2>3, <2>6 DEF StrictInv
<1> QED
  BY <1>1, <1>2, TypeCorrect, NextStrictInv, PTL DEF Spec, StrictMeansWitnessed

-----------------------------------------------------------------------------
(* What a clean verify means                                               *)

(* checkpoints/ has one file a size.                                       *)
OneFileASize ==
    \A c, d \in saved : c.body.size = d.body.size => c = d

LEMMA NextOneFileASize ==
    TypeInv /\ OneFileASize /\ [Next]_vars => OneFileASize'
BY SavedAfterStep DEF OneFileASize, Put

LEMMA LeastNatural ==
    ASSUME NEW S, S \subseteq Nat, S # {}
    PROVE  \E n \in S : \A m \in S : n <= m
<1> DEFINE Less == OpToRel(<, Nat)
<1>1. Less = {pair \in Nat \X Nat : pair[1] < pair[2]}
  BY DEF OpToRel
<1>2. \A m, n \in Nat : m < n => <<m, n>> \in Less
  BY <1>1
<1> HIDE DEF Less
<1>3. IsWellFoundedOn(Less, Nat)
  BY NatLessThanWellFounded DEF Less
<1>4. PICK n \in S : \A m \in S : <<m, n>> \notin Less
  BY <1>3, WFMin
<1>5. ASSUME NEW m \in S
      PROVE  n <= m
  <2>1. m \in Nat /\ n \in Nat /\ ~(m < n)
    BY <1>2, <1>4
  <2> QED
    BY <2>1
<1> QED
  BY <1>5

(* A saved checkpoint that is not the newest is the predecessor of one.    *)
LEMMA SuccessorExists ==
    ASSUME TypeInv, OneFileASize, NEW cp \in saved, cp # Latest(saved)
    PROVE  \E d \in saved : Below(d, saved) # {} /\ Latest(Below(d, saved)) = cp
<1>1. \A c \in saved : c.body.size \in Nat
  BY SizesAreNat DEF TypeInv, TypeOK, CheckpointRecord, Bodies
<1> DEFINE Above == {c \in saved : cp.body.size < c.body.size}
           AboveSizes == {c.body.size : c \in Above}
<1>2. Latest(saved) \in Above
  BY <1>1, LatestIsSaved DEF OneFileASize
<1>3. AboveSizes \subseteq Nat /\ AboveSizes # {}
  BY <1>1, <1>2
<1>4. PICK n \in AboveSizes : \A m \in AboveSizes : n <= m
  <2> HIDE DEF AboveSizes
  <2> QED
    BY <1>3, LeastNatural
<1>5. PICK d \in Above : d.body.size = n
  BY <1>4
<1>6. cp \in Below(d, saved)
  BY <1>5 DEF Below
<1>7. ASSUME NEW c \in Below(d, saved)
      PROVE  c.body.size <= cp.body.size
  <2>1. c \in saved /\ c.body.size < d.body.size
    BY <1>7 DEF Below
  <2>2. c \notin Above
    BY <1>1, <1>4, <1>5, <2>1
  <2> QED
    BY <1>1, <2>1, <2>2
<1>8. ASSUME NEW c \in Below(d, saved),
             \A e \in Below(d, saved) : e.body.size <= c.body.size
      PROVE  c = cp
  <2>1. c \in saved
    BY <1>8 DEF Below
  <2>2. c.body.size <= cp.body.size /\ cp.body.size <= c.body.size
    BY <1>6, <1>7, <1>8
  <2> QED
    BY <1>1, <2>1, <2>2 DEF OneFileASize
<1>9. Latest(Below(d, saved)) = cp
  BY <1>6, <1>7, <1>8 DEF Latest
<1> QED
  BY <1>5, <1>6, <1>9

(* A clean verify is sound below the newest checkpoint: an older one that  *)
(* reaches beyond the log fails as the predecessor of another.             *)
THEOREM VerifyIsSound == Spec => []VerifySound
<1>1. Init => OneFileASize
  BY DEF Init, OneFileASize
<1>2. TypeInv /\ OneFileASize => VerifySound
  <2> SUFFICES ASSUME TypeInv, OneFileASize, NEW signer \in Signers,
                      VerifyAll(saved, rd.mmr, signer, Services),
                      NEW cp \in saved
               PROVE  IF cp.body.size <= Size(rd.mmr)
                      THEN cp.body.root = RootAt(rd.mmr, cp.body.size)
                      ELSE cp = Latest(saved)
    BY DEF VerifySound
  <2>1. \A d \in saved : VerifyOne(d, saved, rd.mmr, signer, Services)
    BY DEF VerifyAll
  <2>2. CASE cp.body.size <= Size(rd.mmr)
    BY <2>1, <2>2 DEF VerifyOne, IncludedOrSkipped
  <2>3. CASE ~(cp.body.size <= Size(rd.mmr))
    <3> SUFFICES ASSUME cp # Latest(saved)
                 PROVE  FALSE
      BY <2>3
    <3>1. PICK d \in saved :
            Below(d, saved) # {} /\ Latest(Below(d, saved)) = cp
      BY SuccessorExists
    <3>2. Consistent(cp, d, rd.mmr)
      BY <2>1, <3>1 DEF VerifyOne
    <3> QED
      BY <2>3, <3>2 DEF Consistent
  <2> QED
    BY <2>2, <2>3
<1> QED
  BY <1>1, <1>2, TypeCorrect, NextOneFileASize, PTL DEF Spec

-----------------------------------------------------------------------------
(* Prefixes of the log                                                     *)

Sound(body) == body.root # <<>> /\ body.size = Size(body.root)

Kept(root) == ~lossy => IsPrefix(root, log)

(* While no record is at risk the whole log is on disk, and what a process *)
(* read, holds, saved or gave out is a prefix of it.  The part about the   *)
(* processes is what makes the rest inductive: they publish what they read *)
(* some steps ago.                                                         *)
PrefixInv ==
    /\ ~lossy => durable = Len(log)
    /\ \A p \in Emitters : em[p].pc = "opened" => Kept(em[p].mmr)
    /\ \A p \in Emitters : Holding(p) =>
         Sound(em[p].cp.body) /\ Kept(em[p].cp.body.root)
    /\ \A cp \in saved : Sound(cp.body) /\ Kept(cp.body.root)
    /\ \A w \in registered : Sound(w.digest) /\ Kept(w.digest.root)

LEMMA InitPrefixInv == Init => PrefixInv
BY DEF Init, PrefixInv, Idle, Holding

LEMMA LogIsSeq ==
    ASSUME TypeInv
    PROVE  log \in Seq(Capsules) /\ Len(log) \in Nat
BY DEF TypeInv, TypeOK, Logs

(* A step that leaves no record at risk leaves the log or appends to it:   *)
(* a power cut finds everything on disk.                                   *)
LEMMA LogAfterStep ==
    ASSUME TypeInv, PrefixInv, [Next]_vars, ~lossy'
    PROVE  /\ ~lossy
           /\ durable' = Len(log')
           /\ log' = log \/ \E c \in Capsules : log' = Append(log, c)
<1> DEFINE Goal == /\ ~lossy
                   /\ durable' = Len(log')
                   /\ log' = log \/ \E c \in Capsules : log' = Append(log, c)
<1>1. CASE AppendRecord
  <2>1. PICK c \in Capsules, consequential \in BOOLEAN :
          /\ log' = Append(log, c)
          /\ durable' = Flushed(consequential)
          /\ lossy' = (lossy \/ ~consequential)
    BY <1>1 DEF AppendRecord
  <2>2. Len(log') = Len(log) + 1
    BY <2>1, LogIsSeq, AppendProperties
  <2>3. ~lossy /\ consequential
    BY <2>1
  <2> QED
    BY <2>1, <2>2, <2>3 DEF Flushed
<1>2. CASE Crash
  <2>1. PICK n \in durable..Len(log) : log' = SubSeq(log, 1, n) /\ durable' = n
    BY <1>2 DEF Crash
  <2>2. ~lossy /\ durable = Len(log)
    BY <1>2 DEF Crash, PrefixInv
  <2>3. n = Len(log)
    BY <2>1, <2>2, LogIsSeq
  <2>4. log' = log
    BY <2>1, <2>3, LogIsSeq, SubSeqFull
  <2> QED
    BY <2>1, <2>2, <2>3, <2>4
<1>3. CASE UNCHANGED <<log, durable, lossy>>
  BY <1>3 DEF PrefixInv
<1>4. ASSUME NEW p \in Emitters, Kill(p) \/ Emit(p)
      PROVE  UNCHANGED <<log, durable, lossy>>
  BY <1>4 DEF Kill, Emit, EmitOpen, EmitSign, EmitRefuse, EmitTarget,
              RegisterOk, RegisterFail, EmitSave
<1> QED
  BY <1>1, <1>2, <1>3, <1>4
     DEF Next, vars, Restore, InitConfig, ReadOpen, StatusLoad, StatusReport,
         VerifyReport

LEMMA KeptGrows ==
    ASSUME TypeInv, PrefixInv, [Next]_vars, NEW root \in Seq(Capsules), Kept(root)
    PROVE  ~lossy' => IsPrefix(root, log')
<1> SUFFICES ASSUME ~lossy'
             PROVE  IsPrefix(root, log')
  OBVIOUS
<1>1. IsPrefix(root, log)
  BY LogAfterStep DEF Kept
<1>2. CASE log' = log
  BY <1>1, <1>2
<1>3. ASSUME NEW c \in Capsules, log' = Append(log, c)
      PROVE  IsPrefix(root, log')
  BY <1>1, <1>3, LogIsSeq, PrefixFacts
<1> QED
  BY <1>2, <1>3, LogAfterStep

(* A process that has opened the ledger did so now, or before.             *)
LEMMA OpenedAfterStep ==
    ASSUME TypeInv, [Next]_vars, NEW p \in Emitters, em'[p].pc = "opened"
    PROVE  \/ em[p].pc = "opened" /\ em'[p].mmr = em[p].mmr
           \/ em'[p].mmr = log
<1> DEFINE Goal == \/ em[p].pc = "opened" /\ em'[p].mmr = em[p].mmr
                   \/ em'[p].mmr = log
<1>0. em \in [Emitters -> EmitStates]
  BY DEF TypeInv, TypeOK
<1>1. CASE UNCHANGED em
  BY <1>1
<1>2. CASE Crash
  BY <1>2 DEF Crash, Idle
<1>3. ASSUME NEW q \in Emitters, EmitOpen(q)
      PROVE  Goal
  <2>1. PICK signer : em' = [em EXCEPT ![q] = [pc |-> "opened", mmr |-> log,
                                               signer |-> signer]]
    BY <1>3, Zenon DEF EmitOpen
  <2> QED
    BY <1>0, <2>1
<1>4. ASSUME NEW q \in Emitters, NEW e, em' = [em EXCEPT ![q] = e],
             e.pc # "opened"
      PROVE  Goal
  <2>1. CASE p = q
    BY <1>0, <1>4, <2>1
  <2>2. CASE p # q
    BY <1>0, <1>4, <2>2
  <2> QED
    BY <2>1, <2>2
<1>5. ASSUME NEW q \in Emitters,
             \/ Kill(q) \/ EmitSign(q) \/ EmitRefuse(q) \/ EmitTarget(q)
             \/ EmitSave(q)
      PROVE  Goal
  <2>1. CASE Kill(q) \/ EmitRefuse(q) \/ EmitSave(q)
    BY <1>4, <2>1 DEF Kill, EmitRefuse, EmitSave, Idle
  <2>2. CASE EmitSign(q)
    BY <1>4, <2>2 DEF EmitSign
  <2>3. CASE EmitTarget(q)
    BY <1>4, <2>3 DEF EmitTarget
  <2> QED
    BY <1>5, <2>1, <2>2, <2>3
<1>6. ASSUME NEW q \in Emitters, RegisterOk(q) \/ RegisterFail(q)
      PROVE  Goal
  <2>1. em[q] \in RegisterStates
    BY <1>6, WitnessType DEF RegisterOk, RegisterFail
  <2>2. AfterSuccess(q).pc # "opened" /\ AfterFailure(q).pc # "opened"
    BY <2>1 DEF AfterSuccess, AfterFailure, RegisterStates, Idle
  <2> QED
    BY <1>4, <1>6, <2>2 DEF RegisterOk, RegisterFail
<1> QED
  BY <1>1, <1>2, <1>3, <1>5, <1>6
     DEF Next, Emit, vars, AppendRecord, Restore, InitConfig, ReadOpen,
         StatusLoad, StatusReport, VerifyReport

(* A service witnesses only what a registering process holds.              *)
LEMMA RegisteredAfterStep ==
    ASSUME TypeInv, [Next]_vars
    PROVE  \/ registered' = registered
           \/ \E p \in Emitters :
                /\ Registering(p)
                /\ Holding(p)
                /\ registered' = registered \cup {WitnessOf(p)}
                /\ WitnessOf(p).digest = em[p].cp.body
                /\ UNCHANGED <<log, saved, lossy>>
BY DEF Next, Emit, vars, AppendRecord, Kill, Crash, Restore, InitConfig,
       EmitOpen, EmitSign, EmitRefuse, EmitTarget, RegisterOk, RegisterFail,
       EmitSave, ReadOpen, StatusLoad, StatusReport, VerifyReport, Registering,
       Holding,
       WitnessOf, Digest

(* What is signed is sound, and the log it was read from.                  *)
LEMMA SignedIsSound ==
    ASSUME TypeInv, NEW p \in Emitters, EmitSign(p)
    PROVE  LET body == BuildBody(em[p].mmr, em[p].signer, saved) IN
             /\ em[p].mmr \in Logs
             /\ Sound(body)
             /\ body.root = em[p].mmr
<1>1. em[p] \in OpenedStates
  BY DEF EmitSign, TypeInv, TypeOK, EmitStates, Idle, OpenedStates,
         SignedStates, RegisterStates
<1>2. em[p].mmr \in Logs
  BY <1>1 DEF OpenedStates
<1> QED
  BY <1>2, WholeRoot DEF EmitSign, Emittable, BuildBody, Sound

LEMMA NextPrefixInv == TypeInv /\ PrefixInv /\ [Next]_vars => PrefixInv'
<1> SUFFICES ASSUME TypeInv, PrefixInv, [Next]_vars
             PROVE  PrefixInv'
  OBVIOUS
<1> USE DEF Kept
<1>1. (~lossy => durable = Len(log))'
  BY LogAfterStep
<1>2. \A body \in Bodies : body.root \in Seq(Capsules)
  BY DEF Bodies, Logs
<1>3. ASSUME NEW p \in Emitters, em'[p].pc = "opened"
      PROVE  Kept(em[p].mmr)'
  <2>1. CASE em[p].pc = "opened" /\ em'[p].mmr = em[p].mmr
    <3>1. em[p].mmr \in Seq(Capsules)
      BY <2>1 DEF TypeInv, TypeOK, EmitStates, Idle, OpenedStates,
                  SignedStates, RegisterStates, Logs
    <3> QED
      BY <2>1, <3>1, KeptGrows DEF PrefixInv
  <2>2. CASE em'[p].mmr = log
    BY <2>2, LogIsSeq, PrefixFacts, KeptGrows
  <2> QED
    BY <1>3, <2>1, <2>2, OpenedAfterStep
<1>4. ASSUME NEW p \in Emitters, Holding(p)'
      PROVE  (Sound(em[p].cp.body) /\ Kept(em[p].cp.body.root))'
  <2>1. CASE Holding(p) /\ em[p].cp'.body = em[p].cp.body
    BY <1>2, <2>1, HeldRecord, KeptGrows DEF PrefixInv, Sound
  <2>2. CASE /\ EmitSign(p)
             /\ em[p].cp' = NewRecord(BuildBody(em[p].mmr, em[p].signer, saved))
    <3>1. Kept(em[p].mmr)
      BY <2>2 DEF PrefixInv, EmitSign
    <3>2. em[p].mmr \in Seq(Capsules)
      BY <2>2, SignedIsSound DEF Logs
    <3>3. ~lossy' => IsPrefix(em[p].mmr, log')
      BY <3>1, <3>2, KeptGrows
    <3> QED
      BY <2>2, <3>3, SignedIsSound DEF NewRecord, Sound
  <2> QED
    <3>1. CASE Holding(p) /\ em[p].cp' = em[p].cp
      BY <2>1, <3>1
    <3>2. CASE Holding(p) /\ em[p].cp' = AddWitness(em[p].cp, WitnessOf(p))
      BY <2>1, <3>2 DEF AddWitness
    <3> QED
      BY <1>4, <2>2, <3>1, <3>2, HeldAfterStep
<1>5. ASSUME NEW cp \in saved'
      PROVE  (Sound(cp.body) /\ Kept(cp.body.root))'
  <2>1. \/ cp \in saved
        \/ \E p \in Emitters : Holding(p) /\ cp = em[p].cp
    BY <1>5, SavedAfterStep DEF Put
  <2>2. cp.body \in Bodies /\ Sound(cp.body) /\ Kept(cp.body.root)
    BY <2>1, HeldRecord DEF PrefixInv, TypeInv, TypeOK, CheckpointRecord
  <2> QED
    BY <1>2, <2>2, KeptGrows DEF Sound
<1>6. ASSUME NEW w \in registered'
      PROVE  (Sound(w.digest) /\ Kept(w.digest.root))'
  <2>1. \/ w \in registered
        \/ \E p \in Emitters : Holding(p) /\ w.digest = em[p].cp.body
    BY <1>6, RegisteredAfterStep
  <2>2. w.digest \in Bodies /\ Sound(w.digest) /\ Kept(w.digest.root)
    BY <2>1, HeldRecord DEF PrefixInv, TypeInv, TypeOK, Witnesses
  <2> QED
    BY <1>2, <2>2, KeptGrows DEF Sound
<1> QED
  BY <1>1, <1>3, <1>4, <1>5, <1>6 DEF PrefixInv

-----------------------------------------------------------------------------
(* The lag warning                                                         *)

(* The MMR that status or verify holds may be old, but is no other log's.  *)
Reading == rd.pc \in {"status", "loaded", "verify"}

(* A checkpoint of the size that status loaded is still there, though an   *)
(* emit may have replaced the file.                                        *)
StillThere(cp) == \E c \in saved : c.body.size = cp.body.size

ReadInv ==
    /\ Reading => Kept(rd.mmr)
    /\ rd.pc = "loaded" => StillThere(rd.cp)

(* A process that has read the log did so now, or before.                  *)
LEMMA ReadAfterStep ==
    ASSUME TypeInv, [Next]_vars, Reading'
    PROVE  \/ Reading /\ rd'.mmr = rd.mmr
           \/ rd'.mmr = log /\ log' = log /\ lossy' = lossy
<1>1. CASE rd' = rd
  BY <1>1 DEF Reading
<1>2. ASSUME NEW p \in Emitters, Kill(p) \/ Emit(p)
      PROVE  rd' = rd
  BY <1>2 DEF Kill, Emit, EmitOpen, EmitSign, EmitRefuse, EmitTarget,
              RegisterOk, RegisterFail, EmitSave
<1>3. ASSUME NEW command \in Commands, ReadOpen(command)
      PROVE  rd'.mmr = log /\ log' = log /\ lossy' = lossy
  BY <1>3 DEF ReadOpen
<1>4. CASE Crash
  BY <1>4 DEF Crash, Idle, Reading
<1>5. CASE StatusReport \/ VerifyReport
  <2>1. rd'.pc = "reported"
    BY <1>5 DEF StatusReport, VerifyReport
  <2> QED
    BY <2>1 DEF Reading
<1>6. CASE StatusLoad
  BY <1>6 DEF StatusLoad, Reading
<1> QED
  BY <1>1, <1>2, <1>3, <1>4, <1>5, <1>6
     DEF Next, vars, AppendRecord, Restore, InitConfig

(* The checkpoint that status holds was loaded now, or before.             *)
LEMMA LoadedAfterStep ==
    ASSUME TypeInv, [Next]_vars, rd'.pc = "loaded"
    PROVE  \/ rd.pc = "loaded" /\ rd'.cp = rd.cp
           \/ /\ saved # {} /\ saved' = saved
              /\ rd'.cp = Latest(saved)
<1>1. ASSUME NEW p \in Emitters, Kill(p) \/ Emit(p)
      PROVE  rd' = rd
  BY <1>1 DEF Kill, Emit, EmitOpen, EmitSign, EmitRefuse, EmitTarget,
              RegisterOk, RegisterFail, EmitSave
<1>2. ASSUME NEW command \in Commands, ReadOpen(command)
      PROVE  rd'.pc # "loaded"
  BY <1>2, BoundAssumption DEF ReadOpen
<1>3. CASE Crash \/ StatusReport \/ VerifyReport
  BY <1>3 DEF Crash, StatusReport, VerifyReport, Idle
<1>4. CASE StatusLoad
  BY <1>4 DEF StatusLoad
<1> QED
  BY <1>1, <1>2, <1>3, <1>4 DEF Next, vars, AppendRecord, Restore, InitConfig

LEMMA NextReadInv ==
    TypeInv /\ PrefixInv /\ ReadInv /\ [Next]_vars => ReadInv'
<1> SUFFICES ASSUME TypeInv, PrefixInv, ReadInv, [Next]_vars
             PROVE  ReadInv'
  OBVIOUS
<1>1. ASSUME Reading' PROVE Kept(rd.mmr)'
  <2>1. CASE Reading /\ rd'.mmr = rd.mmr
    <3>1. rd.mmr \in Seq(Capsules)
      BY <2>1 DEF Reading, TypeInv, TypeOK, ReadStates, Idle, Logs
    <3> QED
      BY <2>1, <3>1, KeptGrows DEF ReadInv, Kept
  <2>2. CASE rd'.mmr = log /\ log' = log /\ lossy' = lossy
    BY <2>2, LogIsSeq, PrefixFacts DEF Kept
  <2> QED
    BY <1>1, <2>1, <2>2, ReadAfterStep
<1>2. ASSUME rd'.pc = "loaded" PROVE StillThere(rd.cp)'
  <2>1. CASE saved # {} /\ saved' = saved /\ rd'.cp = Latest(saved)
    BY <2>1, LatestIsSaved DEF StillThere
  <2>2. CASE rd.pc = "loaded" /\ rd'.cp = rd.cp
    <3>1. PICK c \in saved : c.body.size = rd.cp.body.size
      BY <2>2 DEF ReadInv, StillThere
    <3>2. \E d \in saved' : d.body.size = c.body.size
      BY SavedAfterStep DEF Put
    <3> QED BY <2>2, <3>1, <3>2 DEF StillThere
  <2> QED BY <1>2, <2>1, <2>2, LoadedAfterStep
<1> QED BY <1>1, <1>2 DEF ReadInv

(* The lag that status prints is there, however many emits and appends run *)
(* between its steps, as long as none saved a larger checkpoint since the  *)
(* load: the log it took is a prefix of the log there is.                  *)
THEOREM LagAlarmIsTrue == Spec => []NoFalseLagAlarm
<1>1. Init => ReadInv
  BY DEF Init, ReadInv, Reading, Idle
<1>2. ASSUME TypeInv, ReadInv
      PROVE  NoFalseLagAlarm
  <2> SUFFICES ASSUME ~lossy, rd.pc = "loaded", StatusWarns(rd.mmr, rd.cp),
                      \A cp \in saved : ~(cp.body.size > rd.cp.body.size)
               PROVE  Len(log) - LeafCount(Latest(saved).body.size)
                        > MaxLagEntries
    BY DEF NoFalseLagAlarm
  <2>0. saved # {} /\ Latest(saved).body.size = rd.cp.body.size
    <3>1. PICK c \in saved : c.body.size = rd.cp.body.size
      BY <1>2 DEF ReadInv, StillThere
    <3>2. /\ Latest(saved) \in saved /\ c.body.size <= Latest(saved).body.size
          /\ ~(Latest(saved).body.size > rd.cp.body.size)
      BY <1>2, <3>1, LatestIsSaved
    <3>3. c.body.size \in Nat /\ Latest(saved).body.size \in Nat
      BY <1>2, <3>2, SizesAreNat DEF TypeInv, TypeOK, CheckpointRecord, Bodies
    <3> QED BY <3>1, <3>2, <3>3
  <2>1. rd.mmr \in Seq(Capsules) /\ IsPrefix(rd.mmr, log)
    BY <1>2 DEF Reading, ReadInv, Kept, TypeInv, TypeOK, ReadStates, Idle,
                Logs
  <2>2. Len(rd.mmr) <= Len(log)
    BY <1>2, <2>1, LogIsSeq, PrefixByIndex
  <2>3. Latest(saved).body.size \in Sizes
    BY <1>2, <2>0, LatestIsSaved DEF CheckpointRecord, Bodies
  <2>4. LeafCount(Latest(saved).body.size) \in Nat
    <3>1. PICK n \in 0..MaxLog : Latest(saved).body.size = NodeCount(n)
      BY <2>3 DEF Sizes
    <3> QED
      BY <3>1, LeafCountOfSize
  <2>5. Len(rd.mmr) - LeafCount(Latest(saved).body.size) > MaxLagEntries
    BY <2>0 DEF StatusWarns, Lag
  <2>6. Len(rd.mmr) \in Nat /\ Len(log) \in Nat
    BY <1>2, <2>1, LogIsSeq
  <2> QED
    BY <2>2, <2>4, <2>5, <2>6, BoundAssumption
<1> QED
  BY <1>1, <1>2, InitPrefixInv, NextPrefixInv, NextReadInv, TypeCorrect, PTL
     DEF Spec

-----------------------------------------------------------------------------
(* False alarms of verify                                                  *)

(* The claim is about one emit at a time, and a checkpoint is longer than  *)
(* its predecessor.                                                        *)
OneEmitter == \A p, q \in Emitters : p = q

(* Each saved checkpoint names the root of the one below it, and what an   *)
(* emit is about to save is longer than the newest and names its root: it  *)
(* was the newest when it was read, and only this emit saves.              *)
ChainInv ==
    /\ \A cp \in saved : Below(cp, saved) # {} =>
         cp.body.prevRoot = Latest(Below(cp, saved)).body.root
    /\ \A p \in Emitters : Holding(p) /\ saved # {} =>
         /\ Latest(saved).body.size < em[p].cp.body.size
         /\ em[p].cp.body.prevRoot = Latest(saved).body.root

(* The newest gets a newer one: those below each are the same, and below   *)
(* the new one are all.                                                    *)
LEMMA PutOnTop ==
    ASSUME TypeInv, NEW cp \in CheckpointRecord,
           saved # {} => Latest(saved).body.size < cp.body.size
    PROVE  /\ Put(saved, cp) = saved \cup {cp}
           /\ \A c \in saved : Below(c, Put(saved, cp)) = Below(c, saved)
           /\ Below(cp, Put(saved, cp)) = saved
<1>1. cp.body.size \in Nat /\ \A c \in saved : c.body.size \in Nat
  BY SizesAreNat DEF TypeInv, TypeOK, CheckpointRecord, Bodies
<1>2. \A c \in saved : c.body.size < cp.body.size
  <2> SUFFICES ASSUME NEW c \in saved
               PROVE  c.body.size < cp.body.size
    OBVIOUS
  <2>1. Latest(saved) \in saved /\ c.body.size <= Latest(saved).body.size
    BY LatestIsSaved
  <2> QED
    BY <1>1, <2>1
<1>3. Put(saved, cp) = saved \cup {cp}
  BY <1>1, <1>2 DEF Put
<1> QED
  BY <1>1, <1>2, <1>3 DEF Below

LEMMA NextChainInv ==
    ASSUME OneEmitter, ~EqualSizeAllowed, TypeInv, ChainInv, [Next]_vars
    PROVE  ChainInv'
<1>1. ASSUME NEW p \in Emitters, Holding(p)', saved' = saved, saved # {}
      PROVE  /\ Latest(saved).body.size < em'[p].cp.body.size
             /\ em'[p].cp.body.prevRoot = Latest(saved).body.root
  <2>1. CASE Holding(p) /\ em[p].cp'.body = em[p].cp.body
    BY <1>1, <2>1 DEF ChainInv
  <2>2. CASE /\ EmitSign(p)
             /\ em[p].cp' = NewRecord(BuildBody(em[p].mmr, em[p].signer, saved))
    BY <1>1, <2>2 DEF EmitSign, Emittable, NewRecord, BuildBody
  <2>3. CASE Holding(p) /\ em[p].cp' = AddWitness(em[p].cp, WitnessOf(p))
    BY <2>1, <2>3 DEF AddWitness
  <2> QED
    BY <1>1, <2>1, <2>2, <2>3, HeldAfterStep
<1>2. CASE saved' = saved
  BY <1>1, <1>2 DEF ChainInv
<1>3. ASSUME NEW q \in Emitters, EmitSave(q), Holding(q),
             saved' = Put(saved, em[q].cp)
      PROVE  ChainInv'
  <2>1. em[q].cp \in CheckpointRecord
    BY <1>3, HeldRecord
  <2>2. saved # {} => Latest(saved).body.size < em[q].cp.body.size
    BY <1>3 DEF ChainInv
  <2>3. ASSUME NEW p \in Emitters
        PROVE  ~Holding(p)'
    <3>1. p = q /\ em' = [em EXCEPT ![q] = Idle]
      BY <1>3 DEF OneEmitter, EmitSave
    <3> QED
      BY <3>1 DEF Holding, Idle, TypeInv, TypeOK
  <2>4. ASSUME NEW cp \in saved', Below(cp, saved') # {}
        PROVE  cp.body.prevRoot = Latest(Below(cp, saved')).body.root
    <3>1. CASE cp \in saved
      BY <1>3, <2>1, <2>2, <2>4, <3>1, PutOnTop DEF ChainInv
    <3>2. CASE cp = em[q].cp
      <4>1. Below(cp, saved') = saved
        BY <1>3, <2>1, <2>2, <3>2, PutOnTop
      <4> QED
        BY <1>3, <2>4, <3>2, <4>1 DEF ChainInv
    <3> QED
      BY <1>3, <2>1, <2>2, <3>1, <3>2, PutOnTop
  <2> QED
    BY <2>3, <2>4 DEF ChainInv
<1> QED
  BY <1>2, <1>3, SavedAfterStep

(* Of the checkpoints below one, one is the largest.                       *)
LEMMA LatestBelow ==
    ASSUME TypeInv, NEW cp \in saved, Below(cp, saved) # {}
    PROVE  /\ Latest(Below(cp, saved)) \in saved
           /\ Latest(Below(cp, saved)).body.size < cp.body.size
           /\ \A d \in Below(cp, saved) :
                d.body.size <= Latest(Below(cp, saved)).body.size
<1> DEFINE Gaps == {cp.body.size - c.body.size : c \in Below(cp, saved)}
<1>1. \A c \in saved : c.body.size \in Nat
  BY SizesAreNat DEF TypeInv, TypeOK, CheckpointRecord, Bodies
<1>2. Gaps \subseteq Nat /\ Gaps # {}
  BY <1>1 DEF Below
<1>3. PICK n \in Gaps : \A m \in Gaps : n <= m
  <2> HIDE DEF Gaps
  <2> QED
    BY <1>2, LeastNatural
<1>4. PICK c \in Below(cp, saved) : n = cp.body.size - c.body.size
  BY <1>3
<1>5. ASSUME NEW d \in Below(cp, saved)
      PROVE  d.body.size <= c.body.size
  <2>1. n <= cp.body.size - d.body.size
    BY <1>3
  <2>2. d \in saved /\ c \in saved
    BY DEF Below
  <2>3. c.body.size \in Nat /\ d.body.size \in Nat /\ cp.body.size \in Nat
    BY <1>1, <2>2
  <2> HIDE DEF Gaps
  <2> QED
    BY <1>4, <2>1, <2>3
<1>6. /\ Latest(Below(cp, saved)) \in Below(cp, saved)
      /\ \A d \in Below(cp, saved) :
           d.body.size <= Latest(Below(cp, saved)).body.size
  BY <1>4, <1>5 DEF Latest
<1> QED
  BY <1>6 DEF Below

(* Two prefixes of one log agree as far as the shorter one goes.           *)
LEMMA CommitsTo ==
    ASSUME TypeInv, NEW mmr \in Logs, NEW body \in Bodies, Sound(body),
           IsPrefix(body.root, log), IsPrefix(mmr, log),
           body.size <= Size(mmr)
    PROVE  RootAt(mmr, body.size) = body.root
<1> DEFINE r == body.root
           n == Len(r)
<1>1. r \in Logs /\ r \in Seq(Capsules) /\ mmr \in Seq(Capsules)
  BY DEF Bodies, Logs
<1>2. n \in 0..MaxLog /\ Len(mmr) \in 0..MaxLog
  BY <1>1 DEF Logs
<1>3. LeafCount(body.size) = n /\ NodeCount(n) <= NodeCount(Len(mmr))
  BY <1>2, LeafCountOfSize DEF Sound, Size
<1>4. n <= Len(mmr)
  <2> SUFFICES ASSUME Len(mmr) < n
               PROVE  FALSE
    BY <1>2
  <2>1. NodeCount(Len(mmr)) < NodeCount(n)
    BY <1>2, NodeCountAssumption
  <2>2. NodeCount(Len(mmr)) \in Nat /\ NodeCount(n) \in Nat
    BY <1>2, NodeCountAssumption
  <2> QED
    BY <1>3, <2>1, <2>2
<1>5. /\ SubSeq(mmr, 1, n) \in Seq(Capsules)
      /\ Len(SubSeq(mmr, 1, n)) = n
      /\ \A i \in 1..n : SubSeq(mmr, 1, n)[i] = mmr[i]
  BY <1>1, <1>4, SubSeqOfLog
<1>6. /\ \A i \in 1..Len(mmr) : mmr[i] = log[i]
      /\ \A i \in 1..n : r[i] = log[i]
  BY <1>1, LogIsSeq, PrefixByIndex
<1>7. \A i \in 1..n : SubSeq(mmr, 1, n)[i] = r[i]
  BY <1>2, <1>4, <1>5, <1>6
<1>8. SubSeq(mmr, 1, n) = r
  BY <1>1, <1>5, <1>7, SeqExtensional
<1> QED
  BY <1>3, <1>8 DEF RootAt

(* verify cries rollback of no ledger that had no record at risk, with one *)
(* emit at a time whose checkpoints grow, unless two were saved since it   *)
(* took its MMR (checkpoint_cmd.py:196-250).  With two emits at once, or   *)
(* two checkpoints of one size, it may: the files it reads are then not    *)
(* each other's predecessors.                                              *)
THEOREM VerifyCriesTrue ==
    ASSUME OneEmitter, ~EqualSizeAllowed
    PROVE  Spec => []NoFalseAlarm
<1>1. Init => ChainInv /\ ReadInv /\ WitnessInv
  BY DEF Init, ChainInv, ReadInv, Reading, WitnessInv, WitnessesGenuine,
         Holding, Idle
<1>2. ASSUME TypeInv, WitnessInv, PrefixInv, ReadInv, ChainInv
      PROVE  NoFalseAlarm
  <2> SUFFICES ASSUME ~lossy, rd.pc = "verify",
                      \A cp \in saved : \/ cp = Latest(saved)
                                        \/ cp.body.size <= Size(rd.mmr),
                      NEW signer \in Signers,
                      \A cp \in saved : cp.body.key = signer,
                      NEW cp \in saved
               PROVE  VerifyOne(cp, saved, rd.mmr, signer, Services)
    BY DEF NoFalseAlarm, VerifyFails, VerifyAll
  <2>1. rd.mmr \in Logs /\ IsPrefix(rd.mmr, log)
    BY <1>2 DEF Reading, ReadInv, Kept, TypeInv, TypeOK, ReadStates, Idle
  <2>2. ASSUME NEW c \in saved, c.body.size <= Size(rd.mmr)
        PROVE  RootAt(rd.mmr, c.body.size) = c.body.root
    <3>1. /\ c.body \in Bodies /\ Sound(c.body)
          /\ IsPrefix(c.body.root, log)
      BY <1>2 DEF PrefixInv, Kept, TypeInv, TypeOK, CheckpointRecord
    <3> QED
      BY <1>2, <2>1, <2>2, <3>1, CommitsTo
  <2>3. ASSUME Below(cp, saved) # {}
        PROVE  Consistent(Latest(Below(cp, saved)), cp, rd.mmr)
    <3> DEFINE prev == Latest(Below(cp, saved))
    <3>1. prev \in saved /\ prev.body.size < cp.body.size
      BY <1>2, <2>3, LatestBelow
    <3>2. prev # Latest(saved)
      <4>1. cp.body.size <= Latest(saved).body.size
        BY <1>2, LatestIsSaved
      <4>2. cp.body.size \in Nat /\ prev.body.size \in Nat
        BY <1>2, <3>1, SizesAreNat DEF TypeInv, TypeOK, CheckpointRecord, Bodies
      <4> HIDE DEF prev
      <4> QED
        BY <3>1, <4>1, <4>2
    <3>3. prev.body.size <= Size(rd.mmr)
      BY <3>1, <3>2
    <3> QED
      BY <1>2, <2>2, <2>3, <3>1, <3>3 DEF ChainInv, Consistent
  <2>4. ASSUME NEW w \in cp.witnesses
        PROVE  ReceiptOk(w, Services)
    BY <1>2 DEF WitnessInv, WitnessesGenuine, ReceiptOk, TypeInv, TypeOK,
                Witnesses
  <2> QED
    BY <2>2, <2>3, <2>4 DEF VerifyOne, IncludedOrSkipped
<1>3. TypeInv /\ ChainInv /\ [Next]_vars => ChainInv'
  BY NextChainInv
<1> QED
  BY <1>1, <1>2, <1>3, InitPrefixInv, NextPrefixInv, NextReadInv,
     NextWitnessInv, TypeCorrect, PTL DEF Spec

-----------------------------------------------------------------------------
(* Failures of verify                                                      *)

(* Two prefixes of the log of one size are the same.                       *)
LEMMA SameSizeSameRoot ==
    ASSUME TypeInv, NEW r \in Logs, NEW t \in Logs,
           IsPrefix(r, log), IsPrefix(t, log), Size(r) = Size(t)
    PROVE  r = t
<1>1. Len(r) \in 0..MaxLog /\ Len(t) \in 0..MaxLog
  BY DEF Logs
<1>2. Len(r) = Len(t)
  BY <1>1, LeafCountOfSize DEF Size
<1> QED
  BY <1>2, LogIsSeq, PrefixFacts DEF Logs

(* A prefix of the log has no larger size.                                 *)
LEMMA PrefixIsNoLarger ==
    ASSUME TypeInv, NEW r \in Logs, IsPrefix(r, log)
    PROVE  Size(r) <= Size(log)
<1>1. log \in Logs /\ Len(r) <= Len(log)
  BY PrefixByIndex DEF TypeInv, TypeOK, Logs
<1>2. Len(r) \in 0..MaxLog /\ Len(log) \in 0..MaxLog
  BY <1>1 DEF Logs
<1>3. NodeCount(Len(r)) \in Nat /\ NodeCount(Len(log)) \in Nat
  BY <1>2, LeafCountOfSize
<1>4. CASE Len(r) = Len(log)
  BY <1>3, <1>4 DEF Size
<1>5. CASE Len(r) < Len(log)
  BY <1>2, <1>3, <1>5, NodeCountAssumption DEF Size
<1> QED BY <1>1, <1>2, <1>4, <1>5

(* The predecessor a checkpoint names is no larger, of the same log, and   *)
(* its size is among the saved ones, or it is the empty log.               *)
Linked(body) ==
    /\ body.prevSize <= body.size
    /\ body.prevSize = Size(body.prevRoot) /\ Kept(body.prevRoot)
    /\ body.prevSize # 0 => \E c \in saved : c.body.size = body.prevSize

ForkInv ==
    /\ \A cp \in saved : Linked(cp.body)
    /\ \A p \in Emitters : Holding(p) => Linked(em[p].cp.body)

LEMMA LinkedStays ==
    ASSUME TypeInv, PrefixInv, [Next]_vars, NEW body \in Bodies, Linked(body)
    PROVE  /\ body.prevSize <= body.size
           /\ body.prevSize = Size(body.prevRoot)
           /\ ~lossy' => IsPrefix(body.prevRoot, log')
           /\ body.prevSize # 0 => \E c \in saved' : c.body.size = body.prevSize
<1>1. body.prevRoot \in Seq(Capsules)
  BY DEF Bodies, Logs
<1>2. ~lossy' => IsPrefix(body.prevRoot, log')
  BY <1>1, KeptGrows DEF Linked
<1>3. \A c \in saved : \E d \in saved' : d.body.size = c.body.size
  BY SavedAfterStep DEF Put
<1> QED BY <1>2, <1>3 DEF Linked

(* What is signed names the newest checkpoint there is.                    *)
LEMMA SignedIsLinked ==
    ASSUME TypeInv, PrefixInv, NEW p \in Emitters, EmitSign(p)
    PROVE  Linked(BuildBody(em[p].mmr, em[p].signer, saved))
<1> DEFINE body == BuildBody(em[p].mmr, em[p].signer, saved)
<1>1. body.size = Size(em[p].mmr) /\ Size(em[p].mmr) \in Nat
  BY SignedIsSound, WholeRoot DEF BuildBody
<1>2. ASSUME saved = {} PROVE Linked(body)
  <2>1. body.prevSize = 0 /\ body.prevRoot = <<>>
    BY <1>2 DEF BuildBody
  <2>2. IsPrefix(<<>>, log)
    <3> DEFINE e == <<>>
    <3>1. e \in Seq(Capsules) /\ Len(e) = 0
      OBVIOUS
    <3> HIDE DEF e
    <3>2. Len(e) <= Len(log) /\ \A i \in 1..Len(e) : e[i] = log[i]
      BY <3>1, LogIsSeq
    <3>3. IsPrefix(e, log)
      BY <3>1, <3>2, LogIsSeq, PrefixByIndex
    <3> QED BY <3>3 DEF e
  <2>3. Size(<<>>) = 0
    BY NodeCountAssumption DEF Size
  <2> HIDE DEF body
  <2> QED BY <1>1, <2>1, <2>2, <2>3 DEF Linked, Kept
<1>3. ASSUME saved # {} PROVE Linked(body)
  <2>1. /\ body.prevSize = Latest(saved).body.size
        /\ body.prevRoot = Latest(saved).body.root
    BY <1>3 DEF BuildBody
  <2>2. Latest(saved) \in saved /\ Latest(saved).body.size \in Nat
    BY <1>3, LatestIsSaved, SizesAreNat DEF CheckpointRecord, Bodies
  <2>3. Latest(saved).body.size <= Size(em[p].mmr)
    BY <1>1, <1>3, <2>2 DEF EmitSign, Emittable
  <2>4. /\ Latest(saved).body.size = Size(Latest(saved).body.root)
        /\ Kept(Latest(saved).body.root)
    BY <2>2 DEF PrefixInv, Sound
  <2> HIDE DEF body
  <2> QED BY <1>1, <2>1, <2>2, <2>3, <2>4 DEF Linked
<1> QED BY <1>2, <1>3

LEMMA NextForkInv ==
    TypeInv /\ PrefixInv /\ ForkInv /\ [Next]_vars => ForkInv'
<1> SUFFICES ASSUME TypeInv, PrefixInv, ForkInv, [Next]_vars
             PROVE  ForkInv'
  OBVIOUS
<1>1. ASSUME NEW p \in Emitters, Holding(p)'
      PROVE  Linked(em[p].cp.body)'
  <2>1. CASE Holding(p) /\ em'[p].cp.body = em[p].cp.body
    <3>1. em[p].cp.body \in Bodies /\ Linked(em[p].cp.body)
      BY <2>1, HeldRecord DEF ForkInv
    <3> QED BY <2>1, <3>1, LinkedStays DEF Linked, Kept
  <2>2. CASE /\ EmitSign(p)
             /\ em[p].cp' = NewRecord(BuildBody(em[p].mmr, em[p].signer, saved))
    <3> DEFINE body == BuildBody(em[p].mmr, em[p].signer, saved)
    <3>1. body \in Bodies
      <4>1. em[p].mmr \in Logs /\ em[p].signer \in Signers
        BY <2>2 DEF EmitSign, TypeInv, TypeOK, EmitStates, Idle, OpenedStates,
                    SignedStates, RegisterStates
      <4> QED BY <2>2, <4>1, BodyType DEF EmitSign
    <3>2. Linked(body)
      BY <2>2, SignedIsLinked
    <3>3. em'[p].cp.body = body
      BY <2>2 DEF NewRecord
    <3> HIDE DEF body
    <3> QED BY <3>1, <3>2, <3>3, LinkedStays DEF Linked, Kept
  <2> QED
    <3>1. CASE Holding(p) /\ em[p].cp' = AddWitness(em[p].cp, WitnessOf(p))
      BY <2>1, <3>1 DEF AddWitness
    <3> QED BY <1>1, <2>1, <2>2, <3>1, HeldAfterStep
<1>2. ASSUME NEW cp \in saved'
      PROVE  Linked(cp.body)'
  <2>1. \/ cp \in saved
        \/ \E p \in Emitters : Holding(p) /\ cp = em[p].cp
    BY <1>2, SavedAfterStep DEF Put
  <2>2. cp.body \in Bodies /\ Linked(cp.body)
    BY <2>1, HeldRecord DEF ForkInv, TypeInv, TypeOK, CheckpointRecord
  <2> QED BY <2>2, LinkedStays DEF Linked, Kept
<1> QED BY <1>1, <1>2 DEF ForkInv

(* Where no two checkpoints name one predecessor and none its own size,    *)
(* each names the one below it: take the smallest that does not, naming X; *)
(* the smallest above X names X too.                                       *)
LEMMA NoForkNamesBelow ==
    ASSUME TypeInv, ForkInv,
           \A c, d \in saved : c # d => c.body.prevSize # d.body.prevSize,
           \A c \in saved : c.body.prevSize # c.body.size
    PROVE  \A cp \in saved : Below(cp, saved) # {} =>
             cp.body.prevSize = Latest(Below(cp, saved)).body.size
<1> DEFINE Named(c) == Below(c, saved) # {} =>
                         c.body.prevSize = Latest(Below(c, saved)).body.size
           Bad == {c \in saved : ~Named(c)}
           BadSizes == {c.body.size : c \in Bad}
<1> SUFFICES ASSUME Bad # {}
             PROVE  FALSE
  OBVIOUS
<1>1. \A c \in saved : c.body.size \in Nat /\ c.body.prevSize \in Nat
  BY SizesAreNat DEF TypeInv, TypeOK, CheckpointRecord, Bodies
<1>2. BadSizes \subseteq Nat /\ BadSizes # {}
  BY <1>1, Zenon
<1>3. PICK n \in BadSizes : \A m \in BadSizes : n <= m
  <2> HIDE DEF BadSizes
  <2> QED BY <1>2, LeastNatural
<1>4. PICK cp \in Bad : cp.body.size = n
  BY <1>3
<1>5. \A c \in saved : c.body.size < cp.body.size => Named(c)
  <2> SUFFICES ASSUME NEW c \in saved, ~Named(c)
               PROVE  ~(c.body.size < cp.body.size)
    OBVIOUS
  <2>1. c.body.size \in BadSizes
    BY Zenon
  <2>2. n <= c.body.size
    BY <1>3, <2>1
  <2>3. cp \in saved
    BY <1>4
  <2> HIDE DEF BadSizes, Bad, Named
  <2> QED BY <1>1, <1>4, <2>2, <2>3
<1>6. /\ cp \in saved /\ Below(cp, saved) # {}
      /\ cp.body.prevSize # Latest(Below(cp, saved)).body.size
  BY <1>4
<1> HIDE DEF BadSizes, Bad
<1> DEFINE X == cp.body.prevSize
           prev == Latest(Below(cp, saved))
           Above == {c \in saved : X < c.body.size}
           AboveSizes == {c.body.size : c \in Above}
<1>7. /\ prev \in saved /\ prev.body.size < cp.body.size
      /\ \A c \in Below(cp, saved) : c.body.size <= prev.body.size
  BY <1>6, LatestBelow
<1>8. X \in Nat /\ X < cp.body.size
  BY <1>1, <1>6 DEF ForkInv, Linked
<1>9. X # 0 => \E c \in saved : c.body.size = X
  BY <1>6 DEF ForkInv, Linked
<1>10. prev \in Above
  <2>1. X # 0 => X <= prev.body.size
    <3> SUFFICES ASSUME X # 0 PROVE X <= prev.body.size
      OBVIOUS
    <3>1. PICK c \in saved : c.body.size = X
      BY <1>9
    <3>2. c \in Below(cp, saved)
      BY <1>8, <3>1 DEF Below
    <3> HIDE DEF X, prev
    <3> QED BY <1>7, <3>1, <3>2
  <2>2. prev.body.size \in Nat /\ X # prev.body.size
    BY <1>1, <1>6, <1>7
  <2>3. X < prev.body.size
    <3> HIDE DEF X, prev
    <3> QED BY <1>8, <2>1, <2>2
  <2> QED BY <1>7, <2>3
<1>11. AboveSizes \subseteq Nat /\ AboveSizes # {}
  BY <1>1, <1>10
<1>12. PICK k \in AboveSizes : \A m \in AboveSizes : k <= m
  <2> HIDE DEF AboveSizes
  <2> QED BY <1>11, LeastNatural
<1>13. PICK d \in Above : d.body.size = k
  BY <1>12
<1>14. \A c \in saved : c.body.size < d.body.size => c.body.size <= X
  <2> SUFFICES ASSUME NEW c \in saved, ~(c.body.size <= X)
               PROVE  ~(c.body.size < d.body.size)
    OBVIOUS
  <2>1. c \in Above
    BY <1>1, <1>8
  <2>2. k <= c.body.size
    BY <1>12, <2>1
  <2>3. d \in saved
    BY <1>13
  <2> HIDE DEF X, Above, AboveSizes
  <2> QED BY <1>1, <1>13, <2>2, <2>3
<1>15. d \in saved /\ X < d.body.size /\ d.body.size <= prev.body.size
  BY <1>10, <1>12, <1>13
<1> HIDE DEF Above, AboveSizes
<1>16. d # cp /\ d.body.size < cp.body.size
  <2> HIDE DEF X, prev
  <2> QED BY <1>1, <1>6, <1>7, <1>15
<1>17. Named(d)
  BY <1>5, <1>15, <1>16
<1>18. d.body.prevSize = X
  <2>1. /\ d.body.prevSize < d.body.size
        /\ d.body.prevSize # 0 => \E c \in saved : c.body.size = d.body.prevSize
    BY <1>1, <1>15 DEF ForkInv, Linked
  <2>2. d.body.prevSize # 0 => d.body.prevSize <= X
    BY <1>14, <2>1
  <2>3. X # 0 => d.body.prevSize >= X
    <3> SUFFICES ASSUME X # 0 PROVE d.body.prevSize >= X
      OBVIOUS
    <3>1. PICK c \in saved : c.body.size = X
      BY <1>9
    <3>2. c \in Below(d, saved)
      BY <1>15, <3>1 DEF Below
    <3>3. d.body.prevSize = Latest(Below(d, saved)).body.size
      BY <1>17, <3>2
    <3>4. c.body.size <= Latest(Below(d, saved)).body.size
      BY <1>15, <3>2, LatestBelow
    <3>5. d.body.prevSize \in Nat /\ X \in Nat
      BY <1>1, <1>8, <1>15
    <3> HIDE DEF X, Named
    <3> QED BY <3>1, <3>3, <3>4, <3>5
  <2>4. d.body.prevSize \in Nat
    BY <1>1, <1>15
  <2> HIDE DEF X
  <2> QED BY <1>8, <2>2, <2>3, <2>4
<1> QED BY <1>6, <1>15, <1>16, <1>18

(* While no record is at risk, verify fails on the log as it stands only   *)
(* after a fork or a repeated size (checkpoint_cmd.py:85, 196-250), with   *)
(* any number of emits at once, kills and lost answers.                    *)
THEOREM FailuresAreForks == Spec => []FailureMeansFork
<1>1. Init => WitnessInv /\ ForkInv
  BY DEF Init, ForkInv, WitnessInv, WitnessesGenuine, Holding, Idle
<1>2. ASSUME TypeInv, WitnessInv, PrefixInv, ForkInv
      PROVE  FailureMeansFork
  <2> SUFFICES ASSUME ~lossy,
                      \A c, d \in saved : c # d => c.body.prevSize # d.body.prevSize,
                      \A c \in saved : c.body.prevSize # c.body.size,
                      NEW signer \in Signers,
                      \A cp \in saved : cp.body.key = signer,
                      NEW cp \in saved
               PROVE  VerifyOne(cp, saved, log, signer, Services)
    BY DEF FailureMeansFork, VerifyFails, VerifyAll
  <2>1. log \in Logs /\ IsPrefix(log, log)
    BY <1>2, LogIsSeq, PrefixFacts DEF TypeInv, TypeOK
  <2>2. ASSUME NEW c \in saved
        PROVE  /\ c.body.size <= Size(log) => RootAt(log, c.body.size) = c.body.root
               /\ c.body \in Bodies /\ Sound(c.body) /\ IsPrefix(c.body.root, log)
    <3>1. /\ c.body \in Bodies /\ Sound(c.body)
          /\ IsPrefix(c.body.root, log)
      BY <1>2 DEF PrefixInv, Kept, TypeInv, TypeOK, CheckpointRecord
    <3> QED
      BY <1>2, <2>1, <3>1, CommitsTo
  <2>3. ASSUME Below(cp, saved) # {}
        PROVE  Consistent(Latest(Below(cp, saved)), cp, log)
    <3> DEFINE prev == Latest(Below(cp, saved))
    <3>1. prev \in saved /\ cp.body.prevSize = prev.body.size
      BY <1>2, <2>3, LatestBelow, NoForkNamesBelow
    <3>2. /\ prev.body.root \in Logs /\ IsPrefix(prev.body.root, log)
          /\ prev.body.size = Size(prev.body.root)
      BY <2>2, <3>1 DEF Bodies, Sound
    <3>3. /\ cp.body.prevRoot \in Logs /\ IsPrefix(cp.body.prevRoot, log)
          /\ cp.body.prevSize = Size(cp.body.prevRoot)
      BY <1>2, <2>2 DEF ForkInv, Linked, Kept, Bodies
    <3>4. cp.body.prevRoot = prev.body.root
      BY <1>2, <3>1, <3>2, <3>3, SameSizeSameRoot
    <3>5. prev.body.size <= Size(log)
      BY <1>2, <2>1, <3>2, PrefixIsNoLarger
    <3> QED
      BY <2>2, <3>1, <3>4, <3>5 DEF Consistent
  <2>4. ASSUME NEW w \in cp.witnesses
        PROVE  ReceiptOk(w, Services)
    BY <1>2 DEF WitnessInv, WitnessesGenuine, ReceiptOk, TypeInv, TypeOK,
                Witnesses
  <2> QED
    BY <2>2, <2>3, <2>4 DEF VerifyOne, IncludedOrSkipped
<1> QED
  BY <1>1, <1>2, InitPrefixInv, NextPrefixInv, NextForkInv,
     NextWitnessInv, TypeCorrect, PTL DEF Spec

-----------------------------------------------------------------------------
(* Refinement                                                              *)

(* Giving out a commitment to what a process holds is a Publish step.      *)
LEMMA PublishHeld ==
    ASSUME TypeInv, PrefixInv, NEW p \in Emitters, Holding(p), ~lossy,
           Published' = Published \cup {em[p].cp.body.root},
           log' = log, lossy' = lossy
    PROVE  Abstract!Publish
<1> DEFINE root == em[p].cp.body.root
<1>1. /\ root \in Seq(Capsules)
      /\ root # <<>>
      /\ IsPrefix(root, log)
  BY HeldRecord DEF PrefixInv, Sound, Kept, Bodies, Logs
<1>2. Len(root) \in 1..Len(log)
  BY <1>1, LogIsSeq DEF IsPrefix
<1>3. root = SubSeq(log, 1, Len(root))
  BY <1>1, LogIsSeq, PrefixFacts
<1> QED
  BY <1>2, <1>3 DEF Abstract!Publish

(* Saving a checkpoint over one of its size keeps the commitment that was  *)
(* there: two prefixes of one log of one length are the same.              *)
LEMMA SaveKeepsRoots ==
    ASSUME TypeInv, PrefixInv, ~lossy, NEW p \in Emitters, Holding(p),
           NEW cp \in saved, cp.body.size = em[p].cp.body.size
    PROVE  cp.body.root = em[p].cp.body.root
<1> DEFINE r == cp.body.root
           t == em[p].cp.body.root
<1>1. cp.body \in Bodies /\ em[p].cp.body \in Bodies
  BY HeldRecord DEF TypeInv, TypeOK, CheckpointRecord
<1>2. r \in Logs /\ t \in Logs
  BY <1>1 DEF Bodies
<1>3. IsPrefix(r, log) /\ IsPrefix(t, log) /\ Size(r) = Size(t)
  BY DEF PrefixInv, Sound, Kept
<1> QED
  BY <1>2, <1>3, SameSizeSameRoot

LEMMA StepRefines ==
    TypeInv /\ PrefixInv /\ [Next]_vars => [Abstract!ANext]_(Abstract!avars)
<1> SUFFICES ASSUME TypeInv, PrefixInv, [Next]_vars, ~lossy'
             PROVE  [Abstract!ANext]_(Abstract!avars)
  BY DEF Abstract!ANext, Abstract!Waive
<1>0. ~lossy
  BY LogAfterStep
<1>1. CASE AppendRecord
  <2>1. PICK c \in Capsules : log' = Append(log, c)
    BY <1>1 DEF AppendRecord
  <2>2. saved' = saved /\ registered' = registered
    BY <1>1 DEF AppendRecord
  <2>3. Published' = Published
    BY <2>2 DEF Published
  <2>4. lossy \in BOOLEAN /\ lossy' \in BOOLEAN
    BY NextTypeInv DEF TypeInv, TypeOK
  <2>5. lossy' = lossy
    BY <1>0, <2>4
  <2> QED
    BY <2>1, <2>3, <2>5 DEF Abstract!ANext, Abstract!Extend
<1>2. CASE UNCHANGED <<log, saved, registered, lossy>>
  BY <1>2 DEF Abstract!avars, Published
<1>3. CASE Crash
  <2>1. PICK n \in durable..Len(log) : log' = SubSeq(log, 1, n)
    BY <1>3 DEF Crash
  <2>2. n = Len(log)
    BY <1>0, <2>1, LogIsSeq DEF PrefixInv
  <2>3. log' = log
    BY <2>1, <2>2, LogIsSeq, SubSeqFull
  <2> QED
    BY <1>2, <1>3, <2>3 DEF Crash
<1>4. ASSUME NEW p \in Emitters, Holding(p), Registering(p),
             registered' = registered \cup {WitnessOf(p)},
             WitnessOf(p).digest = em[p].cp.body,
             UNCHANGED <<log, saved, lossy>>
      PROVE  Abstract!Publish
  <2>1. Published' = Published \cup {em[p].cp.body.root}
    BY <1>4 DEF Published
  <2> QED
    BY <1>0, <1>4, <2>1, PublishHeld
<1>5. ASSUME NEW p \in Emitters, RegisterOk(p) \/ RegisterFail(p)
      PROVE  [Abstract!ANext]_(Abstract!avars)
  <2>1. CASE registered' = registered
    BY <1>2, <1>5, <2>1 DEF RegisterOk, RegisterFail
  <2>2. CASE registered' # registered
    BY <1>4, <2>2, RegisteredAfterStep DEF Abstract!ANext
  <2> QED
    BY <2>1, <2>2
<1>6. ASSUME NEW p \in Emitters, EmitSave(p)
      PROVE  Abstract!Publish
  <2>1. Holding(p) /\ saved' = Put(saved, em[p].cp)
    BY <1>6 DEF EmitSave, Holding
  <2>2. Published' = Published \cup {em[p].cp.body.root}
    <3>1. \A cp \in saved : cp \in saved' \/ cp.body.root = em[p].cp.body.root
      BY <1>0, <2>1, SaveKeepsRoots DEF Put
    <3>2. em[p].cp \in saved'
      BY <2>1 DEF Put
    <3>3. \A cp \in saved' : cp \in saved \/ cp = em[p].cp
      BY <2>1 DEF Put
    <3>4. registered' = registered
      BY <1>6 DEF EmitSave
    <3> QED
      BY <3>1, <3>2, <3>3, <3>4 DEF Published
  <2> QED
    BY <1>0, <1>6, <2>1, <2>2, PublishHeld DEF EmitSave
<1>7. ASSUME NEW p \in Emitters, Emit(p)
      PROVE  [Abstract!ANext]_(Abstract!avars)
  <2>1. CASE EmitSave(p)
    BY <1>6, <2>1 DEF Abstract!ANext
  <2>2. CASE RegisterOk(p) \/ RegisterFail(p)
    BY <1>5, <2>2
  <2>3. CASE EmitOpen(p) \/ EmitSign(p) \/ EmitRefuse(p) \/ EmitTarget(p)
    BY <1>2, <2>3 DEF EmitOpen, EmitSign, EmitRefuse, EmitTarget
  <2> QED
    BY <1>7, <2>1, <2>2, <2>3 DEF Emit
<1>8. CASE Restore
  BY <1>8 DEF Restore
<1> QED
  BY <1>1, <1>2, <1>3, <1>7, <1>8
     DEF Next, vars, Kill, InitConfig, ReadOpen, StatusLoad, StatusReport,
         VerifyReport

(* The ledger directory with all its processes implements AppendOnlyLog.   *)
THEOREM CheckpointRefines == Spec => Refines
<1>1. Init => Abstract!AInit
  BY DEF Init, Abstract!AInit, Published
<1>2. TypeInv /\ PrefixInv /\ [Next]_vars => [Abstract!ANext]_(Abstract!avars)
  BY StepRefines
<1>3. Spec => [](TypeInv /\ PrefixInv)
  BY InitPrefixInv, TypeCorrect, NextPrefixInv, PTL DEF Spec
<1> QED
  BY <1>1, <1>2, <1>3, PTL DEF Spec, Refines, Abstract!ASpec

=============================================================================
