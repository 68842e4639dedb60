-------------------------------- MODULE Mmr --------------------------------
(***************************************************************************)
(* The Merkle Mountain Range of the offline viewer (the MMR script of      *)
(* bundle_viewer/static/offline_shell.html): positions, peaks, roots, and  *)
(* the verification of inclusion and consistency proofs.                   *)
(*                                                                         *)
(* The viewer never builds an MMR; the ledger does, outside this           *)
(* repository.  Here it is built leaf by leaf and merge by merge, from a   *)
(* stack of peaks and without any arithmetic on sizes, and everything the  *)
(* viewer computes from a size alone is compared with what was built.      *)
(*                                                                         *)
(* A hash is the term it was computed from: sha256 is injective, and the   *)
(* three kinds of input differ in length.  Positions count from 0.         *)
(***************************************************************************)
EXTENDS Integers, Sequences, SequencesExt, FiniteSetsExt

CONSTANTS
    Digests,            \* body digests of records
    MaxMmrSize,         \* MAX_MMR_SIZE
    MaxLeaves           \* bound: leaves of the MMR

ASSUME MmrAssumption == MaxMmrSize \in Nat /\ MaxLeaves \in Nat

VARIABLES
    leaves,             \* body digests, in the order of the log
    nodes,              \* the nodes, in the order they were added
    stack,              \* positions of the nodes without a parent
    past                \* past[k + 1]: what stack was with k leaves

vars == <<leaves, nodes, stack, past>>

-----------------------------------------------------------------------------
(* Hashes                                                                  *)

LeafHash(digest) == <<"leaf", digest>>

InteriorHash(left, right, position) == <<"node", position + 1, left, right>>

ZeroDigest == <<"zero">>

(* Bagged from the right.                                                  *)
RootFromPeaks(peakHashes) ==
    LET last == Len(peakHashes)
        bagged[k \in 0..(last - 1)] ==
          IF k = 0 THEN peakHashes[last]
          ELSE <<"bag", bagged[k - 1], peakHashes[last - k]>>
    IN  IF peakHashes = <<>> THEN ZeroDigest ELSE bagged[last - 1]

-----------------------------------------------------------------------------
(* Positions                                                               *)

Pow2[n \in Nat] == IF n = 0 THEN 1 ELSE 2 * Pow2[n - 1]

(* Nodes of a mountain of this height.                                     *)
MountainSize(h) == Pow2[h + 1] - 1

PopCount[n \in Nat] == IF n = 0 THEN 0 ELSE (n % 2) + PopCount[n \div 2]

NodeCount(leafCount) == 2 * leafCount - PopCount[leafCount]

(* Down from a mountain that holds the node, into the left or right half.  *)
HeightBelow[h \in Nat] == [pos1 \in Nat |->
    IF h = 0 \/ pos1 = MountainSize(h) THEN h
    ELSE HeightBelow[h - 1][IF pos1 > MountainSize(h - 1)
                            THEN pos1 - MountainSize(h - 1) ELSE pos1]]

(* The least mountain of so many nodes or more.                            *)
Enclosing(count) == Min({h \in 0..count : MountainSize(h) >= count})

(* Defect variant of HeightAt: 0-based position, 1-based sizes.            *)
HeightAtUnshifted(pos) == HeightBelow[Enclosing(pos)][pos]

HeightAt(pos) == HeightBelow[Enclosing(pos + 1)][pos + 1]

(* The largest mountain of no more nodes.                                  *)
Fitting(count) == Max({h \in 0..count : MountainSize(h) <= count})

(* Heights of the mountains, the largest that fits taken first.            *)
Mountains[remaining \in Nat] ==
    IF remaining = 0 THEN <<>>
    ELSE LET h == Fitting(remaining)
         IN  <<h>> \o Mountains[remaining - MountainSize(h)]

(* peaks throws unless the heights decrease.                               *)
ValidSize(size) ==
    /\ size < MaxMmrSize
    /\ LET ms == Mountains[size] IN
         \A i \in 1..(Len(ms) - 1) : ms[i + 1] < ms[i]

(* The nodes of the first mountains.                                       *)
Offset(ms, k) ==
    LET offset[i \in 0..Len(ms)] == IF i = 0 THEN 0 ELSE offset[i - 1] + MountainSize(ms[i])
    IN  offset[k]

(* Defect variant of Peaks: the node after each mountain.                  *)
PeaksShifted(size) ==
    LET ms == Mountains[size] IN [i \in DOMAIN ms |-> Offset(ms, i)]

Peaks(size) ==
    LET ms == Mountains[size] IN [i \in DOMAIN ms |-> Offset(ms, i) - 1]

LeafCountFromSize(size) ==
    LET pks == Peaks(size)
        total[i \in 0..Len(pks)] ==
          IF i = 0 THEN 0 ELSE total[i - 1] + Pow2[HeightAt(pks[i])]
    IN  total[Len(pks)]

LeafIndexToPos(leafIndex) == NodeCount(leafIndex)

Covers(peakPos, pos) ==
    peakPos - MountainSize(HeightAt(peakPos)) < pos /\ pos <= peakPos

(* findContainingPeak: 0 where the code returns -1.                        *)
ContainingPeak(pos, pks) ==
    LET found == {i \in 1..Len(pks) : Covers(pks[i], pos)}
    IN  IF found = {} THEN 0 ELSE Min(found)

(* The steps from a node up to the root of its mountain.                   *)
LocatePath(target) ==
    LET path[height \in Nat] == [root \in Int |->
          IF height = 0 \/ root = target THEN <<>>
          ELSE LET left  == root - MountainSize(height - 1) - 1
                   right == root - 1
               IN  IF target <= left
                   THEN Append(path[height - 1][left],
                               [targetIsRight |-> FALSE, parent |-> root])
                   ELSE Append(path[height - 1][right],
                               [targetIsRight |-> TRUE, parent |-> root])]
    IN  path

PathTo(pos, peakPos) == LocatePath(pos)[HeightAt(peakPos)][peakPos]

(* The hash at the top of the path, from a node and its witnesses.         *)
Climb(hash, path, witness) ==
    LET acc[i \in 0..Len(path)] ==
          IF i = 0 THEN hash
          ELSE IF path[i].targetIsRight
               THEN InteriorHash(witness[i], acc[i - 1], path[i].parent)
               ELSE InteriorHash(acc[i - 1], witness[i], path[i].parent)
    IN  acc[Len(path)]

-----------------------------------------------------------------------------
(* Verification                                                            *)

(* Defect variant of VerifyInclusion: witnesses and peaks are not counted. *)
VerifyInclusionUncounted(root, size, leafIndex, digest, proof) ==
    /\ ValidSize(size)
    /\ leafIndex < LeafCountFromSize(size)
    /\ LET pks  == Peaks(size)
           pos  == LeafIndexToPos(leafIndex)
           path == PathTo(pos, pks[ContainingPeak(pos, pks)])
           top  == Climb(LeafHash(digest), path, proof.witness)
       IN  /\ Len(proof.witness) >= Len(path)
           /\ RootFromPeaks(proof.peaksLeft \o <<top>> \o proof.peaksRight)
                = root

VerifyInclusion(root, size, leafIndex, digest, proof) ==
    /\ proof.size = size
    /\ proof.leafIndex = leafIndex
    /\ ValidSize(size)
    /\ leafIndex < LeafCountFromSize(size)
    /\ LET pks  == Peaks(size)
           pos  == LeafIndexToPos(leafIndex)
           k    == ContainingPeak(pos, pks)
           path == PathTo(pos, pks[k])
           top  == Climb(LeafHash(digest), path, proof.witness)
       IN  /\ k # 0
           /\ Len(proof.witness) = Len(path)
           /\ Len(proof.peaksLeft) = k - 1
           /\ Len(proof.peaksRight) = Len(pks) - k
           /\ RootFromPeaks(proof.peaksLeft \o <<top>> \o proof.peaksRight)
                = root

(* An old peak leads up to the new peak that contains it.                  *)
PeakKept(oldPos, oldHash, witness, pks, newPeaks) ==
    LET k    == ContainingPeak(oldPos, pks)
        path == PathTo(oldPos, pks[k])
    IN  /\ k # 0
        /\ Len(witness) = Len(path)
        /\ Climb(oldHash, path, witness) = newPeaks[k]

(* Defect variant of VerifyConsistency: the last old peak is not checked.  *)
VerifyConsistencyButLast(rootA, sizeA, rootB, sizeB, proof) ==
    /\ ValidSize(sizeA) /\ ValidSize(sizeB) /\ sizeA <= sizeB
    /\ LET old == Peaks(sizeA) IN
         /\ Len(proof.oldPeaks) = Len(old)
         /\ Len(proof.newPeaks) = Len(Peaks(sizeB))
         /\ Len(proof.witness) = Len(old)
         /\ RootFromPeaks(proof.oldPeaks) = rootA
         /\ RootFromPeaks(proof.newPeaks) = rootB
         /\ \A i \in 1..(Len(old) - 1) :
              PeakKept(old[i], proof.oldPeaks[i], proof.witness[i],
                       Peaks(sizeB), proof.newPeaks)

VerifyConsistency(rootA, sizeA, rootB, sizeB, proof) ==
    /\ proof.sizeA = sizeA
    /\ proof.sizeB = sizeB
    /\ sizeA <= sizeB
    /\ ValidSize(sizeA)
    /\ ValidSize(sizeB)
    /\ LET old == Peaks(sizeA) IN
         /\ Len(proof.oldPeaks) = Len(old)
         /\ Len(proof.newPeaks) = Len(Peaks(sizeB))
         /\ Len(proof.witness) = Len(old)
         /\ RootFromPeaks(proof.oldPeaks) = rootA
         /\ RootFromPeaks(proof.newPeaks) = rootB
         /\ \A i \in 1..Len(old) :
              PeakKept(old[i], proof.oldPeaks[i], proof.witness[i],
                       Peaks(sizeB), proof.newPeaks)

-----------------------------------------------------------------------------
(* The MMR of the ledger                                                   *)

Init ==
    /\ leaves = <<>>
    /\ nodes = <<>>
    /\ stack = <<>>
    /\ past = <<>>

Node(pos) == nodes[pos + 1]

(* The last two mountains are of one height: they are to be joined.        *)
MergePending ==
    /\ Len(stack) >= 2
    /\ Node(stack[Len(stack) - 1]).height = Node(Last(stack)).height

AddLeaf ==
    /\ ~MergePending
    /\ Len(leaves) < MaxLeaves
    /\ \E digest \in Digests :
         /\ leaves' = Append(leaves, digest)
         /\ nodes' = Append(nodes, [hash |-> LeafHash(digest), height |-> 0,
                                    kids |-> <<>>])
    /\ stack' = Append(stack, Len(nodes))
    /\ past' = Append(past, stack)

Merge ==
    /\ MergePending
    /\ LET left  == stack[Len(stack) - 1]
           right == Last(stack)
           pos   == Len(nodes)
       IN  /\ nodes' = Append(nodes,
                 [hash   |-> InteriorHash(Node(left).hash, Node(right).hash, pos),
                  height |-> Node(left).height + 1,
                  kids   |-> <<left, right>>])
           /\ stack' = Append(SubSeq(stack, 1, Len(stack) - 2), pos)
    /\ UNCHANGED <<leaves, past>>

Next == AddLeaf \/ Merge

Spec == Init /\ [][Next]_vars

HashesAt(positions) == [i \in 1..Len(positions) |-> Node(positions[i]).hash]

(* The stack of peaks with k leaves, and what is read off it.              *)
StackAt(k) == IF k = Len(leaves) THEN stack ELSE past[k + 1]

SizeAt(k) == IF k = 0 THEN 0 ELSE Last(StackAt(k)) + 1

StackRoot(k) == RootFromPeaks(HashesAt(StackAt(k)))

(* Siblings on the way up from a node to the peak above it, as built.      *)
Siblings(pos) ==
    LET up[p \in 0..(Len(nodes) - 1)] ==
          LET parents == {q \in (p + 1)..(Len(nodes) - 1) :
                            \E i \in DOMAIN Node(q).kids : Node(q).kids[i] = p}
          IN  IF parents = {} THEN <<>>
              ELSE LET q   == CHOOSE q \in parents : TRUE
                       sib == CHOOSE i \in 1..2 : Node(q).kids[i] # p
                   IN  <<Node(q).kids[sib]>> \o up[q]
    IN  up[pos]

(* The position of a leaf, and the peak above a node, as built.            *)
LeafPos(i) == IF i = 0 THEN 0 ELSE Last(past[i + 1]) + 1

PeakAbove(pos) ==
    Min({k \in 1..Len(stack) : pos <= stack[k]})

InclusionProof(i) ==
    LET k == PeakAbove(LeafPos(i)) IN
    [size       |-> Len(nodes),
     leafIndex  |-> i,
     witness    |-> HashesAt(Siblings(LeafPos(i))),
     peaksLeft  |-> HashesAt(SubSeq(stack, 1, k - 1)),
     peaksRight |-> HashesAt(SubSeq(stack, k + 1, Len(stack)))]

ConsistencyProof(k) ==
    [sizeA    |-> SizeAt(k),
     sizeB    |-> Len(nodes),
     oldPeaks |-> HashesAt(StackAt(k)),
     newPeaks |-> HashesAt(stack),
     witness  |-> [i \in 1..Len(StackAt(k)) |->
                     HashesAt(Siblings(StackAt(k)[i]))]]

-----------------------------------------------------------------------------
(* Properties                                                              *)

Hashes == {nodes[i].hash : i \in DOMAIN nodes} \cup {ZeroDigest}

(* Every variable has its type, no node comes before its children, and the *)
(* peaks of a size are positions below it.                                 *)
TypeOK ==
    /\ leaves \in Seq(Digests) /\ Len(leaves) <= MaxLeaves
    /\ \A i \in DOMAIN nodes :
         /\ nodes[i].height \in Nat
         /\ Len(nodes[i].kids) \in {0, 2}
         /\ \A k \in DOMAIN nodes[i].kids : nodes[i].kids[k] \in 0..(i - 2)
    /\ \A i \in DOMAIN stack : stack[i] \in 0..(Len(nodes) - 1)
    /\ Len(past) = Len(leaves)
    /\ \A i \in DOMAIN Peaks(Len(nodes)) :
         Peaks(Len(nodes))[i] \in 0..(Len(nodes) - 1)

(* What the viewer computes from a size or a position is what is built:    *)
(* peaks throws on exactly the sizes an MMR only passes through, while it  *)
(* merges, and otherwise names the peaks; heights, node counts, leaf       *)
(* counts and leaf positions agree (offline_shell.html:483-549).           *)
PositionsMatch ==
    /\ \A pos \in 0..(Len(nodes) - 1) : HeightAt(pos) = Node(pos).height
    /\ ValidSize(Len(nodes)) <=> (~MergePending /\ Len(nodes) < MaxMmrSize)
    /\ ~MergePending =>
         /\ Peaks(Len(nodes)) = stack
         /\ LeafCountFromSize(Len(nodes)) = Len(leaves)
         /\ NodeCount(Len(leaves)) = Len(nodes)
         /\ \A i \in 0..(Len(leaves) - 1) : LeafIndexToPos(i) = LeafPos(i)

(* The sequences that differ from s in one element, or in length by one.   *)
NearSeqs(s) ==
    {[s EXCEPT ![i] = h] : i \in DOMAIN s, h \in Hashes}
    \cup {Append(s, ZeroDigest)}
    \cup (IF s = <<>> THEN {} ELSE {Front(s)})

(* Proofs a record at index i might be shown with: one that was made for   *)
(* another index, or its own with a hash replaced, added or left out.      *)
InclusionCandidates(i) ==
    {[InclusionProof(j) EXCEPT !.leafIndex = i] : j \in 0..(Len(leaves) - 1)}
    \cup IF i = Len(leaves) THEN {}
         ELSE LET p == InclusionProof(i) IN
              {[p EXCEPT !.witness = w] : w \in NearSeqs(p.witness)}
              \cup {[p EXCEPT !.peaksLeft = w] : w \in NearSeqs(p.peaksLeft)}
              \cup {[p EXCEPT !.peaksRight = w] : w \in NearSeqs(p.peaksRight)}

(* For the root and size of the log, a record is accepted at an index only *)
(* if it is the record there, and only with the proof that was made for    *)
(* it; with that proof it is accepted (offline_shell.html:578-626).        *)
InclusionExact ==
    ~MergePending =>
        \A i \in 0..Len(leaves), d \in Digests :
          \A proof \in InclusionCandidates(i) :
            VerifyInclusion(StackRoot(Len(leaves)), Len(nodes), i, d, proof)
            <=> /\ Len(nodes) < MaxMmrSize
                /\ i < Len(leaves)
                /\ d = leaves[i + 1]
                /\ proof = InclusionProof(i)

ConsistencyCandidates(k) ==
    LET p == ConsistencyProof(k) IN
    {p}
    \cup {[p EXCEPT !.oldPeaks = w] : w \in NearSeqs(p.oldPeaks)}
    \cup {[p EXCEPT !.newPeaks = w] : w \in NearSeqs(p.newPeaks)}
    \cup UNION {{[p EXCEPT !.witness[i] = w] : w \in NearSeqs(p.witness[i])}
                  : i \in DOMAIN p.witness}

(* An old root is accepted as a past of this log only if it is the root    *)
(* the log had at that size: whatever old peaks a proof claims, and the    *)
(* root computed from them (offline_shell.html:629-685).                   *)
ConsistencyExact ==
    ~MergePending =>
        \A j, k \in 0..Len(leaves) : \A proof \in ConsistencyCandidates(k) :
            VerifyConsistency(RootFromPeaks(proof.oldPeaks), SizeAt(j),
                              StackRoot(Len(leaves)), Len(nodes), proof)
            <=> /\ Len(nodes) < MaxMmrSize
                /\ j = k
                /\ proof = ConsistencyProof(k)

=============================================================================
