----------------------------- MODULE MmrProofs -----------------------------
(***************************************************************************)
(* Proofs about Mmr, for logs of any length: what the viewer computes from *)
(* a size is what a ledger builds, and of all proofs it could be shown it  *)
(* accepts those that were built.                                          *)
(***************************************************************************)
EXTENDS Mmr, SequenceTheorems, WellFoundedInduction, TLAPS

LEMMA LeastNat ==
    ASSUME NEW S, S \subseteq Nat, S # {}
    PROVE  \E n \in S : \A m \in S : n <= m
<1> DEFINE Less == OpToRel(<, Nat)
<1>1. Less = {pair \in Nat \X Nat : pair[1] < pair[2]}
  BY DEF OpToRel
<1>2. \A m, n \in Nat : m < n => <<m, n>> \in Less
  BY <1>1
<1> HIDE DEF Less
<1>3. IsWellFoundedOn(Less, Nat)
  BY NatLessThanWellFounded DEF Less
<1>4. PICK n \in S : \A m \in S : <<m, n>> \notin Less
  BY <1>3, WFMin
<1>5. ASSUME NEW m \in S PROVE n <= m
  <2>1. m \in Nat /\ n \in Nat /\ ~(m < n)
    BY <1>2, <1>4
  <2> QED BY <2>1
<1> QED BY <1>5

-----------------------------------------------------------------------------
(* Recursive functions                                                     *)

(* Up to n, g is as the recursion says.                                    *)
Follows(g, n, S, base, red, step) ==
    /\ g \in [0..n -> S]
    /\ \A m \in 0..n : g[m] = IF m = 0 THEN base ELSE step[m][g[red[m]]]

LEMMA FollowsAgree ==
    ASSUME NEW S, NEW base, NEW red, NEW step, NEW n \in Nat, NEW k \in Nat,
           \A m \in 1..n : red[m] \in 0..(m - 1),
           NEW g, NEW h, Follows(g, n, S, base, red, step),
           Follows(h, k, S, base, red, step), k <= n, NEW i \in 0..k
    PROVE  g[i] = h[i]
<1> DEFINE Bad == {m \in 0..k : g[m] # h[m]}
<1> SUFFICES ASSUME Bad # {} PROVE FALSE
  OBVIOUS
<1>1. PICK m \in Bad : \A l \in Bad : m <= l
  <2>1. Bad \subseteq Nat
    OBVIOUS
  <2> HIDE DEF Bad
  <2> QED BY <2>1, LeastNat
<1>2. m \in 0..k /\ m \in 0..n /\ g[m] # h[m]
  OBVIOUS
<1>3. m # 0
  BY <1>2 DEF Follows
<1>4. red[m] \in 0..(m - 1)
  BY <1>2, <1>3
<1>5. red[m] \notin Bad /\ red[m] \in 0..k
  BY <1>1, <1>2, <1>4
<1>6. g[red[m]] = h[red[m]]
  BY <1>5
<1> QED BY <1>2, <1>3, <1>6 DEF Follows

Solves(f, D, base, red, step) ==
    f = [n \in D |-> IF n = 0 THEN base ELSE step[n][f[red[n]]]]

(* A function that is defined at each number from one smaller exists: the  *)
(* recursion need not go down by one.                                      *)
LEMMA RecursionExists ==
    ASSUME NEW D, D \subseteq Nat, \A d \in D : 0..d \subseteq D,
           NEW S, NEW base \in S,
           NEW red, \A n \in D \ {0} : red[n] \in 0..(n - 1),
           NEW step, \A n \in D \ {0} : \A x \in S : step[n][x] \in S
    PROVE  \E f \in [D -> S] : Solves(f, D, base, red, step)
<1> DEFINE Good(g, n) == Follows(g, n, S, base, red, step)
           Bad == {n \in D : ~\E g : Good(g, n)}
<1>1. Bad = {}
  <2> SUFFICES ASSUME Bad # {} PROVE FALSE
    OBVIOUS
  <2>1. PICK n \in Bad : \A m \in Bad : n <= m
    <3>1. Bad \subseteq Nat
      OBVIOUS
    <3> HIDE DEF Bad
    <3> QED BY <3>1, LeastNat
  <2>2. n \in D /\ n \in Nat /\ ~\E g : Good(g, n)
    OBVIOUS
  <2>3. CASE n = 0
    <3> DEFINE g == [m \in 0..n |-> base]
    <3>1. Good(g, n)
      BY <2>3 DEF Follows
    <3> QED BY <2>2, <3>1
  <2>4. CASE n # 0
    <3>1. n - 1 \in D /\ n - 1 \notin Bad
      <4>1. n - 1 \in 0..n
        BY <2>2, <2>4
      <4>2. n - 1 \in D /\ ~(n <= n - 1)
        BY <2>2, <4>1
      <4> HIDE DEF Bad
      <4> QED BY <2>1, <4>2
    <3>2. PICK g : Good(g, n - 1)
      BY <3>1
    <3>3. red[n] \in 0..(n - 1)
      BY <2>2, <2>4
    <3> DEFINE h == [m \in 0..n |-> IF m = n THEN step[n][g[red[n]]] ELSE g[m]]
    <3>4. g[red[n]] \in S /\ step[n][g[red[n]]] \in S
      BY <2>2, <2>4, <3>2, <3>3 DEF Follows
    <3>5. h \in [0..n -> S]
      BY <2>2, <3>2, <3>4 DEF Follows
    <3>6. ASSUME NEW m \in 0..n
          PROVE  h[m] = IF m = 0 THEN base ELSE step[m][h[red[m]]]
      <4>1. CASE m = n
        <5>1. red[n] \in 0..n /\ red[n] # n
          BY <2>2, <3>3
        <5> QED BY <2>4, <4>1, <5>1
      <4>2. CASE m # n
        <5>1. m \in 0..(n - 1)
          BY <2>2, <4>2
        <5>2. m # 0 => red[m] \in 0..n /\ red[m] # n
          <6>1. m # 0 => m \in D \ {0}
            BY <2>2
          <6>2. m # 0 => red[m] \in 0..(m - 1)
            BY <6>1
          <6> QED BY <2>2, <5>1, <6>2
        <5>3. g[m] = IF m = 0 THEN base ELSE step[m][g[red[m]]]
          BY <3>2, <5>1 DEF Follows
        <5> QED BY <4>2, <5>2, <5>3
      <4> QED BY <4>1, <4>2
    <3>7. Good(h, n)
      BY <3>5, <3>6 DEF Follows
    <3> QED BY <2>2, <3>7
  <2> QED BY <2>3, <2>4
<1> DEFINE G(n) == CHOOSE g : Good(g, n)
           f == [n \in D |-> G(n)[n]]
<1>2. \A n \in D : Good(G(n), n) /\ n \in Nat
  BY <1>1
<1> HIDE DEF Bad, G
<1>3. f \in [D -> S]
  BY <1>2 DEF Follows
<1>4. ASSUME NEW n \in D
      PROVE  f[n] = IF n = 0 THEN base ELSE step[n][f[red[n]]]
  <2>1. CASE n = 0
    BY <1>2, <2>1 DEF Follows
  <2>2. CASE n # 0
    <3>1. n \in Nat /\ red[n] \in 0..(n - 1) /\ red[n] \in D
      <4>1. red[n] \in 0..(n - 1) /\ n \in Nat
        BY <2>2
      <4>2. red[n] \in 0..n
        BY <4>1
      <4> QED BY <4>1, <4>2
    <3>2. \A m \in 1..n : red[m] \in 0..(m - 1)
      <4> SUFFICES ASSUME NEW m \in 1..n PROVE red[m] \in 0..(m - 1)
        OBVIOUS
      <4>1. m \in 0..n /\ m # 0
        BY <3>1
      <4>2. m \in D \ {0}
        BY <4>1
      <4> QED BY <4>2
    <3> DEFINE k == red[n]
    <3>3. k \in Nat /\ k <= n /\ k \in 0..k /\ k \in D
      BY <3>1
    <3> HIDE DEF f, k
    <3>4. G(n)[k] = G(k)[k]
      BY <1>2, <3>1, <3>2, <3>3, FollowsAgree
    <3>5. G(n)[n] = step[n][G(n)[k]]
      <4>1. n \in 0..n
        BY <3>1
      <4> QED BY <1>2, <2>2, <4>1 DEF Follows, k
    <3>6. f[n] = G(n)[n] /\ f[k] = G(k)[k]
      BY <3>3 DEF f
    <3> QED BY <2>2, <3>4, <3>5, <3>6 DEF k
  <2> QED BY <2>1, <2>2
<1>5. f = [n \in D |-> IF n = 0 THEN base ELSE step[n][f[red[n]]]]
  <2> HIDE DEF f
  <2>1. f \in [D -> S]
    BY <1>3
  <2> QED BY <1>4, <2>1
<1> QED BY <1>3, <1>5 DEF Solves

-----------------------------------------------------------------------------
(* Powers of two and mountains                                             *)

LEMMA Pow2Exists ==
    /\ Pow2 \in [Nat -> Nat]
    /\ Pow2[0] = 1
    /\ \A n \in Nat : Pow2[n + 1] = 2 * Pow2[n]
<1> DEFINE red == [n \in Nat |-> n - 1]
           step == [n \in Nat |-> [x \in Nat |-> 2 * x]]
<1>1. \A n \in Nat \ {0} : red[n] \in 0..(n - 1)
  OBVIOUS
<1>2. \A n \in Nat \ {0} : \A x \in Nat : step[n][x] = 2 * x
  OBVIOUS
<1> HIDE DEF step
<1>3. \A n \in Nat \ {0} : \A x \in Nat : step[n][x] \in Nat
  BY <1>2
<1> HIDE DEF red
<1>4. PICK f \in [Nat -> Nat] : Solves(f, Nat, 1, red, step)
  <2>1. 1 \in Nat /\ Nat \subseteq Nat /\ \A d \in Nat : 0..d \subseteq Nat
    OBVIOUS
  <2> QED BY <1>1, <1>3, <2>1, RecursionExists
<1>5. \A n \in Nat : n # 0 => step[n][f[red[n]]] = 2 * f[n - 1]
  <2> SUFFICES ASSUME NEW n \in Nat, n # 0 PROVE step[n][f[red[n]]] = 2 * f[n - 1]
    OBVIOUS
  <2>1. red[n] = n - 1 /\ n - 1 \in Nat
    BY DEF red
  <2> QED BY <1>2, <2>1
<1>6. f = [n \in Nat |-> IF n = 0 THEN 1 ELSE 2 * f[n - 1]]
  BY <1>4, <1>5 DEF Solves
<1>7. Pow2 = [n \in Nat |-> IF n = 0 THEN 1 ELSE 2 * Pow2[n - 1]]
  BY <1>6 DEF Pow2
<1>8. \A n \in Nat : Pow2[n] = IF n = 0 THEN 1 ELSE 2 * Pow2[n - 1]
  BY <1>7
<1>9. \A n \in Nat : Pow2[n] \in Nat
  <2> DEFINE Bad == {n \in Nat : Pow2[n] \notin Nat}
  <2> SUFFICES ASSUME Bad # {} PROVE FALSE
    OBVIOUS
  <2>1. PICK n \in Bad : \A m \in Bad : n <= m
    <3>1. Bad \subseteq Nat
      OBVIOUS
    <3> HIDE DEF Bad
    <3> QED BY <3>1, LeastNat
  <2>2. n \in Nat /\ Pow2[n] \notin Nat
    OBVIOUS
  <2>3. n # 0
    BY <1>8, <2>2
  <2>4. n - 1 \in Nat /\ n - 1 \notin Bad
    BY <2>1, <2>2, <2>3
  <2> QED BY <1>8, <2>2, <2>3, <2>4
<1> QED BY <1>7, <1>8, <1>9

LEMMA Pow2Large == \A n \in Nat : Pow2[n] \in Nat /\ n < Pow2[n]
<1> DEFINE Bad == {n \in Nat : ~(n < Pow2[n])}
<1>0. Bad # {} => FALSE
  <2> SUFFICES ASSUME Bad # {} PROVE FALSE
    OBVIOUS
  <2>1. PICK n \in Bad : \A m \in Bad : n <= m
    <3>1. Bad \subseteq Nat
      OBVIOUS
    <3> HIDE DEF Bad
    <3> QED BY <3>1, LeastNat
  <2>2. n \in Nat /\ ~(n < Pow2[n])
    OBVIOUS
  <2>3. n # 0
    BY <2>2, Pow2Exists
  <2> DEFINE k == n - 1
  <2>4. k \in Nat /\ k \notin Bad /\ n = k + 1
    BY <2>1, <2>2, <2>3
  <2>5. k < Pow2[k]
    BY <2>4
  <2> HIDE DEF k, Bad
  <2> QED BY <2>2, <2>4, <2>5, Pow2Exists
<1> QED BY <1>0, Pow2Exists

LEMMA MountainFacts ==
    /\ MountainSize(0) = 1
    /\ \A h \in Nat : /\ MountainSize(h) \in Nat
                      /\ h < MountainSize(h)
                      /\ MountainSize(h + 1) = 2 * MountainSize(h) + 1
                      /\ MountainSize(h) = 2 * Pow2[h] - 1
                      /\ Pow2[h] \in Nat
<1>1. ASSUME NEW h \in Nat
      PROVE  /\ MountainSize(h) \in Nat
             /\ h < MountainSize(h)
             /\ MountainSize(h + 1) = 2 * MountainSize(h) + 1
             /\ MountainSize(h) = 2 * Pow2[h] - 1
             /\ Pow2[h] \in Nat
  <2>1. h + 1 \in Nat /\ Pow2[h] \in Nat /\ Pow2[h + 1] \in Nat /\ Pow2[h + 2] \in Nat
    BY Pow2Exists
  <2>2. Pow2[h + 1] = 2 * Pow2[h]
    BY Pow2Exists
  <2>3. Pow2[(h + 1) + 1] = 2 * Pow2[h + 1]
    BY <2>1, Pow2Exists
  <2>4. h + 1 < Pow2[h + 1]
    BY <2>1, Pow2Large
  <2> QED BY <2>1, <2>2, <2>3, <2>4 DEF MountainSize
<1>2. Pow2[0 + 1] = 2
  BY Pow2Exists
<1>3. MountainSize(0) = 1
  BY <1>2 DEF MountainSize
<1> QED BY <1>1, <1>3

(* A higher mountain holds two of the lower, and their parent.             *)
LEMMA MountainsGrow ==
    \A g, h \in Nat : g < h => 2 * MountainSize(g) + 1 <= MountainSize(h)
<1> SUFFICES ASSUME NEW g \in Nat
             PROVE  \A h \in Nat : g < h => 2 * MountainSize(g) + 1 <= MountainSize(h)
  OBVIOUS
<1> DEFINE Bad == {h \in Nat : g < h /\ ~(2 * MountainSize(g) + 1 <= MountainSize(h))}
<1>0. Bad # {} => FALSE
  <2> SUFFICES ASSUME Bad # {} PROVE FALSE
    OBVIOUS
  <2>1. PICK h \in Bad : \A m \in Bad : h <= m
    <3>1. Bad \subseteq Nat
      OBVIOUS
    <3> HIDE DEF Bad
    <3> QED BY <3>1, LeastNat
  <2>2. h \in Nat /\ g < h /\ ~(2 * MountainSize(g) + 1 <= MountainSize(h))
    OBVIOUS
  <2> DEFINE k == h - 1
  <2>3. k \in Nat /\ k \notin Bad /\ h = k + 1 /\ g <= k
    BY <2>1, <2>2
  <2>4. g = k \/ (g < k /\ 2 * MountainSize(g) + 1 <= MountainSize(k))
    BY <2>3
  <2> HIDE DEF k, Bad
  <2>5. /\ MountainSize(h) = 2 * MountainSize(k) + 1
        /\ MountainSize(k) \in Nat /\ MountainSize(g) \in Nat
    BY <2>3, MountainFacts
  <2> QED BY <2>2, <2>4, <2>5
<1> QED BY <1>0

LEMMA GreatestNat ==
    ASSUME NEW b \in Nat, NEW S, S \subseteq 0..b, S # {}
    PROVE  \E n \in S : \A m \in S : m <= n
<1> DEFINE Gaps == {b - n : n \in S}
<1>1. Gaps \subseteq Nat /\ Gaps # {}
  <2>1. \A n \in S : n \in 0..b /\ b - n \in Nat
    OBVIOUS
  <2>2. PICK n \in S : TRUE
    OBVIOUS
  <2>3. b - n \in Gaps
    BY <2>2
  <2> QED BY <2>1, <2>3
<1>2. PICK gap \in Gaps : \A g \in Gaps : gap <= g
  <2> HIDE DEF Gaps
  <2> QED BY <1>1, LeastNat
<1>3. PICK n \in S : gap = b - n
  BY <1>2
<1>4. ASSUME NEW m \in S PROVE m <= n
  <2>1. b - m \in Gaps
    OBVIOUS
  <2>2. b - n <= b - m
    BY <1>2, <1>3, <2>1
  <2>3. m \in Nat /\ n \in Nat
    OBVIOUS
  <2> QED BY <2>2, <2>3
<1> QED BY <1>4

(* The largest mountain that fits, and the least that holds so many.       *)
LEMMA FittingFacts ==
    ASSUME NEW n \in Nat \ {0}
    PROVE  /\ Fitting(n) \in Nat
           /\ MountainSize(Fitting(n)) <= n
           /\ n < MountainSize(Fitting(n) + 1)
<1> DEFINE Fit == {h \in 0..n : MountainSize(h) <= n}
<1>1. 0 \in Fit /\ Fit \subseteq 0..n
  BY MountainFacts
<1>2. \E h \in Fit : \A g \in Fit : g <= h
  <2> HIDE DEF Fit
  <2> QED BY <1>1, GreatestNat
<1>3. Fitting(n) = CHOOSE h \in Fit : \A g \in Fit : h >= g
  BY DEF Fitting, Max
<1>4. Fitting(n) \in Fit /\ \A g \in Fit : g <= Fitting(n)
  <2>1. \E h \in Fit : \A g \in Fit : h >= g
    BY <1>2
  <2> HIDE DEF Fit
  <2> QED BY <1>1, <1>3, <2>1
<1> DEFINE k == Fitting(n)
<1>5. k \in Nat /\ MountainSize(k) <= n /\ k \in 0..n
  BY <1>4
<1>6. n < MountainSize(k + 1)
  <2> SUFFICES ASSUME ~(n < MountainSize(k + 1)) PROVE FALSE
    OBVIOUS
  <2>1. MountainSize(k + 1) \in Nat /\ k + 1 < MountainSize(k + 1)
    BY <1>5, MountainFacts
  <2>2. MountainSize(k + 1) <= n
    BY <2>1
  <2>3. k + 1 \in 0..n
    BY <1>5, <2>1, <2>2
  <2>4. k + 1 \in Fit
    BY <2>2, <2>3
  <2> HIDE DEF Fit
  <2>5. k + 1 <= k
    BY <1>4, <2>4
  <2> QED BY <1>5, <2>5
<1> QED BY <1>5, <1>6

LEMMA FittingIs ==
    ASSUME NEW n \in Nat \ {0}, NEW h \in Nat,
           MountainSize(h) <= n, n <= 2 * MountainSize(h)
    PROVE  Fitting(n) = h
<1> DEFINE k == Fitting(n)
<1>1. k \in Nat /\ MountainSize(k) <= n /\ n < MountainSize(k + 1)
  BY FittingFacts
<1>2. /\ MountainSize(k) \in Nat /\ MountainSize(h) \in Nat
      /\ MountainSize(k + 1) = 2 * MountainSize(k) + 1
  BY <1>1, MountainFacts
<1> HIDE DEF k
<1>3. ~(k < h)
  <2> SUFFICES ASSUME k < h PROVE FALSE
    OBVIOUS
  <2>1. 2 * MountainSize(k) + 1 <= MountainSize(h)
    BY <1>1, MountainsGrow
  <2> QED BY <1>1, <1>2, <2>1
<1>4. ~(h < k)
  <2> SUFFICES ASSUME h < k PROVE FALSE
    OBVIOUS
  <2>1. 2 * MountainSize(h) + 1 <= MountainSize(k)
    BY <1>1, MountainsGrow
  <2> QED BY <1>1, <1>2, <2>1
<1> QED BY <1>1, <1>3, <1>4 DEF k

LEMMA EnclosingFacts ==
    ASSUME NEW n \in Nat
    PROVE  Enclosing(n) \in Nat /\ n <= MountainSize(Enclosing(n))
<1> DEFINE Big == {h \in 0..n : MountainSize(h) >= n}
<1>1. n \in Big /\ Big \subseteq Nat
  BY MountainFacts
<1>2. \E h \in Big : \A g \in Big : h <= g
  <2> HIDE DEF Big
  <2> QED BY <1>1, LeastNat
<1>3. Enclosing(n) = CHOOSE h \in Big : \A g \in Big : h <= g
  BY DEF Enclosing, Min
<1>4. Enclosing(n) \in Big
  <2> HIDE DEF Big
  <2> QED BY <1>2, <1>3
<1>5. MountainSize(Enclosing(n)) \in Nat
  BY <1>4, MountainFacts
<1> QED BY <1>4, <1>5

-----------------------------------------------------------------------------
(* Bits                                                                    *)

LEMMA PopCountExists ==
    /\ PopCount \in [Nat -> Nat]
    /\ PopCount[0] = 0
    /\ \A q \in Nat : PopCount[2 * q] = PopCount[q] /\ PopCount[2 * q + 1] = 1 + PopCount[q]
<1> DEFINE red == [n \in Nat |-> n \div 2]
           step == [n \in Nat |-> [x \in Nat |-> (n % 2) + x]]
<1>1. \A n \in Nat \ {0} : red[n] \in 0..(n - 1)
  OBVIOUS
<1>2. \A n \in Nat \ {0} : \A x \in Nat : step[n][x] = (n % 2) + x
  OBVIOUS
<1>3. \A n \in Nat : n % 2 \in Nat /\ n \div 2 \in Nat
  OBVIOUS
<1> HIDE DEF step
<1>4. \A n \in Nat \ {0} : \A x \in Nat : step[n][x] \in Nat
  BY <1>2, <1>3
<1> HIDE DEF red
<1>5. PICK f \in [Nat -> Nat] : Solves(f, Nat, 0, red, step)
  <2>1. 0 \in Nat /\ Nat \subseteq Nat /\ \A d \in Nat : 0..d \subseteq Nat
    OBVIOUS
  <2> QED BY <1>1, <1>4, <2>1, RecursionExists
<1>6. \A n \in Nat : n # 0 => step[n][f[red[n]]] = (n % 2) + f[n \div 2]
  <2> SUFFICES ASSUME NEW n \in Nat, n # 0
               PROVE  step[n][f[red[n]]] = (n % 2) + f[n \div 2]
    OBVIOUS
  <2>1. red[n] = n \div 2 /\ n \div 2 \in Nat
    BY DEF red
  <2> QED BY <1>2, <2>1
<1>7. f = [n \in Nat |-> IF n = 0 THEN 0 ELSE (n % 2) + f[n \div 2]]
  BY <1>5, <1>6 DEF Solves
<1>8. PopCount = [n \in Nat |-> IF n = 0 THEN 0 ELSE (n % 2) + PopCount[n \div 2]]
  BY <1>7 DEF PopCount
<1>9. \A n \in Nat : PopCount[n] = IF n = 0 THEN 0 ELSE (n % 2) + PopCount[n \div 2]
  BY <1>8
<1>10. \A n \in Nat : PopCount[n] \in Nat
  <2> DEFINE Bad == {n \in Nat : PopCount[n] \notin Nat}
  <2> SUFFICES ASSUME Bad # {} PROVE FALSE
    OBVIOUS
  <2>1. PICK n \in Bad : \A m \in Bad : n <= m
    <3>1. Bad \subseteq Nat
      OBVIOUS
    <3> HIDE DEF Bad
    <3> QED BY <3>1, LeastNat
  <2>2. n \in Nat /\ PopCount[n] \notin Nat
    OBVIOUS
  <2>3. n # 0
    BY <1>9, <2>2
  <2> DEFINE k == n \div 2
  <2>4. k \in Nat /\ k < n
    BY <2>2, <2>3
  <2>5. k \notin Bad
    BY <2>1, <2>2, <2>4
  <2>6. PopCount[k] \in Nat /\ PopCount[n] = (n % 2) + PopCount[k] /\ n % 2 \in Nat
    BY <1>9, <2>2, <2>3, <2>4, <2>5
  <2> QED BY <2>2, <2>6
<1>11. ASSUME NEW q \in Nat
       PROVE  PopCount[2 * q] = PopCount[q] /\ PopCount[2 * q + 1] = 1 + PopCount[q]
  <2>1. (2 * q) \div 2 = q /\ (2 * q) % 2 = 0
    OBVIOUS
  <2>2. (2 * q + 1) \div 2 = q /\ (2 * q + 1) % 2 = 1
    OBVIOUS
  <2>3. PopCount[q] \in Nat /\ 2 * q \in Nat /\ 2 * q + 1 \in Nat /\ 2 * q + 1 # 0
    BY <1>10
  <2>4. PopCount[2 * q + 1] = 1 + PopCount[q]
    BY <1>9, <2>2, <2>3
  <2>5. CASE q = 0
    BY <2>4, <2>5
  <2>6. CASE q # 0
    BY <1>9, <2>1, <2>3, <2>4, <2>6
  <2> QED BY <2>5, <2>6
<1>12. PopCount[0] = 0
  BY <1>9
<1> QED BY <1>8, <1>10, <1>11, <1>12

(* One more mountain, higher than the rest, is one more bit.               *)
LEMMA PopCountOnTop ==
    \A h \in Nat, r \in Nat : r < Pow2[h] => PopCount[Pow2[h] + r] = 1 + PopCount[r]
<1> DEFINE Good(h) == \A r \in Nat : r < Pow2[h] => PopCount[Pow2[h] + r] = 1 + PopCount[r]
           Bad == {h \in Nat : ~Good(h)}
<1> SUFFICES ASSUME Bad # {} PROVE FALSE
  OBVIOUS
<1>1. PICK h \in Bad : \A m \in Bad : h <= m
  <2>1. Bad \subseteq Nat
    OBVIOUS
  <2> HIDE DEF Bad
  <2> QED BY <2>1, LeastNat
<1>2. h \in Nat /\ ~Good(h)
  OBVIOUS
<1>3. PICK r \in Nat : r < Pow2[h] /\ PopCount[Pow2[h] + r] # 1 + PopCount[r]
  BY <1>2
<1>4. CASE h = 0
  <2>1. r = 0 /\ Pow2[h] = 1
    BY <1>3, <1>4, Pow2Exists
  <2>2. PopCount[2 * 0 + 1] = 1 + PopCount[0]
    BY PopCountExists
  <2> QED BY <1>3, <2>1, <2>2
<1>5. CASE h # 0
  <2> DEFINE k == h - 1
             q == r \div 2
             b == r % 2
  <2>1. k \in Nat /\ h = k + 1 /\ k \notin Bad
    BY <1>1, <1>2, <1>5
  <2>2. Good(k)
    BY <2>1
  <2>3. r = 2 * q + b /\ q \in Nat /\ b \in {0, 1}
    OBVIOUS
  <2>4. Pow2[h] = 2 * Pow2[k] /\ Pow2[k] \in Nat
    BY <2>1, Pow2Exists
  <2> HIDE DEF k, q, b
  <2>5. q < Pow2[k]
    BY <1>3, <2>3, <2>4
  <2>6. PopCount[Pow2[k] + q] = 1 + PopCount[q] /\ Pow2[k] + q \in Nat
    BY <2>2, <2>3, <2>4, <2>5
  <2>7. Pow2[h] + r = 2 * (Pow2[k] + q) + b
    BY <2>3, <2>4
  <2>8. \A m \in Nat : PopCount[2 * m + b] = b + PopCount[m]
    <3>1. CASE b = 0
      <4>1. \A m \in Nat : 2 * m + b = 2 * m /\ b + PopCount[m] = PopCount[m]
        BY <3>1, PopCountExists
      <4> QED BY <4>1, PopCountExists
    <3>2. CASE b = 1
      BY <3>2, PopCountExists
    <3> QED BY <2>3, <3>1, <3>2
  <2>9. PopCount[r] = b + PopCount[q]
    BY <2>3, <2>8
  <2>10. PopCount[q] \in Nat
    BY <2>3, PopCountExists
  <2> QED BY <1>3, <2>3, <2>6, <2>7, <2>8, <2>9, <2>10
<1> QED BY <1>4, <1>5

-----------------------------------------------------------------------------
(* Heights                                                                 *)

(* One step down, for a node at pos1 in a mountain of height h + 1.        *)
Halfway(h, pos1) ==
    IF pos1 > MountainSize(h) THEN pos1 - MountainSize(h) ELSE pos1

LEMMA HalfwayNat ==
    ASSUME NEW h \in Nat, NEW pos1 \in Nat
    PROVE  Halfway(h, pos1) \in Nat
BY MountainFacts DEF Halfway

LEMMA HeightBelowExists ==
    /\ HeightBelow \in [Nat -> [Nat -> Nat]]
    /\ \A p \in Nat : HeightBelow[0][p] = 0
    /\ \A h, p \in Nat : HeightBelow[h + 1][p] = IF p = MountainSize(h + 1) THEN h + 1
                                                 ELSE HeightBelow[h][Halfway(h, p)]
<1> DEFINE S == [Nat -> Nat]
           base == [p \in Nat |-> 0]
           red == [n \in Nat |-> n - 1]
           below(n, x) == [p \in Nat |-> IF p = MountainSize(n) THEN n
                                         ELSE x[Halfway(n - 1, p)]]
           step == [n \in Nat |-> [x \in S |-> below(n, x)]]
<1>1. \A n \in Nat \ {0} : red[n] \in 0..(n - 1)
  OBVIOUS
<1>2. ASSUME NEW n \in Nat \ {0}, NEW x \in S
      PROVE  below(n, x) \in S
  <2>1. n - 1 \in Nat /\ n \in Nat
    OBVIOUS
  <2>2. \A p \in Nat : x[Halfway(n - 1, p)] \in Nat
    BY <2>1, HalfwayNat
  <2> QED BY <2>1, <2>2
<1>3. \A n \in Nat : \A x \in S : step[n][x] = below(n, x)
  OBVIOUS
<1>4. base \in S
  OBVIOUS
<1> HIDE DEF S, below, step
<1>5. \A n \in Nat \ {0} : \A x \in S : step[n][x] \in S
  BY <1>2, <1>3
<1> HIDE DEF red, base
<1>6. PICK f \in [Nat -> S] : Solves(f, Nat, base, red, step)
  <2>1. Nat \subseteq Nat /\ \A d \in Nat : 0..d \subseteq Nat
    OBVIOUS
  <2> QED BY <1>1, <1>4, <1>5, <2>1, RecursionExists
<1> DEFINE T(n, g) == [p \in Nat |-> IF n = 0 \/ p = MountainSize(n) THEN n
                                     ELSE g[n - 1][Halfway(n - 1, p)]]
<1>7. ASSUME NEW n \in Nat
      PROVE  (IF n = 0 THEN base ELSE step[n][f[red[n]]]) = T(n, f)
  <2>1. CASE n = 0
    BY <2>1 DEF base
  <2>2. CASE n # 0
    <3>1. red[n] = n - 1 /\ n - 1 \in Nat
      BY <2>2 DEF red
    <3>2. step[n][f[red[n]]] = below(n, f[n - 1])
      BY <1>3, <1>6, <3>1
    <3>3. below(n, f[n - 1]) = T(n, f)
      BY <2>2 DEF below
    <3> QED BY <2>2, <3>2, <3>3
  <2> QED BY <2>1, <2>2
<1>8. f = [n \in Nat |-> T(n, f)]
  <2> HIDE DEF T
  <2> QED BY <1>6, <1>7 DEF Solves
<1>9. HeightBelow = [n \in Nat |-> T(n, HeightBelow)]
  <2>1. f = [h \in Nat |-> [pos1 \in Nat |->
             IF h = 0 \/ pos1 = MountainSize(h) THEN h
             ELSE f[h - 1][IF pos1 > MountainSize(h - 1)
                           THEN pos1 - MountainSize(h - 1) ELSE pos1]]]
    BY <1>8 DEF Halfway
  <2> HIDE DEF T
  <2>2. HeightBelow = [h \in Nat |-> [pos1 \in Nat |->
             IF h = 0 \/ pos1 = MountainSize(h) THEN h
             ELSE HeightBelow[h - 1][IF pos1 > MountainSize(h - 1)
                           THEN pos1 - MountainSize(h - 1) ELSE pos1]]]
    BY <2>1 DEF HeightBelow
  <2> QED BY <2>2 DEF T, Halfway
<1>10. \A n \in Nat : HeightBelow[n] = T(n, HeightBelow)
  <2> HIDE DEF T
  <2> QED BY <1>9
<1>11. \A n \in Nat : HeightBelow[n] \in [Nat -> Nat]
  <2> DEFINE Bad == {n \in Nat : HeightBelow[n] \notin [Nat -> Nat]}
  <2> SUFFICES ASSUME Bad # {} PROVE FALSE
    OBVIOUS
  <2>1. PICK n \in Bad : \A m \in Bad : n <= m
    <3>1. Bad \subseteq Nat
      OBVIOUS
    <3> HIDE DEF Bad
    <3> QED BY <3>1, LeastNat
  <2>2. n \in Nat /\ HeightBelow[n] \notin [Nat -> Nat]
    OBVIOUS
  <2>3. CASE n = 0
    <3>1. \A p \in Nat : n \in Nat
      BY <2>2
    <3>2. T(n, HeightBelow) = [p \in Nat |-> n]
      BY <2>3
    <3>3. HeightBelow[n] = T(n, HeightBelow)
      <4> HIDE DEF T
      <4> QED BY <1>10, <2>2
    <3>4. HeightBelow[n] \in [Nat -> Nat]
      <4>1. HeightBelow[n] = [p \in Nat |-> n]
        <5> HIDE DEF T
        <5> QED BY <3>2, <3>3
      <4> QED BY <2>2, <4>1
    <3> QED BY <2>2, <3>4
  <2>4. CASE n # 0
    <3>1. n - 1 \in Nat /\ n - 1 \notin Bad
      BY <2>1, <2>2, <2>4
    <3>2. HeightBelow[n - 1] \in [Nat -> Nat]
      BY <3>1
    <3>3. \A p \in Nat : HeightBelow[n - 1][Halfway(n - 1, p)] \in Nat
      BY <3>1, <3>2, HalfwayNat
    <3>4. \A p \in Nat : T(n, HeightBelow)[p] \in Nat
      BY <2>2, <2>4, <3>3
    <3>5. T(n, HeightBelow) \in [Nat -> Nat]
      BY <3>4
    <3> HIDE DEF T
    <3> QED BY <1>10, <2>2, <3>5
  <2> QED BY <2>3, <2>4
<1>12. HeightBelow \in [Nat -> [Nat -> Nat]]
  <2> HIDE DEF T
  <2>1. DOMAIN HeightBelow = Nat /\ HeightBelow = [n \in Nat |-> HeightBelow[n]]
    BY <1>9, <1>10
  <2> QED BY <1>11, <2>1
<1>13. ASSUME NEW h \in Nat, NEW p \in Nat
       PROVE  HeightBelow[h + 1][p] = IF p = MountainSize(h + 1) THEN h + 1
                                      ELSE HeightBelow[h][Halfway(h, p)]
  <2>1. h + 1 \in Nat /\ h + 1 # 0 /\ (h + 1) - 1 = h
    OBVIOUS
  <2>2. HeightBelow[h + 1] = T(h + 1, HeightBelow)
    BY <1>10, <2>1
  <2> QED BY <2>1, <2>2
<1>14. \A p \in Nat : HeightBelow[0][p] = 0
  <2>1. HeightBelow[0] = T(0, HeightBelow)
    <3> HIDE DEF T
    <3> QED BY <1>10
  <2>2. T(0, HeightBelow) = [p \in Nat |-> 0]
    OBVIOUS
  <2> HIDE DEF T
  <2> QED BY <2>1, <2>2
<1> QED BY <1>12, <1>13, <1>14

(* A high mountain says of its first nodes what a lower one says of them.  *)
LEMMA HeightBelowLow ==
    ASSUME NEW g \in Nat, NEW p \in Nat, p <= MountainSize(g)
    PROVE  \A h \in Nat : g <= h => HeightBelow[h][p] = HeightBelow[g][p]
<1> DEFINE Bad == {h \in Nat : g <= h /\ HeightBelow[h][p] # HeightBelow[g][p]}
<1> SUFFICES ASSUME Bad # {} PROVE FALSE
  OBVIOUS
<1>1. PICK h \in Bad : \A m \in Bad : h <= m
  <2>1. Bad \subseteq Nat
    OBVIOUS
  <2> HIDE DEF Bad
  <2> QED BY <2>1, LeastNat
<1>2. h \in Nat /\ g <= h /\ HeightBelow[h][p] # HeightBelow[g][p]
  OBVIOUS
<1>3. g # h
  BY <1>2
<1> DEFINE k == h - 1
<1>4. k \in Nat /\ k \notin Bad /\ h = k + 1 /\ g <= k
  BY <1>1, <1>2, <1>3
<1>5. HeightBelow[k][p] = HeightBelow[g][p]
  BY <1>4
<1> HIDE DEF k, Bad
<1>6. p <= MountainSize(k) /\ MountainSize(k) < MountainSize(h)
  <2>1. /\ MountainSize(k) \in Nat /\ MountainSize(g) \in Nat
        /\ MountainSize(h) = 2 * MountainSize(k) + 1
    BY <1>4, MountainFacts
  <2>2. g = k \/ 2 * MountainSize(g) + 1 <= MountainSize(k)
    <3>1. g = k \/ g < k
      BY <1>4
    <3> QED BY <1>4, <3>1, MountainsGrow
  <2> QED BY <2>1, <2>2
<1>7. p # MountainSize(h) /\ Halfway(k, p) = p
  <2>1. MountainSize(k) \in Nat /\ MountainSize(h) \in Nat
    BY <1>2, <1>4, MountainFacts
  <2> QED BY <1>6, <2>1 DEF Halfway
<1>8. HeightBelow[k + 1][p] = HeightBelow[k][Halfway(k, p)]
  BY <1>4, <1>7, HeightBelowExists
<1> QED BY <1>2, <1>4, <1>5, <1>7, <1>8

-----------------------------------------------------------------------------
(* The mountains of a size                                                 *)

Rest(n) == n - MountainSize(Fitting(n))

LEMMA MountainsExists ==
    /\ Mountains \in [Nat -> Seq(Nat)]
    /\ Mountains[0] = <<>>
    /\ \A n \in Nat \ {0} : Mountains[n] = <<Fitting(n)>> \o Mountains[Rest(n)]
<1> DEFINE S == Seq(Nat)
           red == [n \in Nat |-> Rest(n)]
           step == [n \in Nat |-> [x \in S |-> <<Fitting(n)>> \o x]]
<1>1. \A n \in Nat \ {0} : red[n] \in 0..(n - 1) /\ red[n] = Rest(n) /\ Fitting(n) \in Nat
  <2> SUFFICES ASSUME NEW n \in Nat \ {0}
               PROVE  red[n] \in 0..(n - 1) /\ red[n] = Rest(n) /\ Fitting(n) \in Nat
    OBVIOUS
  <2> DEFINE h == Fitting(n)
  <2>1. h \in Nat /\ MountainSize(h) <= n
    BY FittingFacts
  <2>2. MountainSize(h) \in Nat /\ h < MountainSize(h)
    BY <2>1, MountainFacts
  <2>3. n - MountainSize(h) \in 0..(n - 1)
    <3> HIDE DEF h
    <3> QED BY <2>1, <2>2
  <2> QED BY <2>1, <2>3 DEF Rest
<1>2. \A n \in Nat \ {0} : \A x \in S : step[n][x] = <<Fitting(n)>> \o x
  OBVIOUS
<1> HIDE DEF step
<1>3. \A n \in Nat \ {0} : \A x \in S : step[n][x] \in S
  <2> SUFFICES ASSUME NEW n \in Nat \ {0}, NEW x \in S PROVE step[n][x] \in S
    OBVIOUS
  <2>1. <<Fitting(n)>> \in Seq(Nat)
    BY <1>1
  <2>2. <<Fitting(n)>> \o x \in Seq(Nat)
    BY <2>1
  <2> QED BY <1>2, <2>2
<1>4. <<>> \in S
  OBVIOUS
<1> HIDE DEF red, S
<1>5. PICK f \in [Nat -> S] : Solves(f, Nat, <<>>, red, step)
  <2>1. Nat \subseteq Nat /\ \A d \in Nat : 0..d \subseteq Nat
    OBVIOUS
  <2> QED BY <1>1, <1>3, <1>4, <2>1, RecursionExists
<1>6. \A n \in Nat : n # 0 => step[n][f[red[n]]] = <<Fitting(n)>> \o f[Rest(n)]
  <2> SUFFICES ASSUME NEW n \in Nat, n # 0
               PROVE  step[n][f[red[n]]] = <<Fitting(n)>> \o f[Rest(n)]
    OBVIOUS
  <2>1. red[n] = Rest(n) /\ Rest(n) \in Nat /\ n \in Nat \ {0}
    <3>1. n \in Nat \ {0} /\ red[n] \in 0..(n - 1) /\ red[n] = Rest(n)
      BY <1>1
    <3> QED BY <3>1
  <2>2. f[red[n]] \in S
    BY <2>1
  <2> QED BY <1>2, <2>1, <2>2
<1>7. f = [n \in Nat |-> IF n = 0 THEN <<>> ELSE <<Fitting(n)>> \o f[Rest(n)]]
  BY <1>5, <1>6 DEF Solves
<1>8. Mountains = [n \in Nat |-> IF n = 0 THEN <<>> ELSE <<Fitting(n)>> \o Mountains[Rest(n)]]
  BY <1>7 DEF Mountains, Rest
<1>9. \A n \in Nat : Mountains[n] = IF n = 0 THEN <<>> ELSE <<Fitting(n)>> \o Mountains[Rest(n)]
  BY <1>8
<1>10. \A n \in Nat : Mountains[n] \in Seq(Nat)
  <2> DEFINE Bad == {n \in Nat : Mountains[n] \notin Seq(Nat)}
  <2> SUFFICES ASSUME Bad # {} PROVE FALSE
    OBVIOUS
  <2>1. PICK n \in Bad : \A m \in Bad : n <= m
    <3>1. Bad \subseteq Nat
      OBVIOUS
    <3> HIDE DEF Bad
    <3> QED BY <3>1, LeastNat
  <2>2. n \in Nat /\ Mountains[n] \notin Seq(Nat)
    OBVIOUS
  <2>3. n # 0
    <3>1. <<>> \in Seq(Nat)
      OBVIOUS
    <3> QED BY <1>9, <2>2, <3>1
  <2> DEFINE k == Rest(n)
  <2>4. k \in Nat /\ k < n
    <3>1. red[n] \in 0..(n - 1) /\ red[n] = k
      BY <1>1, <2>2, <2>3
    <3> HIDE DEF k
    <3> QED BY <2>2, <3>1
  <2>5. k \notin Bad
    BY <2>1, <2>2, <2>4
  <2>6. Mountains[k] \in Seq(Nat) /\ <<Fitting(n)>> \in Seq(Nat)
    BY <1>1, <2>2, <2>3, <2>4, <2>5
  <2>7. Mountains[n] = <<Fitting(n)>> \o Mountains[k]
    BY <1>9, <2>2, <2>3
  <2> HIDE DEF k
  <2>8. <<Fitting(n)>> \o Mountains[k] \in Seq(Nat)
    BY <2>6
  <2> QED BY <2>2, <2>7, <2>8
<1>11. Mountains \in [Nat -> Seq(Nat)]
  BY <1>8, <1>10
<1> QED BY <1>9, <1>11

LEMMA OffsetFacts ==
    ASSUME NEW ms \in Seq(Nat)
    PROVE  /\ Offset(ms, 0) = 0
           /\ \A i \in 0..Len(ms) : Offset(ms, i) \in Nat
           /\ \A i \in 1..Len(ms) : Offset(ms, i) = Offset(ms, i - 1) + MountainSize(ms[i])
<1> DEFINE D == 0..Len(ms)
           red == [n \in D |-> n - 1]
           step == [n \in D |-> [x \in Nat |-> x + MountainSize(ms[n])]]
           off == CHOOSE offset : offset =
                    [i \in D |-> IF i = 0 THEN 0 ELSE offset[i - 1] + MountainSize(ms[i])]
<1>1. \A n \in D \ {0} : red[n] \in 0..(n - 1) /\ red[n] = n - 1
  OBVIOUS
<1>2. \A n \in D \ {0} : n \in 1..Len(ms) /\ n - 1 \in D /\ MountainSize(ms[n]) \in Nat
  <2> SUFFICES ASSUME NEW n \in D \ {0}
               PROVE  n \in 1..Len(ms) /\ n - 1 \in D /\ MountainSize(ms[n]) \in Nat
    OBVIOUS
  <2>1. n \in 1..Len(ms) /\ n - 1 \in D /\ ms[n] \in Nat
    OBVIOUS
  <2> QED BY <2>1, MountainFacts
<1>3. \A n \in D \ {0} : \A x \in Nat : step[n][x] = x + MountainSize(ms[n])
  OBVIOUS
<1>4. D \subseteq Nat /\ \A d \in D : 0..d \subseteq D
  OBVIOUS
<1>5. \A n \in D : n = 0 \/ n \in D \ {0}
  OBVIOUS
<1>6. \A i \in 1..Len(ms) : i \in D \ {0}
  OBVIOUS
<1>7. 0 \in D
  OBVIOUS
<1> HIDE DEF step, red, D
<1>8. \A n \in D \ {0} : \A x \in Nat : step[n][x] \in Nat
  <2> SUFFICES ASSUME NEW n \in D \ {0}, NEW x \in Nat PROVE step[n][x] \in Nat
    OBVIOUS
  <2> DEFINE s == MountainSize(ms[n])
  <2>1. s \in Nat /\ step[n][x] = x + s
    BY <1>2, <1>3
  <2> HIDE DEF s
  <2>2. x + s \in Nat
    BY <2>1
  <2> QED BY <2>1, <2>2
<1>9. PICK f \in [D -> Nat] : Solves(f, D, 0, red, step)
  BY <1>1, <1>4, <1>8, RecursionExists
<1>10. \A n \in D : n # 0 => step[n][f[red[n]]] = f[n - 1] + MountainSize(ms[n])
  BY <1>1, <1>2, <1>3
<1>11. f = [i \in D |-> IF i = 0 THEN 0 ELSE f[i - 1] + MountainSize(ms[i])]
  BY <1>9, <1>10 DEF Solves
<1>12. off = [i \in D |-> IF i = 0 THEN 0 ELSE off[i - 1] + MountainSize(ms[i])]
  BY <1>11
<1> HIDE DEF off
<1>13. \A i \in D : off[i] = IF i = 0 THEN 0 ELSE off[i - 1] + MountainSize(ms[i])
  BY <1>12
<1>14. \A i : Offset(ms, i) = off[i]
  BY DEF Offset, off, D
<1>15. \A i \in D : off[i] \in Nat
  <2> DEFINE Bad == {i \in D : off[i] \notin Nat}
  <2> SUFFICES ASSUME Bad # {} PROVE FALSE
    OBVIOUS
  <2>1. PICK n \in Bad : \A m \in Bad : n <= m
    <3>1. Bad \subseteq Nat
      BY <1>4
    <3> HIDE DEF Bad
    <3> QED BY <3>1, LeastNat
  <2>2. n \in D /\ off[n] \notin Nat /\ n \in Nat
    BY <1>4
  <2>3. n # 0
    BY <1>13, <2>2
  <2>4. n - 1 \in D /\ n - 1 \notin Bad
    BY <1>2, <2>1, <2>2, <2>3
  <2>5. off[n - 1] \in Nat /\ MountainSize(ms[n]) \in Nat
    BY <1>2, <2>2, <2>3, <2>4
  <2>6. off[n] = off[n - 1] + MountainSize(ms[n])
    BY <1>13, <2>2, <2>3
  <2> QED BY <2>2, <2>5, <2>6
<1>16. \A i \in 0..Len(ms) : Offset(ms, i) \in Nat
  BY <1>14, <1>15 DEF D
<1>17. Offset(ms, 0) = 0
  BY <1>7, <1>13, <1>14
<1>18. \A i \in 1..Len(ms) : Offset(ms, i) = Offset(ms, i - 1) + MountainSize(ms[i])
  <2> SUFFICES ASSUME NEW i \in 1..Len(ms)
               PROVE  Offset(ms, i) = Offset(ms, i - 1) + MountainSize(ms[i])
    OBVIOUS
  <2>1. i \in D /\ i # 0
    BY <1>6
  <2> QED BY <1>13, <1>14, <2>1
<1> QED BY <1>16, <1>17, <1>18

-----------------------------------------------------------------------------
(* Ridges: mountains in the order an MMR has them                          *)

(* Each mountain is lower than the one before it, but the last two may be  *)
(* of one height, about to be joined.                                      *)
Sloping(hs) ==
    \A i \in 1..(Len(hs) - 1) :
      hs[i + 1] < hs[i] \/ (i = Len(hs) - 1 /\ hs[i + 1] = hs[i])

(* The nodes after the first i mountains.                                  *)
After(hs, i) == Offset(hs, Len(hs)) - Offset(hs, i)

LEMMA AfterFacts ==
    ASSUME NEW hs \in Seq(Nat)
    PROVE  /\ After(hs, Len(hs)) = 0
           /\ \A i \in 0..Len(hs) : After(hs, i) \in Int
           /\ \A i \in 1..Len(hs) : After(hs, i - 1) = MountainSize(hs[i]) + After(hs, i)
<1> DEFINE L == Len(hs)
           off(i) == Offset(hs, i)
           size(i) == MountainSize(hs[i])
<1>1. L \in Nat /\ (\A i \in 0..L : off(i) \in Nat)
      /\ (\A i \in 1..L : off(i) = off(i - 1) + size(i))
  BY OffsetFacts
<1>2. \A i \in 1..L : size(i) \in Nat
  <2> SUFFICES ASSUME NEW i \in 1..L PROVE size(i) \in Nat
    OBVIOUS
  <2>1. hs[i] \in Nat
    OBVIOUS
  <2> QED BY <2>1, MountainFacts
<1>3. \A i : After(hs, i) = off(L) - off(i)
  BY DEF After
<1> HIDE DEF off, size, L
<1>4. \A i \in 0..L : off(L) - off(i) \in Int
  BY <1>1
<1>5. ASSUME NEW i \in 1..L
      PROVE  off(L) - off(i - 1) = size(i) + (off(L) - off(i))
  <2>1. off(L) \in Nat /\ off(i) \in Nat /\ off(i - 1) \in Nat /\ size(i) \in Nat
    <3>1. L \in 0..L /\ i \in 0..L /\ i - 1 \in 0..L
      BY <1>1
    <3> QED BY <1>1, <1>2, <3>1
  <2>2. off(i) = off(i - 1) + size(i)
    BY <1>1
  <2> QED BY <2>1, <2>2
<1>6. off(L) - off(L) = 0
  <2>1. L \in 0..L
    BY <1>1
  <2>2. off(L) \in Nat
    BY <1>1, <2>1
  <2> QED BY <2>2
<1> QED BY <1>3, <1>4, <1>5, <1>6 DEF L, size

(* What is left from a mountain on is not twice its nodes and one.         *)
LEMMA AfterBound ==
    ASSUME NEW hs \in Seq(Nat), Sloping(hs)
    PROVE  \A i \in 1..Len(hs) : /\ After(hs, i - 1) \in Nat
                                 /\ MountainSize(hs[i]) <= After(hs, i - 1)
                                 /\ After(hs, i - 1) <= 2 * MountainSize(hs[i])
<1> DEFINE L == Len(hs)
           size(i) == MountainSize(hs[i])
           Q(i) == /\ After(hs, i - 1) \in Nat
                   /\ size(i) <= After(hs, i - 1)
                   /\ After(hs, i - 1) <= 2 * size(i)
           Bad == {i \in 1..L : ~Q(i)}
<1> SUFFICES ASSUME Bad # {} PROVE FALSE
  OBVIOUS
<1>1. PICK i \in Bad : \A m \in Bad : m <= i
  <2>1. L \in Nat /\ Bad \subseteq 0..L
    OBVIOUS
  <2> HIDE DEF Bad, L
  <2> QED BY <2>1, GreatestNat
<1>2. i \in 1..L /\ ~Q(i) /\ hs[i] \in Nat /\ L \in Nat
  OBVIOUS
<1>3. size(i) \in Nat /\ After(hs, i - 1) = size(i) + After(hs, i)
  BY <1>2, MountainFacts, AfterFacts
<1>4. CASE i = L
  <2>1. After(hs, i) = 0
    BY <1>4, AfterFacts
  <2> HIDE DEF size
  <2> QED BY <1>2, <1>3, <2>1
<1>5. CASE i # L
  <2> DEFINE j == i + 1
  <2>1. j \in 1..L /\ hs[j] \in Nat /\ j \notin Bad /\ i \in 1..(L - 1) /\ j - 1 = i
    <3>1. i \in 1..L /\ L \in Nat
      BY <1>2
    <3>2. j \in 1..L /\ i \in 1..(L - 1) /\ j - 1 = i /\ ~(j <= i)
      <4> HIDE DEF L, Bad
      <4> QED BY <1>5, <3>1
    <3>3. hs[j] \in Nat
      BY <3>2
    <3> HIDE DEF j, Bad
    <3> QED BY <1>1, <3>2, <3>3
  <2>2. Q(j)
    BY <2>1
  <2>3. size(j) \in Nat
    BY <2>1, MountainFacts
  <2>4. CASE hs[j] < hs[i]
    <3>1. 2 * size(j) + 1 <= size(i)
      BY <1>2, <2>1, <2>4, MountainsGrow
    <3>2. After(hs, i) \in Nat /\ After(hs, i) <= 2 * size(j)
      BY <2>1, <2>2
    <3> DEFINE a == After(hs, i)
               b == size(i)
               c == After(hs, i - 1)
               d == size(j)
    <3>3. /\ a \in Nat /\ b \in Nat /\ d \in Nat /\ c = b + a
          /\ 2 * d + 1 <= b /\ a <= 2 * d
      BY <1>3, <2>3, <3>1, <3>2
    <3> HIDE DEF a, b, c, d
    <3>4. c \in Nat /\ b <= c /\ c <= 2 * b
      BY <3>3
    <3> QED BY <1>2, <3>4 DEF b, c
  <2>5. CASE i = L - 1 /\ hs[j] = hs[i]
    <3>1. After(hs, i) = size(j) + After(hs, j)
      BY <2>1, AfterFacts
    <3>2. j = L
      BY <1>2, <2>5
    <3>3. After(hs, j) = 0
      BY <3>2, AfterFacts
    <3>4. size(j) = size(i)
      BY <2>5
    <3> HIDE DEF size, j
    <3> QED BY <1>2, <1>3, <3>1, <3>3, <3>4
  <2> QED BY <2>1, <2>4, <2>5 DEF Sloping
<1> QED BY <1>4, <1>5

(* Taking the largest that fits finds the mountains, and no others.        *)
LEMMA MountainsAre ==
    ASSUME NEW hs \in Seq(Nat), Sloping(hs)
    PROVE  Mountains[Offset(hs, Len(hs))] = hs
<1> DEFINE L == Len(hs)
           Q(i) == Mountains[After(hs, i)] = SubSeq(hs, i + 1, L)
           Bad == {i \in 0..L : ~Q(i)}
<1>0. Bad = {}
  <2> SUFFICES ASSUME Bad # {} PROVE FALSE
    OBVIOUS
  <2>1. PICK i \in Bad : \A m \in Bad : m <= i
    <3>1. L \in Nat /\ Bad \subseteq 0..L
      OBVIOUS
    <3> HIDE DEF Bad, L
    <3> QED BY <3>1, GreatestNat
  <2>2. i \in 0..L /\ ~Q(i) /\ L \in Nat
    OBVIOUS
  <2>3. CASE i = L
    <3>1. After(hs, i) = 0
      BY <2>3, AfterFacts
    <3>2. SubSeq(hs, i + 1, L) = <<>>
      BY <2>3
    <3> QED BY <2>2, <3>1, <3>2, MountainsExists
  <2>4. CASE i # L
    <3> DEFINE j == i + 1
               n == After(hs, i)
    <3>1. j \in 1..L /\ j \in 0..L /\ hs[j] \in Nat /\ j \notin Bad /\ j - 1 = i
      <4>1. j \in 1..L /\ j \in 0..L /\ j - 1 = i /\ ~(j <= i)
        <5>1. i \in 0..L /\ L \in Nat
          BY <2>2
        <5> HIDE DEF L, Bad
        <5> QED BY <2>4, <5>1
      <4> HIDE DEF Bad, j
      <4>2. hs[j] \in Nat
        BY <4>1
      <4> QED BY <2>1, <4>1, <4>2
    <3>2. Q(j)
      BY <3>1
    <3>3. /\ MountainSize(hs[j]) \in Nat /\ n = MountainSize(hs[j]) + After(hs, j)
          /\ hs[j] < MountainSize(hs[j])
      BY <3>1, MountainFacts, AfterFacts
    <3>4. n \in Nat /\ MountainSize(hs[j]) <= n /\ n <= 2 * MountainSize(hs[j])
      BY <3>1, AfterBound
    <3>5. n \in Nat \ {0} /\ After(hs, j) = n - MountainSize(hs[j])
      <4>1. After(hs, j) \in Int
        BY <3>1, AfterFacts
      <4> DEFINE s == MountainSize(hs[j])
      <4>2. s \in Nat /\ n = s + After(hs, j) /\ n \in Nat /\ s <= n
            /\ hs[j] < s /\ hs[j] \in Nat
        BY <3>1, <3>3, <3>4
      <4> DEFINE a == After(hs, j)
                 h == hs[j]
      <4>3. a \in Int /\ s \in Nat /\ n = s + a /\ n \in Nat /\ s <= n /\ h < s /\ h \in Nat
        BY <4>1, <4>2
      <4> HIDE DEF n, s, a, h
      <4>4. n # 0 /\ a = n - s
        BY <4>3
      <4> QED BY <4>3, <4>4 DEF s, a
    <3> HIDE DEF n
    <3>6. Fitting(n) = hs[j]
      BY <3>1, <3>4, <3>5, FittingIs
    <3>7. Mountains[n] = <<hs[j]>> \o Mountains[After(hs, j)]
      BY <3>5, <3>6, MountainsExists DEF Rest
    <3>8. <<hs[j]>> \o SubSeq(hs, j + 1, L) = SubSeq(hs, i + 1, L)
      <4> HIDE DEF Bad
      <4>1. SubSeq(hs, j + 1, L) \in Seq(Nat) /\ Len(SubSeq(hs, j + 1, L)) = L - j
        BY <2>2, <3>1
      <4>2. SubSeq(hs, i + 1, L) \in Seq(Nat) /\ Len(SubSeq(hs, i + 1, L)) = L - i
        BY <2>2, <3>1
      <4>3. <<hs[j]>> \o SubSeq(hs, j + 1, L) \in Seq(Nat)
            /\ Len(<<hs[j]>> \o SubSeq(hs, j + 1, L)) = L - i
        BY <2>2, <3>1, <4>1
      <4>4. \A k \in 1..(L - i) :
              (<<hs[j]>> \o SubSeq(hs, j + 1, L))[k] = SubSeq(hs, i + 1, L)[k]
        <5> SUFFICES ASSUME NEW k \in 1..(L - i)
                     PROVE  (<<hs[j]>> \o SubSeq(hs, j + 1, L))[k] = SubSeq(hs, i + 1, L)[k]
          OBVIOUS
        <5>1. k \in Nat /\ SubSeq(hs, i + 1, L)[k] = hs[i + k]
          BY <2>2
        <5>2. CASE k = 1
          <6> DEFINE b == SubSeq(hs, j + 1, L)
          <6>1. b \in Seq(Nat) /\ <<hs[j]>> \in Seq(Nat) /\ Len(<<hs[j]>>) = 1
            BY <3>1, <4>1
          <6> HIDE DEF b
          <6>2. (<<hs[j]>> \o b)[1] = <<hs[j]>>[1]
            BY <6>1
          <6> QED BY <5>1, <5>2, <6>2 DEF b
        <5>3. CASE k # 1
          <6>1. k - 1 \in 1..(L - j) /\ k - 1 \in 1..Len(SubSeq(hs, j + 1, L))
            BY <2>2, <4>1, <5>3
          <6>2. (<<hs[j]>> \o SubSeq(hs, j + 1, L))[k] = SubSeq(hs, j + 1, L)[k - 1]
            <7> DEFINE b == SubSeq(hs, j + 1, L)
            <7>1. b \in Seq(Nat) /\ <<hs[j]>> \in Seq(Nat) /\ Len(<<hs[j]>>) = 1
              BY <3>1, <4>1
            <7> HIDE DEF b
            <7>2. k \in 1..(1 + Len(b)) /\ k > 1
              BY <4>1, <6>1, <5>1, <5>3 DEF b
            <7>3. (<<hs[j]>> \o b)[k] = b[k - 1]
              BY <7>1, <7>2
            <7> QED BY <7>3 DEF b
          <6>3. SubSeq(hs, j + 1, L)[k - 1] = hs[j + (k - 1)]
            BY <2>2, <6>1
          <6>4. j + (k - 1) = i + k
            BY <2>2, <5>1
          <6> QED BY <5>1, <6>2, <6>3, <6>4
        <5> QED BY <5>2, <5>3
      <4> QED BY <4>2, <4>3, <4>4, SeqEqual
    <3> QED BY <2>2, <3>2, <3>7, <3>8 DEF n
  <2> QED BY <2>3, <2>4
<1>1. Q(0)
  <2>1. 0 \in 0..L
    OBVIOUS
  <2> QED BY <1>0, <2>1
<1>2. SubSeq(hs, 0 + 1, L) = hs
  OBVIOUS
<1>3. After(hs, 0) = Offset(hs, L)
  <2>1. Offset(hs, 0) = 0 /\ L \in 0..L
    BY OffsetFacts
  <2>2. Offset(hs, L) \in Nat
    BY <2>1, OffsetFacts
  <2> QED BY <2>1, <2>2 DEF After
<1> QED BY <1>1, <1>2, <1>3

LEMMA HeightOfPeak ==
    \A h \in Nat : HeightBelow[h][MountainSize(h)] = h
<1> SUFFICES ASSUME NEW h \in Nat PROVE HeightBelow[h][MountainSize(h)] = h
  OBVIOUS
<1>1. MountainSize(h) \in Nat
  BY MountainFacts
<1>2. CASE h = 0
  BY <1>1, <1>2, HeightBelowExists
<1>3. CASE h # 0
  <2> DEFINE k == h - 1
  <2>1. k \in Nat /\ h = k + 1
    BY <1>3
  <2> HIDE DEF k
  <2>2. HeightBelow[k + 1][MountainSize(k + 1)] = k + 1
    BY <1>1, <2>1, HeightBelowExists
  <2> QED BY <2>1, <2>2
<1> QED BY <1>2, <1>3

(* Past a peak, a node is where the rest of the ridge has it.              *)
LEMMA HeightBelowPast ==
    ASSUME NEW h \in Nat, NEW r \in Nat, 1 <= r, r <= MountainSize(h)
    PROVE  HeightBelow[h + 1][MountainSize(h) + r] = HeightBelow[h][r]
<1> DEFINE s == MountainSize(h)
           p == s + r
<1>1. s \in Nat /\ MountainSize(h + 1) = 2 * s + 1
  BY MountainFacts
<1>2. p \in Nat /\ p # MountainSize(h + 1) /\ p > s /\ p - s = r
  <2> DEFINE t == MountainSize(h + 1)
  <2>1. s \in Nat /\ t = 2 * s + 1 /\ r <= s
    BY <1>1
  <2> HIDE DEF s, t
  <2>2. p \in Nat /\ p # t /\ p > s /\ p - s = r
    BY <2>1
  <2> QED BY <2>2 DEF t
<1> HIDE DEF s
<1>3. Halfway(h, p) = r
  <2> HIDE DEF p
  <2>1. Halfway(h, p) = IF p > s THEN p - s ELSE p
    BY DEF Halfway, s
  <2>2. p > s /\ p - s = r
    BY <1>2
  <2> QED BY <2>1, <2>2
<1> HIDE DEF p
<1>4. HeightBelow[h + 1][p] = HeightBelow[h][r]
  <2>1. p \in Nat /\ p # MountainSize(h + 1)
    BY <1>2
  <2>2. HeightBelow[h + 1][p] = HeightBelow[h][Halfway(h, p)]
    BY <2>1, HeightBelowExists
  <2> QED BY <1>3, <2>2
<1> QED BY <1>4 DEF p, s

(* The node that closes a ridge has the height of the last mountain.       *)
LEMMA HeightAtTop ==
    ASSUME NEW hs \in Seq(Nat), hs # <<>>, Sloping(hs)
    PROVE  HeightAt(Offset(hs, Len(hs)) - 1) = hs[Len(hs)]
<1> DEFINE L == Len(hs)
           n == Offset(hs, L)
           E == Enclosing(n)
           Q(i) == HeightBelow[E][n] = HeightBelow[hs[i] + 1][After(hs, i - 1)]
           Bad == {i \in 1..L : ~Q(i)}
<1>1. L \in Nat /\ 1 \in 1..L /\ L \in 1..L /\ L \in 0..L
  OBVIOUS
<1>2. n \in Nat /\ After(hs, 0) = n
  <2>1. n \in Nat /\ Offset(hs, 0) = 0
    BY <1>1, OffsetFacts
  <2> QED BY <2>1 DEF After
<1>3. E \in Nat /\ n <= MountainSize(E)
  BY <1>2, EnclosingFacts
<1>4. ASSUME NEW i \in 1..L
      PROVE  /\ hs[i] \in Nat /\ hs[i] + 1 \in Nat
             /\ After(hs, i - 1) \in Nat
             /\ MountainSize(hs[i]) <= After(hs, i - 1)
             /\ After(hs, i - 1) <= MountainSize(hs[i] + 1)
             /\ 1 <= After(hs, i - 1)
  <2>1. hs[i] \in Nat
    OBVIOUS
  <2> DEFINE s == MountainSize(hs[i])
             a == After(hs, i - 1)
             h == hs[i]
  <2>2. a \in Nat /\ s <= a /\ a <= 2 * s
    BY AfterBound
  <2>3. s \in Nat /\ h < s /\ MountainSize(h + 1) = 2 * s + 1
    BY <2>1, MountainFacts
  <2>4. h \in Nat
    BY <2>1
  <2> HIDE DEF s, a, h, L, n, E
  <2>5. a <= MountainSize(h + 1) /\ 1 <= a /\ h + 1 \in Nat
    BY <2>2, <2>3, <2>4
  <2> QED BY <2>2, <2>4, <2>5 DEF s, a, h
<1>5. Bad = {}
  <2> SUFFICES ASSUME Bad # {} PROVE FALSE
    OBVIOUS
  <2>1. PICK i \in Bad : \A m \in Bad : i <= m
    <3>1. Bad \subseteq Nat
      OBVIOUS
    <3> HIDE DEF Bad
    <3> QED BY <3>1, LeastNat
  <2>2. i \in 1..L /\ ~Q(i) /\ i \in Nat
    OBVIOUS
  <2>3. CASE i = 1
    <3> DEFINE g == hs[1] + 1
    <3>1. g \in Nat /\ n <= MountainSize(g)
      <4>1. After(hs, 1 - 1) = n
        BY <1>2
      <4>2. hs[1] + 1 \in Nat /\ After(hs, 1 - 1) <= MountainSize(hs[1] + 1)
        BY <1>1, <1>4
      <4> QED BY <4>1, <4>2
    <3> HIDE DEF g, n, E
    <3>2. CASE g <= E
      <4>1. HeightBelow[E][n] = HeightBelow[g][n]
        BY <1>2, <1>3, <3>1, <3>2, HeightBelowLow
      <4> QED BY <1>2, <2>2, <2>3, <4>1 DEF g
    <3>3. CASE E <= g
      <4>1. HeightBelow[E][n] = HeightBelow[g][n]
        BY <1>2, <1>3, <3>1, <3>3, HeightBelowLow
      <4> QED BY <1>2, <2>2, <2>3, <4>1 DEF g
    <3>4. g <= E \/ E <= g
      BY <1>3, <3>1
    <3> QED BY <3>2, <3>3, <3>4
  <2>4. CASE i # 1
    <3> DEFINE j == i - 1
               g == hs[j]
               h == hs[i]
               r == After(hs, i - 1)
    <3>1. j \in 1..L /\ ~(i <= j) /\ j + 1 = i /\ j \in 1..(L - 1)
      BY <2>2, <2>4
    <3>2. j \notin Bad /\ Q(j)
      <4> HIDE DEF Bad, j
      <4>1. j \notin Bad
        BY <2>1, <3>1
      <4> QED BY <3>1, <4>1 DEF Bad
    <3>3. After(hs, j - 1) = MountainSize(g) + r
      BY <3>1, AfterFacts
    <3>4. g \in Nat /\ h \in Nat /\ r \in Nat /\ 1 <= r /\ r <= MountainSize(h + 1)
      BY <1>4, <2>2, <3>1
    <3>5. h < g \/ (i = L /\ h = g)
      BY <3>1, <1>1 DEF Sloping
    <3>6. MountainSize(g) \in Nat /\ MountainSize(h) \in Nat /\ h + 1 \in Nat
      <4>1. h + 1 \in Nat
        BY <3>4
      <4>2. MountainSize(g) \in Nat
        BY <3>4, MountainFacts
      <4>3. MountainSize(h) \in Nat
        BY <3>4, MountainFacts
      <4> QED BY <4>1, <4>2, <4>3
    <3>7. r <= MountainSize(g)
      <4>1. CASE h < g
        <5>1. h + 1 = g \/ h + 1 < g
          BY <3>4, <4>1
        <5>2. MountainSize(h + 1) <= MountainSize(g)
          <6>1. MountainSize(h + 1) \in Nat
            BY <3>6, MountainFacts
          <6>2. CASE h + 1 = g
            BY <6>1, <6>2
          <6>3. CASE h + 1 < g
            <7>1. 2 * MountainSize(h + 1) + 1 <= MountainSize(g)
              BY <3>4, <3>6, <6>3, MountainsGrow
            <7> HIDE DEF g, h
            <7> QED BY <3>6, <6>1, <7>1
          <6> QED BY <5>1, <6>2, <6>3
        <5>3. MountainSize(h + 1) \in Nat
          BY <3>6, MountainFacts
        <5> HIDE DEF g, h, r
        <5> QED BY <3>4, <3>6, <5>2, <5>3
      <4>2. CASE i = L /\ h = g
        <5>1. r = MountainSize(h) + After(hs, L) /\ After(hs, L) = 0
          BY <1>1, <4>2, AfterFacts
        <5> HIDE DEF g, h, r
        <5> QED BY <3>6, <4>2, <5>1
      <4> QED BY <3>5, <4>1, <4>2
    <3>8. HeightBelow[g + 1][After(hs, j - 1)] = HeightBelow[g][r]
      <4> HIDE DEF g, r
      <4> QED BY <3>3, <3>4, <3>7, HeightBelowPast
    <3>9. HeightBelow[g][r] = HeightBelow[h + 1][r]
      <4> HIDE DEF g, h, r
      <4>1. CASE h < g
        <5>1. h + 1 <= g
          BY <3>4, <4>1
        <5> QED BY <3>4, <3>6, <5>1, HeightBelowLow
      <4>2. CASE h = g
        <5>1. g <= h + 1
          BY <3>4, <4>2
        <5> QED BY <3>4, <3>6, <3>7, <5>1, HeightBelowLow
      <4> QED BY <3>5, <4>1, <4>2
    <3> QED BY <2>2, <3>1, <3>2, <3>8, <3>9
  <2> QED BY <2>3, <2>4
<1>6. Q(L)
  BY <1>1, <1>5
<1> DEFINE h == hs[L]
<1>7. h \in Nat /\ h + 1 \in Nat /\ MountainSize(h) \in Nat
  BY <1>1, <1>4, MountainFacts
<1>8. After(hs, L - 1) = MountainSize(h)
  <2>1. After(hs, L - 1) = MountainSize(h) + After(hs, L) /\ After(hs, L) = 0
    BY <1>1, AfterFacts
  <2> HIDE DEF h, L
  <2> QED BY <1>7, <2>1
<1>9. HeightBelow[h + 1][MountainSize(h)] = h
  <2>1. HeightBelow[h + 1][MountainSize(h)] = HeightBelow[h][MountainSize(h)]
    <3>1. h <= h + 1 /\ MountainSize(h) <= MountainSize(h)
      BY <1>7
    <3> HIDE DEF h
    <3> QED BY <1>7, <3>1, HeightBelowLow
  <2> QED BY <1>7, <2>1, HeightOfPeak
<1>10. HeightAt(n - 1) = HeightBelow[E][n]
  <2>1. (n - 1) + 1 = n
    BY <1>2
  <2> QED BY <2>1 DEF HeightAt
<1> QED BY <1>6, <1>8, <1>9, <1>10

-----------------------------------------------------------------------------
(* Leaves                                                                  *)

Falling(hs) == \A i \in 1..(Len(hs) - 1) : hs[i + 1] < hs[i]

(* As many bits as mountains.                                              *)
LEMMA BitsAreMountains ==
    ASSUME NEW hs \in Seq(Nat), Falling(hs)
    PROVE  \E w \in Nat : /\ 2 * w = Offset(hs, Len(hs)) + Len(hs)
                          /\ PopCount[w] = Len(hs)
<1> DEFINE L == Len(hs)
           Q(i) == \E w \in Nat : /\ 2 * w = After(hs, i) + (L - i)
                                  /\ PopCount[w] = L - i
                                  /\ i # L => w < 2 * Pow2[hs[i + 1]]
           Bad == {i \in 0..L : ~Q(i)}
<1>0. Bad = {}
  <2> SUFFICES ASSUME Bad # {} PROVE FALSE
    OBVIOUS
  <2>1. PICK i \in Bad : \A m \in Bad : m <= i
    <3>1. L \in Nat /\ Bad \subseteq 0..L
      OBVIOUS
    <3> HIDE DEF Bad, L
    <3> QED BY <3>1, GreatestNat
  <2>2. i \in 0..L /\ ~Q(i) /\ L \in Nat
    OBVIOUS
  <2>3. CASE i = L
    <3>1. After(hs, i) = 0 /\ L - i = 0
      BY <2>2, <2>3, AfterFacts
    <3>2. 2 * 0 = After(hs, i) + (L - i) /\ PopCount[0] = L - i
      BY <3>1, PopCountExists
    <3> QED BY <2>2, <2>3, <3>2
  <2>4. CASE i # L
    <3> DEFINE j == i + 1
               h == hs[j]
               p == Pow2[h]
               a == After(hs, j)
    <3>1. j \in 1..L /\ j \in 0..L /\ h \in Nat /\ j \notin Bad /\ j - 1 = i
      <4>1. j \in 1..L /\ j \in 0..L /\ j - 1 = i /\ ~(j <= i)
        BY <2>2, <2>4
      <4>2. h \in Nat
        BY <4>1
      <4> HIDE DEF Bad, j, h
      <4> QED BY <2>1, <4>1, <4>2
    <3>2. PICK v \in Nat : /\ 2 * v = a + (L - j)
                           /\ PopCount[v] = L - j
                           /\ j # L => v < 2 * Pow2[hs[j + 1]]
      BY <3>1
    <3>3. After(hs, i) = MountainSize(h) + a /\ a \in Int
      BY <3>1, AfterFacts
    <3>4. p \in Nat /\ MountainSize(h) = 2 * p - 1
      <4> HIDE DEF h
      <4> QED BY <3>1, MountainFacts
    <3>5. v < p
      <4>1. CASE j = L
        <5>1. a = 0 /\ 0 < p
          <6>1. h < p
            BY <3>1, Pow2Large
          <6>2. a = 0
            BY <4>1, AfterFacts
          <6> HIDE DEF p, h, a
          <6> QED BY <3>1, <3>4, <6>1, <6>2
        <5>2. 2 * v = a + (L - j) /\ L \in Int
          BY <2>2, <3>2
        <5> HIDE DEF p, a, j, L
        <5>3. L - j = 0
          BY <4>1, <5>2
        <5> QED BY <3>2, <3>4, <5>1, <5>2, <5>3
      <4>2. CASE j # L
        <5> DEFINE g == hs[j + 1]
        <5>1. j \in 1..(L - 1) /\ g \in Nat /\ g < h
          <6>1. j \in 1..(L - 1) /\ j + 1 \in 1..L
            BY <2>2, <3>1, <4>2
          <6>2. g < h
            BY <6>1 DEF Falling
          <6>3. g \in Nat
            BY <6>1
          <6> QED BY <6>1, <6>2, <6>3
        <5>2. Pow2[g] \in Nat /\ MountainSize(g) = 2 * Pow2[g] - 1
              /\ MountainSize(g) \in Nat
          BY <5>1, MountainFacts
        <5>3. 2 * MountainSize(g) + 1 <= MountainSize(h)
          BY <3>1, <5>1, MountainsGrow
        <5>4. 2 * Pow2[g] <= p
          <6> DEFINE q == Pow2[g]
          <6>1. q \in Nat /\ 2 * (2 * q - 1) + 1 <= 2 * p - 1
            BY <3>4, <5>2, <5>3
          <6> HIDE DEF q, p
          <6>2. 2 * q <= p
            BY <3>4, <6>1
          <6> QED BY <6>2 DEF q
        <5>5. v < 2 * Pow2[g]
          BY <3>2, <4>2
        <5> HIDE DEF p, g
        <5> QED BY <3>2, <3>4, <5>2, <5>4, <5>5
      <4> QED BY <4>1, <4>2
    <3>6. PopCount[p + v] = 1 + PopCount[v]
      BY <3>1, <3>5, PopCountOnTop
    <3> DEFINE w == p + v
    <3>7. w \in Nat /\ w < 2 * p
      <4> HIDE DEF p
      <4> QED BY <3>2, <3>4, <3>5
    <3>8. 2 * w = After(hs, i) + (L - i) /\ PopCount[w] = L - i
      <4> DEFINE s == MountainSize(h)
                 b == After(hs, i)
                 c == PopCount[v]
                 d == PopCount[w]
      <4>1. b = s + a /\ s = 2 * p - 1 /\ d = 1 + c /\ c = L - j
            /\ 2 * v = a + (L - j) /\ j = i + 1 /\ i \in Int /\ L \in Int
            /\ a \in Int /\ p \in Int /\ v \in Int
        BY <2>2, <3>2, <3>3, <3>4, <3>6
      <4> HIDE DEF s, b, c, d, a, p, L, j
      <4>2. 2 * (p + v) = b + (L - i)
        BY <4>1
      <4>3. d = L - i
        BY <4>1
      <4> QED BY <4>2, <4>3 DEF b, d
    <3> HIDE DEF w
    <3>9. i # L => w < 2 * Pow2[hs[i + 1]]
      BY <3>7
    <3> QED BY <2>2, <3>7, <3>8, <3>9
  <2> QED BY <2>3, <2>4
<1>1. Q(0)
  <2>1. 0 \in 0..L
    OBVIOUS
  <2> QED BY <1>0, <2>1
<1>2. After(hs, 0) = Offset(hs, L) /\ L - 0 = L
  <2>1. Offset(hs, 0) = 0 /\ L \in 0..L
    BY OffsetFacts
  <2>2. Offset(hs, L) \in Nat
    BY <2>1, OffsetFacts
  <2> QED BY <2>1, <2>2 DEF After
<1> QED BY <1>1, <1>2

LEMMA PeaksAre ==
    ASSUME NEW hs \in Seq(Nat), Sloping(hs)
    PROVE  /\ Peaks(Offset(hs, Len(hs))) = [i \in 1..Len(hs) |-> Offset(hs, i) - 1]
           /\ Len(Peaks(Offset(hs, Len(hs)))) = Len(hs)
<1>1. Mountains[Offset(hs, Len(hs))] = hs /\ DOMAIN hs = 1..Len(hs) /\ Len(hs) \in Nat
  BY MountainsAre
<1> QED BY <1>1 DEF Peaks

(* The bits of the leaf count again, from the heights of the peaks.        *)
LEMMA LeafCountIs ==
    ASSUME NEW hs \in Seq(Nat), Sloping(hs),
           \A i \in 1..Len(hs) : HeightAt(Offset(hs, i) - 1) = hs[i]
    PROVE  /\ LeafCountFromSize(Offset(hs, Len(hs))) \in Nat
           /\ 2 * LeafCountFromSize(Offset(hs, Len(hs))) = Offset(hs, Len(hs)) + Len(hs)
<1> DEFINE L == Len(hs)
           n == Offset(hs, L)
           pks == Peaks(n)
           D == 0..L
           red == [i \in D |-> i - 1]
           step == [i \in D |-> [x \in Nat |-> x + Pow2[hs[i]]]]
           sum == CHOOSE total : total =
                    [i \in 0..Len(pks) |-> IF i = 0 THEN 0
                                           ELSE total[i - 1] + Pow2[HeightAt(pks[i])]]
<1>1. Len(pks) = L /\ L \in Nat /\ \A i \in 1..L : pks[i] = Offset(hs, i) - 1
  BY PeaksAre
<1>2. \A i \in D \ {0} : red[i] \in 0..(i - 1) /\ red[i] = i - 1
  OBVIOUS
<1>3. \A i \in D \ {0} : i \in 1..L /\ i - 1 \in D /\ Pow2[hs[i]] \in Nat
  <2> SUFFICES ASSUME NEW i \in D \ {0}
               PROVE  i \in 1..L /\ i - 1 \in D /\ Pow2[hs[i]] \in Nat
    OBVIOUS
  <2>1. i \in 1..L /\ i - 1 \in D /\ hs[i] \in Nat
    OBVIOUS
  <2> QED BY <2>1, Pow2Exists
<1>4. \A i \in D \ {0} : \A x \in Nat : step[i][x] = x + Pow2[hs[i]]
  OBVIOUS
<1>5. D \subseteq Nat /\ \A d \in D : 0..d \subseteq D
  OBVIOUS
<1>6. \A i \in 1..L : i \in D \ {0}
  OBVIOUS
<1>7. 0 \in D /\ L \in D
  OBVIOUS
<1>8. LeafCountFromSize(n) = sum[L]
  BY <1>1 DEF LeafCountFromSize
<1>9. \A f, i : IF i = 0 THEN TRUE ELSE
        i \in D => f[i - 1] + Pow2[HeightAt(pks[i])] = f[i - 1] + Pow2[hs[i]]
  BY <1>1, <1>3
<1> HIDE DEF step, red
<1>10. \A i \in D \ {0} : \A x \in Nat : step[i][x] \in Nat
  <2> SUFFICES ASSUME NEW i \in D \ {0}, NEW x \in Nat PROVE step[i][x] \in Nat
    OBVIOUS
  <2> DEFINE s == Pow2[hs[i]]
  <2>1. s \in Nat /\ step[i][x] = x + s
    BY <1>3, <1>4
  <2> HIDE DEF s
  <2>2. x + s \in Nat
    BY <2>1
  <2> QED BY <2>1, <2>2
<1>11. PICK f \in [D -> Nat] : Solves(f, D, 0, red, step)
  <2> HIDE DEF D
  <2> QED BY <1>2, <1>5, <1>10, RecursionExists
<1>12. \A i \in D : i # 0 => step[i][f[red[i]]] = f[i - 1] + Pow2[hs[i]]
  <2> HIDE DEF D
  <2> QED BY <1>2, <1>3, <1>4, <1>11
<1>13. f = [i \in D |-> IF i = 0 THEN 0 ELSE f[i - 1] + Pow2[HeightAt(pks[i])]]
  <2>1. f = [i \in D |-> IF i = 0 THEN 0 ELSE step[i][f[red[i]]]]
    BY <1>11 DEF Solves
  <2> HIDE DEF D, pks
  <2>2. \A i \in D : i # 0 => step[i][f[red[i]]] = f[i - 1] + Pow2[HeightAt(pks[i])]
    BY <1>9, <1>12
  <2> QED BY <2>1, <2>2
<1>14. sum = [i \in D |-> IF i = 0 THEN 0 ELSE sum[i - 1] + Pow2[HeightAt(pks[i])]]
  <2> HIDE DEF pks
  <2> QED BY <1>1, <1>13
<1> HIDE DEF sum
<1>15. \A i \in D : sum[i] = IF i = 0 THEN 0 ELSE sum[i - 1] + Pow2[hs[i]]
  <2> HIDE DEF D, pks
  <2> QED BY <1>9, <1>14
<1> HIDE DEF D
<1>16. \A i \in D : sum[i] \in Nat /\ 2 * sum[i] = Offset(hs, i) + i
  <2> DEFINE Q(i) == sum[i] \in Nat /\ 2 * sum[i] = Offset(hs, i) + i
             Bad == {i \in D : ~Q(i)}
  <2> SUFFICES ASSUME Bad # {} PROVE FALSE
    OBVIOUS
  <2>1. PICK i \in Bad : \A m \in Bad : i <= m
    <3>1. Bad \subseteq Nat
      BY <1>5
    <3> HIDE DEF Bad
    <3> QED BY <3>1, LeastNat
  <2>2. i \in D /\ ~Q(i) /\ i \in Nat
    BY <1>5
  <2>3. i # 0
    <3>1. sum[0] = 0 /\ Offset(hs, 0) = 0
      BY <1>7, <1>15, OffsetFacts
    <3> QED BY <2>2, <3>1
  <2> DEFINE j == i - 1
  <2>4. j \in D /\ j \notin Bad /\ i \in 1..L
    BY <1>3, <2>1, <2>2, <2>3
  <2> DEFINE a == sum[j]
             b == sum[i]
             p == Pow2[hs[i]]
             s == MountainSize(hs[i])
             x == Offset(hs, j)
             y == Offset(hs, i)
  <2>5. a \in Nat /\ 2 * a = x + j
    BY <2>4
  <2>6. b = a + p
    BY <1>15, <2>2, <2>3
  <2>7. hs[i] \in Nat
    BY <2>4
  <2>8. p \in Nat /\ s = 2 * p - 1
    BY <2>7, MountainFacts
  <2>9. y = x + s
    BY <2>4, OffsetFacts
  <2>10. x \in Nat
    BY <2>4, OffsetFacts DEF D
  <2>11. b \in Nat /\ 2 * b = y + i
    <3>1. j = i - 1
      OBVIOUS
    <3> HIDE DEF a, b, p, s, x, y, j
    <3> QED BY <2>2, <2>5, <2>6, <2>8, <2>9, <2>10, <3>1
  <2> QED BY <2>2, <2>11
<1> QED BY <1>7, <1>8, <1>16

-----------------------------------------------------------------------------
(* How a ridge grows                                                       *)

LEMMA FrontFacts ==
    ASSUME NEW S, NEW s \in Seq(S), NEW k \in Nat, k <= Len(s)
    PROVE  /\ SubSeq(s, 1, k) \in Seq(S)
           /\ Len(SubSeq(s, 1, k)) = k
           /\ \A i \in 1..k : SubSeq(s, 1, k)[i] = s[i]
OBVIOUS

LEMMA AppendFacts ==
    ASSUME NEW S, NEW s \in Seq(S), NEW x \in S
    PROVE  /\ Append(s, x) \in Seq(S)
           /\ Len(Append(s, x)) = Len(s) + 1
           /\ Append(s, x)[Len(s) + 1] = x
           /\ \A i \in 1..Len(s) : Append(s, x)[i] = s[i]
OBVIOUS

LEMMA OffsetPrefix ==
    ASSUME NEW hs \in Seq(Nat), NEW ks \in Seq(Nat), NEW j \in Nat,
           j <= Len(hs), j <= Len(ks), \A i \in 1..j : hs[i] = ks[i]
    PROVE  \A i \in 0..j : Offset(hs, i) = Offset(ks, i)
<1> DEFINE Bad == {i \in 0..j : Offset(hs, i) # Offset(ks, i)}
<1> SUFFICES ASSUME Bad # {} PROVE FALSE
  OBVIOUS
<1>1. PICK i \in Bad : \A m \in Bad : i <= m
  <2>1. Bad \subseteq Nat
    OBVIOUS
  <2> HIDE DEF Bad
  <2> QED BY <2>1, LeastNat
<1>2. i \in 0..j /\ Offset(hs, i) # Offset(ks, i)
  OBVIOUS
<1>3. i # 0
  BY <1>2, OffsetFacts
<1> DEFINE k == i - 1
<1>4. k \in 0..j /\ ~(i <= k) /\ i \in 1..Len(hs) /\ i \in 1..Len(ks) /\ i \in 1..j
  BY <1>2, <1>3
<1>5. Offset(hs, k) = Offset(ks, k)
  BY <1>1, <1>4
<1>6. Offset(hs, i) = Offset(hs, k) + MountainSize(hs[i])
  BY <1>4, OffsetFacts
<1>7. Offset(ks, i) = Offset(ks, k) + MountainSize(ks[i])
  BY <1>4, OffsetFacts
<1>8. hs[i] = ks[i]
  BY <1>4
<1> QED BY <1>2, <1>5, <1>6, <1>7, <1>8

(* The heights, the peaks and the size of an MMR.                          *)
RidgeOf(hs, st, n) ==
    /\ hs \in Seq(Nat) /\ Sloping(hs)
    /\ st \in Seq(Nat) /\ Len(st) = Len(hs)
    /\ n = Offset(hs, Len(hs))
    /\ \A i \in 1..Len(hs) : st[i] = Offset(hs, i) - 1

LEMMA RidgeFacts ==
    ASSUME NEW hs, NEW st, NEW n, RidgeOf(hs, st, n)
    PROVE  /\ n \in Nat
           /\ Mountains[n] = hs
           /\ Peaks(n) = st
           /\ hs # <<>> => n > 0 /\ st[Len(st)] = n - 1 /\ HeightAt(n - 1) = hs[Len(hs)]
           /\ \A i \in 1..Len(hs) : Offset(hs, i) \in 1..n
<1> DEFINE L == Len(hs)
<1>1. hs \in Seq(Nat) /\ L \in Nat /\ n = Offset(hs, L) /\ Sloping(hs)
      /\ st \in Seq(Nat) /\ Len(st) = L
      /\ \A i \in 1..L : st[i] = Offset(hs, i) - 1
  BY DEF RidgeOf
<1>2. n \in Nat
  BY <1>1, OffsetFacts
<1>3. Mountains[n] = hs
  BY <1>1, MountainsAre
<1>4. Peaks(n) = st
  <2>1. Peaks(n) = [i \in 1..L |-> Offset(hs, i) - 1]
    BY <1>1, PeaksAre
  <2>2. st = [i \in 1..L |-> st[i]]
    BY <1>1
  <2> QED BY <1>1, <2>1, <2>2
<1>5. ASSUME NEW i \in 1..L PROVE Offset(hs, i) \in 1..n
  <2> DEFINE a == Offset(hs, i)
             b == After(hs, i)
             c == After(hs, i - 1)
             d == Offset(hs, i - 1)
             s == MountainSize(hs[i])
  <2>1. a \in Nat /\ d \in Nat /\ b = n - a
    <3>1. i \in 0..L /\ i - 1 \in 0..L
      BY <1>1
    <3> QED BY <1>1, <3>1, OffsetFacts DEF After
  <2>2. a = d + s /\ hs[i] \in Nat
    <3>1. a = d + s
      BY <1>1, OffsetFacts
    <3>2. hs[i] \in Nat
      BY <1>1
    <3> QED BY <3>1, <3>2
  <2>3. s \in Nat /\ hs[i] < s
    BY <2>2, MountainFacts
  <2>4. b \in Nat
    <3>1. CASE i = L
      <4>1. b = 0
        BY <1>1, <3>1, AfterFacts
      <4> QED BY <4>1
    <3>2. CASE i # L
      <4>1. i + 1 \in 1..L /\ (i + 1) - 1 = i
        BY <1>1, <3>2
      <4> QED BY <1>1, <4>1, AfterBound
    <3> QED BY <3>1, <3>2
  <2>5. 0 < s
    BY <2>2, <2>3
  <2> HIDE DEF a, b, d, s
  <2>6. a \in 1..n
    BY <1>2, <2>1, <2>2, <2>3, <2>4, <2>5
  <2> QED BY <2>6 DEF a
<1>6. ASSUME hs # <<>>
      PROVE  n > 0 /\ st[Len(st)] = n - 1 /\ HeightAt(n - 1) = hs[L]
  <2>1. L \in 1..L
    BY <1>1, <1>6
  <2>2. n \in 1..n
    BY <1>1, <1>5, <2>1
  <2> QED BY <1>1, <1>2, <1>6, <2>1, <2>2, HeightAtTop
<1> QED BY <1>2, <1>3, <1>4, <1>5, <1>6

LEMMA RidgeAdd ==
    ASSUME NEW hs, NEW st, NEW n, RidgeOf(hs, st, n), Falling(hs)
    PROVE  RidgeOf(Append(hs, 0), Append(st, n), n + 1)
<1> DEFINE L == Len(hs)
           ks == Append(hs, 0)
           tt == Append(st, n)
<1>1. hs \in Seq(Nat) /\ L \in Nat /\ n = Offset(hs, L) /\ n \in Nat
      /\ st \in Seq(Nat) /\ Len(st) = L
      /\ \A i \in 1..L : st[i] = Offset(hs, i) - 1
  BY RidgeFacts DEF RidgeOf
<1>2. /\ ks \in Seq(Nat) /\ Len(ks) = L + 1 /\ ks[L + 1] = 0
      /\ \A i \in 1..L : ks[i] = hs[i]
  BY <1>1
<1>3. /\ tt \in Seq(Nat) /\ Len(tt) = L + 1 /\ tt[L + 1] = n
      /\ \A i \in 1..L : tt[i] = st[i]
  BY <1>1
<1>4. Sloping(ks)
  <2> SUFFICES ASSUME NEW i \in 1..(Len(ks) - 1)
               PROVE  ks[i + 1] < ks[i] \/ (i = Len(ks) - 1 /\ ks[i + 1] = ks[i])
    BY DEF Sloping
  <2>1. CASE i = L
    <3>1. ks[i] = hs[L] /\ hs[L] \in Nat /\ ks[i + 1] = 0 /\ i = Len(ks) - 1
      <4>1. L \in 1..L
        BY <1>1, <1>2, <2>1
      <4> QED BY <1>1, <1>2, <2>1, <4>1
    <3> QED BY <3>1
  <2>2. CASE i # L
    <3>1. i \in 1..(L - 1) /\ i + 1 \in 1..L /\ i \in 1..L
      BY <1>1, <1>2, <2>2
    <3>2. hs[i + 1] < hs[i]
      BY <3>1 DEF Falling
    <3> QED BY <1>2, <3>1, <3>2
  <2> QED BY <2>1, <2>2
<1> HIDE DEF ks, tt
<1>5. \A i \in 0..L : Offset(ks, i) = Offset(hs, i)
  <2>1. L <= Len(hs) /\ L <= Len(ks)
    BY <1>1, <1>2
  <2> HIDE DEF L
  <2> QED BY <1>1, <1>2, <2>1, OffsetPrefix
<1>6. Offset(ks, L + 1) = n + 1
  <2>1. Offset(ks, L + 1) = Offset(ks, (L + 1) - 1) + MountainSize(ks[L + 1])
    <3>1. L + 1 \in 1..Len(ks)
      BY <1>1, <1>2
    <3> QED BY <1>2, <3>1, OffsetFacts
  <2>2. (L + 1) - 1 = L /\ L \in 0..L
    BY <1>1
  <2>3. MountainSize(ks[L + 1]) = 1
    BY <1>2, MountainFacts
  <2> QED BY <1>1, <1>5, <2>1, <2>2, <2>3
<1>7. ASSUME NEW i \in 1..Len(ks) PROVE tt[i] = Offset(ks, i) - 1
  <2>1. CASE i = L + 1
    BY <1>1, <1>3, <1>6, <2>1
  <2>2. CASE i # L + 1
    <3>1. i \in 1..L /\ i \in 0..L
      BY <1>1, <1>2, <2>2
    <3> QED BY <1>1, <1>3, <1>5, <3>1
  <2> QED BY <2>1, <2>2
<1>8. RidgeOf(ks, tt, n + 1)
  BY <1>2, <1>3, <1>4, <1>6, <1>7 DEF RidgeOf
<1> QED BY <1>8 DEF ks, tt

LEMMA RidgeMerge ==
    ASSUME NEW hs, NEW st, NEW n, RidgeOf(hs, st, n), Len(hs) >= 2,
           hs[Len(hs) - 1] = hs[Len(hs)]
    PROVE  RidgeOf(Append(SubSeq(hs, 1, Len(hs) - 2), hs[Len(hs)] + 1),
                   Append(SubSeq(st, 1, Len(hs) - 2), n), n + 1)
<1> DEFINE L == Len(hs)
           h == hs[L]
           front == SubSeq(hs, 1, L - 2)
           ks == Append(front, h + 1)
           tt == Append(SubSeq(st, 1, L - 2), n)
<1>1. hs \in Seq(Nat) /\ L \in Nat /\ n = Offset(hs, L) /\ n \in Nat /\ Sloping(hs)
      /\ st \in Seq(Nat) /\ Len(st) = L
      /\ \A i \in 1..L : st[i] = Offset(hs, i) - 1
  BY RidgeFacts DEF RidgeOf
<1>2. h \in Nat /\ h + 1 \in Nat /\ L - 2 \in Nat /\ L - 1 \in 1..L /\ L \in 1..L
  BY <1>1
<1> DEFINE m == L - 2
<1>0. m \in Nat /\ m <= L /\ m + 1 = L - 1
  BY <1>1
<1>3. /\ ks \in Seq(Nat) /\ Len(ks) = L - 1 /\ ks[L - 1] = h + 1
      /\ \A i \in 1..(L - 2) : ks[i] = hs[i]
  <2> HIDE DEF m
  <2>1. /\ SubSeq(hs, 1, m) \in Seq(Nat) /\ Len(SubSeq(hs, 1, m)) = m
        /\ \A i \in 1..m : SubSeq(hs, 1, m)[i] = hs[i]
    BY <1>0, <1>1, FrontFacts
  <2>2. front = SubSeq(hs, 1, m)
    BY DEF m
  <2> HIDE DEF front, h, L
  <2>3. /\ ks \in Seq(Nat) /\ Len(ks) = m + 1 /\ ks[m + 1] = h + 1
        /\ \A i \in 1..m : ks[i] = front[i]
    BY <1>2, <2>1, <2>2, AppendFacts
  <2> QED BY <1>0, <2>1, <2>2, <2>3 DEF m
<1>4. /\ tt \in Seq(Nat) /\ Len(tt) = L - 1 /\ tt[L - 1] = n
      /\ \A i \in 1..(L - 2) : tt[i] = st[i]
  <2> DEFINE some == SubSeq(st, 1, L - 2)
  <2> HIDE DEF m
  <2>1. /\ SubSeq(st, 1, m) \in Seq(Nat) /\ Len(SubSeq(st, 1, m)) = m
        /\ \A i \in 1..m : SubSeq(st, 1, m)[i] = st[i]
    BY <1>0, <1>1, FrontFacts
  <2>2. some = SubSeq(st, 1, m)
    BY DEF m
  <2> HIDE DEF some, L
  <2>3. /\ tt \in Seq(Nat) /\ Len(tt) = m + 1 /\ tt[m + 1] = n
        /\ \A i \in 1..m : tt[i] = some[i]
    <3>1. tt = Append(some, n)
      BY DEF some, tt
    <3>2. some \in Seq(Nat) /\ Len(some) = m /\ n \in Nat
      BY <1>1, <2>1, <2>2
    <3>3. /\ Append(some, n) \in Seq(Nat) /\ Len(Append(some, n)) = m + 1
          /\ Append(some, n)[m + 1] = n
          /\ \A i \in 1..m : Append(some, n)[i] = some[i]
      BY <3>2, AppendFacts
    <3> HIDE DEF tt
    <3> QED BY <3>1, <3>3
  <2> QED BY <1>0, <2>1, <2>2, <2>3 DEF m
<1> HIDE DEF ks, tt
<1>5. Sloping(ks)
  <2> SUFFICES ASSUME NEW i \in 1..(L - 2)
               PROVE  ks[i + 1] < ks[i] \/ (i = Len(ks) - 1 /\ ks[i + 1] = ks[i])
    BY <1>1, <1>3 DEF Sloping
  <2>1. i \in 1..(L - 1) /\ i # L - 1 /\ i \in 1..L /\ i + 1 \in 1..L
    <3>1. L \in Nat
      BY <1>1
    <3> HIDE DEF L
    <3> QED BY <3>1
  <2>2. hs[i + 1] < hs[i] /\ ks[i] = hs[i] /\ hs[i] \in Nat
    <3>1. hs[i + 1] < hs[i]
      BY <1>1, <2>1 DEF Sloping
    <3>2. hs[i] \in Nat
      <4>1. i \in 1..Len(hs) /\ hs \in Seq(Nat)
        BY <1>1, <2>1
      <4> QED BY <4>1
    <3> QED BY <1>3, <3>1, <3>2
  <2>3. CASE i = L - 2
    <3>1. i + 1 = L - 1 /\ i = Len(ks) - 1
      BY <1>1, <1>3, <2>3
    <3>2. hs[i + 1] = h /\ ks[i + 1] = h + 1
      BY <1>3, <3>1
    <3> HIDE DEF h
    <3> QED BY <1>2, <2>2, <3>1, <3>2
  <2>4. CASE i # L - 2
    <3>1. i + 1 \in 1..(L - 2)
      BY <1>1, <2>4
    <3> QED BY <1>3, <2>2, <3>1
  <2> QED BY <2>3, <2>4
<1>6. \A i \in 0..(L - 2) : Offset(ks, i) = Offset(hs, i)
  <2>1. L - 2 <= Len(hs) /\ L - 2 <= Len(ks)
    BY <1>1, <1>3
  <2>2. \A i \in 1..(L - 2) : hs[i] = ks[i]
    BY <1>3
  <2> DEFINE j == L - 2
  <2>3. j \in Nat
    BY <1>2
  <2> HIDE DEF j
  <2>4. \A i \in 0..j : Offset(hs, i) = Offset(ks, i)
    BY <1>1, <1>3, <2>1, <2>2, <2>3, OffsetPrefix DEF j
  <2> QED BY <2>4 DEF j
<1>7. Offset(ks, L - 1) = n + 1
  <2> DEFINE a == Offset(hs, L - 2)
             b == Offset(hs, L - 1)
             s == MountainSize(h)
             c == Offset(ks, L - 1)
             t == MountainSize(h + 1)
  <2>1. c = Offset(ks, (L - 1) - 1) + MountainSize(ks[L - 1])
    <3>1. L - 1 \in 1..Len(ks)
      BY <1>1, <1>3
    <3> QED BY <1>3, <3>1, OffsetFacts
  <2>2. (L - 1) - 1 = L - 2 /\ L - 2 \in 0..(L - 2)
    BY <1>1, <1>2
  <2>3. c = a + t
    BY <1>3, <1>6, <2>1, <2>2
  <2>4. b = Offset(hs, (L - 1) - 1) + MountainSize(hs[L - 1])
    BY <1>1, <1>2, OffsetFacts
  <2>5. b = a + s
    BY <2>2, <2>4
  <2>6. n = b + s
    BY <1>1, <1>2, OffsetFacts
  <2>7. s \in Nat /\ t = 2 * s + 1
    <3> HIDE DEF h
    <3> QED BY <1>2, MountainFacts
  <2>8. a \in Nat
    <3>1. L - 2 \in 0..L
      BY <1>1
    <3> QED BY <1>1, <3>1, OffsetFacts
  <2> HIDE DEF a, b, s, c, t
  <2>9. c = n + 1
    <3>1. n = a + 2 * s
      BY <2>5, <2>6, <2>7, <2>8
    <3>2. c = a + (2 * s + 1)
      BY <2>3, <2>7
    <3>3. s \in Nat /\ a \in Nat
      BY <2>7, <2>8
    <3> QED BY <3>1, <3>2, <3>3
  <2> QED BY <2>9 DEF c
<1>8. ASSUME NEW i \in 1..Len(ks) PROVE tt[i] = Offset(ks, i) - 1
  <2>1. CASE i = L - 1
    <3>1. (n + 1) - 1 = n
      BY <1>1
    <3> QED BY <1>4, <1>7, <2>1, <3>1
  <2>2. CASE i # L - 1
    <3>1. i \in 1..L /\ i \in 0..(L - 2) /\ i \in 1..(L - 2)
      <4>1. i \in 1..(L - 1)
        BY <1>3
      <4> HIDE DEF L
      <4> QED BY <1>1, <2>2, <4>1
    <3> QED BY <1>1, <1>4, <1>6, <3>1
  <2> QED BY <2>1, <2>2
<1>9. RidgeOf(ks, tt, n + 1)
  BY <1>3, <1>4, <1>5, <1>7, <1>8 DEF RidgeOf
<1> QED BY <1>9 DEF ks, tt

-----------------------------------------------------------------------------
(* The MMR as it is built                                                  *)

(* Heights of the nodes without a parent.                                  *)
Heights == [i \in 1..Len(stack) |-> Node(stack[i]).height]

(* The inductive invariant: the stack is the ridge of the nodes, and a     *)
(* node has the height that its position tells.                            *)
NodesInv ==
    /\ \E S : nodes \in Seq(S)
    /\ \A i \in DOMAIN nodes :
         /\ nodes[i].height \in Nat
         /\ HeightAt(i - 1) = nodes[i].height
         /\ Len(nodes[i].kids) \in {0, 2}
         /\ \A k \in DOMAIN nodes[i].kids : nodes[i].kids[k] \in 0..(i - 2)

LeavesInv ==
    /\ leaves \in Seq(Digests) /\ Len(leaves) <= MaxLeaves
    /\ Len(nodes) = 2 * Len(leaves) - Len(stack)

PastInv ==
    /\ \E S : past \in Seq(S)
    /\ Len(past) = Len(leaves)
    /\ \A i \in 2..Len(past) : Last(past[i]) + 1 = NodeCount(i - 1)

MmrInv ==
    /\ NodesInv
    /\ RidgeOf(Heights, stack, Len(nodes))
    /\ LeavesInv
    /\ PastInv

LEMMA StackFacts ==
    ASSUME MmrInv
    PROVE  /\ Len(nodes) \in Nat /\ DOMAIN nodes = 1..Len(nodes)
           /\ stack \in Seq(Nat) /\ Heights \in Seq(Nat) /\ Len(Heights) = Len(stack)
           /\ \A i \in 1..Len(stack) : /\ stack[i] \in 0..(Len(nodes) - 1)
                                       /\ Heights[i] = nodes[stack[i] + 1].height
           /\ stack # <<>> => Len(nodes) > 0 /\ stack[Len(stack)] = Len(nodes) - 1
           /\ stack = <<>> => Len(nodes) = 0
           /\ ~MergePending => Falling(Heights)
           /\ MergePending => Len(stack) >= 2 /\ Heights[Len(stack) - 1] = Heights[Len(stack)]
<1> DEFINE L == Len(stack)
           n == Len(nodes)
<1>1. n \in Nat /\ DOMAIN nodes = 1..n
  BY DEF MmrInv, NodesInv
<1>2. stack \in Seq(Nat) /\ Heights \in Seq(Nat) /\ Len(Heights) = L /\ L \in Nat
      /\ Sloping(Heights) /\ n = Offset(Heights, L)
      /\ \A i \in 1..L : stack[i] = Offset(Heights, i) - 1
  BY DEF MmrInv, RidgeOf
<1>3. \A i \in 1..L : Offset(Heights, i) \in 1..n
  BY <1>2, RidgeFacts DEF MmrInv
<1>4. \A i \in 1..L : stack[i] \in 0..(n - 1)
  <2> SUFFICES ASSUME NEW i \in 1..L PROVE stack[i] \in 0..(n - 1)
    OBVIOUS
  <2> DEFINE a == Offset(Heights, i)
             b == stack[i]
  <2>1. a \in 1..n /\ b = a - 1
    BY <1>2, <1>3
  <2> HIDE DEF a, b, n
  <2>2. b \in 0..(n - 1)
    BY <1>1, <2>1
  <2> QED BY <2>2 DEF b
<1>5. \A i \in 1..L : Heights[i] = nodes[stack[i] + 1].height
  BY DEF Heights, Node
<1>6. stack # <<>> => n > 0 /\ stack[L] = n - 1
  <2>1. stack # <<>> => Heights # <<>>
    BY <1>2
  <2>2. Heights # <<>> => n > 0 /\ stack[Len(stack)] = n - 1
    BY RidgeFacts DEF MmrInv
  <2> QED BY <2>1, <2>2
<1>7. stack = <<>> => n = 0
  <2>1. stack = <<>> => L = 0
    OBVIOUS
  <2> QED BY <1>2, <2>1, OffsetFacts
<1>8. L >= 2 => /\ L - 1 \in 1..L /\ L \in 1..L
                /\ (MergePending <=> Heights[L - 1] = Heights[L])
  <2> SUFFICES ASSUME L >= 2
               PROVE  /\ L - 1 \in 1..L /\ L \in 1..L
                      /\ (MergePending <=> Heights[L - 1] = Heights[L])
    OBVIOUS
  <2>1. L - 1 \in 1..L /\ L \in 1..L
    BY <1>2
  <2>2. Last(stack) = stack[L]
    BY DEF Last
  <2>3. Heights[L - 1] = Node(stack[L - 1]).height /\ Heights[L] = Node(Last(stack)).height
    BY <1>5, <2>1, <2>2 DEF Node
  <2> QED BY <2>1, <2>3 DEF MergePending
<1>9. MergePending => L >= 2
  BY DEF MergePending
<1>10. ASSUME ~MergePending PROVE Falling(Heights)
  <2> SUFFICES ASSUME NEW i \in 1..(L - 1) PROVE Heights[i + 1] < Heights[i]
    BY <1>2 DEF Falling
  <2>1. L >= 2 /\ (i = L - 1 => i + 1 = L)
    BY <1>2
  <2>2. Heights[i + 1] < Heights[i] \/ (i = L - 1 /\ Heights[i + 1] = Heights[i])
    BY <1>2 DEF Sloping
  <2> QED BY <1>8, <1>10, <2>1, <2>2
<1> QED BY <1>1, <1>2, <1>4, <1>5, <1>6, <1>7, <1>8, <1>9, <1>10

(* When nothing is to be joined, the viewer counts leaves and nodes right. *)
LEMMA CountsAre ==
    ASSUME MmrInv, ~MergePending
    PROVE  /\ NodeCount(Len(leaves)) = Len(nodes)
           /\ LeafCountFromSize(Len(nodes)) = Len(leaves)
<1> DEFINE L == Len(stack)
           n == Len(nodes)
           l == Len(leaves)
<1>1. n \in Nat /\ L \in Nat /\ l \in Nat /\ n = 2 * l - L
  BY StackFacts DEF MmrInv, LeavesInv
<1>2. Heights \in Seq(Nat) /\ Len(Heights) = L /\ Falling(Heights) /\ Sloping(Heights)
      /\ n = Offset(Heights, L)
  BY StackFacts DEF MmrInv, RidgeOf
<1>3. PICK w \in Nat : 2 * w = n + L /\ PopCount[w] = L
  BY <1>2, BitsAreMountains
<1>4. w = l
  <2> HIDE DEF n, L, l
  <2> QED BY <1>1, <1>3
<1>5. NodeCount(l) = n
  <2> DEFINE c == PopCount[l]
  <2>1. c = L /\ NodeCount(l) = 2 * l - c
    BY <1>3, <1>4 DEF NodeCount
  <2> HIDE DEF n, L, l, c
  <2> QED BY <1>1, <2>1
<1>6. \A i \in 1..L : HeightAt(Offset(Heights, i) - 1) = Heights[i]
  <2> SUFFICES ASSUME NEW i \in 1..L
               PROVE  HeightAt(Offset(Heights, i) - 1) = Heights[i]
    OBVIOUS
  <2>1. stack[i] = Offset(Heights, i) - 1 /\ stack[i] \in 0..(n - 1)
        /\ Heights[i] = nodes[stack[i] + 1].height
    BY <1>2, StackFacts DEF MmrInv, RidgeOf
  <2> DEFINE b == stack[i]
  <2>2. b + 1 \in 1..n /\ (b + 1) - 1 = b
    <3>1. b \in 0..(n - 1)
      BY <2>1
    <3> HIDE DEF b, n
    <3> QED BY <1>1, <3>1
  <2>3. b + 1 \in DOMAIN nodes
    BY <2>2, StackFacts
  <2>4. HeightAt((b + 1) - 1) = nodes[b + 1].height
    BY <2>3 DEF MmrInv, NodesInv
  <2> QED BY <2>1, <2>2, <2>4
<1>7. LeafCountFromSize(n) \in Nat /\ 2 * LeafCountFromSize(n) = n + L
  BY <1>2, <1>6, LeafCountIs
<1>8. LeafCountFromSize(n) = l
  <2> DEFINE t == LeafCountFromSize(n)
  <2> HIDE DEF n, L, l, t
  <2>1. t = l
    BY <1>1, <1>7 DEF t
  <2> QED BY <2>1 DEF t
<1> QED BY <1>5, <1>8

LEMMA MmrInvInit == Init => MmrInv
<1> SUFFICES ASSUME Init PROVE MmrInv
  OBVIOUS
<1>1. leaves = <<>> /\ nodes = <<>> /\ stack = <<>> /\ past = <<>>
  BY DEF Init
<1>2. NodesInv
  BY <1>1 DEF NodesInv
<1>3. LeavesInv
  BY <1>1, MmrAssumption DEF LeavesInv
<1>4. PastInv
  BY <1>1 DEF PastInv
<1>5. RidgeOf(Heights, stack, Len(nodes))
  <2>1. Heights = <<>>
    BY <1>1 DEF Heights
  <2>2. <<>> \in Seq(Nat) /\ Len(<<>>) = 0
    OBVIOUS
  <2>3. Offset(<<>>, Len(<<>>)) = 0
    BY <2>2, OffsetFacts
  <2> QED BY <1>1, <2>1, <2>2, <2>3 DEF RidgeOf, Sloping
<1> QED BY <1>2, <1>3, <1>4, <1>5 DEF MmrInv

(* One more node: the earlier ones stay as they are.                       *)
LEMMA NodesInvGrows ==
    ASSUME MmrInv, NEW node, nodes' = Append(nodes, node),
           node.height \in Nat, HeightAt(Len(nodes)) = node.height,
           Len(node.kids) \in {0, 2},
           \A k \in DOMAIN node.kids : node.kids[k] \in 0..(Len(nodes) - 1)
    PROVE  /\ NodesInv'
           /\ Len(nodes') = Len(nodes) + 1
           /\ nodes'[Len(nodes) + 1] = node
           /\ \A i \in 1..Len(nodes) : nodes'[i] = nodes[i]
<1> DEFINE n == Len(nodes)
<1>1. PICK S : nodes \in Seq(S)
  BY DEF MmrInv, NodesInv
<1> DEFINE T == S \cup {node}
<1>2. nodes \in Seq(T) /\ node \in T /\ n \in Nat
  <2>1. \A i \in 1..Len(nodes) : nodes[i] \in T
    BY <1>1
  <2>2. nodes = [i \in 1..Len(nodes) |-> nodes[i]] /\ n \in Nat
    BY <1>1
  <2> QED BY <1>1, <2>1, <2>2
<1> HIDE DEF T
<1>3. /\ nodes' \in Seq(T) /\ Len(nodes') = n + 1 /\ nodes'[n + 1] = node
      /\ \A i \in 1..n : nodes'[i] = nodes[i]
  BY <1>2, AppendFacts
<1>4. ASSUME NEW i \in DOMAIN nodes'
      PROVE  /\ nodes'[i].height \in Nat
             /\ HeightAt(i - 1) = nodes'[i].height
             /\ Len(nodes'[i].kids) \in {0, 2}
             /\ \A k \in DOMAIN nodes'[i].kids : nodes'[i].kids[k] \in 0..(i - 2)
  <2>1. i \in 1..(n + 1)
    BY <1>3
  <2>2. CASE i = n + 1
    <3>1. i - 1 = n /\ i - 2 = n - 1
      BY <1>2, <2>2
    <3> QED BY <1>3, <2>2, <3>1
  <2>3. CASE i # n + 1
    <3>1. i \in 1..n
      BY <1>2, <2>1, <2>3
    <3>2. nodes'[i] = nodes[i] /\ i \in DOMAIN nodes
      BY <1>2, <1>3, <3>1
    <3> QED BY <3>2 DEF MmrInv, NodesInv
  <2> QED BY <2>2, <2>3
<1>5. NodesInv'
  BY <1>3, <1>4 DEF NodesInv
<1> QED BY <1>3, <1>5

LEMMA AddLeafKeeps ==
    ASSUME MmrInv, AddLeaf
    PROVE  MmrInv'
<1> DEFINE n == Len(nodes)
           L == Len(stack)
           l == Len(leaves)
<1>1. PICK digest \in Digests :
        /\ leaves' = Append(leaves, digest)
        /\ nodes' = Append(nodes, [hash |-> LeafHash(digest), height |-> 0, kids |-> <<>>])
  BY DEF AddLeaf
<1>2. ~MergePending /\ l < MaxLeaves /\ stack' = Append(stack, n) /\ past' = Append(past, stack)
  BY DEF AddLeaf
<1> DEFINE node == [hash |-> LeafHash(digest), height |-> 0, kids |-> <<>>]
<1>3. n \in Nat /\ L \in Nat /\ stack \in Seq(Nat) /\ Heights \in Seq(Nat) /\ Len(Heights) = L
      /\ Falling(Heights) /\ RidgeOf(Heights, stack, n)
      /\ \A i \in 1..L : /\ stack[i] \in 0..(n - 1)
                         /\ Heights[i] = nodes[stack[i] + 1].height
  BY <1>2, StackFacts DEF MmrInv
<1> DEFINE hs == Append(Heights, 0)
<1>4. RidgeOf(hs, stack', n + 1)
  BY <1>2, <1>3, RidgeAdd
<1>5. hs \in Seq(Nat) /\ Len(hs) = L + 1 /\ hs[L + 1] = 0
      /\ \A i \in 1..L : hs[i] = Heights[i]
  BY <1>3, AppendFacts
<1>6. stack' \in Seq(Nat) /\ Len(stack') = L + 1 /\ stack'[L + 1] = n
      /\ \A i \in 1..L : stack'[i] = stack[i]
  BY <1>2, <1>3, AppendFacts
<1>7. HeightAt(n) = 0
  <2>1. hs # <<>> /\ Len(hs) = L + 1
    <3> HIDE DEF hs, L
    <3> QED BY <1>3, <1>5
  <2>2. HeightAt((n + 1) - 1) = hs[Len(hs)]
    <3> HIDE DEF hs
    <3> QED BY <1>4, <2>1, RidgeFacts
  <2>3. (n + 1) - 1 = n
    BY <1>3
  <2> QED BY <1>5, <2>1, <2>2, <2>3
<1>8. node.height = 0 /\ node.kids = <<>> /\ nodes' = Append(nodes, node)
  BY <1>1
<1> HIDE DEF hs, node
<1>9. /\ NodesInv'
      /\ Len(nodes') = n + 1
      /\ nodes'[n + 1] = node
      /\ \A i \in 1..n : nodes'[i] = nodes[i]
  <2>1. node.height \in Nat /\ Len(node.kids) \in {0, 2} /\ DOMAIN node.kids = {}
    BY <1>8
  <2> QED BY <1>7, <1>8, <2>1, NodesInvGrows
<1>10. Heights' = hs
  <2>1. Heights' = [i \in 1..Len(stack') |-> nodes'[stack'[i] + 1].height]
    BY DEF Heights, Node
  <2>2. hs = [i \in 1..(L + 1) |-> hs[i]]
    BY <1>5
  <2>3. ASSUME NEW i \in 1..(L + 1) PROVE nodes'[stack'[i] + 1].height = hs[i]
    <3>1. CASE i = L + 1
      BY <1>5, <1>6, <1>8, <1>9, <3>1
    <3>2. CASE i # L + 1
      <4>1. i \in 1..L
        BY <1>3, <3>2
      <4>2. stack[i] \in 0..(n - 1)
        BY <1>3, <4>1
      <4> DEFINE b == stack[i]
      <4>3. b + 1 \in 1..n
        <5> HIDE DEF b, n
        <5> QED BY <1>3, <4>2 DEF b
      <4> QED BY <1>3, <1>5, <1>6, <1>9, <4>1, <4>3
    <3> QED BY <3>1, <3>2
  <2> QED BY <1>6, <2>1, <2>2, <2>3
<1>11. leaves \in Seq(Digests) /\ n = 2 * l - L /\ l \in Nat /\ l <= MaxLeaves
  BY DEF MmrInv, LeavesInv
<1>12. leaves' \in Seq(Digests) /\ Len(leaves') = l + 1
  BY <1>1, <1>11, AppendFacts
<1>13. LeavesInv'
  <2>1. l + 1 <= MaxLeaves
    BY <1>2, <1>11, MmrAssumption
  <2>2. n + 1 = 2 * (l + 1) - (L + 1)
    <3> HIDE DEF n, L, l
    <3> QED BY <1>3, <1>11
  <2> QED BY <1>6, <1>9, <1>12, <2>1, <2>2 DEF LeavesInv
<1>14. PastInv'
  <2>1. PICK S : past \in Seq(S)
    BY DEF MmrInv, PastInv
  <2>2. Len(past) = l /\ \A i \in 2..l : Last(past[i]) + 1 = NodeCount(i - 1)
    BY DEF MmrInv, PastInv
  <2> DEFINE T == S \cup {stack}
  <2>3. past \in Seq(T) /\ stack \in T
    <3>1. \A i \in 1..Len(past) : past[i] \in T
      BY <2>1
    <3>2. past = [i \in 1..Len(past) |-> past[i]] /\ Len(past) \in Nat
      BY <2>1
    <3> QED BY <2>1, <3>1, <3>2
  <2> HIDE DEF T
  <2>4. /\ past' \in Seq(T) /\ Len(past') = l + 1 /\ past'[l + 1] = stack
        /\ \A i \in 1..l : past'[i] = past[i]
    BY <1>2, <2>2, <2>3, AppendFacts
  <2>5. ASSUME NEW i \in 2..(l + 1) PROVE Last(past'[i]) + 1 = NodeCount(i - 1)
    <3>1. CASE i = l + 1
      <4>1. stack # <<>>
        <5>1. n = 0 => l = 0 \/ L # 0
          BY <1>11, <1>3
        <5>2. stack = <<>> => n = 0 /\ L = 0
          BY StackFacts
        <5>3. l # 0
          BY <3>1
        <5> QED BY <5>1, <5>2, <5>3
      <4>2. Last(stack) + 1 = n
        BY <1>3, <4>1, StackFacts DEF Last
      <4>3. NodeCount(l) = n
        BY <1>2, CountsAre
      <4>4. i - 1 = l
        BY <1>11, <3>1
      <4> QED BY <2>4, <3>1, <4>2, <4>3, <4>4
    <3>2. CASE i # l + 1
      <4>1. i \in 2..l /\ i \in 1..l
        BY <1>11, <3>2
      <4> QED BY <2>2, <2>4, <4>1
    <3> QED BY <3>1, <3>2
  <2> QED BY <1>12, <2>4, <2>5 DEF PastInv
<1>15. RidgeOf(Heights, stack, Len(nodes))'
  BY <1>4, <1>9, <1>10
<1> QED BY <1>9, <1>13, <1>14, <1>15 DEF MmrInv

LEMMA MergeKeeps ==
    ASSUME MmrInv, Merge
    PROVE  MmrInv'
<1> DEFINE n == Len(nodes)
           L == Len(stack)
           l == Len(leaves)
           left == stack[L - 1]
           right == stack[L]
           node == [hash |-> InteriorHash(Node(left).hash, Node(right).hash, n),
                    height |-> Node(left).height + 1,
                    kids |-> <<left, right>>]
<1>1. /\ MergePending
      /\ nodes' = Append(nodes, node)
      /\ stack' = Append(SubSeq(stack, 1, L - 2), n)
      /\ leaves' = leaves /\ past' = past
  BY DEF Merge, Last
<1>2. n \in Nat /\ L \in Nat /\ stack \in Seq(Nat) /\ Heights \in Seq(Nat) /\ Len(Heights) = L
      /\ L >= 2 /\ Heights[L - 1] = Heights[L] /\ RidgeOf(Heights, stack, n)
      /\ \A i \in 1..L : /\ stack[i] \in 0..(n - 1)
                         /\ Heights[i] = nodes[stack[i] + 1].height
  BY <1>1, StackFacts DEF MmrInv
<1> DEFINE h == Heights[L]
           hs == Append(SubSeq(Heights, 1, L - 2), h + 1)
           m == L - 2
<1>3. RidgeOf(hs, stack', n + 1)
  BY <1>1, <1>2, RidgeMerge
<1>4. m \in Nat /\ m <= L /\ m + 1 = L - 1 /\ L - 1 \in 1..L /\ L \in 1..L
  <2>1. L \in Nat /\ L >= 2
    BY <1>2
  <2> HIDE DEF L
  <2> QED BY <2>1
<1>5. h \in Nat /\ h + 1 \in Nat
  <2>1. L \in 1..Len(Heights) /\ Heights \in Seq(Nat)
    BY <1>2, <1>4
  <2>2. h \in Nat
    BY <2>1
  <2> HIDE DEF h
  <2> QED BY <2>2
<1>6. left \in 0..(n - 1) /\ right \in 0..(n - 1) /\ Node(left).height = h
  BY <1>2, <1>4 DEF Node
<1>7. /\ hs \in Seq(Nat) /\ Len(hs) = m + 1 /\ hs[m + 1] = h + 1
      /\ \A i \in 1..m : hs[i] = Heights[i]
  <2> DEFINE some == SubSeq(Heights, 1, m)
  <2> HIDE DEF m
  <2>1. some \in Seq(Nat) /\ Len(some) = m /\ \A i \in 1..m : some[i] = Heights[i]
    BY <1>2, <1>4, FrontFacts
  <2>2. hs = Append(some, h + 1)
    BY DEF m
  <2> HIDE DEF some, hs, h
  <2>3. /\ Append(some, h + 1) \in Seq(Nat) /\ Len(Append(some, h + 1)) = m + 1
        /\ Append(some, h + 1)[m + 1] = h + 1
        /\ \A i \in 1..m : Append(some, h + 1)[i] = some[i]
    BY <1>5, <2>1, AppendFacts
  <2> QED BY <2>1, <2>2, <2>3
<1>8. /\ stack' \in Seq(Nat) /\ Len(stack') = m + 1 /\ stack'[m + 1] = n
      /\ \A i \in 1..m : stack'[i] = stack[i]
  <2> DEFINE some == SubSeq(stack, 1, m)
  <2>1. stack' = Append(some, n)
    BY <1>1
  <2> HIDE DEF m
  <2>2. some \in Seq(Nat) /\ Len(some) = m /\ \A i \in 1..m : some[i] = stack[i]
    BY <1>2, <1>4, FrontFacts
  <2> HIDE DEF some
  <2>3. /\ Append(some, n) \in Seq(Nat) /\ Len(Append(some, n)) = m + 1
        /\ Append(some, n)[m + 1] = n
        /\ \A i \in 1..m : Append(some, n)[i] = some[i]
    <3>1. some \in Seq(Nat) /\ Len(some) = m /\ n \in Nat
      BY <1>2, <2>2
    <3> HIDE DEF n
    <3> QED BY <3>1, AppendFacts
  <2> QED BY <2>1, <2>2, <2>3
<1>9. node.height = h + 1 /\ node.kids = <<left, right>>
  BY <1>6
<1> HIDE DEF node, hs, m
<1>10. HeightAt(n) = h + 1
  <2>1. hs # <<>> /\ Len(hs) = m + 1
    BY <1>4, <1>7
  <2>2. HeightAt((n + 1) - 1) = hs[Len(hs)]
    BY <1>3, <2>1, RidgeFacts
  <2>3. (n + 1) - 1 = n
    BY <1>2
  <2> QED BY <1>7, <2>1, <2>2, <2>3
<1>11. /\ NodesInv'
       /\ Len(nodes') = n + 1
       /\ nodes'[n + 1] = node
       /\ \A i \in 1..n : nodes'[i] = nodes[i]
  <2>1. Len(node.kids) = 2 /\ \A k \in DOMAIN node.kids : node.kids[k] \in 0..(n - 1)
    BY <1>6, <1>9
  <2> QED BY <1>1, <1>5, <1>9, <1>10, <2>1, NodesInvGrows
<1>12. Heights' = hs
  <2>1. Heights' = [i \in 1..Len(stack') |-> nodes'[stack'[i] + 1].height]
    BY DEF Heights, Node
  <2>2. hs = [i \in 1..(m + 1) |-> hs[i]]
    BY <1>7
  <2>3. ASSUME NEW i \in 1..(m + 1) PROVE nodes'[stack'[i] + 1].height = hs[i]
    <3>1. CASE i = m + 1
      BY <1>7, <1>8, <1>9, <1>11, <3>1
    <3>2. CASE i # m + 1
      <4>1. i \in 1..m /\ i \in 1..L
        BY <1>2, <1>4, <3>2
      <4>2. stack[i] \in 0..(n - 1)
        BY <1>2, <4>1
      <4> DEFINE b == stack[i]
      <4>3. b + 1 \in 1..n
        <5>1. b \in 0..(n - 1) /\ n \in Nat
          BY <1>2, <4>2
        <5> HIDE DEF b, n
        <5> QED BY <5>1
      <4> QED BY <1>2, <1>7, <1>8, <1>11, <4>1, <4>3
    <3> QED BY <3>1, <3>2
  <2> QED BY <1>8, <2>1, <2>2, <2>3
<1>13. LeavesInv'
  <2>1. leaves \in Seq(Digests) /\ n = 2 * l - L /\ l \in Nat /\ l <= MaxLeaves
    BY DEF MmrInv, LeavesInv
  <2>2. n + 1 = 2 * l - (m + 1)
    <3> HIDE DEF n, L, l
    <3> QED BY <1>2, <1>4, <2>1
  <2> QED BY <1>1, <1>8, <1>11, <2>1, <2>2 DEF LeavesInv
<1>14. PastInv'
  BY <1>1 DEF PastInv, MmrInv
<1>15. RidgeOf(Heights, stack, Len(nodes))'
  BY <1>3, <1>11, <1>12
<1> QED BY <1>11, <1>13, <1>14, <1>15 DEF MmrInv

LEMMA MmrInvNext == MmrInv /\ [Next]_vars => MmrInv'
<1> SUFFICES ASSUME MmrInv, [Next]_vars PROVE MmrInv'
  OBVIOUS
<1>1. CASE AddLeaf
  BY <1>1, AddLeafKeeps
<1>2. CASE Merge
  BY <1>2, MergeKeeps
<1>3. CASE UNCHANGED vars
  <2>1. leaves' = leaves /\ nodes' = nodes /\ stack' = stack /\ past' = past
    BY <1>3 DEF vars
  <2>2. Heights' = Heights
    BY <2>1 DEF Heights, Node
  <2> QED BY <2>1, <2>2 DEF MmrInv, NodesInv, LeavesInv, PastInv
<1> QED BY <1>1, <1>2, <1>3 DEF Next

LEMMA MmrAlways == Spec => []MmrInv
BY MmrInvInit, MmrInvNext, PTL DEF Spec

(* What is read off a size agrees with what the invariant says of it.     *)
LEMMA PositionsHold == MmrInv => PositionsMatch
<1> SUFFICES ASSUME MmrInv PROVE PositionsMatch
  OBVIOUS
<1> DEFINE n == Len(nodes)
           L == Len(stack)
           l == Len(leaves)
<1>1. n \in Nat /\ DOMAIN nodes = 1..n /\ Heights \in Seq(Nat) /\ Len(Heights) = L
      /\ L \in Nat
  BY StackFacts
<1>2. \A pos \in 0..(n - 1) : HeightAt(pos) = Node(pos).height
  <2> SUFFICES ASSUME NEW pos \in 0..(n - 1) PROVE HeightAt(pos) = Node(pos).height
    OBVIOUS
  <2>1. pos + 1 \in 1..n /\ (pos + 1) - 1 = pos
    BY <1>1
  <2>2. HeightAt((pos + 1) - 1) = nodes[pos + 1].height
    BY <1>1, <2>1 DEF MmrInv, NodesInv
  <2> QED BY <2>1, <2>2 DEF Node
<1>3. ValidSize(n) <=> (~MergePending /\ n < MaxMmrSize)
  <2>1. Mountains[n] = Heights
    BY RidgeFacts DEF MmrInv
  <2>2. ValidSize(n) <=> n < MaxMmrSize /\ Falling(Heights)
    BY <2>1 DEF ValidSize, Falling
  <2>3. ~MergePending => Falling(Heights)
    BY StackFacts
  <2>4. ASSUME MergePending, Falling(Heights) PROVE FALSE
    <3>1. L >= 2 /\ Heights[L - 1] = Heights[L]
      BY <2>4, StackFacts
    <3>2. L - 1 \in 1..(L - 1) /\ (L - 1) + 1 = L /\ L \in 1..L
      BY <1>1, <3>1
    <3>3. Heights[L] < Heights[L - 1] /\ Heights[L] \in Nat
      BY <1>1, <2>4, <3>2 DEF Falling
    <3> QED BY <3>1, <3>3
  <2> QED BY <2>2, <2>3, <2>4
<1>4. Peaks(n) = stack
  BY RidgeFacts DEF MmrInv
<1>5. \A i \in 0..(l - 1) : LeafIndexToPos(i) = LeafPos(i)
  <2> SUFFICES ASSUME NEW i \in 0..(l - 1) PROVE LeafIndexToPos(i) = LeafPos(i)
    OBVIOUS
  <2>0. l \in Nat /\ Len(past) = l
    BY DEF MmrInv, LeavesInv, PastInv
  <2>1. CASE i = 0
    <3>1. NodeCount(0) = 0
      BY PopCountExists DEF NodeCount
    <3> QED BY <2>1, <3>1 DEF LeafIndexToPos, LeafPos
  <2>2. CASE i # 0
    <3>1. i + 1 \in 2..Len(past) /\ (i + 1) - 1 = i
      BY <2>0, <2>2
    <3>2. Last(past[i + 1]) + 1 = NodeCount((i + 1) - 1)
      BY <3>1 DEF MmrInv, PastInv
    <3> QED BY <2>2, <3>1, <3>2 DEF LeafIndexToPos, LeafPos
  <2> QED BY <2>1, <2>2
<1>6. ~MergePending => LeafCountFromSize(n) = l /\ NodeCount(l) = n
  BY CountsAre
<1> QED BY <1>2, <1>3, <1>4, <1>5, <1>6 DEF PositionsMatch

-----------------------------------------------------------------------------
(* Hashes                                                                  *)

(* A hash made of one hash and what is put beside it.                      *)
Hashed(kind, hash, beside, position) ==
    IF kind = "bag" THEN <<"bag", hash, beside>>
    ELSE IF kind = "right" THEN InteriorHash(beside, hash, position)
    ELSE InteriorHash(hash, beside, position)

LEMMA HashedInjective ==
    ASSUME NEW kind, NEW a, NEW b, NEW c, NEW d, NEW position,
           Hashed(kind, a, b, position) = Hashed(kind, c, d, position)
    PROVE  a = c /\ b = d
<1>1. CASE kind = "bag"
  BY <1>1 DEF Hashed
<1>2. CASE kind = "right"
  BY <1>2 DEF Hashed, InteriorHash
<1>3. CASE kind # "bag" /\ kind # "right"
  BY <1>3 DEF Hashed, InteriorHash
<1> QED BY <1>1, <1>2, <1>3

(* f is the chain of the hashes up to n.                                   *)
Chained(f, n, base, kind, beside, position) ==
    f = [i \in 0..n |-> IF i = 0 THEN base
                        ELSE Hashed(kind[i], f[i - 1], beside[i], position[i])]

LEMMA ChainExists ==
    ASSUME NEW n \in Nat, NEW base, NEW kind, NEW beside, NEW position
    PROVE  \E f : Chained(f, n, base, kind, beside, position)
<1> DEFINE Good(f, k) == Chained(f, k, base, kind, beside, position)
           Bad == {k \in 0..n : ~\E f : Good(f, k)}
<1>1. Bad = {}
  <2> SUFFICES ASSUME Bad # {} PROVE FALSE
    OBVIOUS
  <2>1. PICK k \in Bad : \A m \in Bad : k <= m
    <3>1. Bad \subseteq Nat
      OBVIOUS
    <3> HIDE DEF Bad
    <3> QED BY <3>1, LeastNat
  <2>2. k \in 0..n /\ ~\E f : Good(f, k)
    OBVIOUS
  <2>3. CASE k = 0
    <3> DEFINE f == [i \in 0..k |-> base]
    <3>1. Good(f, k)
      BY <2>3 DEF Chained
    <3> QED BY <2>2, <3>1
  <2>4. CASE k # 0
    <3> DEFINE j == k - 1
    <3>1. j \in 0..n /\ ~(k <= j) /\ j + 1 = k
      BY <2>2, <2>4
    <3>2. PICK g : Good(g, j)
      BY <2>1, <3>1
    <3> HIDE DEF j
    <3> DEFINE f == [i \in 0..k |-> IF i = k
                                    THEN Hashed(kind[k], g[j], beside[k], position[k])
                                    ELSE g[i]]
    <3>3. ASSUME NEW i \in 0..k
          PROVE  f[i] = IF i = 0 THEN base
                        ELSE Hashed(kind[i], f[i - 1], beside[i], position[i])
      <4>1. CASE i = k
        <5>1. f[i - 1] = g[j] /\ i # 0
          BY <2>2, <2>4, <3>1, <4>1
        <5>2. f[i] = Hashed(kind[k], g[j], beside[k], position[k])
          BY <4>1
        <5> HIDE DEF f
        <5> QED BY <4>1, <5>1, <5>2
      <4>2. CASE i # k
        <5>1. i \in 0..j
          BY <2>2, <3>1, <4>2
        <5>2. f[i] = g[i] /\ (i # 0 => f[i - 1] = g[i - 1])
          BY <2>2, <3>1, <4>2
        <5>3. g[i] = IF i = 0 THEN base
                     ELSE Hashed(kind[i], g[i - 1], beside[i], position[i])
          BY <3>2, <5>1 DEF Chained
        <5> HIDE DEF f
        <5> QED BY <5>2, <5>3
      <4> QED BY <4>1, <4>2
    <3>4. f = [i \in 0..k |-> f[i]]
      OBVIOUS
    <3> HIDE DEF f
    <3>5. Good(f, k)
      BY <3>3, <3>4 DEF Chained
    <3> QED BY <2>2, <3>5
  <2> QED BY <2>3, <2>4
<1>2. n \in 0..n
  OBVIOUS
<1> QED BY <1>1, <1>2

LEMMA ChainedFacts ==
    ASSUME NEW n \in Nat, NEW base, NEW kind, NEW beside, NEW position, NEW f,
           Chained(f, n, base, kind, beside, position)
    PROVE  /\ f[0] = base
           /\ \A i \in 1..n : f[i] = Hashed(kind[i], f[i - 1], beside[i], position[i])
<1>1. 0 \in 0..n /\ \A i \in 1..n : i \in 0..n /\ i # 0
  OBVIOUS
<1> QED BY <1>1 DEF Chained

(* From the last hash of a chain everything that went into it follows.     *)
LEMMA ChainInjective ==
    ASSUME NEW n \in Nat, NEW kind, NEW position, NEW a, NEW b, NEW x, NEW y, NEW f, NEW g,
           Chained(f, n, a, kind, x, position), Chained(g, n, b, kind, y, position),
           f[n] = g[n]
    PROVE  a = b /\ \A i \in 1..n : x[i] = y[i]
<1> DEFINE Bad == {i \in 0..n : f[i] # g[i]}
<1>1. /\ f[0] = a /\ \A i \in 1..n : f[i] = Hashed(kind[i], f[i - 1], x[i], position[i])
      /\ g[0] = b /\ \A i \in 1..n : g[i] = Hashed(kind[i], g[i - 1], y[i], position[i])
  BY ChainedFacts
<1>2. Bad = {}
  <2> SUFFICES ASSUME Bad # {} PROVE FALSE
    OBVIOUS
  <2>1. PICK i \in Bad : \A m \in Bad : m <= i
    <3>1. Bad \subseteq 0..n
      OBVIOUS
    <3> HIDE DEF Bad
    <3> QED BY <3>1, GreatestNat
  <2>2. i \in 0..n /\ f[i] # g[i] /\ i # n
    OBVIOUS
  <2> DEFINE j == i + 1
  <2>3. j \in 0..n /\ j \in 1..n /\ ~(j <= i) /\ j - 1 = i
    BY <2>2
  <2>4. f[j] = g[j]
    BY <2>1, <2>3
  <2> HIDE DEF j, Bad
  <2>5. Hashed(kind[j], f[i], x[j], position[j]) = Hashed(kind[j], g[i], y[j], position[j])
    BY <1>1, <2>3, <2>4
  <2>6. f[i] = g[i]
    BY <2>5, HashedInjective
  <2> QED BY <2>2, <2>6
<1>3. ASSUME NEW i \in 1..n PROVE x[i] = y[i]
  <2>1. i \in 0..n /\ i - 1 \in 0..n
    OBVIOUS
  <2>2. f[i] = g[i]
    BY <1>2, <2>1
  <2>3. Hashed(kind[i], f[i - 1], x[i], position[i]) = Hashed(kind[i], g[i - 1], y[i], position[i])
    BY <1>1, <2>2
  <2> QED BY <2>3, HashedInjective
<1>4. a = b
  <2>1. 0 \in 0..n
    OBVIOUS
  <2> QED BY <1>1, <1>2, <2>1
<1> QED BY <1>3, <1>4

Bagging == [i \in Nat |-> "bag"]

Nowhere == [i \in Nat |-> 0]

LEMMA RootChain ==
    ASSUME NEW S, NEW s \in Seq(S), s # <<>>
    PROVE  \E f : /\ Chained(f, Len(s) - 1, s[Len(s)], Bagging,
                             [k \in 1..(Len(s) - 1) |-> s[Len(s) - k]], Nowhere)
                  /\ RootFromPeaks(s) = f[Len(s) - 1]
<1> DEFINE last == Len(s)
           beside == [k \in 1..(last - 1) |-> s[last - k]]
           bag == CHOOSE bagged : bagged =
                    [k \in 0..(last - 1) |-> IF k = 0 THEN s[last]
                                             ELSE <<"bag", bagged[k - 1], s[last - k]>>]
<1>1. last - 1 \in Nat /\ last \in Nat
  OBVIOUS
<1>2. RootFromPeaks(s) = bag[last - 1]
  BY DEF RootFromPeaks
<1> HIDE DEF last
<1>3. PICK f : Chained(f, last - 1, s[last], Bagging, beside, Nowhere)
  BY <1>1, ChainExists
<1>4. \A g, k : k \in 0..(last - 1) /\ k # 0 =>
        Hashed(Bagging[k], g[k - 1], beside[k], Nowhere[k]) = <<"bag", g[k - 1], s[last - k]>>
  <2> SUFFICES ASSUME NEW g, NEW k \in 0..(last - 1), k # 0
               PROVE  Hashed(Bagging[k], g[k - 1], beside[k], Nowhere[k])
                        = <<"bag", g[k - 1], s[last - k]>>
    OBVIOUS
  <2>1. Bagging[k] = "bag" /\ beside[k] = s[last - k]
    BY <1>1 DEF Bagging
  <2> HIDE DEF beside
  <2> QED BY <2>1 DEF Hashed
<1> HIDE DEF beside
<1>5. f = [k \in 0..(last - 1) |-> IF k = 0 THEN s[last]
                                   ELSE <<"bag", f[k - 1], s[last - k]>>]
  BY <1>3, <1>4 DEF Chained
<1>6. bag = [k \in 0..(last - 1) |-> IF k = 0 THEN s[last]
                                     ELSE <<"bag", bag[k - 1], s[last - k]>>]
  BY <1>5
<1> HIDE DEF bag
<1>7. Chained(bag, last - 1, s[last], Bagging, beside, Nowhere)
  BY <1>4, <1>6 DEF Chained
<1> QED BY <1>2, <1>7 DEF beside, last

(* A root tells the peaks, given how many there are.                       *)
LEMMA RootInjective ==
    ASSUME NEW S, NEW s \in Seq(S), NEW t \in Seq(S), Len(s) = Len(t),
           RootFromPeaks(s) = RootFromPeaks(t)
    PROVE  s = t
<1>1. CASE s = <<>>
  <2>1. Len(s) = 0
    BY <1>1
  <2> QED BY <1>1, <2>1
<1>2. CASE s # <<>>
  <2> DEFINE last == Len(s)
             x == [k \in 1..(last - 1) |-> s[last - k]]
             y == [k \in 1..(last - 1) |-> t[last - k]]
  <2>1. last \in Nat /\ last - 1 \in Nat /\ t # <<>> /\ Len(t) = last
    BY <1>2
  <2>2. PICK f : /\ Chained(f, last - 1, s[last], Bagging, x, Nowhere)
                 /\ RootFromPeaks(s) = f[last - 1]
    BY <1>2, RootChain
  <2>3. PICK g : /\ Chained(g, last - 1, t[last], Bagging, y, Nowhere)
                 /\ RootFromPeaks(t) = g[last - 1]
    <3>1. \E g : /\ Chained(g, Len(t) - 1, t[Len(t)], Bagging,
                            [k \in 1..(Len(t) - 1) |-> t[Len(t) - k]], Nowhere)
                 /\ RootFromPeaks(t) = g[Len(t) - 1]
      BY <2>1, RootChain
    <3> QED BY <2>1, <3>1
  <2>4. s[last] = t[last] /\ \A k \in 1..(last - 1) : x[k] = y[k]
    <3> DEFINE n == last - 1
               a == s[last]
               b == t[last]
    <3>1. n \in Nat /\ f[n] = g[n]
      BY <2>1, <2>2, <2>3
    <3>2. Chained(f, n, a, Bagging, x, Nowhere) /\ Chained(g, n, b, Bagging, y, Nowhere)
      BY <2>2, <2>3
    <3> HIDE DEF x, y, last, n, a, b
    <3>3. a = b /\ \A k \in 1..n : x[k] = y[k]
      BY <3>1, <3>2, ChainInjective
    <3> QED BY <3>3 DEF n, a, b
  <2>5. ASSUME NEW i \in 1..last PROVE s[i] = t[i]
    <3>1. CASE i = last
      BY <2>4, <3>1
    <3>2. CASE i # last
      <4> DEFINE k == last - i
      <4>1. k \in 1..(last - 1) /\ last - k = i
        <5> HIDE DEF last
        <5> QED BY <2>1, <3>2
      <4>2. x[k] = s[last - k] /\ y[k] = t[last - k] /\ x[k] = y[k]
        BY <2>4, <4>1
      <4> QED BY <4>1, <4>2
    <3> QED BY <3>1, <3>2
  <2> QED BY <2>1, <2>5, SeqEqual
<1> QED BY <1>1, <1>2

(* How the steps of a path hash.                                           *)
Sides(path) == [i \in 1..Len(path) |-> IF path[i].targetIsRight THEN "right" ELSE "left"]

Parents(path) == [i \in 1..Len(path) |-> path[i].parent]

LEMMA ClimbChain ==
    ASSUME NEW path, Len(path) \in Nat, NEW witness, NEW hash
    PROVE  \E f : /\ Chained(f, Len(path), hash, Sides(path), witness, Parents(path))
                  /\ Climb(hash, path, witness) = f[Len(path)]
<1> DEFINE n == Len(path)
           Step(g, i) == IF path[i].targetIsRight
                         THEN InteriorHash(witness[i], g[i - 1], path[i].parent)
                         ELSE InteriorHash(g[i - 1], witness[i], path[i].parent)
           climb == CHOOSE acc : acc = [i \in 0..n |-> IF i = 0 THEN hash
                         ELSE IF path[i].targetIsRight
                         THEN InteriorHash(witness[i], acc[i - 1], path[i].parent)
                         ELSE InteriorHash(acc[i - 1], witness[i], path[i].parent)]
<1>1. Climb(hash, path, witness) = climb[n]
  BY DEF Climb
<1>2. PICK f : Chained(f, n, hash, Sides(path), witness, Parents(path))
  BY ChainExists
<1>3. \A g, i : i \in 0..n /\ i # 0 =>
        Hashed(Sides(path)[i], g[i - 1], witness[i], Parents(path)[i]) = Step(g, i)
  <2> SUFFICES ASSUME NEW g, NEW i \in 0..n, i # 0
               PROVE  Hashed(Sides(path)[i], g[i - 1], witness[i], Parents(path)[i]) = Step(g, i)
    OBVIOUS
  <2>1. i \in 1..n
    OBVIOUS
  <2>2. /\ Parents(path)[i] = path[i].parent
        /\ Sides(path)[i] = IF path[i].targetIsRight THEN "right" ELSE "left"
    BY <2>1 DEF Parents, Sides
  <2> QED BY <2>2 DEF Hashed
<1> HIDE DEF n
<1>4. \A g : (g = [i \in 0..n |-> IF i = 0 THEN hash ELSE Step(g, i)]) <=>
             Chained(g, n, hash, Sides(path), witness, Parents(path))
  <2> HIDE DEF Step
  <2> QED BY <1>3 DEF Chained
<1>5. climb = [i \in 0..n |-> IF i = 0 THEN hash ELSE Step(climb, i)]
  <2>1. f = [i \in 0..n |-> IF i = 0 THEN hash ELSE Step(f, i)]
    <3> HIDE DEF Step
    <3> QED BY <1>2, <1>4
  <2> QED BY <2>1
<1> HIDE DEF climb, Step
<1>6. Chained(climb, n, hash, Sides(path), witness, Parents(path))
  BY <1>4, <1>5
<1> QED BY <1>1, <1>6 DEF n

(* What a climb arrives at tells where it began, and every witness.        *)
LEMMA ClimbInjective ==
    ASSUME NEW path, Len(path) \in Nat, NEW a, NEW b, NEW x, NEW y,
           Climb(a, path, x) = Climb(b, path, y)
    PROVE  a = b /\ \A i \in 1..Len(path) : x[i] = y[i]
<1>1. PICK f : /\ Chained(f, Len(path), a, Sides(path), x, Parents(path))
               /\ Climb(a, path, x) = f[Len(path)]
  BY ClimbChain
<1>2. PICK g : /\ Chained(g, Len(path), b, Sides(path), y, Parents(path))
               /\ Climb(b, path, y) = g[Len(path)]
  BY ClimbChain
<1> DEFINE n == Len(path)
           kind == Sides(path)
           place == Parents(path)
<1>3. n \in Nat /\ f[n] = g[n]
  BY <1>1, <1>2
<1>4. Chained(f, n, a, kind, x, place) /\ Chained(g, n, b, kind, y, place)
  BY <1>1, <1>2
<1> HIDE DEF n, kind, place
<1>5. a = b /\ \A i \in 1..n : x[i] = y[i]
  BY <1>3, <1>4, ChainInjective
<1> QED BY <1>5 DEF n

LEMMA ClimbNone ==
    ASSUME NEW hash, NEW witness
    PROVE  Climb(hash, <<>>, witness) = hash
<1>1. Len(<<>>) = 0 /\ 0 \in Nat
  OBVIOUS
<1>2. PICK f : /\ Chained(f, Len(<<>>), hash, Sides(<<>>), witness, Parents(<<>>))
               /\ Climb(hash, <<>>, witness) = f[Len(<<>>)]
  BY <1>1, ClimbChain
<1> QED BY <1>1, <1>2, ChainedFacts

LEMMA ClimbOneMore ==
    ASSUME NEW S, NEW path \in Seq(S), NEW step \in S, NEW hash, NEW x, NEW y,
           \A i \in 1..Len(path) : x[i] = y[i]
    PROVE  Climb(hash, Append(path, step), y)
             = IF step.targetIsRight
               THEN InteriorHash(y[Len(path) + 1], Climb(hash, path, x), step.parent)
               ELSE InteriorHash(Climb(hash, path, x), y[Len(path) + 1], step.parent)
<1> DEFINE n == Len(path)
           long == Append(path, step)
           kind == Sides(long)
           place == Parents(long)
<1>1. n \in Nat /\ long \in Seq(S) /\ Len(long) = n + 1 /\ long[n + 1] = step
      /\ \A i \in 1..n : long[i] = path[i]
  BY AppendFacts
<1> HIDE DEF long
<1>2. PICK f : /\ Chained(f, n, hash, Sides(path), x, Parents(path))
               /\ Climb(hash, path, x) = f[n]
  BY <1>1, ClimbChain
<1>3. PICK g : /\ Chained(g, n + 1, hash, kind, y, place)
               /\ Climb(hash, long, y) = g[n + 1]
  <2>1. Len(long) \in Nat
    BY <1>1
  <2>2. PICK g : /\ Chained(g, Len(long), hash, Sides(long), y, Parents(long))
                 /\ Climb(hash, long, y) = g[Len(long)]
    BY <2>1, ClimbChain
  <2> QED BY <1>1, <2>2
<1>4. \A i \in 1..n : kind[i] = Sides(path)[i] /\ place[i] = Parents(path)[i]
  <2> SUFFICES ASSUME NEW i \in 1..n
               PROVE  kind[i] = Sides(path)[i] /\ place[i] = Parents(path)[i]
    OBVIOUS
  <2>1. i \in 1..Len(path) /\ i \in 1..Len(long) /\ long[i] = path[i]
    BY <1>1
  <2> QED BY <2>1 DEF Sides, Parents
<1>5. kind[n + 1] = (IF step.targetIsRight THEN "right" ELSE "left") /\ place[n + 1] = step.parent
  <2>1. n + 1 \in 1..Len(long)
    BY <1>1
  <2> QED BY <1>1, <2>1 DEF Sides, Parents
<1> HIDE DEF kind, place
<1>6. /\ f[0] = hash /\ \A i \in 1..n : f[i] = Hashed(Sides(path)[i], f[i - 1], x[i], Parents(path)[i])
      /\ g[0] = hash /\ \A i \in 1..(n + 1) : g[i] = Hashed(kind[i], g[i - 1], y[i], place[i])
  <2>1. n + 1 \in Nat
    BY <1>1
  <2> HIDE DEF n
  <2>2. f[0] = hash /\ \A i \in 1..n : f[i] = Hashed(Sides(path)[i], f[i - 1], x[i], Parents(path)[i])
    BY <1>1, <1>2, ChainedFacts
  <2>3. g[0] = hash /\ \A i \in 1..(n + 1) : g[i] = Hashed(kind[i], g[i - 1], y[i], place[i])
    BY <1>3, <2>1, ChainedFacts
  <2> QED BY <2>2, <2>3
<1>7. \A i \in 0..n : f[i] = g[i]
  <2> DEFINE Bad == {i \in 0..n : f[i] # g[i]}
  <2> SUFFICES ASSUME Bad # {} PROVE FALSE
    OBVIOUS
  <2>1. PICK i \in Bad : \A m \in Bad : i <= m
    <3>1. Bad \subseteq Nat
      OBVIOUS
    <3> HIDE DEF Bad
    <3> QED BY <3>1, LeastNat
  <2>2. i \in 0..n /\ f[i] # g[i] /\ i # 0
    BY <1>6
  <2>3. i - 1 \in 0..n /\ ~(i <= i - 1) /\ i \in 1..n /\ i \in 1..(n + 1)
    BY <1>1, <2>2
  <2>4. f[i - 1] = g[i - 1]
    BY <2>1, <2>3
  <2>5. x[i] = y[i] /\ kind[i] = Sides(path)[i] /\ place[i] = Parents(path)[i]
    BY <1>4, <2>3
  <2> HIDE DEF Bad, n
  <2>6. f[i] = Hashed(Sides(path)[i], f[i - 1], x[i], Parents(path)[i])
    BY <1>6, <2>3
  <2>7. g[i] = Hashed(kind[i], g[i - 1], y[i], place[i])
    BY <1>6, <2>3
  <2> QED BY <2>2, <2>4, <2>5, <2>6, <2>7
<1>8. g[n + 1] = Hashed(kind[n + 1], f[n], y[n + 1], place[n + 1])
  <2>1. n + 1 \in 1..(n + 1) /\ (n + 1) - 1 = n /\ n \in 0..n
    BY <1>1
  <2>2. g[n + 1] = Hashed(kind[n + 1], g[(n + 1) - 1], y[n + 1], place[n + 1])
    BY <1>6, <2>1
  <2> QED BY <1>7, <2>1, <2>2
<1>9. g[n + 1] = IF step.targetIsRight
                 THEN InteriorHash(y[n + 1], f[n], step.parent)
                 ELSE InteriorHash(f[n], y[n + 1], step.parent)
  BY <1>5, <1>8 DEF Hashed
<1> QED BY <1>2, <1>3, <1>9 DEF long

-----------------------------------------------------------------------------
(* Paths                                                                   *)

StepUp(isRight, root) == [targetIsRight |-> isRight, parent |-> root]

Steps == [targetIsRight : BOOLEAN, parent : Int]

(* The path to target from the root of a mountain of height n, given those *)
(* from the roots below.                                                   *)
PathFrom(target, n, below) ==
    [root \in Int |->
       IF root = target THEN <<>>
       ELSE IF target <= root - MountainSize(n - 1) - 1
       THEN Append(below[root - MountainSize(n - 1) - 1], StepUp(FALSE, root))
       ELSE Append(below[root - 1], StepUp(TRUE, root))]

LEMMA PathFromSteps ==
    ASSUME NEW target, NEW n \in Nat \ {0}, NEW below \in [Int -> Seq(Steps)]
    PROVE  PathFrom(target, n, below) \in [Int -> Seq(Steps)]
<1>1. MountainSize(n - 1) \in Nat
  <2>1. n - 1 \in Nat
    OBVIOUS
  <2> QED BY <2>1, MountainFacts
<1> SUFFICES ASSUME NEW root \in Int
             PROVE  PathFrom(target, n, below)[root] \in Seq(Steps)
  BY DEF PathFrom
<1>2. root - MountainSize(n - 1) - 1 \in Int /\ root - 1 \in Int
  BY <1>1
<1>3. StepUp(FALSE, root) \in Steps /\ StepUp(TRUE, root) \in Steps
  BY DEF StepUp, Steps
<1> DEFINE left == below[root - MountainSize(n - 1) - 1]
           right == below[root - 1]
<1>4. left \in Seq(Steps) /\ right \in Seq(Steps)
  BY <1>2
<1>5. PathFrom(target, n, below)[root]
        \in {<<>>, Append(left, StepUp(FALSE, root)), Append(right, StepUp(TRUE, root))}
  BY DEF PathFrom
<1> HIDE DEF left, right
<1>6. Append(left, StepUp(FALSE, root)) \in Seq(Steps)
  BY <1>3, <1>4, AppendFacts
<1>7. Append(right, StepUp(TRUE, root)) \in Seq(Steps)
  BY <1>3, <1>4, AppendFacts
<1>8. <<>> \in Seq(Steps)
  OBVIOUS
<1> QED BY <1>5, <1>6, <1>7, <1>8

LEMMA PathsExist ==
    ASSUME NEW target
    PROVE  /\ \A root \in Int : LocatePath(target)[0][root] = <<>>
           /\ \A h \in Nat : LocatePath(target)[h + 1]
                               = PathFrom(target, h + 1, LocatePath(target)[h])
<1> DEFINE S == [Int -> Seq(Steps)]
           base == [root \in Int |-> <<>>]
           red == [n \in Nat |-> n - 1]
           step == [n \in Nat |-> [x \in S |-> PathFrom(target, n, x)]]
<1>1. \A n \in Nat \ {0} : red[n] \in 0..(n - 1)
  OBVIOUS
<1>2. \A n \in Nat \ {0}, x \in S : PathFrom(target, n, x) \in S
  BY PathFromSteps
<1>3. \A n \in Nat : \A x \in S : step[n][x] = PathFrom(target, n, x)
  OBVIOUS
<1>4. base \in S
  OBVIOUS
<1> HIDE DEF S, step
<1>5. \A n \in Nat \ {0} : \A x \in S : step[n][x] \in S
  BY <1>2, <1>3
<1> HIDE DEF red, base
<1>6. PICK f \in [Nat -> S] : Solves(f, Nat, base, red, step)
  <2>1. Nat \subseteq Nat /\ \A d \in Nat : 0..d \subseteq Nat
    OBVIOUS
  <2> QED BY <1>1, <1>4, <1>5, <2>1, RecursionExists
<1> DEFINE T(n, g) == [root \in Int |->
          IF n = 0 \/ root = target THEN <<>>
          ELSE IF target <= root - MountainSize(n - 1) - 1
               THEN Append(g[n - 1][root - MountainSize(n - 1) - 1],
                           [targetIsRight |-> FALSE, parent |-> root])
               ELSE Append(g[n - 1][root - 1],
                           [targetIsRight |-> TRUE, parent |-> root])]
<1>7. \A n, g : n # 0 => T(n, g) = PathFrom(target, n, g[n - 1])
  BY DEF PathFrom, StepUp
<1>8. \A g : T(0, g) = base
  BY DEF base
<1>9. f = [n \in Nat |-> T(n, f)]
  <2>1. ASSUME NEW n \in Nat
        PROVE  (IF n = 0 THEN base ELSE step[n][f[red[n]]]) = T(n, f)
    <3> HIDE DEF T
    <3>1. CASE n = 0
      BY <1>8, <3>1
    <3>2. CASE n # 0
      <4>1. red[n] = n - 1 /\ n - 1 \in Nat
        BY <3>2 DEF red
      <4>2. step[n][f[red[n]]] = PathFrom(target, n, f[n - 1])
        BY <1>3, <1>6, <4>1
      <4> QED BY <1>7, <3>2, <4>2
    <3> QED BY <3>1, <3>2
  <2> HIDE DEF T
  <2> QED BY <1>6, <2>1 DEF Solves
<1> DEFINE path == LocatePath(target)
<1>10. path = [n \in Nat |-> T(n, path)]
  BY <1>9 DEF LocatePath
<1> HIDE DEF T, path
<1>11. \A n \in Nat : path[n] = T(n, path)
  BY <1>10
<1>12. \A root \in Int : path[0][root] = <<>>
  BY <1>8, <1>11 DEF base
<1>13. \A h \in Nat : path[h + 1] = PathFrom(target, h + 1, path[h])
  <2> SUFFICES ASSUME NEW h \in Nat PROVE path[h + 1] = PathFrom(target, h + 1, path[h])
    OBVIOUS
  <2>1. h + 1 \in Nat /\ h + 1 # 0 /\ (h + 1) - 1 = h
    OBVIOUS
  <2> QED BY <1>7, <1>11, <2>1
<1> QED BY <1>12, <1>13 DEF path

-----------------------------------------------------------------------------
(* Siblings                                                                *)

ParentsOf(p) ==
    {q \in (p + 1)..(Len(nodes) - 1) :
       \E i \in DOMAIN Node(q).kids : Node(q).kids[i] = p}

ParentOf(p) == CHOOSE q \in ParentsOf(p) : TRUE

SiblingOf(p) ==
    Node(ParentOf(p)).kids[CHOOSE i \in 1..2 : Node(ParentOf(p)).kids[i] # p]

(* Siblings counts up from a node; seen from the last node it counts down. *)
LEMMA SiblingsUp ==
    ASSUME Len(nodes) \in Nat,
           \A p \in 0..(Len(nodes) - 1) : ParentsOf(p) # {} => SiblingOf(p) \in Nat
    PROVE  \A p \in 0..(Len(nodes) - 1) :
             Siblings(p) = IF ParentsOf(p) = {} THEN <<>>
                           ELSE <<SiblingOf(p)>> \o Siblings(ParentOf(p))
<1> DEFINE n == Len(nodes)
           D == 0..(n - 1)
           S == Seq(Nat)
           base == <<>>
           red == [m \in D |-> IF ParentsOf(n - 1 - m) = {} THEN 0
                               ELSE n - 1 - ParentOf(n - 1 - m)]
           onto(p, x) == IF ParentsOf(p) = {} THEN <<>> ELSE <<SiblingOf(p)>> \o x
           step == [m \in D |-> [x \in S |-> onto(n - 1 - m, x)]]
<1>1. \A m \in D : n - 1 - m \in D /\ n - 1 - (n - 1 - m) = m
  <2>1. n \in Nat
    OBVIOUS
  <2> HIDE DEF n
  <2> QED BY <2>1
<1>2. \A p : ParentsOf(p) # {} => ParentOf(p) \in (p + 1)..(n - 1)
  <2> SUFFICES ASSUME NEW p, ParentsOf(p) # {} PROVE ParentOf(p) \in (p + 1)..(n - 1)
    OBVIOUS
  <2>1. ParentOf(p) \in ParentsOf(p)
    BY DEF ParentOf
  <2> QED BY <2>1 DEF ParentsOf
<1>3. \A m \in D \ {0} : red[m] \in 0..(m - 1)
  <2> SUFFICES ASSUME NEW m \in D \ {0} PROVE red[m] \in 0..(m - 1)
    OBVIOUS
  <2> DEFINE p == n - 1 - m
             q == ParentOf(p)
  <2>1. n \in Nat /\ m \in Nat /\ m # 0
    OBVIOUS
  <2>2. red[m] = IF ParentsOf(p) = {} THEN 0 ELSE n - 1 - q
    OBVIOUS
  <2>3. ParentsOf(p) # {} => q \in (p + 1)..(n - 1)
    BY <1>2
  <2>4. p = n - 1 - m
    OBVIOUS
  <2> HIDE DEF n, q, p, red
  <2> QED BY <2>1, <2>2, <2>3, <2>4
<1>4. \A p \in D, x \in S : onto(p, x) \in S
  <2> SUFFICES ASSUME NEW p \in D, NEW x \in S PROVE onto(p, x) \in S
    OBVIOUS
  <2>1. CASE ParentsOf(p) = {}
    BY <2>1
  <2>2. CASE ParentsOf(p) # {}
    <3>1. SiblingOf(p) \in Nat
      BY <2>2
    <3>2. <<SiblingOf(p)>> \o x \in Seq(Nat)
      BY <3>1
    <3> QED BY <2>2, <3>2
  <2> QED BY <2>1, <2>2
<1>5. \A m \in D, x \in S : step[m][x] = onto(n - 1 - m, x)
  OBVIOUS
<1>6. base \in S
  OBVIOUS
<1>7. D \subseteq Nat /\ \A d \in D : 0..d \subseteq D
  <2>1. n \in Nat
    OBVIOUS
  <2> HIDE DEF n
  <2> QED BY <2>1
<1> HIDE DEF S, onto, step, red
<1>8. \A m \in D \ {0} : \A x \in S : step[m][x] \in S
  BY <1>1, <1>4, <1>5
<1>9. PICK f \in [D -> S] : Solves(f, D, base, red, step)
  <2> HIDE DEF base, D
  <2> QED BY <1>3, <1>6, <1>7, <1>8, RecursionExists
<1>10. n - 1 \in D => ParentsOf(n - 1) = {}
  <2> SUFFICES ASSUME n - 1 \in D, ParentsOf(n - 1) # {} PROVE FALSE
    OBVIOUS
  <2>1. ParentOf(n - 1) \in ((n - 1) + 1)..(n - 1)
    BY <1>2
  <2>2. n - 1 \in Int
    OBVIOUS
  <2> DEFINE q == ParentOf(n - 1)
  <2> HIDE DEF q, n
  <2> QED BY <2>1, <2>2 DEF q
<1>11. \A m \in D : f[m] = IF ParentsOf(n - 1 - m) = {} THEN <<>>
                           ELSE <<SiblingOf(n - 1 - m)>> \o f[n - 1 - ParentOf(n - 1 - m)]
  <2> SUFFICES ASSUME NEW m \in D
               PROVE  f[m] = IF ParentsOf(n - 1 - m) = {} THEN <<>>
                             ELSE <<SiblingOf(n - 1 - m)>> \o f[n - 1 - ParentOf(n - 1 - m)]
    OBVIOUS
  <2>1. CASE m = 0
    <3>1. n - 1 - m = n - 1 /\ n - 1 - m \in D
      BY <1>1, <2>1
    <3>2. f[m] = base
      BY <1>9, <2>1 DEF Solves
    <3> QED BY <1>10, <3>1, <3>2
  <2>2. CASE m # 0
    <3> DEFINE p == n - 1 - m
    <3>1. f[m] = step[m][f[red[m]]]
      BY <1>9, <2>2 DEF Solves
    <3>2. red[m] \in D
      <4>1. m \in D \ {0}
        BY <2>2
      <4>2. red[m] \in 0..(m - 1) /\ m \in Nat
        BY <1>3, <1>7, <4>1
      <4>3. 0..m \subseteq D
        BY <1>7
      <4> HIDE DEF D
      <4> QED BY <4>2, <4>3
    <3>3. f[m] = onto(p, f[red[m]])
      <4>1. f[red[m]] \in S
        BY <1>9, <3>2
      <4> HIDE DEF D
      <4> QED BY <1>5, <3>1, <4>1
    <3>4. red[m] = IF ParentsOf(p) = {} THEN 0 ELSE n - 1 - ParentOf(p)
      BY DEF red
    <3> HIDE DEF p
    <3>5. f[m] = IF ParentsOf(p) = {} THEN <<>> ELSE <<SiblingOf(p)>> \o f[n - 1 - ParentOf(p)]
      BY <3>3, <3>4 DEF onto
    <3> QED BY <3>5 DEF p
  <2> QED BY <2>1, <2>2
<1> DEFINE g == [p \in D |-> f[n - 1 - p]]
           T(p, up) == IF ParentsOf(p) = {} THEN <<>> ELSE <<SiblingOf(p)>> \o up[ParentOf(p)]
<1>12. \A p \in D : g[p] = T(p, g)
  <2> SUFFICES ASSUME NEW p \in D PROVE g[p] = T(p, g)
    OBVIOUS
  <2> DEFINE m == n - 1 - p
  <2>1. m \in D /\ n - 1 - m = p /\ g[p] = f[m]
    BY <1>1
  <2> HIDE DEF m
  <2>2. f[m] = IF ParentsOf(p) = {} THEN <<>> ELSE <<SiblingOf(p)>> \o f[n - 1 - ParentOf(p)]
    BY <1>11, <2>1
  <2>3. ParentsOf(p) # {} => g[ParentOf(p)] = f[n - 1 - ParentOf(p)]
    <3> SUFFICES ASSUME ParentsOf(p) # {} PROVE ParentOf(p) \in D
      OBVIOUS
    <3>1. ParentOf(p) \in (p + 1)..(n - 1) /\ n \in Nat /\ p \in Nat
      BY <1>2, <1>7
    <3> DEFINE q == ParentOf(p)
    <3> HIDE DEF n, q
    <3> QED BY <3>1 DEF q
  <2> HIDE DEF g
  <2> QED BY <2>1, <2>2, <2>3
<1>13. g = [p \in D |-> T(p, g)]
  <2>1. g = [p \in D |-> g[p]]
    OBVIOUS
  <2> HIDE DEF g, T
  <2> QED BY <1>12, <2>1
<1> HIDE DEF g
<1> DEFINE all == CHOOSE up : up = [p \in 0..(Len(nodes) - 1) |->
                   LET parents == {q \in (p + 1)..(Len(nodes) - 1) :
                                     \E i \in DOMAIN Node(q).kids : Node(q).kids[i] = p}
                   IN  IF parents = {} THEN <<>>
                       ELSE LET q   == CHOOSE q \in parents : TRUE
                                sib == CHOOSE i \in 1..2 : Node(q).kids[i] # p
                            IN  <<Node(q).kids[sib]>> \o up[q]]
<1>14. all = [p \in D |-> T(p, all)]
  <2>1. all = CHOOSE up : up = [p \in D |-> T(p, up)]
    BY DEF ParentsOf, ParentOf, SiblingOf
  <2> HIDE DEF T, D, all
  <2> QED BY <1>13, <2>1
<1>15. \A p : Siblings(p) = all[p]
  BY DEF Siblings
<1> HIDE DEF all
<1>16. \A p \in D : all[p] = T(p, all)
  <2> HIDE DEF T
  <2> QED BY <1>14
<1> QED BY <1>15, <1>16

-----------------------------------------------------------------------------
(* The tree below each node, and what the stack was                        *)

(* The node at pos joins two mountains of height h.                        *)
Joins(pos, h) ==
    LET left == pos - MountainSize(h) - 1
        right == pos - 1
    IN  /\ left \in 0..(pos - 1)
        /\ Node(pos).kids = <<left, right>>
        /\ Node(pos).height = h + 1
        /\ Node(left).height = h
        /\ Node(right).height = h
        /\ Node(pos).hash = InteriorHash(Node(left).hash, Node(right).hash, pos)

TreeInv ==
    \A pos \in 0..(Len(nodes) - 1) :
      \/ Node(pos).height = 0 /\ Node(pos).kids = <<>>
      \/ \E h \in Nat : Joins(pos, h)

IsKid(p, q) == \E i \in DOMAIN Node(q).kids : Node(q).kids[i] = p

(* No node is joined twice, and those on the stack not yet.                *)
ParentsInv ==
    /\ \A p, q, r \in 0..(Len(nodes) - 1) : IsKid(p, q) /\ IsKid(p, r) => q = r
    /\ \A k \in 1..Len(stack), q \in 0..(Len(nodes) - 1) : ~IsKid(stack[k], q)

HeightsOf(st) == [i \in 1..Len(st) |-> Node(st[i]).height]

(* What was there when leaf i was added.                                   *)
Recorded(i) ==
    /\ NodeCount(i - 1) \in 0..(Len(nodes) - 1)
    /\ \A j \in 1..(i - 1) : NodeCount(j - 1) < NodeCount(i - 1)
    /\ Node(NodeCount(i - 1)).hash = LeafHash(leaves[i])
    /\ Falling(HeightsOf(past[i]))
    /\ RidgeOf(HeightsOf(past[i]), past[i], NodeCount(i - 1))

HistoryInv == \A i \in 1..Len(leaves) : Recorded(i)

ShapeInv == MmrInv /\ TreeInv /\ ParentsInv /\ HistoryInv

LEMMA NodesGrow ==
    ASSUME MmrInv, NEW node, nodes' = Append(nodes, node)
    PROVE  /\ Len(nodes) \in Nat
           /\ Len(nodes') = Len(nodes) + 1
           /\ nodes'[Len(nodes) + 1] = node
           /\ \A pos \in 0..(Len(nodes) - 1) : Node(pos)' = Node(pos)
<1> DEFINE n == Len(nodes)
<1>1. PICK S : nodes \in Seq(S)
  BY DEF MmrInv, NodesInv
<1> DEFINE T == S \cup {node}
<1>2. nodes \in Seq(T) /\ node \in T /\ n \in Nat
  <2>1. \A i \in 1..Len(nodes) : nodes[i] \in T
    BY <1>1
  <2>2. nodes = [i \in 1..Len(nodes) |-> nodes[i]] /\ n \in Nat
    BY <1>1
  <2> QED BY <1>1, <2>1, <2>2
<1> HIDE DEF T
<1>3. /\ Len(nodes') = n + 1 /\ nodes'[n + 1] = node
      /\ \A i \in 1..n : nodes'[i] = nodes[i]
  BY <1>2, AppendFacts
<1>4. \A pos \in 0..(n - 1) : pos + 1 \in 1..n
  BY <1>2
<1> QED BY <1>2, <1>3, <1>4 DEF Node

(* A node stays what it is.                                                *)
LEMMA JoinsStays ==
    ASSUME MmrInv, NEW node, nodes' = Append(nodes, node),
           NEW pos \in 0..(Len(nodes) - 1), NEW h \in Nat, Joins(pos, h)
    PROVE  Joins(pos, h)'
<1> DEFINE n == Len(nodes)
           left == pos - MountainSize(h) - 1
           right == pos - 1
<1>1. /\ n \in Nat /\ Node(pos)' = Node(pos)
      /\ \A p \in 0..(n - 1) : Node(p)' = Node(p)
  BY NodesGrow
<1>2. left \in 0..(pos - 1)
  BY DEF Joins
<1>3. left \in 0..(n - 1) /\ right \in 0..(n - 1)
  <2>1. pos \in 0..(n - 1) /\ right = pos - 1
    OBVIOUS
  <2> HIDE DEF n, left, right
  <2> QED BY <1>1, <1>2, <2>1
<1>4. Node(left)' = Node(left) /\ Node(right)' = Node(right)
  BY <1>1, <1>3
<1>5. /\ Node(pos).kids = <<left, right>>
      /\ Node(pos).height = h + 1
      /\ Node(left).height = h
      /\ Node(right).height = h
      /\ Node(pos).hash = InteriorHash(Node(left).hash, Node(right).hash, pos)
  BY DEF Joins
<1> HIDE DEF left, right
<1>6. Joins(pos, h)' <=>
        /\ left \in 0..(pos - 1)
        /\ Node(pos)'.kids = <<left, right>>
        /\ Node(pos)'.height = h + 1
        /\ Node(left)'.height = h
        /\ Node(right)'.height = h
        /\ Node(pos)'.hash = InteriorHash(Node(left)'.hash, Node(right)'.hash, pos)
  BY DEF Joins, left, right
<1> QED BY <1>1, <1>2, <1>4, <1>5, <1>6

LEMMA TreeGrows ==
    ASSUME MmrInv, TreeInv, NEW node, nodes' = Append(nodes, node),
           NEW n, n = Len(nodes),
           \/ node.height = 0 /\ node.kids = <<>>
           \/ \E h \in Nat : Joins(n, h)'
    PROVE  TreeInv'
<1>1. /\ n \in Nat /\ Len(nodes') = n + 1 /\ Node(n)' = node
      /\ \A p \in 0..(n - 1) : Node(p)' = Node(p)
  BY NodesGrow DEF Node
<1> SUFFICES ASSUME NEW pos \in 0..(Len(nodes') - 1)
             PROVE  \/ Node(pos)'.height = 0 /\ Node(pos)'.kids = <<>>
                    \/ \E h \in Nat : Joins(pos, h)'
  BY DEF TreeInv
<1>2. CASE pos = n
  BY <1>1, <1>2
<1>3. CASE pos # n
  <2>1. pos \in 0..(n - 1)
    <3>1. pos \in 0..((n + 1) - 1)
      BY <1>1
    <3> QED BY <1>1, <1>3, <3>1
  <2>2. CASE Node(pos).height = 0 /\ Node(pos).kids = <<>>
    BY <1>1, <2>1, <2>2
  <2>3. CASE \E h \in Nat : Joins(pos, h)
    BY <2>1, <2>3, JoinsStays
  <2> QED BY <2>1, <2>2, <2>3 DEF TreeInv
<1> QED BY <1>2, <1>3

(* Children come first.                                                    *)
LEMMA KidsBelow ==
    ASSUME MmrInv, NEW p, NEW q \in 0..(Len(nodes) - 1), IsKid(p, q)
    PROVE  p \in 0..(q - 1)
<1>1. Len(nodes) \in Nat /\ DOMAIN nodes = 1..Len(nodes)
  BY StackFacts
<1>2. q + 1 \in 1..Len(nodes) /\ (q + 1) - 2 = q - 1
  BY <1>1
<1>3. \A k \in DOMAIN nodes[q + 1].kids : nodes[q + 1].kids[k] \in 0..((q + 1) - 2)
  BY <1>1, <1>2 DEF MmrInv, NodesInv
<1> QED BY <1>2, <1>3 DEF IsKid, Node

LEMMA ParentsGrow ==
    ASSUME MmrInv, ParentsInv, NEW n, n = Len(nodes),
           NEW node, nodes' = Append(nodes, node),
           \A i \in DOMAIN node.kids : \E k \in 1..Len(stack) : node.kids[i] = stack[k],
           \A j \in 1..Len(stack') :
             \/ stack'[j] = n
             \/ /\ \E k \in 1..Len(stack) : stack'[j] = stack[k]
                /\ \A i \in DOMAIN node.kids : node.kids[i] # stack'[j]
    PROVE  ParentsInv'
<1>1. /\ n \in Nat /\ Len(nodes') = n + 1 /\ Node(n)' = node
      /\ \A p \in 0..(n - 1) : Node(p)' = Node(p)
  BY NodesGrow DEF Node
<1>2. \A k \in 1..Len(stack) : stack[k] \in 0..(n - 1)
  BY StackFacts
<1>3. ASSUME NEW q \in 0..(n - 1), NEW p PROVE IsKid(p, q)' => IsKid(p, q) /\ p \in 0..(n - 1)
  <2>1. Node(q)' = Node(q)
    BY <1>1
  <2>2. IsKid(p, q)' => IsKid(p, q)
    BY <2>1 DEF IsKid
  <2>3. IsKid(p, q) => p \in 0..(q - 1)
    BY KidsBelow
  <2> QED BY <1>1, <2>2, <2>3
<1>4. ASSUME NEW p PROVE IsKid(p, n)' => \E i \in DOMAIN node.kids : node.kids[i] = p
  BY <1>1 DEF IsKid
<1>5. \A q \in 0..(Len(nodes') - 1) : q = n \/ q \in 0..(n - 1)
  BY <1>1
<1>6. \A k \in 1..Len(stack), q \in 0..(n - 1) : ~IsKid(stack[k], q)
  BY DEF ParentsInv
<1>7. ASSUME NEW p, NEW q \in 0..(n - 1), IsKid(p, q)', IsKid(p, n)' PROVE FALSE
  <2>1. PICK k \in 1..Len(stack) : p = stack[k]
    BY <1>4, <1>7
  <2> QED BY <1>3, <1>6, <1>7, <2>1
<1>8. ASSUME NEW p, NEW q \in 0..(Len(nodes') - 1), NEW r \in 0..(Len(nodes') - 1),
             IsKid(p, q)', IsKid(p, r)'
      PROVE  q = r
  <2>1. CASE q = n \/ r = n
    BY <1>5, <1>7, <1>8, <2>1
  <2>2. CASE q # n /\ r # n
    <3>1. q \in 0..(n - 1) /\ r \in 0..(n - 1)
      BY <1>5, <2>2
    <3>2. IsKid(p, q) /\ IsKid(p, r) /\ p \in 0..(n - 1)
      BY <1>3, <1>8, <3>1
    <3> QED BY <3>1, <3>2 DEF ParentsInv
  <2> QED BY <2>1, <2>2
<1>9. ASSUME NEW j \in 1..Len(stack'), NEW q \in 0..(Len(nodes') - 1), NEW p, p = stack'[j],
             IsKid(p, q)'
      PROVE  FALSE
  <2>1. CASE p = n
    <3>1. CASE q = n
      <4>1. PICK k \in 1..Len(stack) : n = stack[k]
        BY <1>4, <1>9, <2>1, <3>1, SMTT(20)
      <4>2. n \in 0..(n - 1)
        BY <1>2, <4>1
      <4> QED BY <1>1, <4>2
    <3>2. CASE q # n
      <4>1. n \in 0..(n - 1)
        BY <1>3, <1>5, <1>9, <2>1, <3>2
      <4> QED BY <1>1, <4>1
    <3> QED BY <3>1, <3>2
  <2>2. CASE p # n
    <3>1. /\ \E k \in 1..Len(stack) : p = stack[k]
          /\ \A i \in DOMAIN node.kids : node.kids[i] # p
      BY <1>9, <2>2
    <3>2. CASE q = n
      BY <1>4, <1>9, <3>1, <3>2
    <3>3. CASE q # n
      BY <1>3, <1>5, <1>6, <1>9, <3>1, <3>3
    <3> QED BY <3>2, <3>3
  <2> QED BY <2>1, <2>2
<1>10. \A j \in 1..Len(stack'), q \in 0..(Len(nodes') - 1) : ~IsKid(stack[j], q)'
  <2> SUFFICES ASSUME NEW j \in 1..Len(stack'), NEW q \in 0..(Len(nodes') - 1),
                      IsKid(stack[j], q)'
               PROVE  FALSE
    OBVIOUS
  <2>1. PICK p : p = stack'[j]
    OBVIOUS
  <2>2. IsKid(p, q)'
    BY <2>1 DEF IsKid
  <2> QED BY <1>9, <2>1, <2>2
<1> QED BY <1>8, <1>10 DEF ParentsInv

(* A record of what was, stays.                                            *)
LEMMA RecordedStays ==
    ASSUME MmrInv, NEW node, nodes' = Append(nodes, node),
           NEW i \in 1..Len(leaves), Recorded(i), past'[i] = past[i], leaves'[i] = leaves[i]
    PROVE  Recorded(i)'
<1> DEFINE n == Len(nodes)
           c == NodeCount(i - 1)
           st == past[i]
<1>1. /\ n \in Nat /\ Len(nodes') = n + 1
      /\ \A p \in 0..(n - 1) : Node(p)' = Node(p)
  BY NodesGrow
<1>2. c \in 0..(n - 1) /\ Falling(HeightsOf(st)) /\ RidgeOf(HeightsOf(st), st, c)
  BY DEF Recorded
<1>3. \A k \in 1..Len(st) : st[k] \in 0..(n - 1)
  <2> SUFFICES ASSUME NEW k \in 1..Len(st) PROVE st[k] \in 0..(n - 1)
    OBVIOUS
  <2> DEFINE a == Offset(HeightsOf(st), k)
             b == st[k]
  <2>1. a \in 1..c /\ b = a - 1
    BY <1>2, RidgeFacts DEF RidgeOf
  <2> HIDE DEF a, b, n, c
  <2>2. b \in 0..(n - 1)
    BY <1>1, <1>2, <2>1
  <2> QED BY <2>2 DEF b
<1>4. HeightsOf(past[i])' = HeightsOf(st)
  <2>1. \A k \in 1..Len(st) : Node(st[k])' = Node(st[k])
    <3> SUFFICES ASSUME NEW k \in 1..Len(st) PROVE Node(st[k])' = Node(st[k])
      OBVIOUS
    <3>1. PICK p : p = st[k]
      OBVIOUS
    <3>2. Node(p)' = Node(p)
      BY <1>1, <1>3, <3>1
    <3> QED BY <3>1, <3>2 DEF Node
  <2> QED BY <2>1 DEF HeightsOf, Node
<1>5. PICK d : d = c
  OBVIOUS
<1>6. Node(d)' = Node(d) /\ d \in 0..(Len(nodes') - 1)
  BY <1>1, <1>2, <1>5
<1>7. Recorded(i)' <=>
        /\ d \in 0..(Len(nodes') - 1)
        /\ \A j \in 1..(i - 1) : NodeCount(j - 1) < d
        /\ Node(d)'.hash = LeafHash(leaves'[i])
        /\ Falling(HeightsOf(past[i])')
        /\ RidgeOf(HeightsOf(past[i])', past'[i], d)
  BY <1>5 DEF Recorded, Node
<1> QED BY <1>2, <1>4, <1>5, <1>6, <1>7 DEF Recorded

(* Each mountain ends after the one before it.                             *)
LEMMA OffsetsGrow ==
    ASSUME NEW hs \in Seq(Nat), NEW j \in 0..Len(hs)
    PROVE  \A i \in 0..Len(hs) : j < i => Offset(hs, j) < Offset(hs, i)
<1> DEFINE off(i) == Offset(hs, i)
           Bad == {i \in 0..Len(hs) : j < i /\ ~(off(j) < off(i))}
<1> SUFFICES ASSUME Bad # {} PROVE FALSE
  OBVIOUS
<1>1. PICK i \in Bad : \A k \in Bad : i <= k
  <2>1. Bad \subseteq Nat
    OBVIOUS
  <2> HIDE DEF Bad
  <2> QED BY <2>1, LeastNat
<1>2. i \in 1..Len(hs) /\ j < i /\ ~(off(j) < off(i)) /\ Len(hs) \in Nat
  OBVIOUS
<1>3. hs[i] \in Nat
  BY <1>2
<1>4. off(i) = off(i - 1) + MountainSize(hs[i])
  BY <1>2, OffsetFacts
<1>5. off(j) \in Nat /\ off(i - 1) \in Nat /\ i - 1 \in 0..Len(hs)
  BY <1>2, OffsetFacts
<1>6. MountainSize(hs[i]) \in Nat /\ MountainSize(hs[i]) > 0
  <2> DEFINE h == hs[i]
  <2> HIDE DEF h
  <2>1. MountainSize(h) \in Nat /\ h < MountainSize(h) /\ h \in Nat
    BY <1>3, MountainFacts DEF h
  <2>2. MountainSize(h) > 0
    BY <2>1
  <2> QED BY <2>1, <2>2 DEF h
<1>7. off(i - 1) < off(i)
  <2> DEFINE a == off(i - 1)
             b == off(i)
             m == MountainSize(hs[i])
  <2> HIDE DEF a, b, m, off
  <2>1. b = a + m /\ a \in Nat /\ m \in Nat /\ m > 0
    BY <1>4, <1>5, <1>6 DEF a, b, m
  <2>2. a < b
    BY <2>1
  <2> QED BY <2>2 DEF a, b
<1>8. i - 1 = j \/ j < i - 1
  BY <1>2
<1>9. off(j) <= off(i - 1)
  <2>1. CASE i - 1 = j
    BY <1>5, <2>1
  <2>2. CASE j < i - 1
    <3>1. i - 1 \notin Bad
      BY <1>1, <1>2
    <3>2. off(j) < off(i - 1)
      BY <1>5, <2>2, <3>1
    <3> HIDE DEF off
    <3> QED BY <1>5, <3>2
  <2> QED BY <1>8, <2>1, <2>2
<1>10. off(i) \in Nat
  BY <1>2, OffsetFacts
<1> HIDE DEF off, Bad
<1> QED BY <1>2, <1>5, <1>7, <1>9, <1>10

LEMMA AddLeafShape ==
    ASSUME ShapeInv, AddLeaf
    PROVE  ShapeInv'
<1> DEFINE L == Len(stack)
           l == Len(leaves)
<1>0. MmrInv /\ TreeInv /\ ParentsInv /\ HistoryInv
  BY DEF ShapeInv
<1>1. PICK digest \in Digests :
        /\ leaves' = Append(leaves, digest)
        /\ nodes' = Append(nodes, [hash |-> LeafHash(digest), height |-> 0, kids |-> <<>>])
  BY DEF AddLeaf
<1>2. ~MergePending /\ stack' = Append(stack, Len(nodes)) /\ past' = Append(past, stack)
  BY DEF AddLeaf
<1>3. PICK node : node = [hash |-> LeafHash(digest), height |-> 0, kids |-> <<>>]
  OBVIOUS
<1>4. PICK n : n = Len(nodes)
  OBVIOUS
<1>5. node.height = 0 /\ node.kids = <<>> /\ node.hash = LeafHash(digest)
      /\ nodes' = Append(nodes, node)
  BY <1>1, <1>3
<1>6. /\ n \in Nat /\ Len(nodes') = n + 1 /\ Node(n)' = node
      /\ \A p \in 0..(n - 1) : Node(p)' = Node(p)
  BY <1>0, <1>4, <1>5, NodesGrow DEF Node
<1>7. /\ stack \in Seq(Nat) /\ L \in Nat /\ Heights \in Seq(Nat) /\ Len(Heights) = L
      /\ Falling(Heights) /\ RidgeOf(Heights, stack, n)
      /\ \A k \in 1..L : stack[k] \in 0..(n - 1)
  BY <1>0, <1>2, <1>4, StackFacts DEF MmrInv
<1>8. MmrInv'
  BY <1>0, AddLeafKeeps
<1>9. TreeInv'
  BY <1>0, <1>4, <1>5, TreeGrows
<1>10. ParentsInv'
  <2>1. DOMAIN node.kids = {}
    BY <1>5
  <2>2. /\ Len(stack') = L + 1 /\ stack'[L + 1] = n
        /\ \A i \in 1..L : stack'[i] = stack[i]
    BY <1>2, <1>4, <1>6, <1>7, AppendFacts
  <2>3. \A j \in 1..Len(stack') : \/ stack'[j] = n
                                  \/ \E k \in 1..Len(stack) : stack'[j] = stack[k]
    <3>1. \A j \in 1..(L + 1) : j = L + 1 \/ j \in 1..L
      BY <1>7
    <3> QED BY <2>2, <3>1
  <2> QED BY <1>0, <1>4, <1>5, <2>1, <2>3, ParentsGrow
<1>11. PICK S : past \in Seq(S)
  BY <1>0 DEF MmrInv, PastInv
<1>12. leaves \in Seq(Digests) /\ l \in Nat /\ Len(past) = l /\ NodeCount(l) = n
  BY <1>0, <1>2, <1>4, CountsAre DEF MmrInv, LeavesInv, PastInv
<1>13. /\ Len(leaves') = l + 1 /\ leaves'[l + 1] = digest
       /\ \A i \in 1..l : leaves'[i] = leaves[i]
  BY <1>1, <1>12, AppendFacts
<1>14. past'[l + 1] = stack /\ \A i \in 1..l : past'[i] = past[i]
  <2> DEFINE T == S \cup {stack}
  <2>1. past \in Seq(T) /\ stack \in T
    <3>1. \A i \in 1..Len(past) : past[i] \in T
      BY <1>11
    <3>2. past = [i \in 1..Len(past) |-> past[i]] /\ Len(past) \in Nat
      BY <1>11
    <3> QED BY <1>11, <3>1, <3>2
  <2> HIDE DEF T
  <2> QED BY <1>2, <1>12, <2>1, AppendFacts
<1>15. ASSUME NEW i \in 1..l PROVE Recorded(i)' /\ NodeCount(i - 1) < n
  <2>1. Recorded(i)
    BY <1>0 DEF HistoryInv
  <2>2. Recorded(i)'
    BY <1>0, <1>5, <1>13, <1>14, <2>1, RecordedStays
  <2>3. NodeCount(i - 1) \in 0..(n - 1)
    BY <1>4, <2>1 DEF Recorded
  <2> DEFINE c == NodeCount(i - 1)
  <2> HIDE DEF c
  <2>4. c \in 0..(n - 1) => c < n
    BY <1>6
  <2> QED BY <2>2, <2>3, <2>4 DEF c
<1>16. ASSUME NEW i, i = l + 1 PROVE Recorded(i)'
  <2>1. NodeCount(i - 1) = n
    BY <1>12, <1>16
  <2>2. \A j \in 1..(i - 1) : NodeCount(j - 1) < n
    BY <1>12, <1>15, <1>16
  <2>3. HeightsOf(past[i])' = Heights
    <3>1. past'[i] = stack
      BY <1>14, <1>16
    <3>2. \A k \in 1..L : nodes'[stack[k] + 1] = nodes[stack[k] + 1]
      <4> SUFFICES ASSUME NEW k \in 1..L PROVE nodes'[stack[k] + 1] = nodes[stack[k] + 1]
        OBVIOUS
      <4>1. PICK p : p = stack[k]
        OBVIOUS
      <4>2. Node(p)' = Node(p)
        BY <1>6, <1>7, <4>1
      <4> QED BY <4>1, <4>2 DEF Node
    <3> QED BY <3>1, <3>2 DEF HeightsOf, Heights, Node
  <2>4. Recorded(i)' <=>
          /\ n \in 0..(Len(nodes') - 1)
          /\ \A j \in 1..(i - 1) : NodeCount(j - 1) < n
          /\ Node(n)'.hash = LeafHash(leaves'[i])
          /\ Falling(HeightsOf(past[i])')
          /\ RidgeOf(HeightsOf(past[i])', past'[i], n)
    BY <2>1 DEF Recorded, Node
  <2>5. n \in 0..(Len(nodes') - 1)
    BY <1>6
  <2>6. past'[i] = stack /\ leaves'[i] = digest
    BY <1>13, <1>14, <1>16
  <2> QED BY <1>5, <1>6, <1>7, <2>2, <2>3, <2>4, <2>5, <2>6
<1>17. HistoryInv'
  <2> SUFFICES ASSUME NEW i \in 1..Len(leaves') PROVE Recorded(i)'
    BY DEF HistoryInv
  <2>1. i = l + 1 \/ i \in 1..l
    BY <1>12, <1>13
  <2> QED BY <1>15, <1>16, <2>1
<1> QED BY <1>8, <1>9, <1>10, <1>17 DEF ShapeInv

LEMMA MergeShape ==
    ASSUME ShapeInv, Merge
    PROVE  ShapeInv'
<1> DEFINE L == Len(stack)
<1>0. MmrInv /\ TreeInv /\ ParentsInv /\ HistoryInv
  BY DEF ShapeInv
<1>1. PICK n : n = Len(nodes)
  OBVIOUS
<1>2. PICK left, right : left = stack[L - 1] /\ right = stack[L]
  OBVIOUS
<1>3. PICK node : node = [hash   |-> InteriorHash(Node(left).hash, Node(right).hash, n),
                          height |-> Node(left).height + 1,
                          kids   |-> <<left, right>>]
  OBVIOUS
<1>4. /\ MergePending
      /\ nodes' = Append(nodes, node)
      /\ stack' = Append(SubSeq(stack, 1, L - 2), n)
      /\ leaves' = leaves /\ past' = past
  BY <1>1, <1>2, <1>3 DEF Merge, Last
<1>5. /\ n \in Nat /\ Len(nodes') = n + 1 /\ Node(n)' = node
      /\ \A p \in 0..(n - 1) : Node(p)' = Node(p)
  BY <1>0, <1>1, <1>4, NodesGrow DEF Node
<1>6. /\ L \in Nat /\ L >= 2 /\ stack \in Seq(Nat) /\ Heights \in Seq(Nat) /\ Len(Heights) = L
      /\ Heights[L - 1] = Heights[L] /\ RidgeOf(Heights, stack, n)
      /\ \A i \in 1..L : /\ stack[i] \in 0..(n - 1)
                         /\ Heights[i] = Node(stack[i]).height
  BY <1>0, <1>1, <1>4, StackFacts DEF MmrInv, Node
<1>7. L - 1 \in 1..L /\ L \in 1..L
  BY <1>6
<1>8. PICK h : h = Heights[L]
  OBVIOUS
<1>9. h \in Nat /\ Node(left).height = h /\ Node(right).height = h
      /\ left \in 0..(n - 1) /\ right \in 0..(n - 1)
  <2>1. h \in Nat
    <3>1. L \in 1..Len(Heights)
      BY <1>6, <1>7
    <3> QED BY <1>6, <1>8, <3>1
  <2>2. Heights[L - 1] = h /\ Heights[L] = h
    BY <1>6, <1>8
  <2>3. left \in 0..(n - 1) /\ Heights[L - 1] = Node(left).height
    BY <1>2, <1>6, <1>7
  <2>4. right \in 0..(n - 1) /\ Heights[L] = Node(right).height
    BY <1>2, <1>6, <1>7
  <2> QED BY <2>1, <2>2, <2>3, <2>4
<1>10. left = n - MountainSize(h) - 1 /\ right = n - 1
  <2> DEFINE a == Offset(Heights, L - 1)
             b == Offset(Heights, L)
  <2>1. a \in Nat /\ b = a + MountainSize(Heights[L])
    <3>1. L - 1 \in 0..Len(Heights) /\ L \in 1..Len(Heights)
      BY <1>6
    <3> QED BY <1>6, <3>1, OffsetFacts
  <2>2. left = a - 1 /\ right = b - 1 /\ n = b
    BY <1>2, <1>6, <1>7 DEF RidgeOf
  <2>3. MountainSize(h) \in Nat /\ MountainSize(Heights[L]) = MountainSize(h)
    BY <1>8, <1>9, MountainFacts
  <2> DEFINE m == MountainSize(h)
  <2> HIDE DEF a, b, m
  <2>4. b = a + m /\ m \in Nat
    BY <2>1, <2>3 DEF m
  <2>5. left = n - m - 1 /\ right = n - 1
    BY <2>1, <2>2, <2>4
  <2> QED BY <2>5 DEF m
<1>11. MmrInv'
  BY <1>0, MergeKeeps
<1>12. Joins(n, h)'
  <2>1. Joins(n, h)' <=>
          /\ left \in 0..(n - 1)
          /\ Node(n)'.kids = <<left, right>>
          /\ Node(n)'.height = h + 1
          /\ Node(left)'.height = h
          /\ Node(right)'.height = h
          /\ Node(n)'.hash = InteriorHash(Node(left)'.hash, Node(right)'.hash, n)
    BY <1>10 DEF Joins
  <2>2. Node(left)' = Node(left) /\ Node(right)' = Node(right)
    BY <1>5, <1>9
  <2>3. /\ node.kids = <<left, right>> /\ node.height = h + 1
        /\ node.hash = InteriorHash(Node(left).hash, Node(right).hash, n)
    BY <1>3, <1>9
  <2> QED BY <1>5, <1>9, <2>1, <2>2, <2>3
<1>13. TreeInv'
  BY <1>0, <1>1, <1>4, <1>9, <1>12, TreeGrows
<1>14. PICK m : m = L - 2
  OBVIOUS
<1>15. m \in Nat /\ m <= L /\ \A i \in 1..m : i \in 1..L /\ i < L - 1
  BY <1>6, <1>14, SMTT(20)
<1>16. /\ Len(stack') = m + 1 /\ stack'[m + 1] = n
       /\ \A i \in 1..m : stack'[i] = stack[i]
  <2>1. PICK some : some = SubSeq(stack, 1, m)
    OBVIOUS
  <2>2. stack' = Append(some, n)
    BY <1>4, <1>14, <2>1
  <2>3. some \in Seq(Nat) /\ Len(some) = m /\ \A i \in 1..m : some[i] = stack[i]
    BY <1>6, <1>15, <2>1, FrontFacts
  <2> QED BY <1>5, <2>2, <2>3, AppendFacts
<1>17. \A i \in 1..m : stack[i] < left /\ stack[i] < right
  <2> SUFFICES ASSUME NEW i \in 1..m PROVE stack[i] < left /\ stack[i] < right
    OBVIOUS
  <2>1. i \in 1..L /\ i < L - 1
    BY <1>15
  <2>2. stack[i] = Offset(Heights, i) - 1 /\ left = Offset(Heights, L - 1) - 1
        /\ right = Offset(Heights, L) - 1
    BY <1>2, <1>6, <1>7, <2>1 DEF RidgeOf
  <2> DEFINE a == Offset(Heights, i)
             b == Offset(Heights, L - 1)
             c == Offset(Heights, L)
  <2>3. a \in Nat /\ b \in Nat /\ c \in Nat /\ a < b /\ a < c
    <3>1. i \in 0..Len(Heights) /\ L - 1 \in 0..Len(Heights) /\ L \in 0..Len(Heights)
          /\ i < L - 1 /\ i < L
      BY <1>6, <2>1
    <3> QED BY <1>6, <3>1, OffsetFacts, OffsetsGrow
  <2> HIDE DEF a, b, c
  <2>4. a - 1 < b - 1 /\ a - 1 < c - 1
    BY <2>3
  <2> QED BY <2>2, <2>4 DEF a, b, c
<1>18. ParentsInv'
  <2>1. \A i \in DOMAIN node.kids : node.kids[i] \in {left, right}
    BY <1>3
  <2>2. \A i \in DOMAIN node.kids : \E k \in 1..Len(stack) : node.kids[i] = stack[k]
    BY <1>2, <1>7, <2>1
  <2>3. ASSUME NEW j \in 1..Len(stack')
        PROVE  \/ stack'[j] = n
               \/ /\ \E k \in 1..Len(stack) : stack'[j] = stack[k]
                  /\ \A i \in DOMAIN node.kids : node.kids[i] # stack'[j]
    <3>1. CASE j = m + 1
      BY <1>16, <3>1
    <3>2. CASE j # m + 1
      <4>1. j \in 1..m /\ j \in 1..L
        BY <1>15, <1>16, <3>2
      <4>2. stack'[j] = stack[j] /\ stack[j] < left /\ stack[j] < right /\ stack[j] \in Nat
        BY <1>6, <1>16, <1>17, <4>1
      <4>3. stack[j] # left /\ stack[j] # right
        BY <1>9, <4>2
      <4> QED BY <2>1, <4>1, <4>2, <4>3
    <3> QED BY <3>1, <3>2
  <2>4. \A j \in 1..Len(stack') :
          \/ stack'[j] = n
          \/ /\ \E k \in 1..Len(stack) : stack'[j] = stack[k]
             /\ \A i \in DOMAIN node.kids : node.kids[i] # stack'[j]
    BY <2>3
  <2>5. nodes' = Append(nodes, node) /\ n = Len(nodes)
    BY <1>1, <1>4
  <2> QED BY <1>0, <2>2, <2>4, <2>5, ParentsGrow
<1>19. HistoryInv'
  <2> SUFFICES ASSUME NEW i \in 1..Len(leaves') PROVE Recorded(i)'
    BY DEF HistoryInv
  <2>1. i \in 1..Len(leaves) /\ leaves'[i] = leaves[i] /\ past'[i] = past[i]
    BY <1>4
  <2>2. Recorded(i)
    BY <1>0, <2>1 DEF HistoryInv
  <2> QED BY <1>0, <1>4, <2>1, <2>2, RecordedStays
<1> QED BY <1>11, <1>13, <1>18, <1>19 DEF ShapeInv

LEMMA ShapeAlways == Spec => []ShapeInv
<1>1. Init => ShapeInv
  <2> SUFFICES ASSUME Init PROVE ShapeInv
    OBVIOUS
  <2>1. nodes = <<>> /\ leaves = <<>> /\ stack = <<>>
    BY DEF Init
  <2>2. TreeInv /\ ParentsInv /\ HistoryInv
    BY <2>1 DEF TreeInv, ParentsInv, HistoryInv
  <2> QED BY <2>2, MmrInvInit DEF ShapeInv
<1>2. ShapeInv /\ [Next]_vars => ShapeInv'
  <2> SUFFICES ASSUME ShapeInv, [Next]_vars PROVE ShapeInv'
    OBVIOUS
  <2>1. CASE UNCHANGED vars
    <3>1. leaves' = leaves /\ nodes' = nodes /\ stack' = stack /\ past' = past
      BY <2>1 DEF vars
    <3>2. MmrInv'
      BY <2>1, MmrInvNext DEF ShapeInv
    <3>3. \A pos, h : Joins(pos, h)' = Joins(pos, h)
      BY <3>1 DEF Joins, Node
    <3>4. TreeInv'
      BY <3>1, <3>3 DEF ShapeInv, TreeInv, Node
    <3>5. ParentsInv'
      <4>1. \A p, q : IsKid(p, q)' <=> IsKid(p, q)
        BY <3>1 DEF IsKid, Node
      <4>2. \A k, q : IsKid(stack[k], q)' <=> IsKid(stack[k], q)
        BY <3>1 DEF IsKid, Node
      <4> QED BY <3>1, <4>1, <4>2 DEF ShapeInv, ParentsInv
    <3>6. \A i : HeightsOf(past[i])' = HeightsOf(past[i])
      BY <3>1 DEF HeightsOf, Node
    <3>7. HistoryInv'
      BY <3>1, <3>6 DEF ShapeInv, HistoryInv, Recorded, Node
    <3> QED BY <3>2, <3>4, <3>5, <3>7 DEF ShapeInv
  <2> QED BY <2>1, AddLeafShape, MergeShape DEF Next
<1> QED BY <1>1, <1>2, PTL DEF Spec

-----------------------------------------------------------------------------
(* Up and down the mountains                                               *)

LEMMA ParentFacts ==
    ASSUME ShapeInv, NEW q \in 0..(Len(nodes) - 1), NEW h \in Nat, Joins(q, h),
           NEW left, left = q - MountainSize(h) - 1, NEW right, right = q - 1
    PROVE  /\ left \in 0..(Len(nodes) - 1) /\ right \in 0..(Len(nodes) - 1)
           /\ left < q /\ right < q /\ left < right
           /\ ParentsOf(left) = {q} /\ ParentOf(left) = q /\ SiblingOf(left) = right
           /\ ParentsOf(right) = {q} /\ ParentOf(right) = q /\ SiblingOf(right) = left
<1> DEFINE n == Len(nodes)
           size == MountainSize(h)
<1>1. n \in Nat /\ size \in Nat /\ size > 0
  <2>1. n \in Nat /\ size \in Nat /\ h < size /\ h \in Nat
    BY StackFacts, MountainFacts DEF ShapeInv
  <2> HIDE DEF n, size
  <2> QED BY <2>1
<1>2. left \in 0..(q - 1) /\ Node(q).kids = <<left, right>>
  BY DEF Joins
<1>3. left \in 0..(n - 1) /\ right \in 0..(n - 1) /\ left < q /\ right < q /\ left < right
  <2>1. q \in 0..(n - 1) /\ left = q - size - 1
    OBVIOUS
  <2> HIDE DEF n, size
  <2> QED BY <1>1, <1>2, <2>1
<1>4. \A p \in {left, right} : ParentsOf(p) = {q}
  <2> SUFFICES ASSUME NEW p \in {left, right} PROVE ParentsOf(p) = {q}
    OBVIOUS
  <2>1. p \in 0..(n - 1) /\ q \in (p + 1)..(n - 1)
    BY <1>1, <1>3
  <2>2. IsKid(p, q)
    <3>1. 1 \in DOMAIN Node(q).kids /\ 2 \in DOMAIN Node(q).kids
          /\ Node(q).kids[1] = left /\ Node(q).kids[2] = right
      BY <1>2
    <3> QED BY <3>1 DEF IsKid
  <2>3. q \in ParentsOf(p)
    BY <2>1, <2>2 DEF ParentsOf, IsKid
  <2>4. ASSUME NEW r \in ParentsOf(p) PROVE r = q
    <3>1. r \in (p + 1)..(n - 1) /\ IsKid(p, r)
      BY <2>4 DEF ParentsOf, IsKid
    <3>2. r \in 0..(n - 1)
      BY <1>1, <2>1, <3>1
    <3> QED BY <2>1, <2>2, <3>1, <3>2 DEF ShapeInv, ParentsInv
  <2> QED BY <2>3, <2>4
<1>5. ParentOf(left) = q /\ ParentOf(right) = q
  BY <1>4 DEF ParentOf
<1>6. left # right
  BY <1>3
<1>7. SiblingOf(left) = right
  <2> DEFINE i == CHOOSE i \in 1..2 : Node(q).kids[i] # left
  <2>1. 2 \in 1..2 /\ Node(q).kids[2] # left
    BY <1>2, <1>6
  <2>2. i \in 1..2 /\ Node(q).kids[i] # left
    BY <2>1
  <2> HIDE DEF i
  <2>3. Node(q).kids[i] = right
    <3>1. Node(q).kids[1] = left /\ Node(q).kids[2] = right
      BY <1>2
    <3>2. i = 1 \/ i = 2
      BY <2>2
    <3> QED BY <2>2, <3>1, <3>2
  <2>4. SiblingOf(left) = Node(q).kids[i]
    BY <1>5 DEF SiblingOf, i
  <2> QED BY <2>3, <2>4
<1>8. SiblingOf(right) = left
  <2> DEFINE i == CHOOSE i \in 1..2 : Node(q).kids[i] # right
  <2>1. 1 \in 1..2 /\ Node(q).kids[1] # right
    BY <1>2, <1>6
  <2>2. i \in 1..2 /\ Node(q).kids[i] # right
    BY <2>1
  <2> HIDE DEF i
  <2>3. Node(q).kids[i] = left
    <3>1. Node(q).kids[1] = left /\ Node(q).kids[2] = right
      BY <1>2
    <3>2. i = 1 \/ i = 2
      BY <2>2
    <3> QED BY <2>2, <3>1, <3>2
  <2>4. SiblingOf(right) = Node(q).kids[i]
    BY <1>5 DEF SiblingOf, i
  <2> QED BY <2>3, <2>4
<1> QED BY <1>3, <1>4, <1>5, <1>7, <1>8

LEMMA SiblingsFacts ==
    ASSUME ShapeInv
    PROVE  /\ \A p \in 0..(Len(nodes) - 1) :
                Siblings(p) = IF ParentsOf(p) = {} THEN <<>>
                              ELSE <<SiblingOf(p)>> \o Siblings(ParentOf(p))
           /\ \A p \in 0..(Len(nodes) - 1) : Siblings(p) \in Seq(0..(Len(nodes) - 1))
           /\ \A k \in 1..Len(stack) : Siblings(stack[k]) = <<>>
<1> DEFINE n == Len(nodes)
<1>1. n \in Nat
  BY StackFacts DEF ShapeInv
<1>2. ASSUME NEW p \in 0..(n - 1), ParentsOf(p) # {}
      PROVE  SiblingOf(p) \in 0..(n - 1) /\ ParentOf(p) \in 0..(n - 1) /\ p < ParentOf(p)
  <2>1. PICK q \in ParentsOf(p) : TRUE
    BY <1>2
  <2>2. q \in (p + 1)..(n - 1) /\ IsKid(p, q)
    BY DEF ParentsOf, IsKid
  <2>3. q \in 0..(n - 1)
    BY <1>1, <2>2
  <2>4. PICK h \in Nat : Joins(q, h)
    <3>1. Node(q).kids # <<>>
      BY <2>2 DEF IsKid
    <3> QED BY <2>3, <3>1 DEF ShapeInv, TreeInv
  <2>5. PICK left, right : left = q - MountainSize(h) - 1 /\ right = q - 1
    OBVIOUS
  <2>6. Node(q).kids = <<left, right>>
    BY <2>4, <2>5 DEF Joins
  <2>7. p = left \/ p = right
    BY <2>2, <2>6 DEF IsKid
  <2>8. /\ left \in 0..(n - 1) /\ right \in 0..(n - 1) /\ left < q /\ right < q
        /\ ParentOf(left) = q /\ SiblingOf(left) = right
        /\ ParentOf(right) = q /\ SiblingOf(right) = left
    BY <2>3, <2>4, <2>5, ParentFacts
  <2> QED BY <2>3, <2>7, <2>8
<1>3. \A p \in 0..(n - 1) : Siblings(p) = IF ParentsOf(p) = {} THEN <<>>
                                          ELSE <<SiblingOf(p)>> \o Siblings(ParentOf(p))
  <2>1. \A p \in 0..(Len(nodes) - 1) : ParentsOf(p) # {} => SiblingOf(p) \in Nat
    BY <1>1, <1>2
  <2> QED BY <1>1, <2>1, SiblingsUp
<1>4. \A p \in 0..(n - 1) : Siblings(p) \in Seq(0..(n - 1))
  <2> DEFINE S == 0..(n - 1)
             Bad == {p \in S : Siblings(p) \notin Seq(S)}
  <2> SUFFICES ASSUME Bad # {} PROVE FALSE
    OBVIOUS
  <2>1. PICK p \in Bad : \A m \in Bad : m <= p
    <3>1. Bad \subseteq 0..n
      BY <1>1
    <3> HIDE DEF Bad
    <3> QED BY <1>1, <3>1, GreatestNat
  <2>2. p \in S /\ Siblings(p) \notin Seq(S)
    OBVIOUS
  <2>3. <<>> \in Seq(S)
    OBVIOUS
  <2>4. ParentsOf(p) # {} /\ Siblings(p) = <<SiblingOf(p)>> \o Siblings(ParentOf(p))
    BY <1>3, <2>2, <2>3
  <2> DEFINE q == ParentOf(p)
             s == SiblingOf(p)
             up == Siblings(q)
  <2>5. s \in S /\ q \in S /\ p < q
    BY <1>2, <2>2, <2>4
  <2>6. q \notin Bad
    <3>1. p \in Nat /\ q \in Nat /\ p < q
      BY <2>2, <2>5
    <3> HIDE DEF q, Bad
    <3> QED BY <2>1, <3>1
  <2>7. up \in Seq(S)
    BY <2>5, <2>6
  <2> HIDE DEF S, up, s
  <2>8. <<s>> \o up \in Seq(S)
    BY <2>5, <2>7
  <2> QED BY <2>2, <2>4, <2>8 DEF up, s
<1>5. ASSUME NEW k \in 1..Len(stack) PROVE Siblings(stack[k]) = <<>>
  <2>1. stack[k] \in 0..(n - 1)
    BY StackFacts DEF ShapeInv
  <2>2. \A q \in 0..(n - 1) : ~IsKid(stack[k], q)
    BY DEF ShapeInv, ParentsInv
  <2>3. ParentsOf(stack[k]) = {}
    <3> SUFFICES ASSUME NEW q \in ParentsOf(stack[k]) PROVE FALSE
      OBVIOUS
    <3>1. q \in (stack[k] + 1)..(n - 1) /\ IsKid(stack[k], q)
      BY DEF ParentsOf, IsKid
    <3>2. q \in 0..(n - 1)
      BY <1>1, <2>1, <3>1
    <3> QED BY <2>2, <3>1, <3>2
  <2> QED BY <1>3, <2>1, <2>3
<1> QED BY <1>3, <1>4, <1>5

(* From the node at t the path of the viewer, with the siblings that were  *)
(* built, leads to the hash of the node at q, which is of height h.        *)
Leads(t, q, h) ==
    LET path == LocatePath(t)[h][q] IN
    /\ path \in Seq(Steps)
    /\ \E s \in Seq(0..(Len(nodes) - 1)) :
         /\ Siblings(t) = s \o Siblings(q)
         /\ Len(s) = Len(path)
         /\ Climb(Node(t).hash, path, HashesAt(s)) = Node(q).hash

LEMMA LeadsHere ==
    ASSUME ShapeInv, NEW t \in 0..(Len(nodes) - 1), NEW h \in Nat
    PROVE  Leads(t, t, h)
<1>1. LocatePath(t)[h][t] = <<>>
  <2>1. CASE h = 0
    BY <2>1, PathsExist
  <2>2. CASE h # 0
    <3>1. PICK k \in Nat : h = k + 1
      <4>1. h - 1 \in Nat /\ h = (h - 1) + 1
        BY <2>2
      <4> QED BY <4>1
    <3>2. LocatePath(t)[h] = PathFrom(t, k + 1, LocatePath(t)[k])
      BY <3>1, PathsExist
    <3> QED BY <3>2 DEF PathFrom
  <2> QED BY <2>1, <2>2
<1>2. Climb(Node(t).hash, <<>>, HashesAt(<<>>)) = Node(t).hash
  BY ClimbNone
<1>3. Siblings(t) = <<>> \o Siblings(t)
  <2>1. Siblings(t) \in Seq(0..(Len(nodes) - 1))
    BY SiblingsFacts
  <2> QED BY <2>1
<1>4. <<>> \in Seq(0..(Len(nodes) - 1)) /\ <<>> \in Seq(Steps) /\ Len(<<>>) = 0
  OBVIOUS
<1> QED BY <1>1, <1>2, <1>3, <1>4 DEF Leads

Concats(whole, s, t) == whole = s \o t

LEMMA ConcatsShift ==
    ASSUME NEW S, NEW s \in Seq(S), NEW x \in S, NEW t \in Seq(S), NEW middle, NEW whole,
           Concats(middle, <<x>>, t), Concats(whole, s, middle)
    PROVE  Concats(whole, Append(s, x), t)
<1>1. s \o (<<x>> \o t) = Append(s, x) \o t
  OBVIOUS
<1> QED BY <1>1 DEF Concats

(* One more step, from a child to its parent.                              *)
LEMMA LeadsOn ==
    ASSUME ShapeInv, NEW t \in 0..(Len(nodes) - 1), NEW q \in 0..(Len(nodes) - 1),
           NEW k \in Nat, NEW child \in 0..(Len(nodes) - 1),
           NEW sibling \in 0..(Len(nodes) - 1),
           Leads(t, child, k), Siblings(child) = <<sibling>> \o Siblings(q),
           NEW isRight \in BOOLEAN,
           LocatePath(t)[k + 1][q] = Append(LocatePath(t)[k][child], StepUp(isRight, q)),
           Node(q).hash = IF isRight
                          THEN InteriorHash(Node(sibling).hash, Node(child).hash, q)
                          ELSE InteriorHash(Node(child).hash, Node(sibling).hash, q)
    PROVE  Leads(t, q, k + 1)
<1> DEFINE S == 0..(Len(nodes) - 1)
<1>1. PICK path, step : path = LocatePath(t)[k][child] /\ step = StepUp(isRight, q)
  OBVIOUS
<1>2. /\ path \in Seq(Steps)
      /\ \E s \in Seq(S) :
           /\ Siblings(t) = s \o Siblings(child)
           /\ Len(s) = Len(path)
           /\ Climb(Node(t).hash, path, HashesAt(s)) = Node(child).hash
  BY <1>1 DEF Leads
<1>3. PICK s \in Seq(S) :
           /\ Siblings(t) = s \o Siblings(child)
           /\ Len(s) = Len(path)
           /\ Climb(Node(t).hash, path, HashesAt(s)) = Node(child).hash
  BY <1>2
<1>4. PICK above : above = Siblings(q)
  OBVIOUS
<1>5. above \in Seq(S) /\ sibling \in S
  BY <1>4, SiblingsFacts
<1> HIDE DEF S
<1>6. step \in Steps /\ step.targetIsRight = isRight /\ step.parent = q
  <2>1. q \in Int
    OBVIOUS
  <2> QED BY <1>1, <2>1 DEF StepUp, Steps
<1>7. /\ Append(s, sibling) \in Seq(S) /\ Len(Append(s, sibling)) = Len(s) + 1
      /\ Append(s, sibling)[Len(s) + 1] = sibling
      /\ \A i \in 1..Len(s) : Append(s, sibling)[i] = s[i]
  <2>1. s \in Seq(S) /\ sibling \in S
    BY <1>3, <1>5
  <2> QED BY <2>1, AppendFacts
<1>8. PICK long : long = Append(s, sibling)
  OBVIOUS
<1>9. Siblings(t) = long \o above
  <2>1. PICK middle, whole : middle = Siblings(child) /\ whole = Siblings(t)
    OBVIOUS
  <2>2. Concats(whole, s, middle) /\ Concats(middle, <<sibling>>, above)
    BY <1>3, <1>4, <2>1 DEF Concats
  <2>3. s \in Seq(S) /\ sibling \in S /\ above \in Seq(S)
    BY <1>3, <1>5
  <2>4. Concats(whole, long, above)
    BY <1>8, <2>2, <2>3, ConcatsShift
  <2> QED BY <2>1, <2>4 DEF Concats
<1>10. PICK x, y : x = HashesAt(s) /\ y = HashesAt(long)
  OBVIOUS
<1>11. Len(s) \in Nat /\ Len(path) \in Nat
  BY <1>2, <1>3
<1>12. \A i \in 1..Len(path) : x[i] = y[i]
  <2> SUFFICES ASSUME NEW i \in 1..Len(path) PROVE x[i] = y[i]
    OBVIOUS
  <2>1. i \in 1..Len(s) /\ i \in 1..Len(long) /\ long[i] = s[i]
    BY <1>3, <1>7, <1>8, <1>11, SMTT(20)
  <2> QED BY <1>10, <2>1 DEF HashesAt
<1>13. y[Len(path) + 1] = Node(sibling).hash
  <2>1. Len(path) + 1 \in 1..Len(long) /\ long[Len(path) + 1] = sibling
    BY <1>3, <1>7, <1>8, <1>11
  <2> QED BY <1>10, <2>1 DEF HashesAt
<1>14. Climb(Node(t).hash, Append(path, step), y)
         = IF step.targetIsRight
           THEN InteriorHash(y[Len(path) + 1], Climb(Node(t).hash, path, x), step.parent)
           ELSE InteriorHash(Climb(Node(t).hash, path, x), y[Len(path) + 1], step.parent)
  <2>1. PICK base : base = Node(t).hash
    OBVIOUS
  <2>2. path \in Seq(Steps) /\ step \in Steps
    BY <1>2, <1>6
  <2>3. Climb(base, Append(path, step), y)
          = IF step.targetIsRight
            THEN InteriorHash(y[Len(path) + 1], Climb(base, path, x), step.parent)
            ELSE InteriorHash(Climb(base, path, x), y[Len(path) + 1], step.parent)
    BY <1>12, <2>2, ClimbOneMore, SMTT(20)
  <2> QED BY <2>1, <2>3
<1>15. Climb(Node(t).hash, Append(path, step), y) = Node(q).hash
  BY <1>3, <1>6, <1>10, <1>13, <1>14
<1>16. Append(path, step) \in Seq(Steps) /\ Len(Append(path, step)) = Len(path) + 1
  BY <1>2, <1>6, AppendFacts
<1>17. LocatePath(t)[k + 1][q] = Append(path, step)
  BY <1>1
<1>18. /\ long \in Seq(S) /\ Siblings(t) = long \o Siblings(q)
       /\ Len(long) = Len(Append(path, step))
       /\ Climb(Node(t).hash, Append(path, step), HashesAt(long)) = Node(q).hash
  BY <1>3, <1>4, <1>7, <1>8, <1>9, <1>10, <1>15, <1>16
<1> QED BY <1>16, <1>17, <1>18 DEF Leads, S

(* From every node of a mountain to its top.                               *)
LEMMA LeadsUp ==
    ASSUME ShapeInv, NEW t \in 0..(Len(nodes) - 1)
    PROVE  \A h \in Nat, q \in 0..(Len(nodes) - 1) :
             Node(q).height = h /\ q - MountainSize(h) < t /\ t <= q => Leads(t, q, h)
<1> DEFINE S == 0..(Len(nodes) - 1)
           Below(h, q) == Node(q).height = h /\ q - MountainSize(h) < t /\ t <= q
           Bad == {h \in Nat : \E q \in S : Below(h, q) /\ ~Leads(t, q, h)}
<1> SUFFICES ASSUME Bad # {} PROVE FALSE
  OBVIOUS
<1>1. PICK h \in Bad : \A m \in Bad : h <= m
  <2>1. Bad \subseteq Nat
    OBVIOUS
  <2> HIDE DEF Bad
  <2> QED BY <2>1, LeastNat
<1>2. PICK q \in S : Below(h, q) /\ ~Leads(t, q, h)
  OBVIOUS
<1>3. h \in Nat /\ t # q
  <2>1. h \in Nat
    OBVIOUS
  <2> QED BY <1>2, <2>1, LeadsHere
<1>4. h # 0
  <2> SUFFICES ASSUME h = 0 PROVE FALSE
    OBVIOUS
  <2>1. q - 1 < t /\ t <= q /\ q \in Nat /\ t \in Nat
    BY <1>2, MountainFacts
  <2> QED BY <1>3, <2>1
<1>5. PICK k \in Nat : h = k + 1 /\ Joins(q, k)
  <2>1. Node(q).height = h
    BY <1>2
  <2>2. PICK k \in Nat : Joins(q, k)
    BY <1>4, <2>1 DEF ShapeInv, TreeInv
  <2> QED BY <2>1, <2>2 DEF Joins
<1>6. PICK left, right : left = q - MountainSize(k) - 1 /\ right = q - 1
  OBVIOUS
<1>7. /\ left \in S /\ right \in S
      /\ ParentsOf(left) = {q} /\ ParentOf(left) = q /\ SiblingOf(left) = right
      /\ ParentsOf(right) = {q} /\ ParentOf(right) = q /\ SiblingOf(right) = left
  BY <1>5, <1>6, ParentFacts, SMTT(20)
<1>8. /\ Node(left).height = k /\ Node(right).height = k
      /\ Node(q).hash = InteriorHash(Node(left).hash, Node(right).hash, q)
  BY <1>5, <1>6 DEF Joins
<1>9. Siblings(left) = <<right>> \o Siblings(q) /\ Siblings(right) = <<left>> \o Siblings(q)
  BY <1>7, SiblingsFacts
<1>10. k \notin Bad
  <2> HIDE DEF Bad
  <2>1. ~(h <= k)
    BY <1>5
  <2> QED BY <1>1, <2>1
<1>11. \A p \in S : Below(k, p) => Leads(t, p, k)
  BY <1>10
<1>12. LocatePath(t)[k + 1][q] = IF t <= left
                                 THEN Append(LocatePath(t)[k][left], StepUp(FALSE, q))
                                 ELSE Append(LocatePath(t)[k][right], StepUp(TRUE, q))
  <2>1. LocatePath(t)[k + 1] = PathFrom(t, k + 1, LocatePath(t)[k])
    BY PathsExist
  <2>2. q \in Int /\ (k + 1) - 1 = k
    OBVIOUS
  <2> QED BY <1>3, <1>6, <2>1, <2>2 DEF PathFrom
<1> DEFINE size == MountainSize(k)
<1>13. /\ q - (2 * size + 1) < t /\ t <= q /\ size \in Nat /\ left = q - size - 1
       /\ q \in Nat /\ t \in Nat
  <2>1. MountainSize(h) = 2 * size + 1 /\ size \in Nat
    BY <1>5, MountainFacts
  <2>2. q - MountainSize(h) < t /\ t <= q
    BY <1>2
  <2> QED BY <1>6, <2>1, <2>2
<1>14. (t <= left => left - size < t) /\ (~(t <= left) => right - size < t /\ t <= right)
  <2> HIDE DEF size, Bad, Below, S
  <2> QED BY <1>3, <1>6, <1>13
<1>15. CASE t <= left
  <2>1. Leads(t, left, k)
    BY <1>7, <1>8, <1>11, <1>14, <1>15
  <2>2. Leads(t, q, k + 1)
    BY <1>7, <1>8, <1>9, <1>12, <1>15, <2>1, LeadsOn
  <2> QED BY <1>2, <1>5, <2>2
<1>16. CASE ~(t <= left)
  <2>1. Leads(t, right, k)
    BY <1>7, <1>8, <1>11, <1>14, <1>16
  <2>2. Leads(t, q, k + 1)
    BY <1>7, <1>8, <1>9, <1>12, <1>16, <2>1, LeadsOn
  <2> QED BY <1>2, <1>5, <2>2
<1> QED BY <1>15, <1>16

LEMMA LeastIs ==
    ASSUME NEW S, S \subseteq Nat, NEW n \in S, \A m \in S : n <= m
    PROVE  Min(S) = n
<1>1. Min(S) \in S /\ \A m \in S : Min(S) <= m
  BY DEF Min
<1>2. Min(S) \in Nat /\ n \in Nat /\ Min(S) <= n /\ n <= Min(S)
  BY <1>1
<1> QED BY <1>2

(* The mountain of a node.                                                 *)
LEMMA PeakFacts ==
    ASSUME ShapeInv, NEW t \in 0..(Len(nodes) - 1)
    PROVE  /\ PeakAbove(t) \in 1..Len(stack)
           /\ ContainingPeak(t, stack) = PeakAbove(t)
           /\ Covers(stack[PeakAbove(t)], t)
           /\ \A k \in 1..Len(stack) : HeightAt(stack[k]) = Node(stack[k]).height
<1> DEFINE n == Len(nodes)
           L == Len(stack)
           K == {k \in 1..L : t <= stack[k]}
<1>0. MmrInv
  BY DEF ShapeInv
<1>1. /\ n \in Nat /\ L \in Nat /\ stack \in Seq(Nat) /\ Heights \in Seq(Nat) /\ Len(Heights) = L
      /\ \A k \in 1..L : stack[k] \in 0..(n - 1) /\ stack[k] = Offset(Heights, k) - 1
  BY <1>0, StackFacts DEF MmrInv, RidgeOf
<1>2. L \in K
  <2>1. n # 0 /\ t <= n - 1
    BY <1>1
  <2>2. stack # <<>> /\ stack[L] = n - 1
    BY <1>0, <2>1, StackFacts
  <2>3. L \in 1..L
    BY <1>1, <2>2
  <2> QED BY <2>1, <2>2, <2>3
<1>3. PICK k \in K : \A m \in K : k <= m
  <2>1. K \subseteq Nat
    BY <1>1
  <2> HIDE DEF K
  <2> QED BY <1>2, <2>1, LeastNat
<1>4. k \in 1..L /\ t <= stack[k]
  OBVIOUS
<1>5. PeakAbove(t) = k
  <2>1. K \subseteq Nat
    BY <1>1
  <2>2. PeakAbove(t) = Min(K)
    BY DEF PeakAbove
  <2> HIDE DEF K
  <2> QED BY <1>3, <2>1, <2>2, LeastIs
<1>6. \A i \in 1..L : HeightAt(stack[i]) = Node(stack[i]).height
                      /\ Node(stack[i]).height = Heights[i]
  <2>1. \A i \in 1..L : HeightAt(stack[i]) = Node(stack[i]).height
    BY <1>0, <1>1, PositionsHold DEF PositionsMatch
  <2> QED BY <2>1 DEF Heights
<1>7. ASSUME NEW i \in 1..L
      PROVE  /\ Offset(Heights, i - 1) \in Nat
             /\ stack[i] - MountainSize(HeightAt(stack[i])) = Offset(Heights, i - 1) - 1
  <2> DEFINE a == Offset(Heights, i - 1)
             b == Offset(Heights, i)
             size == MountainSize(Heights[i])
  <2>1. a \in Nat /\ b = a + size
    <3>1. i - 1 \in 0..Len(Heights) /\ i \in 1..Len(Heights)
      BY <1>1
    <3> QED BY <1>1, <3>1, OffsetFacts
  <2>2. size \in Nat
    <3>1. Heights[i] \in Nat
      BY <1>1, SMTT(20)
    <3> QED BY <3>1, MountainFacts
  <2>3. stack[i] = b - 1 /\ MountainSize(HeightAt(stack[i])) = size
    BY <1>1, <1>6
  <2> HIDE DEF a, b, size
  <2>4. (b - 1) - size = a - 1
    BY <2>1, <2>2
  <2> QED BY <2>1, <2>3, <2>4 DEF a
<1>8. Offset(Heights, k - 1) - 1 < t
  <2>1. CASE k = 1
    <3>1. Offset(Heights, k - 1) = 0
      BY <1>1, <2>1, OffsetFacts
    <3>2. t >= 0 /\ t \in Int
      BY <1>1
    <3> QED BY <3>1, <3>2
  <2>2. CASE k # 1
    <3> DEFINE j == k - 1
    <3>1. j \in 1..L /\ ~(k <= j)
      BY <1>1, <1>4, <2>2
    <3>2. ~(t <= stack[j])
      <4> HIDE DEF j
      <4> QED BY <1>3, <3>1
    <3>3. stack[j] \in Nat /\ t \in Nat /\ stack[j] = Offset(Heights, j) - 1
      <4>1. t \in Nat
        BY <1>1
      <4>2. stack[j] \in 0..(n - 1) /\ stack[j] = Offset(Heights, j) - 1
        <5> HIDE DEF j
        <5> QED BY <1>1, <3>1
      <4> QED BY <4>1, <4>2
    <3> HIDE DEF j
    <3>4. Offset(Heights, j) - 1 < t
      BY <3>2, <3>3
    <3> QED BY <3>4 DEF j
  <2> QED BY <2>1, <2>2
<1>9. Covers(stack[k], t)
  BY <1>4, <1>7, <1>8 DEF Covers
<1>10. ContainingPeak(t, stack) = k
  <2> DEFINE found == {i \in 1..L : Covers(stack[i], t)}
  <2>1. k \in found
    BY <1>4, <1>9
  <2>2. found \subseteq Nat /\ \A i \in found : i \in K
    BY <1>1 DEF Covers
  <2>3. \A i \in found : k <= i
    BY <1>3, <2>2
  <2>4. ContainingPeak(t, stack) = IF found = {} THEN 0 ELSE Min(found)
    BY DEF ContainingPeak
  <2> HIDE DEF found
  <2>5. Min(found) = k
    BY <2>1, <2>2, <2>3, LeastIs
  <2> QED BY <2>1, <2>4, <2>5
<1> QED BY <1>4, <1>5, <1>6, <1>9, <1>10

(* The siblings of a node are the witnesses of its peak.                   *)
LEMMA PeakReached ==
    ASSUME ShapeInv, NEW t \in 0..(Len(nodes) - 1), NEW k, k = PeakAbove(t),
           NEW path, path = PathTo(t, stack[k])
    PROVE  /\ Len(path) \in Nat
           /\ Len(Siblings(t)) = Len(path)
           /\ Climb(Node(t).hash, path, HashesAt(Siblings(t))) = Node(stack[k]).hash
<1>1. /\ k \in 1..Len(stack) /\ Covers(stack[k], t)
      /\ HeightAt(stack[k]) = Node(stack[k]).height
  BY PeakFacts
<1>2. PICK q, h : q = stack[k] /\ h = HeightAt(stack[k])
  OBVIOUS
<1>3. q \in 0..(Len(nodes) - 1)
  BY <1>1, <1>2, StackFacts DEF ShapeInv
<1>4. Node(q).height = h /\ h \in Nat
  <2>1. stack[k] \in 0..(Len(nodes) - 1) /\ Len(nodes) \in Nat /\ DOMAIN nodes = 1..Len(nodes)
    BY <1>2, <1>3, StackFacts DEF ShapeInv
  <2>2. q + 1 \in DOMAIN nodes
    BY <1>3, <2>1
  <2>3. nodes[q + 1].height \in Nat
    BY <2>2 DEF ShapeInv, MmrInv, NodesInv
  <2> QED BY <1>1, <1>2, <2>3 DEF Node
<1>5. q - MountainSize(h) < t /\ t <= q
  BY <1>1, <1>2 DEF Covers
<1>6. Leads(t, q, h)
  BY <1>3, <1>4, <1>5, LeadsUp
<1>7. path = LocatePath(t)[h][q]
  BY <1>2 DEF PathTo
<1>8. Siblings(q) = <<>>
  BY <1>1, <1>2, SiblingsFacts
<1>9. PICK s \in Seq(0..(Len(nodes) - 1)) :
         /\ Siblings(t) = s \o Siblings(q)
         /\ Len(s) = Len(path)
         /\ Climb(Node(t).hash, path, HashesAt(s)) = Node(q).hash
  BY <1>6, <1>7 DEF Leads
<1>10. Siblings(t) = s
  <2>1. s \o <<>> = s
    OBVIOUS
  <2> QED BY <1>8, <1>9, <2>1
<1>11. Len(s) \in Nat
  OBVIOUS
<1> QED BY <1>2, <1>9, <1>10, <1>11

(* Where the leaves are, and what they are.                                *)
LEMMA LeafFacts ==
    ASSUME ShapeInv, ~MergePending, NEW i \in 0..(Len(leaves) - 1)
    PROVE  /\ LeafPos(i) \in 0..(Len(nodes) - 1)
           /\ LeafIndexToPos(i) = LeafPos(i)
           /\ Node(LeafPos(i)).hash = LeafHash(leaves[i + 1])
<1>1. LeafIndexToPos(i) = LeafPos(i)
  BY PositionsHold DEF ShapeInv, PositionsMatch
<1>2. Len(leaves) \in Nat
  BY DEF ShapeInv, MmrInv, LeavesInv
<1>3. i + 1 \in 1..Len(leaves) /\ (i + 1) - 1 = i
  BY <1>2
<1>4. Recorded(i + 1)
  BY <1>3 DEF ShapeInv, HistoryInv
<1>5. NodeCount(i) \in 0..(Len(nodes) - 1) /\ Node(NodeCount(i)).hash = LeafHash(leaves[i + 1])
  BY <1>3, <1>4 DEF Recorded
<1> QED BY <1>1, <1>5 DEF LeafIndexToPos

-----------------------------------------------------------------------------
(* Proofs of inclusion                                                     *)

Around(w, a, x, b) ==
    /\ Len(w) = Len(a) + 1 + Len(b)
    /\ \A j \in 1..Len(a) : w[j] = a[j]
    /\ w[Len(a) + 1] = x
    /\ \A j \in 1..Len(b) : w[Len(a) + 1 + j] = b[j]

InTurn(w, a, x, b) == w = a \o <<x>> \o b

LEMMA InTurnAround ==
    ASSUME NEW S, NEW a \in Seq(S), NEW x \in S, NEW b \in Seq(S),
           NEW w, InTurn(w, a, x, b)
    PROVE  w \in Seq(S) /\ Around(w, a, x, b)
BY DEF InTurn, Around

(* What stands before the element k of a sequence, and what after it.      *)
Parts(s, k, left, right) ==
    /\ k \in 1..Len(s)
    /\ Len(left) = k - 1 /\ \A j \in 1..(k - 1) : left[j] = s[j]
    /\ Len(right) = Len(s) - k /\ \A j \in 1..(Len(s) - k) : right[j] = s[k + j]

(* A sequence is what stands around its element k.                         *)
LEMMA AroundIs ==
    ASSUME NEW S, NEW a \in Seq(S), NEW x \in S, NEW b \in Seq(S), NEW s \in Seq(S),
           NEW left \in Seq(S), NEW right \in Seq(S), NEW k, Parts(s, k, left, right),
           Len(a) = Len(left), Len(b) = Len(right),
           NEW w \in Seq(S), Around(w, a, x, b)
    PROVE  /\ Len(w) = Len(s)
           /\ w = s <=> a = left /\ x = s[k] /\ b = right
<1>1. /\ k \in 1..Len(s) /\ Len(a) = k - 1 /\ Len(b) = Len(s) - k
      /\ Len(left) = k - 1 /\ \A j \in 1..(k - 1) : left[j] = s[j]
      /\ Len(right) = Len(s) - k /\ \A j \in 1..(Len(s) - k) : right[j] = s[k + j]
  BY DEF Parts
<1>2. /\ Len(w) = Len(a) + 1 + Len(b)
      /\ \A j \in 1..Len(a) : w[j] = a[j]
      /\ w[Len(a) + 1] = x
      /\ \A j \in 1..Len(b) : w[Len(a) + 1 + j] = b[j]
  BY DEF Around
<1>3. Len(s) \in Nat /\ Len(w) = Len(s) /\ k \in Nat /\ (k - 1) + 1 = k
  BY <1>1, <1>2
<1>4. /\ \A j \in 1..(k - 1) : w[j] = a[j]
      /\ w[k] = x
      /\ \A j \in 1..(Len(s) - k) : w[k + j] = b[j]
  BY <1>1, <1>2, <1>3
<1>5. ASSUME w = s PROVE a = left /\ x = s[k] /\ b = right
  <2>1. a = left
    BY <1>1, <1>4, <1>5, SeqEqual
  <2>2. b = right
    BY <1>1, <1>4, <1>5, SeqEqual
  <2> QED BY <1>4, <1>5, <2>1, <2>2
<1>6. ASSUME a = left, x = s[k], b = right PROVE w = s
  <2>1. ASSUME NEW i \in 1..Len(s) PROVE w[i] = s[i]
    <3>1. CASE i < k
      <4>1. i \in 1..(k - 1)
        BY <1>3, <3>1
      <4> QED BY <1>1, <1>4, <1>6, <4>1
    <3>2. CASE i = k
      BY <1>4, <1>6, <3>2
    <3>3. CASE i > k
      <4> DEFINE j == i - k
      <4>1. j \in 1..(Len(s) - k) /\ k + j = i
        BY <1>3, <3>3
      <4> HIDE DEF j
      <4>2. w[k + j] = b[j] /\ right[j] = s[k + j]
        BY <1>1, <1>4, <4>1
      <4> QED BY <1>6, <4>1, <4>2
    <3> QED BY <1>3, <3>1, <3>2, <3>3
  <2> QED BY <1>2, <1>3, <2>1, SeqEqual
<1> QED BY <1>2, <1>3, <1>5, <1>6

LEMMA HashesAtFacts ==
    ASSUME MmrInv, NEW s \in Seq(0..(Len(nodes) - 1))
    PROVE  /\ HashesAt(s) \in Seq(Hashes)
           /\ Len(HashesAt(s)) = Len(s)
           /\ \A i \in 1..Len(s) : HashesAt(s)[i] = Node(s[i]).hash
<1>1. Len(s) \in Nat /\ HashesAt(s) = [i \in 1..Len(s) |-> Node(s[i]).hash]
  BY DEF HashesAt
<1>2. ASSUME NEW i \in 1..Len(s) PROVE Node(s[i]).hash \in Hashes
  <2>1. s[i] \in 0..(Len(nodes) - 1) /\ Len(nodes) \in Nat /\ DOMAIN nodes = 1..Len(nodes)
    BY StackFacts
  <2>2. s[i] + 1 \in DOMAIN nodes
    BY <2>1
  <2> QED BY <2>2 DEF Hashes, Node
<1>3. HashesAt(s) \in [1..Len(s) -> Hashes]
  BY <1>1, <1>2
<1> HIDE DEF HashesAt
<1> QED BY <1>1, <1>3

LEMMA SeqWider ==
    ASSUME NEW S, NEW U, S \subseteq U, NEW s \in Seq(S)
    PROVE  s \in Seq(U)
OBVIOUS

(* Proofs of inclusion, of any hashes.                                     *)
InclusionProofs(T) ==
    [size : Nat, leafIndex : Nat, witness : Seq(T), peaksLeft : Seq(T), peaksRight : Seq(T)]

(* What was built, as a proof.                                             *)
LEMMA InclusionProofFacts ==
    ASSUME ShapeInv, ~MergePending, NEW i \in 0..(Len(leaves) - 1),
           NEW pos, pos = LeafPos(i), NEW k, k = PeakAbove(pos)
    PROVE  /\ InclusionProof(i) \in InclusionProofs(Hashes)
           /\ HashesAt(stack) \in Seq(Hashes) /\ Len(HashesAt(stack)) = Len(stack)
           /\ HashesAt(stack)[k] = Node(stack[k]).hash
           /\ \E w, front, back \in Seq(Hashes) :
                /\ w = HashesAt(Siblings(pos)) /\ Len(w) = Len(Siblings(pos))
                /\ Parts(HashesAt(stack), k, front, back)
                /\ InclusionProof(i) = [size |-> Len(nodes), leafIndex |-> i, witness |-> w,
                                        peaksLeft |-> front, peaksRight |-> back]
<1> DEFINE n == Len(nodes)
           S == 0..(n - 1)
           L == Len(stack)
<1>0. MmrInv /\ n \in Nat /\ L \in Nat
  BY StackFacts DEF ShapeInv
<1>1. pos \in S
  BY LeafFacts
<1>2. k \in 1..L
  BY <1>1, PeakFacts
<1>3. stack \in Seq(S)
  <2>1. stack \in Seq(Nat) /\ \A j \in 1..L : stack[j] \in S
    BY <1>0, StackFacts
  <2>2. stack = [j \in 1..L |-> stack[j]]
    BY <2>1
  <2> HIDE DEF S
  <2> QED BY <1>0, <2>1, <2>2
<1>4. /\ HashesAt(stack) \in Seq(Hashes) /\ Len(HashesAt(stack)) = L
      /\ \A j \in 1..L : HashesAt(stack)[j] = Node(stack[j]).hash
  BY <1>0, <1>3, HashesAtFacts
<1>5. PICK front, back : front = SubSeq(stack, 1, k - 1) /\ back = SubSeq(stack, k + 1, L)
  OBVIOUS
<1>6. front \in Seq(S) /\ Len(front) = k - 1 /\ \A j \in 1..(k - 1) : front[j] = stack[j]
  <2>1. k - 1 \in Nat /\ k - 1 <= L
    BY <1>0, <1>2
  <2> HIDE DEF S
  <2> QED BY <1>3, <1>5, <2>1, FrontFacts
<1>7. back \in Seq(S) /\ Len(back) = L - k /\ \A j \in 1..(L - k) : back[j] = stack[k + j]
  <2> HIDE DEF S
  <2> QED BY <1>2, <1>3, <1>5
<1>8. /\ HashesAt(front) \in Seq(Hashes) /\ Len(HashesAt(front)) = k - 1
      /\ \A j \in 1..(k - 1) : HashesAt(front)[j] = HashesAt(stack)[j]
  <2>1. /\ HashesAt(front) \in Seq(Hashes) /\ Len(HashesAt(front)) = k - 1
        /\ \A j \in 1..(k - 1) : HashesAt(front)[j] = Node(front[j]).hash
    BY <1>0, <1>6, HashesAtFacts
  <2>2. \A j \in 1..(k - 1) : j \in 1..L
    BY <1>0, <1>2
  <2> QED BY <1>4, <1>6, <2>1, <2>2
<1>9. /\ HashesAt(back) \in Seq(Hashes) /\ Len(HashesAt(back)) = L - k
      /\ \A j \in 1..(L - k) : HashesAt(back)[j] = HashesAt(stack)[k + j]
  <2>1. /\ HashesAt(back) \in Seq(Hashes) /\ Len(HashesAt(back)) = L - k
        /\ \A j \in 1..(L - k) : HashesAt(back)[j] = Node(back[j]).hash
    BY <1>0, <1>7, HashesAtFacts
  <2>2. \A j \in 1..(L - k) : k + j \in 1..L
    BY <1>0, <1>2
  <2> QED BY <1>4, <1>7, <2>1, <2>2, SMTT(20)
<1>10. HashesAt(Siblings(pos)) \in Seq(Hashes) /\ Len(HashesAt(Siblings(pos))) = Len(Siblings(pos))
  BY <1>0, <1>1, HashesAtFacts, SiblingsFacts
<1>11. InclusionProof(i) = [size       |-> n,
                            leafIndex  |-> i,
                            witness    |-> HashesAt(Siblings(pos)),
                            peaksLeft  |-> HashesAt(front),
                            peaksRight |-> HashesAt(back)]
  BY <1>5 DEF InclusionProof
<1>12. i \in Nat
  OBVIOUS
<1>13. InclusionProof(i) \in InclusionProofs(Hashes)
  BY <1>0, <1>8, <1>9, <1>10, <1>11, <1>12 DEF InclusionProofs
<1>14. Parts(HashesAt(stack), k, HashesAt(front), HashesAt(back))
  BY <1>2, <1>4, <1>8, <1>9 DEF Parts
<1>15. HashesAt(stack)[k] = Node(stack[k]).hash
  BY <1>2, <1>4
<1> QED BY <1>4, <1>8, <1>9, <1>10, <1>11, <1>13, <1>14, <1>15

(* Whatever the proof: a record is accepted if and only if it is the one   *)
(* there, and the proof the one that was built.                            *)
LEMMA InclusionOnly ==
    ASSUME ShapeInv, ~MergePending, NEW i \in Nat, NEW d, NEW T,
           NEW proof \in InclusionProofs(T)
    PROVE  VerifyInclusion(StackRoot(Len(leaves)), Len(nodes), i, d, proof)
           <=> /\ Len(nodes) < MaxMmrSize
               /\ i < Len(leaves)
               /\ d = leaves[i + 1]
               /\ proof = InclusionProof(i)
<1> DEFINE n == Len(nodes)
           l == Len(leaves)
           L == Len(stack)
           Accepted == VerifyInclusion(StackRoot(l), n, i, d, proof)
<1>0. MmrInv /\ n \in Nat /\ l \in Nat /\ L \in Nat /\ stack \in Seq(Nat)
  BY StackFacts DEF ShapeInv, MmrInv, LeavesInv
<1>1. /\ ValidSize(n) <=> n < MaxMmrSize
      /\ Peaks(n) = stack /\ LeafCountFromSize(n) = l
  BY <1>0, PositionsHold DEF PositionsMatch
<1>2. CASE ~(i < l)
  BY <1>1, <1>2 DEF VerifyInclusion
<1>3. CASE i < l
  <2>1. i \in 0..(l - 1)
    BY <1>0, <1>3
  <2>2. PICK pos : pos = LeafPos(i)
    OBVIOUS
  <2>3. PICK k : k = PeakAbove(pos)
    OBVIOUS
  <2>4. PICK path : path = PathTo(pos, stack[k])
    OBVIOUS
  <2>5. pos \in 0..(n - 1) /\ LeafIndexToPos(i) = pos /\ Node(pos).hash = LeafHash(leaves[i + 1])
    BY <2>1, <2>2, LeafFacts
  <2>6. k \in 1..L /\ ContainingPeak(pos, stack) = k /\ k # 0
    BY <2>3, <2>5, PeakFacts
  <2>7. PICK H : H = HashesAt(stack)
    OBVIOUS
  <2>8. /\ H \in Seq(Hashes) /\ Len(H) = L /\ H[k] = Node(stack[k]).hash
        /\ \E w, front, back \in Seq(Hashes) :
             /\ w = HashesAt(Siblings(pos)) /\ Len(w) = Len(Siblings(pos))
             /\ Parts(H, k, front, back)
             /\ InclusionProof(i) = [size |-> n, leafIndex |-> i, witness |-> w,
                                     peaksLeft |-> front, peaksRight |-> back]
    BY <2>1, <2>2, <2>3, <2>7, InclusionProofFacts
  <2>9. PICK w, front, back \in Seq(Hashes) :
          /\ Climb(LeafHash(leaves[i + 1]), path, w) = Node(stack[k]).hash
          /\ Len(path) \in Nat /\ Len(w) = Len(path)
          /\ Parts(H, k, front, back)
          /\ Len(front) = k - 1 /\ Len(back) = L - k
          /\ InclusionProof(i) = [size |-> n, leafIndex |-> i, witness |-> w,
                                  peaksLeft |-> front, peaksRight |-> back]
    <3>1. /\ Len(path) \in Nat
          /\ Len(Siblings(pos)) = Len(path)
          /\ Climb(LeafHash(leaves[i + 1]), path, HashesAt(Siblings(pos))) = Node(stack[k]).hash
      BY <2>3, <2>4, <2>5, PeakReached
    <3>2. \A front, back : Parts(H, k, front, back) => Len(front) = k - 1 /\ Len(back) = L - k
      BY <2>8 DEF Parts
    <3> QED BY <2>8, <3>1, <3>2
  <2>10. PICK witness, peaksLeft, peaksRight, top :
           /\ witness = proof.witness
           /\ peaksLeft = proof.peaksLeft /\ peaksRight = proof.peaksRight
           /\ top = Climb(LeafHash(d), path, proof.witness)
    OBVIOUS
  <2>11. /\ witness \in Seq(T) /\ peaksLeft \in Seq(T) /\ peaksRight \in Seq(T)
         /\ proof = [size |-> proof.size, leafIndex |-> proof.leafIndex, witness |-> witness,
                     peaksLeft |-> peaksLeft, peaksRight |-> peaksRight]
    BY <2>10 DEF InclusionProofs
  <2>12. PICK R : InTurn(R, peaksLeft, top, peaksRight)
    BY DEF InTurn
  <2> DEFINE Counted == Len(witness) = Len(path) /\ Len(peaksLeft) = k - 1
                        /\ Len(peaksRight) = L - k
  <2>13. Accepted <=> /\ proof.size = n /\ proof.leafIndex = i /\ n < MaxMmrSize
                      /\ Counted /\ RootFromPeaks(R) = RootFromPeaks(H)
    <3>1. StackRoot(l) = RootFromPeaks(H)
      BY <2>7 DEF StackRoot, StackAt
    <3>2. R = peaksLeft \o <<top>> \o peaksRight
      BY <2>12 DEF InTurn
    <3> QED BY <1>1, <1>3, <2>4, <2>5, <2>6, <2>10, <3>1, <3>2 DEF VerifyInclusion
  <2>14. ASSUME Counted
         PROVE  RootFromPeaks(R) = RootFromPeaks(H)
                <=> d = leaves[i + 1] /\ witness = w /\ peaksLeft = front /\ peaksRight = back
    <3> DEFINE U == T \cup Hashes \cup {top}
    <3>1. /\ peaksLeft \in Seq(U) /\ peaksRight \in Seq(U) /\ front \in Seq(U)
          /\ back \in Seq(U) /\ H \in Seq(U) /\ top \in U
      <4>1. T \subseteq U /\ Hashes \subseteq U /\ top \in U
        OBVIOUS
      <4>2. front \in Seq(Hashes) /\ back \in Seq(Hashes) /\ H \in Seq(Hashes)
        BY <2>8
      <4> HIDE DEF U
      <4> QED BY <2>11, <4>1, <4>2, SeqWider
    <3> HIDE DEF U
    <3>2. R \in Seq(U) /\ Around(R, peaksLeft, top, peaksRight)
      BY <2>12, <3>1, InTurnAround
    <3>3. Len(R) = Len(H) /\ (R = H <=> peaksLeft = front /\ top = H[k] /\ peaksRight = back)
      <4>1. Parts(H, k, front, back)
        BY <2>9
      <4>2. Len(peaksLeft) = Len(front) /\ Len(peaksRight) = Len(back)
        BY <2>9, <2>14
      <4> QED BY <3>1, <3>2, <4>1, <4>2, AroundIs
    <3>4. RootFromPeaks(R) = RootFromPeaks(H) <=> R = H
      BY <3>1, <3>2, <3>3, RootInjective
    <3>5. top = H[k] <=> d = leaves[i + 1] /\ witness = w
      <4>1. top = H[k] <=> Climb(LeafHash(d), path, witness) = Climb(LeafHash(leaves[i + 1]), path, w)
        BY <2>8, <2>9, <2>10
      <4>2. ASSUME top = H[k] PROVE d = leaves[i + 1] /\ witness = w
        <5>1. LeafHash(d) = LeafHash(leaves[i + 1]) /\ \A j \in 1..Len(path) : witness[j] = w[j]
          BY <2>9, <4>1, <4>2, ClimbInjective
        <5>2. d = leaves[i + 1]
          BY <5>1 DEF LeafHash
        <5>3. witness = w
          <6>1. witness \in Seq(U) /\ w \in Seq(U)
            BY <2>9, <2>11, SeqWider DEF U
          <6> QED BY <2>9, <2>14, <5>1, <6>1, SeqEqual
        <5> QED BY <5>2, <5>3
      <4> QED BY <4>1, <4>2
    <3> QED BY <3>3, <3>4, <3>5
  <2>15. proof = InclusionProof(i) <=>
           /\ proof.size = n /\ proof.leafIndex = i
           /\ witness = w /\ peaksLeft = front /\ peaksRight = back
    BY <2>9, <2>11
  <2>16. witness = w /\ peaksLeft = front /\ peaksRight = back => Counted
    BY <2>9
  <2> QED BY <1>3, <2>13, <2>14, <2>15, <2>16
<1> QED BY <1>2, <1>3

(* A sequence near one of hashes is one of hashes.                         *)
LEMMA NearFacts ==
    ASSUME NEW s \in Seq(Hashes)
    PROVE  NearSeqs(s) \subseteq Seq(Hashes)
<1> SUFFICES ASSUME NEW w \in NearSeqs(s) PROVE w \in Seq(Hashes)
  OBVIOUS
<1>1. ZeroDigest \in Hashes
  BY DEF Hashes
<1>2. CASE w \in {[s EXCEPT ![i] = h] : i \in DOMAIN s, h \in Hashes}
  BY <1>2
<1>3. CASE w = Append(s, ZeroDigest)
  BY <1>1, <1>3
<1>4. CASE s # <<>> /\ w = Front(s)
  <2>1. Len(s) \in Nat /\ Len(s) - 1 \in Nat /\ Len(s) - 1 <= Len(s)
    BY <1>4
  <2>2. w = SubSeq(s, 1, Len(s) - 1)
    BY <1>4 DEF Front
  <2> QED BY <2>1, <2>2, FrontFacts
<1> QED BY <1>2, <1>3, <1>4 DEF NearSeqs

(* The candidates are proofs, of hashes.                                   *)
LEMMA InclusionCandidatesFacts ==
    ASSUME ShapeInv, ~MergePending, NEW i \in 0..Len(leaves),
           NEW proof \in InclusionCandidates(i)
    PROVE  proof \in InclusionProofs(Hashes)
<1>0. Len(leaves) \in Nat /\ i \in Nat
  BY DEF ShapeInv, MmrInv, LeavesInv
<1>1. \A j \in 0..(Len(leaves) - 1) : InclusionProof(j) \in InclusionProofs(Hashes)
  BY InclusionProofFacts
<1>2. CASE \E j \in 0..(Len(leaves) - 1) : proof = [InclusionProof(j) EXCEPT !.leafIndex = i]
  <2>1. PICK j \in 0..(Len(leaves) - 1) : proof = [InclusionProof(j) EXCEPT !.leafIndex = i]
    BY <1>2
  <2>2. PICK p : p = InclusionProof(j)
    OBVIOUS
  <2> QED BY <1>0, <1>1, <2>1, <2>2 DEF InclusionProofs
<1>3. CASE /\ i # Len(leaves)
           /\ \/ proof \in {[InclusionProof(i) EXCEPT !.witness = w]
                              : w \in NearSeqs(InclusionProof(i).witness)}
              \/ proof \in {[InclusionProof(i) EXCEPT !.peaksLeft = w]
                              : w \in NearSeqs(InclusionProof(i).peaksLeft)}
              \/ proof \in {[InclusionProof(i) EXCEPT !.peaksRight = w]
                              : w \in NearSeqs(InclusionProof(i).peaksRight)}
  <2>1. PICK p : p = InclusionProof(i)
    OBVIOUS
  <2>2. p \in InclusionProofs(Hashes)
    BY <1>0, <1>1, <1>3, <2>1
  <2>3. p.witness \in Seq(Hashes) /\ p.peaksLeft \in Seq(Hashes) /\ p.peaksRight \in Seq(Hashes)
    BY <2>2 DEF InclusionProofs
  <2>4. /\ NearSeqs(p.witness) \subseteq Seq(Hashes)
        /\ NearSeqs(p.peaksLeft) \subseteq Seq(Hashes)
        /\ NearSeqs(p.peaksRight) \subseteq Seq(Hashes)
    BY <2>3, NearFacts
  <2>5. \E w \in Seq(Hashes) : \/ proof = [p EXCEPT !.witness = w]
                               \/ proof = [p EXCEPT !.peaksLeft = w]
                               \/ proof = [p EXCEPT !.peaksRight = w]
    BY <1>3, <2>1, <2>4
  <2> QED BY <2>2, <2>5 DEF InclusionProofs
<1> QED BY <1>2, <1>3 DEF InclusionCandidates

LEMMA InclusionHolds == ShapeInv => InclusionExact
<1> SUFFICES ASSUME ShapeInv, ~MergePending, NEW i \in 0..Len(leaves), NEW d \in Digests,
                    NEW proof \in InclusionCandidates(i)
             PROVE  VerifyInclusion(StackRoot(Len(leaves)), Len(nodes), i, d, proof)
                    <=> /\ Len(nodes) < MaxMmrSize
                        /\ i < Len(leaves)
                        /\ d = leaves[i + 1]
                        /\ proof = InclusionProof(i)
  BY DEF InclusionExact
<1>1. i \in Nat
  BY DEF ShapeInv, MmrInv, LeavesInv
<1>2. proof \in InclusionProofs(Hashes)
  BY InclusionCandidatesFacts
<1> QED BY <1>1, <1>2, InclusionOnly

-----------------------------------------------------------------------------
(* Proofs of consistency                                                   *)

(* The log when it had k leaves.                                           *)
LEMMA StackAtFacts ==
    ASSUME ShapeInv, ~MergePending, NEW k \in 0..Len(leaves)
    PROVE  /\ Falling(HeightsOf(StackAt(k)))
           /\ RidgeOf(HeightsOf(StackAt(k)), StackAt(k), NodeCount(k))
           /\ NodeCount(k) \in 0..Len(nodes)
           /\ \A j \in 0..(k - 1) : NodeCount(j) < NodeCount(k)
<1>0. Len(leaves) \in Nat /\ Len(nodes) \in Nat
  BY StackFacts DEF ShapeInv, MmrInv, LeavesInv
<1>1. CASE k = Len(leaves)
  <2>1. StackAt(k) = stack /\ NodeCount(k) = Len(nodes)
    BY <1>1, CountsAre DEF ShapeInv, StackAt
  <2>2. HeightsOf(stack) = Heights
    BY DEF HeightsOf, Heights
  <2>3. Falling(Heights) /\ RidgeOf(Heights, stack, Len(nodes))
    BY StackFacts DEF ShapeInv, MmrInv
  <2>4. \A j \in 0..(k - 1) : NodeCount(j) < Len(nodes)
    <3> SUFFICES ASSUME NEW j \in 0..(k - 1) PROVE NodeCount(j) < Len(nodes)
      OBVIOUS
    <3>1. j + 1 \in 1..Len(leaves) /\ (j + 1) - 1 = j
      BY <1>0, <1>1
    <3>2. Recorded(j + 1)
      BY <3>1 DEF ShapeInv, HistoryInv
    <3>3. NodeCount((j + 1) - 1) \in 0..(Len(nodes) - 1)
      BY <3>2 DEF Recorded
    <3>4. PICK m : m = NodeCount(j)
      OBVIOUS
    <3> QED BY <1>0, <3>1, <3>3, <3>4
  <2> QED BY <1>0, <2>1, <2>2, <2>3, <2>4
<1>2. CASE k # Len(leaves)
  <2>1. k + 1 \in 1..Len(leaves) /\ (k + 1) - 1 = k
    BY <1>0, <1>2
  <2>2. Recorded(k + 1)
    BY <2>1 DEF ShapeInv, HistoryInv
  <2>3. StackAt(k) = past[k + 1]
    BY <1>2 DEF StackAt
  <2>4. /\ NodeCount(k) \in 0..(Len(nodes) - 1)
        /\ \A j \in 1..k : NodeCount(j - 1) < NodeCount(k)
        /\ Falling(HeightsOf(past[k + 1]))
        /\ RidgeOf(HeightsOf(past[k + 1]), past[k + 1], NodeCount(k))
    BY <2>1, <2>2 DEF Recorded
  <2>5. \A j \in 0..(k - 1) : NodeCount(j) < NodeCount(k)
    <3> SUFFICES ASSUME NEW j \in 0..(k - 1) PROVE NodeCount(j) < NodeCount(k)
      OBVIOUS
    <3>1. j + 1 \in 1..k /\ (j + 1) - 1 = j
      BY <1>0
    <3> QED BY <2>4, <3>1
  <2>6. NodeCount(k) \in 0..Len(nodes)
    <3>1. PICK m : m = NodeCount(k)
      OBVIOUS
    <3> QED BY <1>0, <2>4, <3>1
  <2> QED BY <2>3, <2>4, <2>5, <2>6
<1> QED BY <1>1, <1>2

(* What the viewer reads off an earlier size.                              *)
LEMMA SizeAtFacts ==
    ASSUME ShapeInv, ~MergePending, NEW k \in 0..Len(leaves)
    PROVE  /\ SizeAt(k) = NodeCount(k)
           /\ SizeAt(k) \in 0..Len(nodes)
           /\ Peaks(SizeAt(k)) = StackAt(k)
           /\ ValidSize(SizeAt(k)) <=> SizeAt(k) < MaxMmrSize
           /\ StackAt(k) \in Seq(0..(Len(nodes) - 1))
<1>1. PICK st, hs, n : st = StackAt(k) /\ hs = HeightsOf(StackAt(k)) /\ n = NodeCount(k)
  OBVIOUS
<1>2. /\ Falling(hs) /\ RidgeOf(hs, st, n) /\ n \in 0..Len(nodes)
      /\ \A j \in 0..(k - 1) : NodeCount(j) < n
  BY <1>1, StackAtFacts
<1>3. /\ n \in Nat /\ Mountains[n] = hs /\ Peaks(n) = st
      /\ hs # <<>> => n > 0 /\ st[Len(st)] = n - 1
      /\ \A i \in 1..Len(hs) : Offset(hs, i) \in 1..n
  BY <1>2, RidgeFacts
<1>4. /\ hs \in Seq(Nat) /\ st \in Seq(Nat) /\ Len(st) = Len(hs) /\ n = Offset(hs, Len(hs))
      /\ \A i \in 1..Len(hs) : st[i] = Offset(hs, i) - 1
  BY <1>2 DEF RidgeOf
<1>5. NodeCount(0) = 0
  BY PopCountExists DEF NodeCount
<1>6. SizeAt(k) = n
  <2>1. CASE k = 0
    BY <1>1, <1>5, <2>1 DEF SizeAt
  <2>2. CASE k # 0
    <3>1. Len(leaves) \in Nat
      BY DEF ShapeInv, MmrInv, LeavesInv
    <3>2. 0 < n
      <4>1. 0 \in 0..(k - 1)
        BY <2>2, <3>1
      <4>2. NodeCount(0) < n
        BY <1>2, <4>1
      <4> QED BY <1>5, <4>2
    <3>3. hs # <<>>
      <4> SUFFICES ASSUME hs = <<>> PROVE FALSE
        OBVIOUS
      <4>1. Len(hs) = 0
        OBVIOUS
      <4>2. Offset(hs, 0) = 0
        BY <1>4, OffsetFacts
      <4> QED BY <1>4, <3>2, <4>1, <4>2
    <3>4. st[Len(st)] = n - 1
      BY <1>3, <3>3
    <3>5. SizeAt(k) = st[Len(st)] + 1
      BY <1>1, <2>2 DEF SizeAt, Last
    <3> QED BY <1>3, <3>4, <3>5
  <2> QED BY <2>1, <2>2
<1>7. ValidSize(n) <=> n < MaxMmrSize
  BY <1>2, <1>3 DEF ValidSize, Falling
<1>8. st \in Seq(0..(Len(nodes) - 1))
  <2>0. Len(nodes) \in Nat
    BY StackFacts DEF ShapeInv
  <2>1. \A i \in 1..Len(st) : st[i] \in 0..(Len(nodes) - 1)
    <3> SUFFICES ASSUME NEW i \in 1..Len(st) PROVE st[i] \in 0..(Len(nodes) - 1)
      OBVIOUS
    <3>1. Offset(hs, i) \in 1..n /\ st[i] = Offset(hs, i) - 1
      BY <1>3, <1>4
    <3>2. PICK o : o = Offset(hs, i)
      OBVIOUS
    <3> QED BY <1>2, <2>0, <3>1, <3>2
  <2>2. st = [i \in 1..Len(st) |-> st[i]] /\ Len(st) \in Nat
    BY <1>4
  <2> QED BY <2>1, <2>2
<1> QED BY <1>1, <1>2, <1>3, <1>6, <1>7, <1>8

(* No two leaf counts have one size.                                       *)
LEMMA SizesDiffer ==
    ASSUME ShapeInv, ~MergePending, NEW j \in 0..Len(leaves), NEW k \in 0..Len(leaves),
           SizeAt(j) = SizeAt(k)
    PROVE  j = k
<1>1. Len(leaves) \in Nat
  BY DEF ShapeInv, MmrInv, LeavesInv
<1>2. PICK m, n : m = NodeCount(j) /\ n = NodeCount(k)
  OBVIOUS
<1>3. m = n /\ m \in Int /\ n \in Int
  <2>1. m \in 0..Len(nodes) /\ n \in 0..Len(nodes)
    BY <1>2, SizeAtFacts
  <2> QED BY <1>2, <2>1, SizeAtFacts
<1>4. ASSUME j < k PROVE FALSE
  <2>1. j \in 0..(k - 1)
    BY <1>1, <1>4
  <2>2. m < n
    BY <1>2, <2>1, StackAtFacts
  <2> QED BY <1>3, <2>2
<1>5. ASSUME k < j PROVE FALSE
  <2>1. k \in 0..(j - 1)
    BY <1>1, <1>5
  <2>2. n < m
    BY <1>2, <2>1, StackAtFacts
  <2> QED BY <1>3, <2>2
<1> QED BY <1>1, <1>4, <1>5

(* An old peak leads up to the peak above it from its own hash, and with   *)
(* its own siblings, only.                                                 *)
LEMMA PeakKeptOnly ==
    ASSUME ShapeInv, ~MergePending, NEW pos \in 0..(Len(nodes) - 1),
           NEW hash, NEW T, NEW w \in Seq(T)
    PROVE  PeakKept(pos, hash, w, stack, HashesAt(stack))
           <=> hash = Node(pos).hash /\ w = HashesAt(Siblings(pos))
<1>1. PICK k, path, v, top : /\ k = PeakAbove(pos) /\ path = PathTo(pos, stack[k])
                             /\ v = HashesAt(Siblings(pos)) /\ top = HashesAt(stack)[k]
  OBVIOUS
<1>2. k \in 1..Len(stack) /\ ContainingPeak(pos, stack) = k /\ k # 0
  BY <1>1, PeakFacts
<1>3. /\ Len(path) \in Nat /\ Len(Siblings(pos)) = Len(path)
      /\ Climb(Node(pos).hash, path, v) = Node(stack[k]).hash
  BY <1>1, PeakReached
<1>4. v \in Seq(Hashes) /\ Len(v) = Len(path)
  BY <1>1, <1>3, HashesAtFacts, SiblingsFacts DEF ShapeInv
<1>5. top = Node(stack[k]).hash
  <2>1. HashesAt(stack) = [i \in 1..Len(stack) |-> Node(stack[i]).hash]
    BY DEF HashesAt
  <2> QED BY <1>1, <1>2, <2>1
<1>6. PeakKept(pos, hash, w, stack, HashesAt(stack))
      <=> Len(w) = Len(path) /\ Climb(hash, path, w) = top
  BY <1>1, <1>2 DEF PeakKept
<1>7. ASSUME Len(w) = Len(path), Climb(hash, path, w) = top
      PROVE  hash = Node(pos).hash /\ w = v
  <2>1. hash = Node(pos).hash /\ \A i \in 1..Len(path) : w[i] = v[i]
    BY <1>3, <1>5, <1>7, ClimbInjective
  <2>2. w \in Seq(T \cup Hashes) /\ v \in Seq(T \cup Hashes)
    BY <1>4, SeqWider
  <2> QED BY <1>4, <1>7, <2>1, <2>2, SeqEqual
<1>8. ASSUME hash = Node(pos).hash, w = v
      PROVE  Len(w) = Len(path) /\ Climb(hash, path, w) = top
  BY <1>3, <1>4, <1>5, <1>8
<1> QED BY <1>1, <1>6, <1>7, <1>8

(* Proofs of consistency, of any hashes.                                   *)
ConsistencyProofs(T) ==
    [sizeA : Nat, sizeB : Nat, oldPeaks : Seq(T), newPeaks : Seq(T), witness : Seq(Seq(T))]

(* What was built, as a proof.                                             *)
LEMMA ConsistencyProofFacts ==
    ASSUME ShapeInv, ~MergePending, NEW k \in 0..Len(leaves)
    PROVE  /\ ConsistencyProof(k) \in ConsistencyProofs(Hashes)
           /\ ConsistencyProof(k).sizeA = SizeAt(k)
           /\ ConsistencyProof(k).sizeB = Len(nodes)
           /\ ConsistencyProof(k).oldPeaks = HashesAt(StackAt(k))
           /\ ConsistencyProof(k).newPeaks = HashesAt(stack)
           /\ Len(ConsistencyProof(k).witness) = Len(StackAt(k))
           /\ \A i \in 1..Len(StackAt(k)) :
                ConsistencyProof(k).witness[i] = HashesAt(Siblings(StackAt(k)[i]))
<1>1. PICK st, S : st = StackAt(k) /\ S = 0..(Len(nodes) - 1)
  OBVIOUS
<1>2. /\ MmrInv /\ st \in Seq(S) /\ Len(st) \in Nat /\ Len(nodes) \in Nat /\ SizeAt(k) \in Nat
      /\ stack \in Seq(S)
  <2>1. st \in Seq(S) /\ SizeAt(k) \in 0..Len(nodes)
    BY <1>1, SizeAtFacts
  <2>2. Len(leaves) \in 0..Len(leaves)
    BY DEF ShapeInv, MmrInv, LeavesInv
  <2>3. StackAt(Len(leaves)) = stack
    BY DEF StackAt
  <2>4. stack \in Seq(S)
    BY <1>1, <2>2, <2>3, SizeAtFacts
  <2> QED BY <2>1, <2>4, StackFacts DEF ShapeInv
<1>3. PICK w : w = [i \in 1..Len(st) |-> HashesAt(Siblings(st[i]))]
  OBVIOUS
<1>4. \A i \in 1..Len(st) : HashesAt(Siblings(st[i])) \in Seq(Hashes)
  BY <1>1, <1>2, SiblingsFacts, HashesAtFacts
<1>5. w \in Seq(Seq(Hashes)) /\ Len(w) = Len(st)
      /\ \A i \in 1..Len(st) : w[i] = HashesAt(Siblings(st[i]))
  BY <1>2, <1>3, <1>4
<1>6. HashesAt(st) \in Seq(Hashes) /\ HashesAt(stack) \in Seq(Hashes)
  BY <1>1, <1>2, HashesAtFacts
<1>7. ConsistencyProof(k) = [sizeA |-> SizeAt(k), sizeB |-> Len(nodes), oldPeaks |-> HashesAt(st),
                             newPeaks |-> HashesAt(stack), witness |-> w]
  BY <1>1, <1>3 DEF ConsistencyProof
<1>8. ConsistencyProof(k) \in ConsistencyProofs(Hashes)
  BY <1>2, <1>5, <1>6, <1>7 DEF ConsistencyProofs
<1> QED BY <1>1, <1>5, <1>7, <1>8

(* Whatever the proof and the root: the old root is accepted if and only   *)
(* if it is the root at that size, and the proof the one that was built.   *)
LEMMA ConsistencyOnly ==
    ASSUME ShapeInv, ~MergePending, NEW k \in 0..Len(leaves), NEW T,
           NEW proof \in ConsistencyProofs(T), NEW rootA
    PROVE  VerifyConsistency(rootA, SizeAt(k), StackRoot(Len(leaves)), Len(nodes), proof)
           <=> /\ Len(nodes) < MaxMmrSize
               /\ rootA = StackRoot(k)
               /\ proof = ConsistencyProof(k)
<1> DEFINE n == Len(nodes)
           l == Len(leaves)
           S == 0..(n - 1)
<1>1. PICK st, m, p : st = StackAt(k) /\ m = SizeAt(k) /\ p = ConsistencyProof(k)
  OBVIOUS
<1>2. MmrInv /\ n \in Nat /\ l \in Nat /\ l \in 0..l /\ stack \in Seq(Nat) /\ StackAt(l) = stack
  BY StackFacts DEF ShapeInv, MmrInv, LeavesInv, StackAt
<1>3. m \in 0..n /\ Peaks(m) = st /\ (ValidSize(m) <=> m < MaxMmrSize) /\ st \in Seq(S)
  BY <1>1, SizeAtFacts
<1>4. stack \in Seq(S) /\ Peaks(n) = stack /\ (ValidSize(n) <=> n < MaxMmrSize)
  <2>1. stack \in Seq(S)
    BY <1>2, SizeAtFacts
  <2> QED BY <1>2, <2>1, PositionsHold DEF PositionsMatch
<1>5. PICK old, new, oldH, newH, w, v :
        /\ old = proof.oldPeaks /\ new = proof.newPeaks /\ w = proof.witness
        /\ oldH = HashesAt(st) /\ newH = HashesAt(stack) /\ v = p.witness
  OBVIOUS
<1>6. /\ oldH \in Seq(Hashes) /\ Len(oldH) = Len(st)
      /\ \A i \in 1..Len(st) : oldH[i] = Node(st[i]).hash
      /\ newH \in Seq(Hashes) /\ Len(newH) = Len(stack)
  BY <1>2, <1>3, <1>4, <1>5, HashesAtFacts
<1>7. /\ p \in ConsistencyProofs(Hashes) /\ p.sizeA = m /\ p.sizeB = n
      /\ p.oldPeaks = oldH /\ p.newPeaks = newH /\ p.witness = v
      /\ Len(v) = Len(st) /\ \A i \in 1..Len(st) : v[i] = HashesAt(Siblings(st[i]))
  BY <1>1, <1>5, ConsistencyProofFacts
<1>8. /\ old \in Seq(T) /\ new \in Seq(T) /\ w \in Seq(Seq(T)) /\ v \in Seq(Seq(Hashes))
      /\ proof = p <=> /\ proof.sizeA = m /\ proof.sizeB = n
                       /\ old = oldH /\ new = newH /\ w = v
  <2>1. old \in Seq(T) /\ new \in Seq(T) /\ w \in Seq(Seq(T))
    BY <1>5 DEF ConsistencyProofs
  <2>2. v \in Seq(Seq(Hashes))
    BY <1>7 DEF ConsistencyProofs
  <2>3. proof = [sizeA |-> proof.sizeA, sizeB |-> proof.sizeB,
                 oldPeaks |-> old, newPeaks |-> new, witness |-> w]
    BY <1>5 DEF ConsistencyProofs
  <2>4. p = [sizeA |-> m, sizeB |-> n, oldPeaks |-> oldH, newPeaks |-> newH, witness |-> v]
    BY <1>7 DEF ConsistencyProofs
  <2> QED BY <2>1, <2>2, <2>3, <2>4
<1>9. rootA = StackRoot(k) <=> rootA = RootFromPeaks(oldH)
  BY <1>1, <1>5 DEF StackRoot
<1>10. StackRoot(l) = RootFromPeaks(newH)
  BY <1>2, <1>5 DEF StackRoot
<1> DEFINE Counted == Len(old) = Len(st) /\ Len(new) = Len(stack) /\ Len(w) = Len(st)
<1>11. VerifyConsistency(rootA, m, StackRoot(l), n, proof)
       <=> /\ proof.sizeA = m /\ proof.sizeB = n
           /\ n < MaxMmrSize /\ Counted
           /\ RootFromPeaks(old) = rootA
           /\ RootFromPeaks(new) = RootFromPeaks(newH)
           /\ \A i \in 1..Len(st) : PeakKept(st[i], old[i], w[i], stack, new)
  <2>1. m <= n /\ (n < MaxMmrSize => m < MaxMmrSize)
    BY <1>2, <1>3, MmrAssumption
  <2> QED BY <1>3, <1>4, <1>5, <1>10, <2>1 DEF VerifyConsistency
<1>12. ASSUME Len(new) = Len(stack)
       PROVE  RootFromPeaks(new) = RootFromPeaks(newH) <=> new = newH
  <2>1. new \in Seq(T \cup Hashes) /\ newH \in Seq(T \cup Hashes)
    BY <1>6, <1>8, SeqWider
  <2> QED BY <1>6, <1>12, <2>1, RootInjective
<1>13. ASSUME Counted, new = newH
       PROVE  (\A i \in 1..Len(st) : PeakKept(st[i], old[i], w[i], stack, new))
              <=> old = oldH /\ w = v
  <2>1. ASSUME NEW i \in 1..Len(st)
        PROVE  PeakKept(st[i], old[i], w[i], stack, new) <=> old[i] = oldH[i] /\ w[i] = v[i]
    <3>1. st[i] \in 0..(Len(nodes) - 1) /\ w[i] \in Seq(T)
      BY <1>3, <1>8, <1>13
    <3>2. PICK pos, hash, x : pos = st[i] /\ hash = old[i] /\ x = w[i]
      OBVIOUS
    <3>3. pos \in 0..(Len(nodes) - 1) /\ x \in Seq(T)
      BY <3>1, <3>2
    <3>4. PeakKept(pos, hash, x, stack, HashesAt(stack))
          <=> hash = Node(pos).hash /\ x = HashesAt(Siblings(pos))
      BY <3>3, PeakKeptOnly
    <3>5. new = HashesAt(stack) /\ oldH[i] = Node(pos).hash /\ v[i] = HashesAt(Siblings(pos))
      BY <1>5, <1>6, <1>7, <1>13, <3>2
    <3> QED BY <3>2, <3>4, <3>5
  <2>2. (\A i \in 1..Len(st) : old[i] = oldH[i] /\ w[i] = v[i]) => old = oldH /\ w = v
    <3> SUFFICES ASSUME \A i \in 1..Len(st) : old[i] = oldH[i] /\ w[i] = v[i]
                 PROVE  old = oldH /\ w = v
      OBVIOUS
    <3>1. old \in Seq(T \cup Hashes) /\ oldH \in Seq(T \cup Hashes)
      BY <1>6, <1>8, SeqWider
    <3>2. old = oldH
      BY <1>6, <1>13, <3>1, SeqEqual
    <3>3. w \in Seq(Seq(T) \cup Seq(Hashes)) /\ v \in Seq(Seq(T) \cup Seq(Hashes))
      BY <1>8, SeqWider
    <3>4. w = v
      BY <1>7, <1>13, <3>3, SeqEqual
    <3> QED BY <3>2, <3>4
  <2> QED BY <2>1, <2>2
<1>14. old = oldH /\ new = newH /\ w = v => Counted
  BY <1>6, <1>7
<1> QED BY <1>1, <1>8, <1>9, <1>11, <1>12, <1>13, <1>14

(* The candidates are proofs, of hashes, and claim the size with k leaves. *)
LEMMA ConsistencyCandidatesFacts ==
    ASSUME ShapeInv, ~MergePending, NEW k \in 0..Len(leaves),
           NEW proof \in ConsistencyCandidates(k)
    PROVE  proof \in ConsistencyProofs(Hashes) /\ proof.sizeA = SizeAt(k)
<1> DEFINE p == ConsistencyProof(k)
<1>2. p \in ConsistencyProofs(Hashes) /\ p.sizeA = SizeAt(k)
  BY ConsistencyProofFacts
<1>3. /\ p.oldPeaks \in Seq(Hashes) /\ p.newPeaks \in Seq(Hashes)
      /\ p.witness \in Seq(Seq(Hashes))
  BY <1>2 DEF ConsistencyProofs
<1>4. NearSeqs(p.oldPeaks) \subseteq Seq(Hashes) /\ NearSeqs(p.newPeaks) \subseteq Seq(Hashes)
  BY <1>3, NearFacts
<1>5. \/ proof = p
      \/ proof \in {[p EXCEPT !.oldPeaks = w] : w \in NearSeqs(p.oldPeaks)}
      \/ proof \in {[p EXCEPT !.newPeaks = w] : w \in NearSeqs(p.newPeaks)}
      \/ \E i \in DOMAIN p.witness :
           proof \in {[p EXCEPT !.witness[i] = w] : w \in NearSeqs(p.witness[i])}
  <2> DEFINE A == {[p EXCEPT !.oldPeaks = w] : w \in NearSeqs(p.oldPeaks)}
             B == {[p EXCEPT !.newPeaks = w] : w \in NearSeqs(p.newPeaks)}
             C(i) == {[p EXCEPT !.witness[i] = w] : w \in NearSeqs(p.witness[i])}
  <2>1. ConsistencyCandidates(k) = {p} \cup A \cup B \cup UNION {C(i) : i \in DOMAIN p.witness}
    BY DEF ConsistencyCandidates
  <2> HIDE DEF A, B, C, p
  <2>2. \/ proof = p \/ proof \in A \/ proof \in B
        \/ \E i \in DOMAIN p.witness : proof \in C(i)
    BY <2>1
  <2> QED BY <2>2, Zenon DEF A, B, C
<1> HIDE DEF p
<1>6. CASE proof = p
  BY <1>2, <1>6
<1>7. CASE proof \in {[p EXCEPT !.oldPeaks = w] : w \in NearSeqs(p.oldPeaks)}
  BY <1>2, <1>4, <1>7 DEF ConsistencyProofs
<1>8. CASE proof \in {[p EXCEPT !.newPeaks = w] : w \in NearSeqs(p.newPeaks)}
  BY <1>2, <1>4, <1>8 DEF ConsistencyProofs
<1>9. CASE \E i \in DOMAIN p.witness :
             proof \in {[p EXCEPT !.witness[i] = w] : w \in NearSeqs(p.witness[i])}
  <2>0. PICK i \in DOMAIN p.witness :
          proof \in {[p EXCEPT !.witness[i] = w] : w \in NearSeqs(p.witness[i])}
    BY <1>9
  <2>1. PICK w \in NearSeqs(p.witness[i]) : proof = [p EXCEPT !.witness[i] = w]
    BY <2>0
  <2>2. p.witness[i] \in Seq(Hashes)
    BY <1>3
  <2>3. w \in Seq(Hashes)
    BY <2>2, NearFacts
  <2>4. PICK ws : ws = [p.witness EXCEPT ![i] = w]
    OBVIOUS
  <2>5. ws \in Seq(Seq(Hashes))
    BY <1>3, <2>3, <2>4
  <2>6. proof = [p EXCEPT !.witness = ws]
    BY <2>1, <2>4
  <2> QED BY <1>2, <2>5, <2>6 DEF ConsistencyProofs
<1> QED BY <1>5, <1>6, <1>7, <1>8, <1>9

LEMMA ConsistencyHolds == ShapeInv => ConsistencyExact
<1> SUFFICES ASSUME ShapeInv, ~MergePending, NEW j \in 0..Len(leaves), NEW k \in 0..Len(leaves),
                    NEW proof \in ConsistencyCandidates(k)
             PROVE  VerifyConsistency(RootFromPeaks(proof.oldPeaks), SizeAt(j),
                                      StackRoot(Len(leaves)), Len(nodes), proof)
                    <=> /\ Len(nodes) < MaxMmrSize
                        /\ j = k
                        /\ proof = ConsistencyProof(k)
  BY DEF ConsistencyExact
<1>1. proof \in ConsistencyProofs(Hashes) /\ proof.sizeA = SizeAt(k)
  BY ConsistencyCandidatesFacts
<1>2. PICK rootA : rootA = RootFromPeaks(proof.oldPeaks)
  OBVIOUS
<1>3. VerifyConsistency(rootA, SizeAt(j), StackRoot(Len(leaves)), Len(nodes), proof)
      <=> /\ Len(nodes) < MaxMmrSize
          /\ rootA = StackRoot(j)
          /\ proof = ConsistencyProof(j)
  BY <1>1, ConsistencyOnly
<1>4. proof = ConsistencyProof(j) => j = k
  <2>1. ConsistencyProof(j).sizeA = SizeAt(j)
    BY ConsistencyProofFacts
  <2> QED BY <1>1, <2>1, SizesDiffer
<1>5. proof = ConsistencyProof(j) => rootA = StackRoot(j)
  <2>1. ConsistencyProof(j).oldPeaks = HashesAt(StackAt(j))
    BY ConsistencyProofFacts
  <2> QED BY <1>2, <2>1 DEF StackRoot
<1> QED BY <1>2, <1>3, <1>4, <1>5

-----------------------------------------------------------------------------
(* Sizes that a log never had                                              *)

LEMMA OffsetBehind ==
    ASSUME NEW h \in Nat, NEW s \in Seq(Nat), NEW t \in Seq(Nat), Len(t) = Len(s) + 1,
           t[1] = h, \A i \in 1..Len(s) : t[i + 1] = s[i]
    PROVE  \A i \in 0..Len(s) : Offset(t, i + 1) = MountainSize(h) + Offset(s, i)
<1> DEFINE Bad == {i \in 0..Len(s) : Offset(t, i + 1) # MountainSize(h) + Offset(s, i)}
<1> SUFFICES ASSUME Bad # {} PROVE FALSE
  OBVIOUS
<1>1. PICK i \in Bad : \A m \in Bad : i <= m
  <2>1. Bad \subseteq Nat
    OBVIOUS
  <2> HIDE DEF Bad
  <2> QED BY <2>1, LeastNat
<1>2. i \in 0..Len(s) /\ Offset(t, i + 1) # MountainSize(h) + Offset(s, i)
  OBVIOUS
<1>3. Len(s) \in Nat /\ MountainSize(h) \in Nat
  BY MountainFacts
<1>4. /\ Offset(t, 0) = 0 /\ Offset(s, 0) = 0
      /\ \A j \in 1..Len(t) : Offset(t, j) = Offset(t, j - 1) + MountainSize(t[j])
      /\ \A j \in 1..Len(s) : Offset(s, j) = Offset(s, j - 1) + MountainSize(s[j])
      /\ \A j \in 0..Len(s) : Offset(s, j) \in Nat
      /\ \A j \in 0..Len(t) : Offset(t, j) \in Nat
  BY OffsetFacts
<1>5. CASE i = 0
  <2>1. 1 \in 1..Len(t) /\ 1 - 1 = 0 /\ 0 + 1 = 1
    BY <1>3
  <2>2. Offset(t, 1) = 0 + MountainSize(h)
    BY <1>4, <2>1
  <2> QED BY <1>2, <1>3, <1>4, <1>5, <2>1, <2>2
<1>6. CASE i # 0
  <2> DEFINE j == i - 1
  <2>1. j \in 0..Len(s) /\ j + 1 = i /\ i \in 1..Len(s) /\ i + 1 \in 1..Len(t) /\ (i + 1) - 1 = i
    BY <1>2, <1>3, <1>6
  <2>2. Offset(t, j + 1) = MountainSize(h) + Offset(s, j)
    <3>1. ~(i <= j)
      BY <2>1
    <3>2. j \notin Bad
      BY <1>1, <3>1
    <3> QED BY <2>1, <3>2
  <2> HIDE DEF Bad, j
  <2>3. Offset(t, i + 1) = Offset(t, i) + MountainSize(s[i])
    <3>1. Offset(t, i + 1) = Offset(t, (i + 1) - 1) + MountainSize(t[i + 1])
      BY <1>4, <2>1
    <3> QED BY <2>1, <3>1
  <2>4. Offset(s, i) = Offset(s, j) + MountainSize(s[i])
    BY <1>4, <2>1 DEF j
  <2>5. MountainSize(s[i]) \in Nat /\ Offset(s, j) \in Nat
    <3>1. s[i] \in Nat
      BY <2>1, SMTT(20)
    <3> QED BY <1>4, <2>1, <3>1, MountainFacts
  <2>6. PICK a, b, c, d, x, y : /\ a = Offset(t, i + 1) /\ b = Offset(t, i)
                                /\ c = Offset(s, i) /\ d = Offset(s, j)
                                /\ x = MountainSize(s[i]) /\ y = MountainSize(h)
    OBVIOUS
  <2>7. a = b + x /\ b = y + d /\ c = d + x /\ x \in Nat /\ y \in Nat /\ d \in Nat
    BY <1>3, <2>1, <2>2, <2>3, <2>4, <2>5, <2>6
  <2>8. a = y + c
    BY <2>7
  <2> QED BY <1>2, <2>6, <2>8
<1> QED BY <1>5, <1>6

(* All nodes of a size are in its mountains.                               *)
LEMMA MountainsFill == \A n \in Nat : Offset(Mountains[n], Len(Mountains[n])) = n
<1> DEFINE Bad == {n \in Nat : Offset(Mountains[n], Len(Mountains[n])) # n}
<1> SUFFICES ASSUME Bad # {} PROVE FALSE
  OBVIOUS
<1>1. PICK n \in Bad : \A m \in Bad : n <= m
  <2>1. Bad \subseteq Nat
    OBVIOUS
  <2> HIDE DEF Bad
  <2> QED BY <2>1, LeastNat
<1>2. n \in Nat /\ Offset(Mountains[n], Len(Mountains[n])) # n
  OBVIOUS
<1>3. CASE n = 0
  <2>1. Mountains[0] = <<>> /\ <<>> \in Seq(Nat) /\ Len(<<>>) = 0
    BY MountainsExists
  <2>2. Offset(<<>>, 0) = 0
    BY <2>1, OffsetFacts
  <2> QED BY <1>2, <1>3, <2>1, <2>2
<1>4. CASE n # 0
  <2>1. PICK h, r, s, t : /\ h = Fitting(n) /\ r = Rest(n)
                          /\ s = Mountains[Rest(n)] /\ t = Mountains[n]
    OBVIOUS
  <2>2. h \in Nat /\ MountainSize(h) <= n /\ MountainSize(h) \in Nat /\ h < MountainSize(h)
    BY <1>2, <1>4, <2>1, FittingFacts, MountainFacts
  <2>3. r = n - MountainSize(h)
    BY <2>1 DEF Rest
  <2>4. r \in Nat /\ ~(n <= r)
    BY <1>2, <2>2, <2>3
  <2>5. Offset(s, Len(s)) = r
    <3>1. r \notin Bad
      BY <1>1, <2>4
    <3> QED BY <2>1, <2>4, <3>1
  <2>6. s \in Seq(Nat) /\ t = <<h>> \o s
    BY <1>2, <1>4, <2>1, <2>4, MountainsExists
  <2>7. /\ t \in Seq(Nat) /\ Len(t) = Len(s) + 1 /\ t[1] = h
        /\ \A i \in 1..Len(s) : t[i + 1] = s[i]
        /\ Len(s) \in 0..Len(s)
    BY <2>2, <2>6
  <2>8. Offset(t, Len(s) + 1) = MountainSize(h) + Offset(s, Len(s))
    BY <2>2, <2>6, <2>7, OffsetBehind
  <2>9. Offset(t, Len(t)) = n
    BY <1>2, <2>2, <2>3, <2>5, <2>7, <2>8
  <2> QED BY <1>2, <2>1, <2>9
<1> QED BY <1>3, <1>4

(* One more sets at most one bit more.                                     *)
LEMMA PopCountNext == \A n \in Nat : PopCount[n + 1] <= PopCount[n] + 1
<1> DEFINE Bad == {n \in Nat : ~(PopCount[n + 1] <= PopCount[n] + 1)}
<1> SUFFICES ASSUME Bad # {} PROVE FALSE
  OBVIOUS
<1>1. PICK n \in Bad : \A m \in Bad : n <= m
  <2>1. Bad \subseteq Nat
    OBVIOUS
  <2> HIDE DEF Bad
  <2> QED BY <2>1, LeastNat
<1>2. n \in Nat /\ ~(PopCount[n + 1] <= PopCount[n] + 1)
  OBVIOUS
<1>3. PICK q \in Nat : n = 2 * q \/ n = 2 * q + 1
  <2>1. n \div 2 \in Nat /\ (n = 2 * (n \div 2) \/ n = 2 * (n \div 2) + 1)
    BY <1>2
  <2> QED BY <2>1
<1>4. PopCount[q] \in Nat /\ PopCount[2 * q] = PopCount[q] /\ PopCount[2 * q + 1] = 1 + PopCount[q]
  BY PopCountExists
<1>5. CASE n = 2 * q
  BY <1>2, <1>4, <1>5
<1>6. CASE n = 2 * q + 1
  <2>1. PICK u : u = q + 1
    OBVIOUS
  <2>2. u \in Nat /\ n + 1 = 2 * u
    BY <1>6, <2>1
  <2>3. PopCount[n + 1] = PopCount[u] /\ PopCount[u] \in Nat
    BY <2>2, PopCountExists
  <2>4. PopCount[u] <= PopCount[q] + 1
    <3>1. ~(n <= q)
      BY <1>6
    <3>2. q \notin Bad
      BY <1>1, <3>1
    <3> QED BY <2>1, <3>2
  <2>5. PopCount[n] = 1 + PopCount[q]
    BY <1>4, <1>6
  <2> HIDE DEF Bad
  <2> QED BY <1>2, <1>4, <2>3, <2>4, <2>5
<1> QED BY <1>3, <1>5, <1>6

(* More leaves, more nodes.                                                *)
LEMMA CountsRise ==
    ASSUME NEW l \in Nat, NEW w \in Nat, l < w
    PROVE  NodeCount(l) < NodeCount(w) /\ NodeCount(l) \in Int /\ NodeCount(w) \in Int
<1>1. \A n \in Nat : NodeCount(n) \in Int /\ NodeCount(n) < NodeCount(n + 1)
  <2> SUFFICES ASSUME NEW n \in Nat
               PROVE  NodeCount(n) \in Int /\ NodeCount(n) < NodeCount(n + 1)
    OBVIOUS
  <2>1. PICK a, b : a = PopCount[n] /\ b = PopCount[n + 1]
    OBVIOUS
  <2>2. a \in Nat /\ b \in Nat /\ b <= a + 1
    <3>1. n + 1 \in Nat
      OBVIOUS
    <3> QED BY <2>1, <3>1, PopCountNext, PopCountExists
  <2>3. NodeCount(n) = 2 * n - a /\ NodeCount(n + 1) = 2 * (n + 1) - b
    BY <2>1 DEF NodeCount
  <2> QED BY <2>2, <2>3
<1> DEFINE Bad == {m \in Nat : l < m /\ ~(NodeCount(l) < NodeCount(m))}
<1>2. Bad = {}
  <2> SUFFICES ASSUME Bad # {} PROVE FALSE
    OBVIOUS
  <2>1. PICK m \in Bad : \A k \in Bad : m <= k
    <3>1. Bad \subseteq Nat
      OBVIOUS
    <3> HIDE DEF Bad
    <3> QED BY <3>1, LeastNat
  <2>2. m \in Nat /\ l < m /\ ~(NodeCount(l) < NodeCount(m))
    OBVIOUS
  <2>3. PICK k : k = m - 1
    OBVIOUS
  <2>4. k \in Nat /\ k + 1 = m /\ (k = l \/ l < k) /\ ~(m <= k)
    BY <2>2, <2>3
  <2>5. NodeCount(k) < NodeCount(m) /\ NodeCount(k) \in Int /\ NodeCount(m) \in Int
        /\ NodeCount(l) \in Int
    BY <1>1, <2>2, <2>4
  <2>6. k = l \/ NodeCount(l) < NodeCount(k)
    <3>1. k \notin Bad
      BY <2>1, <2>4
    <3> QED BY <2>4, <3>1
  <2> HIDE DEF Bad
  <2>7. PICK x, y, z : x = NodeCount(k) /\ y = NodeCount(m) /\ z = NodeCount(l)
    OBVIOUS
  <2> QED BY <2>2, <2>5, <2>6, <2>7
<1> QED BY <1>1, <1>2

(* A size the viewer does not refuse is one the log had.                   *)
LEMMA SizesOnly ==
    ASSUME ShapeInv, ~MergePending, NEW m \in Nat, m <= Len(nodes), ValidSize(m)
    PROVE  \E k \in 0..Len(leaves) : m = SizeAt(k)
<1>1. PICK hs : hs = Mountains[m]
  OBVIOUS
<1>2. hs \in Seq(Nat) /\ Falling(hs) /\ Offset(hs, Len(hs)) = m
  BY <1>1, MountainsExists, MountainsFill DEF ValidSize, Falling
<1>3. PICK w \in Nat : 2 * w = m + Len(hs) /\ PopCount[w] = Len(hs)
  BY <1>2, BitsAreMountains
<1>4. NodeCount(w) = m
  <2>1. Len(hs) \in Nat
    BY <1>2
  <2> QED BY <1>3, <2>1 DEF NodeCount
<1>5. w <= Len(leaves) /\ Len(leaves) \in Nat
  <2>1. Len(leaves) \in Nat /\ NodeCount(Len(leaves)) = Len(nodes)
    BY CountsAre DEF ShapeInv, MmrInv, LeavesInv
  <2>2. PICK l, n : l = Len(leaves) /\ n = Len(nodes)
    OBVIOUS
  <2>3. ASSUME l < w PROVE FALSE
    <3>1. n < m /\ n \in Int /\ m \in Int
      BY <1>4, <2>1, <2>2, <2>3, CountsRise
    <3> QED BY <2>2, <3>1
  <2> QED BY <2>1, <2>2, <2>3
<1>6. w \in 0..Len(leaves)
  BY <1>5
<1>7. SizeAt(w) = NodeCount(w)
  BY <1>6, SizeAtFacts
<1> QED BY <1>4, <1>6, <1>7

(* With all proofs of inclusion there could be, of hashes in T.            *)
InclusionExactFor(T, D) ==
    ~MergePending =>
        \A i \in Nat, d \in D : \A proof \in InclusionProofs(T) :
            VerifyInclusion(StackRoot(Len(leaves)), Len(nodes), i, d, proof)
            <=> /\ Len(nodes) < MaxMmrSize
                /\ i < Len(leaves)
                /\ d = leaves[i + 1]
                /\ proof = InclusionProof(i)

(* With all proofs of consistency, all old sizes and all old roots.        *)
ConsistencyExactFor(T, R) ==
    ~MergePending =>
        \A size \in Nat, rootA \in R : \A proof \in ConsistencyProofs(T) :
            VerifyConsistency(rootA, size, StackRoot(Len(leaves)), Len(nodes), proof)
            <=> /\ Len(nodes) < MaxMmrSize
                /\ \E k \in 0..Len(leaves) : /\ size = SizeAt(k)
                                             /\ rootA = StackRoot(k)
                                             /\ proof = ConsistencyProof(k)

-----------------------------------------------------------------------------
(* Theorems                                                                *)

(* Every variable has its type, a node comes after its children, and the   *)
(* peaks of the size are positions below it (offline_shell.html:515-533).  *)
THEOREM MmrTyped == Spec => []TypeOK
<1>1. MmrInv => TypeOK
  <2> SUFFICES ASSUME MmrInv PROVE TypeOK
    OBVIOUS
  <2>1. Peaks(Len(nodes)) = stack
    BY RidgeFacts DEF MmrInv
  <2>2. stack \in Seq(Nat) /\ \A i \in 1..Len(stack) : stack[i] \in 0..(Len(nodes) - 1)
    BY StackFacts
  <2>3. \A i \in DOMAIN stack : stack[i] \in 0..(Len(nodes) - 1)
    BY <2>2
  <2> QED BY <2>1, <2>3 DEF TypeOK, MmrInv, NodesInv, LeavesInv, PastInv
<1> QED BY <1>1, MmrAlways, PTL

(* Whatever the length of the log, the viewer reads off a size the peaks,  *)
(* heights, leaf count and leaf positions that the MMR of that size has,   *)
(* and refuses exactly the sizes it only passes through while it merges    *)
(* (offline_shell.html:483-549).                                           *)
THEOREM PositionsAlways == Spec => []PositionsMatch
BY PositionsHold, MmrAlways, PTL

(* A record is accepted at an index only if it is the record there, and    *)
(* only with the proof made for it (offline_shell.html:578-626).           *)
THEOREM InclusionAlways == Spec => []InclusionExact
BY InclusionHolds, ShapeAlways, PTL

(* An old root is accepted as a past of this log only if it is the root    *)
(* the log had at that size (offline_shell.html:629-685).                  *)
THEOREM ConsistencyAlways == Spec => []ConsistencyExact
BY ConsistencyHolds, ShapeAlways, PTL

(* Of all proofs that could be shown, of any hashes and for any index, the *)
(* viewer accepts those of the log's own records, and no other             *)
(* (offline_shell.html:578-626).                                           *)
THEOREM InclusionOfAnyProof ==
    ASSUME NEW CONSTANT T, NEW CONSTANT D
    PROVE  Spec => []InclusionExactFor(T, D)
<1>1. ShapeInv => InclusionExactFor(T, D)
  BY InclusionOnly DEF InclusionExactFor
<1> QED BY <1>1, ShapeAlways, PTL

(* Of all old sizes, roots and proofs that could be shown, the viewer      *)
(* accepts those that were the log's own (offline_shell.html:629-685).     *)
THEOREM ConsistencyOfAnyProof ==
    ASSUME NEW CONSTANT T, NEW CONSTANT R
    PROVE  Spec => []ConsistencyExactFor(T, R)
<1>1. ShapeInv => ConsistencyExactFor(T, R)
  <2> SUFFICES ASSUME ShapeInv, ~MergePending, NEW size \in Nat, NEW rootA \in R,
                      NEW proof \in ConsistencyProofs(T)
               PROVE  VerifyConsistency(rootA, size, StackRoot(Len(leaves)), Len(nodes), proof)
                      <=> /\ Len(nodes) < MaxMmrSize
                          /\ \E k \in 0..Len(leaves) : /\ size = SizeAt(k)
                                                       /\ rootA = StackRoot(k)
                                                       /\ proof = ConsistencyProof(k)
    BY DEF ConsistencyExactFor
  <2>1. ASSUME VerifyConsistency(rootA, size, StackRoot(Len(leaves)), Len(nodes), proof)
        PROVE  \E k \in 0..Len(leaves) : size = SizeAt(k)
    <3>1. size <= Len(nodes) /\ ValidSize(size)
      BY <2>1 DEF VerifyConsistency
    <3> QED BY <3>1, SizesOnly
  <2>2. ASSUME NEW k \in 0..Len(leaves), size = SizeAt(k)
        PROVE  VerifyConsistency(rootA, size, StackRoot(Len(leaves)), Len(nodes), proof)
               <=> /\ Len(nodes) < MaxMmrSize
                   /\ rootA = StackRoot(k)
                   /\ proof = ConsistencyProof(k)
    BY <2>2, ConsistencyOnly
  <2> QED BY <2>1, <2>2
<1> QED BY <1>1, ShapeAlways, PTL

=============================================================================
