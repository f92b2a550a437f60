-------------------------- MODULE DstTablesProofs --------------------------
(***************************************************************************)
(* What a DST frame says before its audio is whole when the audio starts,  *)
(* for every width of a field, limit of segments, number of channels and   *)
(* length of a frame, and whatever memory holds at first.                  *)
(*                                                                         *)
(* Powers of two, sums and the copy of a row are recursive functions of    *)
(* the model; that they are what their definitions say is proved first,    *)
(* from induction over sets of natural numbers.                            *)
(***************************************************************************)
EXTENDS DstFrame, NaturalsInduction, WellFoundedInduction, FiniteSetTheorems, TLAPS

(* Numbers: induction, recursive functions, powers of two, sums.              *)
LEMMA Smallest ==
    ASSUME NEW T \in SUBSET Nat, T # {}
    PROVE  \E n \in T : \A m \in T : n <= m
<1>1. \E m \in T : \A n \in T : <<n, m>> \notin OpToRel(<, Nat)
  BY NatLessThanWellFounded, WFMin
<1>2. \E m \in T : \A n \in T : ~(n < m)
  BY <1>1, Zenon DEF OpToRel
<1> QED
  BY <1>2

LEMMA Induction ==
    ASSUME NEW K, 0 \in K, \A n \in Nat : n \in K => n + 1 \in K
    PROVE  Nat \subseteq K
<1> DEFINE T == {n \in Nat : n \notin K}
<1> SUFFICES ASSUME T # {} PROVE FALSE
  OBVIOUS
<1>1. PICK n \in T : \A m \in T : n <= m
  <2> HIDE DEF T
  <2>1. T \in SUBSET Nat
    BY DEF T
  <2> QED BY <2>1, Smallest
<1>2. n # 0 /\ n \in Nat
  OBVIOUS
<1>3. n - 1 \in Nat /\ n - 1 \notin T
  BY <1>1, <1>2
<1>4. (n - 1) + 1 \in K
  BY <1>3
<1> QED
  BY <1>4, <1>2

(* A base and a step have a function that begins with the one and goes on by   *)
(* the other.                                                                 *)
Follows(g, base, step, n) ==
    g[0] = base /\ \A i \in 0 .. (n - 1) : g[i + 1] = step[i][g[i]]

GoesOn(g, base, step) ==
    g[0] = base /\ \A i \in Nat : g[i + 1] = step[i][g[i]]

LEMMA Recursion ==
    ASSUME NEW X, NEW base \in X, NEW step \in [Nat -> [X -> X]]
    PROVE  \E g \in [Nat -> X] : GoesOn(g, base, step)
<1> DEFINE G == {n \in Nat : \E g \in [0 .. n -> X] : Follows(g, base, step, n)}
<1>1. 0 \in G
  <2>1. [i \in 0 .. 0 |-> base] \in [0 .. 0 -> X]
    OBVIOUS
  <2>2. Follows([i \in 0 .. 0 |-> base], base, step, 0)
    BY DEF Follows
  <2> QED BY <2>1, <2>2
<1>2. ASSUME NEW n \in Nat, n \in G PROVE n + 1 \in G
  <2>1. PICK g \in [0 .. n -> X] : Follows(g, base, step, n)
    BY <1>2
  <2> DEFINE h == [i \in 0 .. (n + 1) |-> IF i <= n THEN g[i] ELSE step[n][g[n]]]
  <2>2. h \in [0 .. (n + 1) -> X]
    OBVIOUS
  <2>3. h[0] = base
    BY <2>1 DEF Follows
  <2>4. ASSUME NEW i \in 0 .. n PROVE h[i + 1] = step[i][h[i]]
    BY <2>1 DEF Follows
  <2>5. Follows(h, base, step, n + 1)
    <3> HIDE DEF h
    <3> QED BY <2>3, <2>4 DEF Follows
  <2> HIDE DEF h
  <2> QED BY <2>2, <2>5
<1>3. Nat \subseteq G
  <2> HIDE DEF G
  <2> QED BY <1>1, <1>2, Induction
<1> DEFINE h(n) == CHOOSE g \in [0 .. n -> X] : Follows(g, base, step, n)
<1>4. \A n \in Nat : h(n) \in [0 .. n -> X] /\ Follows(h(n), base, step, n)
  BY <1>3
<1> HIDE DEF G, h
<1>5. ASSUME NEW n \in Nat PROVE h(n + 1)[n] = h(n)[n]
  <2> DEFINE U == {i \in Nat : i <= n => h(n + 1)[i] = h(n)[i]}
  <2>1. 0 \in U
    BY <1>4 DEF Follows
  <2>2. ASSUME NEW i \in Nat, i \in U PROVE i + 1 \in U
    <3>1. CASE i + 1 <= n
      <4>1. i \in 0 .. (n - 1) /\ i \in 0 .. n /\ h(n + 1)[i] = h(n)[i]
        BY <2>2, <3>1
      <4>2. h(n + 1)[i + 1] = step[i][h(n + 1)[i]]
        BY <1>4, <4>1 DEF Follows
      <4>3. h(n)[i + 1] = step[i][h(n)[i]]
        BY <1>4, <4>1 DEF Follows
      <4> QED BY <4>1, <4>2, <4>3
    <3>2. CASE ~(i + 1 <= n)
      BY <3>2
    <3> QED BY <3>1, <3>2
  <2>3. Nat \subseteq U
    <3> HIDE DEF U
    <3> QED BY <2>1, <2>2, Induction
  <2> QED BY <2>3
<1> DEFINE r == [n \in Nat |-> h(n)[n]]
<1>6. r \in [Nat -> X]
  BY <1>4
<1>7. r[0] = base
  BY <1>4 DEF Follows
<1>8. ASSUME NEW n \in Nat PROVE r[n + 1] = step[n][r[n]]
  <2>1. h(n + 1)[n + 1] = step[n][h(n + 1)[n]]
    <3>1. n \in 0 .. ((n + 1) - 1) /\ n + 1 \in Nat
      OBVIOUS
    <3> QED BY <1>4, <3>1 DEF Follows
  <2> QED BY <2>1, <1>5
<1> QED
  BY <1>6, <1>7, <1>8 DEF GoesOn

-----------------------------------------------------------------------------
(* Powers of two.                                                             *)
LEMMA Pow2Is ==
    /\ Pow2[0] = 1
    /\ \A n \in Nat : Pow2[n + 1] = 2 * Pow2[n] /\ Pow2[n] \in Nat \ {0}
<1> DEFINE F(f) == [n \in Nat |-> IF n = 0 THEN 1 ELSE 2 * f[n - 1]]
           step == [n \in Nat |-> [x \in Nat |-> 2 * x]]
<1>1. step \in [Nat -> [Nat -> Nat]]
  OBVIOUS
<1>2. PICK g \in [Nat -> Nat] : GoesOn(g, 1, step)
  BY <1>1, 1 \in Nat, Recursion
<1>3. ASSUME NEW n \in Nat PROVE F(g)[n] = g[n]
  <2>1. CASE n = 0
    BY <2>1, <1>2 DEF GoesOn
  <2>2. CASE n # 0
    <3>1. n - 1 \in Nat /\ (n - 1) + 1 = n
      BY <2>2
    <3>2. g[n] = step[n - 1][g[n - 1]]
      BY <3>1, <1>2 DEF GoesOn
    <3> QED BY <3>1, <3>2, <2>2
  <2> QED BY <2>1, <2>2
<1>4. g = F(g)
  BY <1>3
<1>5. Pow2 = F(Pow2)
  BY <1>4 DEF Pow2
<1> HIDE DEF F
<1>6. \A n \in Nat : Pow2[n] = IF n = 0 THEN 1 ELSE 2 * Pow2[n - 1]
  BY <1>5 DEF F
<1>7. Pow2[0] = 1 /\ \A n \in Nat : Pow2[n + 1] = 2 * Pow2[n]
  BY <1>6
<1> DEFINE K == {n \in Nat : Pow2[n] \in Nat \ {0}}
<1>8. Nat \subseteq K
  <2>1. 0 \in K
    BY <1>7
  <2>2. ASSUME NEW n \in Nat, n \in K PROVE n + 1 \in K
    BY <2>2, <1>7
  <2> HIDE DEF K
  <2> QED BY <2>1, <2>2, Induction
<1> QED
  BY <1>7, <1>8

LEMMA Pow2Plus ==
    ASSUME NEW m \in Nat, NEW n \in Nat
    PROVE  Pow2[m + n] = Pow2[m] * Pow2[n]
<1> DEFINE K == {k \in Nat : Pow2[m + k] = Pow2[m] * Pow2[k]}
<1>1. 0 \in K
  BY Pow2Is
<1>2. ASSUME NEW k \in Nat, k \in K PROVE k + 1 \in K
  <2>1. Pow2[m + (k + 1)] = 2 * Pow2[m + k] /\ Pow2[k + 1] = 2 * Pow2[k]
    <3>1. m + (k + 1) = (m + k) + 1 /\ m + k \in Nat
      OBVIOUS
    <3> QED BY <3>1, Pow2Is
  <2>2. Pow2[m] \in Nat /\ Pow2[k] \in Nat
    BY Pow2Is
  <2>3. Pow2[m + k] = Pow2[m] * Pow2[k]
    BY <1>2
  <2> DEFINE a == Pow2[m]
             b == Pow2[k]
  <2>4. 2 * (a * b) = a * (2 * b)
    <3> HIDE DEF a, b
    <3> QED BY <2>2 DEF a, b
  <2> QED BY <2>1, <2>3, <2>4
<1> QED
  <2> HIDE DEF K
  <2>1. Nat \subseteq K
    BY <1>1, <1>2, Induction
  <2> QED BY <2>1 DEF K

LEMMA Pow2Above ==
    ASSUME NEW n \in Nat
    PROVE  n < Pow2[n]
<1> DEFINE K == {k \in Nat : k < Pow2[k]}
<1>1. 0 \in K
  BY Pow2Is
<1>2. ASSUME NEW k \in Nat, k \in K PROVE k + 1 \in K
  BY <1>2, Pow2Is
<1> QED
  <2> HIDE DEF K
  <2>1. Nat \subseteq K
    BY <1>1, <1>2, Induction
  <2> QED BY <2>1 DEF K

LEMMA Log2IsNat ==
    ASSUME NEW x \in Nat
    PROVE  Log2RoundUp(x) \in Nat
<1> DEFINE T == {y \in 0 .. x : Pow2[y] > x}
<1>1. x \in T
  BY Pow2Above, Pow2Is
<1>2. PICK y \in T : \A z \in T : y <= z
  <2>1. T \in SUBSET Nat /\ T # {}
    BY <1>1
  <2> HIDE DEF T
  <2> QED BY <2>1, Smallest
<1>3. \A z \in 0 .. (y - 1) : Pow2[z] <= x
  BY <1>2, Pow2Is
<1>4. \E q \in 0 .. x : Pow2[q] > x /\ \A z \in 0 .. (q - 1) : Pow2[z] <= x
  BY <1>2, <1>3
<1>5. Log2RoundUp(x) \in 0 .. x
  BY <1>4 DEF Log2RoundUp
<1> QED
  BY <1>5

-----------------------------------------------------------------------------
(* Sums.                                                                      *)
LEMMA SumIs ==
    ASSUME NEW n \in Nat, NEW f, \A i \in 0 .. (n - 1) : f[i] \in Int
    PROVE  /\ Sum(0, f) = 0
           /\ \A k \in 0 .. n : Sum(k, f) \in Int
           /\ \A k \in 0 .. (n - 1) : Sum(k + 1, f) = Sum(k, f) + f[k]
<1> DEFINE step == [i \in Nat |-> [x \in Int |-> IF i < n THEN x + f[i] ELSE x]]
<1>1. step \in [Nat -> [Int -> Int]]
  OBVIOUS
<1>2. PICK g \in [Nat -> Int] : GoesOn(g, 0, step)
  BY <1>1, 0 \in Int, Recursion
<1>3. ASSUME NEW k \in 0 .. n PROVE Sum(k, f) = g[k]
  <2> DEFINE F(s) == [i \in 0 .. k |-> IF i = 0 THEN 0 ELSE s[i - 1] + f[i - 1]]
             r == [i \in 0 .. k |-> g[i]]
             s == CHOOSE t : t = F(t)
  <2>1. ASSUME NEW i \in 0 .. k PROVE F(r)[i] = r[i]
    <3>1. CASE i = 0
      BY <1>2, <3>1 DEF GoesOn
    <3>2. CASE i # 0
      <4>1. i - 1 \in 0 .. k /\ i - 1 \in Nat /\ i - 1 < n /\ (i - 1) + 1 = i
        BY <3>2
      <4>2. g[i] = step[i - 1][g[i - 1]]
        BY <1>2, <4>1 DEF GoesOn
      <4> QED BY <3>2, <4>1, <4>2
    <3> QED BY <3>1, <3>2
  <2>2. r = F(r)
    BY <2>1
  <2>3. s = F(s)
    <3> HIDE DEF F
    <3> QED BY <2>2
  <2>4. Sum(k, f) = s[k]
    BY DEF Sum
  <2> DEFINE K == {i \in Nat : i <= k => s[i] = g[i]}
  <2>5. 0 \in K
    <3> HIDE DEF s
    <3>1. s[0] = 0
      BY <2>3
    <3> QED BY <3>1, <1>2 DEF GoesOn
  <2>6. ASSUME NEW i \in Nat, i \in K PROVE i + 1 \in K
    <3> SUFFICES ASSUME i + 1 <= k PROVE s[i + 1] = g[i + 1]
      OBVIOUS
    <3>1. s[i] = g[i] /\ i < n
      BY <2>6
    <3>2. g[i + 1] = step[i][g[i]]
      BY <1>2 DEF GoesOn
    <3>3. s[i + 1] = s[i] + f[i]
      <4> HIDE DEF s
      <4>1. i + 1 \in 0 .. k /\ i + 1 # 0 /\ (i + 1) - 1 = i
        OBVIOUS
      <4>2. F(s)[i + 1] = s[(i + 1) - 1] + f[(i + 1) - 1]
        BY <4>1
      <4> QED BY <2>3, <4>1, <4>2
    <3> HIDE DEF s
    <3> QED BY <3>1, <3>2, <3>3
  <2>7. Nat \subseteq K
    <3> HIDE DEF K
    <3> QED BY <2>5, <2>6, Induction
  <2>8. s[k] = g[k]
    <3> HIDE DEF s
    <3> QED BY <2>7
  <2> QED BY <2>4, <2>8
<1>4. ASSUME NEW k \in 0 .. (n - 1) PROVE g[k + 1] = g[k] + f[k]
  <2>1. k \in Nat /\ k < n /\ g[k] \in Int
    OBVIOUS
  <2>2. g[k + 1] = step[k][g[k]]
    BY <1>2, <2>1 DEF GoesOn
  <2>3. step[k][g[k]] = g[k] + f[k]
    BY <2>1
  <2> QED BY <2>2, <2>3
<1> HIDE DEF step
<1>5. g[0] = 0
  BY <1>2 DEF GoesOn
<1> QED
  BY <1>3, <1>4, <1>5

LEMMA SumSame ==
    ASSUME NEW n \in Nat, NEW f, NEW g,
           \A i \in 0 .. (n - 1) : f[i] \in Int /\ g[i] = f[i]
    PROVE  Sum(n, f) = Sum(n, g)
<1> DEFINE K == {k \in Nat : k <= n => Sum(k, f) = Sum(k, g)}
<1>1. 0 \in K
  BY SumIs
<1>2. ASSUME NEW k \in Nat, k \in K PROVE k + 1 \in K
  <2> SUFFICES ASSUME k + 1 <= n PROVE Sum(k + 1, f) = Sum(k + 1, g)
    OBVIOUS
  <2>1. k \in 0 .. (n - 1) /\ Sum(k, f) = Sum(k, g)
    BY <1>2
  <2>2. Sum(k + 1, f) = Sum(k, f) + f[k]
    BY <2>1, SumIs
  <2>3. Sum(k + 1, g) = Sum(k, g) + g[k]
    <3>1. \A i \in 0 .. (n - 1) : g[i] \in Int
      OBVIOUS
    <3> QED BY <2>1, <3>1, SumIs
  <2> QED BY <2>1, <2>2, <2>3
<1> QED
  <2> HIDE DEF K
  <2>1. Nat \subseteq K
    BY <1>1, <1>2, Induction
  <2> QED BY <2>1 DEF K

LEMMA SumBetween ==
    ASSUME NEW n \in Nat, NEW f, NEW a \in Int, NEW b \in Int,
           \A i \in 0 .. (n - 1) : f[i] \in Int /\ a <= f[i] /\ f[i] <= b
    PROVE  Sum(n, f) \in Int /\ n * a <= Sum(n, f) /\ Sum(n, f) <= n * b
<1> DEFINE K == {k \in Nat : k <= n => k * a <= Sum(k, f) /\ Sum(k, f) <= k * b}
<1>1. 0 \in K
  BY SumIs
<1>2. ASSUME NEW k \in Nat, k \in K PROVE k + 1 \in K
  <2> SUFFICES ASSUME k + 1 <= n
               PROVE  (k + 1) * a <= Sum(k + 1, f) /\ Sum(k + 1, f) <= (k + 1) * b
    OBVIOUS
  <2>1. k \in 0 .. (n - 1) /\ k * a <= Sum(k, f) /\ Sum(k, f) <= k * b
    BY <1>2
  <2>2. Sum(k + 1, f) = Sum(k, f) + f[k] /\ Sum(k, f) \in Int
    BY <2>1, SumIs
  <2>3. (k + 1) * a = k * a + a /\ (k + 1) * b = k * b + b
    OBVIOUS
  <2>4. k * a \in Int /\ k * b \in Int
    OBVIOUS
  <2> QED BY <2>1, <2>2, <2>3, <2>4
<1> QED
  <2> HIDE DEF K
  <2>1. Nat \subseteq K
    BY <1>1, <1>2, Induction
  <2>2. Sum(n, f) \in Int
    BY SumIs
  <2> QED BY <2>1, <2>2 DEF K

LEMMA SumSplit ==
    ASSUME NEW m \in Nat, NEW n \in Nat, NEW f, NEW g,
           \A i \in 0 .. (m + n - 1) : f[i] \in Int,
           \A i \in 0 .. (n - 1) : g[i] = f[m + i]
    PROVE  Sum(m + n, f) = Sum(m, f) + Sum(n, g)
<1> DEFINE K == {k \in Nat : k <= n => Sum(m + k, f) = Sum(m, f) + Sum(k, g)}
<1>1. m + n \in Nat /\ \A i \in 0 .. (n - 1) : g[i] \in Int
  <2>1. ASSUME NEW i \in 0 .. (n - 1) PROVE g[i] \in Int
    <3>1. m + i \in 0 .. (m + n - 1)
      OBVIOUS
    <3> QED BY <3>1
  <2> QED BY <2>1
<1>2. 0 \in K
  <2>1. Sum(0, g) = 0
    BY <1>1, SumIs
  <2>2. Sum(m, f) \in Int
    BY <1>1, SumIs
  <2> QED BY <2>1, <2>2
<1>3. ASSUME NEW k \in Nat, k \in K PROVE k + 1 \in K
  <2> SUFFICES ASSUME k + 1 <= n
               PROVE  Sum(m + (k + 1), f) = Sum(m, f) + Sum(k + 1, g)
    OBVIOUS
  <2>1. k \in 0 .. (n - 1) /\ Sum(m + k, f) = Sum(m, f) + Sum(k, g)
    BY <1>3
  <2>2. m + k \in 0 .. (m + n - 1) /\ m + (k + 1) = (m + k) + 1
    BY <2>1
  <2>3. Sum((m + k) + 1, f) = Sum(m + k, f) + f[m + k]
    BY <1>1, <2>2, SumIs
  <2>4. Sum(k + 1, g) = Sum(k, g) + g[k] /\ Sum(k, g) \in Int
    BY <1>1, <2>1, SumIs
  <2>5. Sum(m, f) \in Int /\ g[k] \in Int
    BY <1>1, <2>1, SumIs
  <2>6. g[k] = f[m + k]
    BY <2>1
  <2> QED BY <2>1, <2>2, <2>3, <2>4, <2>5, <2>6
<1> QED
  <2> HIDE DEF K
  <2>1. Nat \subseteq K
    BY <1>2, <1>3, Induction
  <2> QED BY <2>1 DEF K
-----------------------------------------------------------------------------
(* Quotients, and the places of a table of rows.                              *)
LEMMA DivMod ==
    ASSUME NEW m \in Int, NEW n \in Nat \ {0}
    PROVE  m \div n \in Int /\ m % n \in 0 .. (n - 1) /\ m = (m \div n) * n + (m % n)
  OBVIOUS

LEMMA Apart ==
    ASSUME NEW n \in Nat \ {0}, NEW c \in Int, NEW d \in Int, NEW s \in 0 .. (n - 1), NEW u \in 0 .. (n - 1),
           c * n + s = d * n + u
    PROVE  c = d /\ s = u
<1>1. ASSUME NEW a \in Int, NEW b \in Int, NEW t \in 0 .. (n - 1), NEW v \in 0 .. (n - 1), a < b
      PROVE a * n + t < b * n + v
  <2>1. b - a - 1 \in Nat
    BY <1>1
  <2>2. (b - a - 1) * n >= 0
    BY <2>1
  <2>3. (b - a - 1) * n = b * n - a * n - n
    OBVIOUS
  <2>4. a * n \in Int /\ b * n \in Int
    OBVIOUS
  <2> QED BY <2>2, <2>3, <2>4
<1> QED
  BY <1>1

LEMMA DivIs ==
    ASSUME NEW n \in Nat \ {0}, NEW c \in Int, NEW s \in 0 .. (n - 1)
    PROVE  (c * n + s) \div n = c /\ (c * n + s) % n = s
<1> DEFINE m == c * n + s
<1>1. m \in Int
  OBVIOUS
<1>2. m \div n \in Int /\ m % n \in 0 .. (n - 1) /\ m = (m \div n) * n + (m % n)
  BY <1>1, DivMod
<1> QED
  <2>1. \A q, r \in Int : r \in 0 .. (n - 1) /\ m = q * n + r => q = c /\ r = s
    BY Apart
  <2> HIDE DEF m
  <2> QED BY <1>1, <1>2, <2>1 DEF m

Shaped == FH.NrOfChannels \in 1 .. MAX_CHANNELS
Seats  == 0 .. MAXNROF_SEGS

LEMMA Constants ==
    /\ RESOL \in Nat /\ RESOL > 0 /\ MAX_CHANNELS \in Nat /\ MAX_CHANNELS > 1
    /\ MAXNROF_SEGS \in Nat /\ MAXNROF_SEGS > 0 /\ MaxSegs("F") < MAXNROF_SEGS
    /\ MaxFrameLen \in Nat /\ MaxFrameLen > 0
    /\ SIZE_PREDCOEF \in Nat /\ SIZE_PREDCOEF > 0 /\ AC_BITS \in Nat /\ AC_BITS > 0
    /\ SIZE_CODEDPREDORDER \in Nat /\ AC_HISBITS \in Nat
    /\ \A t \in Kinds : /\ MaxSegs(t) \in 1 .. MAXNROF_SEGS
                        /\ MinLen(t) \in 1 .. (MaxFrameLen * RESOL)
<1>1. MAXNROF_FSEGS \in Nat /\ MAXNROF_FSEGS > 0 /\ MAXNROF_PSEGS \in Nat /\ MAXNROF_PSEGS > 0
  BY TableConstants
<1>2. MAXNROF_FSEGS <= MAXNROF_PSEGS /\ MAXNROF_PSEGS <= MAXNROF_SEGS /\ MAXNROF_SEGS \in Nat
  BY TableConstants
<1>3. \A t \in Kinds : MaxSegs(t) \in 1 .. MAXNROF_SEGS
  BY <1>1, <1>2 DEF Kinds, MaxSegs
<1>4. \A t \in Kinds : MinLen(t) \in 1 .. (MaxFrameLen * RESOL)
  BY TableConstants DEF Kinds, MinLen
<1>5. MaxSegs("F") < MAXNROF_SEGS
  BY TableConstants DEF MaxSegs
<1> QED
  BY <1>3, <1>4, <1>5, TableConstants

LEMMA PlaceOf ==
    /\ \A ch \in 0 .. (MAX_CHANNELS - 1), s \in Seats : At(ch, s) \in Places
    /\ \A c, d \in Nat, s, u \in 0 .. (MAXNROF_SEGS - 1) :
         At(c, s) = At(d, u) => c = d /\ s = u
<1>2. ASSUME NEW ch \in 0 .. (MAX_CHANNELS - 1), NEW s \in Seats PROVE At(ch, s) \in Places
  <2> DEFINE M == MAXNROF_SEGS
             N == MAX_CHANNELS
  <2>1. M \in Nat /\ M > 0 /\ N \in Nat /\ s \in 0 .. M /\ ch \in 0 .. (N - 1)
    BY <1>2, Constants DEF Seats
  <2>2. ch * M + s \in 0 .. ((N - 1) * M + M)
    <3> HIDE DEF M, N
    <3>1. N - 1 - ch \in Nat
      BY <2>1
    <3>2. (N - 1 - ch) * M >= 0
      BY <2>1, <3>1
    <3>3. (N - 1 - ch) * M = (N - 1) * M - ch * M
      BY <2>1
    <3>4. ch * M >= 0 /\ ch * M \in Int /\ (N - 1) * M \in Int
      BY <2>1
    <3> QED BY <2>1, <3>2, <3>3, <3>4
  <2> QED BY <2>2 DEF Places, Behind, At
<1>3. \A c, d \in Nat, s, u \in 0 .. (MAXNROF_SEGS - 1) :
        At(c, s) = At(d, u) => c = d /\ s = u
  <2>1. MAXNROF_SEGS \in Nat \ {0}
    BY Constants
  <2> QED BY <2>1, Apart DEF At
<1> QED
  BY <1>2, <1>3

LEMMA PlaceIs ==
    ASSUME Shaped
    PROVE  /\ \A ch \in Channels, s \in Seats : At(ch, s) \in Places
           /\ \A c, d \in Nat, s, u \in 0 .. (MAXNROF_SEGS - 1) :
                At(c, s) = At(d, u) => c = d /\ s = u
           /\ Channels \subseteq 0 .. (MAX_CHANNELS - 1)
<1>1. Channels \subseteq 0 .. (MAX_CHANNELS - 1)
  BY Constants DEF Channels, Shaped
<1> QED
  BY <1>1, PlaceOf

LEMMA PlaceZero == 0 \in Places /\ At(0, 0) = 0
<1>1. MAXNROF_SEGS \in Nat /\ MAXNROF_SEGS > 0 /\ MAX_CHANNELS - 1 \in Nat
  BY Constants
<1>2. (MAX_CHANNELS - 1) * MAXNROF_SEGS \in Nat
  BY <1>1
<1>3. Behind \in Nat
  BY <1>1, <1>2 DEF At, Behind
<1>4. 0 \in Places
  BY <1>3 DEF Places
<1>5. At(0, 0) = 0
  BY <1>1 DEF At
<1> QED
  BY <1>4, <1>5

(* The row of channel 0 is copied, place by place: what is in the others is   *)
(* from it, and equals it as far as a row goes.  The place after a row is the *)
(* first of the next, so what the last channel has there is the first of them.*)
LEMMA CopyRowIs ==
    ASSUME Shaped, NEW row \in [Places -> Int], NEW count \in 1 .. (MAXNROF_SEGS + 1)
    PROVE  /\ CopyRow(row, count) \in [Places -> Int]
           /\ \A ch \in Channels, j \in 0 .. (count - 1) :
                \E i \in 0 .. (count - 1) : CopyRow(row, count)[At(ch, j)] = row[At(0, i)]
           /\ \A ch \in Channels, j \in 0 .. (count - 1) :
                j < MAXNROF_SEGS => CopyRow(row, count)[At(ch, j)] = row[At(0, j)]
           /\ count = MAXNROF_SEGS + 1 /\ FH.NrOfChannels > 1 =>
                CopyRow(row, count)[At(FH.NrOfChannels - 1, MAXNROF_SEGS)] = row[At(0, 0)]
<1> DEFINE X == [Places -> Int]
           To(k) == At(k \div count + 1, k % count)
           From(k) == At(0, k % count)
           step == [k \in Nat |-> [r \in X |-> [r EXCEPT ![To(k)] = r[From(k)]]]]
           n == (FH.NrOfChannels - 1) * count
<1>1. /\ count \in Nat \ {0} /\ FH.NrOfChannels \in Nat \ {0} /\ n \in Nat
      /\ 0 \in Channels /\ 0 .. (count - 1) \subseteq Seats
      /\ \A ch \in Channels, s \in 0 .. (count - 1) : At(ch, s) \in Places
  <2>1. count \in Nat \ {0} /\ FH.NrOfChannels - 1 \in Nat
    BY Constants DEF Shaped
  <2>2. n \in Nat
    BY <2>1
  <2>3. 0 \in Channels /\ 0 .. (count - 1) \subseteq Seats
    BY <2>1, Constants DEF Channels, Seats, Shaped
  <2>4. \A ch \in Channels, s \in 0 .. (count - 1) : At(ch, s) \in Places
    BY <2>3, PlaceIs
  <2>5. FH.NrOfChannels \in Nat \ {0}
    BY Constants DEF Shaped
  <2> HIDE DEF n
  <2> QED BY <2>1, <2>2, <2>3, <2>4, <2>5
<1>2. \A k \in Nat : /\ k \div count \in Nat /\ k % count \in 0 .. (count - 1)
                    /\ k = (k \div count) * count + (k % count)
  <2> TAKE k \in Nat
  <2>1. k \div count \in Nat
    BY <1>1
  <2>2. k \in Int /\ count \in Nat \ {0}
    BY <1>1
  <2>3. k % count \in 0 .. (count - 1)
    BY <2>2, DivMod
  <2>4. k = (k \div count) * count + (k % count)
    BY <2>2, DivMod
  <2> QED BY <2>1, <2>3, <2>4
<1>3. \A k \in Nat : From(k) \in Places
  BY <1>1, <1>2
<1>4. step \in [Nat -> [X -> X]]
  <2> HIDE DEF To, From
  <2> QED BY <1>3
<1>5. PICK g \in [Nat -> X] : GoesOn(g, row, step)
  <2> HIDE DEF X, step
  <2>1. row \in X
    BY DEF X
  <2> QED BY <1>4, <2>1, Recursion
<1>6. g[0] = row
  BY <1>5 DEF GoesOn
<1>7. ASSUME NEW k \in Nat
      PROVE  /\ g[k] \in X /\ g[k + 1] = [g[k] EXCEPT ![To(k)] = g[k][From(k)]]
  <2> HIDE DEF To, From
  <2>1. g[k + 1] = step[k][g[k]]
    BY <1>5 DEF GoesOn
  <2> QED BY <2>1
<1>8. CopyRow(row, count) = g[n]
  <2> DEFINE F(c) == [k \in 0 .. n |-> IF k = 0 THEN row
                                       ELSE [c[k - 1] EXCEPT ![To(k - 1)] = c[k - 1][From(k - 1)]]]
             c == CHOOSE q : q = F(q)
             r == [k \in 0 .. n |-> g[k]]
  <2>1. ASSUME NEW k \in 0 .. n PROVE F(r)[k] = r[k]
    <3> HIDE DEF To, From
    <3>1. CASE k = 0
      BY <3>1, <1>6
    <3>2. CASE k # 0
      <4>1. k - 1 \in Nat /\ k - 1 \in 0 .. n /\ (k - 1) + 1 = k
        BY <3>2, <1>1
      <4>2. g[k] = [g[k - 1] EXCEPT ![To(k - 1)] = g[k - 1][From(k - 1)]]
        BY <4>1, <1>7
      <4> QED BY <3>2, <4>1, <4>2
    <3> QED BY <3>1, <3>2
  <2>2. r = F(r)
    <3> HIDE DEF To, From, n
    <3> QED BY <2>1
  <2>3. c = F(c)
    <3> HIDE DEF F, r
    <3> QED BY <2>2
  <2>4. CopyRow(row, count) = c[n]
    BY DEF CopyRow
  <2> DEFINE K == {k \in Nat : k <= n => c[k] = g[k]}
  <2>5. 0 \in K
    <3> HIDE DEF c, n
    <3>1. c[0] = row
      BY <2>3, <1>1
    <3> QED BY <3>1, <1>6
  <2>6. ASSUME NEW k \in Nat, k \in K PROVE k + 1 \in K
    <3> SUFFICES ASSUME k + 1 <= n PROVE c[k + 1] = g[k + 1]
      OBVIOUS
    <3> HIDE DEF c, n, To, From
    <3>1. c[k] = g[k]
      BY <2>6, <1>1
    <3>2. k + 1 \in 0 .. n /\ k + 1 # 0 /\ (k + 1) - 1 = k
      BY <1>1
    <3>3. F(c)[k + 1] = [c[k] EXCEPT ![To(k)] = c[k][From(k)]]
      BY <3>2
    <3> QED BY <3>1, <3>2, <3>3, <2>3, <1>7
  <2>7. Nat \subseteq K
    <3> HIDE DEF K
    <3> QED BY <2>5, <2>6, Induction
  <2> HIDE DEF c, n
  <2> QED BY <2>4, <2>7, <1>1
<1>9. ASSUME NEW k \in Nat, k < n
      PROVE  /\ To(k) \in Places
             /\ k \div count + 1 \in Channels \ {0}
             /\ \A j \in 0 .. (MAXNROF_SEGS - 1) : At(0, j) # To(k)
             /\ \A ch \in Channels \ {0}, j \in 0 .. (MAXNROF_SEGS - 1) :
                  At(ch, j) = To(k) => \/ (ch - 1) * count + j = k
                                      \/ (ch - 1) * count + j > k
  <2> DEFINE q == k \div count
             s == k % count
             M == MAXNROF_SEGS
  <2>0. q \in Nat /\ s \in 0 .. (count - 1) /\ k = q * count + s
    BY <1>2
  <2>1. /\ q \in Nat /\ s \in 0 .. (count - 1) /\ k = q * count + s
        /\ M \in Nat \ {0} /\ s \in 0 .. M
    <3> HIDE DEF q, s
    <3>1. M \in Nat \ {0} /\ count \in 1 .. (M + 1)
      BY Constants
    <3> QED BY <2>0, <3>1
  <2>2. q < FH.NrOfChannels - 1
    <3> SUFFICES ASSUME q >= FH.NrOfChannels - 1 PROVE FALSE
      BY <2>1, <1>1
    <3> DEFINE N == FH.NrOfChannels - 1
    <3>1. N \in Nat /\ q - N \in Nat /\ count \in Nat
      BY <2>1, <1>1
    <3> HIDE DEF q, s, N
    <3>2. (q - N) * count >= 0 /\ (q - N) * count = q * count - N * count
      BY <3>1, <2>1
    <3>3. q * count >= N * count
      <4>1. q * count \in Int /\ N * count \in Int
        BY <3>1, <2>1
      <4> QED BY <3>2, <4>1
    <3>4. k < N * count
      BY <1>9 DEF N
    <3>5. q * count \in Int /\ N * count \in Int
      BY <3>1, <2>1
    <3> QED BY <3>3, <3>4, <3>5, <2>1
  <2>3. q + 1 \in Channels \ {0}
    BY <2>1, <2>2, <1>1 DEF Channels
  <2> HIDE DEF q, s
  <2>4. At(q + 1, s) \in Places
    BY <2>1, <2>3, <1>1
  <2>5. s = M => At(q + 1, s) = At(q + 2, 0)
    <3>1. (q + 1) * M + M = (q + 2) * M + 0
      BY <2>1
    <3> QED BY <3>1 DEF At
  <2>6. \A c, d \in Nat, t, u \in 0 .. (M - 1) : At(c, t) = At(d, u) => c = d /\ t = u
    BY PlaceIs
  <2>7. \A j \in 0 .. (M - 1) : At(0, j) # At(q + 1, s)
    <3> TAKE j \in 0 .. (M - 1)
    <3>1. CASE s < M
      <4>1. s \in 0 .. (M - 1) /\ q + 1 \in Nat /\ q + 1 # 0
        BY <3>1, <2>1
      <4> QED BY <4>1, <2>6
    <3>2. CASE s = M
      <4>1. 0 \in 0 .. (M - 1) /\ q + 2 \in Nat /\ q + 2 # 0
        BY <2>1
      <4> QED BY <3>2, <4>1, <2>5, <2>6
    <3> QED BY <3>1, <3>2, <2>1
  <2>8. ASSUME NEW ch \in Channels \ {0}, NEW j \in 0 .. (M - 1), At(ch, j) = At(q + 1, s)
        PROVE  (ch - 1) * count + j = k \/ (ch - 1) * count + j > k
    <3>0. ch \in Nat
      BY <1>1 DEF Channels
    <3>1. CASE s < M
      <4>1. s \in 0 .. (M - 1) /\ q + 1 \in Nat
        BY <3>1, <2>1
      <4>2. ch = q + 1 /\ j = s
        BY <4>1, <3>0, <2>6, <2>8
      <4>3. ch - 1 = q
        BY <4>2, <2>1
      <4> QED BY <4>2, <4>3, <2>1
    <3>2. CASE s = M
      <4>1. 0 \in 0 .. (M - 1) /\ q + 2 \in Nat
        BY <2>1
      <4>2. ch = q + 2 /\ j = 0
        BY <3>2, <4>1, <3>0, <2>5, <2>6, <2>8
      <4>3. ch - 1 = q + 1
        BY <4>2, <2>1
      <4>4. (q + 1) * count = q * count + count /\ q * count \in Nat /\ count \in Nat
        BY <2>1, <1>1
      <4> QED BY <4>2, <4>3, <4>4, <2>1
    <3> QED BY <3>1, <3>2, <2>1
  <2> QED BY <2>3, <2>4, <2>7, <2>8 DEF q, s
<1> DEFINE V == {row[At(0, i)] : i \in 0 .. (count - 1)}
           Taken(k) == /\ \A j \in 0 .. (count - 1) : g[k][At(0, j)] \in V
                       /\ \A m \in 0 .. (k - 1) : g[k][To(m)] \in V
           Same(k) == /\ \A j \in 0 .. (count - 1) : j < MAXNROF_SEGS => g[k][At(0, j)] = row[At(0, j)]
                      /\ \A ch \in Channels \ {0}, j \in 0 .. (count - 1) :
                           j < MAXNROF_SEGS /\ (ch - 1) * count + j < k => g[k][At(ch, j)] = row[At(0, j)]
<1>10. n \in Nat /\ (n <= n => Taken(n))
  <2> DEFINE K == {k \in Nat : k <= n => Taken(k)}
  <2>1. 0 \in K
    BY <1>6
  <2>2. ASSUME NEW k \in Nat, k \in K PROVE k + 1 \in K
    <3> HIDE DEF Taken, n
    <3> SUFFICES ASSUME k + 1 <= n PROVE Taken(k + 1)
      OBVIOUS
    <3>1. k < n /\ Taken(k)
      BY <2>2, <1>1
    <3> USE DEF Taken
    <3>2. g[k + 1] = [g[k] EXCEPT ![To(k)] = g[k][From(k)]] /\ g[k] \in X
      BY <1>7
    <3>3. To(k) \in Places
      BY <1>9, <3>1
    <3>4. g[k][From(k)] \in V
      <4> HIDE DEF V
      <4> QED BY <3>1, <1>2
    <3>5. \A p \in Places : g[k][p] \in V => g[k + 1][p] \in V
      <4> HIDE DEF To, From, V
      <4> QED BY <3>2, <3>4
    <3>6. g[k + 1][To(k)] \in V
      <4> HIDE DEF To, From, V
      <4> QED BY <3>2, <3>3, <3>4
    <3>7. \A j \in 0 .. (count - 1) : g[k + 1][At(0, j)] \in V
      <4> HIDE DEF V, To
      <4> QED BY <3>1, <3>5, <1>1
    <3>8. \A m \in 0 .. k : g[k + 1][To(m)] \in V
      <4> TAKE m \in 0 .. k
      <4>1. CASE m = k
        BY <4>1, <3>6
      <4>2. CASE m # k
        <5>1. m \in 0 .. (k - 1) /\ m \in Nat /\ m < n
          BY <4>2, <3>1, <1>1
        <5>2. To(m) \in Places
          BY <5>1, <1>9
        <5> HIDE DEF V, To
        <5> QED BY <5>1, <5>2, <3>1, <3>5
      <4> QED BY <4>1, <4>2
    <3> HIDE DEF V, To
    <3> QED BY <3>7, <3>8
  <2>3. Nat \subseteq K
    <3> HIDE DEF K
    <3> QED BY <2>1, <2>2, Induction
  <2> HIDE DEF Taken
  <2> QED BY <2>3, <1>1
<1>11. \A k \in Nat : k <= n => Same(k)
  <2> DEFINE K == {k \in Nat : k <= n => Same(k)}
  <2>1. 0 \in K
    <3>1. ASSUME NEW ch \in Channels \ {0}, NEW j \in 0 .. (count - 1)
          PROVE  ~((ch - 1) * count + j < 0)
      <4>1. ch - 1 \in Nat /\ count \in Nat
        BY <1>1 DEF Channels
      <4>2. (ch - 1) * count \in Nat
        BY <4>1
      <4> QED BY <4>2
    <3> QED BY <1>6, <3>1
  <2>2. ASSUME NEW k \in Nat, k \in K PROVE k + 1 \in K
    <3> HIDE DEF Same, n
    <3> SUFFICES ASSUME k + 1 <= n PROVE Same(k + 1)
      OBVIOUS
    <3>1. k < n /\ Same(k)
      BY <2>2, <1>1
    <3> USE DEF Same
    <3>2. g[k + 1] = [g[k] EXCEPT ![To(k)] = g[k][From(k)]] /\ g[k] \in X
      BY <1>7
    <3>3. To(k) \in Places
      BY <1>9, <3>1
    <3>4. \A p \in Places : p # To(k) => g[k + 1][p] = g[k][p]
      <4> HIDE DEF To, From
      <4> QED BY <3>2
    <3>5. g[k + 1][To(k)] = g[k][From(k)]
      <4> HIDE DEF To, From
      <4> QED BY <3>2, <3>3
    <3>6. ASSUME NEW j \in 0 .. (count - 1), j < MAXNROF_SEGS
          PROVE  g[k + 1][At(0, j)] = row[At(0, j)]
      <4>1. At(0, j) # To(k) /\ At(0, j) \in Places
        <5>1. j \in 0 .. (MAXNROF_SEGS - 1)
          BY <3>6, <1>1, Constants
        <5> QED BY <5>1, <1>1, <1>9, <3>1
      <4> HIDE DEF To
      <4> QED BY <4>1, <3>1, <3>4, <3>6
    <3>7. ASSUME NEW ch \in Channels \ {0}, NEW j \in 0 .. (count - 1),
                 j < MAXNROF_SEGS, (ch - 1) * count + j < k + 1
          PROVE  g[k + 1][At(ch, j)] = row[At(0, j)]
      <4>1. At(ch, j) \in Places /\ j \in 0 .. (MAXNROF_SEGS - 1) /\ (ch - 1) * count + j \in Int
        <5>1. ch - 1 \in Int /\ count \in Int
          BY <1>1 DEF Channels
        <5> QED BY <5>1, <3>7, <1>1, Constants
      <4>2. CASE (ch - 1) * count + j = k
        <5>1. k \div count = ch - 1 /\ k % count = j
          <6>1. ch - 1 \in Int
            BY DEF Channels, Shaped
          <6> QED BY <6>1, <4>2, <1>1, DivIs
        <5>2. To(k) = At(ch, j) /\ From(k) = At(0, j)
          <6>1. (ch - 1) + 1 = ch
            BY DEF Channels, Shaped
          <6> QED BY <5>1, <6>1
        <5> HIDE DEF To, From
        <5> QED BY <5>2, <3>5, <3>1, <3>7
      <4>3. CASE (ch - 1) * count + j # k
        <5> DEFINE x == (ch - 1) * count + j
        <5>1. x < k
          <6>1. x \in Int /\ x # k /\ x < k + 1
            BY <4>1, <4>3, <3>7
          <6> HIDE DEF x
          <6> QED BY <6>1
        <5>2. At(ch, j) # To(k)
          <6>1. At(ch, j) = To(k) => x = k \/ x > k
            BY <4>1, <1>9, <3>1
          <6>2. x \in Int
            BY <4>1
          <6> HIDE DEF x, To
          <6> QED BY <6>1, <6>2, <5>1
        <5>3. g[k][At(ch, j)] = row[At(0, j)]
          BY <5>1, <3>1, <3>7
        <5> HIDE DEF To
        <5> QED BY <5>2, <5>3, <4>1, <3>4
      <4> QED BY <4>2, <4>3
    <3> HIDE DEF To
    <3> QED BY <3>6, <3>7
  <2>3. Nat \subseteq K
    <3> HIDE DEF K
    <3> QED BY <2>1, <2>2, Induction
  <2> HIDE DEF Same, n
  <2> QED BY <2>3
<1>16. Same(n)
  <2> HIDE DEF Same, n
  <2> QED BY <1>1, <1>11
<1>12. CopyRow(row, count) \in [Places -> Int]
  BY <1>1, <1>7, <1>8
<1>13. ASSUME NEW ch \in Channels, NEW j \in 0 .. (count - 1)
       PROVE  ch # 0 => /\ (ch - 1) * count + j \in 0 .. (n - 1)
                        /\ To((ch - 1) * count + j) = At(ch, j)
  <2> SUFFICES ASSUME ch # 0
               PROVE  /\ (ch - 1) * count + j \in 0 .. (n - 1)
                      /\ To((ch - 1) * count + j) = At(ch, j)
    OBVIOUS
  <2> DEFINE d == ch - 1
             N == FH.NrOfChannels - 1
  <2>1. d \in Nat /\ d < N /\ N \in Nat /\ d + 1 = ch
    BY <1>1 DEF Channels
  <2> HIDE DEF d, N
  <2>2. (N - d - 1) * count >= 0 /\ (N - d - 1) * count = N * count - d * count - count
    <3>1. N - d - 1 \in Nat
      BY <2>1
    <3> QED BY <2>1, <3>1, <1>1
  <2>3. d * count \in Nat /\ N * count \in Nat
    BY <2>1, <1>1
  <2>4. d * count + j \in 0 .. (N * count - 1)
    BY <2>2, <2>3, <1>1
  <2>5. (d * count + j) \div count = d /\ (d * count + j) % count = j
    <3>1. d \in Int /\ count \in Nat \ {0} /\ j \in 0 .. (count - 1)
      BY <2>1, <1>1
    <3> QED BY <3>1, DivIs
  <2> QED BY <2>1, <2>4, <2>5 DEF d, N
<1>14. ASSUME NEW ch \in Channels, NEW j \in 0 .. (count - 1)
       PROVE  CopyRow(row, count)[At(ch, j)] \in V
  <2>1. CASE ch = 0
    <3> HIDE DEF V, n, To
    <3> QED BY <2>1, <1>8, <1>10, <1>1
  <2>2. CASE ch # 0
    <3> HIDE DEF V, n, To
    <3> QED BY <2>2, <1>8, <1>10, <1>13, <1>1
  <2> QED BY <2>1, <2>2
<1>15. ASSUME NEW ch \in Channels, NEW j \in 0 .. (count - 1), j < MAXNROF_SEGS
       PROVE  CopyRow(row, count)[At(ch, j)] = row[At(0, j)]
  <2>1. CASE ch = 0
    <3> HIDE DEF n
    <3> QED BY <2>1, <1>8, <1>16, <1>1, <1>15
  <2>2. CASE ch # 0
    <3>1. (ch - 1) * count + j < n /\ ch \in Channels \ {0}
      <4> HIDE DEF n
      <4> QED BY <2>2, <1>1, <1>13
    <3> HIDE DEF n
    <3> QED BY <3>1, <1>8, <1>16, <1>1, <1>15
  <2> QED BY <2>1, <2>2
<1>17. ASSUME count = MAXNROF_SEGS + 1, FH.NrOfChannels > 1
       PROVE  CopyRow(row, count)[At(FH.NrOfChannels - 1, MAXNROF_SEGS)] = row[At(0, 0)]
  <2> DEFINE ch == FH.NrOfChannels - 1
             M == MAXNROF_SEGS
             k == (ch - 1) * count + M
  <2>1. /\ M \in Nat \ {0} /\ ch \in Channels \ {0} /\ 1 \in Channels \ {0} /\ ch - 1 \in Nat
        /\ ch \in Nat /\ M \in 0 .. (count - 1)
    BY <1>1, <1>17, Constants DEF Channels
  <2>2. k + 1 = n /\ k \in Nat /\ k > 0
    <3>1. (ch - 1) * count \in Nat
      BY <2>1, <1>1
    <3>2. n = (ch - 1) * count + count
      BY <2>1, <1>1
    <3> QED BY <3>1, <3>2, <2>1, <1>17
  <2>3. k \div count = ch - 1 /\ k % count = M
    <3>1. ch - 1 \in Int
      BY <2>1
    <3> HIDE DEF ch, M
    <3> QED BY <3>1, <2>1, <1>1, DivIs
  <2>4. To(k) = At(ch, M) /\ From(k) = At(0, M)
    <3> HIDE DEF k, ch
    <3>1. (ch - 1) + 1 = ch
      BY <2>1
    <3> QED BY <2>3, <3>1
  <2>5. At(0, M) = At(1, 0)
    BY <2>1 DEF At
  <2> HIDE DEF k, ch, n
  <2>6. g[k][At(1, 0)] = row[At(0, 0)]
    <3>1. Same(k)
      <4> HIDE DEF Same
      <4> QED BY <2>2, <1>1, <1>11
    <3>2. 0 \in 0 .. (count - 1) /\ 0 < MAXNROF_SEGS /\ (1 - 1) * count + 0 = 0
      BY <2>1, <1>1
    <3> QED BY <3>1, <3>2, <2>1, <2>2
  <2>7. To(k) \in Places
    <3>1. k < n
      BY <2>2
    <3> HIDE DEF To
    <3> QED BY <3>1, <2>2, <1>9
  <2>8. g[k + 1][To(k)] = g[k][From(k)]
    <3> HIDE DEF To, From
    <3> QED BY <2>2, <2>7, <1>7
  <2>9. CopyRow(row, count)[At(ch, M)] = row[At(0, 0)]
    <3> HIDE DEF To, From
    <3> QED BY <2>2, <2>4, <2>5, <2>6, <2>8, <1>8
  <2> QED BY <2>9 DEF ch
<1> QED
  BY <1>12, <1>14, <1>15, <1>17

-----------------------------------------------------------------------------
(* The invariant of the tables that are read.  Memory holds anything at first *)
(* and the tables of a frame are written over those of the frame before, so   *)
(* nothing is known of a place but that it was written in this frame.  What   *)
(* has been read up to here is said by what is read next and by the loop      *)
(* variables: see Unpacked.                                                   *)
Tables      == 0 .. (2 * MAX_CHANNELS - 1)
AllChannels == 0 .. (MAX_CHANNELS - 1)
SegRecords  == [Resolution : Int, SegmentLen : [Places -> Int],
                NrOfSegments : [AllChannels -> Int], Table4Segment : [Places -> Int]]
Rows(t) == [0 .. (MaxEntries(t) - 1) -> Int]
Headers ==
  {h \in [NrOfChannels : 1 .. MAX_CHANNELS, DSTCoded : Int, PSameSegAsF : Int, PSameMapAsF : Int,
          Seg : [Kinds -> SegRecords], SameSegAllCh : [Kinds -> Int], SameMapAllCh : [Kinds -> Int],
          NrOfTables : [Kinds -> Int], Len : [Kinds -> [Tables -> Int]],
          Entry : [Kinds -> [Tables -> Rows("F") \cup Rows("P")]],
          HalfProb : [AllChannels -> Int], NrOfHalfBits : [AllChannels -> Int]] :
     \A t \in Kinds : h.Entry[t] \in [Tables -> Rows(t)]}
Chans(h) == 0 .. (h.NrOfChannels - 1)

(* How the channels are cut: the segments before the last one end before the  *)
(* channel does.  A channel may have one more than a row has places for.      *)
Lengths(h, t, ch, n) == [j \in 0 .. (n - 1) |-> h.Seg[t].Resolution * RESOL * h.Seg[t].SegmentLen[At(ch, j)]]
Ends(h, t, ch, n) == Sum(n, Lengths(h, t, ch, n))
SegmentsOK(h, t, ch) ==
  /\ h.Seg[t].NrOfSegments[ch] \in 1 .. (MAXNROF_SEGS + 1)
  /\ Ends(h, t, ch, h.Seg[t].NrOfSegments[ch] - 1) < NrOfBitsPerCh
Cut(h, t) == \A ch \in Chans(h) : SegmentsOK(h, t, ch)

(* Which tables the segments use: those that are counted.                     *)
Uses(h, t, n) == \A ch \in Chans(h) : \A s \in 0 .. (h.Seg[t].NrOfSegments[ch] - 1) :
                    h.Seg[t].Table4Segment[At(ch, s)] \in 0 .. (n - 1)
Mapped(h, t) == h.NrOfTables[t] \in 1 .. (2 * h.NrOfChannels) /\ Uses(h, t, h.NrOfTables[t])

(* What the tables hold: numbers of the range that the next step relies on,   *)
(* as far as the table's length.                                              *)
Numbers(t) == IF t = "F" THEN Coefficients ELSE Probabilities
EntriesOK(h, t, n, k) == \A i \in 0 .. (k - 1) : h.Entry[t][n][i] \in Numbers(t)
TableOK(h, t, n) == h.Len[t][n] \in 1 .. MaxEntries(t) /\ EntriesOK(h, t, n, h.Len[t][n])
Given(h, t) == \A n \in 0 .. (h.NrOfTables[t] - 1) : TableOK(h, t, n)

SegPcs == {"SameSegAllCh", "EndOfChannel", "Resolution", "SegmentLen"}
MapPcs == {"SameMapAllCh", "Table4Segment"}
TablePcs == {"Len", "Coded", "BestMethod", "entry", "RiceM", "rice"}
Pcs == {"DSTCoded", "stuffing", "plain", "PSameSegAsF", "PSameMapAsF", "HalfProb", "AData", "decode",
        "answer", "done", "overrun"} \cup SegPcs \cup MapPcs \cup TablePcs

(* While the channels are cut: the bits that the loop has counted are those   *)
(* of the segments read, and the room left is the rest of the channel.  Each  *)
(* segment read leaves room for one more, and the first one has some length.  *)
SoFar(h, t, ch, n) ==
  /\ \A m \in 0 .. n : Ends(h, t, ch, m) <= NrOfBitsPerCh - MinLen(t)
  /\ n > 0 => h.Seg[t].SegmentLen[At(ch, 0)] > 0
SegCur(h) == [t : Kinds, ChNr : Chans(h), SegNr : Nat, DefinedBits : Nat, MaxSegSize : Int, ResolRead : {0, 1}]
Cutting(h, c, p) ==
  /\ c \in SegCur(h) /\ c.SegNr <= MaxSegs(c.t)
  /\ c.t = "P" => Cut(h, "F")
  /\ p = "SameSegAllCh" => c = StartSegments(c.t)
  /\ p \in {"Resolution", "SegmentLen"} => c.SegNr < MaxSegs(c.t)
  /\ p = "Resolution" => c.ResolRead = 0
  /\ p = "SegmentLen" => c.ResolRead = 1
  /\ p # "SameSegAllCh" /\ h.SameSegAllCh[c.t] = 1 => c.ChNr = 0
  /\ \A ch \in 0 .. (c.ChNr - 1) : /\ SegmentsOK(h, c.t, ch)
                                   /\ c.ResolRead = 0 => h.Seg[c.t].NrOfSegments[ch] = 1
  /\ c.ResolRead = 0 => c.SegNr = 0
  /\ c.ResolRead = 1 => h.Seg[c.t].Resolution > 0
  /\ c.DefinedBits = Ends(h, c.t, c.ChNr, c.SegNr)
  /\ c.DefinedBits <= NrOfBitsPerCh - MinLen(c.t)
  /\ SoFar(h, c.t, c.ChNr, c.SegNr)
  /\ RESOL * c.MaxSegSize + c.DefinedBits = RESOL * Room(c.t)

(* While segments are given tables: each place before this one names one of   *)
(* the tables counted so far.                                                 *)
MapCur(h) == [t : Kinds, ChNr : Chans(h), SegNr : Nat, CountTables : Nat \ {0}]
Before(c, ch, s) == ch < c.ChNr \/ (ch = c.ChNr /\ s < c.SegNr)
Mapping(h, c, p) ==
  /\ c \in MapCur(h)
  /\ \A t \in Kinds : Cut(h, t)
  /\ c.t = "P" => Mapped(h, "F")
  /\ p = "SameMapAllCh" => c = StartMapping(c.t) /\ h.Seg[c.t].Table4Segment[0] = 0
  /\ p = "Table4Segment" =>
       /\ h.SameMapAllCh[c.t] = 1 => c.ChNr = 0
       /\ c.SegNr < h.Seg[c.t].NrOfSegments[c.ChNr]
       /\ \A ch \in Chans(h) : \A s \in 0 .. (h.Seg[c.t].NrOfSegments[ch] - 1) :
            Before(c, ch, s) => h.Seg[c.t].Table4Segment[At(ch, s)] \in 0 .. (c.CountTables - 1)

(* While tables are read: those before this one, and this one's first entries.*)
TableCur == [t : Kinds, Nr : Nat, EntryNr : Nat, raw : Int, method : Int, m : Nat]
Reading(h, c, p) ==
  /\ c \in TableCur
  /\ \A t \in Kinds : Cut(h, t) /\ Mapped(h, t)
  /\ c.t = "P" => Given(h, "F")
  /\ c.Nr < h.NrOfTables[c.t]
  /\ \A n \in 0 .. (c.Nr - 1) : TableOK(h, c.t, n)
  /\ p # "Len" => /\ h.Len[c.t][c.Nr] \in 1 .. MaxEntries(c.t)
                  /\ c.EntryNr < h.Len[c.t][c.Nr]
                  /\ EntriesOK(h, c.t, c.Nr, c.EntryNr)
  /\ p \in {"Len", "Coded", "BestMethod"} => c.EntryNr = 0

(* What a header h has when p is read next with loop variables c.             *)
Unpacked(h, c, p) ==
  /\ h \in Headers /\ p \in Pcs
  /\ p \in SegPcs => Cutting(h, c, p)
  /\ p = "PSameMapAsF" => \A t \in Kinds : Cut(h, t)
  /\ p \in MapPcs => Mapping(h, c, p)
  /\ p = "HalfProb" => /\ \A t \in Kinds : Cut(h, t) /\ Mapped(h, t)
                       /\ c \in [ChNr : Chans(h)]
  /\ p \in TablePcs => Reading(h, c, p)
  /\ p \in {"AData", "decode"} => \A t \in Kinds : Cut(h, t) /\ Mapped(h, t) /\ Given(h, t)

TablesInv ==
  /\ Unpacked(FH, cur, pc)
  /\ SD \in [pos : Int, total : Int] /\ err \in Errors

-----------------------------------------------------------------------------
LEMMA HeaderIs ==
    ASSUME NEW h \in Headers
    PROVE  /\ h.NrOfChannels \in Nat /\ h.NrOfChannels >= 1 /\ h.NrOfChannels <= MAX_CHANNELS
           /\ Chans(h) \subseteq Nat /\ Chans(h) \subseteq AllChannels
           /\ Chans(h) \subseteq 0 .. (MAX_CHANNELS - 1) /\ 0 \in Chans(h)
           /\ h.Seg \in [Kinds -> SegRecords]
           /\ \A t \in Kinds : /\ h.Seg[t] \in SegRecords
                               /\ h.Seg[t].Resolution \in Int
                               /\ h.Seg[t].SegmentLen \in [Places -> Int]
                               /\ h.Seg[t].NrOfSegments \in [AllChannels -> Int]
                               /\ h.Seg[t].Table4Segment \in [Places -> Int]
                               /\ h.NrOfTables[t] \in Int
                               /\ h.Len[t] \in [Tables -> Int]
                               /\ h.Entry[t] \in [Tables -> Rows(t)]
<1>1. h.NrOfChannels \in 1 .. MAX_CHANNELS /\ MAX_CHANNELS \in Nat
  BY Constants DEF Headers
<1>2. /\ Chans(h) \subseteq Nat /\ Chans(h) \subseteq AllChannels
      /\ Chans(h) \subseteq 0 .. (MAX_CHANNELS - 1) /\ 0 \in Chans(h)
  BY <1>1 DEF Chans, AllChannels
<1>3. h.Seg \in [Kinds -> SegRecords]
  BY DEF Headers
<1>4. ASSUME NEW t \in Kinds
      PROVE  /\ h.Seg[t] \in SegRecords
             /\ h.NrOfTables[t] \in Int
             /\ h.Len[t] \in [Tables -> Int]
             /\ h.Entry[t] \in [Tables -> Rows(t)]
  BY DEF Headers
<1>5. ASSUME NEW t \in Kinds
      PROVE  /\ h.Seg[t].Resolution \in Int
             /\ h.Seg[t].SegmentLen \in [Places -> Int]
             /\ h.Seg[t].NrOfSegments \in [AllChannels -> Int]
             /\ h.Seg[t].Table4Segment \in [Places -> Int]
  BY <1>4 DEF SegRecords
<1> QED
  BY <1>1, <1>2, <1>3, <1>4, <1>5

LEMMA LengthsAre ==
    ASSUME NEW h \in Headers, NEW t \in Kinds, NEW ch \in Chans(h), NEW n \in 0 .. (MAXNROF_SEGS + 1)
    PROVE  \A j \in 0 .. (n - 1) :
             /\ At(ch, j) \in Places
             /\ Lengths(h, t, ch, n)[j] = h.Seg[t].Resolution * RESOL * h.Seg[t].SegmentLen[At(ch, j)]
             /\ Lengths(h, t, ch, n)[j] \in Int
<1> TAKE j \in 0 .. (n - 1)
<1>1. ch \in 0 .. (MAX_CHANNELS - 1) /\ j \in Seats
  BY HeaderIs, Constants DEF Seats
<1>2. At(ch, j) \in Places
  BY <1>1, PlaceOf
<1>3. h.Seg[t].SegmentLen[At(ch, j)] \in Int /\ h.Seg[t].Resolution \in Int /\ RESOL \in Int
  BY <1>2, HeaderIs, Constants
<1>4. Lengths(h, t, ch, n)[j] = h.Seg[t].Resolution * RESOL * h.Seg[t].SegmentLen[At(ch, j)]
  BY DEF Lengths
<1> DEFINE a == h.Seg[t].Resolution
           b == h.Seg[t].SegmentLen[At(ch, j)]
<1>5. a * RESOL * b \in Int
  <2> HIDE DEF a, b
  <2> QED BY <1>3 DEF a, b
<1> QED
  BY <1>2, <1>4, <1>5

LEMMA EndsAre ==
    ASSUME NEW h \in Headers, NEW t \in Kinds, NEW ch \in Chans(h), NEW n \in 0 .. (MAXNROF_SEGS + 1)
    PROVE  /\ Ends(h, t, ch, 0) = 0
           /\ Ends(h, t, ch, n) \in Int
           /\ n <= MAXNROF_SEGS =>
                Ends(h, t, ch, n + 1)
                  = Ends(h, t, ch, n) + h.Seg[t].Resolution * RESOL * h.Seg[t].SegmentLen[At(ch, n)]
<1>0. MAXNROF_SEGS \in Nat
  BY Constants
<1>1. Ends(h, t, ch, 0) = 0
  <2>1. \A i \in 0 .. (0 - 1) : Lengths(h, t, ch, 0)[i] \in Int
    OBVIOUS
  <2> QED BY <2>1, SumIs DEF Ends
<1>2. Ends(h, t, ch, n) \in Int
  <2>1. \A i \in 0 .. (n - 1) : Lengths(h, t, ch, n)[i] \in Int
    BY LengthsAre
  <2>2. n \in Nat /\ n \in 0 .. n
    BY <1>0
  <2> QED BY <2>1, <2>2, SumIs DEF Ends
<1>3. ASSUME n <= MAXNROF_SEGS
      PROVE  Ends(h, t, ch, n + 1)
                  = Ends(h, t, ch, n) + h.Seg[t].Resolution * RESOL * h.Seg[t].SegmentLen[At(ch, n)]
  <2> DEFINE f == Lengths(h, t, ch, n)
             g == Lengths(h, t, ch, n + 1)
  <2>1. n \in Nat /\ n + 1 \in 0 .. (MAXNROF_SEGS + 1) /\ n \in 0 .. ((n + 1) - 1)
    BY <1>0, <1>3
  <2>2. \A j \in 0 .. ((n + 1) - 1) :
          /\ g[j] = h.Seg[t].Resolution * RESOL * h.Seg[t].SegmentLen[At(ch, j)]
          /\ g[j] \in Int
    BY <2>1, LengthsAre
  <2>3. \A j \in 0 .. (n - 1) : /\ f[j] = h.Seg[t].Resolution * RESOL * h.Seg[t].SegmentLen[At(ch, j)]
                                /\ f[j] \in Int
    BY LengthsAre
  <2>4. \A j \in 0 .. (n - 1) : f[j] \in Int /\ g[j] = f[j]
    <3> HIDE DEF f, g
    <3> QED BY <2>1, <2>2, <2>3
  <2> HIDE DEF f, g
  <2>5. Sum(n, f) = Sum(n, g)
    BY <2>1, <2>4, SumSame
  <2>6. Sum(n + 1, g) = Sum(n, g) + g[n]
    <3>1. n + 1 \in Nat /\ \A j \in 0 .. ((n + 1) - 1) : g[j] \in Int
      BY <2>1, <2>2
    <3> QED BY <3>1, <2>1, SumIs
  <2>7. g[n] = h.Seg[t].Resolution * RESOL * h.Seg[t].SegmentLen[At(ch, n)]
    BY <2>1, <2>2
  <2> QED BY <2>5, <2>6, <2>7 DEF Ends, f, g
<1> QED
  BY <1>1, <1>2, <1>3

(* Where segments end depends on the lengths before and the resolution.       *)
LEMMA EndsSame ==
    ASSUME NEW h \in Headers, NEW g \in Headers, NEW t \in Kinds, NEW u \in Kinds,
           NEW ch \in Chans(h), NEW d \in Chans(g), NEW n \in 0 .. (MAXNROF_SEGS + 1),
           n = 0 \/ h.Seg[t].Resolution = g.Seg[u].Resolution,
           \A j \in 0 .. (n - 1) : h.Seg[t].SegmentLen[At(ch, j)] = g.Seg[u].SegmentLen[At(d, j)]
    PROVE  Ends(g, u, d, n) = Ends(h, t, ch, n)
<1> DEFINE f == Lengths(h, t, ch, n)
           e == Lengths(g, u, d, n)
<1>0. n \in Nat
  BY Constants
<1>1. CASE n = 0
  BY <1>1, <1>0, EndsAre
<1>2. CASE n # 0
  <2>1. \A j \in 0 .. (n - 1) : f[j] \in Int /\ f[j] = h.Seg[t].Resolution * RESOL * h.Seg[t].SegmentLen[At(ch, j)]
    BY LengthsAre
  <2>2. \A j \in 0 .. (n - 1) : e[j] = g.Seg[u].Resolution * RESOL * g.Seg[u].SegmentLen[At(d, j)]
    BY LengthsAre
  <2>3. \A j \in 0 .. (n - 1) : f[j] \in Int /\ e[j] = f[j]
    <3> HIDE DEF f, e
    <3> QED BY <2>1, <2>2, <1>2
  <2> HIDE DEF f, e
  <2>4. Sum(n, f) = Sum(n, e)
    BY <1>0, <2>3, SumSame
  <2> QED BY <2>4 DEF Ends, f, e
<1> QED
  BY <1>1, <1>2

-----------------------------------------------------------------------------
LEMMA SegmentsFrom ==
    ASSUME NEW h \in Headers, NEW g \in Headers, NEW t \in Kinds, NEW u \in Kinds,
           NEW ch \in Chans(h), NEW d \in Chans(g), SegmentsOK(h, t, ch),
           g.Seg[u].NrOfSegments[d] = h.Seg[t].NrOfSegments[ch],
           h.Seg[t].NrOfSegments[ch] = 1 \/ h.Seg[t].Resolution = g.Seg[u].Resolution,
           \A j \in 0 .. (h.Seg[t].NrOfSegments[ch] - 2) :
             h.Seg[t].SegmentLen[At(ch, j)] = g.Seg[u].SegmentLen[At(d, j)]
    PROVE  SegmentsOK(g, u, d)
<1> DEFINE n == h.Seg[t].NrOfSegments[ch]
<1>1. n \in 1 .. (MAXNROF_SEGS + 1) /\ MAXNROF_SEGS \in Nat
  BY Constants DEF SegmentsOK
<1> DEFINE m == n - 1
<1>2. m \in 0 .. (MAXNROF_SEGS + 1) /\ m - 1 = n - 2 /\ (n = 1 => m = 0)
  BY <1>1
<1>3. Ends(g, u, d, m) = Ends(h, t, ch, m)
  <2>1. \A j \in 0 .. (m - 1) : h.Seg[t].SegmentLen[At(ch, j)] = g.Seg[u].SegmentLen[At(d, j)]
    BY <1>2
  <2>2. m = 0 \/ h.Seg[t].Resolution = g.Seg[u].Resolution
    BY <1>2
  <2> HIDE DEF m
  <2> QED BY <1>2, <2>1, <2>2, EndsSame
<1>4. g.Seg[u].NrOfSegments[d] - 1 = m
  OBVIOUS
<1> QED
  BY <1>1, <1>3, <1>4 DEF SegmentsOK

LEMMA CutFrom ==
    ASSUME NEW h \in Headers, NEW g \in Headers, NEW t \in Kinds, NEW u \in Kinds,
           g.NrOfChannels = h.NrOfChannels, Cut(h, t),
           g.Seg[u].Resolution = h.Seg[t].Resolution,
           \A ch \in Chans(h) : /\ g.Seg[u].NrOfSegments[ch] = h.Seg[t].NrOfSegments[ch]
                                /\ \A j \in 0 .. (h.Seg[t].NrOfSegments[ch] - 1) :
                                     g.Seg[u].SegmentLen[At(ch, j)] = h.Seg[t].SegmentLen[At(ch, j)]
    PROVE  Cut(g, u)
<1> SUFFICES ASSUME NEW ch \in Chans(g) PROVE SegmentsOK(g, u, ch)
  BY DEF Cut
<1>1. ch \in Chans(h) /\ SegmentsOK(h, t, ch)
  BY DEF Chans, Cut
<1>2. h.Seg[t].NrOfSegments[ch] \in Int
  BY <1>1, Constants DEF SegmentsOK
<1>3. \A j \in 0 .. (h.Seg[t].NrOfSegments[ch] - 2) :
             h.Seg[t].SegmentLen[At(ch, j)] = g.Seg[u].SegmentLen[At(ch, j)]
  BY <1>1, <1>2
<1> QED
  BY <1>1, <1>3, SegmentsFrom

LEMMA CutSame ==
    ASSUME NEW h \in Headers, NEW g \in Headers, NEW t \in Kinds,
           g.NrOfChannels = h.NrOfChannels, Cut(h, t),
           g.Seg[t].Resolution = h.Seg[t].Resolution,
           g.Seg[t].SegmentLen = h.Seg[t].SegmentLen,
           g.Seg[t].NrOfSegments = h.Seg[t].NrOfSegments
    PROVE  Cut(g, t)
  BY CutFrom

(* A channel of one segment is cut whatever its resolution.                   *)
LEMMA OneSegment ==
    ASSUME NEW h \in Headers, NEW t \in Kinds, NEW ch \in Chans(h), h.Seg[t].NrOfSegments[ch] = 1
    PROVE  SegmentsOK(h, t, ch)
<1>1. MAXNROF_SEGS \in Nat /\ 0 \in 0 .. (MAXNROF_SEGS + 1)
  BY Constants
<1>2. Ends(h, t, ch, 0) = 0
  BY <1>1, EndsAre
<1>3. NrOfBitsPerCh > 0
  <2>1. MaxFrameLen \in Nat /\ RESOL \in Nat /\ MaxFrameLen > 0 /\ RESOL > 0
    BY Constants
  <2>2. \A a, b \in Nat : a > 0 /\ b > 0 => a * b > 0
    OBVIOUS
  <2> QED BY <2>1, <2>2 DEF NrOfBitsPerCh
<1> QED
  BY <1>1, <1>2, <1>3 DEF SegmentsOK

LEMMA Stopped ==
    ASSUME NEW h \in Headers, NEW c, NEW p \in {"answer", "overrun"}
    PROVE  Unpacked(h, c, p)
  BY DEF Unpacked, Pcs, SegPcs, MapPcs, TablePcs

(* Both kinds cut: what is read next is the mapping.                          *)
LEMMA ToMapping ==
    ASSUME NEW h \in Headers, NEW c, \A t \in Kinds : Cut(h, t)
    PROVE  Unpacked(h, c, "PSameMapAsF")
  BY DEF Unpacked, Pcs, SegPcs, MapPcs, TablePcs

LEMMA RoomIs ==
    ASSUME NEW t \in Kinds
    PROVE  /\ Room(t) \in Nat /\ NrOfBitsPerCh \in Nat
           /\ MinLen(t) \in 1 .. NrOfBitsPerCh
           /\ RESOL * Room(t) = NrOfBitsPerCh - RESOL * (MinLen(t) \div RESOL)
           /\ RESOL * (MinLen(t) \div RESOL) <= MinLen(t)
<1> DEFINE m == MinLen(t)
           q == m \div RESOL
<1>1. m \in 1 .. (MaxFrameLen * RESOL) /\ MaxFrameLen \in Nat /\ RESOL \in Nat \ {0}
  BY Constants
<1>2. NrOfBitsPerCh \in Nat /\ m \in 1 .. NrOfBitsPerCh /\ NrOfBitsPerCh = MaxFrameLen * RESOL
  BY <1>1 DEF NrOfBitsPerCh
<1>3. m \in Int
  BY <1>2
<1> HIDE DEF m
<1>4. q \in Int /\ m % RESOL \in 0 .. (RESOL - 1) /\ m = q * RESOL + (m % RESOL)
  BY <1>1, <1>3, DivMod
<1> HIDE DEF q
<1>5. q * RESOL \in Int /\ q * RESOL <= m /\ q * RESOL = RESOL * q
  BY <1>1, <1>3, <1>4
<1>6. q <= MaxFrameLen
  <2> SUFFICES ASSUME q >= MaxFrameLen + 1 PROVE FALSE
    BY <1>1, <1>4
  <2>1. (q - MaxFrameLen - 1) * RESOL >= 0
    BY <1>1, <1>4
  <2>2. (q - MaxFrameLen - 1) * RESOL = q * RESOL - MaxFrameLen * RESOL - RESOL
    BY <1>1, <1>4
  <2>3. MaxFrameLen * RESOL \in Int
    BY <1>1
  <2> QED BY <2>1, <2>2, <2>3, <1>1, <1>2, <1>5
<1>7. Room(t) = MaxFrameLen - q
  BY DEF Room, q, m
<1>8. RESOL * (MaxFrameLen - q) = MaxFrameLen * RESOL - RESOL * q
  BY <1>1, <1>4
<1>9. Room(t) \in Nat /\ RESOL * Room(t) = NrOfBitsPerCh - RESOL * q /\ RESOL * q <= m
  BY <1>1, <1>2, <1>4, <1>5, <1>6, <1>7, <1>8
<1> QED
  BY <1>2, <1>9 DEF q, m

LEMMA NoneSoFar ==
    ASSUME NEW h \in Headers, NEW t \in Kinds, NEW ch \in Chans(h)
    PROVE  SoFar(h, t, ch, 0)
<1>1. Ends(h, t, ch, 0) = 0 /\ 0 <= NrOfBitsPerCh - MinLen(t)
  BY Constants, EndsAre, RoomIs
<1>2. \A m \in 0 .. 0 : m = 0
  OBVIOUS
<1> QED
  BY <1>1, <1>2 DEF SoFar

(* The segments of the first or the next kind, or channel, begin.             *)
LEMMA Started ==
    ASSUME NEW h \in Headers, NEW t \in Kinds, t = "P" => Cut(h, "F"), NEW ch \in Chans(h),
           NEW p \in SegPcs, p = "SameSegAllCh" \/ p = "EndOfChannel",
           NEW r \in {0, 1}, r = 1 => h.Seg[t].Resolution > 0,
           p = "SameSegAllCh" => ch = 0 /\ r = 0,
           p # "SameSegAllCh" /\ h.SameSegAllCh[t] = 1 => ch = 0,
           \A d \in 0 .. (ch - 1) : SegmentsOK(h, t, d) /\ (r = 0 => h.Seg[t].NrOfSegments[d] = 1),
           NEW c,
           c = [t |-> t, ChNr |-> ch, SegNr |-> 0, DefinedBits |-> 0, MaxSegSize |-> Room(t), ResolRead |-> r]
    PROVE  Unpacked(h, c, p)
<1>1. c.t = t /\ c.ChNr = ch /\ c.SegNr = 0 /\ c.DefinedBits = 0 /\ c.MaxSegSize = Room(t) /\ c.ResolRead = r
  OBVIOUS
<1>2. c \in SegCur(h)
  <2>1. Room(t) \in Int
    BY RoomIs
  <2> QED BY <2>1 DEF SegCur
<1>3. p = "SameSegAllCh" => c = StartSegments(c.t)
  BY <1>1 DEF StartSegments
<1>4. Ends(h, t, ch, 0) = 0
  BY Constants, EndsAre
<1>5. RESOL * Room(t) + 0 = RESOL * Room(t) /\ 0 <= NrOfBitsPerCh - MinLen(t) /\ 0 <= MaxSegs(t)
  <2>1. RESOL * Room(t) \in Int
    BY RoomIs, Constants
  <2>2. MaxSegs(t) \in Nat
    BY Constants
  <2> QED BY <2>1, <2>2, RoomIs
<1>6. Cutting(h, c, p)
  <2>1. \A d \in 0 .. (c.ChNr - 1) : /\ SegmentsOK(h, c.t, d)
                                     /\ c.ResolRead = 0 => h.Seg[c.t].NrOfSegments[d] = 1
    BY <1>1
  <2>2. p = "SameSegAllCh" \/ p = "EndOfChannel"
    OBVIOUS
  <2>3. c.DefinedBits <= NrOfBitsPerCh - MinLen(c.t) /\ c.SegNr <= MaxSegs(c.t)
    BY <1>1, <1>5
  <2>4. RESOL * c.MaxSegSize + c.DefinedBits = RESOL * Room(c.t)
    BY <1>1, <1>5
  <2>5. c.DefinedBits = Ends(h, c.t, c.ChNr, c.SegNr)
    BY <1>1, <1>4
  <2>6. c.ResolRead = 1 => h.Seg[c.t].Resolution > 0
    BY <1>1
  <2>7. p # "SameSegAllCh" /\ h.SameSegAllCh[c.t] = 1 => c.ChNr = 0
    BY <1>1
  <2>8. c.t = "P" => Cut(h, "F")
    BY <1>1
  <2>9. c.ResolRead = 0 => c.SegNr = 0
    BY <1>1
  <2>10. SoFar(h, c.t, c.ChNr, c.SegNr)
    BY <1>1, NoneSoFar
  <2> QED BY <1>2, <1>3, <2>1, <2>2, <2>3, <2>4, <2>5, <2>6, <2>7, <2>8, <2>9, <2>10 DEF Cutting
<1> QED
  BY <1>6 DEF Unpacked, Pcs, SegPcs, MapPcs, TablePcs

-----------------------------------------------------------------------------
LEMMA Refused ==
    ASSUME FH \in Headers, NEW e \in Errors, Refuse(e)
    PROVE  Unpacked(FH', cur', pc') /\ err' \in Errors
<1>1. FH' = FH /\ pc' = "answer" /\ err' = e
  BY DEF Refuse, Stop
<1> QED
  BY <1>1, Stopped

LEMMA CopySegmentDataUnpacked ==
    ASSUME FH \in Headers, err \in Errors, NEW h \in Headers, h.NrOfChannels = FH.NrOfChannels,
           Cut(h, "F"), CopySegmentData(h)
    PROVE  Unpacked(FH', cur', pc') /\ err' \in Errors
<1> DEFINE F == h.Seg["F"]
           P == h.Seg["P"]
           used == UNION {{At(c, i) : i \in 0..(F.NrOfSegments[c] - 1)} : c \in Channels}
           nr == [c \in AllChannels |-> IF c \in Channels THEN F.NrOfSegments[c] ELSE P.NrOfSegments[c]]
           len == [p \in Places |-> IF p \in used THEN F.SegmentLen[p] ELSE P.SegmentLen[p]]
<1>1. F \in SegRecords /\ P \in SegRecords /\ "P" \in Kinds /\ "F" \in Kinds /\ Chans(h) = Channels /\ h.Seg \in [Kinds -> SegRecords]
  BY HeaderIs DEF Kinds, Chans, Channels
<1>2. P.NrOfSegments \in [AllChannels -> Int] /\ P.SegmentLen \in [Places -> Int]
      /\ F.NrOfSegments \in [AllChannels -> Int] /\ F.SegmentLen \in [Places -> Int] /\ F.Resolution \in Int
  BY <1>1 DEF SegRecords
<1>3. nr \in [AllChannels -> Int] /\ len \in [Places -> Int]
  <2> HIDE DEF F, P, used
  <2> QED BY <1>2
<1>4. CASE \E e \in Errors : Refuse(e)
  BY <1>4, Refused
<1>5. CASE /\ FH' = [h EXCEPT !.Seg["P"].Resolution = F.Resolution,
                              !.Seg["P"].NrOfSegments = nr, !.Seg["P"].SegmentLen = len]
           /\ Goto("PSameMapAsF")
  <2> DEFINE g == FH'
             Q == g.Seg["P"]
  <2>1. g.Seg = [h.Seg EXCEPT !["P"] = [@ EXCEPT !.Resolution = F.Resolution, !.NrOfSegments = nr, !.SegmentLen = len]]
    <3> HIDE DEF F, P, nr, len
    <3> QED BY <1>5, <1>1 DEF Headers
  <2>2. Q.Resolution = F.Resolution /\ Q.NrOfSegments = nr /\ Q.SegmentLen = len /\ Q \in SegRecords /\ g.Seg["F"] = F
    <3> HIDE DEF nr, len
    <3>1. "P" # "F" /\ g.Seg["F"] = h.Seg["F"] /\ Q = [P EXCEPT !.Resolution = F.Resolution, !.NrOfSegments = nr, !.SegmentLen = len]
      BY <2>1, <1>1
    <3> HIDE DEF Q, P
    <3>2. P \in SegRecords
      BY <1>1
    <3>3. Q.Resolution = F.Resolution /\ Q.NrOfSegments = nr /\ Q.SegmentLen = len
      BY <3>1, <3>2 DEF SegRecords
    <3>4. Q \in SegRecords
      <4> HIDE DEF F
      <4> QED BY <3>1, <3>2, <1>2, <1>3 DEF SegRecords
    <3> QED BY <3>1, <3>3, <3>4 DEF F
  <2>3. g.Seg \in [Kinds -> SegRecords]
    <3> HIDE DEF F, P, nr, len
    <3>1. \A t \in Kinds : g.Seg[t] \in SegRecords
      BY <2>1, <2>2, <1>1 DEF Kinds, F
    <3> QED BY <2>1, <3>1, <1>1
  <2>4. g \in Headers /\ g.NrOfChannels = h.NrOfChannels
    <3> HIDE DEF F, P, nr, len
    <3> QED BY <1>5, <2>1, <2>3 DEF Headers
  <2>5. Cut(g, "F")
    <3> HIDE DEF g
    <3> QED BY <2>2, <2>4, <1>1, CutSame
  <2>6. Cut(g, "P")
    <3>1. \A ch \in Chans(h) : /\ Q.NrOfSegments[ch] = F.NrOfSegments[ch]
                               /\ \A j \in 0 .. (F.NrOfSegments[ch] - 1) : Q.SegmentLen[At(ch, j)] = F.SegmentLen[At(ch, j)]
      <4> TAKE ch \in Chans(h)
      <4>1. ch \in AllChannels /\ ch \in Channels /\ F.NrOfSegments[ch] \in 1 .. (MAXNROF_SEGS + 1)
        BY <1>1, HeaderIs DEF Cut, SegmentsOK
      <4>2. nr[ch] = F.NrOfSegments[ch]
        BY <4>1
      <4>3. ASSUME NEW j \in 0 .. (F.NrOfSegments[ch] - 1) PROVE len[At(ch, j)] = F.SegmentLen[At(ch, j)]
        <5>1. At(ch, j) \in used
          BY <4>1
        <5>2. At(ch, j) \in Places
          <6>1. ch \in 0 .. (MAX_CHANNELS - 1) /\ MAXNROF_SEGS \in Nat
            BY HeaderIs, Constants
          <6>2. j \in Seats
            BY <6>1, <4>1 DEF Seats
          <6> QED BY <6>1, <6>2, PlaceOf
        <5> HIDE DEF used, F, P
        <5> QED BY <5>1, <5>2
      <4> HIDE DEF nr, len, Q, F
      <4> QED BY <2>2, <4>2, <4>3
    <3> HIDE DEF g, nr, len
    <3> QED BY <3>1, <2>2, <2>4, <1>1, CutFrom
  <2>7. pc' = "PSameMapAsF" /\ err' = err
    BY <1>5 DEF Goto
  <2>8. \A t \in Kinds : Cut(FH', t)
    BY <2>5, <2>6 DEF Kinds
  <2> HIDE DEF g
  <2> QED BY <2>4, <2>7, <2>8, ToMapping DEF g
<1>6. (\E e \in Errors : Refuse(e))
      \/ (/\ FH' = [h EXCEPT !.Seg["P"].Resolution = F.Resolution,
                              !.Seg["P"].NrOfSegments = nr, !.Seg["P"].SegmentLen = len]
          /\ Goto("PSameMapAsF"))
  <2>1. "TooManySegments" \in Errors /\ "InvalidSegmentLength" \in Errors
    BY DEF Errors
  <2>2. P.NrOfSegments = h.Seg["P"].NrOfSegments /\ DOMAIN P.NrOfSegments = AllChannels
    BY <1>2
  <2> QED BY <2>1, <2>2, <1>2 DEF CopySegmentData
<1> QED
  BY <1>4, <1>5, <1>6

-----------------------------------------------------------------------------
LEMMA SegmentsReadUnpacked ==
    ASSUME FH \in Headers, err \in Errors, NEW h \in Headers, h.NrOfChannels = FH.NrOfChannels,
           cur.t \in Kinds, cur.t = "P" => Cut(h, "F"),
           \A ch \in Chans(h) : IF cur.ResolRead = 0 THEN h.Seg[cur.t].NrOfSegments[ch] = 1
                                ELSE SegmentsOK(h, cur.t, ch),
           SegmentsRead(h)
    PROVE  Unpacked(FH', cur', pc') /\ err' \in Errors
<1> DEFINE t == cur.t
           r == IF cur.ResolRead = 0 THEN 1 ELSE h.Seg[t].Resolution
           g == [h EXCEPT !.Seg[t].Resolution = r]
<1>1. t \in Kinds /\ h.Seg[t] \in SegRecords /\ h.Seg \in [Kinds -> SegRecords] /\ h.Seg[t].Resolution \in Int /\ r \in Int
  BY HeaderIs
<1> HIDE DEF r
<1>2. g.Seg = [h.Seg EXCEPT ![t] = [@ EXCEPT !.Resolution = r]]
  BY <1>1 DEF Headers
<1>3. /\ g.Seg[t].Resolution = r /\ g.Seg[t].SegmentLen = h.Seg[t].SegmentLen
      /\ g.Seg[t].NrOfSegments = h.Seg[t].NrOfSegments /\ g.Seg[t] \in SegRecords
      /\ \A u \in Kinds : u # t => g.Seg[u] = h.Seg[u]
  <2> HIDE DEF g
  <2>1. g.Seg[t] = [h.Seg[t] EXCEPT !.Resolution = r] /\ \A u \in Kinds : u # t => g.Seg[u] = h.Seg[u]
    BY <1>1, <1>2
  <2>2. g.Seg[t] \in SegRecords
    BY <1>1, <2>1 DEF SegRecords
  <2> QED BY <1>1, <2>1, <2>2 DEF SegRecords
<1>4. g \in Headers /\ g.NrOfChannels = h.NrOfChannels /\ Chans(g) = Chans(h)
  <2>1. g.Seg \in [Kinds -> SegRecords]
    <3> HIDE DEF g
    <3> QED BY <1>1, <1>2, <1>3
  <2> QED BY <2>1, <1>2 DEF Headers, Chans
<1>5. [h EXCEPT !.Seg[t].Resolution = IF cur.ResolRead = 0 THEN 1 ELSE @] = g
  BY <1>1 DEF r, Headers
<1>6. Cut(g, t)
  <2> HIDE DEF g
  <2>1. CASE cur.ResolRead = 0
    <3>1. \A ch \in Chans(g) : g.Seg[t].NrOfSegments[ch] = 1
      BY <1>3, <1>4, <2>1
    <3> QED BY <3>1, <1>1, <1>4, OneSegment DEF Cut
  <2>2. CASE cur.ResolRead # 0
    <3>1. Cut(h, t)
      BY <2>2 DEF Cut
    <3>2. g.Seg[t].Resolution = h.Seg[t].Resolution
      BY <1>3, <2>2 DEF r
    <3> QED BY <3>1, <3>2, <1>1, <1>3, <1>4, CutSame
  <2> QED BY <2>1, <2>2
<1>7. t = "P" => Cut(g, "F")
  <2> HIDE DEF g
  <2> SUFFICES ASSUME t = "P" PROVE Cut(g, "F")
    OBVIOUS
  <2>1. g.Seg["F"] = h.Seg["F"] /\ "F" \in Kinds
    BY <1>3 DEF Kinds
  <2> QED BY <2>1, <1>4, CutSame
<1>8. SegmentsRead(h) =
        IF t = "F" /\ h.PSameSegAsF = 1 THEN CopySegmentData(g)
        ELSE /\ FH' = g
             /\ IF t = "F" THEN cur' = StartSegments("P") /\ Goto("SameSegAllCh")
                ELSE UNCHANGED cur /\ Goto("PSameMapAsF")
  <2> HIDE DEF g
  <2> QED BY <1>5 DEF SegmentsRead
<1> HIDE DEF g
<1>9. CASE t = "F" /\ h.PSameSegAsF = 1
  <2>1. CopySegmentData(g) /\ Cut(g, "F")
    BY <1>6, <1>8, <1>9
  <2> QED BY <2>1, <1>4, CopySegmentDataUnpacked
<1>10. CASE t = "F" /\ h.PSameSegAsF # 1
  <2>1. FH' = g /\ cur' = StartSegments("P") /\ pc' = "SameSegAllCh" /\ err' = err
    BY <1>8, <1>10 DEF Goto
  <2>2. cur' = [t |-> "P", ChNr |-> 0, SegNr |-> 0, DefinedBits |-> 0, MaxSegSize |-> Room("P"), ResolRead |-> 0]
    BY <2>1 DEF StartSegments
  <2>3. Cut(g, "F") /\ 0 \in Chans(g) /\ "P" \in Kinds /\ "SameSegAllCh" \in SegPcs
    BY <1>4, <1>6, <1>10, HeaderIs DEF Kinds, SegPcs
  <2>4. Unpacked(g, cur', "SameSegAllCh")
    <3>1. \A d \in 0 .. (0 - 1) : SegmentsOK(g, "P", d) /\ (0 = 0 => g.Seg["P"].NrOfSegments[d] = 1)
      OBVIOUS
    <3>2. 0 \in {0, 1}
      OBVIOUS
    <3> QED BY <1>4, <2>2, <2>3, <3>1, <3>2, Started
  <2> QED BY <2>1, <2>4
<1>11. CASE t # "F"
  <2>1. FH' = g /\ pc' = "PSameMapAsF" /\ err' = err
    BY <1>8, <1>11 DEF Goto
  <2>2. \A u \in Kinds : Cut(g, u)
    BY <1>1, <1>6, <1>7, <1>11 DEF Kinds
  <2> QED BY <2>1, <2>2, <1>4, ToMapping
<1> QED
  BY <1>9, <1>10, <1>11

(* The rest of a channel is its last segment: the same for all channels, or   *)
(* this one's.                                                                *)
LEMMA CloseChannelUnpacked ==
    ASSUME FH \in Headers, err \in Errors, Cutting(FH, cur, pc), pc = "EndOfChannel",
           FH.SameSegAllCh[cur.t] = 1 \/ cur.SegNr < MAXNROF_SEGS, CloseChannel
    PROVE  Unpacked(FH', cur', pc') /\ err' \in Errors
<1> DEFINE t == cur.t
           n == cur.SegNr + 1
           last == [S.SegmentLen EXCEPT ![At(cur.ChNr, cur.SegNr)] = 0]
<1>1. /\ t \in Kinds /\ cur.ChNr \in Chans(FH) /\ cur.SegNr \in Nat /\ cur.ResolRead \in {0, 1}
      /\ cur.SegNr <= MAXNROF_SEGS /\ MAXNROF_SEGS \in Nat
      /\ S = FH.Seg[t] /\ S \in SegRecords /\ FH.Seg \in [Kinds -> SegRecords]
      /\ S.SegmentLen \in [Places -> Int] /\ S.NrOfSegments \in [AllChannels -> Int] /\ S.Resolution \in Int
      /\ Chans(FH) = Channels
  <2>1. /\ t \in Kinds /\ cur.ChNr \in Chans(FH) /\ cur.SegNr \in Nat /\ cur.ResolRead \in {0, 1}
        /\ cur.SegNr <= MaxSegs(t)
    BY DEF Cutting, SegCur
  <2>2. MaxSegs(t) \in 1 .. MAXNROF_SEGS /\ MAXNROF_SEGS \in Nat
    BY <2>1, Constants
  <2> QED BY <2>1, <2>2, HeaderIs DEF S, Chans, Channels
<1>2. n \in 1 .. (MAXNROF_SEGS + 1) /\ n - 1 = cur.SegNr /\ cur.SegNr \in 0 .. (MAXNROF_SEGS + 1)
  BY <1>1
<1>3. last \in [Places -> Int]
  <2> DEFINE row == S.SegmentLen
             p == At(cur.ChNr, cur.SegNr)
  <2>1. row \in [Places -> Int] /\ p \in Places
    <3>1. cur.SegNr \in Seats /\ cur.ChNr \in 0 .. (MAX_CHANNELS - 1)
      BY <1>1, HeaderIs DEF Seats
    <3> QED BY <1>1, <3>1, PlaceOf
  <2> HIDE DEF row, p
  <2>2. [row EXCEPT ![p] = 0] \in [Places -> Int]
    BY <2>1
  <2> QED BY <2>2 DEF row, p
<1>4. /\ \A m \in 0 .. cur.SegNr : Ends(FH, t, cur.ChNr, m) < NrOfBitsPerCh
      /\ cur.SegNr > 0 => S.SegmentLen[At(cur.ChNr, 0)] > 0
  <2>1. SoFar(FH, t, cur.ChNr, cur.SegNr)
    BY DEF Cutting
  <2>2. MinLen(t) \in 1 .. NrOfBitsPerCh /\ NrOfBitsPerCh \in Nat
    BY <1>1, RoomIs
  <2>3. ASSUME NEW m \in 0 .. cur.SegNr PROVE Ends(FH, t, cur.ChNr, m) < NrOfBitsPerCh
    <3>1. m \in 0 .. (MAXNROF_SEGS + 1)
      BY <1>1
    <3>2. Ends(FH, t, cur.ChNr, m) \in Int
      BY <3>1, <1>1, EndsAre
    <3>3. Ends(FH, t, cur.ChNr, m) <= NrOfBitsPerCh - MinLen(t)
      BY <2>1 DEF SoFar
    <3> QED BY <3>2, <3>3, <2>2
  <2> QED BY <2>1, <2>3, <1>1 DEF SoFar
<1>5. cur.ResolRead = 0 => n = 1
  BY <1>1 DEF Cutting
<1>6. \A ch \in Chans(FH), j \in 0 .. (n - 2) :
        /\ At(ch, j) \in Places
        /\ j \in 0 .. (MAXNROF_SEGS - 1)
  <2> TAKE ch \in Chans(FH), j \in 0 .. (n - 2)
  <2>1. j \in Seats /\ j \in 0 .. (MAXNROF_SEGS - 1) /\ ch \in 0 .. (MAX_CHANNELS - 1)
    BY <1>1, HeaderIs DEF Seats
  <2> QED BY <2>1, PlaceOf
<1>7. ASSUME NEW g \in Headers, g.NrOfChannels = FH.NrOfChannels, g.Seg[t].Resolution = S.Resolution,
             NEW ch \in Chans(FH), NEW k \in 1 .. n, g.Seg[t].NrOfSegments[ch] = k,
             \A j \in 0 .. (n - 2) : g.Seg[t].SegmentLen[At(ch, j)] = S.SegmentLen[At(cur.ChNr, j)]
      PROVE  SegmentsOK(g, t, ch)
  <2>1. ch \in Chans(g)
    BY <1>7 DEF Chans
  <2> DEFINE m == k - 1
  <2>2. m \in 0 .. cur.SegNr /\ m \in 0 .. (MAXNROF_SEGS + 1) /\ k \in 1 .. (MAXNROF_SEGS + 1)
    BY <1>1, <1>2
  <2>3. \A j \in 0 .. (m - 1) : FH.Seg[t].SegmentLen[At(cur.ChNr, j)] = g.Seg[t].SegmentLen[At(ch, j)]
    BY <1>1, <1>2, <1>7
  <2>4. g.Seg[t].NrOfSegments[ch] - 1 = m
    BY <1>7
  <2> HIDE DEF m
  <2>5. Ends(g, t, ch, m) = Ends(FH, t, cur.ChNr, m)
    BY <2>1, <2>2, <2>3, <1>1, <1>7, EndsSame
  <2> QED BY <2>2, <2>4, <2>5, <1>4, <1>7 DEF SegmentsOK
<1>8. t = "P" => Cut(FH, "F")
  BY DEF Cutting
<1> HIDE DEF last, n
<1>9. CASE FH.SameSegAllCh[t] = 1
  <2> DEFINE row == CopyRow(last, n)
             first == IF WritesBehind(n) THEN row[Behind] ELSE n
             nr == [c \in AllChannels |-> IF c = 0 THEN first ELSE IF c \in Channels THEN n
                                          ELSE S.NrOfSegments[c]]
             g == [FH EXCEPT !.Seg[t].SegmentLen = row, !.Seg[t].NrOfSegments = nr]
  <2>1. cur.ChNr = 0
    BY <1>9 DEF Cutting
  <2>2. Shaped
    BY DEF Headers, Shaped
  <2>3. /\ row \in [Places -> Int]
        /\ \A ch \in Channels, j \in 0 .. (n - 1) : j < MAXNROF_SEGS => row[At(ch, j)] = last[At(0, j)]
    BY <2>2, <1>2, <1>3, CopyRowIs
  <2>12. first \in Int /\ first >= 1
    <3>1. CASE WritesBehind(n)
      <4>1. n = MAXNROF_SEGS + 1 /\ FH.NrOfChannels = MAX_CHANNELS /\ FH.NrOfChannels > 1 /\ cur.SegNr > 0
        BY <3>1, <1>1, <1>2, Constants DEF WritesBehind
      <4>2. row[Behind] = last[At(0, 0)]
        BY <4>1, <2>2, <1>2, <1>3, CopyRowIs DEF Behind
      <4>3. last[At(0, 0)] = S.SegmentLen[At(0, 0)]
        <5>1. 0 \in 0 .. (MAXNROF_SEGS - 1) /\ cur.SegNr = MAXNROF_SEGS /\ 0 \in Nat /\ 1 \in Nat
          BY <4>1, <1>1, <1>2, Constants
        <5>2. At(0, cur.SegNr) = At(1, 0)
          BY <5>1, <1>1 DEF At
        <5>3. At(0, 0) # At(0, cur.SegNr)
          BY <5>1, <5>2, PlaceOf
        <5>4. At(0, 0) \in Places
          BY PlaceZero
        <5> QED BY <5>3, <5>4, <1>1, <2>1 DEF last
      <4>4. S.SegmentLen[At(0, 0)] \in Int /\ S.SegmentLen[At(0, 0)] > 0
        BY <4>1, <1>1, <1>4, <2>1, PlaceZero
      <4> HIDE DEF row
      <4> QED BY <3>1, <4>2, <4>3, <4>4
    <3>2. CASE ~WritesBehind(n)
      BY <3>2, <1>2
    <3> QED BY <3>1, <3>2
  <2> HIDE DEF first
  <2>4. nr \in [AllChannels -> Int]
    BY <1>1, <1>2, <2>12
  <2>5. \/ first > n /\ pc' = "overrun" /\ UNCHANGED <<FH, cur, err>>
        \/ ~(first > n) /\ SegmentsRead(g)
    <3>1. DOMAIN S.NrOfSegments = AllChannels
      BY <1>1
    <3>2. CloseAllChannels(n, row)
      BY <1>9 DEF CloseChannel, n, last
    <3> HIDE DEF row
    <3>3. \/ first > n /\ pc' = "overrun" /\ UNCHANGED <<FH, cur, err>>
          \/ ~(first > n) /\ SegmentsRead([FH EXCEPT !.Seg[cur.t].SegmentLen = row, !.Seg[cur.t].NrOfSegments = nr])
      BY <3>1, <3>2 DEF CloseAllChannels, first
    <3> HIDE DEF nr
    <3> QED BY <3>3
  <2> HIDE DEF row, nr
  <2>6. g.Seg = [FH.Seg EXCEPT ![t] = [@ EXCEPT !.SegmentLen = row, !.NrOfSegments = nr]]
    BY <1>1 DEF Headers
  <2>7. /\ g.Seg[t].Resolution = S.Resolution /\ g.Seg[t].SegmentLen = row
        /\ g.Seg[t].NrOfSegments = nr /\ g.Seg[t] \in SegRecords
        /\ \A u \in Kinds : u # t => g.Seg[u] = FH.Seg[u]
    <3> HIDE DEF g
    <3>1. g.Seg[t] = [S EXCEPT !.SegmentLen = row, !.NrOfSegments = nr] /\ \A u \in Kinds : u # t => g.Seg[u] = FH.Seg[u]
      BY <1>1, <2>6
    <3>2. g.Seg[t] \in SegRecords
      BY <1>1, <3>1, <2>3, <2>4 DEF SegRecords
    <3> QED BY <1>1, <3>1, <3>2 DEF SegRecords
  <2>8. g \in Headers /\ g.NrOfChannels = FH.NrOfChannels /\ Chans(g) = Chans(FH)
    <3>1. g.Seg \in [Kinds -> SegRecords]
      <4> HIDE DEF g
      <4> QED BY <1>1, <2>6, <2>7
    <3> QED BY <3>1, <2>6 DEF Headers, Chans
  <2> HIDE DEF g
  <2>9. ASSUME ~(first > n), NEW ch \in Chans(g)
        PROVE  g.Seg[t].NrOfSegments[ch] \in 1 .. n /\ SegmentsOK(g, t, ch)
    <3>1. ch \in Channels /\ ch \in AllChannels /\ ch \in Chans(FH)
      BY <1>1, <2>8, HeaderIs
    <3>2. g.Seg[t].NrOfSegments[ch] \in 1 .. n
      <4>1. g.Seg[t].NrOfSegments[ch] = IF ch = 0 THEN first ELSE n
        BY <3>1, <2>7 DEF nr
      <4> QED BY <4>1, <2>9, <2>12, <1>2
    <3>3. \A j \in 0 .. (n - 2) : g.Seg[t].SegmentLen[At(ch, j)] = S.SegmentLen[At(cur.ChNr, j)]
      <4> TAKE j \in 0 .. (n - 2)
      <4>1. j \in 0 .. (n - 1) /\ j < MAXNROF_SEGS /\ j \in 0 .. (MAXNROF_SEGS - 1) /\ At(0, j) \in Places
        BY <1>1, <1>2, <1>6, <2>1
      <4>2. row[At(ch, j)] = last[At(0, j)]
        BY <4>1, <3>1, <2>3
      <4>3. At(0, j) # At(0, cur.SegNr)
        <5>1. CASE cur.SegNr < MAXNROF_SEGS
          <6>1. cur.SegNr \in 0 .. (MAXNROF_SEGS - 1) /\ j # cur.SegNr
            BY <5>1, <1>1, <1>2
          <6> QED BY <6>1, <4>1, 0 \in Nat, PlaceOf
        <5>2. CASE cur.SegNr = MAXNROF_SEGS
          <6>1. At(0, cur.SegNr) = At(1, 0)
            BY <5>2, <1>1 DEF At
          <6>2. 0 \in 0 .. (MAXNROF_SEGS - 1) /\ 0 \in Nat /\ 1 \in Nat /\ 0 # 1
            BY Constants
          <6> QED BY <6>1, <6>2, <4>1, PlaceOf
        <5> QED BY <5>1, <5>2, <1>1
      <4>4. last[At(0, j)] = S.SegmentLen[At(0, j)]
        BY <4>1, <4>3, <1>1, <2>1 DEF last
      <4> QED BY <4>2, <4>4, <2>1, <2>7
    <3>4. SegmentsOK(g, t, ch)
      BY <1>7, <2>7, <2>8, <3>1, <3>2, <3>3
    <3> QED BY <3>2, <3>4
  <2>10. ASSUME ~(first > n), NEW ch \in Chans(g)
         PROVE  IF cur.ResolRead = 0 THEN g.Seg[cur.t].NrOfSegments[ch] = 1 ELSE SegmentsOK(g, cur.t, ch)
    <3>1. g.Seg[t].NrOfSegments[ch] \in 1 .. n /\ SegmentsOK(g, t, ch)
      BY <2>9, <2>10
    <3> QED BY <3>1, <1>5
  <2>11. cur.t = "P" => Cut(g, "F")
    <3> SUFFICES ASSUME t = "P" PROVE Cut(g, "F")
      OBVIOUS
    <3>1. g.Seg["F"] = FH.Seg["F"] /\ "F" \in Kinds
      BY <2>7 DEF Kinds
    <3> QED BY <3>1, <1>8, <2>8, CutSame
  <2>13. CASE first > n /\ pc' = "overrun" /\ UNCHANGED <<FH, cur, err>>
    BY <2>13, Stopped
  <2>14. CASE ~(first > n) /\ SegmentsRead(g)
    BY <2>8, <2>10, <2>11, <2>14, <1>1, SegmentsReadUnpacked
  <2> QED BY <2>5, <2>13, <2>14
<1>10. CASE FH.SameSegAllCh[t] # 1
  <2> DEFINE nr == [S.NrOfSegments EXCEPT ![cur.ChNr] = n]
             g == [FH EXCEPT !.Seg[t].SegmentLen = last, !.Seg[t].NrOfSegments[cur.ChNr] = n]
  <2>1. \/ cur.ChNr + 1 = FH.NrOfChannels /\ SegmentsRead(g)
        \/ /\ cur.ChNr + 1 # FH.NrOfChannels /\ FH' = g /\ Goto("EndOfChannel")
           /\ cur' = [StartSegments(t) EXCEPT !.ChNr = cur.ChNr + 1, !.ResolRead = cur.ResolRead]
    BY <1>10 DEF CloseChannel, n, last
  <2>0. nr \in [AllChannels -> Int]
    <3>1. S.NrOfSegments \in [AllChannels -> Int] /\ n \in Int
      BY <1>1, <1>2
    <3> QED BY <3>1
  <2>2. g.Seg = [FH.Seg EXCEPT ![t] = [@ EXCEPT !.SegmentLen = last, !.NrOfSegments = nr]]
    <3>1. g = [FH EXCEPT !.Seg = [FH.Seg EXCEPT ![t] = [S EXCEPT !.SegmentLen = last, !.NrOfSegments = [S.NrOfSegments EXCEPT ![cur.ChNr] = n]]]]
      BY <1>1 DEF Headers, SegRecords
    <3> HIDE DEF g, nr
    <3> QED BY <1>1, <3>1 DEF Headers, nr
  <2> HIDE DEF nr
  <2>3. /\ g.Seg[t].Resolution = S.Resolution /\ g.Seg[t].SegmentLen = last
        /\ g.Seg[t].NrOfSegments = nr /\ g.Seg[t] \in SegRecords
        /\ \A u \in Kinds : u # t => g.Seg[u] = FH.Seg[u]
    <3> HIDE DEF g
    <3>1. g.Seg[t] = [S EXCEPT !.SegmentLen = last, !.NrOfSegments = nr] /\ \A u \in Kinds : u # t => g.Seg[u] = FH.Seg[u]
      BY <1>1, <2>2
    <3>2. g.Seg[t] \in SegRecords
      BY <1>1, <1>3, <2>0, <3>1 DEF SegRecords
    <3> QED BY <1>1, <3>1, <3>2 DEF SegRecords
  <2>4. g \in Headers /\ g.NrOfChannels = FH.NrOfChannels /\ Chans(g) = Chans(FH) /\ g.SameSegAllCh = FH.SameSegAllCh
    <3>1. g.Seg \in [Kinds -> SegRecords]
      <4> HIDE DEF g
      <4> QED BY <1>1, <2>2, <2>3
    <3> QED BY <3>1, <2>2 DEF Headers, Chans
  <2> HIDE DEF g
  <2>5. cur.SegNr \in 0 .. (MAXNROF_SEGS - 1) /\ cur.ChNr \in Nat /\ cur.ChNr \in AllChannels
    BY <1>1, <1>10, HeaderIs
  <2>6. \A ch \in Chans(FH), j \in 0 .. (MAXNROF_SEGS - 1) :
          At(ch, j) \in Places /\ (ch # cur.ChNr \/ j # cur.SegNr) => last[At(ch, j)] = S.SegmentLen[At(ch, j)]
    <3> TAKE ch \in Chans(FH), j \in 0 .. (MAXNROF_SEGS - 1)
    <3>1. ch \in Nat
      BY HeaderIs
    <3>2. ch # cur.ChNr \/ j # cur.SegNr => At(ch, j) # At(cur.ChNr, cur.SegNr)
      BY <3>1, <2>5, PlaceOf
    <3> QED BY <3>2, <1>1 DEF last
  <2>7. g.Seg[t].NrOfSegments[cur.ChNr] = n /\ SegmentsOK(g, t, cur.ChNr)
    <3>1. g.Seg[t].NrOfSegments[cur.ChNr] = n
      BY <2>3, <2>5, <1>1 DEF nr
    <3>2. \A j \in 0 .. (n - 2) : g.Seg[t].SegmentLen[At(cur.ChNr, j)] = S.SegmentLen[At(cur.ChNr, j)]
      <4> TAKE j \in 0 .. (n - 2)
      <4>1. j \in 0 .. (MAXNROF_SEGS - 1) /\ j # cur.SegNr /\ At(cur.ChNr, j) \in Places
        BY <1>1, <1>2, <1>6
      <4> QED BY <4>1, <1>1, <2>3, <2>6
    <3>3. n \in 1 .. n
      BY <1>2
    <3> QED BY <3>1, <3>2, <3>3, <1>1, <1>7, <2>3, <2>4
  <2>8. ASSUME NEW ch \in 0 .. (cur.ChNr - 1)
        PROVE  SegmentsOK(g, t, ch) /\ (cur.ResolRead = 0 => g.Seg[t].NrOfSegments[ch] = 1)
    <3>1. ch \in Chans(FH) /\ ch # cur.ChNr /\ ch \in AllChannels /\ ch \in Chans(g)
      <4>1. ch \in Chans(FH) /\ ch # cur.ChNr
        BY <1>1, HeaderIs DEF Chans
      <4> QED BY <4>1, <2>4, HeaderIs
    <3>2. SegmentsOK(FH, t, ch) /\ (cur.ResolRead = 0 => S.NrOfSegments[ch] = 1)
      BY <1>1 DEF Cutting
    <3>3. g.Seg[t].NrOfSegments[ch] = S.NrOfSegments[ch]
      BY <3>1, <2>3, <1>1 DEF nr
    <3>4. \A j \in 0 .. (FH.Seg[t].NrOfSegments[ch] - 2) :
             FH.Seg[t].SegmentLen[At(ch, j)] = g.Seg[t].SegmentLen[At(ch, j)]
      <4> TAKE j \in 0 .. (FH.Seg[t].NrOfSegments[ch] - 2)
      <4>1. j \in 0 .. (MAXNROF_SEGS - 1)
        BY <3>2, <1>1 DEF SegmentsOK
      <4>2. At(ch, j) \in Places
        <5>1. j \in Seats /\ ch \in 0 .. (MAX_CHANNELS - 1)
          BY <4>1, <3>1, <1>1, HeaderIs DEF Seats
        <5> QED BY <5>1, PlaceOf
      <4> QED BY <4>1, <4>2, <3>1, <2>3, <2>6, <1>1
    <3>5. SegmentsOK(g, t, ch)
      BY <3>1, <3>2, <3>3, <3>4, <2>3, <2>4, <1>1, SegmentsFrom
    <3> QED BY <3>2, <3>3, <3>5
  <2>9. t = "P" => Cut(g, "F")
    <3> SUFFICES ASSUME t = "P" PROVE Cut(g, "F")
      OBVIOUS
    <3>1. g.Seg["F"] = FH.Seg["F"] /\ "F" \in Kinds
      BY <2>3 DEF Kinds
    <3> QED BY <3>1, <1>8, <2>4, CutSame
  <2>10. \A ch \in 0 .. cur.ChNr : SegmentsOK(g, t, ch) /\ (cur.ResolRead = 0 => g.Seg[t].NrOfSegments[ch] = 1)
    <3> TAKE ch \in 0 .. cur.ChNr
    <3>1. CASE ch = cur.ChNr
      BY <3>1, <2>7, <1>5
    <3>2. CASE ch # cur.ChNr
      BY <3>2, <2>5, <2>8
    <3> QED BY <3>1, <3>2
  <2>11. CASE cur.ChNr + 1 = FH.NrOfChannels
    <3>1. Chans(g) = 0 .. cur.ChNr
      BY <2>4, <2>11, <2>5 DEF Chans
    <3>2. \A ch \in Chans(g) : IF cur.ResolRead = 0 THEN g.Seg[cur.t].NrOfSegments[ch] = 1
                                ELSE SegmentsOK(g, cur.t, ch)
      BY <3>1, <2>10
    <3>3. SegmentsRead(g)
      BY <2>1, <2>11
    <3> QED BY <3>2, <3>3, <2>4, <2>9, <1>1, SegmentsReadUnpacked
  <2>12. CASE cur.ChNr + 1 # FH.NrOfChannels
    <3>1. /\ FH' = g /\ pc' = "EndOfChannel" /\ err' = err
          /\ cur' = [StartSegments(t) EXCEPT !.ChNr = cur.ChNr + 1, !.ResolRead = cur.ResolRead]
      BY <2>1, <2>12 DEF Goto
    <3> DEFINE c == cur'
               ch == cur.ChNr + 1
    <3>2. c = [t |-> t, ChNr |-> ch, SegNr |-> 0, DefinedBits |-> 0, MaxSegSize |-> Room(t), ResolRead |-> cur.ResolRead]
      BY <3>1 DEF StartSegments
    <3>3. ch \in Chans(g) /\ \A d \in 0 .. (ch - 1) : d \in 0 .. cur.ChNr
      <4>1. cur.ChNr < FH.NrOfChannels /\ FH.NrOfChannels \in Nat
        BY <1>1, HeaderIs DEF Chans
      <4> QED BY <4>1, <2>4, <2>5, <2>12 DEF Chans
    <3>4. "EndOfChannel" \in SegPcs /\ (cur.ResolRead = 1 => g.Seg[t].Resolution > 0)
          /\ g.SameSegAllCh[t] # 1
      BY <1>10, <2>3, <2>4, <1>1 DEF SegPcs, Cutting
    <3>5. \A d \in 0 .. (ch - 1) : SegmentsOK(g, t, d) /\ (cur.ResolRead = 0 => g.Seg[t].NrOfSegments[d] = 1)
      BY <3>3, <2>10
    <3> HIDE DEF c, ch
    <3>6. Unpacked(g, c, "EndOfChannel")
      BY <1>1, <2>4, <2>9, <3>2, <3>3, <3>4, <3>5, Started
    <3> QED BY <3>1, <3>6 DEF c
  <2> QED BY <2>11, <2>12
<1> QED
  BY <1>9, <1>10

-----------------------------------------------------------------------------
(* Each step that reads how the channels are cut.                             *)
Positions == [pos : Int, total : Int]

LEMMA BitsAre ==
    ASSUME NEW n \in Nat, NEW v \in Bits(n)
    PROVE  v \in Nat /\ v < Pow2[n]
<1>1. Pow2[n] \in Nat
  BY Pow2Is
<1> QED
  BY <1>1 DEF Bits

LEMMA OneBit == Bits(1) = {0, 1} /\ Pow2[1] = 2
<1>1. Pow2[0 + 1] = 2 * Pow2[0] /\ Pow2[0] = 1
  BY Pow2Is
<1>2. Pow2[1] = 2
  BY <1>1
<1> QED
  BY <1>2 DEF Bits

LEMMA HasStopped ==
    ASSUME FH' \in Headers, SD' \in Positions, err' \in Errors, pc' = "answer"
    PROVE  TablesInv'
<1>1. Unpacked(FH', cur', pc')
  BY Stopped
<1> QED
  BY <1>1 DEF TablesInv, Positions

LEMMA CouldNotRead ==
    ASSUME TablesInv, Stop("NegativeBitAllocation"), UNCHANGED <<FH, SD, cur>>
    PROVE  TablesInv'
<1>1. FH' \in Headers /\ SD' \in Positions /\ err' \in Errors /\ pc' = "answer"
  BY DEF TablesInv, Unpacked, Stop, Errors, Positions
<1> QED
  BY <1>1, HasStopped

LEMMA PositionIs ==
    ASSUME SD \in Positions, NEW n \in Int, SD' = [SD EXCEPT !.pos = @ + n]
    PROVE  SD' \in Positions
  BY DEF Positions

(* A field of a header that says nothing of the tables.                       *)
LEMMA SetDSTCoded ==
    ASSUME NEW h \in Headers, NEW v \in Int,
           NEW g, g = [h EXCEPT !.DSTCoded = v] \/ g = [h EXCEPT !.PSameSegAsF = v] \/ g = [h EXCEPT !.PSameMapAsF = v]
    PROVE  g \in Headers /\ g.NrOfChannels = h.NrOfChannels /\ g.Seg = h.Seg
<1>1. CASE g = [h EXCEPT !.DSTCoded = v]
  BY <1>1 DEF Headers
<1>2. CASE g = [h EXCEPT !.PSameSegAsF = v]
  BY <1>2 DEF Headers
<1>3. CASE g = [h EXCEPT !.PSameMapAsF = v]
  BY <1>3 DEF Headers
<1> QED
  BY <1>1, <1>2, <1>3

LEMMA ReadDSTCodedInv ==
    ASSUME TablesInv, ReadDSTCoded
    PROVE  TablesInv'
<1>1. CASE Stop("NegativeBitAllocation") /\ UNCHANGED <<FH, SD, cur>>
  BY <1>1, CouldNotRead
<1>2. CASE \E v \in Bits(1) : /\ SD' = [SD EXCEPT !.pos = @ + 1]
                               /\ FH' = [FH EXCEPT !.DSTCoded = v]
                               /\ Goto(IF v = 0 THEN "stuffing" ELSE "PSameSegAsF")
  <2>1. PICK v \in Bits(1) : /\ SD' = [SD EXCEPT !.pos = @ + 1]
                             /\ FH' = [FH EXCEPT !.DSTCoded = v]
                             /\ Goto(IF v = 0 THEN "stuffing" ELSE "PSameSegAsF")
    BY <1>2
  <2>2. FH' \in Headers /\ SD' \in Positions /\ err' \in Errors
    <3>1. v \in Int
      BY OneBit
    <3> QED BY <2>1, <3>1, PositionIs, SetDSTCoded DEF TablesInv, Unpacked, Goto, Positions
  <2>3. Unpacked(FH', cur', pc')
    BY <2>1, <2>2 DEF Goto, Unpacked, Pcs, SegPcs, MapPcs, TablePcs
  <2> QED BY <2>2, <2>3 DEF TablesInv, Positions
<1> QED
  BY <1>1, <1>2 DEF ReadDSTCoded, Field, FIO_BitGet

LEMMA ReadStuffingInv ==
    ASSUME TablesInv, ReadStuffing
    PROVE  TablesInv'
<1>0. 1 + SIZE_STUFFING \in Int /\ SD \in Positions /\ FH \in Headers /\ err \in Errors
  BY TableConstants DEF TablesInv, Unpacked, Positions
<1>1. CASE Stop("NegativeBitAllocation") /\ UNCHANGED <<FH, SD, cur>>
  BY <1>1, CouldNotRead
<1>2. CASE /\ SD' = [SD EXCEPT !.pos = @ + (1 + SIZE_STUFFING)]
           /\ Refuse("InvalidStuffingPattern") \/ (Goto("plain") /\ UNCHANGED <<FH, cur>>)
  <2>1. SD' \in Positions
    BY <1>0, <1>2, PositionIs
  <2>2. CASE Refuse("InvalidStuffingPattern")
    <3>1. "InvalidStuffingPattern" \in Errors
      BY DEF Errors
    <3> QED BY <1>0, <2>1, <2>2, <3>1, Refused DEF TablesInv, Positions
  <2>3. CASE Goto("plain") /\ UNCHANGED <<FH, cur>>
    <3>1. Unpacked(FH', cur', pc')
      BY <1>0, <2>3 DEF Goto, Unpacked, Pcs, SegPcs, MapPcs, TablePcs
    <3> QED BY <1>0, <2>1, <2>3, <3>1 DEF TablesInv, Positions, Goto
  <2> QED BY <1>2, <2>2, <2>3
<1> QED
  BY <1>1, <1>2 DEF ReadStuffing, Field, FIO_BitGet

LEMMA ReadPSameSegAsFInv ==
    ASSUME TablesInv, ReadPSameSegAsF
    PROVE  TablesInv'
<1>1. CASE Stop("NegativeBitAllocation") /\ UNCHANGED <<FH, SD, cur>>
  BY <1>1, CouldNotRead
<1>2. CASE \E v \in Bits(1) : /\ SD' = [SD EXCEPT !.pos = @ + 1]
                               /\ FH' = [FH EXCEPT !.PSameSegAsF = v]
                               /\ cur' = StartSegments("F") /\ Goto("SameSegAllCh")
  <2>1. PICK v \in Bits(1) : /\ SD' = [SD EXCEPT !.pos = @ + 1]
                             /\ FH' = [FH EXCEPT !.PSameSegAsF = v]
                             /\ cur' = StartSegments("F") /\ Goto("SameSegAllCh")
    BY <1>2
  <2>2. FH' \in Headers /\ SD' \in Positions /\ err' \in Errors
    <3>1. v \in Int
      BY OneBit
    <3> QED BY <2>1, <3>1, PositionIs, SetDSTCoded DEF TablesInv, Unpacked, Goto, Positions
  <2>3. Unpacked(FH', cur', "SameSegAllCh")
    <3>1. cur' = [t |-> "F", ChNr |-> 0, SegNr |-> 0, DefinedBits |-> 0, MaxSegSize |-> Room("F"), ResolRead |-> 0]
      BY <2>1 DEF StartSegments
    <3>2. "F" \in Kinds /\ "F" # "P" /\ 0 \in Chans(FH') /\ "SameSegAllCh" \in SegPcs /\ 0 \in {0, 1}
      BY <2>2, HeaderIs DEF Kinds, SegPcs
    <3>3. \A d \in 0 .. (0 - 1) : SegmentsOK(FH', "F", d) /\ (0 = 0 => FH'.Seg["F"].NrOfSegments[d] = 1)
      OBVIOUS
    <3> QED BY <2>2, <3>1, <3>2, <3>3, Started
  <2> QED BY <2>1, <2>2, <2>3 DEF TablesInv, Positions, Goto
<1> QED
  BY <1>1, <1>2 DEF ReadPSameSegAsF, Field, FIO_BitGet

LEMMA ReadSameSegAllChInv ==
    ASSUME TablesInv, ReadSameSegAllCh
    PROVE  TablesInv'
<1>0. /\ pc = "SameSegAllCh" /\ Cutting(FH, cur, pc) /\ FH \in Headers /\ SD \in Positions /\ err \in Errors
      /\ cur.t \in Kinds /\ cur = StartSegments(cur.t)
  <2>1. pc = "SameSegAllCh"
    BY DEF ReadSameSegAllCh
  <2> QED BY <2>1 DEF TablesInv, Unpacked, SegPcs, Positions, Cutting, SegCur
<1>1. CASE Stop("NegativeBitAllocation") /\ UNCHANGED <<FH, SD, cur>>
  BY <1>1, CouldNotRead
<1>2. CASE \E v \in Bits(1) : /\ SD' = [SD EXCEPT !.pos = @ + 1]
                               /\ FH' = [FH EXCEPT !.SameSegAllCh[cur.t] = v]
                               /\ UNCHANGED cur /\ Goto("EndOfChannel")
  <2>1. PICK v \in Bits(1) : /\ SD' = [SD EXCEPT !.pos = @ + 1]
                             /\ FH' = [FH EXCEPT !.SameSegAllCh[cur.t] = v]
                             /\ UNCHANGED cur /\ Goto("EndOfChannel")
    BY <1>2
  <2>2. FH' \in Headers /\ FH'.NrOfChannels = FH.NrOfChannels /\ FH'.Seg = FH.Seg
    <3>1. v \in Int
      BY OneBit
    <3> QED BY <1>0, <2>1, <3>1 DEF Headers
  <2>3. Unpacked(FH', cur', "EndOfChannel")
    <3> DEFINE t == cur.t
    <3>1. cur' = [t |-> t, ChNr |-> 0, SegNr |-> 0, DefinedBits |-> 0, MaxSegSize |-> Room(t), ResolRead |-> 0]
      BY <1>0, <2>1 DEF StartSegments
    <3>2. t \in Kinds /\ 0 \in Chans(FH') /\ "EndOfChannel" \in SegPcs /\ 0 \in {0, 1}
      BY <1>0, <2>2, HeaderIs DEF SegPcs
    <3>3. t = "P" => Cut(FH', "F")
      <4> SUFFICES ASSUME t = "P" PROVE Cut(FH', "F")
        OBVIOUS
      <4>1. Cut(FH, "F") /\ "F" \in Kinds
        BY <1>0 DEF Cutting, Kinds
      <4> QED BY <4>1, <1>0, <2>2, CutSame
    <3>4. \A d \in 0 .. (0 - 1) : SegmentsOK(FH', t, d) /\ (0 = 0 => FH'.Seg[t].NrOfSegments[d] = 1)
      OBVIOUS
    <3> HIDE DEF t
    <3> QED BY <2>2, <3>1, <3>2, <3>3, <3>4, Started
  <2>4. SD' \in Positions
    BY <1>0, <2>1, PositionIs
  <2> QED BY <1>0, <2>1, <2>3, <2>4 DEF TablesInv, Positions, Goto
<1> QED
  BY <1>1, <1>2 DEF ReadSameSegAllCh, Field, FIO_BitGet

LEMMA ReadEndOfChannelInv ==
    ASSUME TablesInv, ReadEndOfChannel
    PROVE  TablesInv'
<1>0. /\ pc = "EndOfChannel" /\ Cutting(FH, cur, pc) /\ FH \in Headers /\ SD \in Positions /\ err \in Errors
      /\ cur.t \in Kinds /\ cur.SegNr \in Nat /\ MaxSegs(cur.t) \in 1 .. MAXNROF_SEGS
      /\ cur.ResolRead \in {0, 1} /\ "TooManySegments" \in Errors
  <2>1. pc = "EndOfChannel"
    BY DEF ReadEndOfChannel
  <2> QED BY <2>1, Constants DEF TablesInv, Unpacked, SegPcs, Positions, Cutting, SegCur, Errors
<1>1. CASE Stop("NegativeBitAllocation") /\ UNCHANGED <<FH, SD, cur>>
  BY <1>1, CouldNotRead
<1>2. CASE Refuse("TooManySegments") /\ (UNCHANGED SD \/ SD' = [SD EXCEPT !.pos = @ + 1])
  <2>1. SD' \in Positions
    BY <1>0, <1>2, PositionIs
  <2> QED BY <1>0, <1>2, <2>1, Refused DEF TablesInv, Positions
<1>3. CASE /\ SD' = [SD EXCEPT !.pos = @ + 1] /\ CloseChannel
           /\ FH.SameSegAllCh[cur.t] = 1 \/ ~TooManySegments
  <2>1. SD' \in Positions
    BY <1>0, <1>3, PositionIs
  <2>2. FH.SameSegAllCh[cur.t] = 1 \/ cur.SegNr < MAXNROF_SEGS
    BY <1>0, <1>3, Constants DEF TooManySegments
  <2>3. Unpacked(FH', cur', pc') /\ err' \in Errors
    BY <1>0, <1>3, <2>2, CloseChannelUnpacked
  <2> QED BY <2>1, <2>3 DEF TablesInv, Positions
<1>4. CASE /\ SD' = [SD EXCEPT !.pos = @ + 1] /\ ~TooManySegments
           /\ Goto(IF cur.ResolRead = 0 THEN "Resolution" ELSE "SegmentLen") /\ UNCHANGED <<FH, cur>>
  <2>1. SD' \in Positions
    BY <1>0, <1>4, PositionIs
  <2>2. cur.SegNr < MaxSegs(cur.t)
    BY <1>0, <1>4, Constants DEF TooManySegments
  <2>3. Cutting(FH, cur, pc')
    BY <1>0, <1>4, <2>2 DEF Cutting, Goto
  <2>4. Unpacked(FH', cur', pc')
    BY <1>0, <1>4, <2>3 DEF Goto, Unpacked, Pcs, SegPcs, MapPcs, TablePcs
  <2> QED BY <1>0, <1>4, <2>1, <2>4 DEF TablesInv, Positions, Goto
<1> QED
  BY <1>1, <1>2, <1>3, <1>4, OneBit DEF ReadEndOfChannel, Field, FIO_BitGet

-----------------------------------------------------------------------------
LEMMA ReadResolutionInv ==
    ASSUME TablesInv, ReadResolution
    PROVE  TablesInv'
<1> DEFINE t == cur.t
           n == Log2RoundUp(Room(t))
<1>0. /\ pc = "Resolution" /\ Cutting(FH, cur, pc) /\ FH \in Headers /\ SD \in Positions /\ err \in Errors
      /\ t \in Kinds /\ cur \in SegCur(FH) /\ cur.ResolRead = 0 /\ cur.SegNr = 0 /\ cur.ChNr \in Chans(FH)
  <2>1. pc = "Resolution"
    BY DEF ReadResolution
  <2> QED BY <2>1 DEF TablesInv, Unpacked, SegPcs, Positions, Cutting, SegCur
<1>1. n \in Nat
  BY <1>0, RoomIs, Log2IsNat
<1> HIDE DEF n
<1>2. CASE Stop("NegativeBitAllocation") /\ UNCHANGED <<FH, SD, cur>>
  BY <1>2, CouldNotRead
<1>3. ASSUME NEW v \in Bits(n), SD' = [SD EXCEPT !.pos = @ + n], FH' = [FH EXCEPT !.Seg[t].Resolution = v],
             \/ Stop("InvalidSegmentResolution")
             \/ v # 0 /\ v <= Room(t) /\ cur' = [cur EXCEPT !.ResolRead = 1] /\ Goto("SegmentLen")
      PROVE  TablesInv'
  <2>1. SD' \in Positions /\ v \in Nat
    BY <1>0, <1>1, <1>3, PositionIs, BitsAre
  <2> DEFINE g == FH'
  <2>2. g.Seg = [FH.Seg EXCEPT ![t] = [@ EXCEPT !.Resolution = v]]
    BY <1>0, <1>3 DEF Headers
  <2>3. FH.Seg \in [Kinds -> SegRecords] /\ FH.Seg[t] \in SegRecords
    BY <1>0, HeaderIs
  <2>4. /\ g.Seg[t].Resolution = v /\ g.Seg[t].SegmentLen = FH.Seg[t].SegmentLen
        /\ g.Seg[t].NrOfSegments = FH.Seg[t].NrOfSegments /\ g.Seg[t] \in SegRecords
        /\ \A u \in Kinds : u # t => g.Seg[u] = FH.Seg[u]
    <3> HIDE DEF g, t
    <3>1. g.Seg[t] = [FH.Seg[t] EXCEPT !.Resolution = v] /\ \A u \in Kinds : u # t => g.Seg[u] = FH.Seg[u]
      BY <2>2, <2>3, <1>0
    <3>2. g.Seg[t] \in SegRecords
      BY <3>1, <2>1, <2>3 DEF SegRecords
    <3> QED BY <3>1, <3>2, <2>3 DEF SegRecords
  <2>5. g \in Headers /\ g.NrOfChannels = FH.NrOfChannels /\ Chans(g) = Chans(FH) /\ g.SameSegAllCh = FH.SameSegAllCh
    <3>1. g.Seg \in [Kinds -> SegRecords]
      <4> HIDE DEF g, t
      <4> QED BY <2>2, <2>3, <2>4
    <3> QED BY <3>1, <2>2, <1>0, <1>3 DEF Headers, Chans
  <2>6. CASE Stop("InvalidSegmentResolution")
    <3>1. err' \in Errors /\ pc' = "answer"
      BY <2>6 DEF Stop, Errors
    <3> QED BY <3>1, <2>1, <2>5, HasStopped
  <2>7. CASE v # 0 /\ v <= Room(t) /\ cur' = [cur EXCEPT !.ResolRead = 1] /\ Goto("SegmentLen")
    <3> DEFINE c == cur'
    <3>1. /\ c.t = t /\ c.ChNr = cur.ChNr /\ c.SegNr = cur.SegNr /\ c.DefinedBits = cur.DefinedBits
          /\ c.MaxSegSize = cur.MaxSegSize /\ c.ResolRead = 1 /\ c \in SegCur(g)
      BY <1>0, <2>5, <2>7 DEF SegCur
    <3>2. pc' = "SegmentLen" /\ err' = err
      BY <2>7 DEF Goto
    <3>3. cur.SegNr < MaxSegs(t) /\ cur.SegNr <= MaxSegs(t)
      BY <1>0 DEF Cutting
    <3>4. t = "P" => Cut(g, "F")
      <4> SUFFICES ASSUME t = "P" PROVE Cut(g, "F")
        OBVIOUS
      <4>1. Cut(FH, "F") /\ "F" \in Kinds /\ g.Seg["F"] = FH.Seg["F"]
        BY <1>0, <2>4 DEF Cutting, Kinds
      <4> HIDE DEF g
      <4> QED BY <4>1, <1>0, <2>5, CutSame
    <3>5. \A ch \in 0 .. (cur.ChNr - 1) : SegmentsOK(g, t, ch)
      <4> TAKE ch \in 0 .. (cur.ChNr - 1)
      <4>1. ch \in Chans(g)
        BY <1>0, <2>5, HeaderIs DEF Chans
      <4>2. g.Seg[t].NrOfSegments[ch] = 1
        BY <1>0, <2>4 DEF Cutting
      <4> HIDE DEF g, t
      <4> QED BY <4>1, <4>2, <1>0, <2>5, OneSegment
    <3>6. cur.DefinedBits = Ends(g, t, cur.ChNr, cur.SegNr)
      <4>1. cur.DefinedBits = Ends(FH, t, cur.ChNr, 0) /\ 0 \in 0 .. (MAXNROF_SEGS + 1)
        BY <1>0, Constants DEF Cutting
      <4> HIDE DEF g, t
      <4>2. Ends(FH, t, cur.ChNr, 0) = 0 /\ Ends(g, t, cur.ChNr, 0) = 0
        BY <4>1, <1>0, <2>5, EndsAre
      <4> QED BY <4>1, <4>2, <1>0
    <3>11. SoFar(g, t, cur.ChNr, cur.SegNr)
      <4> HIDE DEF g, t
      <4> QED BY <1>0, <2>5, NoneSoFar
    <3>7. FH.SameSegAllCh[t] = 1 => cur.ChNr = 0
      BY <1>0 DEF Cutting
    <3>8. cur.DefinedBits <= NrOfBitsPerCh - MinLen(t) /\ RESOL * cur.MaxSegSize + cur.DefinedBits = RESOL * Room(t)
      BY <1>0 DEF Cutting
    <3>9. Cutting(g, c, "SegmentLen")
      <4> HIDE DEF g, c, t
      <4> QED BY <2>1, <2>4, <2>5, <2>7, <3>1, <3>3, <3>4, <3>5, <3>6, <3>7, <3>8, <3>11 DEF Cutting
    <3>10. Unpacked(g, c, "SegmentLen")
      <4> HIDE DEF g, c
      <4> QED BY <2>5, <3>9 DEF Unpacked, Pcs, SegPcs, MapPcs, TablePcs
    <3> QED BY <1>0, <2>1, <3>2, <3>10 DEF TablesInv, Positions
  <2> QED BY <1>3, <2>6, <2>7
<1> QED
  <2>1. ReadResolution =>
        \/ Stop("NegativeBitAllocation") /\ UNCHANGED <<FH, SD, cur>>
        \/ \E v \in Bits(n) :
             /\ SD' = [SD EXCEPT !.pos = @ + n] /\ FH' = [FH EXCEPT !.Seg[t].Resolution = v]
             /\ \/ Stop("InvalidSegmentResolution")
                \/ ~(v = 0 \/ v > Room(t)) /\ cur' = [cur EXCEPT !.ResolRead = 1] /\ Goto("SegmentLen")
    BY DEF ReadResolution, Field, FIO_BitGet, n
  <2>2. ASSUME NEW v \in Bits(n), ~(v = 0 \/ v > Room(t)) PROVE v # 0 /\ v <= Room(t)
    <3>1. v \in Int /\ Room(t) \in Int
      BY <1>0, <1>1, BitsAre, RoomIs
    <3> QED BY <3>1, <2>2
  <2> QED BY <2>1, <2>2, <1>2, <1>3

LEMMA ReadSegmentLenInv ==
    ASSUME TablesInv, ReadSegmentLen
    PROVE  TablesInv'
<1> DEFINE t == cur.t
           n == Log2RoundUp(cur.MaxSegSize \div S.Resolution)
           p == At(cur.ChNr, cur.SegNr)
<1>0. /\ pc = "SegmentLen" /\ Cutting(FH, cur, pc) /\ FH \in Headers /\ SD \in Positions /\ err \in Errors
      /\ t \in Kinds /\ cur \in SegCur(FH) /\ cur.ResolRead = 1 /\ cur.SegNr \in Nat /\ cur.ChNr \in Chans(FH)
      /\ cur.SegNr < MaxSegs(t) /\ cur.MaxSegSize \in Int /\ cur.DefinedBits \in Nat
      /\ S.Resolution > 0 /\ S.Resolution \in Int /\ S = FH.Seg[t]
      /\ MaxSegs(t) \in 1 .. MAXNROF_SEGS /\ MAXNROF_SEGS \in Nat /\ RESOL \in Nat /\ RESOL > 0
  <2>1. pc = "SegmentLen"
    BY DEF ReadSegmentLen
  <2>2. FH \in Headers /\ SD \in Positions /\ err \in Errors /\ Cutting(FH, cur, pc)
    BY <2>1 DEF TablesInv, Unpacked, SegPcs, Positions
  <2>3. /\ t \in Kinds /\ cur \in SegCur(FH) /\ cur.ResolRead = 1 /\ cur.SegNr \in Nat /\ cur.ChNr \in Chans(FH)
        /\ cur.SegNr < MaxSegs(t) /\ cur.MaxSegSize \in Int /\ cur.DefinedBits \in Nat /\ S.Resolution > 0
    BY <2>1, <2>2 DEF Cutting, SegCur, S
  <2> QED BY <2>1, <2>2, <2>3, HeaderIs, Constants DEF S
<1>1. n \in Nat
  <2> DEFINE m == cur.MaxSegSize
             b == NrOfBitsPerCh
             l == MinLen(t)
             q == l \div RESOL
             r == Room(t)
             d == cur.DefinedBits
  <2>1. /\ d <= b - l /\ RESOL * m + d = RESOL * r
    BY <1>0 DEF Cutting
  <2>2. /\ r \in Nat /\ b \in Nat /\ l \in Int /\ RESOL * r = b - RESOL * q /\ RESOL * q <= l /\ d \in Nat /\ m \in Int
    BY <1>0, RoomIs
  <2> HIDE DEF m, b, l, r, d
  <2>3. RESOL * m >= 0
    <3>1. RESOL * m \in Int /\ RESOL * q \in Int
      <4>1. q \in Int
        BY <2>2, <1>0
      <4> HIDE DEF q
      <4> QED BY <2>2, <1>0, <4>1
    <3> HIDE DEF q
    <3> QED BY <2>1, <2>2, <3>1
  <2>4. m >= 0
    <3> SUFFICES ASSUME m <= -1 PROVE FALSE
      BY <2>2
    <3>1. (-1 - m) * RESOL >= 0
      BY <2>2, <1>0
    <3>2. (-1 - m) * RESOL = -RESOL - RESOL * m
      BY <2>2, <1>0
    <3>3. RESOL * m \in Int
      BY <2>2, <1>0
    <3> QED BY <3>1, <3>2, <3>3, <2>3, <1>0
  <2>5. m \div S.Resolution \in Nat
    <3> DEFINE s == S.Resolution
    <3>1. s \in Nat \ {0} /\ m \in Nat
      BY <1>0, <2>2, <2>4
    <3> HIDE DEF s
    <3> QED BY <3>1 DEF s
  <2> QED BY <2>5, Log2IsNat DEF m
<1> HIDE DEF n
<1>2. CASE Stop("NegativeBitAllocation") /\ UNCHANGED <<FH, SD, cur>>
  BY <1>2, CouldNotRead
<1>3. p \in Places /\ cur.SegNr \in 0 .. (MAXNROF_SEGS - 1) /\ cur.ChNr \in Nat
  <2>1. cur.SegNr \in Seats /\ cur.ChNr \in 0 .. (MAX_CHANNELS - 1) /\ cur.SegNr \in 0 .. (MAXNROF_SEGS - 1)
    BY <1>0, HeaderIs DEF Seats
  <2> QED BY <2>1, PlaceOf
<1>4. ASSUME NEW v \in Bits(n), SD' = [SD EXCEPT !.pos = @ + n],
             FH' = [FH EXCEPT !.Seg[t].SegmentLen[p] = v],
             \/ Stop("InvalidSegmentLength")
             \/ /\ ValidLength(S.Resolution * RESOL * v)
                /\ cur' = [cur EXCEPT !.DefinedBits = @ + S.Resolution * RESOL * v,
                                      !.MaxSegSize = @ - S.Resolution * v, !.SegNr = @ + 1]
                /\ Goto("EndOfChannel")
      PROVE  TablesInv'
  <2>1. SD' \in Positions /\ v \in Nat
    BY <1>0, <1>1, <1>4, PositionIs, BitsAre
  <2> DEFINE g == FH'
             len == [FH.Seg[t].SegmentLen EXCEPT ![p] = v]
  <2>2. FH.Seg \in [Kinds -> SegRecords] /\ FH.Seg[t] \in SegRecords /\ FH.Seg[t].SegmentLen \in [Places -> Int]
    BY <1>0, HeaderIs
  <2>3. g.Seg = [FH.Seg EXCEPT ![t] = [@ EXCEPT !.SegmentLen = len]]
    <3> HIDE DEF p
    <3> QED BY <1>0, <1>4, <2>2 DEF Headers, SegRecords
  <2>4. len \in [Places -> Int] /\ len[p] = v /\ \A q \in Places : q # p => len[q] = FH.Seg[t].SegmentLen[q]
    <3> HIDE DEF p
    <3> QED BY <1>3, <2>1, <2>2
  <2> HIDE DEF len
  <2>5. /\ g.Seg[t].Resolution = S.Resolution /\ g.Seg[t].SegmentLen = len
        /\ g.Seg[t].NrOfSegments = FH.Seg[t].NrOfSegments /\ g.Seg[t] \in SegRecords
        /\ \A u \in Kinds : u # t => g.Seg[u] = FH.Seg[u]
    <3> HIDE DEF g, t
    <3>1. g.Seg[t] = [FH.Seg[t] EXCEPT !.SegmentLen = len] /\ \A u \in Kinds : u # t => g.Seg[u] = FH.Seg[u]
      BY <2>2, <2>3, <1>0
    <3>2. g.Seg[t] \in SegRecords
      BY <3>1, <2>2, <2>4 DEF SegRecords
    <3> QED BY <3>1, <3>2, <2>2, <1>0 DEF SegRecords
  <2>6. g \in Headers /\ g.NrOfChannels = FH.NrOfChannels /\ Chans(g) = Chans(FH) /\ g.SameSegAllCh = FH.SameSegAllCh
    <3>1. g.Seg \in [Kinds -> SegRecords]
      <4> HIDE DEF g, t
      <4> QED BY <2>2, <2>3, <2>5
    <3> QED BY <3>1, <2>3, <1>0, <1>4 DEF Headers, Chans
  <2>7. CASE Stop("InvalidSegmentLength")
    <3>1. err' \in Errors /\ pc' = "answer"
      BY <2>7 DEF Stop, Errors
    <3> QED BY <3>1, <2>1, <2>6, HasStopped
  <2>8. CASE /\ ValidLength(S.Resolution * RESOL * v)
             /\ cur' = [cur EXCEPT !.DefinedBits = @ + S.Resolution * RESOL * v,
                                      !.MaxSegSize = @ - S.Resolution * v, !.SegNr = @ + 1]
             /\ Goto("EndOfChannel")
    <3> DEFINE c == cur'
               x == S.Resolution * v
               y == S.Resolution * RESOL * v
               s == cur.SegNr
    <3>0. x \in Int /\ y = RESOL * x /\ y \in Int
      <4> DEFINE a == S.Resolution
      <4>1. a \in Int /\ v \in Int /\ RESOL \in Int
        BY <1>0, <2>1
      <4> HIDE DEF a
      <4>2. a * v \in Int /\ a * RESOL * v = RESOL * (a * v) /\ a * RESOL * v \in Int
        BY <4>1
      <4> QED BY <4>2 DEF a
    <3>1. y >= MinLen(t) /\ y <= NrOfBitsPerCh - cur.DefinedBits - MinLen(t)
      BY <2>8 DEF ValidLength
    <3>2. pc' = "EndOfChannel" /\ err' = err
      BY <2>8 DEF Goto
    <3>3. y \in Nat /\ cur.DefinedBits + y \in Nat /\ cur.DefinedBits + y <= NrOfBitsPerCh - MinLen(t)
      <4>1. MinLen(t) \in Nat /\ NrOfBitsPerCh \in Nat
        BY <1>0, RoomIs
      <4> HIDE DEF y, t
      <4> QED BY <4>1, <3>0, <3>1, <1>0
    <3>4. /\ c.t = t /\ c.ChNr = cur.ChNr /\ c.SegNr = s + 1 /\ c.DefinedBits = cur.DefinedBits + y
          /\ c.MaxSegSize = cur.MaxSegSize - x /\ c.ResolRead = 1 /\ c \in SegCur(g)
      <4> HIDE DEF x, g
      <4>1. c = [cur EXCEPT !.DefinedBits = @ + y, !.MaxSegSize = @ - x, !.SegNr = @ + 1]
        BY <2>8 DEF x
      <4> HIDE DEF y, c, s
      <4>2. cur.DefinedBits + y \in Nat /\ cur.MaxSegSize - x \in Int /\ cur.SegNr + 1 \in Nat
        BY <1>0, <3>0, <3>3
      <4>3. /\ c.t = t /\ c.ChNr = cur.ChNr /\ c.SegNr = cur.SegNr + 1 /\ c.DefinedBits = cur.DefinedBits + y
            /\ c.MaxSegSize = cur.MaxSegSize - x /\ c.ResolRead = 1
        BY <4>1, <1>0 DEF SegCur
      <4>4. c \in SegCur(g)
        BY <4>1, <4>2, <1>0, <2>6 DEF SegCur
      <4> QED BY <4>3, <4>4 DEF s
    <3>5. s + 1 <= MaxSegs(t)
      BY <1>0
    <3>6. t = "P" => Cut(g, "F")
      <4> SUFFICES ASSUME t = "P" PROVE Cut(g, "F")
        OBVIOUS
      <4>1. Cut(FH, "F") /\ "F" \in Kinds /\ g.Seg["F"] = FH.Seg["F"]
        BY <1>0, <2>5 DEF Cutting, Kinds
      <4> HIDE DEF g
      <4> QED BY <4>1, <1>0, <2>6, CutSame
    <3>7. \A ch \in Chans(FH), j \in 0 .. (MAXNROF_SEGS - 1) :
            ch # cur.ChNr \/ j # s => len[At(ch, j)] = FH.Seg[t].SegmentLen[At(ch, j)]
      <4> TAKE ch \in Chans(FH), j \in 0 .. (MAXNROF_SEGS - 1)
      <4>1. ch \in Nat /\ ch \in 0 .. (MAX_CHANNELS - 1) /\ j \in Seats
        BY <1>0, HeaderIs DEF Seats
      <4>2. At(ch, j) \in Places
        BY <4>1, PlaceOf
      <4>3. ch # cur.ChNr \/ j # s => At(ch, j) # p
        BY <4>1, <1>3, PlaceOf
      <4> HIDE DEF p
      <4> QED BY <4>2, <4>3, <2>4
    <3>8. \A ch \in 0 .. (cur.ChNr - 1) : SegmentsOK(g, t, ch)
      <4> TAKE ch \in 0 .. (cur.ChNr - 1)
      <4>1. ch \in Chans(g) /\ ch \in Chans(FH) /\ ch # cur.ChNr
        BY <1>0, <1>3, <2>6, HeaderIs DEF Chans
      <4>2. SegmentsOK(FH, t, ch)
        BY <1>0 DEF Cutting
      <4>3. \A j \in 0 .. (FH.Seg[t].NrOfSegments[ch] - 2) : FH.Seg[t].SegmentLen[At(ch, j)] = g.Seg[t].SegmentLen[At(ch, j)]
        <5> TAKE j \in 0 .. (FH.Seg[t].NrOfSegments[ch] - 2)
        <5>1. j \in 0 .. (MAXNROF_SEGS - 1)
          BY <4>2, <1>0 DEF SegmentsOK
        <5> QED BY <5>1, <4>1, <3>7, <2>5
      <4>4. g.Seg[t].NrOfSegments[ch] = FH.Seg[t].NrOfSegments[ch] /\ FH.Seg[t].Resolution = g.Seg[t].Resolution
        BY <2>5, <1>0
      <4> HIDE DEF g, t
      <4> QED BY <4>1, <4>2, <4>3, <4>4, <1>0, <2>6, SegmentsFrom
    <3>15. \A j \in 0 .. (s - 1) : FH.Seg[t].SegmentLen[At(cur.ChNr, j)] = g.Seg[t].SegmentLen[At(cur.ChNr, j)]
      <4> TAKE j \in 0 .. (s - 1)
      <4>1. j \in 0 .. (MAXNROF_SEGS - 1) /\ j # s
        BY <1>0
      <4> QED BY <4>1, <1>0, <3>7, <2>5
    <3>9. cur.DefinedBits + y = Ends(g, t, cur.ChNr, s + 1)
      <4>1. cur.DefinedBits = Ends(FH, t, cur.ChNr, s)
        BY <1>0 DEF Cutting
      <4>2. s \in 0 .. (MAXNROF_SEGS + 1) /\ s <= MAXNROF_SEGS
        BY <1>0
      <4>4. FH.Seg[t].Resolution = g.Seg[t].Resolution /\ g.Seg[t].SegmentLen[At(cur.ChNr, s)] = v
        BY <2>5, <2>4, <1>0
      <4>5. g.Seg[t].Resolution * RESOL * g.Seg[t].SegmentLen[At(cur.ChNr, s)] = y
        BY <4>4, <1>0
      <4> HIDE DEF g, t, y, s
      <4>6. Ends(g, t, cur.ChNr, s) = Ends(FH, t, cur.ChNr, s)
        BY <4>2, <3>15, <4>4, <1>0, <2>6, EndsSame
      <4>7. Ends(g, t, cur.ChNr, s + 1) = Ends(g, t, cur.ChNr, s) + g.Seg[t].Resolution * RESOL * g.Seg[t].SegmentLen[At(cur.ChNr, s)]
        BY <4>2, <1>0, <2>6, EndsAre
      <4> QED BY <4>1, <4>5, <4>6, <4>7
    <3>16. SoFar(g, t, cur.ChNr, s + 1)
      <4>1. SoFar(FH, t, cur.ChNr, s) /\ s \in Nat
        BY <1>0 DEF Cutting
      <4>2. FH.Seg[t].Resolution = g.Seg[t].Resolution
        BY <2>5, <1>0
      <4>3. ASSUME NEW m \in 0 .. (s + 1) PROVE Ends(g, t, cur.ChNr, m) <= NrOfBitsPerCh - MinLen(t)
        <5>1. CASE m = s + 1
          <6> HIDE DEF g, t, y, s
          <6> QED BY <5>1, <3>3, <3>9
        <5>2. CASE m # s + 1
          <6>1. m \in 0 .. s /\ m \in 0 .. (MAXNROF_SEGS + 1)
            BY <5>2, <4>1, <1>0
          <6> HIDE DEF g, t, s
          <6>2. \A j \in 0 .. (m - 1) : FH.Seg[t].SegmentLen[At(cur.ChNr, j)] = g.Seg[t].SegmentLen[At(cur.ChNr, j)]
            BY <6>1, <3>15, <4>1
          <6>3. Ends(g, t, cur.ChNr, m) = Ends(FH, t, cur.ChNr, m)
            BY <6>1, <6>2, <4>2, <1>0, <2>6, EndsSame
          <6> QED BY <6>1, <6>3, <4>1 DEF SoFar
        <5> QED BY <5>1, <5>2
      <4>4. g.Seg[t].SegmentLen[At(cur.ChNr, 0)] > 0
        <5>1. CASE s = 0
          <6>1. g.Seg[t].SegmentLen[At(cur.ChNr, 0)] = v
            BY <5>1, <2>4, <2>5
          <6>2. v # 0
            <7> SUFFICES ASSUME v = 0 PROVE FALSE
              OBVIOUS
            <7>1. x = 0 /\ y = 0
              BY <3>0, <1>0
            <7>2. MinLen(t) > 0
              BY <1>0, Constants
            <7> HIDE DEF y
            <7> QED BY <7>1, <7>2, <3>1, <1>0, Constants
          <6> QED BY <6>1, <6>2, <2>1
        <5>2. CASE s # 0
          <6>1. 0 \in 0 .. (s - 1) /\ s > 0
            BY <5>2, <4>1
          <6> HIDE DEF g, t, s
          <6> QED BY <6>1, <3>15, <4>1 DEF SoFar
        <5> QED BY <5>1, <5>2
      <4> HIDE DEF g, t, s
      <4> QED BY <4>3, <4>4 DEF SoFar
    <3>10. RESOL * (cur.MaxSegSize - x) + (cur.DefinedBits + y) = RESOL * Room(t)
      <4>1. RESOL * cur.MaxSegSize + cur.DefinedBits = RESOL * Room(t)
        BY <1>0 DEF Cutting
      <4> DEFINE m == cur.MaxSegSize
                 d == cur.DefinedBits
      <4>2. m \in Int /\ d \in Int /\ RESOL \in Int
        BY <1>0
      <4> HIDE DEF x, y, m, d
      <4>3. RESOL * (m - x) = RESOL * m - RESOL * x
        BY <4>2, <3>0
      <4>4. RESOL * m \in Int /\ RESOL * x \in Int
        BY <4>2, <3>0
      <4>5. RESOL * (m - x) + (d + y) = RESOL * m + d
        BY <4>2, <4>3, <4>4, <3>0
      <4> QED BY <4>1, <4>5 DEF m, d
    <3>11. FH.SameSegAllCh[t] = 1 => cur.ChNr = 0
      BY <1>0 DEF Cutting
    <3>12. g.Seg[t].Resolution > 0
      BY <2>5, <1>0
    <3>13. Cutting(g, c, "EndOfChannel")
      <4> HIDE DEF g, c, t, x, y, s
      <4>1. c.SegNr <= MaxSegs(c.t) /\ c.DefinedBits = Ends(g, c.t, c.ChNr, c.SegNr)
            /\ c.DefinedBits <= NrOfBitsPerCh - MinLen(c.t) /\ RESOL * c.MaxSegSize + c.DefinedBits = RESOL * Room(c.t)
        BY <3>3, <3>4, <3>5, <3>9, <3>10
      <4>2. \A ch \in 0 .. (c.ChNr - 1) : SegmentsOK(g, c.t, ch)
        BY <3>4, <3>8
      <4>3. (c.t = "P" => Cut(g, "F")) /\ (g.SameSegAllCh[c.t] = 1 => c.ChNr = 0) /\ g.Seg[c.t].Resolution > 0
        BY <3>4, <3>6, <3>11, <3>12, <2>6
      <4>4. SoFar(g, c.t, c.ChNr, c.SegNr)
        BY <3>4, <3>16
      <4> QED BY <4>1, <4>2, <4>3, <4>4, <3>4 DEF Cutting
    <3>14. Unpacked(g, c, "EndOfChannel")
      <4> HIDE DEF g, c
      <4> QED BY <2>6, <3>13 DEF Unpacked, Pcs, SegPcs, MapPcs, TablePcs
    <3> QED BY <1>0, <2>1, <3>2, <3>14 DEF TablesInv, Positions
  <2> QED BY <1>4, <2>7, <2>8
<1> QED
  <2>1. ReadSegmentLen =>
        \/ Stop("NegativeBitAllocation") /\ UNCHANGED <<FH, SD, cur>>
        \/ \E v \in Bits(n) :
             /\ SD' = [SD EXCEPT !.pos = @ + n] /\ FH' = [FH EXCEPT !.Seg[t].SegmentLen[p] = v]
             /\ \/ Stop("InvalidSegmentLength")
                \/ /\ ValidLength(S.Resolution * RESOL * v)
                   /\ cur' = [cur EXCEPT !.DefinedBits = @ + S.Resolution * RESOL * v,
                                      !.MaxSegSize = @ - S.Resolution * v, !.SegNr = @ + 1]
                   /\ Goto("EndOfChannel")
    BY DEF ReadSegmentLen, Field, FIO_BitGet, n
  <2> QED BY <2>1, <1>2, <1>4

-----------------------------------------------------------------------------
(* Which table each segment uses.                                             *)
LEMMA MappedFrom ==
    ASSUME NEW h \in Headers, NEW g \in Headers, NEW t \in Kinds, NEW u \in Kinds,
           g.NrOfChannels = h.NrOfChannels, Mapped(h, t),
           g.NrOfTables[u] = h.NrOfTables[t],
           \A ch \in Chans(h) : /\ g.Seg[u].NrOfSegments[ch] = h.Seg[t].NrOfSegments[ch]
                                /\ \A s \in 0 .. (h.Seg[t].NrOfSegments[ch] - 1) :
                                     g.Seg[u].Table4Segment[At(ch, s)] = h.Seg[t].Table4Segment[At(ch, s)]
    PROVE  Mapped(g, u)
<1>1. Chans(g) = Chans(h)
  BY DEF Chans
<1> QED
  BY <1>1 DEF Mapped, Uses

LEMMA MappedSame ==
    ASSUME NEW h \in Headers, NEW g \in Headers, NEW t \in Kinds,
           g.NrOfChannels = h.NrOfChannels, Mapped(h, t),
           g.NrOfTables[t] = h.NrOfTables[t],
           g.Seg[t].NrOfSegments = h.Seg[t].NrOfSegments,
           g.Seg[t].Table4Segment = h.Seg[t].Table4Segment
    PROVE  Mapped(g, t)
  BY MappedFrom

LEMMA UsedPlaces ==
    ASSUME NEW h \in Headers, NEW t \in Kinds, Cut(h, t)
    PROVE  \A ch \in Chans(h) :
             /\ h.Seg[t].NrOfSegments[ch] \in 1 .. (MAXNROF_SEGS + 1)
             /\ \A s \in 0 .. (h.Seg[t].NrOfSegments[ch] - 1) : At(ch, s) \in Places /\ s \in Seats
<1> TAKE ch \in Chans(h)
<1>1. h.Seg[t].NrOfSegments[ch] \in 1 .. (MAXNROF_SEGS + 1) /\ MAXNROF_SEGS \in Nat /\ ch \in 0 .. (MAX_CHANNELS - 1)
  BY Constants, HeaderIs DEF Cut, SegmentsOK
<1>2. \A s \in 0 .. (h.Seg[t].NrOfSegments[ch] - 1) : s \in Seats
  BY <1>1 DEF Seats
<1> QED
  BY <1>1, <1>2, PlaceOf

(* A table of numbers written at its first place.                             *)
LEMMA SetTable4Segment ==
    ASSUME NEW h \in Headers, NEW t \in Kinds, NEW row \in [Places -> Int],
           NEW g, g = [h EXCEPT !.Seg[t].Table4Segment = row]
    PROVE  /\ g \in Headers /\ g.NrOfChannels = h.NrOfChannels /\ g.NrOfTables = h.NrOfTables
           /\ g.SameMapAllCh = h.SameMapAllCh /\ g.PSameMapAsF = h.PSameMapAsF
           /\ g.Seg[t].Table4Segment = row
           /\ g.Seg[t].NrOfSegments = h.Seg[t].NrOfSegments
           /\ \A u \in Kinds : u # t => g.Seg[u] = h.Seg[u]
           /\ \A u \in Kinds : Cut(h, u) => Cut(g, u)
<1>1. g.Seg = [h.Seg EXCEPT ![t] = [@ EXCEPT !.Table4Segment = row]]
  BY DEF Headers
<1>2. h.Seg \in [Kinds -> SegRecords] /\ h.Seg[t] \in SegRecords
  BY HeaderIs
<1>3. g.Seg[t] = [h.Seg[t] EXCEPT !.Table4Segment = row] /\ \A u \in Kinds : u # t => g.Seg[u] = h.Seg[u]
  BY <1>1, <1>2
<1>4. /\ g.Seg[t] \in SegRecords /\ g.Seg[t].Table4Segment = row
      /\ g.Seg[t].NrOfSegments = h.Seg[t].NrOfSegments /\ g.Seg[t].SegmentLen = h.Seg[t].SegmentLen
      /\ g.Seg[t].Resolution = h.Seg[t].Resolution
  BY <1>2, <1>3 DEF SegRecords
<1>5. g.Seg \in [Kinds -> SegRecords]
  BY <1>1, <1>2, <1>3, <1>4
<1>6. /\ g \in Headers /\ g.NrOfChannels = h.NrOfChannels /\ g.NrOfTables = h.NrOfTables
      /\ g.SameMapAllCh = h.SameMapAllCh /\ g.PSameMapAsF = h.PSameMapAsF
  BY <1>1, <1>5 DEF Headers
<1>7. ASSUME NEW u \in Kinds, Cut(h, u) PROVE Cut(g, u)
  <2>1. /\ g.Seg[u].Resolution = h.Seg[u].Resolution
        /\ g.Seg[u].SegmentLen = h.Seg[u].SegmentLen
        /\ g.Seg[u].NrOfSegments = h.Seg[u].NrOfSegments
    BY <1>3, <1>4
  <2> QED BY <2>1, <1>6, <1>7, CutSame
<1> QED
  BY <1>3, <1>4, <1>6, <1>7

LEMMA HalfProbStarted ==
    ASSUME NEW h \in Headers, \A t \in Kinds : Cut(h, t) /\ Mapped(h, t)
    PROVE  Unpacked(h, [ChNr |-> 0], "HalfProb")
<1>1. [ChNr |-> 0] \in [ChNr : Chans(h)]
  <2>1. 0 \in Chans(h)
    BY HeaderIs
  <2> QED BY <2>1
<1> QED
  BY <1>1 DEF Unpacked, Pcs, SegPcs, MapPcs, TablePcs

LEMMA MappingStarted ==
    ASSUME NEW h \in Headers, NEW t \in Kinds, \A u \in Kinds : Cut(h, u), t = "P" => Mapped(h, "F"),
           h.Seg[t].Table4Segment[0] = 0
    PROVE  Unpacked(h, StartMapping(t), "SameMapAllCh")
<1> DEFINE c == StartMapping(t)
<1>1. c = [t |-> t, ChNr |-> 0, SegNr |-> 0, CountTables |-> 1]
  BY DEF StartMapping
<1>2. c.t = t /\ c \in MapCur(h) /\ c = StartMapping(c.t)
  <2>1. 0 \in Chans(h) /\ 1 \in Nat \ {0}
    BY HeaderIs
  <2> QED BY <1>1, <2>1 DEF MapCur
<1> HIDE DEF c
<1>3. Mapping(h, c, "SameMapAllCh")
  BY <1>2 DEF Mapping
<1> QED
  BY <1>3 DEF c, Unpacked, Pcs, SegPcs, MapPcs, TablePcs

LEMMA CopyMappingDataUnpacked ==
    ASSUME FH \in Headers, err \in Errors, NEW h \in Headers, h.NrOfChannels = FH.NrOfChannels,
           \A t \in Kinds : Cut(h, t), Mapped(h, "F"), CopyMappingData(h)
    PROVE  Unpacked(FH', cur', pc') /\ err' \in Errors
<1> DEFINE F == h.Seg["F"]
           P == h.Seg["P"]
           used == UNION {{At(c, i) : i \in 0..(F.NrOfSegments[c] - 1)} : c \in Channels}
           row == [p \in Places |-> IF p \in used THEN F.Table4Segment[p] ELSE P.Table4Segment[p]]
           m == [h EXCEPT !.NrOfTables["P"] = h.NrOfTables["F"]]
           g == [m EXCEPT !.Seg["P"].Table4Segment = row]
<1>1. /\ F \in SegRecords /\ P \in SegRecords /\ "P" \in Kinds /\ "F" \in Kinds /\ "P" # "F" /\ Chans(h) = Channels
      /\ F.Table4Segment \in [Places -> Int] /\ P.Table4Segment \in [Places -> Int] /\ h.NrOfTables["F"] \in Int
  BY HeaderIs DEF Kinds, Chans, Channels
<1>2. row \in [Places -> Int]
  <2> HIDE DEF F, P, used
  <2> QED BY <1>1
<1>3. (\E e \in Errors : Refuse(e))
      \/ (/\ \A c \in Channels : F.NrOfSegments[c] = P.NrOfSegments[c]
          /\ FH' = g /\ cur' = [ChNr |-> 0] /\ pc' = "HalfProb" /\ err' = err)
  <2>1. "SegmentNumberMismatch" \in Errors /\ DOMAIN P.Table4Segment = Places
    BY <1>1 DEF Errors
  <2>2. [h EXCEPT !.NrOfTables["P"] = h.NrOfTables["F"], !.Seg["P"].Table4Segment = row] = g
    <3> HIDE DEF row
    <3> QED BY DEF Headers
  <2> QED BY <2>1, <2>2 DEF CopyMappingData, StartHalfProb, Goto
<1>4. CASE \E e \in Errors : Refuse(e)
  BY <1>4, Refused
<1>5. CASE /\ \A c \in Channels : F.NrOfSegments[c] = P.NrOfSegments[c]
           /\ FH' = g /\ cur' = [ChNr |-> 0] /\ pc' = "HalfProb" /\ err' = err
  <2> HIDE DEF row
  <2>1. /\ m \in Headers /\ m.NrOfChannels = h.NrOfChannels /\ m.Seg = h.Seg /\ Chans(m) = Chans(h)
        /\ m.NrOfTables["F"] = h.NrOfTables["F"] /\ m.NrOfTables["P"] = h.NrOfTables["F"]
    BY <1>1 DEF Headers, Chans
  <2> HIDE DEF m
  <2>2. \A t \in Kinds : Cut(m, t)
    BY <2>1, CutSame
  <2>3. /\ g \in Headers /\ g.NrOfChannels = m.NrOfChannels /\ g.NrOfTables = m.NrOfTables
        /\ g.Seg["P"].Table4Segment = row /\ g.Seg["P"].NrOfSegments = m.Seg["P"].NrOfSegments
        /\ g.Seg["F"] = m.Seg["F"] /\ \A u \in Kinds : Cut(m, u) => Cut(g, u)
    BY <1>1, <1>2, <2>1, SetTable4Segment
  <2> HIDE DEF g
  <2>4. Mapped(g, "F")
    BY <1>1, <2>1, <2>3, MappedSame
  <2>5. \A ch \in Chans(h) : /\ g.Seg["P"].NrOfSegments[ch] = h.Seg["F"].NrOfSegments[ch]
                             /\ \A s \in 0 .. (h.Seg["F"].NrOfSegments[ch] - 1) :
                                  g.Seg["P"].Table4Segment[At(ch, s)] = h.Seg["F"].Table4Segment[At(ch, s)]
    <3> TAKE ch \in Chans(h)
    <3>1. g.Seg["P"].NrOfSegments[ch] = F.NrOfSegments[ch]
      BY <1>1, <1>5, <2>1, <2>3
    <3>2. ASSUME NEW s \in 0 .. (F.NrOfSegments[ch] - 1) PROVE row[At(ch, s)] = F.Table4Segment[At(ch, s)]
      <4>1. At(ch, s) \in Places
        BY <1>1, UsedPlaces
      <4>2. At(ch, s) \in used
        BY <1>1
      <4> HIDE DEF used, F, P
      <4> QED BY <4>1, <4>2 DEF row
    <3> QED BY <3>1, <3>2, <2>3
  <2>6. Mapped(g, "P")
    BY <1>1, <2>1, <2>3, <2>5, MappedFrom
  <2>7. \A t \in Kinds : Cut(g, t) /\ Mapped(g, t)
    BY <2>2, <2>3, <2>4, <2>6 DEF Kinds
  <2> QED BY <1>5, <2>3, <2>7, HalfProbStarted
<1> QED
  BY <1>3, <1>4, <1>5

-----------------------------------------------------------------------------
LEMMA MappingReadUnpacked ==
    ASSUME FH \in Headers, err \in Errors, NEW h \in Headers, h.NrOfChannels = FH.NrOfChannels,
           cur.t \in Kinds, \A t \in Kinds : Cut(h, t), cur.t = "P" => Mapped(h, "F"),
           NEW count \in Nat \ {0},
           \A ch \in Chans(h) : h.SameMapAllCh[cur.t] # 1 \/ ch = 0 =>
             \A s \in 0 .. (h.Seg[cur.t].NrOfSegments[ch] - 1) :
               h.Seg[cur.t].Table4Segment[At(ch, s)] \in 0 .. (count - 1),
           MappingRead(h, count)
    PROVE  Unpacked(FH', cur', pc') /\ err' \in Errors
<1> DEFINE t == cur.t
           T == h.Seg[t]
           same == h.SameMapAllCh[t] = 1
           row == IF same THEN CopyRow(T.Table4Segment, T.NrOfSegments[0]) ELSE T.Table4Segment
           m == [h EXCEPT !.NrOfTables[t] = count]
           g == [m EXCEPT !.Seg[t].Table4Segment = row]
<1>1. /\ t \in Kinds /\ T \in SegRecords /\ T.Table4Segment \in [Places -> Int] /\ Chans(h) = Channels
      /\ 0 \in Chans(h) /\ \A ch \in Chans(h) : T.NrOfSegments[ch] \in 1 .. (MAXNROF_SEGS + 1)
  BY HeaderIs, UsedPlaces DEF Chans, Channels
<1>2. CASE \E e \in Errors : Refuse(e)
  BY <1>2, Refused
<1>3. CASE /\ same => \A c \in Channels : T.NrOfSegments[c] = T.NrOfSegments[0]
           /\ ~(count > MaxNrOfTables)
           /\ \/ t = "P" /\ FH' = g /\ StartHalfProb
              \/ t # "P" /\ CopyMappingData(g)
              \/ /\ t # "P" /\ FH' = [g EXCEPT !.Seg["P"].Table4Segment[0] = 0]
                 /\ cur' = StartMapping("P") /\ Goto("SameMapAllCh")
  <2>1. Shaped
    BY DEF Headers, Shaped
  <2>2. T.NrOfSegments[0] \in 1 .. (MAXNROF_SEGS + 1)
    BY <1>1
  <2>3. row \in [Places -> Int]
    <3>1. CopyRow(T.Table4Segment, T.NrOfSegments[0]) \in [Places -> Int]
      BY <1>1, <2>1, <2>2, CopyRowIs
    <3> QED BY <1>1, <3>1
  <2>4. \A ch \in Chans(h) : \A s \in 0 .. (T.NrOfSegments[ch] - 1) : row[At(ch, s)] \in 0 .. (count - 1)
    <3> TAKE ch \in Chans(h)
    <3> TAKE s \in 0 .. (T.NrOfSegments[ch] - 1)
    <3>1. CASE ~same
      BY <3>1, <1>1
    <3>2. CASE same
      <4>1. s \in 0 .. (T.NrOfSegments[0] - 1) /\ ch \in Channels
        BY <1>1, <1>3, <3>2
      <4>2. \E i \in 0 .. (T.NrOfSegments[0] - 1) : row[At(ch, s)] = T.Table4Segment[At(0, i)]
        <5> DEFINE r == T.Table4Segment
                   n == T.NrOfSegments[0]
                   k == CopyRow(r, n)
        <5>1. r \in [Places -> Int] /\ n \in 1 .. (MAXNROF_SEGS + 1)
          BY <1>1, <2>2
        <5>2. row = k
          BY <3>2
        <5> HIDE DEF r, n, row
        <5>3. \A d \in Channels, j \in 0 .. (n - 1) : \E i \in 0 .. (n - 1) : k[At(d, j)] = r[At(0, i)]
          BY <5>1, <2>1, CopyRowIs
        <5>4. s \in 0 .. (n - 1)
          BY <4>1 DEF n
        <5>5. \E i \in 0 .. (n - 1) : row[At(ch, s)] = r[At(0, i)]
          <6> HIDE DEF k
          <6> QED BY <5>2, <5>3, <5>4, <4>1
        <5> QED BY <5>5 DEF r, n
      <4> HIDE DEF row
      <4> QED BY <4>2, <1>1
    <3> QED BY <3>1, <3>2
  <2> HIDE DEF row
  <2>5. /\ m \in Headers /\ m.NrOfChannels = h.NrOfChannels /\ m.Seg = h.Seg /\ Chans(m) = Chans(h)
        /\ m.NrOfTables[t] = count /\ \A u \in Kinds : u # t => m.NrOfTables[u] = h.NrOfTables[u]
    <3>1. count \in Int
      OBVIOUS
    <3> QED BY <3>1, <1>1 DEF Headers, Chans
  <2> HIDE DEF m
  <2>6. \A u \in Kinds : Cut(m, u)
    BY <2>5, CutSame
  <2>7. /\ g \in Headers /\ g.NrOfChannels = m.NrOfChannels /\ g.NrOfTables = m.NrOfTables
        /\ g.Seg[t].Table4Segment = row /\ g.Seg[t].NrOfSegments = m.Seg[t].NrOfSegments
        /\ (\A u \in Kinds : u # t => g.Seg[u] = m.Seg[u]) /\ \A u \in Kinds : Cut(m, u) => Cut(g, u)
    BY <1>1, <2>3, <2>5, SetTable4Segment
  <2> HIDE DEF g
  <2>8. Mapped(g, t)
    <3>1. count \in 1 .. (2 * g.NrOfChannels)
      <4>1. MaxNrOfTables = 2 * g.NrOfChannels /\ g.NrOfChannels \in Nat
        BY <2>5, <2>7, HeaderIs DEF MaxNrOfTables
      <4> QED BY <4>1, <1>3
    <3>2. Chans(g) = Chans(h) /\ g.NrOfTables[t] = count
      BY <2>5, <2>7 DEF Chans
    <3>3. \A ch \in Chans(g) : \A s \in 0 .. (g.Seg[t].NrOfSegments[ch] - 1) :
                    g.Seg[t].Table4Segment[At(ch, s)] \in 0 .. (count - 1)
      BY <2>4, <2>5, <2>7, <3>2
    <3> QED BY <3>1, <3>2, <3>3 DEF Mapped, Uses
  <2>9. t = "P" => Mapped(g, "F")
    <3> SUFFICES ASSUME t = "P" PROVE Mapped(g, "F")
      OBVIOUS
    <3>1. "F" \in Kinds /\ "F" # t /\ Mapped(h, "F")
      BY DEF Kinds
    <3>2. g.Seg["F"] = h.Seg["F"] /\ g.NrOfTables["F"] = h.NrOfTables["F"] /\ g.NrOfChannels = h.NrOfChannels
      BY <2>5, <2>7, <3>1
    <3> QED BY <3>1, <3>2, <2>7, MappedSame
  <2>10. CASE t = "P" /\ FH' = g /\ StartHalfProb
    <3>1. cur' = [ChNr |-> 0] /\ pc' = "HalfProb" /\ err' = err
      BY <2>10 DEF StartHalfProb, Goto
    <3>2. \A u \in Kinds : Cut(g, u) /\ Mapped(g, u)
      BY <2>6, <2>7, <2>8, <2>9, <2>10 DEF Kinds
    <3> QED BY <3>1, <3>2, <2>7, <2>10, HalfProbStarted
  <2>11. CASE t # "P" /\ CopyMappingData(g)
    <3>1. t = "F"
      BY <2>11, <1>1 DEF Kinds
    <3> QED BY <3>1, <2>5, <2>6, <2>7, <2>8, <2>11, CopyMappingDataUnpacked
  <2>12. CASE /\ t # "P" /\ FH' = [g EXCEPT !.Seg["P"].Table4Segment[0] = 0]
              /\ cur' = StartMapping("P") /\ Goto("SameMapAllCh")
    <3>1. t = "F" /\ "P" \in Kinds /\ "F" \in Kinds /\ "P" # "F"
      BY <2>12, <1>1 DEF Kinds
    <3> DEFINE zero == [g.Seg["P"].Table4Segment EXCEPT ![0] = 0]
               f == [g EXCEPT !.Seg["P"].Table4Segment = zero]
    <3>2. zero \in [Places -> Int] /\ zero[0] = 0
      <4>1. g.Seg["P"].Table4Segment \in [Places -> Int]
        BY <2>7, <3>1, HeaderIs
      <4> QED BY <4>1, PlaceZero
    <3>3. FH' = f
      BY <2>7, <2>12 DEF Headers
    <3> HIDE DEF zero
    <3>4. /\ f \in Headers /\ f.NrOfChannels = g.NrOfChannels /\ f.NrOfTables = g.NrOfTables
          /\ f.Seg["P"].Table4Segment = zero /\ (\A u \in Kinds : u # "P" => f.Seg[u] = g.Seg[u])
          /\ \A u \in Kinds : Cut(g, u) => Cut(f, u)
      <4> DEFINE p == "P"
      <4>1. p \in Kinds /\ g \in Headers /\ f = [g EXCEPT !.Seg[p].Table4Segment = zero]
        BY <2>7, <3>1
      <4> HIDE DEF p, f
      <4>2. f.Seg[p].Table4Segment = zero
        BY <4>1 DEF Headers, SegRecords
      <4>3. /\ f \in Headers /\ f.NrOfChannels = g.NrOfChannels /\ f.NrOfTables = g.NrOfTables
            /\ (\A u \in Kinds : u # p => f.Seg[u] = g.Seg[u])
            /\ \A u \in Kinds : Cut(g, u) => Cut(f, u)
        BY <4>1, <3>2, SetTable4Segment
      <4> QED BY <4>2, <4>3 DEF p
    <3> HIDE DEF f
    <3>5. Mapped(f, "F")
      BY <2>7, <2>8, <3>1, <3>4, MappedSame
    <3>6. Unpacked(f, StartMapping("P"), "SameMapAllCh")
      BY <2>6, <2>7, <3>1, <3>2, <3>4, <3>5, MappingStarted
    <3> QED BY <2>12, <3>3, <3>6 DEF Goto
  <2> QED BY <1>3, <2>10, <2>11, <2>12
<1> QED
  <2>1. [h EXCEPT !.NrOfTables[t] = count,
                  !.Seg[t].Table4Segment = IF same THEN CopyRow(@, T.NrOfSegments[0]) ELSE @] = g
    BY <1>1 DEF Headers, SegRecords
  <2>2. "InvalidChannelMapping" \in Errors /\ "TooManyTables" \in Errors
    BY DEF Errors
  <2> HIDE DEF g
  <2> QED BY <2>1, <2>2, <1>2, <1>3 DEF MappingRead

LEMMA NextMappingUnpacked ==
    ASSUME FH \in Headers, err \in Errors, NEW h \in Headers, h.NrOfChannels = FH.NrOfChannels,
           cur \in MapCur(h), \A t \in Kinds : Cut(h, t), cur.t = "P" => Mapped(h, "F"),
           h.SameMapAllCh[cur.t] = 1 => cur.ChNr = 0,
           cur.SegNr < h.Seg[cur.t].NrOfSegments[cur.ChNr],
           NEW count \in Nat \ {0},
           \A ch \in Chans(h) : \A s \in 0 .. (h.Seg[cur.t].NrOfSegments[ch] - 1) :
             Before(cur, ch, s) \/ (ch = cur.ChNr /\ s = cur.SegNr) =>
               h.Seg[cur.t].Table4Segment[At(ch, s)] \in 0 .. (count - 1),
           NextMapping(h, count)
    PROVE  Unpacked(FH', cur', pc') /\ err' \in Errors
<1> DEFINE t == cur.t
           T == h.Seg[t]
<1>1. /\ t \in Kinds /\ cur.ChNr \in Chans(h) /\ cur.SegNr \in Nat /\ Chans(h) \subseteq Nat
      /\ \A ch \in Chans(h) : T.NrOfSegments[ch] \in 1 .. (MAXNROF_SEGS + 1)
      /\ MAXNROF_SEGS \in Nat
  BY HeaderIs, UsedPlaces, Constants DEF MapCur
<1>2. ASSUME NEW ch \in Chans(h), NEW seg \in Nat, seg < T.NrOfSegments[ch],
             h.SameMapAllCh[t] = 1 => ch = 0,
             FH' = h, Goto("Table4Segment"), cur' = [cur EXCEPT !.ChNr = ch, !.SegNr = seg, !.CountTables = count],
             \A d \in Chans(h) : \A s \in 0 .. (T.NrOfSegments[d] - 1) :
               d < ch \/ (d = ch /\ s < seg) => Before(cur, d, s) \/ (d = cur.ChNr /\ s = cur.SegNr)
      PROVE  Unpacked(FH', cur', pc') /\ err' \in Errors
  <2> DEFINE c == cur'
  <2>1. c.t = t /\ c.ChNr = ch /\ c.SegNr = seg /\ c.CountTables = count /\ c \in MapCur(h)
    BY <1>2 DEF MapCur
  <2> HIDE DEF c
  <2>2. \A d \in Chans(h) : \A s \in 0 .. (T.NrOfSegments[d] - 1) :
          Before(c, d, s) => T.Table4Segment[At(d, s)] \in 0 .. (count - 1)
    BY <2>1, <1>2 DEF Before
  <2>3. Mapping(h, c, "Table4Segment")
    BY <2>1, <2>2, <1>2 DEF Mapping
  <2>4. Unpacked(h, c, "Table4Segment")
    BY <2>3 DEF Unpacked, Pcs, SegPcs, MapPcs, TablePcs
  <2> QED BY <2>4, <1>2 DEF c, Goto
<1>3. CASE cur.SegNr + 1 < T.NrOfSegments[cur.ChNr]
  <2>1. FH' = h /\ Goto("Table4Segment") /\ cur' = [cur EXCEPT !.ChNr = cur.ChNr, !.SegNr = cur.SegNr + 1, !.CountTables = count]
    BY <1>3 DEF NextMapping
  <2>2. \A d \in Chans(h) : \A s \in 0 .. (T.NrOfSegments[d] - 1) :
               d < cur.ChNr \/ (d = cur.ChNr /\ s < cur.SegNr + 1) => Before(cur, d, s) \/ (d = cur.ChNr /\ s = cur.SegNr)
    BY <1>1 DEF Before
  <2>3. cur.SegNr + 1 \in Nat
    BY <1>1
  <2> QED BY <1>1, <1>2, <1>3, <2>1, <2>2, <2>3
<1>4. CASE /\ ~(cur.SegNr + 1 < T.NrOfSegments[cur.ChNr])
           /\ h.SameMapAllCh[t] # 1 /\ cur.ChNr + 1 < h.NrOfChannels
  <2>1. FH' = h /\ Goto("Table4Segment") /\ cur' = [cur EXCEPT !.ChNr = cur.ChNr + 1, !.SegNr = 0, !.CountTables = count]
    BY <1>4 DEF NextMapping
  <2>2. cur.ChNr + 1 \in Chans(h) /\ 0 \in Nat
    BY <1>1, <1>4, HeaderIs DEF Chans
  <2>3. 0 < T.NrOfSegments[cur.ChNr + 1]
    BY <1>1, <2>2
  <2>4. ASSUME NEW d \in Chans(h), NEW s \in 0 .. (T.NrOfSegments[d] - 1),
               d < cur.ChNr + 1 \/ (d = cur.ChNr + 1 /\ s < 0)
        PROVE  Before(cur, d, s) \/ (d = cur.ChNr /\ s = cur.SegNr)
    <3>1. d < cur.ChNr \/ d = cur.ChNr
      BY <1>1, <2>4
    <3>2. T.NrOfSegments[d] \in Int /\ T.NrOfSegments[cur.ChNr] \in Int
      BY <1>1
    <3> QED BY <3>1, <3>2, <1>1, <1>4 DEF Before
  <2> QED BY <1>2, <1>4, <2>1, <2>2, <2>3, <2>4
<1>5. CASE /\ ~(cur.SegNr + 1 < T.NrOfSegments[cur.ChNr])
           /\ ~(h.SameMapAllCh[t] # 1 /\ cur.ChNr + 1 < h.NrOfChannels)
  <2>1. MappingRead(h, count)
    BY <1>5 DEF NextMapping
  <2>2. ASSUME NEW ch \in Chans(h), h.SameMapAllCh[t] # 1 \/ ch = 0,
               NEW s \in 0 .. (T.NrOfSegments[ch] - 1)
        PROVE  T.Table4Segment[At(ch, s)] \in 0 .. (count - 1)
    <3>1. ch < cur.ChNr \/ ch = cur.ChNr
      <4>1. CASE h.SameMapAllCh[t] = 1
        BY <4>1, <2>2, <1>1
      <4>2. CASE h.SameMapAllCh[t] # 1
        <5>1. ch <= h.NrOfChannels - 1 /\ cur.ChNr + 1 >= h.NrOfChannels /\ h.NrOfChannels \in Nat /\ ch \in Nat
          BY <4>2, <1>1, <1>5, HeaderIs DEF Chans
        <5> QED BY <5>1, <1>1
      <4> QED BY <4>1, <4>2
    <3>2. T.NrOfSegments[ch] \in Int /\ T.NrOfSegments[cur.ChNr] \in Int
      BY <1>1
    <3>3. Before(cur, ch, s) \/ (ch = cur.ChNr /\ s = cur.SegNr)
      BY <3>1, <3>2, <1>1, <1>5 DEF Before
    <3> QED BY <3>3
  <2> QED BY <2>1, <2>2, <1>1, MappingReadUnpacked
<1> QED
  BY <1>3, <1>4, <1>5

-----------------------------------------------------------------------------
LEMMA ReadPSameMapAsFInv ==
    ASSUME TablesInv, ReadPSameMapAsF
    PROVE  TablesInv'
<1>0. FH \in Headers /\ SD \in Positions /\ err \in Errors /\ \A t \in Kinds : Cut(FH, t)
  <2>1. pc = "PSameMapAsF"
    BY DEF ReadPSameMapAsF
  <2> QED BY <2>1 DEF TablesInv, Unpacked, Positions
<1>1. CASE Stop("NegativeBitAllocation") /\ UNCHANGED <<FH, SD, cur>>
  BY <1>1, CouldNotRead
<1>2. ASSUME NEW v \in Bits(1), SD' = [SD EXCEPT !.pos = @ + 1],
             FH' = [FH EXCEPT !.PSameMapAsF = v, !.Seg["F"].Table4Segment[0] = 0],
             cur' = StartMapping("F"), Goto("SameMapAllCh")
      PROVE  TablesInv'
  <2>1. SD' \in Positions /\ v \in Int /\ "F" \in Kinds /\ "F" # "P"
    BY <1>0, <1>2, OneBit, PositionIs DEF Kinds
  <2> DEFINE m == [FH EXCEPT !.PSameMapAsF = v]
             zero == [FH.Seg["F"].Table4Segment EXCEPT ![0] = 0]
             g == [m EXCEPT !.Seg["F"].Table4Segment = zero]
  <2>2. m \in Headers /\ m.NrOfChannels = FH.NrOfChannels /\ m.Seg = FH.Seg
    BY <1>0, <2>1, SetDSTCoded
  <2>3. zero \in [Places -> Int] /\ zero[0] = 0
    <3>1. FH.Seg["F"].Table4Segment \in [Places -> Int]
      BY <1>0, <2>1, HeaderIs
    <3> QED BY <3>1, PlaceZero
  <2>4. FH' = g
    BY <1>0, <1>2 DEF Headers
  <2> HIDE DEF m, zero
  <2>5. g.Seg["F"].Table4Segment = zero
    BY <2>1, <2>2 DEF Headers, SegRecords
  <2>6. g \in Headers /\ \A u \in Kinds : Cut(m, u) => Cut(g, u)
    BY <2>1, <2>2, <2>3, SetTable4Segment
  <2> HIDE DEF g
  <2>7. \A u \in Kinds : Cut(g, u)
    BY <1>0, <2>2, <2>6, CutSame
  <2>8. Unpacked(g, StartMapping("F"), "SameMapAllCh")
    BY <2>1, <2>3, <2>5, <2>6, <2>7, MappingStarted
  <2> QED BY <1>0, <1>2, <2>1, <2>4, <2>8 DEF TablesInv, Positions, Goto
<1> QED
  BY <1>1, <1>2 DEF ReadPSameMapAsF, Field, FIO_BitGet

LEMMA ReadSameMapAllChInv ==
    ASSUME TablesInv, ReadSameMapAllCh
    PROVE  TablesInv'
<1>0. /\ FH \in Headers /\ SD \in Positions /\ err \in Errors /\ cur.t \in Kinds /\ cur \in MapCur(FH)
      /\ (\A t \in Kinds : Cut(FH, t)) /\ (cur.t = "P" => Mapped(FH, "F"))
      /\ cur = StartMapping(cur.t) /\ FH.Seg[cur.t].Table4Segment[0] = 0
  <2>1. pc = "SameMapAllCh"
    BY DEF ReadSameMapAllCh
  <2> QED BY <2>1 DEF TablesInv, Unpacked, Positions, MapPcs, Mapping, MapCur
<1>1. CASE Stop("NegativeBitAllocation") /\ UNCHANGED <<FH, SD, cur>>
  BY <1>1, CouldNotRead
<1>2. ASSUME NEW v \in Bits(1), SD' = [SD EXCEPT !.pos = @ + 1],
             NextMapping([FH EXCEPT !.SameMapAllCh[cur.t] = v], 1)
      PROVE  TablesInv'
  <2> DEFINE t == cur.t
             g == [FH EXCEPT !.SameMapAllCh[t] = v]
  <2>1. SD' \in Positions /\ v \in Int
    BY <1>0, <1>2, OneBit, PositionIs
  <2>2. /\ g \in Headers /\ g.NrOfChannels = FH.NrOfChannels /\ g.Seg = FH.Seg /\ g.NrOfTables = FH.NrOfTables
        /\ Chans(g) = Chans(FH)
    BY <1>0, <2>1 DEF Headers, Chans
  <2>3. NextMapping(g, 1)
    BY <1>2
  <2> HIDE DEF g
  <2>4. cur.ChNr = 0 /\ cur.SegNr = 0 /\ cur \in MapCur(g)
    BY <1>0, <2>2 DEF StartMapping, MapCur
  <2>5. \A u \in Kinds : Cut(g, u)
    BY <1>0, <2>2, CutSame
  <2>6. t = "P" => Mapped(g, "F")
    <3>1. "F" \in Kinds
      BY DEF Kinds
    <3> QED BY <3>1, <1>0, <2>2, MappedSame
  <2>7. cur.SegNr < g.Seg[t].NrOfSegments[cur.ChNr]
    <3>1. g.Seg[t].NrOfSegments[0] \in 1 .. (MAXNROF_SEGS + 1)
      BY <1>0, <2>2, <2>5, UsedPlaces, HeaderIs
    <3> QED BY <3>1, <2>4
  <2>8. \A ch \in Chans(g) : \A s \in 0 .. (g.Seg[t].NrOfSegments[ch] - 1) :
             Before(cur, ch, s) \/ (ch = cur.ChNr /\ s = cur.SegNr) =>
               g.Seg[t].Table4Segment[At(ch, s)] \in 0 .. (1 - 1)
    <3> TAKE ch \in Chans(g)
    <3> TAKE s \in 0 .. (g.Seg[t].NrOfSegments[ch] - 1)
    <3>1. ch \in Nat /\ s >= 0
      BY <2>2, HeaderIs
    <3>2. Before(cur, ch, s) \/ (ch = cur.ChNr /\ s = cur.SegNr) => ch = 0 /\ s = 0
      BY <3>1, <2>4 DEF Before
    <3> QED BY <3>2, <1>0, <2>2, PlaceZero
  <2>9. Unpacked(FH', cur', pc') /\ err' \in Errors
    <3>1. 1 \in Nat \ {0}
      OBVIOUS
    <3> QED BY <3>1, <1>0, <2>2, <2>3, <2>4, <2>5, <2>6, <2>7, <2>8, NextMappingUnpacked
  <2> QED BY <2>1, <2>9 DEF TablesInv, Positions
<1> QED
  BY <1>1, <1>2 DEF ReadSameMapAllCh, Field, FIO_BitGet

LEMMA ReadTable4SegmentInv ==
    ASSUME TablesInv, ReadTable4Segment
    PROVE  TablesInv'
<1> DEFINE t == cur.t
           n == Log2RoundUp(cur.CountTables)
           p == At(cur.ChNr, cur.SegNr)
           T == FH.Seg[t]
<1>0. /\ FH \in Headers /\ SD \in Positions /\ err \in Errors /\ t \in Kinds /\ cur \in MapCur(FH)
      /\ (\A u \in Kinds : Cut(FH, u)) /\ (t = "P" => Mapped(FH, "F"))
      /\ cur.ChNr \in Chans(FH) /\ cur.SegNr \in Nat /\ cur.CountTables \in Nat \ {0}
      /\ (FH.SameMapAllCh[t] = 1 => cur.ChNr = 0)
      /\ cur.SegNr < T.NrOfSegments[cur.ChNr]
      /\ \A ch \in Chans(FH) : \A s \in 0 .. (T.NrOfSegments[ch] - 1) :
            Before(cur, ch, s) => T.Table4Segment[At(ch, s)] \in 0 .. (cur.CountTables - 1)
  <2>1. pc = "Table4Segment"
    BY DEF ReadTable4Segment
  <2> QED BY <2>1 DEF TablesInv, Unpacked, Positions, MapPcs, Mapping, MapCur
<1>1. n \in Nat
  BY <1>0, Log2IsNat
<1> HIDE DEF n
<1>2. CASE Stop("NegativeBitAllocation") /\ UNCHANGED <<FH, SD, cur>>
  BY <1>2, CouldNotRead
<1>3. ASSUME NEW v \in Bits(n), SD' = [SD EXCEPT !.pos = @ + n], Refuse("InvalidTableNumber")
      PROVE  TablesInv'
  <2>1. SD' \in Positions /\ "InvalidTableNumber" \in Errors
    BY <1>0, <1>1, <1>3, PositionIs DEF Errors
  <2> QED BY <1>0, <1>3, <2>1, Refused DEF TablesInv, Positions
<1>4. ASSUME NEW v \in Bits(n), SD' = [SD EXCEPT !.pos = @ + n], ~(v > cur.CountTables),
             NextMapping([FH EXCEPT !.Seg[t].Table4Segment[p] = v],
                         IF v = cur.CountTables THEN v + 1 ELSE cur.CountTables)
      PROVE  TablesInv'
  <2> DEFINE count == IF v = cur.CountTables THEN v + 1 ELSE cur.CountTables
             row == [T.Table4Segment EXCEPT ![p] = v]
             g == [FH EXCEPT !.Seg[t].Table4Segment = row]
  <2>1. SD' \in Positions /\ v \in Nat /\ count \in Nat \ {0} /\ v \in 0 .. (count - 1) /\ cur.CountTables <= count
    BY <1>0, <1>1, <1>4, BitsAre, PositionIs
  <2>2. p \in Places /\ T.Table4Segment \in [Places -> Int]
    <3>1. T.NrOfSegments[cur.ChNr] \in 1 .. (MAXNROF_SEGS + 1)
      BY <1>0, UsedPlaces
    <3>2. cur.SegNr \in 0 .. (T.NrOfSegments[cur.ChNr] - 1)
      BY <3>1, <1>0
    <3> QED BY <3>2, <1>0, UsedPlaces, HeaderIs
  <2>3. row \in [Places -> Int] /\ row[p] = v /\ \A q \in Places : q # p => row[q] = T.Table4Segment[q]
    <3> HIDE DEF p, T
    <3> QED BY <2>1, <2>2
  <2>4. [FH EXCEPT !.Seg[t].Table4Segment[p] = v] = g
    <3> HIDE DEF p
    <3> QED BY <1>0 DEF Headers, SegRecords
  <2>5. NextMapping(g, count)
    <3> HIDE DEF g
    <3> QED BY <1>4, <2>4
  <2> HIDE DEF row
  <2>6. g.Seg[t].Table4Segment = row
    BY <1>0 DEF Headers, SegRecords
  <2>7. /\ g \in Headers /\ g.NrOfChannels = FH.NrOfChannels /\ g.NrOfTables = FH.NrOfTables
        /\ g.SameMapAllCh = FH.SameMapAllCh
        /\ g.Seg[t].NrOfSegments = T.NrOfSegments
        /\ (\A u \in Kinds : u # t => g.Seg[u] = FH.Seg[u])
        /\ \A u \in Kinds : Cut(FH, u) => Cut(g, u)
    BY <1>0, <2>3, SetTable4Segment
  <2> HIDE DEF g, count
  <2>8. cur \in MapCur(g) /\ Chans(g) = Chans(FH)
    BY <1>0, <2>7 DEF MapCur, Chans
  <2>9. t = "P" => Mapped(g, "F")
    <3> SUFFICES ASSUME t = "P" PROVE Mapped(g, "F")
      OBVIOUS
    <3>1. "F" \in Kinds /\ "F" # t
      BY DEF Kinds
    <3>2. g.Seg["F"] = FH.Seg["F"] /\ Mapped(FH, "F")
      BY <3>1, <1>0, <2>7
    <3> QED BY <3>1, <3>2, <1>0, <2>7, MappedSame
  <2>10. \A ch \in Chans(g) : \A s \in 0 .. (g.Seg[t].NrOfSegments[ch] - 1) :
             Before(cur, ch, s) \/ (ch = cur.ChNr /\ s = cur.SegNr) =>
               g.Seg[t].Table4Segment[At(ch, s)] \in 0 .. (count - 1)
    <3> TAKE ch \in Chans(g)
    <3> TAKE s \in 0 .. (g.Seg[t].NrOfSegments[ch] - 1)
    <3>1. ch \in Chans(FH) /\ s \in 0 .. (T.NrOfSegments[ch] - 1)
      BY <2>7, <2>8
    <3>2. At(ch, s) \in Places
      BY <3>1, <1>0, UsedPlaces
    <3>3. CASE At(ch, s) = p
      <4> HIDE DEF p
      <4> QED BY <3>3, <2>1, <2>3, <2>6
    <3>4. CASE At(ch, s) # p
      <4>1. ~(ch = cur.ChNr /\ s = cur.SegNr)
        BY <3>4
      <4>2. Before(cur, ch, s) => T.Table4Segment[At(ch, s)] \in 0 .. (cur.CountTables - 1)
        BY <3>1, <1>0
      <4>3. row[At(ch, s)] = T.Table4Segment[At(ch, s)]
        BY <3>2, <3>4, <2>3
      <4>4. 0 .. (cur.CountTables - 1) \subseteq 0 .. (count - 1)
        BY <2>1, <1>0
      <4> HIDE DEF p
      <4> QED BY <4>1, <4>2, <4>3, <4>4, <2>6
    <3> QED BY <3>3, <3>4
  <2>11. Unpacked(FH', cur', pc') /\ err' \in Errors
    BY <1>0, <2>1, <2>5, <2>7, <2>8, <2>9, <2>10, NextMappingUnpacked
  <2> QED BY <2>1, <2>11 DEF TablesInv, Positions
<1> QED
  <2>1. ReadTable4Segment =>
        \/ Stop("NegativeBitAllocation") /\ UNCHANGED <<FH, SD, cur>>
        \/ \E v \in Bits(n) :
             /\ SD' = [SD EXCEPT !.pos = @ + n]
             /\ \/ Refuse("InvalidTableNumber")
                \/ /\ ~(v > cur.CountTables)
                   /\ NextMapping([FH EXCEPT !.Seg[t].Table4Segment[p] = v],
                         IF v = cur.CountTables THEN v + 1 ELSE cur.CountTables)
    BY DEF ReadTable4Segment, Field, FIO_BitGet, n, UndefinedTable
  <2> QED BY <2>1, <1>2, <1>3, <1>4

LEMMA ReadHalfProbInv ==
    ASSUME TablesInv, ReadHalfProb
    PROVE  TablesInv'
<1>0. /\ FH \in Headers /\ SD \in Positions /\ err \in Errors /\ cur \in [ChNr : Chans(FH)]
      /\ \A t \in Kinds : Cut(FH, t) /\ Mapped(FH, t)
  <2>1. pc = "HalfProb"
    BY DEF ReadHalfProb
  <2> QED BY <2>1 DEF TablesInv, Unpacked, Positions
<1>1. CASE Stop("NegativeBitAllocation") /\ UNCHANGED <<FH, SD, cur>>
  BY <1>1, CouldNotRead
<1>2. ASSUME NEW v \in Bits(1), SD' = [SD EXCEPT !.pos = @ + 1], FH' = [FH EXCEPT !.HalfProb[cur.ChNr] = v],
             IF cur.ChNr + 1 < FH.NrOfChannels THEN cur' = [cur EXCEPT !.ChNr = @ + 1] /\ Goto("HalfProb")
             ELSE cur' = StartTable("F", 0) /\ Goto("Len")
      PROVE  TablesInv'
  <2>1. SD' \in Positions /\ v \in Int
    BY <1>0, <1>2, OneBit, PositionIs
  <2>2. FH' \in Headers /\ FH'.NrOfChannels = FH.NrOfChannels /\ FH'.Seg = FH.Seg /\ FH'.NrOfTables = FH.NrOfTables
        /\ Chans(FH') = Chans(FH)
    <3>1. cur.ChNr \in AllChannels
      BY <1>0, HeaderIs
    <3> QED BY <3>1, <1>0, <1>2, <2>1 DEF Headers, Chans
  <2>3. \A t \in Kinds : Cut(FH', t) /\ Mapped(FH', t)
    BY <1>0, <2>2, CutSame, MappedSame
  <2>4. CASE cur.ChNr + 1 < FH.NrOfChannels
    <3>1. cur' = [cur EXCEPT !.ChNr = @ + 1] /\ pc' = "HalfProb" /\ err' = err
      BY <1>2, <2>4 DEF Goto
    <3>2. cur.ChNr + 1 \in Chans(FH')
      BY <1>0, <2>2, <2>4, HeaderIs DEF Chans
    <3>3. cur' \in [ChNr : Chans(FH')]
      BY <1>0, <3>1, <3>2
    <3>4. Unpacked(FH', cur', pc')
      BY <2>2, <2>3, <3>1, <3>3 DEF Unpacked, Pcs, SegPcs, MapPcs, TablePcs
    <3> QED BY <1>0, <2>1, <3>1, <3>4 DEF TablesInv, Positions
  <2>5. CASE ~(cur.ChNr + 1 < FH.NrOfChannels)
    <3>1. cur' = StartTable("F", 0) /\ pc' = "Len" /\ err' = err
      BY <1>2, <2>5 DEF Goto
    <3>2. cur' = [t |-> "F", Nr |-> 0, EntryNr |-> 0, raw |-> 0, method |-> 0, m |-> 0]
      BY <3>1 DEF StartTable
    <3>3. cur' \in TableCur /\ "F" \in Kinds
      BY <3>2 DEF TableCur, Kinds
    <3>4. FH'.NrOfTables["F"] >= 1 /\ FH'.NrOfTables["F"] \in Int
      BY <2>2, <2>3, <3>3, HeaderIs DEF Mapped
    <3>5. Reading(FH', cur', "Len")
      BY <2>3, <3>2, <3>3, <3>4 DEF Reading
    <3>6. Unpacked(FH', cur', pc')
      BY <2>2, <3>1, <3>5 DEF Unpacked, Pcs, SegPcs, MapPcs, TablePcs
    <3> QED BY <1>0, <2>1, <3>1, <3>6 DEF TablesInv, Positions
  <2> QED BY <2>4, <2>5
<1> QED
  BY <1>1, <1>2 DEF ReadHalfProb, Field, FIO_BitGet

-----------------------------------------------------------------------------
(* The filters and the probability tables.                                    *)
LEMMA MaxEntriesAre ==
    \A t \in Kinds : MaxEntries(t) \in Nat /\ MaxEntries(t) >= 1
<1>1. Pow2[SIZE_CODEDPREDORDER] \in Nat \ {0} /\ Pow2[AC_HISBITS] \in Nat \ {0}
  BY Constants, Pow2Is
<1> QED
  BY <1>1 DEF MaxEntries

LEMMA NumbersAre ==
    /\ \A t \in Kinds : Numbers(t) \subseteq Int
    /\ Pow2[AC_BITS - 1] \in Probabilities
<1>1. Pow2[AC_BITS - 1] \in Nat \ {0} /\ Pow2[SIZE_PREDCOEF - 1] \in Nat \ {0}
  BY Constants, Pow2Is
<1> QED
  BY <1>1 DEF Numbers, Coefficients, Probabilities

LEMMA TableNumbers ==
    ASSUME NEW h \in Headers, NEW t \in Kinds, Mapped(h, t)
    PROVE  /\ 0 .. (h.NrOfTables[t] - 1) \subseteq Tables
           /\ h.NrOfTables[t] \in Nat
<1>1. h.NrOfTables[t] \in 1 .. (2 * h.NrOfChannels) /\ h.NrOfChannels \in Nat /\ h.NrOfChannels <= MAX_CHANNELS
  BY HeaderIs DEF Mapped
<1>2. MAX_CHANNELS \in Nat
  BY Constants
<1> QED
  BY <1>1, <1>2 DEF Tables

LEMMA SetLen ==
    ASSUME NEW h \in Headers, NEW t \in Kinds, NEW n \in Tables, NEW v \in Int,
           NEW g, g = [h EXCEPT !.Len[t][n] = v]
    PROVE  /\ g \in Headers /\ g.NrOfChannels = h.NrOfChannels /\ g.NrOfTables = h.NrOfTables
           /\ g.Seg = h.Seg /\ g.Entry = h.Entry
           /\ g.Len[t][n] = v
           /\ \A u \in Kinds, k \in Tables : u # t \/ k # n => g.Len[u][k] = h.Len[u][k]
<1>1. g.Len = [h.Len EXCEPT ![t][n] = v] /\ h.Len \in [Kinds -> [Tables -> Int]]
  BY DEF Headers
<1>2. g.Len[t] = [h.Len[t] EXCEPT ![n] = v] /\ \A u \in Kinds : u # t => g.Len[u] = h.Len[u]
  BY <1>1
<1>3. g.Len[t] \in [Tables -> Int] /\ g.Len[t][n] = v /\ \A k \in Tables : k # n => g.Len[t][k] = h.Len[t][k]
  BY <1>1, <1>2
<1>4. g.Len \in [Kinds -> [Tables -> Int]]
  BY <1>1, <1>2, <1>3
<1>5. /\ g \in Headers /\ g.NrOfChannels = h.NrOfChannels /\ g.NrOfTables = h.NrOfTables
      /\ g.Seg = h.Seg /\ g.Entry = h.Entry
  BY <1>1, <1>4 DEF Headers
<1> QED
  BY <1>2, <1>3, <1>5

(* A table replaced by another.                                               *)
WithTable(h, t, n, row) == [h EXCEPT !.Entry[t][n] = row]

LEMMA SetTable ==
    ASSUME NEW h \in Headers, NEW t \in Kinds, NEW n \in Tables, NEW row \in Rows(t),
           NEW g, g = WithTable(h, t, n, row)
    PROVE  /\ g \in Headers /\ g.NrOfChannels = h.NrOfChannels /\ g.NrOfTables = h.NrOfTables
           /\ g.Seg = h.Seg /\ g.Len = h.Len
           /\ g.Entry[t][n] = row
           /\ \A u \in Kinds, k \in Tables : u # t \/ k # n => g.Entry[u][k] = h.Entry[u][k]
<1> DEFINE X == Rows("F") \cup Rows("P")
<1>1. /\ g.Entry = [h.Entry EXCEPT ![t][n] = row] /\ h.Entry \in [Kinds -> [Tables -> X]]
      /\ \A u \in Kinds : h.Entry[u] \in [Tables -> Rows(u)]
  BY DEF Headers, WithTable
<1>2. row \in X
  BY DEF Kinds
<1> HIDE DEF X
<1>3. g.Entry[t] = [h.Entry[t] EXCEPT ![n] = row] /\ \A u \in Kinds : u # t => g.Entry[u] = h.Entry[u]
  BY <1>1
<1>4. g.Entry[t] \in [Tables -> X] /\ g.Entry[t] \in [Tables -> Rows(t)] /\ g.Entry[t][n] = row
      /\ \A k \in Tables : k # n => g.Entry[t][k] = h.Entry[t][k]
  BY <1>1, <1>2, <1>3
<1>5. g.Entry \in [Kinds -> [Tables -> X]] /\ \A u \in Kinds : g.Entry[u] \in [Tables -> Rows(u)]
  BY <1>1, <1>3, <1>4
<1>6. /\ g \in Headers /\ g.NrOfChannels = h.NrOfChannels /\ g.NrOfTables = h.NrOfTables
      /\ g.Seg = h.Seg /\ g.Len = h.Len
  BY <1>1, <1>5 DEF Headers, X, WithTable
<1> QED
  BY <1>3, <1>4, <1>6

(* With the tables before, this one has been read.                            *)
Readable(h) ==
  /\ h \in Headers /\ h.NrOfChannels = FH.NrOfChannels /\ h.NrOfTables = FH.NrOfTables
  /\ \A t \in Kinds : Cut(h, t) /\ Mapped(h, t)
  /\ cur.t = "P" => Given(h, "F")
  /\ \A n \in 0 .. (cur.Nr - 1) : TableOK(h, cur.t, n)

LEMMA TableGiven ==
    ASSUME NEW h \in Headers, NEW g \in Headers, NEW t \in Kinds, NEW n \in Tables,
           TableOK(h, t, n), g.Len[t][n] = h.Len[t][n], g.Entry[t][n] = h.Entry[t][n]
    PROVE  TableOK(g, t, n)
  BY DEF TableOK, EntriesOK

(* Whatever changes of the table that is read, the others stay.               *)
LEMMA StillReadable ==
    ASSUME NEW h, Readable(h), NEW g \in Headers, cur.t \in Kinds, cur.Nr \in Nat, cur.Nr < h.NrOfTables[cur.t],
           g.NrOfChannels = h.NrOfChannels, g.NrOfTables = h.NrOfTables, g.Seg = h.Seg,
           \A u \in Kinds, k \in Tables : u # cur.t \/ k # cur.Nr => g.Len[u][k] = h.Len[u][k] /\ g.Entry[u][k] = h.Entry[u][k]
    PROVE  Readable(g)
<1>1. h \in Headers /\ \A t \in Kinds : Cut(h, t) /\ Mapped(h, t)
  BY DEF Readable
<1>2. \A t \in Kinds : Cut(g, t) /\ Mapped(g, t)
  BY <1>1, CutSame, MappedSame
<1>3. \A t \in Kinds : 0 .. (h.NrOfTables[t] - 1) \subseteq Tables /\ h.NrOfTables[t] \in Nat
  BY <1>1, TableNumbers
<1>4. cur.t = "P" => Given(g, "F")
  <2> SUFFICES ASSUME cur.t = "P", NEW n \in 0 .. (g.NrOfTables["F"] - 1) PROVE TableOK(g, "F", n)
    BY DEF Given
  <2>1. "F" \in Kinds /\ "F" # cur.t
    BY DEF Kinds
  <2>2. n \in Tables /\ TableOK(h, "F", n)
    BY <1>3, <2>1 DEF Readable, Given
  <2> QED BY <2>1, <2>2, <1>1, TableGiven
<1>5. \A n \in 0 .. (cur.Nr - 1) : TableOK(g, cur.t, n)
  <2> TAKE n \in 0 .. (cur.Nr - 1)
  <2>1. n \in Tables /\ n # cur.Nr /\ TableOK(h, cur.t, n)
    BY <1>3 DEF Readable
  <2> QED BY <2>1, <1>1, TableGiven
<1> QED
  BY <1>2, <1>4, <1>5 DEF Readable

LEMMA TableStarted ==
    ASSUME NEW h \in Headers, NEW t \in Kinds, NEW n \in Nat, n < h.NrOfTables[t],
           \A u \in Kinds : Cut(h, u) /\ Mapped(h, u),
           t = "P" => Given(h, "F"), \A k \in 0 .. (n - 1) : TableOK(h, t, k)
    PROVE  Unpacked(h, StartTable(t, n), "Len")
<1> DEFINE c == StartTable(t, n)
<1>1. c = [t |-> t, Nr |-> n, EntryNr |-> 0, raw |-> 0, method |-> 0, m |-> 0]
  BY DEF StartTable
<1>2. c \in TableCur /\ c.t = t /\ c.Nr = n /\ c.EntryNr = 0
  BY <1>1 DEF TableCur
<1> HIDE DEF c
<1>3. Reading(h, c, "Len")
  BY <1>2 DEF Reading
<1> QED
  BY <1>3 DEF c, Unpacked, Pcs, SegPcs, MapPcs, TablePcs

LEMMA TablesReadUnpacked ==
    ASSUME FH \in Headers, err \in Errors, cur.t \in Kinds, cur.Nr \in Nat,
           NEW h, Readable(h), TableOK(h, cur.t, cur.Nr), cur.Nr + 1 = h.NrOfTables[cur.t], TablesRead(h)
    PROVE  Unpacked(FH', cur', pc') /\ err' \in Errors
<1>1. /\ h \in Headers /\ \A t \in Kinds : Cut(h, t) /\ Mapped(h, t)
      /\ Chans(h) = Channels
  BY DEF Readable, Chans, Channels
<1>2. Given(h, cur.t)
  <2> SUFFICES ASSUME NEW n \in 0 .. (h.NrOfTables[cur.t] - 1) PROVE TableOK(h, cur.t, n)
    BY DEF Given
  <2>1. n \in 0 .. (cur.Nr - 1) \/ n = cur.Nr
    OBVIOUS
  <2> QED BY <2>1 DEF Readable
<1>3. CASE cur.t = "F"
  <2> DEFINE half == [c \in AllChannels |-> IF c \in Channels
                            THEN h.Len["F"][h.Seg["F"].Table4Segment[At(c, 0)]] ELSE h.NrOfHalfBits[c]]
             g == [h EXCEPT !.NrOfHalfBits = half]
  <2>0. "F" \in Kinds /\ "P" \in Kinds /\ "F" # "P"
    BY DEF Kinds
  <2>1. half \in [AllChannels -> Int]
    <3>1. h.NrOfHalfBits \in [AllChannels -> Int]
      BY <1>1 DEF Headers
    <3>2. ASSUME NEW c \in Channels PROVE h.Len["F"][h.Seg["F"].Table4Segment[At(c, 0)]] \in Int
      <4>1. h.Seg["F"].NrOfSegments[c] \in 1 .. (MAXNROF_SEGS + 1)
        BY <1>1, <2>0, UsedPlaces
      <4>2. h.Seg["F"].Table4Segment[At(c, 0)] \in 0 .. (h.NrOfTables["F"] - 1)
        BY <4>1, <1>1, <2>0 DEF Mapped, Uses
      <4>3. h.Seg["F"].Table4Segment[At(c, 0)] \in Tables
        BY <4>2, <1>1, <2>0, TableNumbers
      <4> QED BY <4>3, <1>1, <2>0, HeaderIs
    <3> QED BY <3>1, <3>2
  <2>2. FH' = g /\ cur' = StartTable("P", 0) /\ pc' = "Len" /\ err' = err
    <3>1. DOMAIN h.NrOfHalfBits = AllChannels
      BY <1>1 DEF Headers
    <3>2. TablesRead(h) => FH' = g /\ cur' = StartTable("P", 0) /\ Goto("Len")
      BY <1>3, <3>1 DEF TablesRead
    <3> HIDE DEF g
    <3> QED BY <3>2 DEF Goto
  <2> HIDE DEF half
  <2>3. /\ g \in Headers /\ g.NrOfChannels = h.NrOfChannels /\ g.Seg = h.Seg /\ g.NrOfTables = h.NrOfTables
        /\ g.Len = h.Len /\ g.Entry = h.Entry
    BY <1>1, <2>1 DEF Headers
  <2> HIDE DEF g
  <2>4. \A u \in Kinds : Cut(g, u) /\ Mapped(g, u)
    BY <1>1, <2>3, CutSame, MappedSame
  <2>5. Given(g, "F")
    BY <1>2, <1>3, <2>3 DEF Given, TableOK, EntriesOK
  <2>6. g.NrOfTables["P"] \in Nat /\ 0 < g.NrOfTables["P"]
    BY <2>0, <2>3, <2>4, HeaderIs DEF Mapped
  <2>7. Unpacked(g, StartTable("P", 0), "Len")
    <3>1. \A k \in 0 .. (0 - 1) : TableOK(g, "P", k)
      OBVIOUS
    <3> QED BY <2>0, <2>3, <2>4, <2>5, <2>6, <3>1, 0 \in Nat, TableStarted
  <2> QED BY <2>2, <2>7
<1>4. CASE cur.t # "F"
  <2>1. FH' = h /\ pc' = "AData" /\ err' = err
    BY <1>4 DEF TablesRead, Goto
  <2>2. \A u \in Kinds : Given(h, u)
    BY <1>2, <1>4 DEF Readable, Kinds
  <2> QED BY <1>1, <2>1, <2>2 DEF Unpacked, Pcs, SegPcs, MapPcs, TablePcs
<1> QED
  BY <1>3, <1>4

-----------------------------------------------------------------------------
LEMMA TableReadUnpacked ==
    ASSUME FH \in Headers, err \in Errors, cur.t \in Kinds, cur.Nr \in Nat,
           NEW h, Readable(h), TableOK(h, cur.t, cur.Nr), cur.Nr < h.NrOfTables[cur.t], TableRead(h)
    PROVE  Unpacked(FH', cur', pc') /\ err' \in Errors
<1> DEFINE row == [i \in DOMAIN h.Entry["F"][cur.Nr] |->
                     IF i < h.Len["F"][cur.Nr] THEN h.Entry["F"][cur.Nr][i] ELSE 0]
           f == WithTable(h, "F", cur.Nr, row)
           clear == IF cur.t = "P" THEN h ELSE f
<1>0. h \in Headers /\ h.NrOfTables = FH.NrOfTables /\ cur.Nr \in Tables /\ h.NrOfTables[cur.t] \in Nat
  BY TableNumbers DEF Readable
<1>1. ASSUME cur.t = "F"
      PROVE  Readable(f) /\ TableOK(f, "F", cur.Nr)
  <2>1. "F" \in Kinds /\ h.Entry["F"][cur.Nr] \in Rows("F")
    BY <1>0, HeaderIs DEF Kinds
  <2>2. row \in Rows("F") /\ \A i \in 0 .. (MaxEntries("F") - 1) : i < h.Len["F"][cur.Nr] => row[i] = h.Entry["F"][cur.Nr][i]
    <3> DEFINE R == h.Entry["F"][cur.Nr]
               L == h.Len["F"][cur.Nr]
    <3>1. R \in [0 .. (MaxEntries("F") - 1) -> Int]
      BY <2>1 DEF Rows
    <3>2. row = [i \in 0 .. (MaxEntries("F") - 1) |-> IF i < L THEN R[i] ELSE 0]
      BY <3>1
    <3> HIDE DEF R, L, row
    <3>3. row \in [0 .. (MaxEntries("F") - 1) -> Int] /\ \A i \in 0 .. (MaxEntries("F") - 1) : i < L => row[i] = R[i]
      BY <3>1, <3>2, 0 \in Int
    <3> QED BY <3>3 DEF R, L, Rows
  <2> HIDE DEF row
  <2>3. /\ f \in Headers /\ f.NrOfChannels = h.NrOfChannels /\ f.NrOfTables = h.NrOfTables
        /\ f.Seg = h.Seg /\ f.Len = h.Len
        /\ f.Entry["F"][cur.Nr] = row
        /\ \A u \in Kinds, k \in Tables : u # "F" \/ k # cur.Nr => f.Entry[u][k] = h.Entry[u][k]
    BY <1>0, <2>1, <2>2, SetTable
  <2> HIDE DEF f
  <2>4. Readable(f)
    BY <1>0, <1>1, <2>3, StillReadable
  <2>5. MaxEntries("F") \in Nat /\ h.Len["F"][cur.Nr] \in 1 .. MaxEntries("F") /\ EntriesOK(h, "F", cur.Nr, h.Len["F"][cur.Nr])
    BY <1>1, <2>1, MaxEntriesAre DEF TableOK
  <2>6. \A i \in 0 .. (h.Len["F"][cur.Nr] - 1) : row[i] \in Numbers("F")
    BY <2>2, <2>5 DEF EntriesOK
  <2> QED BY <2>3, <2>4, <2>5, <2>6 DEF TableOK, EntriesOK
<1>2. Readable(clear) /\ TableOK(clear, cur.t, cur.Nr)
  <2> HIDE DEF f
  <2> QED BY <1>1 DEF Kinds
<1>3. IF cur.Nr + 1 = FH.NrOfTables[cur.t] THEN TablesRead(clear)
      ELSE FH' = clear /\ cur' = StartTable(cur.t, cur.Nr + 1) /\ Goto("Len")
  BY DEF TableRead, WithTable
<1> HIDE DEF clear
<1>4. clear \in Headers /\ clear.NrOfTables = FH.NrOfTables
  BY <1>2 DEF Readable
<1>5. CASE cur.Nr + 1 = FH.NrOfTables[cur.t]
  BY <1>2, <1>3, <1>4, <1>5, TablesReadUnpacked
<1>6. CASE cur.Nr + 1 # FH.NrOfTables[cur.t]
  <2>1. FH' = clear /\ cur' = StartTable(cur.t, cur.Nr + 1) /\ pc' = "Len" /\ err' = err
    BY <1>3, <1>6 DEF Goto
  <2>2. cur.Nr + 1 \in Nat /\ cur.Nr + 1 < clear.NrOfTables[cur.t]
    BY <1>0, <1>4, <1>6
  <2>3. \A k \in 0 .. ((cur.Nr + 1) - 1) : TableOK(clear, cur.t, k)
    BY <1>2 DEF Readable
  <2>4. (\A u \in Kinds : Cut(clear, u) /\ Mapped(clear, u)) /\ (cur.t = "P" => Given(clear, "F"))
    BY <1>2 DEF Readable
  <2>5. Unpacked(clear, StartTable(cur.t, cur.Nr + 1), "Len")
    BY <1>4, <2>2, <2>3, <2>4, TableStarted
  <2> QED BY <2>1, <2>5
<1> QED
  BY <1>5, <1>6

(* What reading a table knows before each of its steps.                       *)
Underway ==
  /\ FH \in Headers /\ SD \in Positions /\ err \in Errors
  /\ cur \in TableCur /\ cur.t \in Kinds /\ cur.Nr \in Nat /\ cur.EntryNr \in Nat /\ cur.m \in Nat /\ cur.raw \in Int
  /\ cur.Nr < FH.NrOfTables[cur.t] /\ cur.Nr \in Tables
  /\ Readable(FH)
  /\ Reading(FH, cur, pc)

LEMMA IsUnderway ==
    ASSUME TablesInv, pc \in TablePcs
    PROVE  Underway
<1>1. FH \in Headers /\ SD \in Positions /\ err \in Errors /\ Reading(FH, cur, pc)
  BY DEF TablesInv, Unpacked, Positions
<1>2. /\ cur \in TableCur /\ cur.t \in Kinds /\ cur.Nr \in Nat /\ cur.EntryNr \in Nat /\ cur.m \in Nat /\ cur.raw \in Int
      /\ cur.Nr < FH.NrOfTables[cur.t] /\ Readable(FH)
  BY <1>1 DEF Reading, TableCur, Readable
<1>3. cur.Nr \in Tables
  BY <1>1, <1>2, TableNumbers DEF Readable
<1> QED
  BY <1>1, <1>2, <1>3 DEF Underway

(* The same table goes on to be read, with other loop variables.              *)
LEMMA StillReading ==
    ASSUME Underway, NEW h \in Headers, Readable(h), NEW c \in TableCur, NEW p \in TablePcs \ {"Len"},
           c.t = cur.t, c.Nr = cur.Nr,
           h.Len[cur.t][cur.Nr] \in 1 .. MaxEntries(cur.t),
           c.EntryNr < h.Len[cur.t][cur.Nr],
           EntriesOK(h, cur.t, cur.Nr, c.EntryNr),
           p \in {"Coded", "BestMethod"} => c.EntryNr = 0
    PROVE  Unpacked(h, c, p)
<1>1. Reading(h, c, p)
  BY DEF Reading, Readable, Underway
<1> QED
  BY <1>1 DEF Unpacked, Pcs, SegPcs, MapPcs, TablePcs

LEMMA NextEntryUnpacked ==
    ASSUME Underway, pc \in {"entry", "rice"}, NEW v \in Numbers(cur.t), NextEntry(SetEntry(FH, v))
    PROVE  Unpacked(FH', cur', pc') /\ err' \in Errors
<1> DEFINE t == cur.t
           n == cur.Nr
           i == cur.EntryNr
           len == FH.Len[t][n]
           row == [FH.Entry[t][n] EXCEPT ![i] = v]
           g == WithTable(FH, t, n, row)
<1>0. /\ FH \in Headers /\ t \in Kinds /\ n \in Tables /\ i \in Nat
      /\ len \in 1 .. MaxEntries(t) /\ i < len /\ EntriesOK(FH, t, n, i) /\ MaxEntries(t) \in Nat /\ v \in Int
  BY MaxEntriesAre, NumbersAre DEF Underway, Reading
<1>1. FH.Entry[t][n] \in Rows(t)
  BY <1>0, HeaderIs
<1>2. row \in Rows(t) /\ row[i] = v /\ \A j \in 0 .. (MaxEntries(t) - 1) : j # i => row[j] = FH.Entry[t][n][j]
  <2> HIDE DEF t, n, i
  <2> QED BY <1>0, <1>1 DEF Rows
<1>3. SetEntry(FH, v) = g
  BY <1>0 DEF SetEntry, Headers, WithTable
<1> HIDE DEF row
<1>4. /\ g \in Headers /\ g.NrOfChannels = FH.NrOfChannels /\ g.NrOfTables = FH.NrOfTables
      /\ g.Seg = FH.Seg /\ g.Len = FH.Len
      /\ g.Entry[t][n] = row
      /\ \A u \in Kinds, k \in Tables : u # t \/ k # n => g.Entry[u][k] = FH.Entry[u][k]
  BY <1>0, <1>2, SetTable
<1>5. IF i + 1 = len THEN TableRead(g)
      ELSE FH' = g /\ cur' = [cur EXCEPT !.EntryNr = i + 1]
           /\ Goto(IF i + 1 < cur.raw THEN "entry" ELSE IF pc = "entry" THEN "RiceM" ELSE "rice")
  <2> HIDE DEF g
  <2> QED BY <1>3 DEF NextEntry, TableLen
<1> HIDE DEF g
<1>6. Readable(g)
  BY <1>0, <1>4, StillReadable DEF Underway
<1>7. EntriesOK(g, t, n, i + 1)
  <2> SUFFICES ASSUME NEW j \in 0 .. ((i + 1) - 1) PROVE row[j] \in Numbers(t)
    BY <1>4 DEF EntriesOK
  <2>1. CASE j = i
    BY <2>1, <1>2
  <2>2. CASE j # i
    <3>1. j \in 0 .. (i - 1) /\ j \in 0 .. (MaxEntries(t) - 1)
      BY <2>2, <1>0
    <3> QED BY <3>1, <2>2, <1>0, <1>2 DEF EntriesOK
  <2> QED BY <2>1, <2>2
<1>8. CASE i + 1 = len
  <2>1. TableOK(g, t, n)
    BY <1>0, <1>4, <1>7, <1>8 DEF TableOK
  <2>2. n < g.NrOfTables[t] /\ n \in Nat
    BY <1>4 DEF Underway
  <2> QED BY <1>0, <1>5, <1>6, <1>8, <2>1, <2>2, TableReadUnpacked DEF Underway
<1>9. CASE i + 1 # len
  <2> DEFINE c == [cur EXCEPT !.EntryNr = i + 1]
             p == IF i + 1 < cur.raw THEN "entry" ELSE IF pc = "entry" THEN "RiceM" ELSE "rice"
  <2>1. FH' = g /\ cur' = c /\ pc' = p /\ err' = err
    BY <1>5, <1>9 DEF Goto
  <2>2. c \in TableCur /\ c.t = t /\ c.Nr = n /\ c.EntryNr = i + 1
    BY DEF Underway, TableCur
  <2>3. i + 1 < g.Len[t][n] /\ g.Len[t][n] \in 1 .. MaxEntries(t)
    BY <1>0, <1>4, <1>9
  <2>4. p \in TablePcs \ {"Len"} /\ p \notin {"Coded", "BestMethod"}
    BY DEF TablePcs
  <2> HIDE DEF c, p
  <2>5. Unpacked(g, c, p)
    BY <1>4, <1>6, <1>7, <2>2, <2>3, <2>4, StillReading
  <2> QED BY <2>1, <2>5 DEF Underway
<1> QED
  BY <1>8, <1>9

-----------------------------------------------------------------------------
LEMMA ReadLenInv ==
    ASSUME TablesInv, ReadLen
    PROVE  TablesInv'
<1> DEFINE t == cur.t
           n == cur.Nr
           size == IF t = "F" THEN SIZE_CODEDPREDORDER ELSE AC_HISBITS
           vals == IF t = "F" THEN PredOrders ELSE PtableLens
<1>0. Underway /\ pc = "Len"
  BY IsUnderway DEF ReadLen, TablePcs
<1>1. /\ FH \in Headers /\ SD \in Positions /\ err \in Errors /\ t \in Kinds /\ n \in Tables /\ cur \in TableCur
      /\ n \in Nat /\ n < FH.NrOfTables[t] /\ cur.EntryNr = 0 /\ Readable(FH)
  BY <1>0 DEF Underway, Reading
<1>2. size \in Int /\ \A v \in vals : v \in 1 .. MaxEntries(t)
  <2>1. SIZE_CODEDPREDORDER \in Int /\ AC_HISBITS \in Int
    BY Constants
  <2>2. PredOrders \subseteq 1 .. Pow2[SIZE_CODEDPREDORDER] /\ PtableLens \subseteq 1 .. Pow2[AC_HISBITS]
    BY TableConstants
  <2> QED BY <2>1, <2>2 DEF MaxEntries
<1> HIDE DEF size, vals
<1>3. CASE Stop("NegativeBitAllocation") /\ UNCHANGED <<FH, SD, cur>>
  BY <1>3, CouldNotRead
<1>4. ASSUME NEW v \in vals, SD' = [SD EXCEPT !.pos = @ + size],
             IF t # "F" /\ v = 1
             THEN TableRead([[FH EXCEPT !.Len[t][n] = v] EXCEPT !.Entry["P"][n][0] = Pow2[AC_BITS - 1]])
             ELSE FH' = [FH EXCEPT !.Len[t][n] = v] /\ UNCHANGED cur /\ Goto("Coded")
      PROVE  TablesInv'
  <2> DEFINE g == [FH EXCEPT !.Len[t][n] = v]
  <2>1. SD' \in Positions /\ v \in Int /\ v \in 1 .. MaxEntries(t) /\ v >= 1
    <3>1. SD' \in Positions
      BY <1>1, <1>2, <1>4, PositionIs
    <3>2. MaxEntries(t) \in Nat
      BY <1>1, MaxEntriesAre
    <3> QED BY <3>1, <3>2, <1>2, <1>4
  <2>2. /\ g \in Headers /\ g.NrOfChannels = FH.NrOfChannels /\ g.NrOfTables = FH.NrOfTables
        /\ g.Seg = FH.Seg /\ g.Entry = FH.Entry
        /\ g.Len[t][n] = v
        /\ \A u \in Kinds, k \in Tables : u # t \/ k # n => g.Len[u][k] = FH.Len[u][k]
    BY <1>1, <2>1, SetLen
  <2>3. IF t # "F" /\ v = 1
        THEN TableRead([g EXCEPT !.Entry["P"][n][0] = Pow2[AC_BITS - 1]])
        ELSE FH' = g /\ cur' = cur /\ pc' = "Coded" /\ err' = err
    BY <1>4 DEF Goto
  <2> HIDE DEF g
  <2>4. Readable(g)
    BY <1>1, <2>2, StillReadable
  <2>5. CASE t # "F" /\ v = 1
    <3> DEFINE x == Pow2[AC_BITS - 1]
               row == [g.Entry["P"][n] EXCEPT ![0] = x]
               f == WithTable(g, "P", n, row)
    <3>1. t = "P" /\ "P" \in Kinds
      BY <2>5, <1>1 DEF Kinds
    <3>2. x \in Probabilities /\ x \in Int
      BY NumbersAre, <3>1 DEF Numbers
    <3>3. g.Entry["P"][n] \in Rows("P") /\ MaxEntries("P") \in Nat /\ MaxEntries("P") >= 1
      BY <1>1, <2>2, <3>1, HeaderIs, MaxEntriesAre
    <3>4. row \in Rows("P") /\ row[0] = x
      <4> HIDE DEF x
      <4> QED BY <3>2, <3>3 DEF Rows
    <3>5. [g EXCEPT !.Entry["P"][n][0] = x] = f
      <4> HIDE DEF x
      <4> QED BY <2>2, <3>1 DEF Headers, WithTable
    <3>6. TableRead(f)
      <4> HIDE DEF f
      <4> QED BY <2>3, <2>5, <3>5
    <3> HIDE DEF row, x
    <3>7. /\ f \in Headers /\ f.NrOfChannels = g.NrOfChannels /\ f.NrOfTables = g.NrOfTables
          /\ f.Seg = g.Seg /\ f.Len = g.Len
          /\ f.Entry["P"][n] = row
          /\ \A u \in Kinds, k \in Tables : u # "P" \/ k # n => f.Entry[u][k] = g.Entry[u][k]
      BY <1>1, <2>2, <3>1, <3>4, SetTable
    <3> HIDE DEF f
    <3>8. Readable(f)
      BY <1>1, <2>2, <2>4, <3>1, <3>7, StillReadable
    <3>9. TableOK(f, t, n)
      <4>1. f.Len[t][n] = 1
        BY <2>2, <2>5, <3>7
      <4>2. \A j \in 0 .. (1 - 1) : row[j] \in Probabilities
        BY <3>2, <3>4
      <4>3. Numbers("P") = Probabilities
        BY DEF Numbers
      <4> QED BY <4>1, <4>2, <4>3, <3>1, <3>3, <3>7 DEF TableOK, EntriesOK
    <3>10. n < f.NrOfTables[t]
      BY <1>1, <2>2, <3>7
    <3>11. Unpacked(FH', cur', pc') /\ err' \in Errors
      BY <1>1, <3>6, <3>8, <3>9, <3>10, TableReadUnpacked
    <3> QED BY <2>1, <3>11 DEF TablesInv, Positions
  <2>6. CASE ~(t # "F" /\ v = 1)
    <3>1. FH' = g /\ cur' = cur /\ pc' = "Coded" /\ err' = err
      BY <2>3, <2>6
    <3>2. EntriesOK(g, t, n, cur.EntryNr)
      BY <1>1 DEF EntriesOK
    <3>3. Unpacked(g, cur, "Coded")
      <4>1. cur.EntryNr < g.Len[t][n] /\ g.Len[t][n] \in 1 .. MaxEntries(t) /\ "Coded" \in TablePcs \ {"Len"}
        BY <1>1, <2>1, <2>2 DEF TablePcs
      <4> QED BY <4>1, <1>0, <1>1, <2>2, <2>4, <3>2, StillReading
    <3> QED BY <1>1, <2>1, <3>1, <3>3 DEF TablesInv, Positions
  <2> QED BY <2>5, <2>6
<1> QED
  <2>1. ReadLen =>
        \/ Stop("NegativeBitAllocation") /\ UNCHANGED <<FH, SD, cur>>
        \/ \E v \in vals :
             /\ SD' = [SD EXCEPT !.pos = @ + size]
             /\ IF t # "F" /\ v = 1
                THEN TableRead([[FH EXCEPT !.Len[t][n] = v] EXCEPT !.Entry["P"][n][0] = Pow2[AC_BITS - 1]])
                ELSE FH' = [FH EXCEPT !.Len[t][n] = v] /\ UNCHANGED cur /\ Goto("Coded")
    BY DEF ReadLen, Field, FIO_BitGet, size, vals
  <2> QED BY <2>1, <1>3, <1>4

(* The steps of a table that only choose how its entries are read.            *)
LEMMA GoesOnReading ==
    ASSUME Underway, pc # "Len", FH' = FH, SD' \in Positions, err' \in Errors, cur' \in TableCur,
           cur'.t = cur.t, cur'.Nr = cur.Nr, cur'.EntryNr = cur.EntryNr,
           pc' \in TablePcs \ {"Len"}, pc' \in {"Coded", "BestMethod"} => cur.EntryNr = 0
    PROVE  TablesInv'
<1>1. Unpacked(FH, cur', pc')
  BY StillReading DEF Underway, Reading
<1> QED
  BY <1>1 DEF TablesInv, Positions

LEMMA ReadCodedInv ==
    ASSUME TablesInv, ReadCoded
    PROVE  TablesInv'
<1>0. Underway /\ pc = "Coded"
  BY IsUnderway DEF ReadCoded, TablePcs
<1>1. /\ SD \in Positions /\ err \in Errors /\ cur \in TableCur /\ cur.EntryNr = 0
      /\ FH.Len[cur.t][cur.Nr] \in Int
  <2>1. MaxEntries(cur.t) \in Nat
    BY <1>0, MaxEntriesAre DEF Underway
  <2> QED BY <1>0, <2>1 DEF Underway, Reading
<1>2. CASE Stop("NegativeBitAllocation") /\ UNCHANGED <<FH, SD, cur>>
  BY <1>2, CouldNotRead
<1>3. ASSUME NEW v \in Bits(1), SD' = [SD EXCEPT !.pos = @ + 1], UNCHANGED FH,
             IF v = 0 THEN cur' = [cur EXCEPT !.raw = TableLen(cur)] /\ Goto("entry")
             ELSE UNCHANGED cur /\ Goto("BestMethod")
      PROVE  TablesInv'
  <2>1. SD' \in Positions
    BY <1>1, <1>3, PositionIs
  <2>2. CASE v = 0
    <3>1. cur' = [cur EXCEPT !.raw = FH.Len[cur.t][cur.Nr]] /\ pc' = "entry" /\ err' = err
      BY <1>3, <2>2 DEF Goto, TableLen
    <3>2. cur' \in TableCur /\ cur'.t = cur.t /\ cur'.Nr = cur.Nr /\ cur'.EntryNr = cur.EntryNr
      BY <3>1, <1>1 DEF TableCur
    <3> QED BY <1>0, <1>1, <1>3, <2>1, <3>1, <3>2, GoesOnReading DEF TablePcs
  <2>3. CASE v # 0
    <3>1. cur' = cur /\ pc' = "BestMethod" /\ err' = err
      BY <1>3, <2>3 DEF Goto
    <3> QED BY <1>0, <1>1, <1>3, <2>1, <3>1, GoesOnReading DEF TablePcs
  <2> QED BY <2>2, <2>3
<1> QED
  BY <1>2, <1>3 DEF ReadCoded, Field, FIO_BitGet

LEMMA ReadBestMethodInv ==
    ASSUME TablesInv, ReadBestMethod
    PROVE  TablesInv'
<1> DEFINE e == IF cur.t = "F" THEN "InvalidCoefficientCoding" ELSE "InvalidPtableCoding"
<1>0. Underway /\ pc = "BestMethod"
  BY IsUnderway DEF ReadBestMethod, TablePcs
<1>1. /\ FH \in Headers /\ SD \in Positions /\ err \in Errors /\ cur \in TableCur /\ cur.EntryNr = 0
      /\ cur.t \in Kinds /\ SIZE_RICEMETHOD \in Nat /\ e \in Errors
  BY <1>0, TableConstants DEF Underway, Reading, Errors
<1> HIDE DEF e
<1>2. CASE Stop("NegativeBitAllocation") /\ UNCHANGED <<FH, SD, cur>>
  BY <1>2, CouldNotRead
<1>3. ASSUME NEW v \in Bits(SIZE_RICEMETHOD), SD' = [SD EXCEPT !.pos = @ + SIZE_RICEMETHOD],
             NEW order \in CPredOrder(v),
             \/ Refuse(e)
             \/ /\ UNCHANGED FH /\ cur' = [cur EXCEPT !.raw = order, !.method = v]
                /\ Goto(IF order = 0 THEN "RiceM" ELSE "entry")
      PROVE  TablesInv'
  <2>1. SD' \in Positions /\ v \in Int
    BY <1>1, <1>3, BitsAre, PositionIs
  <2>2. order \in Int
    <3>1. MaxEntries(cur.t) \in Nat
      BY <1>1, MaxEntriesAre
    <3> QED BY <3>1, <2>1 DEF CPredOrder
  <2>3. CASE Refuse(e)
    BY <1>1, <2>1, <2>3, Refused DEF TablesInv, Positions
  <2>4. CASE UNCHANGED FH /\ cur' = [cur EXCEPT !.raw = order, !.method = v]
             /\ Goto(IF order = 0 THEN "RiceM" ELSE "entry")
    <3>1. cur' \in TableCur /\ cur'.t = cur.t /\ cur'.Nr = cur.Nr /\ cur'.EntryNr = cur.EntryNr
      BY <1>1, <2>1, <2>2, <2>4 DEF TableCur
    <3>2. FH' = FH /\ err' = err /\ pc' \in TablePcs \ {"Len"} /\ pc' \notin {"Coded", "BestMethod"}
      BY <2>4 DEF Goto, TablePcs
    <3> QED BY <1>0, <1>1, <2>1, <3>1, <3>2, GoesOnReading
  <2> QED BY <1>3, <2>3, <2>4
<1> QED
  BY <1>2, <1>3 DEF ReadBestMethod, Field, FIO_BitGet, e

LEMMA ReadRiceMInv ==
    ASSUME TablesInv, ReadRiceM
    PROVE  TablesInv'
<1>0. Underway /\ pc = "RiceM"
  BY IsUnderway DEF ReadRiceM, TablePcs
<1>1. SD \in Positions /\ err \in Errors /\ cur \in TableCur /\ SIZE_RICEM \in Nat
  BY <1>0, TableConstants DEF Underway
<1>2. CASE Stop("NegativeBitAllocation") /\ UNCHANGED <<FH, SD, cur>>
  BY <1>2, CouldNotRead
<1>3. ASSUME NEW v \in Bits(SIZE_RICEM), SD' = [SD EXCEPT !.pos = @ + SIZE_RICEM],
             cur' = [cur EXCEPT !.m = v], UNCHANGED FH, Goto("rice")
      PROVE  TablesInv'
  <2>1. SD' \in Positions /\ v \in Nat
    BY <1>1, <1>3, BitsAre, PositionIs
  <2>2. cur' \in TableCur /\ cur'.t = cur.t /\ cur'.Nr = cur.Nr /\ cur'.EntryNr = cur.EntryNr
    BY <1>1, <1>3, <2>1 DEF TableCur
  <2>3. FH' = FH /\ err' = err /\ pc' = "rice" /\ pc' \in TablePcs \ {"Len"}
    BY <1>3 DEF Goto, TablePcs
  <2> QED BY <1>0, <1>1, <2>1, <2>2, <2>3, GoesOnReading
<1> QED
  BY <1>2, <1>3 DEF ReadRiceM, Field, FIO_BitGet

LEMMA ReadEntryInv ==
    ASSUME TablesInv, ReadEntry
    PROVE  TablesInv'
<1> DEFINE size == IF cur.t = "F" THEN SIZE_PREDCOEF ELSE AC_BITS - 1
           vals == IF cur.t = "F" THEN Coefs ELSE Entries
<1>0. Underway /\ pc = "entry"
  BY IsUnderway DEF ReadEntry, TablePcs
<1>1. SD \in Positions /\ err \in Errors /\ size \in Int /\ vals \subseteq Numbers(cur.t)
  BY <1>0, Constants, TableConstants DEF Underway, Numbers
<1> HIDE DEF size, vals
<1>2. CASE Stop("NegativeBitAllocation") /\ UNCHANGED <<FH, SD, cur>>
  BY <1>2, CouldNotRead
<1>3. ASSUME NEW v \in vals, SD' = [SD EXCEPT !.pos = @ + size], NextEntry(SetEntry(FH, v))
      PROVE  TablesInv'
  <2>1. SD' \in Positions
    BY <1>1, <1>3, PositionIs
  <2>2. Unpacked(FH', cur', pc') /\ err' \in Errors
    BY <1>0, <1>1, <1>3, NextEntryUnpacked
  <2> QED BY <2>1, <2>2 DEF TablesInv, Positions
<1>4. ReadEntry =>
        \/ Stop("NegativeBitAllocation") /\ UNCHANGED <<FH, SD, cur>>
        \/ \E v \in vals : SD' = [SD EXCEPT !.pos = @ + size] /\ NextEntry(SetEntry(FH, v))
  BY DEF ReadEntry, Field, FIO_BitGet, size, vals
<1> QED
  BY <1>2, <1>3, <1>4

LEMMA ReadRiceEntryInv ==
    ASSUME TablesInv, ReadRiceEntry
    PROVE  TablesInv'
<1> DEFINE e == IF cur.t = "F" THEN "InvalidCoefficientRange" ELSE "InvalidPtableRange"
<1>0. Underway /\ pc = "rice"
  BY IsUnderway DEF ReadRiceEntry, TablePcs
<1>1. FH \in Headers /\ SD \in Positions /\ err \in Errors /\ cur.m \in Nat /\ e \in Errors /\ RESOL \in Int
  BY <1>0, Constants DEF Underway, Errors
<1> HIDE DEF e
<1>2. PICK nr \in RiceNumbers :
        LET c == nr + Predicted
            end == SD.pos + RiceLength(nr)
        IN /\ SD' = [SD EXCEPT !.pos = IF end <= SD.total THEN end ELSE SD.total + RESOL]
           /\ IF InRange(c) THEN NextEntry(SetEntry(FH, c)) ELSE Refuse(e)
  BY DEF ReadRiceEntry, e
<1> DEFINE c == nr + Predicted
<1>3. RiceLength(nr) \in Int
  <2> DEFINE a == IF nr < 0 THEN -nr ELSE nr
  <2>1. a \in Int /\ Pow2[cur.m] \in Nat \ {0}
    BY <1>1, TableConstants, Pow2Is
  <2>2. a \div Pow2[cur.m] \in Int
    <3> HIDE DEF a
    <3> QED BY <2>1, DivMod
  <2> HIDE DEF a
  <2> QED BY <1>1, <2>1, <2>2 DEF RiceLength, a
<1>4. SD' \in Positions
  BY <1>1, <1>2, <1>3 DEF Positions
<1> HIDE DEF c
<1>5. CASE InRange(c)
  <2>1. c \in Numbers(cur.t)
    BY <1>5 DEF InRange, Numbers
  <2>2. NextEntry(SetEntry(FH, c))
    BY <1>2, <1>5 DEF c
  <2>3. Unpacked(FH', cur', pc') /\ err' \in Errors
    BY <1>0, <2>1, <2>2, NextEntryUnpacked
  <2> QED BY <1>4, <2>3 DEF TablesInv, Positions
<1>6. CASE ~InRange(c)
  <2>1. Refuse(e)
    BY <1>2, <1>6 DEF c
  <2> QED BY <1>1, <1>4, <2>1, Refused DEF TablesInv, Positions
<1> QED
  BY <1>5, <1>6

-----------------------------------------------------------------------------
(* The whole of the header, from the first bit to the audio.                  *)
LEMMA InitTables ==
    ASSUME Init
    PROVE  TablesInv
<1>1. PICK channels \in ChannelCounts, bytes \in FrameSizes, x \in Stale :
        /\ FH = NewHeader(channels, x) /\ SD = [pos |-> 0, total |-> bytes * RESOL]
        /\ pc = "DSTCoded" /\ err = "NoError"
  BY DEF Init
<1>2. channels \in 1 .. MAX_CHANNELS /\ bytes \in Nat /\ x \in Int /\ RESOL \in Nat
  BY TableConstants
<1>3. SD \in Positions /\ err \in Errors
  BY <1>1, <1>2 DEF Positions, Errors
<1>4. NewSegment(x) \in SegRecords
  BY <1>2 DEF NewSegment, SegRecords, AllChannels
<1> DEFINE row(t) == [i \in 0 .. (MaxEntries(t) - 1) |-> x]
           entry == [t \in Kinds |-> [n \in Tables |-> row(t)]]
           seg == [t \in Kinds |-> NewSegment(x)]
           zero == [t \in Kinds |-> 0]
           len == [t \in Kinds |-> [n \in Tables |-> 0]]
           half == [c \in AllChannels |-> 0]
<1>5. \A t \in Kinds : row(t) \in Rows(t) /\ row(t) \in Rows("F") \cup Rows("P")
  BY <1>2 DEF Rows, Kinds
<1>6. FH = [NrOfChannels |-> channels, DSTCoded |-> 0, PSameSegAsF |-> 0, PSameMapAsF |-> 0,
            Seg |-> seg, SameSegAllCh |-> zero, SameMapAllCh |-> zero, NrOfTables |-> zero,
            Len |-> len, Entry |-> entry, HalfProb |-> half, NrOfHalfBits |-> half]
  BY <1>1 DEF NewHeader, Tables, AllChannels
<1> HIDE DEF row
<1>7. /\ entry \in [Kinds -> [Tables -> Rows("F") \cup Rows("P")]]
      /\ \A t \in Kinds : entry[t] \in [Tables -> Rows(t)]
  BY <1>5
<1>8. /\ seg \in [Kinds -> SegRecords] /\ zero \in [Kinds -> Int] /\ len \in [Kinds -> [Tables -> Int]]
      /\ half \in [AllChannels -> Int] /\ 0 \in Int
  BY <1>4
<1> HIDE DEF entry, seg, zero, len, half
<1>9. FH \in Headers
  BY <1>2, <1>6, <1>7, <1>8 DEF Headers
<1> QED
  BY <1>1, <1>3, <1>9 DEF TablesInv, Unpacked, Pcs, SegPcs, MapPcs, TablePcs, Positions

LEMMA ReadStep ==
    ASSUME TablesInv, UnpackHeader
    PROVE  TablesInv'
<1>1. CASE ReadDSTCoded
  BY <1>1, ReadDSTCodedInv
<1>2. CASE ReadStuffing
  BY <1>2, ReadStuffingInv
<1>3. CASE ReadSegmentData
  BY <1>3, ReadPSameSegAsFInv, ReadSameSegAllChInv, ReadEndOfChannelInv, ReadResolutionInv, ReadSegmentLenInv
     DEF ReadSegmentData
<1>4. CASE ReadMappingData
  BY <1>4, ReadPSameMapAsFInv, ReadSameMapAllChInv, ReadTable4SegmentInv, ReadHalfProbInv DEF ReadMappingData
<1>5. CASE ReadTable
  BY <1>5, ReadLenInv, ReadCodedInv, ReadBestMethodInv, ReadEntryInv, ReadRiceMInv, ReadRiceEntryInv DEF ReadTable
<1> QED
  BY <1>1, <1>2, <1>3, <1>4, <1>5 DEF UnpackHeader, ReadFilterCoefSets, ReadProbabilityTables

(* From the audio on only what is read next and the error change.             *)
LEMMA AudioStep ==
    ASSUME TablesInv, UNCHANGED <<FH, SD, cur>>, err' \in Errors,
           pc' \in {"answer", "done"} \/ (pc' = "decode" /\ pc \in {"AData", "decode"})
    PROVE  TablesInv'
<1>1. Unpacked(FH, cur, pc')
  BY DEF TablesInv, Unpacked, Pcs, SegPcs, MapPcs, TablePcs
<1> QED
  BY <1>1 DEF TablesInv

LEMMA NextTables ==
    ASSUME TablesInv, [Next]_vars
    PROVE  TablesInv'
<1>0. err \in Errors
  BY DEF TablesInv
<1>1. CASE Unpack
  BY <1>1, ReadStep DEF Unpack
<1>2. CASE ReadDSDframe
  BY <1>0, <1>2, AudioStep DEF ReadDSDframe
<1>3. CASE ReadArithmeticCodedData
  <2>1. UNCHANGED <<FH, SD, cur>> /\ pc = "AData"
    BY <1>3 DEF ReadArithmeticCodedData
  <2>2. err' \in Errors /\ pc' \in {"answer", "decode"}
    <3>1. (err' = "InvalidArithmeticCode" /\ pc' = "answer") \/ (pc' = "decode" /\ err' = err)
      BY <1>3 DEF ReadArithmeticCodedData
    <3> QED BY <1>0, <3>1 DEF Errors
  <2> QED BY <2>1, <2>2, AudioStep
<1>4. CASE DecodeBit
  BY <1>0, <1>4, AudioStep DEF DecodeBit, header
<1>5. CASE LT_ACDecodeBit_Flush
  BY <1>0, <1>5, AudioStep DEF LT_ACDecodeBit_Flush, Errors
<1>6. CASE Answer
  BY <1>0, <1>6, AudioStep DEF Answer
<1>7. CASE UNCHANGED vars
  BY <1>7 DEF vars, header, TablesInv
<1> QED
  BY <1>1, <1>2, <1>3, <1>4, <1>5, <1>6, <1>7 DEF Next

(* The invariant holds always: whatever memory holds at first and whatever the *)
(* bits of a frame are, each field is tested against what was read before it  *)
(* (unpack_dst.c, UnpackDSTframe).                                            *)
THEOREM TablesInvariant == Spec => []TablesInv
<1>1. Init => TablesInv
  BY InitTables
<1>2. TablesInv /\ [Next]_vars => TablesInv'
  BY NextTables
<1> QED
  BY <1>1, <1>2, PTL DEF Spec

-----------------------------------------------------------------------------
(* When the audio starts each bit has a filter and a table.                   *)
LEMMA TableOfBit ==
    ASSUME TablesInv, pc \in {"AData", "decode"}, NEW t \in Kinds, NEW ch \in Channels, NEW b
    PROVE  /\ FillTable4Bit(t, ch, b) \in 0 .. (FH.NrOfTables[t] - 1)
           /\ FillTable4Bit(t, ch, b) \in Tables
           /\ TableOK(FH, t, FillTable4Bit(t, ch, b))
<1> DEFINE G == FH.Seg[t]
           N == G.NrOfSegments[ch]
           End(i) == SegmentsEnd(t, ch, i + 1)
           before == {i \in 0 .. (N - 2) : End(i) <= b}
<1>0. FH \in Headers /\ ch \in Chans(FH) /\ Cut(FH, t) /\ Mapped(FH, t) /\ Given(FH, t)
  BY DEF TablesInv, Unpacked, Chans, Channels
<1>1. N \in Nat /\ N >= 1
  <2>1. N \in 1 .. (MAXNROF_SEGS + 1)
    BY <1>0 DEF Cut, SegmentsOK
  <2> QED BY <2>1, Constants
<1> HIDE DEF N
<1>2. Cardinality(before) \in 0 .. (N - 1)
  <2>1. IsFiniteSet(0 .. (N - 2)) /\ Cardinality(0 .. (N - 2)) <= N - 1
    <3> DEFINE m == N - 2
    <3>1. m \in Int /\ 0 \in Int /\ m + 1 = N - 1 /\ m + 1 >= 0
      BY <1>1
    <3> HIDE DEF m
    <3>2. IsFiniteSet(0 .. m) /\ Cardinality(0 .. m) = IF 0 > m THEN 0 ELSE m - 0 + 1
      BY <3>1, FS_Interval
    <3>3. Cardinality(0 .. m) <= m + 1
      BY <3>1, <3>2
    <3> QED BY <3>1, <3>2, <3>3 DEF m
  <2>2. before \in SUBSET (0 .. (N - 2))
    OBVIOUS
  <2> HIDE DEF before
  <2>3. IsFiniteSet(before) /\ Cardinality(before) <= Cardinality(0 .. (N - 2))
    BY <2>1, <2>2, FS_Subset
  <2>4. Cardinality(before) \in Nat /\ Cardinality(0 .. (N - 2)) \in Nat
    BY <2>1, <2>3, FS_CardinalityType
  <2> QED BY <1>1, <2>1, <2>3, <2>4
<1> DEFINE place == At(ch, Cardinality(before))
<1>3. FillTable4Bit(t, ch, b) = G.Table4Segment[IF place = Behind THEN 0 ELSE place]
  BY DEF FillTable4Bit, N
<1> HIDE DEF before
<1>4. FillTable4Bit(t, ch, b) \in 0 .. (FH.NrOfTables[t] - 1)
  <2>1. G.Table4Segment[place] \in 0 .. (FH.NrOfTables[t] - 1)
    BY <1>0, <1>2 DEF Mapped, Uses, N
  <2>2. G.Table4Segment[0] \in 0 .. (FH.NrOfTables[t] - 1)
    <3>1. 0 \in Chans(FH) /\ G.NrOfSegments[0] \in 1 .. (MAXNROF_SEGS + 1)
      BY <1>0, HeaderIs DEF Cut, SegmentsOK
    <3>2. 0 \in 0 .. (G.NrOfSegments[0] - 1)
      BY <3>1, Constants
    <3>3. G.Table4Segment[At(0, 0)] \in 0 .. (FH.NrOfTables[t] - 1)
      BY <3>1, <3>2, <1>0 DEF Mapped, Uses
    <3> QED BY <3>3, PlaceZero
  <2> HIDE DEF place
  <2> QED BY <1>3, <2>1, <2>2
<1>5. 0 .. (FH.NrOfTables[t] - 1) \subseteq Tables
  BY <1>0, TableNumbers
<1> QED
  BY <1>0, <1>4, <1>5 DEF Given

LEMMA TablesAreDefined ==
    ASSUME TablesInv
    PROVE  TablesDefined
<1> SUFFICES ASSUME pc = "decode", NEW t \in Kinds
             PROVE  /\ FH.NrOfTables[t] \in 1..MaxNrOfTables
                    /\ \A ch \in Channels :
                         /\ SegmentsEnd(t, ch, FH.Seg[t].NrOfSegments[ch] - 1) < NrOfBitsPerCh
                         /\ \A b \in 0..(NrOfBitsPerCh - 1) :
                              LET table == FillTable4Bit(t, ch, b)
                              IN /\ table < FH.NrOfTables[t] /\ FH.Len[t][table] \in 1..MaxEntries(t)
                                 /\ t = "P" => \A i \in 0..(FH.Len["P"][table] - 1) : FH.Entry["P"][table][i] \in Probabilities
  BY DEF TablesDefined
<1>0. FH \in Headers /\ Cut(FH, t) /\ Mapped(FH, t) /\ Channels = Chans(FH)
  BY DEF TablesInv, Unpacked, Chans, Channels
<1>1. FH.NrOfTables[t] \in 1 .. MaxNrOfTables /\ FH.NrOfTables[t] \in Int
  BY <1>0, HeaderIs DEF Mapped, MaxNrOfTables
<1>2. ASSUME NEW ch \in Channels
      PROVE  SegmentsEnd(t, ch, FH.Seg[t].NrOfSegments[ch] - 1) < NrOfBitsPerCh
  <2>1. Ends(FH, t, ch, FH.Seg[t].NrOfSegments[ch] - 1) < NrOfBitsPerCh
    BY <1>0 DEF Cut, SegmentsOK
  <2> QED BY <2>1 DEF Ends, Lengths, SegmentsEnd
<1>3. ASSUME NEW ch \in Channels, NEW b \in 0..(NrOfBitsPerCh - 1)
      PROVE  LET table == FillTable4Bit(t, ch, b)
             IN /\ table < FH.NrOfTables[t] /\ FH.Len[t][table] \in 1..MaxEntries(t)
                /\ t = "P" => \A i \in 0..(FH.Len["P"][table] - 1) : FH.Entry["P"][table][i] \in Probabilities
  <2> DEFINE table == FillTable4Bit(t, ch, b)
  <2>1. table \in 0 .. (FH.NrOfTables[t] - 1) /\ TableOK(FH, t, table)
    BY TableOfBit
  <2> HIDE DEF table
  <2>2. table < FH.NrOfTables[t]
    BY <2>1, <1>1
  <2>3. FH.Len[t][table] \in 1 .. MaxEntries(t) /\ EntriesOK(FH, t, table, FH.Len[t][table])
    BY <2>1 DEF TableOK
  <2>4. t = "P" => \A i \in 0..(FH.Len["P"][table] - 1) : FH.Entry["P"][table][i] \in Probabilities
    BY <2>3 DEF EntriesOK, Numbers
  <2> QED BY <2>2, <2>3, <2>4 DEF table
<1> QED
  BY <1>1, <1>2, <1>3

(* When decoding starts, every bit of every channel has a filter and a        *)
(* probability table that this frame has given, whose entries can be coded    *)
(* (unpack_dst.c, ReadMappingData; dst_fram.c, FillTable4Bit), whatever the   *)
(* widths, the limits of segments, the channels and the frame's length.       *)
THEOREM TablesAlwaysDefined == Spec => []TablesDefined
<1>1. TablesInv => TablesDefined
  BY TablesAreDefined
<1> QED
  BY <1>1, TablesInvariant, PTL
=============================================================================
