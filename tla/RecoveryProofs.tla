--------------------------- MODULE RecoveryProofs ---------------------------
(***************************************************************************)
(* What the recovery shares promise, for every threshold, number of shares, *)
(* length of a key and prime field: as many as the threshold give the key   *)
(* (SharesGiveTheKey), and one less rules out no more values of a symbol    *)
(* than there are shares (FewerRuleOutFew).                                 *)
(*                                                                          *)
(* The argument for the first is Lagrange's without powers or degrees.      *)
(* What the weights make of values y of some shares is AtZero.  The weights *)
(* add up to one (OnesGiveOne), and of y times the distance to a share a    *)
(* they sieve that share out (Sieve).  A polynomial is evaluated from its   *)
(* last coefficient on (IsHorner), and what is left of it from some         *)
(* coefficient on has that coefficient at zero (EndsInterpolate), by        *)
(* induction on how many are left.  For the second, a polynomial that is    *)
(* one at zero and zero at the shares (Vanishing), made share by share,     *)
(* is added as often as it takes to give another symbol; that is a deal     *)
(* unless a coefficient becomes zero, which each does for one symbol.       *)
(*                                                                          *)
(* There are no powers, products or sums of numbers modulo Prime in the     *)
(* libraries: Same is congruence, and the folds of the model are folds of   *)
(* one function over a finite set, in any order (FoldSplits).  Inductions   *)
(* are on sets: no number is the least that is not in one (CountingUp).     *)
(***************************************************************************)
EXTENDS RecoveryShares, SequenceTheorems, FiniteSetTheorems, WellFoundedInduction, TLAPS

----------------------------------------------------------------------------
(* Arithmetic modulo Prime.                                                 *)

Same(a, b) == a % Prime = b % Prime

LEMMA PrimeType == Prime \in Nat /\ Prime > 1
BY ThresholdAssumption, FieldAssumption

(* Quotient and rest.                                                       *)
LEMMA Rest ==
    ASSUME NEW a \in Int
    PROVE  /\ a % Prime \in Field
           /\ a \div Prime \in Int
           /\ a = Prime * (a \div Prime) + (a % Prime)
BY PrimeType, SMTT(30) DEF Field

(* A rest below Prime is the rest of division.                              *)
LEMMA RestIsUnique ==
    ASSUME NEW a \in Int, NEW q \in Int, NEW r \in Field, a = Prime * q + r
    PROVE  a % Prime = r
<1> DEFINE p == a \div Prime
           t == a % Prime
<1>1. t \in Field /\ p \in Int /\ a = Prime * p + t
  BY Rest
<1>2. Prime \in Int /\ Prime > 0 /\ t \in Int /\ r \in Int
  BY <1>1, PrimeType DEF Field
<1> HIDE DEF p, t
<1>3. Prime * p - Prime * q = Prime * (p - q)
  BY <1>1, <1>2
<1>4. r - t = Prime * (p - q)
  <2> DEFINE x == Prime * p
             y == Prime * q
             z == Prime * (p - q)
  <2>1. x \in Int /\ y \in Int /\ z \in Int /\ a = x + t /\ a = y + r /\ x - y = z
    BY <1>1, <1>2, <1>3
  <2> HIDE DEF x, y, z
  <2>2. r - t = z
    BY <1>2, <2>1
  <2> QED BY <2>2 DEF z
<1>5. r - t < Prime /\ t - r < Prime
  BY <1>1, <1>2 DEF Field
<1>6. CASE p - q >= 1
  <2>1. Prime * (p - q) >= Prime
    BY <1>1, <1>2, <1>6
  <2> QED BY <1>2, <1>4, <1>5, <2>1
<1>7. CASE p - q <= -1
  <2>1. Prime * (p - q) <= -Prime
    BY <1>1, <1>2, <1>7
  <2> QED BY <1>2, <1>4, <1>5, <2>1
<1>8. CASE p = q
  BY <1>2, <1>4, <1>8 DEF t
<1> QED BY <1>1, <1>6, <1>7, <1>8

(* Same: they differ by a multiple of Prime.                                *)
LEMMA SameIfMultiple ==
    ASSUME NEW a \in Int, NEW b \in Int, NEW k \in Int, a = b + Prime * k
    PROVE  Same(a, b)
<1> DEFINE q == b \div Prime
           r == b % Prime
<1>1. r \in Field /\ q \in Int /\ b = Prime * q + r /\ Prime \in Int
  BY Rest, PrimeType
<1> HIDE DEF q, r
<1>2. a = Prime * (q + k) + r /\ q + k \in Int
  BY <1>1 DEF Field
<1>3. a % Prime = r
  BY <1>1, <1>2, RestIsUnique
<1> QED BY <1>3 DEF Same, r

LEMMA MultipleIfSame ==
    ASSUME NEW a \in Int, NEW b \in Int, Same(a, b)
    PROVE  \E k \in Int : a = b + Prime * k
<1> DEFINE p == a \div Prime
           q == b \div Prime
           r == b % Prime
<1>1. /\ r \in Field /\ q \in Int /\ p \in Int /\ Prime \in Int
      /\ b = Prime * q + r /\ a = Prime * p + r
  BY Rest, PrimeType DEF Same
<1> HIDE DEF p, q, r
<1>2. a = b + Prime * (p - q) /\ p - q \in Int
  BY <1>1 DEF Field
<1> QED BY <1>2

LEMMA SameRest ==
    ASSUME NEW a \in Int
    PROVE  Same(a % Prime, a)
<1> DEFINE r == a % Prime
<1>1. r \in Field
  BY Rest
<1> HIDE DEF r
<1>2. r \in Int /\ r = Prime * 0 + r
  BY <1>1, PrimeType DEF Field
<1>3. r % Prime = r
  BY <1>1, <1>2, RestIsUnique
<1> QED BY <1>3 DEF Same, r

(* Sums and products of the same are the same.                              *)
LEMMA SameSum ==
    ASSUME NEW a \in Int, NEW b \in Int, NEW c \in Int, NEW d \in Int,
           Same(a, b), Same(c, d)
    PROVE  Same(a + c, b + d)
<1>1. PICK k \in Int : a = b + Prime * k
  BY MultipleIfSame
<1>2. PICK m \in Int : c = d + Prime * m
  BY MultipleIfSame
<1>3. a + c = (b + d) + Prime * (k + m)
  BY <1>1, <1>2, PrimeType
<1> QED BY <1>3, SameIfMultiple

LEMMA SameProduct ==
    ASSUME NEW a \in Int, NEW b \in Int, NEW c \in Int, NEW d \in Int,
           Same(a, b), Same(c, d)
    PROVE  Same(a * c, b * d)
<1>1. PICK k \in Int : a = b + Prime * k
  BY MultipleIfSame
<1>2. PICK m \in Int : c = d + Prime * m
  BY MultipleIfSame
<1>3. a * c = b * d + Prime * (b * m + k * d + k * (Prime * m))
  BY <1>1, <1>2, PrimeType
<1>4. b * m + k * d + k * (Prime * m) \in Int /\ a * c \in Int /\ b * d \in Int
  BY PrimeType
<1> QED BY <1>3, <1>4, SameIfMultiple

(* So does a linear combination.                                            *)
LEMMA SameLinear ==
    ASSUME NEW a \in Int, NEW b \in Int, NEW c \in Int, NEW d \in Int, NEW k \in Int,
           Same(a, b), Same(c, d)
    PROVE  /\ Same(a + k * c, b + k * d) /\ Same(b + k * d, a + k * c)
           /\ a + k * c \in Int /\ b + k * d \in Int
<1>1. Same(k, k)
  BY DEF Same
<1>2. Same(k * c, k * d) /\ k * c \in Int /\ k * d \in Int
  BY <1>1, SameProduct
<1>3. Same(a + k * c, b + k * d)
  BY <1>2, SameSum
<1> QED BY <1>2, <1>3 DEF Same

(* What is not zero can be cancelled.                                       *)
LEMMA NoZeroDivisors ==
    ASSUME NEW a \in Int, NEW b \in Int, Same(a * b, 0)
    PROVE  Same(a, 0) \/ Same(b, 0)
<1> DEFINE r == a % Prime
           s == b % Prime
<1>1. r \in Field /\ s \in Field /\ Same(r, a) /\ Same(s, b) /\ r \in Int /\ s \in Int
  BY Rest, SameRest, PrimeType DEF Field
<1>2. 0 % Prime = 0
  BY PrimeType, RestIsUnique DEF Field
<1> HIDE DEF r, s
<1>3. Same(r * s, a * b)
  BY <1>1, SameProduct
<1>4. (r * s) % Prime = 0
  BY <1>2, <1>3 DEF Same
<1>5. r = 0 \/ s = 0
  <2> SUFFICES ASSUME r # 0, s # 0 PROVE FALSE
    OBVIOUS
  <2>1. r \in 1 .. Prime - 1 /\ s \in 1 .. Prime - 1
    BY <1>1, PrimeType DEF Field
  <2> QED BY <1>4, <2>1, FieldAssumption
<1> QED BY <1>2, <1>5 DEF Same, r, s

LEMMA Cancel ==
    ASSUME NEW a \in Int, NEW b \in Int, NEW c \in Int, ~Same(a, 0), Same(a * b, a * c)
    PROVE  Same(b, c)
<1>1. PICK k \in Int : a * b = a * c + Prime * k
  BY MultipleIfSame
<1>2. a * (b - c) = 0 + Prime * k /\ a * (b - c) \in Int
  BY <1>1, PrimeType
<1>3. Same(a * (b - c), 0)
  BY <1>2, SameIfMultiple
<1>4. Same(b - c, 0)
  BY <1>3, NoZeroDivisors
<1>5. PICK m \in Int : b - c = 0 + Prime * m
  BY <1>4, MultipleIfSame
<1>6. b = c + Prime * m
  BY <1>5, PrimeType
<1> QED BY <1>6, SameIfMultiple

(* Division in the field: times a number that is not zero, every value of   *)
(* the field comes once.                                                    *)
LEMMA Division ==
    ASSUME NEW a \in Field, NEW b \in Field, b # 0
    PROVE  Over(a, b) \in Field /\ Same(Over(a, b) * b, a)
<1>1. /\ Field \subseteq Int /\ Prime \in Int /\ Prime > 1
      /\ \A c \in Field : c % Prime = c
  <2>1. ASSUME NEW c \in Field PROVE c % Prime = c
    <3>1. c \in Int /\ c = Prime * 0 + c
      BY PrimeType DEF Field
    <3> QED BY <3>1, RestIsUnique
  <2> QED BY <2>1, PrimeType DEF Field
<1> DEFINE f == [q \in Field |-> (q * b) % Prime]
<1>2. f \in [Field -> Field]
  <2>1. \A q \in Field : q * b \in Int
    BY <1>1
  <2> QED BY <2>1, Rest
<1>3. ASSUME NEW q \in Field, NEW r \in Field, f[q] = f[r] PROVE q = r
  <2>1. ~Same(b, 0)
    BY <1>1 DEF Same, Field
  <2>2. Same(b * q, b * r) /\ q \in Int /\ r \in Int /\ b \in Int
    BY <1>1, <1>3 DEF Same
  <2>3. Same(q, r)
    BY <2>1, <2>2, Cancel
  <2> QED BY <1>1, <2>3 DEF Same
<1>4. f \in Injection(Field, Field)
  <2> HIDE DEF f
  <2> QED BY <1>2, <1>3 DEF Injection, IsInjective
<1>5. IsFiniteSet(Field)
  BY <1>1, FS_Interval DEF Field
<1> HIDE DEF f
<1>6. f \in Surjection(Field, Field)
  BY <1>4, <1>5, FS_Injection
<1>7. PICK q \in Field : f[q] = a
  BY <1>6 DEF Surjection
<1>8. (q * b) % Prime = a
  BY <1>7 DEF f
<1>9. Over(a, b) = CHOOSE r \in Field : b # 0 => (r * b) % Prime = a
  BY DEF Over
<1>10. Over(a, b) \in Field /\ (Over(a, b) * b) % Prime = a
  BY <1>8, <1>9
<1> QED BY <1>1, <1>10 DEF Same

----------------------------------------------------------------------------
(* Recursion, and folds over finite sets.                                   *)

(* What holds of zero, and of n + 1 if of n, holds of every number.         *)
LEMMA CountingUp ==
    ASSUME NEW W, 0 \in W, \A n \in Nat : n \in W => n + 1 \in W
    PROVE  Nat \subseteq W
<1> DEFINE Out == Nat \ W
<1> SUFFICES ASSUME Out # {} PROVE FALSE
  OBVIOUS
<1>1. PICK n \in Out : \A m \in Out : ~(<<m, n>> \in OpToRel(<, Nat))
  <2>1. Out \subseteq Nat
    OBVIOUS
  <2> HIDE DEF Out
  <2> QED BY <2>1, WFMin, NatLessThanWellFounded
<1>2. n \in Nat /\ n # 0 /\ n \notin W
  BY <1>1
<1>3. n - 1 \in Nat /\ n - 1 \notin W /\ (n - 1) + 1 = n
  BY <1>2
<1>4. <<n - 1, n>> \in OpToRel(<, Nat)
  BY <1>2, <1>3 DEF OpToRel
<1> QED BY <1>1, <1>3, <1>4

(* What holds of n, and of d if of d + 1, holds from n down to one.         *)
LEMMA CountingDown ==
    ASSUME NEW n \in Nat \ {0}, NEW W, n \in W,
           \A d \in 1 .. n - 1 : d + 1 \in W => d \in W
    PROVE  1 .. n \subseteq W
<1> DEFINE Up == {i \in Nat : i < n => n - i \in W}
<1>1. 0 \in Up
  OBVIOUS
<1>2. ASSUME NEW i \in Nat, i \in Up PROVE i + 1 \in Up
  <2> SUFFICES ASSUME i + 1 < n PROVE n - (i + 1) \in W
    OBVIOUS
  <2>1. n - (i + 1) \in 1 .. n - 1 /\ (n - (i + 1)) + 1 = n - i /\ i < n
    OBVIOUS
  <2>2. (n - (i + 1)) + 1 \in W
    BY <1>2, <2>1
  <2> HIDE DEF Up
  <2> QED BY <2>1, <2>2
<1>3. Nat \subseteq Up
  <2> HIDE DEF Up
  <2> QED BY <1>1, <1>2, CountingUp
<1>4. ASSUME NEW d \in 1 .. n PROVE d \in W
  <2>1. n - d \in Nat /\ n - d < n /\ n - (n - d) = d
    OBVIOUS
  <2>2. n - d \in Up
    BY <1>3, <2>1
  <2> QED BY <2>1, <2>2
<1> QED BY <1>4

\* The values in V that n steps of g give, from b on.
Iterates(n, V, b, g) ==
    {h \in [0 .. n -> V] : h[0] = b /\ \A i \in 0 .. n - 1 : h[i + 1] = g[i][h[i]]}
StepsIn(V) == [Nat -> [V -> V]]

LEMMA Recursion ==
    ASSUME NEW V, NEW b \in V, NEW g \in StepsIn(V)
    PROVE  \A n \in Nat : Iterates(n, V, b, g) # {}
<1> DEFINE Good(n, h) == h[0] = b /\ \A i \in 0 .. n - 1 : h[i + 1] = g[i][h[i]]
           W == {n \in Nat : \E h \in [0 .. n -> V] : Good(n, h)}
<1>1. 0 \in W
  <2>1. [i \in 0 .. 0 |-> b] \in [0 .. 0 -> V] /\ Good(0, [i \in 0 .. 0 |-> b])
    OBVIOUS
  <2> HIDE DEF Good
  <2> QED BY <2>1
<1>2. ASSUME NEW n \in Nat, n \in W PROVE n + 1 \in W
  <2>1. PICK h \in [0 .. n -> V] : Good(n, h)
    BY <1>2
  <2> DEFINE e == [i \in 0 .. n + 1 |-> IF i <= n THEN h[i] ELSE g[n][h[n]]]
  <2>2. h[n] \in V /\ g[n][h[n]] \in V
    BY DEF StepsIn
  <2>3. e \in [0 .. n + 1 -> V]
    BY <2>2
  <2>4. e[0] = b
    BY <2>1
  <2>5. ASSUME NEW i \in 0 .. (n + 1) - 1 PROVE e[i + 1] = g[i][e[i]]
    <3>1. CASE i = n
      BY <3>1
    <3>2. CASE i \in 0 .. n - 1
      <4>1. h[i + 1] = g[i][h[i]]
        BY <2>1, <3>2
      <4>2. e[i + 1] = h[i + 1] /\ e[i] = h[i]
        BY <3>2
      <4> QED BY <4>1, <4>2
    <3> QED BY <3>1, <3>2
  <2> HIDE DEF e
  <2>6. Good(n + 1, e)
    BY <2>4, <2>5
  <2> HIDE DEF Good
  <2> QED BY <2>3, <2>6
<1> HIDE DEF Good
<1>3. Nat \subseteq W
  <2> HIDE DEF W
  <2> QED BY <1>1, <1>2, CountingUp
<1>4. \A n \in Nat : \E h \in [0 .. n -> V] : Good(n, h)
  BY <1>3
<1> QED BY <1>4 DEF Good, Iterates

\* What a fold over the finite set A takes: a value b to begin with, and f of
\* each member, with a function g for which the order does not matter.
CanFold(A, V, b, g, f) ==
    /\ IsFiniteSet(A) /\ b \in V /\ f \in [A -> V]
    /\ g \in [V -> [V -> V]]
    /\ \A u, v, w \in V : g[u][g[v][w]] = g[v][g[u][w]]

\* What it gives, for every subset of A.
IsFold(h, A, V, b, g, f) ==
    /\ h \in [SUBSET A -> V]
    /\ h = [s \in SUBSET A |->
              IF s = {} THEN b
              ELSE g[f[CHOOSE x \in s : TRUE]][h[s \ {CHOOSE x \in s : TRUE}]]]

(* There is a fold.                                                         *)
LEMMA FoldExists ==
    ASSUME NEW A, NEW V, NEW b, NEW g, NEW f, CanFold(A, V, b, g, f)
    PROVE  \E h : IsFold(h, A, V, b, g, f)
<1>0. /\ IsFiniteSet(A) /\ b \in V /\ f \in [A -> V] /\ g \in [V -> [V -> V]]
  BY DEF CanFold
<1> DEFINE pick(s) == CHOOSE x \in s : TRUE
           P == [SUBSET A -> V]
           next(h) == [s \in SUBSET A |->
                          IF s = {} THEN b ELSE g[f[pick(s)]][h[s \ {pick(s)}]]]
           G == [i \in Nat |-> [h \in P |-> next(h)]]
           first == [s \in SUBSET A |-> b]
           n == Cardinality(A)
<1>1. \A s \in SUBSET A : s # {} => pick(s) \in s
  OBVIOUS
<1> HIDE DEF pick
<1>2. ASSUME NEW h \in P PROVE next(h) \in P
  <2>1. ASSUME NEW s \in SUBSET A, s # {} PROVE g[f[pick(s)]][h[s \ {pick(s)}]] \in V
    <3>1. pick(s) \in A /\ s \ {pick(s)} \in SUBSET A
      BY <1>1, <2>1
    <3>2. f[pick(s)] \in V /\ h[s \ {pick(s)}] \in V
      BY <1>0, <3>1
    <3> QED BY <1>0, <3>2
  <2> QED BY <1>0, <2>1
<1>3. first \in P
  BY <1>0
<1>4. G \in StepsIn(P)
  <2> HIDE DEF next, P
  <2> QED BY <1>2 DEF StepsIn
<1>5. n \in Nat
  BY <1>0, FS_CardinalityType
<1>6. PICK H \in [0 .. n + 1 -> P] :
         H[0] = first /\ \A i \in 0 .. (n + 1) - 1 : H[i + 1] = G[i][H[i]]
  <2> HIDE DEF P, G, first, n
  <2>1. \A m \in Nat : Iterates(m, P, first, G) # {}
    BY <1>3, <1>4, Recursion
  <2>2. n + 1 \in Nat
    BY <1>5
  <2> QED BY <2>1, <2>2 DEF Iterates
<1>7. ASSUME NEW i \in 0 .. n PROVE H[i] \in P /\ H[i + 1] = next(H[i])
  <2> HIDE DEF next, P, first, n
  <2>1. i \in Nat /\ i \in 0 .. (n + 1) - 1 /\ i \in 0 .. n + 1
    BY <1>5
  <2>2. H[i] \in P /\ H[i + 1] = G[i][H[i]]
    BY <1>6, <2>1
  <2> QED BY <2>1, <2>2
\* After i steps the values of sets of at most i members are final.
<1> DEFINE W == {i \in Nat : i <= n =>
                    \A s \in SUBSET A : Cardinality(s) <= i => H[i + 1][s] = H[i][s]}
<1> HIDE DEF G
<1>8. 0 \in W
  <2>1. ASSUME NEW s \in SUBSET A, Cardinality(s) <= 0 PROVE H[1][s] = H[0][s]
    <3>1. s = {}
      <4>1. IsFiniteSet(s)
        BY <1>0, FS_Subset
      <4> QED BY <2>1, <4>1, FS_CardinalityType, FS_EmptySet
    <3>2. H[0 + 1] = next(H[0])
      <4> HIDE DEF next, P, n
      <4> QED BY <1>5, <1>7
    <3>3. H[1] = next(H[0]) /\ H[0] = first
      BY <1>6, <3>2
    <3>4. H[1][s] = b /\ H[0][s] = b
      BY <3>1, <3>3
    <3> QED BY <3>4
  <2> QED BY <2>1
<1>9. ASSUME NEW i \in Nat, i \in W PROVE i + 1 \in W
  <2> SUFFICES ASSUME i + 1 <= n, NEW s \in SUBSET A, Cardinality(s) <= i + 1
               PROVE  H[(i + 1) + 1][s] = H[i + 1][s]
    OBVIOUS
  <2>1. H[i + 1] = next(H[i]) /\ H[(i + 1) + 1] = next(H[i + 1])
    <3>1. i \in 0 .. n /\ i + 1 \in 0 .. n
      BY <1>5
    <3> HIDE DEF next, P, n
    <3> QED BY <1>7, <3>1
  <2>2. CASE s = {}
    BY <2>1, <2>2
  <2>3. CASE s # {}
    <3> DEFINE t == s \ {pick(s)}
    <3>1. t \in SUBSET A /\ Cardinality(t) <= i
      <4>1. IsFiniteSet(s) /\ pick(s) \in s
        BY <1>0, <1>1, <2>3, FS_Subset
      <4>2. Cardinality(t) = Cardinality(s) - 1 /\ Cardinality(s) \in Nat
        BY <4>1, FS_RemoveElement, FS_CardinalityType
      <4> QED BY <4>2
    <3>2. H[i + 1][t] = H[i][t]
      <4> HIDE DEF t, n
      <4> QED BY <1>5, <1>9, <3>1
    <3>3. /\ next(H[i])[s] = g[f[pick(s)]][H[i][t]]
          /\ next(H[i + 1])[s] = g[f[pick(s)]][H[i + 1][t]]
      BY <2>3
    <3> QED BY <2>1, <3>2, <3>3
  <2> QED BY <2>2, <2>3
<1>10. n \in W
  <2> HIDE DEF W
  <2> QED BY <1>5, <1>8, <1>9, CountingUp
<1>11. \A s \in SUBSET A : H[n + 1][s] = H[n][s]
  <2>1. \A s \in SUBSET A : Cardinality(s) <= n
    BY <1>0, FS_Subset
  <2> QED BY <1>5, <1>10, <2>1
<1>12. H[n] \in P /\ H[n + 1] = next(H[n]) /\ H[n + 1] \in P
  <2>1. H[n] \in P /\ H[n + 1] = next(H[n])
    <3> HIDE DEF next, P, n
    <3> QED BY <1>5, <1>7
  <2> QED BY <1>2, <2>1
<1>13. H[n + 1] = H[n]
  <2> DEFINE x == H[n]
             y == H[n + 1]
  <2>1. /\ x \in [SUBSET A -> V] /\ y \in [SUBSET A -> V]
        /\ \A s \in SUBSET A : y[s] = x[s]
    BY <1>11, <1>12
  <2> HIDE DEF x, y
  <2>2. y = x
    BY <2>1
  <2> QED BY <2>2 DEF x, y
<1>14. H[n] = next(H[n])
  BY <1>12, <1>13
<1>15. IsFold(H[n], A, V, b, g, f)
  BY <1>12, <1>14 DEF IsFold, pick
<1> QED BY <1>15

(* One member or another may be taken out first.                            *)
LEMMA FoldTakesAny ==
    ASSUME NEW A, NEW V, NEW b, NEW g, NEW f, CanFold(A, V, b, g, f),
           NEW h, IsFold(h, A, V, b, g, f)
    PROVE  \A s \in SUBSET A : \A a \in s : h[s] = g[f[a]][h[s \ {a}]]
<1>0. /\ IsFiniteSet(A) /\ f \in [A -> V] /\ h \in [SUBSET A -> V]
      /\ \A u, v, w \in V : g[u][g[v][w]] = g[v][g[u][w]]
  BY DEF CanFold, IsFold
<1> DEFINE pick(s) == CHOOSE x \in s : TRUE
           Wrong == {s \in SUBSET A : ~(\A a \in s : h[s] = g[f[a]][h[s \ {a}]])}
<1> SUFFICES ASSUME Wrong # {} PROVE FALSE
  OBVIOUS
<1>1. PICK s \in Wrong : \A t \in Wrong : ~(<<t, s>> \in StrictSubsetOrdering(A))
  <2>1. Wrong \subseteq FiniteSubsetsOf(A)
    BY <1>0, FS_Subset DEF FiniteSubsetsOf
  <2> HIDE DEF Wrong
  <2> QED BY <2>1, WFMin, FS_StrictSubsetOrderingWellFounded
<1>2. PICK a \in s : h[s] # g[f[a]][h[s \ {a}]]
  BY <1>1
<1>3. \A t \in SUBSET A : t # {} => pick(t) \in t /\ h[t] = g[f[pick(t)]][h[t \ {pick(t)}]]
  BY DEF IsFold
<1> DEFINE x == pick(s)
<1>4. s \in SUBSET A /\ x \in s /\ x # a /\ a \in A /\ h[s] = g[f[x]][h[s \ {x}]]
  <2>1. s \in SUBSET A /\ s # {} /\ a \in A
    BY <1>1, <1>2
  <2> QED BY <1>2, <1>3, <2>1
<1> HIDE DEF x
<1>5. ASSUME NEW y \in s PROVE \A c \in s \ {y} : h[s \ {y}] = g[f[c]][h[(s \ {y}) \ {c}]]
  <2>1. s \ {y} \in SUBSET A /\ <<s \ {y}, s>> \in StrictSubsetOrdering(A)
    BY <1>4, <1>5 DEF StrictSubsetOrdering
  <2>2. s \ {y} \notin Wrong
    BY <1>1, <2>1
  <2> QED BY <2>1, <2>2
<1> HIDE DEF Wrong
<1> DEFINE r == (s \ {x}) \ {a}
<1>6. h[s \ {x}] = g[f[a]][h[r]]
  BY <1>2, <1>4, <1>5
<1>7. h[s \ {a}] = g[f[x]][h[r]]
  <2>1. h[s \ {a}] = g[f[x]][h[(s \ {a}) \ {x}]]
    <3>1. x \in s \ {a}
      BY <1>4
    <3> QED BY <1>2, <1>5, <3>1
  <2>2. (s \ {a}) \ {x} = r
    OBVIOUS
  <2> QED BY <2>1, <2>2
<1>8. f[x] \in V /\ f[a] \in V /\ h[r] \in V
  BY <1>0, <1>4
<1>9. g[f[x]][g[f[a]][h[r]]] = g[f[a]][g[f[x]][h[r]]]
  <2> HIDE DEF r
  <2> QED BY <1>0, <1>8
<1>10. h[s] = g[f[x]][g[f[a]][h[r]]] /\ h[s \ {a}] = g[f[x]][h[r]]
  <2> HIDE DEF r
  <2> QED BY <1>4, <1>6, <1>7
<1> QED BY <1>2, <1>9, <1>10

(* Folds over two sets agree where their functions do.                      *)
LEMMA FoldsAgree ==
    ASSUME NEW A, NEW V, NEW b, NEW g, NEW f, CanFold(A, V, b, g, f),
           NEW h, IsFold(h, A, V, b, g, f), NEW B \in SUBSET A,
           NEW e, \A x \in B : e[x] = f[x], NEW k, IsFold(k, B, V, b, g, e)
    PROVE  k[B] = h[B]
<1>0. IsFiniteSet(A) /\ IsFiniteSet(B)
  BY FS_Subset DEF CanFold
<1> DEFINE pick(s) == CHOOSE x \in s : TRUE
           Wrong == {s \in SUBSET B : k[s] # h[s]}
<1> SUFFICES ASSUME Wrong # {} PROVE FALSE
  OBVIOUS
<1>1. PICK s \in Wrong : \A t \in Wrong : ~(<<t, s>> \in StrictSubsetOrdering(B))
  <2>1. Wrong \subseteq FiniteSubsetsOf(B)
    BY <1>0, FS_Subset DEF FiniteSubsetsOf
  <2> HIDE DEF Wrong
  <2> QED BY <2>1, WFMin, FS_StrictSubsetOrderingWellFounded
<1>2. s \in SUBSET B /\ s \in SUBSET A /\ k[s] # h[s]
  BY <1>1
<1>3. /\ h[s] = IF s = {} THEN b ELSE g[f[pick(s)]][h[s \ {pick(s)}]]
      /\ k[s] = IF s = {} THEN b ELSE g[e[pick(s)]][k[s \ {pick(s)}]]
  BY <1>2 DEF IsFold
<1>4. s # {} /\ pick(s) \in s
  BY <1>2, <1>3
<1> HIDE DEF pick
<1>5. s \ {pick(s)} \in SUBSET B /\ <<s \ {pick(s)}, s>> \in StrictSubsetOrdering(B)
  BY <1>2, <1>4 DEF StrictSubsetOrdering
<1>6. k[s \ {pick(s)}] = h[s \ {pick(s)}]
  BY <1>1, <1>5
<1>7. e[pick(s)] = f[pick(s)]
  BY <1>2, <1>4
<1> QED BY <1>2, <1>3, <1>4, <1>6, <1>7

\* k takes the steps of a fold, as far as they are known to stay in V.
Follows(k, A, V, b, g, f) ==
    /\ k[{}] = b
    /\ \A s \in SUBSET A :
          LET x == CHOOSE x \in s : TRUE IN
          s # {} /\ k[s \ {x}] \in V => k[s] = g[f[x]][k[s \ {x}]]

(* Then it is the fold.                                                     *)
LEMMA FoldChosen ==
    ASSUME NEW A, NEW V, NEW b, NEW g, NEW f, CanFold(A, V, b, g, f),
           NEW h, IsFold(h, A, V, b, g, f), NEW k, Follows(k, A, V, b, g, f)
    PROVE  k[A] = h[A]
<1>0. IsFiniteSet(A) /\ b \in V /\ h \in [SUBSET A -> V]
  BY DEF CanFold, IsFold
<1> DEFINE pick(s) == CHOOSE x \in s : TRUE
           Wrong == {s \in SUBSET A : k[s] # h[s]}
<1> SUFFICES ASSUME Wrong # {} PROVE FALSE
  OBVIOUS
<1>1. PICK s \in Wrong : \A t \in Wrong : ~(<<t, s>> \in StrictSubsetOrdering(A))
  <2>1. Wrong \subseteq FiniteSubsetsOf(A)
    BY <1>0, FS_Subset DEF FiniteSubsetsOf
  <2> HIDE DEF Wrong
  <2> QED BY <2>1, WFMin, FS_StrictSubsetOrderingWellFounded
<1>2. s \in SUBSET A /\ k[s] # h[s]
  BY <1>1
<1>3. /\ h[s] = IF s = {} THEN b ELSE g[f[pick(s)]][h[s \ {pick(s)}]]
      /\ s = {} => k[s] = b
      /\ s # {} /\ k[s \ {pick(s)}] \in V => k[s] = g[f[pick(s)]][k[s \ {pick(s)}]]
  BY <1>2 DEF IsFold, Follows
<1>4. s # {} /\ pick(s) \in s
  BY <1>2, <1>3
<1> HIDE DEF pick
<1>5. s \ {pick(s)} \in SUBSET A /\ <<s \ {pick(s)}, s>> \in StrictSubsetOrdering(A)
  BY <1>2, <1>4 DEF StrictSubsetOrdering
<1>6. k[s \ {pick(s)}] = h[s \ {pick(s)}] /\ h[s \ {pick(s)}] \in V
  BY <1>0, <1>1, <1>5
<1> QED BY <1>2, <1>3, <1>4, <1>6

(* One member is split off.                                                 *)
LEMMA FoldSplits ==
    ASSUME NEW A, NEW V, NEW b, NEW g, NEW f, CanFold(A, V, b, g, f), NEW a \in A,
           NEW h, IsFold(h, A, V, b, g, f),
           NEW e, \A x \in A \ {a} : e[x] = f[x],
           NEW k, IsFold(k, A \ {a}, V, b, g, e)
    PROVE  h[A] = g[f[a]][k[A \ {a}]]
<1>1. h[A] = g[f[a]][h[A \ {a}]]
  BY FoldTakesAny
<1>2. k[A \ {a}] = h[A \ {a}]
  BY FoldsAgree
<1> QED BY <1>1, <1>2

----------------------------------------------------------------------------
(* Sums and products over finite sets of shares.                            *)

Plus == [u \in Int |-> [v \in Int |-> u + v]]
Times == [u \in Field |-> [v \in Field |-> (u * v) % Prime]]
\* f without one of its values.
Without(f, a) == [x \in DOMAIN f \ {a} |-> f[x]]
Product(f) == FoldFunction(LAMBDA q, w : (q * w) % Prime, 1, f)

(* Sums and products are such folds.                                        *)
LEMMA SumFolds ==
    ASSUME NEW D, IsFiniteSet(D), NEW f \in [D -> Int]
    PROVE  /\ CanFold(D, Int, 0, Plus, f)
           /\ \E h : IsFold(h, D, Int, 0, Plus, f) /\ SumFunction(f) = h[D]
<1> DEFINE pick(s) == CHOOSE x \in s : TRUE
           step(h) == [s \in SUBSET D |->
                          IF s = {} THEN 0 ELSE f[pick(s)] + h[s \ {pick(s)}]]
           sum == CHOOSE h : h = step(h)
<1>1. SumFunction(f) = sum[D]
  BY DEF SumFunction, SumFunctionOnSet, FoldFunctionOnSet, MapThenFoldSet
<1>2. CanFold(D, Int, 0, Plus, f)
  <2>1. Plus \in [Int -> [Int -> Int]]
    BY DEF Plus
  <2>2. \A u, v, w \in Int : Plus[u][Plus[v][w]] = Plus[v][Plus[u][w]]
    BY DEF Plus
  <2> QED BY <2>1, <2>2 DEF CanFold
<1>3. PICK h : IsFold(h, D, Int, 0, Plus, f)
  BY <1>2, FoldExists
<1>4. \A s \in SUBSET D : s # {} => pick(s) \in D
  OBVIOUS
<1>5. h = step(h)
  <2>1. \A s \in SUBSET D : s # {} =>
           Plus[f[pick(s)]][h[s \ {pick(s)}]] = f[pick(s)] + h[s \ {pick(s)}]
    <3> SUFFICES ASSUME NEW s \in SUBSET D, s # {}
                 PROVE  Plus[f[pick(s)]][h[s \ {pick(s)}]] = f[pick(s)] + h[s \ {pick(s)}]
      OBVIOUS
    <3>1. f[pick(s)] \in Int /\ h[s \ {pick(s)}] \in Int
      <4>1. s \ {pick(s)} \in SUBSET D /\ h \in [SUBSET D -> Int]
        BY <1>3 DEF IsFold
      <4> HIDE DEF pick
      <4> QED BY <1>4, <4>1
    <3> HIDE DEF pick
    <3> QED BY <3>1 DEF Plus
  <2>2. h = [s \in SUBSET D |->
                IF s = {} THEN 0 ELSE Plus[f[pick(s)]][h[s \ {pick(s)}]]]
    BY <1>3 DEF IsFold
  <2> HIDE DEF pick
  <2> QED BY <2>1, <2>2
<1>6. sum = step(sum)
  <2> HIDE DEF step
  <2> QED BY <1>5
<1> HIDE DEF sum
<1>7. sum[{}] = 0
  BY <1>6
<1>8. ASSUME NEW s \in SUBSET D, s # {}, sum[s \ {pick(s)}] \in Int
      PROVE  sum[s] = Plus[f[pick(s)]][sum[s \ {pick(s)}]]
  <2>1. sum[s] = f[pick(s)] + sum[s \ {pick(s)}]
    BY <1>6, <1>8
  <2>2. f[pick(s)] \in Int
    BY <1>4, <1>8
  <2> HIDE DEF pick
  <2> QED BY <1>8, <2>1, <2>2 DEF Plus
<1>9. Follows(sum, D, Int, 0, Plus, f)
  <2> HIDE DEF step
  <2> QED BY <1>7, <1>8 DEF Follows, pick
<1>10. sum[D] = h[D]
  <2> DEFINE Z == Int
  <2>1. CanFold(D, Z, 0, Plus, f) /\ IsFold(h, D, Z, 0, Plus, f) /\ Follows(sum, D, Z, 0, Plus, f)
    BY <1>2, <1>3, <1>9
  <2> HIDE DEF Z
  <2> QED BY <2>1, FoldChosen
<1> QED BY <1>1, <1>2, <1>3, <1>10

LEMMA TimesSwaps ==
    /\ Times \in [Field -> [Field -> Field]] /\ 1 \in Field /\ Field \subseteq Int
    /\ \A u, v \in Field : Same(Times[u][v], u * v)
    /\ \A u, v, w \in Field : Times[u][Times[v][w]] = Times[v][Times[u][w]]
<1>1. /\ Times \in [Field -> [Field -> Field]] /\ 1 \in Field
      /\ \A u, v \in Field : Times[u][v] = (u * v) % Prime /\ Same(Times[u][v], u * v)
      /\ Field \subseteq Int
  <2>1. Field \subseteq Int /\ 1 \in Field
    BY PrimeType DEF Field
  <2>2. \A u, v \in Field : u * v \in Int
    BY <2>1
  <2>3. Times \in [Field -> [Field -> Field]]
    BY <2>2, Rest DEF Times
  <2>4. \A u, v \in Field : Times[u][v] = (u * v) % Prime
    BY DEF Times
  <2> QED BY <2>1, <2>2, <2>3, <2>4, SameRest
<1>2. ASSUME NEW u \in Field, NEW v \in Field, NEW w \in Field
      PROVE  Times[u][Times[v][w]] = Times[v][Times[u][w]]
  <2> DEFINE p == Times[v][w]
             q == Times[u][w]
  <2>1. p \in Field /\ q \in Field /\ Same(p, v * w) /\ Same(q, u * w)
    BY <1>1
  <2>2. Times[u][p] = (u * p) % Prime /\ Times[v][q] = (v * q) % Prime
    BY <1>1, <2>1
  <2> HIDE DEF p, q
  <2>3. u \in Int /\ v \in Int /\ w \in Int /\ p \in Int /\ q \in Int /\ v * w \in Int /\ u * w \in Int
    BY <1>1, <2>1
  <2>4. Same(u, u) /\ Same(v, v)
    BY DEF Same
  <2>5. Same(u * p, u * (v * w)) /\ Same(v * q, v * (u * w))
    BY <2>1, <2>3, <2>4, SameProduct
  <2>6. u * (v * w) = v * (u * w)
    BY <2>3
  <2>7. Same(u * p, v * q)
    BY <2>5, <2>6 DEF Same
  <2>8. (u * p) % Prime = (v * q) % Prime
    BY <2>7 DEF Same
  <2> QED BY <2>2, <2>8 DEF p, q
<1> QED BY <1>1, <1>2

LEMMA ProductFolds ==
    ASSUME NEW D, IsFiniteSet(D), NEW f \in [D -> Field]
    PROVE  /\ CanFold(D, Field, 1, Times, f)
           /\ \E h : IsFold(h, D, Field, 1, Times, f) /\ Product(f) = h[D]
<1> DEFINE pick(s) == CHOOSE x \in s : TRUE
           step(h) == [s \in SUBSET D |->
                          IF s = {} THEN 1 ELSE (f[pick(s)] * h[s \ {pick(s)}]) % Prime]
           prod == CHOOSE h : h = step(h)
<1>1. Product(f) = prod[D]
  BY DEF Product, FoldFunction, FoldFunctionOnSet, MapThenFoldSet
<1>2. CanFold(D, Field, 1, Times, f)
  BY TimesSwaps DEF CanFold
<1>3. PICK h : IsFold(h, D, Field, 1, Times, f)
  BY <1>2, FoldExists
<1>4. \A s \in SUBSET D : s # {} => pick(s) \in D
  OBVIOUS
<1>5. h = step(h)
  <2>1. \A s \in SUBSET D : s # {} =>
           Times[f[pick(s)]][h[s \ {pick(s)}]] = (f[pick(s)] * h[s \ {pick(s)}]) % Prime
    <3> SUFFICES ASSUME NEW s \in SUBSET D, s # {}
                 PROVE  Times[f[pick(s)]][h[s \ {pick(s)}]]
                           = (f[pick(s)] * h[s \ {pick(s)}]) % Prime
      OBVIOUS
    <3>1. f[pick(s)] \in Field /\ h[s \ {pick(s)}] \in Field
      <4>1. s \ {pick(s)} \in SUBSET D /\ h \in [SUBSET D -> Field]
        BY <1>3 DEF IsFold
      <4> HIDE DEF pick
      <4> QED BY <1>4, <4>1
    <3> HIDE DEF pick
    <3> QED BY <3>1 DEF Times
  <2>2. h = [s \in SUBSET D |->
                IF s = {} THEN 1 ELSE Times[f[pick(s)]][h[s \ {pick(s)}]]]
    BY <1>3 DEF IsFold
  <2> HIDE DEF pick
  <2> QED BY <2>1, <2>2
<1>6. prod = step(prod)
  <2> HIDE DEF step
  <2> QED BY <1>5
<1> HIDE DEF prod
<1>7. prod[{}] = 1
  BY <1>6
<1>8. ASSUME NEW s \in SUBSET D, s # {}, prod[s \ {pick(s)}] \in Field
      PROVE  prod[s] = Times[f[pick(s)]][prod[s \ {pick(s)}]]
  <2>1. prod[s] = (f[pick(s)] * prod[s \ {pick(s)}]) % Prime
    BY <1>6, <1>8
  <2>2. f[pick(s)] \in Field
    BY <1>4, <1>8
  <2> HIDE DEF pick
  <2> QED BY <1>8, <2>1, <2>2 DEF Times
<1>9. Follows(prod, D, Field, 1, Times, f)
  <2> HIDE DEF step
  <2> QED BY <1>7, <1>8 DEF Follows, pick
<1>10. prod[D] = h[D]
  <2> DEFINE Z == Field
  <2>1. CanFold(D, Z, 1, Times, f) /\ IsFold(h, D, Z, 1, Times, f) /\ Follows(prod, D, Z, 1, Times, f)
    BY <1>2, <1>3, <1>9
  <2> HIDE DEF Z
  <2> QED BY <2>1, FoldChosen
<1> QED BY <1>1, <1>2, <1>3, <1>10

(* What a sum is made of.                                                   *)
LEMMA SumSplits ==
    ASSUME NEW D, IsFiniteSet(D), NEW f \in [D -> Int]
    PROVE  /\ SumFunction(f) \in Int
           /\ D = {} => SumFunction(f) = 0
           /\ \A a \in D : SumFunction(f) = f[a] + SumFunction(Without(f, a))
<1>1. PICK h : IsFold(h, D, Int, 0, Plus, f) /\ SumFunction(f) = h[D]
  BY SumFolds
<1>2. SumFunction(f) \in Int
  BY <1>1 DEF IsFold
<1>3. D = {} => SumFunction(f) = 0
  BY <1>1 DEF IsFold
<1>4. ASSUME NEW a \in D PROVE SumFunction(f) = f[a] + SumFunction(Without(f, a))
  <2> DEFINE e == Without(f, a)
  <2>1. e \in [D \ {a} -> Int] /\ \A x \in D \ {a} : e[x] = f[x]
    BY DEF Without
  <2>2. IsFiniteSet(D \ {a})
    BY FS_RemoveElement
  <2> HIDE DEF e
  <2>3. PICK k :
           IsFold(k, D \ {a}, Int, 0, Plus, e) /\ SumFunction(e) = k[D \ {a}]
    BY <2>1, <2>2, SumFolds
  <2>4. CanFold(D, Int, 0, Plus, f)
    BY SumFolds
  <2>6. h[D] = Plus[f[a]][k[D \ {a}]]
    <3> DEFINE Z == Int
    <3>1. CanFold(D, Z, 0, Plus, f) /\ IsFold(h, D, Z, 0, Plus, f) /\ IsFold(k, D \ {a}, Z, 0, Plus, e)
      BY <1>1, <2>3, <2>4
    <3> HIDE DEF Z
    <3> QED BY <2>1, <3>1, FoldSplits
  <2>7. f[a] \in Int /\ k[D \ {a}] \in Int
    BY <2>3 DEF IsFold
  <2>8. Plus[f[a]][k[D \ {a}]] = f[a] + k[D \ {a}]
    BY <2>7 DEF Plus
  <2> QED BY <1>1, <2>3, <2>6, <2>8 DEF e
<1> QED BY <1>2, <1>3, <1>4

(* What a product is made of.                                               *)
LEMMA ProductSplits ==
    ASSUME NEW D, IsFiniteSet(D), NEW f \in [D -> Field]
    PROVE  /\ Product(f) \in Field
           /\ D = {} => Product(f) = 1
           /\ \A a \in D : Same(Product(f), f[a] * Product(Without(f, a)))
<1>1. PICK h : IsFold(h, D, Field, 1, Times, f) /\ Product(f) = h[D]
  BY ProductFolds
<1>2. Product(f) \in Field
  BY <1>1 DEF IsFold
<1>3. D = {} => Product(f) = 1
  BY <1>1 DEF IsFold
<1>4. ASSUME NEW a \in D PROVE Same(Product(f), f[a] * Product(Without(f, a)))
  <2> DEFINE e == Without(f, a)
  <2>1. e \in [D \ {a} -> Field] /\ \A x \in D \ {a} : e[x] = f[x]
    BY DEF Without
  <2>2. IsFiniteSet(D \ {a})
    BY FS_RemoveElement
  <2> HIDE DEF e
  <2>3. PICK k :
           IsFold(k, D \ {a}, Field, 1, Times, e) /\ Product(e) = k[D \ {a}]
    BY <2>1, <2>2, ProductFolds
  <2>4. h[D] = Times[f[a]][k[D \ {a}]]
    <3>1. CanFold(D, Field, 1, Times, f)
      BY ProductFolds
    <3> QED BY <1>1, <2>1, <2>3, <3>1, FoldSplits
  <2>5. f[a] \in Field /\ k[D \ {a}] \in Field
    BY <2>3 DEF IsFold
  <2>6. Same(Times[f[a]][k[D \ {a}]], f[a] * k[D \ {a}])
    BY <2>5, TimesSwaps
  <2> QED BY <1>1, <2>3, <2>4, <2>6 DEF e
<1> QED BY <1>2, <1>3, <1>4

----------------------------------------------------------------------------
(* Sums that are the same term by term.                                     *)

\* Term by term, f is the same as k times u and m times v.
Combines(f, D, k, u, m, v) ==
    /\ IsFiniteSet(D) /\ k \in Int /\ m \in Int
    /\ f \in [D -> Int] /\ u \in [D -> Int] /\ v \in [D -> Int]
    /\ \A x \in D : Same(f[x], k * u[x] + m * v[x])

(* So is the sum.                                                           *)
LEMMA SumsCombine ==
    ASSUME NEW D, NEW f, NEW u, NEW v, NEW k, NEW m, Combines(f, D, k, u, m, v)
    PROVE  Same(SumFunction(f), k * SumFunction(u) + m * SumFunction(v))
<1>0. /\ IsFiniteSet(D) /\ k \in Int /\ m \in Int
      /\ f \in [D -> Int] /\ u \in [D -> Int] /\ v \in [D -> Int]
      /\ \A x \in D : Same(f[x], k * u[x] + m * v[x])
  BY DEF Combines
<1> DEFINE part(e, E) == [x \in E |-> e[x]]
           sum(e, E) == SumFunction(part(e, E))
           Wrong == {E \in SUBSET D : ~Same(sum(f, E), k * sum(u, E) + m * sum(v, E))}
<1>1. ASSUME NEW e \in [D -> Int], NEW E \in SUBSET D
      PROVE  /\ sum(e, E) \in Int
             /\ E = {} => sum(e, E) = 0
             /\ \A a \in E : sum(e, E) = e[a] + sum(e, E \ {a})
  <2>1. part(e, E) \in [E -> Int] /\ IsFiniteSet(E)
    BY <1>0, FS_Subset
  <2>2. ASSUME NEW a \in E PROVE Without(part(e, E), a) = part(e, E \ {a})
    BY DEF Without
  <2>3. \A a \in E : part(e, E)[a] = e[a]
    OBVIOUS
  <2> DEFINE p == part(e, E)
  <2>4. p \in [E -> Int] /\ \A a \in E : p[a] = e[a] /\ Without(p, a) = part(e, E \ {a})
    BY <2>1, <2>2, <2>3
  <2> HIDE DEF p, part
  <2>5. /\ SumFunction(p) \in Int
        /\ E = {} => SumFunction(p) = 0
        /\ \A a \in E : SumFunction(p) = p[a] + SumFunction(Without(p, a))
    BY <2>1, <2>4, SumSplits
  <2> QED BY <2>4, <2>5 DEF p
<1>2. part(f, D) = f /\ part(u, D) = u /\ part(v, D) = v
  BY <1>0
<1> HIDE DEF sum
<1> SUFFICES ASSUME Wrong # {} PROVE FALSE
  <2>1. D \notin Wrong => Same(sum(f, D), k * sum(u, D) + m * sum(v, D))
    OBVIOUS
  <2> QED BY <1>2, <2>1 DEF sum
<1>3. PICK E \in Wrong : \A F \in Wrong : ~(<<F, E>> \in StrictSubsetOrdering(D))
  <2>1. Wrong \subseteq FiniteSubsetsOf(D)
    BY <1>0, FS_Subset DEF FiniteSubsetsOf
  <2> HIDE DEF Wrong
  <2> QED BY <2>1, WFMin, FS_StrictSubsetOrderingWellFounded
<1>4. E \in SUBSET D /\ ~Same(sum(f, E), k * sum(u, E) + m * sum(v, E))
  BY <1>3
<1>5. CASE E = {}
  <2>1. sum(f, E) = 0 /\ sum(u, E) = 0 /\ sum(v, E) = 0
    BY <1>0, <1>1, <1>4, <1>5
  <2>2. k * 0 + m * 0 = 0
    BY <1>0
  <2> QED BY <1>4, <2>1, <2>2 DEF Same
<1>6. CASE E # {}
  <2>1. PICK a \in E : TRUE
    BY <1>6
  <2> DEFINE F == E \ {a}
  <2>2. F \in SUBSET D /\ <<F, E>> \in StrictSubsetOrdering(D) /\ a \in D
    BY <1>4, <2>1 DEF StrictSubsetOrdering
  <2>3. Same(sum(f, F), k * sum(u, F) + m * sum(v, F))
    BY <1>3, <2>2
  <2>4. /\ sum(f, E) = f[a] + sum(f, F)
        /\ sum(u, E) = u[a] + sum(u, F)
        /\ sum(v, E) = v[a] + sum(v, F)
    BY <1>0, <1>1, <1>4, <2>1
  <2>5. sum(f, F) \in Int /\ sum(u, F) \in Int /\ sum(v, F) \in Int
    BY <1>0, <1>1, <2>2
  <2>6. f[a] \in Int /\ u[a] \in Int /\ v[a] \in Int /\ Same(f[a], k * u[a] + m * v[a])
    BY <1>0, <2>2
  <2> DEFINE p == k * u[a] + m * v[a]
             q == k * sum(u, F) + m * sum(v, F)
  <2>7. p \in Int /\ q \in Int
    BY <1>0, <2>5, <2>6
  <2>8. p + q = k * (u[a] + sum(u, F)) + m * (v[a] + sum(v, F))
    BY <1>0, <2>5, <2>6
  <2> HIDE DEF p, q, F
  <2>9. Same(f[a] + sum(f, F), p + q)
    BY <2>3, <2>5, <2>6, <2>7, SameSum DEF p, q
  <2> QED BY <1>4, <2>4, <2>8, <2>9
<1> QED BY <1>5, <1>6

----------------------------------------------------------------------------
(* Interpolation: what the weights make of the values of some shares.       *)

\* Shares with different numbers, none of them zero.
Points(U) ==
    /\ IsFiniteSet(U)
    /\ \A s \in U : s[1] \in 1 .. Prime - 1
    /\ \A s, t \in U : s[1] = t[1] => s = t

\* What the values y of the shares U give at zero.
AtZero(y, U) == SumFunction([s \in U |-> y[s] * Weight(U, s)])

LEMMA FieldType == Field \subseteq Int /\ 0 \in Field /\ \A a \in Field : a % Prime = a
<1>1. Field \subseteq Int /\ 0 \in Field
  BY PrimeType DEF Field
<1>2. ASSUME NEW a \in Field PROVE a % Prime = a
  <2>1. a \in Int /\ a = Prime * 0 + a
    BY <1>1, PrimeType
  <2> QED BY <2>1, RestIsUnique
<1> QED BY <1>1, <1>2

LEMMA PointsOfPart ==
    ASSUME NEW U, Points(U), NEW V \in SUBSET U
    PROVE  Points(V)
BY FS_Subset DEF Points

LEMMA RatioProperties ==
    ASSUME NEW U, Points(U), NEW s \in U, NEW t \in U, s # t
    PROVE  Ratio(t, s) \in Field /\ Same(Ratio(t, s) * (t[1] - s[1]), t[1])
<1> DEFINE x == s[1]
           y == t[1]
           e == y - x + Prime
           d == e % Prime
<1>1. x \in Field /\ y \in Field /\ x \in Int /\ y \in Int /\ x # y /\ Prime \in Int
  BY PrimeType DEF Points, Field
<1>2. Ratio(t, s) = Over(y, d)
  BY DEF Ratio
<1> HIDE DEF x, y
<1>3. e \in Int /\ d \in Field /\ Same(d, e) /\ d \in Int
  <2>1. e \in Int
    BY <1>1
  <2> HIDE DEF e
  <2> QED BY <2>1, Rest, SameRest, FieldType
<1>4. e = (y - x) + Prime * 1 /\ y - x \in Int /\ 1 \in Int
  BY <1>1
<1>5. Same(e, y - x)
  BY <1>3, <1>4, SameIfMultiple
<1> HIDE DEF e, d
<1>6. d # 0
  <2> SUFFICES ASSUME d = 0 PROVE FALSE
    OBVIOUS
  <2>1. Same(y - x, 0)
    BY <1>3, <1>5 DEF Same
  <2>2. PICK k \in Int : y - x = 0 + Prime * k
    BY <1>4, <2>1, MultipleIfSame
  <2>3. y = x + Prime * k
    BY <1>1, <2>2
  <2>4. Same(y, x)
    BY <1>1, <2>3, SameIfMultiple
  <2> QED BY <1>1, <2>4, FieldType DEF Same
<1>7. Over(y, d) \in Field /\ Same(Over(y, d) * d, y)
  BY <1>1, <1>3, <1>6, Division
<1> DEFINE r == Over(y, d)
<1>8. r \in Int /\ Same(r, r) /\ Same(d, y - x)
  BY <1>3, <1>5, <1>7, FieldType DEF Same
<1> HIDE DEF r
<1>9. Same(r * d, r * (y - x))
  BY <1>3, <1>4, <1>8, SameProduct
<1>10. Same(r * (y - x), y)
  BY <1>7, <1>9 DEF Same, r
<1> QED BY <1>2, <1>7, <1>10 DEF r, x, y

LEMMA WeightProperties ==
    ASSUME NEW U, Points(U), NEW s \in U
    PROVE  /\ Weight(U, s) \in Field /\ Weight(U, s) \in Int
           /\ U = {s} => Weight(U, s) = 1
           /\ \A a \in U \ {s} : Same(Weight(U, s), Ratio(a, s) * Weight(U \ {a}, s))
<1> DEFINE D == U \ {s}
           f == [t \in D |-> Ratio(t, s)]
<1>1. Weight(U, s) = Product(f)
  BY DEF Weight, Product
<1>2. f \in [D -> Field]
  BY RatioProperties
<1>3. IsFiniteSet(D)
  BY FS_RemoveElement DEF Points
<1>4. ASSUME NEW a \in D
      PROVE  Same(Weight(U, s), Ratio(a, s) * Weight(U \ {a}, s))
  <2>1. Without(f, a) = [t \in (U \ {a}) \ {s} |-> Ratio(t, s)]
    BY DEF Without
  <2>2. Weight(U \ {a}, s) = Product(Without(f, a))
    BY <2>1 DEF Weight, Product
  <2>3. f[a] = Ratio(a, s)
    OBVIOUS
  <2> HIDE DEF f, D
  <2> QED BY <1>1, <1>2, <1>3, <2>2, <2>3, ProductSplits
<1>5. Product(f) \in Field /\ (D = {} => Product(f) = 1)
  <2> HIDE DEF f, D
  <2> QED BY <1>2, <1>3, ProductSplits
<1> QED BY <1>1, <1>4, <1>5, FieldType

(* Of a finite set of shares with values.                                   *)
LEMMA TermsType ==
    ASSUME NEW U, Points(U), NEW y \in [U -> Int]
    PROVE  [s \in U |-> y[s] * Weight(U, s)] \in [U -> Int] /\ AtZero(y, U) \in Int
<1>1. [s \in U |-> y[s] * Weight(U, s)] \in [U -> Int]
  BY WeightProperties
<1>2. IsFiniteSet(U)
  BY DEF Points
<1> QED BY <1>1, <1>2, SumSplits DEF AtZero

(* Values that vanish at share a are, at zero, those of the other shares    *)
(* times the number of a.                                                   *)
LEMMA Sieve ==
    ASSUME NEW U, Points(U), NEW a \in U, NEW y \in [U -> Int], NEW z \in [U -> Int],
           \A s \in U : Same(z[s], (s[1] - a[1]) * y[s])
    PROVE  Same(AtZero(z, U), (0 - a[1]) * AtZero(y, U \ {a}))
<1> DEFINE V == U \ {a}
           f == [s \in U |-> z[s] * Weight(U, s)]
           g == [s \in V |-> z[s] * Weight(U, s)]
           h == [s \in V |-> y[s] * Weight(V, s)]
           b == 0 - a[1]
<1>1. /\ Points(V) /\ IsFiniteSet(V) /\ IsFiniteSet(U)
      /\ \A s \in U : s[1] \in Int /\ y[s] \in Int /\ z[s] \in Int
      /\ b \in Int /\ a[1] \in Int
  <2>1. \A s \in U : s[1] \in Int
    BY PrimeType DEF Points
  <2> QED BY <2>1, PointsOfPart, FS_RemoveElement DEF Points
<1>2. /\ f \in [U -> Int] /\ g \in [V -> Int] /\ h \in [V -> Int]
      /\ AtZero(z, U) = SumFunction(f) /\ AtZero(y, V) = SumFunction(h)
  <2>1. f \in [U -> Int] /\ g \in [V -> Int]
    BY TermsType
  <2>3. \A s \in V : Weight(V, s) \in Int
    BY <1>1, WeightProperties
  <2>4. h \in [V -> Int]
    <3>1. ASSUME NEW s \in V PROVE y[s] * Weight(V, s) \in Int
      <4>1. y[s] \in Int /\ Weight(V, s) \in Int
        BY <1>1, <2>3
      <4> HIDE DEF V
      <4> QED BY <4>1
    <3> QED BY <3>1
  <2> QED BY <2>1, <2>4 DEF AtZero
<1>3. SumFunction(f) = f[a] + SumFunction(g) /\ SumFunction(g) \in Int /\ SumFunction(h) \in Int
  <2>1. Without(f, a) = g
    BY DEF Without
  <2> HIDE DEF f, g, h
  <2>2. SumFunction(f) = f[a] + SumFunction(Without(f, a))
    BY <1>1, <1>2, SumSplits
  <2> QED BY <1>1, <1>2, <2>1, <2>2, SumSplits
<1>4. Same(f[a], 0) /\ f[a] \in Int
  <2>1. Same(z[a], (a[1] - a[1]) * y[a]) /\ (a[1] - a[1]) * y[a] = 0
    BY <1>1
  <2>2. Weight(U, a) \in Int
    BY WeightProperties
  <2>3. Same(z[a] * Weight(U, a), 0 * Weight(U, a))
    <3> DEFINE w == Weight(U, a)
    <3>1. Same(w, w) /\ Same(z[a], 0) /\ w \in Int /\ z[a] \in Int
      BY <1>1, <2>1, <2>2 DEF Same
    <3> HIDE DEF w
    <3>2. Same(z[a] * w, 0 * w)
      BY <3>1, SameProduct
    <3> QED BY <3>2 DEF w
  <2>4. 0 * Weight(U, a) = 0 /\ f[a] = z[a] * Weight(U, a) /\ f[a] \in Int
    BY <1>2, <2>2
  <2> QED BY <2>3, <2>4
<1>5. ASSUME NEW s \in V PROVE Same(g[s], b * h[s] + 0 * h[s])
  <2> DEFINE w == Weight(U, s)
             v == Weight(V, s)
             q == Ratio(a, s)
  <2>1. w \in Int /\ v \in Int /\ Same(w, q * v)
    <3>1. a \in U \ {s} /\ s \in U
      OBVIOUS
    <3> QED BY <1>1, <3>1, WeightProperties
  <2>2. q \in Int /\ Same(q * (a[1] - s[1]), a[1])
    BY RatioProperties, FieldType
  <2>3. Same(z[s], (s[1] - a[1]) * y[s]) /\ z[s] \in Int /\ y[s] \in Int /\ s[1] \in Int
    BY <1>1
  <2>4. g[s] = z[s] * w /\ h[s] = y[s] * v
    OBVIOUS
  <2> HIDE DEF w, v, q
  <2>5. Same(z[s] * w, ((s[1] - a[1]) * y[s]) * (q * v))
    <3>1. (s[1] - a[1]) * y[s] \in Int /\ q * v \in Int
      BY <1>1, <2>1, <2>2, <2>3
    <3> QED BY <2>1, <2>3, <3>1, SameProduct
  <2> DEFINE r == q * (a[1] - s[1])
             t == (0 - 1) * (y[s] * v)
  <2>6. ((s[1] - a[1]) * y[s]) * (q * v) = r * t /\ r \in Int /\ t \in Int
    <3> DEFINE i == s[1]
               j == a[1]
               k == y[s]
    <3>1. i \in Int /\ j \in Int /\ k \in Int /\ q \in Int /\ v \in Int
      BY <1>1, <2>1, <2>2, <2>3
    <3> HIDE DEF i, j, k
    <3>2. ((i - j) * k) * (q * v) = (q * (j - i)) * ((0 - 1) * (k * v))
      BY <3>1
    <3>3. q * (j - i) \in Int /\ (0 - 1) * (k * v) \in Int
      BY <3>1
    <3> QED BY <3>2, <3>3 DEF i, j, k
  <2>7. Same(r * t, a[1] * t)
    <3>1. Same(t, t) /\ Same(r, a[1])
      BY <2>2 DEF Same
    <3> HIDE DEF r, t
    <3> QED BY <1>1, <2>6, <3>1, SameProduct
  <2>8. a[1] * t = b * (y[s] * v) + 0 * (y[s] * v)
    BY <1>1, <2>1, <2>3
  <2> HIDE DEF r, t
  <2>9. Same(z[s] * w, b * (y[s] * v) + 0 * (y[s] * v))
    BY <2>5, <2>6, <2>7, <2>8 DEF Same
  <2> QED BY <2>4, <2>9
<1> HIDE DEF f, g, h, b, V
<1>6. Same(SumFunction(g), b * SumFunction(h) + 0 * SumFunction(h))
  <2>1. Combines(g, V, b, h, 0, h)
    BY <1>1, <1>2, <1>5 DEF Combines
  <2> QED BY <2>1, SumsCombine
<1>7. Same(f[a] + SumFunction(g), 0 + (b * SumFunction(h) + 0 * SumFunction(h)))
  <2>1. b * SumFunction(h) + 0 * SumFunction(h) \in Int
    BY <1>1, <1>3
  <2> QED BY <1>3, <1>4, <1>6, <2>1, SameSum
<1>8. 0 + (b * SumFunction(h) + 0 * SumFunction(h)) = b * SumFunction(h)
  BY <1>1, <1>3
<1>9. Same(AtZero(z, U), b * AtZero(y, V))
  BY <1>2, <1>3, <1>7, <1>8
<1> QED BY <1>9 DEF b, V

(* The weights of some shares add up to one.                                *)
LEMMA OnesGiveOne ==
    ASSUME NEW A, Points(A)
    PROVE  \A U \in SUBSET A : U # {} => Same(AtZero([s \in U |-> 1], U), 1)
<1> DEFINE one(U) == AtZero([s \in U |-> 1], U)
           Wrong == {U \in SUBSET A : U # {} /\ ~Same(one(U), 1)}
<1> SUFFICES ASSUME Wrong # {} PROVE FALSE
  OBVIOUS
<1>1. PICK U \in Wrong : \A V \in Wrong : ~(<<V, U>> \in StrictSubsetOrdering(A))
  <2>1. Wrong \subseteq FiniteSubsetsOf(A)
    BY FS_Subset DEF FiniteSubsetsOf, Points
  <2> HIDE DEF Wrong
  <2> QED BY <2>1, WFMin, FS_StrictSubsetOrderingWellFounded
<1>2. U \in SUBSET A /\ U # {} /\ ~Same(one(U), 1)
  BY <1>1
<1>3. Points(U)
  BY <1>2, PointsOfPart
<1>4. ASSUME NEW a \in U, U # {a} PROVE Same(one(U \ {a}), 1)
  <2>1. U \ {a} \in SUBSET A /\ U \ {a} # {} /\ <<U \ {a}, U>> \in StrictSubsetOrdering(A)
    BY <1>2, <1>4 DEF StrictSubsetOrdering
  <2>2. U \ {a} \notin Wrong
    BY <1>1, <2>1
  <2> HIDE DEF one
  <2> QED BY <2>1, <2>2
<1> HIDE DEF Wrong
<1>5. PICK a \in U : TRUE
  BY <1>2
<1>6. CASE U = {a}
  <2> DEFINE f == [s \in U |-> [t \in U |-> 1][s] * Weight(U, s)]
  <2>1. Weight(U, a) = 1
    BY <1>3, <1>6, WeightProperties
  <2>2. f \in [U -> Int] /\ f[a] = 1
    BY <1>6, <2>1
  <2>3. Without(f, a) \in [{} -> Int] /\ IsFiniteSet({}) /\ IsFiniteSet(U)
    BY <1>3, <1>6, FS_EmptySet DEF Without, Points
  <2>4. one(U) = SumFunction(f)
    BY DEF AtZero
  <2> HIDE DEF f, one
  <2>5. SumFunction(f) = f[a] + SumFunction(Without(f, a)) /\ SumFunction(Without(f, a)) = 0
    BY <2>2, <2>3, SumSplits
  <2> QED BY <1>2, <2>2, <2>4, <2>5 DEF Same
<1>7. CASE U # {a}
  <2>1. PICK b \in U : b # a
    BY <1>2, <1>7
  <2>2. /\ a[1] \in 1 .. Prime - 1 /\ b[1] \in 1 .. Prime - 1 /\ a[1] # b[1]
        /\ \A s \in U : s[1] \in Int
        /\ IsFiniteSet(U)
    BY <1>3, <2>1, PrimeType DEF Points
  <2> DEFINE x == a[1]
             y == b[1]
             u == [s \in U |-> s[1] - a[1]]
             v == [s \in U |-> s[1] - b[1]]
             i == [s \in U |-> 1]
  <2>3. x \in Int /\ y \in Int /\ x \in Field /\ y \in Field /\ x # y
    BY <2>2, PrimeType DEF Field
  <2>4. u \in [U -> Int] /\ v \in [U -> Int] /\ i \in [U -> Int]
    BY <2>2
  <2>5. Same(AtZero(u, U), (0 - x) * one(U \ {a}))
    <3>1. \A s \in U : Same(u[s], (s[1] - a[1]) * i[s])
      BY <2>2 DEF Same
    <3>2. AtZero(i, U \ {a}) = one(U \ {a})
      BY DEF AtZero
    <3> HIDE DEF u, i, one
    <3> QED BY <1>3, <2>4, <3>1, <3>2, Sieve
  <2>6. Same(AtZero(v, U), (0 - y) * one(U \ {b}))
    <3>1. \A s \in U : Same(v[s], (s[1] - b[1]) * i[s])
      BY <2>2 DEF Same
    <3>2. AtZero(i, U \ {b}) = one(U \ {b})
      BY DEF AtZero
    <3> HIDE DEF v, i, one
    <3> QED BY <1>3, <2>4, <3>1, <3>2, Sieve
  <2>7. Same(AtZero(u, U), 1 * AtZero(v, U) + (y - x) * AtZero(i, U))
    <3> DEFINE f == [s \in U |-> u[s] * Weight(U, s)]
               g == [s \in U |-> v[s] * Weight(U, s)]
               h == [s \in U |-> i[s] * Weight(U, s)]
               m == y - x
    <3>1. f \in [U -> Int] /\ g \in [U -> Int] /\ h \in [U -> Int]
      <4> HIDE DEF u, v, i
      <4> QED BY <1>3, <2>4, TermsType
    <3>2. ASSUME NEW s \in U PROVE Same(f[s], 1 * g[s] + m * h[s])
      <4> DEFINE w == Weight(U, s)
                 p == s[1]
      <4>1. w \in Int /\ p \in Int
        BY <1>3, <2>2, WeightProperties
      <4>2. f[s] = (p - x) * w /\ g[s] = (p - y) * w /\ h[s] = 1 * w
        OBVIOUS
      <4> HIDE DEF w, p, x, y, f, g, h
      <4>3. (p - x) * w = 1 * ((p - y) * w) + (y - x) * (1 * w)
        BY <2>3, <4>1
      <4> QED BY <4>2, <4>3 DEF Same
    <3>3. AtZero(u, U) = SumFunction(f) /\ AtZero(v, U) = SumFunction(g) /\ AtZero(i, U) = SumFunction(h)
      BY DEF AtZero
    <3>4. m \in Int /\ 1 \in Int
      BY <2>3
    <3> HIDE DEF f, g, h, m
    <3>5. Combines(f, U, 1, g, m, h)
      BY <2>2, <3>1, <3>2, <3>4 DEF Combines
    <3>6. Same(SumFunction(f), 1 * SumFunction(g) + m * SumFunction(h))
      BY <3>5, SumsCombine
    <3> QED BY <3>3, <3>6 DEF m
  <2> DEFINE au == AtZero(u, U)
             av == AtZero(v, U)
             ai == AtZero(i, U)
             oa == one(U \ {a})
             ob == one(U \ {b})
  <2>8. au \in Int /\ av \in Int /\ ai \in Int /\ ai = one(U)
    <3>1. ai = one(U)
      OBVIOUS
    <3> HIDE DEF u, v, i, one
    <3> QED BY <1>3, <2>4, <3>1, TermsType
  <2>9. oa \in Int /\ ob \in Int /\ Same(oa, 1) /\ Same(ob, 1)
    <3>1. ASSUME NEW c \in U PROVE one(U \ {c}) \in Int
      <4>1. Points(U \ {c}) /\ [s \in U \ {c} |-> 1] \in [U \ {c} -> Int]
        BY <1>3, PointsOfPart
      <4> QED BY <4>1, TermsType
    <3>2. U # {a} /\ U # {b}
      BY <1>7, <2>1
    <3> HIDE DEF one
    <3> QED BY <1>4, <3>1, <3>2
  <2>10. /\ Same(au, (0 - x) * oa) /\ Same(av, (0 - y) * ob)
         /\ Same(au, 1 * av + (y - x) * ai)
    BY <2>5, <2>6, <2>7
  <2> HIDE DEF x, y, u, v, i, au, av, ai, oa, ob, one
  <2>11. Same((0 - x) * oa, (0 - x) * 1) /\ Same((0 - y) * ob, (0 - y) * 1)
    <3>1. Same(0 - x, 0 - x) /\ Same(0 - y, 0 - y) /\ 0 - x \in Int /\ 0 - y \in Int /\ 1 \in Int
      BY <2>3 DEF Same
    <3> QED BY <2>9, <3>1, SameProduct
  <2>12. Same(au, 0 - x) /\ Same(av, 0 - y)
    <3>1. (0 - x) * 1 = 0 - x /\ (0 - y) * 1 = 0 - y
      BY <2>3
    <3> QED BY <2>10, <2>11, <3>1 DEF Same
  <2>13. Same((y - x) * ai, (y - x) * 1)
    <3>1. PICK k \in Int : au = (0 - x) + Prime * k
      BY <2>3, <2>8, <2>12, MultipleIfSame
    <3>2. PICK l \in Int : av = (0 - y) + Prime * l
      BY <2>3, <2>8, <2>12, MultipleIfSame
    <3> DEFINE r == (y - x) * ai
    <3>3. r \in Int /\ 1 * av + r \in Int
      BY <2>3, <2>8
    <3>4. PICK n \in Int : au = (1 * av + r) + Prime * n
      BY <2>8, <2>10, <3>3, MultipleIfSame
    <3> HIDE DEF r
    <3>5. r = (y - x) * 1 + Prime * (k - l - n) /\ k - l - n \in Int /\ (y - x) * 1 \in Int
      BY <2>3, <2>8, <3>1, <3>2, <3>3, <3>4, PrimeType
    <3> QED BY <3>3, <3>5, SameIfMultiple DEF r
  <2>14. ~Same(y - x, 0)
    <3> SUFFICES ASSUME Same(y - x, 0) PROVE FALSE
      OBVIOUS
    <3>1. PICK k \in Int : y - x = 0 + Prime * k
      BY <2>3, MultipleIfSame
    <3>2. y = x + Prime * k
      BY <2>3, <3>1, PrimeType
    <3> QED BY <2>3, <3>2, SameIfMultiple, FieldType DEF Same
  <2>15. Same(ai, 1)
    BY <2>3, <2>8, <2>13, <2>14, Cancel
  <2> QED BY <1>2, <2>8, <2>15
<1> QED BY <1>6, <1>7

----------------------------------------------------------------------------
(* Polynomials and what their values at the shares give at zero.           *)

\* The values of the polynomial c at x: of all of it, and of its ends.
IsHorner(v, c, x) ==
    /\ v \in [1 .. SHAMIR_THRESHOLD + 1 -> Field]
    /\ v[SHAMIR_THRESHOLD + 1] = 0
    /\ \A d \in 1 .. SHAMIR_THRESHOLD : v[d] = (c[d] + x * v[d + 1]) % Prime

LEMMA PolyProperties ==
    ASSUME NEW c \in [1 .. SHAMIR_THRESHOLD -> Field], NEW x \in Field
    PROVE  \E v : IsHorner(v, c, x) /\ Poly(c, x) = v[1]
<1> DEFINE T == SHAMIR_THRESHOLD
           next(v) == [d \in 1 .. T + 1 |->
                          IF d > T THEN 0 ELSE (c[d] + x * v[d + 1]) % Prime]
           value == CHOOSE v : v = next(v)
           g == [i \in Nat |-> [u \in Field |->
                   IF i < T THEN (c[T - i] + x * u) % Prime ELSE 0]]
<1>1. T \in Nat /\ T > 0
  BY ThresholdAssumption
<1>2. Poly(c, x) = value[1]
  BY DEF Poly
<1>3. g \in StepsIn(Field)
  <2>1. ASSUME NEW i \in Nat, NEW u \in Field, i < T PROVE (c[T - i] + x * u) % Prime \in Field
    <3>1. T - i \in 1 .. T
      BY <1>1, <2>1
    <3>2. c[T - i] \in Int /\ x \in Int /\ u \in Int
      BY <3>1, FieldType
    <3>3. c[T - i] + x * u \in Int
      BY <3>2
    <3> QED BY <3>3, Rest
  <2>2. 0 \in Field
    BY FieldType
  <2> HIDE DEF T
  <2> QED BY <2>1, <2>2 DEF StepsIn
<1> HIDE DEF g
<1>4. PICK h \in Iterates(T, Field, 0, g) : TRUE
  BY <1>1, <1>3, FieldType, Recursion
<1>5. /\ h \in [0 .. T -> Field] /\ h[0] = 0
      /\ \A i \in 0 .. T - 1 : h[i + 1] = (c[T - i] + x * h[i]) % Prime
  <2>1. /\ h \in [0 .. T -> Field] /\ h[0] = 0
        /\ \A i \in 0 .. T - 1 : h[i + 1] = g[i][h[i]]
    BY <1>4 DEF Iterates
  <2>2. ASSUME NEW i \in 0 .. T - 1 PROVE g[i][h[i]] = (c[T - i] + x * h[i]) % Prime
    <3>1. i \in Nat /\ i < T /\ h[i] \in Field
      BY <1>1, <2>1
    <3> QED BY <3>1 DEF g
  <2> QED BY <2>1, <2>2
<1> DEFINE w == [d \in 1 .. T + 1 |-> h[(T + 1) - d]]
<1>6. w = next(w)
  <2>1. ASSUME NEW d \in 1 .. T + 1
        PROVE  w[d] = IF d > T THEN 0 ELSE (c[d] + x * w[d + 1]) % Prime
    <3>1. CASE d = T + 1
      <4>1. (T + 1) - d = 0
        BY <1>1, <3>1
      <4> QED BY <1>1, <1>5, <3>1, <4>1
    <3>2. CASE d \in 1 .. T
      <4>1. T - d \in 0 .. T - 1 /\ (T - d) + 1 = (T + 1) - d /\ T - (T - d) = d
            /\ (T + 1) - (d + 1) = T - d /\ d + 1 \in 1 .. T + 1
        BY <1>1, <3>2
      <4>2. h[(T - d) + 1] = (c[T - (T - d)] + x * h[T - d]) % Prime
        BY <1>5, <4>1
      <4>3. w[d] = h[(T + 1) - d] /\ w[d + 1] = h[(T + 1) - (d + 1)] /\ ~(d > T)
        BY <1>1, <3>2, <4>1
      <4> HIDE DEF w
      <4> QED BY <4>1, <4>2, <4>3
    <3> QED BY <1>1, <3>1, <3>2
  <2>2. \A d \in 1 .. T + 1 : w[d] = next(w)[d]
    BY <2>1
  <2>3. DOMAIN w = 1 .. T + 1 /\ DOMAIN next(w) = 1 .. T + 1
    OBVIOUS
  <2> QED BY <2>1
<1>7. value = next(value)
  <2> HIDE DEF w, next
  <2> QED BY <1>6
<1> HIDE DEF value
<1>8. value \in [1 .. T + 1 -> Field]
  <2> DEFINE W == {n \in Nat : n <= T => value[(T + 1) - n] \in Field}
  <2>1. 0 \in W
    <3>1. T + 1 \in 1 .. T + 1 /\ T + 1 > T /\ (T + 1) - 0 = T + 1
      BY <1>1
    <3>2. value[T + 1] = 0
      BY <1>7, <3>1
    <3> QED BY <3>1, <3>2, FieldType
  <2>2. ASSUME NEW n \in Nat, n \in W PROVE n + 1 \in W
    <3> SUFFICES ASSUME n + 1 <= T PROVE value[(T + 1) - (n + 1)] \in Field
      OBVIOUS
    <3> DEFINE d == T - n
    <3>1. d \in 1 .. T /\ d \in 1 .. T + 1 /\ ~(d > T) /\ (T + 1) - (n + 1) = d
          /\ d + 1 = (T + 1) - n
      BY <1>1
    <3>2. value[d + 1] \in Field
      BY <1>1, <2>2, <3>1
    <3> HIDE DEF d, W
    <3>3. value[d] = (c[d] + x * value[d + 1]) % Prime
      BY <1>7, <3>1
    <3>4. c[d] + x * value[d + 1] \in Int
      <4>1. c[d] \in Int /\ x \in Int /\ value[d + 1] \in Int
        BY <3>1, <3>2, FieldType
      <4> QED BY <4>1
    <3> QED BY <3>1, <3>3, <3>4, Rest
  <2>3. Nat \subseteq W
    <3> HIDE DEF W
    <3> QED BY <2>1, <2>2, CountingUp
  <2>4. ASSUME NEW d \in 1 .. T + 1 PROVE value[d] \in Field
    <3>1. (T + 1) - d \in Nat /\ (T + 1) - d <= T /\ (T + 1) - ((T + 1) - d) = d
      BY <1>1
    <3>2. (T + 1) - d \in W
      BY <2>3, <3>1
    <3> QED BY <3>1, <3>2
  <2>5. DOMAIN value = 1 .. T + 1 /\ value = [d \in 1 .. T + 1 |-> value[d]]
    BY <1>7
  <2> QED BY <2>4, <2>5
<1>9. IsHorner(value, c, x)
  <2>1. T + 1 \in 1 .. T + 1 /\ T + 1 > T /\ \A d \in 1 .. T : d \in 1 .. T + 1 /\ ~(d > T)
    BY <1>1
  <2>2. value[T + 1] = 0 /\ \A d \in 1 .. T : value[d] = (c[d] + x * value[d + 1]) % Prime
    BY <1>7, <2>1
  <2> QED BY <1>8, <2>2 DEF IsHorner
<1> QED BY <1>2, <1>9

(* The values of a polynomial as integers: a step of Horner's rule.         *)
LEMMA HornerStep ==
    ASSUME NEW c \in [1 .. SHAMIR_THRESHOLD -> Field], NEW x \in Field, NEW v, IsHorner(v, c, x)
    PROVE  /\ x \in Int
           /\ \A d \in 1 .. SHAMIR_THRESHOLD + 1 : v[d] \in Field /\ v[d] \in Int
           /\ v[SHAMIR_THRESHOLD + 1] = 0
           /\ \A d \in 1 .. SHAMIR_THRESHOLD : c[d] \in Int /\ Same(v[d], c[d] + x * v[d + 1])
<1> DEFINE T == SHAMIR_THRESHOLD
<1>1. T \in Nat /\ x \in Int
  BY ThresholdAssumption, FieldType
<1>2. \A d \in 1 .. T + 1 : v[d] \in Field /\ v[d] \in Int
  BY FieldType DEF IsHorner
<1>3. ASSUME NEW d \in 1 .. T PROVE c[d] \in Int /\ Same(v[d], c[d] + x * v[d + 1])
  <2> DEFINE e == c[d] + x * v[d + 1]
  <2>1. d + 1 \in 1 .. T + 1
    BY <1>1
  <2>2. c[d] \in Int /\ v[d + 1] \in Int
    BY <1>2, <2>1, FieldType
  <2>3. e \in Int
    BY <1>1, <2>2
  <2>4. v[d] = e % Prime
    BY DEF IsHorner
  <2> HIDE DEF e
  <2>5. Same(v[d], e)
    BY <2>3, <2>4, SameRest
  <2> QED BY <2>2, <2>5 DEF e
<1> QED BY <1>1, <1>2, <1>3 DEF IsHorner

\* Share by share, f is the same as k times u and m times v.
Mixes(f, U, k, u, m, v) == Points(U) /\ Combines(f, U, k, u, m, v)

(* So it is at zero.                                                        *)
LEMMA AtZeroCombines ==
    ASSUME NEW U, NEW f, NEW u, NEW v, NEW k, NEW m, Mixes(f, U, k, u, m, v)
    PROVE  Same(AtZero(f, U), k * AtZero(u, U) + m * AtZero(v, U))
<1>0. /\ Points(U) /\ k \in Int /\ m \in Int
      /\ f \in [U -> Int] /\ u \in [U -> Int] /\ v \in [U -> Int]
      /\ \A s \in U : Same(f[s], k * u[s] + m * v[s])
  BY DEF Mixes, Combines
<1> DEFINE ff == [s \in U |-> f[s] * Weight(U, s)]
           uu == [s \in U |-> u[s] * Weight(U, s)]
           vv == [s \in U |-> v[s] * Weight(U, s)]
<1>1. ff \in [U -> Int] /\ uu \in [U -> Int] /\ vv \in [U -> Int]
  BY <1>0, TermsType
<1>2. ASSUME NEW s \in U PROVE Same(ff[s], k * uu[s] + m * vv[s])
  <2> DEFINE w == Weight(U, s)
  <2>1. w \in Int /\ Same(w, w) /\ f[s] \in Int /\ u[s] \in Int /\ v[s] \in Int
    BY <1>0, WeightProperties DEF Same
  <2>2. ff[s] = f[s] * w /\ uu[s] = u[s] * w /\ vv[s] = v[s] * w
    OBVIOUS
  <2> HIDE DEF w, ff, uu, vv
  <2>3. Same(f[s] * w, (k * u[s] + m * v[s]) * w)
    <3>1. k * u[s] + m * v[s] \in Int
      BY <1>0, <2>1
    <3> QED BY <1>0, <2>1, <3>1, SameProduct
  <2>4. (k * u[s] + m * v[s]) * w = k * (u[s] * w) + m * (v[s] * w)
    BY <1>0, <2>1
  <2> QED BY <2>2, <2>3, <2>4
<1>3. AtZero(f, U) = SumFunction(ff) /\ AtZero(u, U) = SumFunction(uu)
      /\ AtZero(v, U) = SumFunction(vv)
  BY DEF AtZero
<1> HIDE DEF ff, uu, vv
<1>4. Combines(ff, U, k, uu, m, vv)
  BY <1>0, <1>1, <1>2 DEF Combines, Points
<1> QED BY <1>3, <1>4, SumsCombine

\* For each share of A, the values of polynomial c at its number.
HornerOn(val, A, c) == \A s \in A : IsHorner(val[s], c, s[1])

(* With as many shares as coefficients from d on, what remains of the       *)
(* polynomial from d on gives coefficient d at zero.                        *)
LEMMA EndsInterpolate ==
    ASSUME NEW A, Points(A), NEW c \in [1 .. SHAMIR_THRESHOLD -> Field], NEW val, HornerOn(val, A, c)
    PROVE  \A n \in 1 .. SHAMIR_THRESHOLD : \A U \in SUBSET A :
              Cardinality(U) >= n =>
                 Same(AtZero([s \in U |-> val[s][(SHAMIR_THRESHOLD + 1) - n]], U),
                      c[(SHAMIR_THRESHOLD + 1) - n])
<1> DEFINE T == SHAMIR_THRESHOLD
           end(U, d) == [s \in U |-> val[s][d]]
           Good(n) == \A U \in SUBSET A :
                         Cardinality(U) >= n =>
                            Same(AtZero(end(U, (T + 1) - n), U), c[(T + 1) - n])
           W == {n \in Nat : n + 1 <= T => Good(n + 1)}
<1>1. T \in Nat /\ T > 0
  BY ThresholdAssumption
<1>2. ASSUME NEW s \in A
      PROVE  /\ \A d \in 1 .. T + 1 : val[s][d] \in Field /\ val[s][d] \in Int
             /\ val[s][T + 1] = 0
             /\ \A d \in 1 .. T : Same(val[s][d], c[d] + s[1] * val[s][d + 1])
             /\ s[1] \in Int
  <2>1. IsHorner(val[s], c, s[1])
    BY DEF HornerOn
  <2>2. s[1] \in Field
    BY PrimeType DEF Points, Field
  <2> QED BY <2>1, <2>2, HornerStep
<1>3. ASSUME NEW d \in 1 .. T PROVE c[d] \in Int
  BY FieldType
<1>4. ASSUME NEW U \in SUBSET A
      PROVE  /\ Points(U) /\ IsFiniteSet(U) /\ Cardinality(U) \in Nat
             /\ Cardinality(U) > 0 => U # {} /\ Same(AtZero([s \in U |-> 1], U), 1)
             /\ [s \in U |-> 1] \in [U -> Int] /\ AtZero([s \in U |-> 1], U) \in Int
             /\ \A d \in 1 .. T + 1 : end(U, d) \in [U -> Int] /\ AtZero(end(U, d), U) \in Int
  <2>1. Points(U) /\ IsFiniteSet(U) /\ Cardinality(U) \in Nat
    BY PointsOfPart, FS_CardinalityType DEF Points
  <2>2. Cardinality(U) > 0 => U # {} /\ Same(AtZero([s \in U |-> 1], U), 1)
    <3> SUFFICES ASSUME Cardinality(U) > 0 PROVE U # {} /\ Same(AtZero([s \in U |-> 1], U), 1)
      OBVIOUS
    <3>1. U # {}
      BY FS_EmptySet
    <3> QED BY <3>1, OnesGiveOne
  <2>3. [s \in U |-> 1] \in [U -> Int] /\ \A d \in 1 .. T + 1 : end(U, d) \in [U -> Int]
    BY <1>2
  <2> HIDE DEF end
  <2> QED BY <2>1, <2>2, <2>3, TermsType
<1>5. 0 \in W
  <2> SUFFICES ASSUME NEW U \in SUBSET A, Cardinality(U) >= 1
               PROVE  Same(AtZero(end(U, T), U), c[T])
    BY <1>1
  <2> DEFINE f == end(U, T)
             i == [s \in U |-> 1]
  <2>1. T \in 1 .. T /\ T \in 1 .. T + 1 /\ c[T] \in Int
    BY <1>1, <1>3
  <2>2. ASSUME NEW s \in U PROVE Same(f[s], c[T] * i[s] + 0 * i[s])
    <3>1. Same(val[s][T], c[T] + s[1] * val[s][T + 1]) /\ val[s][T + 1] = 0 /\ s[1] \in Int
      BY <1>2, <2>1
    <3>2. c[T] + s[1] * val[s][T + 1] = c[T] * 1 + 0 * 1
      BY <2>1, <3>1
    <3>3. f[s] = val[s][T] /\ i[s] = 1
      OBVIOUS
    <3> QED BY <3>1, <3>2, <3>3
  <2>3. /\ Points(U) /\ IsFiniteSet(U) /\ f \in [U -> Int]
        /\ i \in [U -> Int] /\ AtZero(i, U) \in Int
        /\ Same(AtZero(i, U), 1)
    <3>1. Cardinality(U) \in Nat /\ Points(U) /\ IsFiniteSet(U) /\ f \in [U -> Int]
          /\ i \in [U -> Int] /\ AtZero(i, U) \in Int
      <4> HIDE DEF end
      <4>1. Points(U) /\ IsFiniteSet(U) /\ Cardinality(U) \in Nat
        BY <1>4
      <4>2. f \in [U -> Int]
        BY <1>4, <2>1
      <4>3. i \in [U -> Int] /\ AtZero(i, U) \in Int
        BY <1>4
      <4> HIDE DEF f, i
      <4> QED BY <4>1, <4>2, <4>3
    <3>2. Cardinality(U) > 0
      BY <3>1
    <3> HIDE DEF end
    <3>3. Same(AtZero(i, U), 1)
      BY <1>4, <3>2
    <3> HIDE DEF f, i
    <3> QED BY <3>1, <3>3
  <2> HIDE DEF f, i, T
  <2>4. Same(AtZero(f, U), c[T] * AtZero(i, U) + 0 * AtZero(i, U))
    <3>1. Mixes(f, U, c[T], i, 0, i)
      BY <2>1, <2>2, <2>3 DEF Mixes, Combines
    <3> QED BY <3>1, AtZeroCombines
  <2>5. c[T] * AtZero(i, U) + 0 * AtZero(i, U) = c[T] * AtZero(i, U) /\ c[T] * 1 = c[T]
    BY <2>1, <2>3
  <2>6. Same(c[T] * AtZero(i, U), c[T] * 1)
    <3>1. Same(c[T], c[T]) /\ 1 \in Int
      BY DEF Same
    <3> QED BY <2>1, <2>3, <3>1, SameProduct
  <2>7. Same(AtZero(f, U), c[T])
    BY <2>4, <2>5, <2>6 DEF Same
  <2> QED BY <2>7 DEF f
<1>6. ASSUME NEW n \in Nat, n \in W PROVE n + 1 \in W
  <2> SUFFICES ASSUME (n + 1) + 1 <= T, NEW U \in SUBSET A, Cardinality(U) >= (n + 1) + 1
               PROVE  Same(AtZero(end(U, (T + 1) - ((n + 1) + 1)), U), c[(T + 1) - ((n + 1) + 1)])
    OBVIOUS
  <2> DEFINE d == (T + 1) - ((n + 1) + 1)
  <2>1. d \in 1 .. T /\ d + 1 \in 1 .. T /\ d \in 1 .. T + 1 /\ d + 1 = (T + 1) - (n + 1)
        /\ n + 1 <= T /\ d + 1 \in 1 .. T + 1
    BY <1>1
  <2> HIDE DEF d
  <2>0. Cardinality(U) \in Nat /\ Cardinality(U) > 0 /\ Points(U) /\ IsFiniteSet(U)
        /\ Cardinality(U) - 1 >= n + 1 /\ Cardinality(U) >= n + 1
    <3>1. Cardinality(U) \in Nat /\ Points(U) /\ IsFiniteSet(U)
      BY <1>4
    <3> QED BY <1>6, <3>1
  <2>2. \A V \in SUBSET A : Cardinality(V) >= n + 1 => Same(AtZero(end(V, d + 1), V), c[d + 1])
    BY <1>6, <2>1
  <2> HIDE DEF W, Good
  <2>3. PICK a \in U : TRUE
    BY <1>6, <2>0, FS_EmptySet
  <2> DEFINE f == end(U, d)
             q == end(U, d + 1)
             i == [s \in U |-> 1]
             z == [s \in U |-> (s[1] - a[1]) * val[s][d + 1]]
             m == [s \in U |-> s[1] * val[s][d + 1]]
             V == U \ {a}
             x == a[1]
             p == c[d]
             r == c[d + 1]
  <2>4. /\ Points(U) /\ f \in [U -> Int] /\ q \in [U -> Int] /\ i \in [U -> Int]
        /\ AtZero(f, U) \in Int /\ AtZero(q, U) \in Int /\ AtZero(i, U) \in Int
        /\ Same(AtZero(i, U), 1)
    <3> HIDE DEF end
    <3>1. f \in [U -> Int] /\ AtZero(f, U) \in Int
      BY <1>4, <2>1
    <3>2. q \in [U -> Int] /\ AtZero(q, U) \in Int
      BY <1>4, <2>1
    <3>3. i \in [U -> Int] /\ AtZero(i, U) \in Int /\ Same(AtZero(i, U), 1)
      BY <1>4, <2>0
    <3> HIDE DEF f, q, i
    <3> QED BY <2>0, <3>1, <3>2, <3>3
  <2>5. V \in SUBSET A /\ Cardinality(V) >= n + 1 /\ Cardinality(U) >= n + 1
    <3>1. Cardinality(U \ {a}) = Cardinality(U) - 1
      BY <2>0, <2>3, FS_RemoveElement
    <3> QED BY <2>0, <3>1
  <2>6. Same(AtZero(q, U), r) /\ Same(AtZero(q, V), r) /\ AtZero(q, V) \in Int
    <3>1. AtZero(q, V) = AtZero(end(V, d + 1), V)
      BY DEF AtZero
    <3> HIDE DEF end, V
    <3>2. Same(AtZero(end(V, d + 1), V), c[d + 1]) /\ Same(AtZero(end(U, d + 1), U), c[d + 1])
      BY <2>2, <2>5
    <3>3. AtZero(end(V, d + 1), V) \in Int
      BY <1>4, <2>1, <2>5
    <3> QED BY <3>1, <3>2, <3>3
  <2>7. ASSUME NEW s \in U
        PROVE  /\ s[1] \in Int /\ val[s][d + 1] \in Int
               /\ z[s] = (s[1] - a[1]) * q[s] /\ m[s] = 1 * z[s] + a[1] * q[s]
               /\ z[s] \in Int /\ m[s] \in Int
               /\ Same(f[s], p * i[s] + 1 * m[s])
    <3>1. s[1] \in Int /\ val[s][d + 1] \in Int /\ a[1] \in Int
          /\ Same(val[s][d], c[d] + s[1] * val[s][d + 1])
      BY <1>2, <2>1
    <3>2. z[s] = (s[1] - a[1]) * val[s][d + 1] /\ m[s] = s[1] * val[s][d + 1]
          /\ q[s] = val[s][d + 1] /\ f[s] = val[s][d] /\ i[s] = 1
      OBVIOUS
    <3>3. p \in Int
      BY <1>3, <2>1
    <3> DEFINE y == s[1]
               w == val[s][d + 1]
    <3>4. y \in Int /\ w \in Int /\ x \in Int
      BY <3>1
    <3> HIDE DEF y, w, x, p
    <3>5. /\ y * w = 1 * ((y - x) * w) + x * w
          /\ (y - x) * w \in Int /\ y * w \in Int
          /\ p + y * w = p * 1 + 1 * (y * w)
      BY <3>3, <3>4
    <3> QED BY <3>1, <3>2, <3>5 DEF y, w, x, p
  <2>8. z \in [U -> Int] /\ m \in [U -> Int]
    BY <2>7
  <2>9. x \in Int /\ p \in Int /\ r \in Int
    BY <1>2, <1>3, <2>1
  <2>10. Same(AtZero(z, U), (0 - x) * AtZero(q, V))
    <3>1. \A s \in U : Same(z[s], (s[1] - a[1]) * q[s])
      BY <2>7 DEF Same
    <3> HIDE DEF z, q
    <3> QED BY <2>4, <2>8, <3>1, Sieve
  <2>11. Same(AtZero(m, U), 1 * AtZero(z, U) + x * AtZero(q, U))
    <3>1. \A s \in U : Same(m[s], 1 * z[s] + x * q[s])
      BY <2>7 DEF Same
    <3> HIDE DEF z, q, m, x
    <3>2. Mixes(m, U, 1, z, x, q)
      BY <2>0, <2>4, <2>8, <2>9, <3>1 DEF Mixes, Combines, x
    <3> QED BY <3>2, AtZeroCombines
  <2>12. Same(AtZero(f, U), p * AtZero(i, U) + 1 * AtZero(m, U))
    <3>1. \A s \in U : Same(f[s], p * i[s] + 1 * m[s])
      BY <2>7
    <3> HIDE DEF f, i, m, p
    <3>2. Mixes(f, U, p, i, 1, m)
      BY <2>0, <2>4, <2>8, <2>9, <3>1 DEF Mixes, Combines
    <3> QED BY <3>2, AtZeroCombines
  <2> DEFINE qv == AtZero(q, V)
             qu == AtZero(q, U)
             zu == AtZero(z, U)
             mu == AtZero(m, U)
             iu == AtZero(i, U)
  <2>13. /\ qv \in Int /\ qu \in Int /\ zu \in Int /\ mu \in Int /\ iu \in Int
         /\ AtZero(f, U) \in Int
    <3> HIDE DEF z, m, f, q, i
    <3> QED BY <2>4, <2>6, <2>8, TermsType
  <2>14. /\ Same(qu, r) /\ Same(qv, r) /\ Same(iu, 1)
         /\ Same(zu, (0 - x) * qv) /\ Same(mu, 1 * zu + x * qu)
    BY <2>4, <2>6, <2>10, <2>11
  <2> HIDE DEF qv, qu, zu, mu, iu, z, m, f, q, i, x, p, r
  <2>15. Same(mu, 0)
    <3>1. PICK k1 \in Int : qu = r + Prime * k1
      BY <2>9, <2>13, <2>14, MultipleIfSame
    <3>2. PICK k2 \in Int : qv = r + Prime * k2
      BY <2>9, <2>13, <2>14, MultipleIfSame
    <3>3. (0 - x) * qv \in Int /\ 1 * zu + x * qu \in Int
      BY <2>9, <2>13
    <3>4. PICK k3 \in Int : zu = (0 - x) * qv + Prime * k3
      BY <2>13, <2>14, <3>3, MultipleIfSame
    <3>5. PICK k4 \in Int : mu = (1 * zu + x * qu) + Prime * k4
      BY <2>13, <2>14, <3>3, MultipleIfSame
    <3>6. mu = x * (qu - qv) + Prime * (k3 + k4)
      <4> DEFINE e == Prime * k3
                 g == Prime * k4
      <4>1. e \in Int /\ g \in Int /\ Prime * (k3 + k4) = e + g
        BY PrimeType
      <4>2. zu = (0 - x) * qv + e /\ mu = (1 * zu + x * qu) + g
        BY <3>4, <3>5
      <4> HIDE DEF e, g
      <4>3. mu = x * (qu - qv) + (e + g)
        BY <2>9, <2>13, <4>1, <4>2
      <4> QED BY <4>1, <4>3
    <3>7. x * (qu - qv) = Prime * (x * (k1 - k2))
      BY <2>9, <3>1, <3>2, PrimeType
    <3>8. Prime * (x * (k1 - k2)) + Prime * (k3 + k4) = 0 + Prime * (x * (k1 - k2) + (k3 + k4))
          /\ x * (k1 - k2) + (k3 + k4) \in Int
      BY <2>9, PrimeType
    <3>9. mu = 0 + Prime * (x * (k1 - k2) + (k3 + k4))
      BY <3>6, <3>7, <3>8
    <3> QED BY <2>13, <3>8, <3>9, SameIfMultiple
  <2>16. Same(p * iu + 1 * mu, p)
    <3>1. Same(p, p) /\ Same(1, 1) /\ 1 \in Int /\ 0 \in Int
      BY DEF Same
    <3>2. Same(p * iu, p * 1) /\ Same(1 * mu, 1 * 0)
      BY <2>9, <2>13, <2>14, <2>15, <3>1, SameProduct
    <3>3. p * iu \in Int /\ p * 1 \in Int /\ 1 * mu \in Int /\ 1 * 0 \in Int
      BY <2>9, <2>13
    <3>4. Same(p * iu + 1 * mu, p * 1 + 1 * 0)
      BY <3>2, <3>3, SameSum
    <3>5. p * 1 + 1 * 0 = p
      BY <2>9
    <3> QED BY <3>4, <3>5
  <2>17. Same(AtZero(f, U), p)
    BY <2>12, <2>16 DEF Same, iu, mu
  <2> QED BY <2>17 DEF f, p, d
<1>7. Nat \subseteq W
  <2> HIDE DEF W
  <2> QED BY <1>5, <1>6, CountingUp
<1>8. ASSUME NEW n \in 1 .. T PROVE Good(n)
  <2>1. n - 1 \in Nat /\ (n - 1) + 1 = n /\ n <= T
    BY <1>1
  <2>2. n - 1 \in W
    BY <1>7, <2>1
  <2> HIDE DEF Good
  <2> QED BY <2>1, <2>2
<1> QED BY <1>8

----------------------------------------------------------------------------
(* The shares of a deal.                                                    *)

Key == [1 .. KeyLen -> Field]
AnyDraw == [1 .. SHAMIR_THRESHOLD - 1 -> Field]

(* The coefficients of a symbol's polynomial: the symbol, then the draw.    *)
LEMMA CoefficientsOf ==
    ASSUME NEW v \in Field, NEW c \in AnyDraw
    PROVE  /\ <<v>> \o c \in [1 .. SHAMIR_THRESHOLD -> Field]
           /\ (<<v>> \o c)[1] = v
           /\ \A d \in 1 .. SHAMIR_THRESHOLD - 1 : (<<v>> \o c)[d + 1] = c[d]
<1> DEFINE T == SHAMIR_THRESHOLD
           e == <<v>> \o c
<1>1. T \in Nat /\ T > 0 /\ T - 1 \in Nat
  BY ThresholdAssumption
<1>2. c \in Seq(Field) /\ Len(c) = T - 1
  <2>1. c \in Seq(Field)
    BY <1>1 DEF AnyDraw, Seq
  <2>2. DOMAIN c = 1 .. T - 1
    BY DEF AnyDraw
  <2> QED BY <1>1, <2>1, <2>2, LenProperties
<1>3. <<v>> \in Seq(Field) /\ Len(<<v>>) = 1 /\ <<v>>[1] = v
  OBVIOUS
<1>4. e \in Seq(Field) /\ Len(e) = T
  BY <1>1, <1>2, <1>3, ConcatProperties
<1>5. e \in [1 .. T -> Field]
  <2> HIDE DEF e
  <2> QED BY <1>4, LenProperties
<1>6. e[1] = v
  BY <1>2, <1>3
<1>7. ASSUME NEW d \in 1 .. T - 1 PROVE e[d + 1] = c[d]
  <2>1. d \in Nat /\ d > 0 /\ d <= T - 1
    BY <1>1
  <2>2. Len(<<v>>) + d \in 1 .. Len(<<v>>) + Len(c) /\ (d + 1) - 1 = d /\ d + 1 > 1
    BY <1>1, <1>2, <1>3, <2>1
  <2> QED BY <1>2, <1>3, <2>1, <2>2
<1> QED BY <1>5, <1>6, <1>7

(* Share x: its number, then for each symbol the value at x.                *)
LEMMA ShareProperties ==
    ASSUME NEW key \in Key, NEW coeffs \in [1 .. KeyLen -> AnyDraw], NEW x \in 1 .. SHAMIR_TOTAL
    PROVE  /\ Deal(key, coeffs)[x][1] = x
           /\ Len(Deal(key, coeffs)[x]) = KeyLen + 1
           /\ \A j \in 1 .. KeyLen :
                 Deal(key, coeffs)[x][j + 1] = Poly(<<key[j]>> \o coeffs[j], x)
<1> DEFINE V == Nat \cup Field
           symbols == [j \in 1 .. KeyLen |-> ShareAt(key[j], coeffs[j], x)]
           s == <<x>> \o symbols
<1>0. KeyLen \in Nat
  BY KeyLenAssumption
<1>1. ASSUME NEW j \in 1 .. KeyLen
      PROVE  symbols[j] = Poly(<<key[j]>> \o coeffs[j], x) /\ symbols[j] \in Field
  <2> DEFINE p == <<key[j]>> \o coeffs[j]
  <2>1. p \in [1 .. SHAMIR_THRESHOLD -> Field]
    BY CoefficientsOf DEF Key
  <2>2. x \in Field
    BY ThresholdAssumption, FieldAssumption DEF Field
  <2>3. symbols[j] = Poly(p, x)
    BY DEF ShareAt
  <2> HIDE DEF p, symbols
  <2>4. Poly(p, x) \in Field
    <3>1. PICK v : IsHorner(v, p, x) /\ Poly(p, x) = v[1]
      BY <2>1, <2>2, PolyProperties
    <3>2. 1 \in 1 .. SHAMIR_THRESHOLD + 1
      BY ThresholdAssumption
    <3> QED BY <3>1, <3>2 DEF IsHorner
  <2> QED BY <2>3, <2>4 DEF p
<1>2. symbols \in [1 .. KeyLen -> Field]
  BY <1>1
<1>3. symbols \in Seq(V) /\ Len(symbols) = KeyLen
  <2> HIDE DEF symbols
  <2>1. symbols \in [1 .. KeyLen -> V]
    BY <1>2
  <2>2. symbols \in Seq(V) /\ DOMAIN symbols = 1 .. KeyLen
    BY <1>0, <2>1 DEF Seq
  <2> QED BY <1>0, <2>2, LenProperties
<1>4. <<x>> \in Seq(V) /\ Len(<<x>>) = 1 /\ <<x>>[1] = x
  BY ThresholdAssumption
<1> HIDE DEF symbols, V
<1>5. Len(s) = KeyLen + 1 /\ s[1] = x
  BY <1>0, <1>3, <1>4, ConcatProperties
<1>6. ASSUME NEW j \in 1 .. KeyLen PROVE s[j + 1] = symbols[j]
  <2>1. j \in Nat /\ j > 0 /\ (j + 1) - 1 = j /\ j + 1 > 1 /\ j + 1 \in 1 .. KeyLen + 1
    BY <1>0
  <2> QED BY <1>0, <1>3, <1>4, <2>1, ConcatProperties
<1>7. Deal(key, coeffs)[x] = s
  BY DEF Deal, symbols
<1> QED BY <1>1, <1>5, <1>6, <1>7

(* Of some shares of a deal: they are shares of different numbers, and      *)
(* symbol by symbol they have the values of the symbol's polynomial.        *)
LEMMA SharesProperties ==
    ASSUME NEW key \in Key, NEW coeffs \in [1 .. KeyLen -> AnyDraw],
           NEW S \in SUBSET Range(Deal(key, coeffs))
    PROVE  /\ Points(S)
           /\ \A s \in S : /\ s[1] \in 1 .. SHAMIR_TOTAL /\ s[1] \in Field
                           /\ Len(s) = KeyLen + 1
                           /\ \A j \in 1 .. KeyLen : s[j + 1] = Poly(<<key[j]>> \o coeffs[j], s[1])
<1> DEFINE deal == Deal(key, coeffs)
<1>1. DOMAIN deal = 1 .. SHAMIR_TOTAL /\ SHAMIR_TOTAL \in Nat
  BY ThresholdAssumption DEF Deal
<1>2. ASSUME NEW s \in S PROVE s[1] \in 1 .. SHAMIR_TOTAL /\ s = deal[s[1]]
  <2>1. PICK x \in 1 .. SHAMIR_TOTAL : s = deal[x]
    BY <1>1 DEF Range
  <2>2. deal[x][1] = x
    BY ShareProperties
  <2> QED BY <2>1, <2>2
<1>3. \A x \in 1 .. SHAMIR_TOTAL : x \in 1 .. Prime - 1 /\ x \in Field
  BY ThresholdAssumption, FieldAssumption DEF Field
<1>4. IsFiniteSet(S)
  <2>1. IsFiniteSet(1 .. SHAMIR_TOTAL)
    BY <1>1, FS_Interval
  <2>2. deal \in Surjection(1 .. SHAMIR_TOTAL, Range(deal))
    <3>1. deal = [x \in 1 .. SHAMIR_TOTAL |-> deal[x]]
      BY DEF Deal
    <3> QED BY <1>1, <3>1 DEF Surjection, Range
  <2> QED BY <2>1, <2>2, FS_Surjection, FS_Subset
<1>5. ASSUME NEW s \in S
      PROVE  /\ Len(s) = KeyLen + 1
             /\ \A j \in 1 .. KeyLen : s[j + 1] = Poly(<<key[j]>> \o coeffs[j], s[1])
  <2> DEFINE x == s[1]
  <2>1. x \in 1 .. SHAMIR_TOTAL /\ s = deal[x]
    BY <1>2
  <2> HIDE DEF x
  <2>2. /\ Len(deal[x]) = KeyLen + 1
        /\ \A j \in 1 .. KeyLen : deal[x][j + 1] = Poly(<<key[j]>> \o coeffs[j], x)
    BY <2>1, ShareProperties
  <2> QED BY <2>1, <2>2 DEF x
<1> QED BY <1>2, <1>3, <1>4, <1>5 DEF Points

(* As many shares of a deal as the threshold, whichever, give each symbol   *)
(* of the key.                                                              *)
LEMMA SharesGiveASymbol ==
    ASSUME NEW key \in Key, NEW coeffs \in [1 .. KeyLen -> AnyDraw],
           NEW S \in SUBSET Range(Deal(key, coeffs)), Cardinality(S) >= SHAMIR_THRESHOLD,
           NEW j \in 1 .. KeyLen
    PROVE  Interpolated(S, j) = key[j]
<1> DEFINE T == SHAMIR_THRESHOLD
           c == <<key[j]>> \o coeffs[j]
           val == [s \in S |-> CHOOSE v : IsHorner(v, c, s[1]) /\ Poly(c, s[1]) = v[1]]
           y == [s \in S |-> val[s][(T + 1) - T]]
<1>1. T \in Nat /\ T \in 1 .. T /\ (T + 1) - T = 1
  BY ThresholdAssumption
<1>2. Points(S) /\ \A s \in S : s[1] \in Field /\ s[j + 1] = Poly(c, s[1])
  BY SharesProperties
<1>3. c \in [1 .. T -> Field] /\ c[1] = key[j] /\ key[j] \in Field
  BY CoefficientsOf DEF Key
<1> HIDE DEF c
<1>4. ASSUME NEW s \in S PROVE IsHorner(val[s], c, s[1]) /\ val[s][1] = s[j + 1]
  <2>1. \E v : IsHorner(v, c, s[1]) /\ Poly(c, s[1]) = v[1]
    BY <1>2, <1>3, PolyProperties
  <2>2. IsHorner(val[s], c, s[1]) /\ Poly(c, s[1]) = val[s][1]
    BY <2>1
  <2> QED BY <1>2, <2>2
<1> HIDE DEF val
<1>5. HornerOn(val, S, c)
  BY <1>4 DEF HornerOn
<1>6. Same(AtZero(y, S), c[(T + 1) - T])
  BY <1>1, <1>2, <1>3, <1>5, EndsInterpolate
<1>7. AtZero(y, S) = SumFunction([s \in S |-> s[j + 1] * Weight(S, s)])
  <2>1. \A s \in S : y[s] = s[j + 1]
    BY <1>1, <1>4
  <2>2. [s \in S |-> y[s] * Weight(S, s)] = [s \in S |-> s[j + 1] * Weight(S, s)]
    BY <2>1
  <2> QED BY <2>2 DEF AtZero
<1>8. Interpolated(S, j) = AtZero(y, S) % Prime
  BY <1>7 DEF Interpolated
<1>9. key[j] % Prime = key[j]
  BY <1>3, FieldType
<1> QED BY <1>1, <1>3, <1>6, <1>8, <1>9 DEF Same

(* As many shares of a deal as the threshold, whichever, are accepted and   *)
(* give the key (generate_recovery_shares, recover_key_from_shares).        *)
LEMMA SharesGiveTheKey ==
    ASSUME NEW key \in Key, NEW coeffs \in [1 .. KeyLen -> AnyDraw],
           NEW S \in SUBSET Range(Deal(key, coeffs)), Cardinality(S) >= SHAMIR_THRESHOLD
    PROVE  Recovered(S) = key
<1> DEFINE numbers == {s[1] : s \in S}
<1>1. Points(S) /\ \A s \in S : Len(s) = KeyLen + 1
  BY SharesProperties
<1>2. Cardinality(numbers) = Cardinality(S)
  <2> DEFINE f == [s \in S |-> s[1]]
  <2>1. f \in [S -> numbers]
    OBVIOUS
  <2>2. \A s, t \in S : f[s] = f[t] => s = t
    BY <1>1 DEF Points
  <2>3. \A n \in numbers : \E s \in S : f[s] = n
    OBVIOUS
  <2> HIDE DEF f, numbers
  <2>4. f \in Bijection(S, numbers)
    BY <2>1, <2>2, <2>3 DEF Bijection, Injection, Surjection, IsInjective
  <2> QED BY <1>1, <2>4, FS_Bijection DEF Points, ExistsBijection
<1>3. [j \in 1 .. KeyLen |-> Interpolated(S, j)] = key
  BY SharesGiveASymbol DEF Key
<1>4. Recovered(S) = [j \in 1 .. KeyLen |-> Interpolated(S, j)]
  <2> HIDE DEF numbers
  <2> QED BY <1>1, <1>2 DEF Recovered, numbers
<1> QED BY <1>3, <1>4

----------------------------------------------------------------------------
(* Fewer shares fit every other key too: polynomials that are zero at them. *)

\* The polynomial b is the sum of c and k times e.
IsSum(b, c, k, e) == \A d \in 1 .. SHAMIR_THRESHOLD : Same(b[d], c[d] + k * e[d])

(* And has the sum of their values.                                         *)
LEMMA HornerSum ==
    ASSUME NEW b \in [1 .. SHAMIR_THRESHOLD -> Field],
           NEW c \in [1 .. SHAMIR_THRESHOLD -> Field],
           NEW e \in [1 .. SHAMIR_THRESHOLD -> Field], NEW k \in Int, NEW x \in Field,
           IsSum(b, c, k, e),
           NEW u, IsHorner(u, b, x), NEW v, IsHorner(v, c, x), NEW w, IsHorner(w, e, x)
    PROVE  Same(u[1], v[1] + k * w[1])
<1> DEFINE T == SHAMIR_THRESHOLD
           W == {d \in 1 .. T + 1 : Same(u[d], v[d] + k * w[d])}
<1>1. T \in Nat /\ T + 1 \in Nat \ {0} /\ T + 1 \in 1 .. T + 1 /\ 1 \in 1 .. T + 1
  BY ThresholdAssumption
<1>2. x \in Int /\ \A d \in 1 .. T + 1 : u[d] \in Int /\ v[d] \in Int /\ w[d] \in Int
  BY HornerStep
<1>3. T + 1 \in W
  <2>1. u[T + 1] = 0 /\ v[T + 1] = 0 /\ w[T + 1] = 0
    BY HornerStep
  <2>2. 0 + k * 0 = 0
    OBVIOUS
  <2> QED BY <1>1, <2>1, <2>2 DEF Same
<1>4. ASSUME NEW d \in 1 .. (T + 1) - 1, d + 1 \in W PROVE d \in W
  <2>1. d \in 1 .. T /\ d \in 1 .. T + 1 /\ d + 1 \in 1 .. T + 1
    BY <1>1
  <2> DEFINE b1 == b[d]
             c1 == c[d]
             e1 == e[d]
             u1 == u[d]
             v1 == v[d]
             w1 == w[d]
             u2 == u[d + 1]
             v2 == v[d + 1]
             w2 == w[d + 1]
  <2>2. b1 \in Int /\ Same(u1, b1 + x * u2)
    BY <2>1, HornerStep
  <2>3. c1 \in Int /\ Same(v1, c1 + x * v2)
    BY <2>1, HornerStep
  <2>4. e1 \in Int /\ Same(w1, e1 + x * w2)
    BY <2>1, HornerStep
  <2>5. Same(b1, c1 + k * e1) /\ Same(u2, v2 + k * w2)
    BY <1>4, <2>1 DEF IsSum
  <2>6. /\ u1 \in Int /\ v1 \in Int /\ w1 \in Int
        /\ u2 \in Int /\ v2 \in Int /\ w2 \in Int
    BY <1>2, <2>1
  <2> HIDE DEF b1, c1, e1, u1, v1, w1, u2, v2, w2
  <2>7. /\ c1 + k * e1 \in Int /\ v2 + k * w2 \in Int
        /\ c1 + x * v2 \in Int /\ e1 + x * w2 \in Int
    BY <1>2, <2>2, <2>3, <2>4, <2>6
  <2>8. Same(b1 + x * u2, (c1 + k * e1) + x * (v2 + k * w2))
    BY <1>2, <2>2, <2>5, <2>6, <2>7, SameLinear
  <2>9. (c1 + k * e1) + x * (v2 + k * w2) = (c1 + x * v2) + k * (e1 + x * w2)
    BY <1>2, <2>3, <2>4, <2>6
  <2>10. Same((c1 + x * v2) + k * (e1 + x * w2), v1 + k * w1)
    BY <2>3, <2>4, <2>6, <2>7, SameLinear
  <2>11. Same(u1, v1 + k * w1)
    BY <2>2, <2>8, <2>9, <2>10 DEF Same
  <2> QED BY <2>1, <2>11 DEF u1, v1, w1
<1>5. 1 .. T + 1 \subseteq W
  <2> DEFINE n == T + 1
  <2>1. n \in Nat \ {0} /\ n \in W /\ \A d \in 1 .. n - 1 : d + 1 \in W => d \in W
    BY <1>1, <1>3, <1>4
  <2> HIDE DEF n, W
  <2>2. 1 .. n \subseteq W
    BY <2>1, CountingDown
  <2> QED BY <2>2 DEF n
<1> QED BY <1>1, <1>5

\* The polynomial e is c times (1 + k * x).
IsTimes(e, c, k) ==
    /\ c[SHAMIR_THRESHOLD] = 0
    /\ e[1] = c[1]
    /\ \A d \in 1 .. SHAMIR_THRESHOLD - 1 : Same(e[d + 1], c[d + 1] + k * c[d])

(* And has that value.                                                      *)
LEMMA HornerTimes ==
    ASSUME NEW c \in [1 .. SHAMIR_THRESHOLD -> Field],
           NEW e \in [1 .. SHAMIR_THRESHOLD -> Field], NEW k \in Int, NEW x \in Field,
           IsTimes(e, c, k),
           NEW v, IsHorner(v, c, x), NEW w, IsHorner(w, e, x)
    PROVE  Same(w[1], v[1] + (k * x) * v[1])
<1> DEFINE T == SHAMIR_THRESHOLD
           W == {d \in 1 .. T : Same(w[d + 1], v[d + 1] + k * v[d])}
<1>1. T \in Nat \ {0} /\ T \in 1 .. T /\ T + 1 \in 1 .. T + 1 /\ T \in 1 .. T + 1 /\ 1 \in 1 .. T
      /\ 1 \in 1 .. T + 1 /\ 2 \in 1 .. T + 1 /\ 1 + 1 = 2
  BY ThresholdAssumption
<1>2. x \in Int /\ \A d \in 1 .. T + 1 : v[d] \in Int /\ w[d] \in Int
  BY HornerStep
<1>3. T \in W
  <2>1. w[T + 1] = 0 /\ v[T + 1] = 0 /\ Same(v[T], c[T] + x * v[T + 1])
    BY <1>1, HornerStep
  <2>2. c[T] + x * 0 = 0
    BY <1>2 DEF IsTimes
  <2>3. Same(0 + k * v[T], 0 + k * 0)
    <3>1. Same(0, 0) /\ Same(v[T], 0) /\ v[T] \in Int /\ 0 \in Int
      BY <1>1, <1>2, <2>1, <2>2 DEF Same
    <3> DEFINE z == 0
    <3>2. z \in Int /\ Same(z, z) /\ Same(v[T], z)
      BY <3>1
    <3> HIDE DEF z
    <3>3. Same(z + k * v[T], z + k * z)
      BY <3>1, <3>2, SameLinear
    <3> QED BY <3>3 DEF z
  <2>4. 0 + k * 0 = 0
    OBVIOUS
  <2> QED BY <1>1, <2>1, <2>3, <2>4 DEF Same
<1>4. ASSUME NEW d \in 1 .. T - 1, d + 1 \in W PROVE d \in W
  <2>1. d \in 1 .. T /\ d + 1 \in 1 .. T /\ d \in 1 .. T + 1 /\ d + 1 \in 1 .. T + 1
        /\ (d + 1) + 1 \in 1 .. T + 1
    BY <1>1
  <2> DEFINE c1 == c[d]
             c2 == c[d + 1]
             e2 == e[d + 1]
             v1 == v[d]
             v2 == v[d + 1]
             v3 == v[(d + 1) + 1]
             w2 == w[d + 1]
             w3 == w[(d + 1) + 1]
  <2>2. c1 \in Int /\ Same(v1, c1 + x * v2)
    BY <2>1, HornerStep
  <2>3. c2 \in Int /\ Same(v2, c2 + x * v3)
    BY <2>1, HornerStep
  <2>4. e2 \in Int /\ Same(w2, e2 + x * w3)
    BY <2>1, HornerStep
  <2>5. Same(e2, c2 + k * c1) /\ Same(w3, v3 + k * v2)
    BY <1>4 DEF IsTimes
  <2>6. v1 \in Int /\ v2 \in Int /\ v3 \in Int /\ w2 \in Int /\ w3 \in Int
    BY <1>2, <2>1
  <2> HIDE DEF c1, c2, e2, v1, v2, v3, w2, w3
  <2>7. /\ c2 + k * c1 \in Int /\ v3 + k * v2 \in Int
        /\ c1 + x * v2 \in Int /\ c2 + x * v3 \in Int
    BY <1>2, <2>2, <2>3, <2>6
  <2>8. Same(e2 + x * w3, (c2 + k * c1) + x * (v3 + k * v2))
    BY <1>2, <2>4, <2>5, <2>6, <2>7, SameLinear
  <2>9. (c2 + k * c1) + x * (v3 + k * v2) = (c2 + x * v3) + k * (c1 + x * v2)
    BY <1>2, <2>2, <2>3, <2>6
  <2>10. Same((c2 + x * v3) + k * (c1 + x * v2), v2 + k * v1)
    BY <2>2, <2>3, <2>6, <2>7, SameLinear
  <2>11. Same(w2, v2 + k * v1)
    BY <2>4, <2>8, <2>9, <2>10 DEF Same
  <2> QED BY <2>1, <2>11 DEF v1, v2, w2
<1>5. 1 \in W
  <2>1. T \in Nat \ {0} /\ T \in W /\ \A d \in 1 .. T - 1 : d + 1 \in W => d \in W
    BY <1>1, <1>3, <1>4
  <2> HIDE DEF W, T
  <2>2. 1 .. T \subseteq W
    BY <2>1, CountingDown
  <2> QED BY <1>1, <2>2
<1> DEFINE c1 == c[1]
           v1 == v[1]
           v2 == v[2]
           w1 == w[1]
           w2 == w[2]
<1>6. c1 \in Int /\ Same(v1, c1 + x * v2)
  BY <1>1, HornerStep
<1>7. Same(w1, c1 + x * w2)
  <2>1. Same(w[1], e[1] + x * w[1 + 1])
    BY <1>1, HornerStep
  <2> QED BY <1>1, <2>1 DEF IsTimes
<1>8. Same(w2, v2 + k * v1)
  BY <1>1, <1>5
<1>9. v1 \in Int /\ v2 \in Int /\ w1 \in Int /\ w2 \in Int
  BY <1>1, <1>2
<1> HIDE DEF c1, v1, v2, w1, w2
<1>10. v2 + k * v1 \in Int /\ c1 + x * v2 \in Int /\ k * x \in Int
  BY <1>2, <1>6, <1>9
<1>11. Same(c1 + x * w2, c1 + x * (v2 + k * v1))
  <2>1. Same(c1, c1)
    BY DEF Same
  <2> QED BY <1>2, <1>6, <1>8, <1>9, <1>10, <2>1, SameLinear
<1>12. c1 + x * (v2 + k * v1) = (c1 + x * v2) + (k * x) * v1
  BY <1>2, <1>6, <1>9
<1>13. Same((c1 + x * v2) + (k * x) * v1, v1 + (k * x) * v1)
  <2> DEFINE q == k * x
  <2>1. Same(v1, v1) /\ q \in Int
    BY <1>10 DEF Same
  <2> HIDE DEF q
  <2>2. Same((c1 + x * v2) + q * v1, v1 + q * v1)
    BY <1>6, <1>9, <1>10, <2>1, SameLinear
  <2> QED BY <2>2 DEF q
<1>14. Same(w1, v1 + (k * x) * v1)
  BY <1>7, <1>11, <1>12, <1>13 DEF Same
<1> QED BY <1>14 DEF w1, v1

\* Polynomials that are one at zero, zero at the shares U, and have no more
\* than n + 1 coefficients.
Vanishing(U, n) ==
    {c \in [1 .. SHAMIR_THRESHOLD -> Field] :
        /\ c[1] = 1
        /\ \A d \in 1 .. SHAMIR_THRESHOLD : d > n + 1 => c[d] = 0
        /\ \A s \in U : Poly(c, s[1]) = 0}

(* Multiplying such a polynomial by 1 - x / a[1] adds the share a.          *)
LEMMA VanishingAtOneMore ==
    ASSUME NEW A, Points(A), NEW a \in A, NEW U \in SUBSET A,
           NEW n \in Nat, n + 1 < SHAMIR_THRESHOLD, NEW c \in Vanishing(U, n)
    PROVE  Vanishing(U \cup {a}, n + 1) # {}
<1> DEFINE T == SHAMIR_THRESHOLD
           y == a[1]
           k == Over(Prime - 1, y)
           e == [d \in 1 .. T |-> IF d = 1 THEN 1 ELSE (c[d] + k * c[d - 1]) % Prime]
<1>1. T \in Nat /\ 1 \in 1 .. T /\ 1 \in 1 .. T + 1
  BY ThresholdAssumption
<1>2. /\ c \in [1 .. T -> Field] /\ c[1] = 1 /\ \A d \in 1 .. T : d > n + 1 => c[d] = 0
      /\ \A s \in U : Poly(c, s[1]) = 0
  BY DEF Vanishing
<1>3. \A s \in A : s[1] \in Field
  BY PrimeType DEF Points, Field
<1>4. k \in Field /\ k \in Int /\ y \in Field /\ y \in Int /\ Same(k * y, Prime - 1)
  <2>1. y \in Field /\ y # 0 /\ Prime - 1 \in Field
    BY PrimeType DEF Points, Field
  <2> QED BY <2>1, Division, FieldType
<1> HIDE DEF k, y
<1>5. ASSUME NEW d \in 1 .. T - 1
      PROVE  /\ c[d] \in Int /\ c[d + 1] \in Int /\ c[d + 1] + k * c[d] \in Int
             /\ e[d + 1] = (c[d + 1] + k * c[d]) % Prime
  <2>1. d \in 1 .. T /\ d + 1 \in 1 .. T /\ d + 1 # 1 /\ (d + 1) - 1 = d
    BY <1>1
  <2>2. c[d] \in Int /\ c[d + 1] \in Int
    BY <1>2, <2>1, FieldType
  <2>3. e[d + 1] = (c[d + 1] + k * c[d]) % Prime
    BY <2>1
  <2>4. c[d + 1] + k * c[d] \in Int
    BY <1>4, <2>2
  <2> QED BY <2>2, <2>3, <2>4
<1>6. e \in [1 .. T -> Field]
  <2>1. 1 \in Field
    BY PrimeType DEF Field
  <2>2. ASSUME NEW d \in 1 .. T, d # 1 PROVE (c[d] + k * c[d - 1]) % Prime \in Field
    <3>1. d - 1 \in 1 .. T - 1 /\ (d - 1) + 1 = d
      BY <1>1, <2>2
    <3>2. c[d] + k * c[d - 1] \in Int
      BY <1>5, <3>1
    <3> QED BY <3>2, Rest
  <2> QED BY <2>1, <2>2
<1>7. e[1] = 1
  BY <1>1
<1> HIDE DEF e
<1>8. IsTimes(e, c, k)
  <2>1. c[T] = 0
    BY <1>1, <1>2
  <2>2. ASSUME NEW d \in 1 .. T - 1 PROVE Same(e[d + 1], c[d + 1] + k * c[d])
    <3> DEFINE f == c[d + 1] + k * c[d]
    <3>1. f \in Int /\ e[d + 1] = f % Prime
      BY <1>5
    <3> HIDE DEF f
    <3>2. Same(e[d + 1], f)
      BY <3>1, SameRest
    <3> QED BY <3>2 DEF f
  <2> QED BY <1>2, <1>7, <2>1, <2>2 DEF IsTimes
<1>9. ASSUME NEW d \in 1 .. T, d > (n + 1) + 1 PROVE e[d] = 0
  <2>1. d - 1 \in 1 .. T - 1 /\ (d - 1) + 1 = d /\ d - 1 \in 1 .. T /\ d - 1 > n + 1 /\ d > n + 1
    BY <1>1, <1>9
  <2>2. e[d] = (c[d] + k * c[d - 1]) % Prime /\ c[d] = 0 /\ c[d - 1] = 0
    BY <1>2, <1>5, <2>1
  <2>3. 0 + k * 0 = 0
    BY <1>4
  <2> QED BY <2>2, <2>3, FieldType
<1>10. ASSUME NEW s \in U \cup {a} PROVE Poly(e, s[1]) = 0
  <2> DEFINE x == s[1]
  <2>1. x \in Field /\ x \in Int
    BY <1>3, FieldType
  <2>2. (s \in U => Poly(c, x) = 0) /\ (s = a => x = y)
    BY <1>2 DEF y
  <2> HIDE DEF x
  <2>3. PICK v : IsHorner(v, c, x) /\ Poly(c, x) = v[1]
    BY <1>2, <2>1, PolyProperties
  <2>4. PICK w : IsHorner(w, e, x) /\ Poly(e, x) = w[1]
    BY <1>6, <2>1, PolyProperties
  <2>5. Same(w[1], v[1] + (k * x) * v[1])
    BY <1>2, <1>4, <1>6, <1>8, <2>1, <2>3, <2>4, HornerTimes
  <2>6. v[1] \in Int /\ w[1] \in Field
    <3>1. v[1] \in Int
      BY <1>1, <1>2, <2>1, <2>3, HornerStep
    <3>2. w[1] \in Field
      BY <1>1, <1>6, <2>1, <2>4, HornerStep
    <3> QED BY <3>1, <3>2
  <2> DEFINE v1 == v[1]
             w1 == w[1]
  <2>7. v1 \in Int /\ w1 \in Field /\ Same(w1, v1 + (k * x) * v1) /\ k * x \in Int
    BY <1>4, <2>1, <2>5, <2>6
  <2>8. (s \in U => v1 = 0) /\ (s = a => Same(k * x, Prime - 1))
    BY <1>4, <2>2, <2>3
  <2> HIDE DEF v1, w1
  <2>9. Same(v1 + (k * x) * v1, 0)
    <3>1. CASE s \in U
      BY <2>7, <2>8, <3>1 DEF Same
    <3>2. CASE s = a
      <4> DEFINE q == k * x
                 z == Prime - 1
      <4>1. q \in Int /\ z \in Int /\ Same(q, z) /\ Same(v1, v1)
        BY <2>7, <2>8, <3>2, PrimeType DEF Same
      <4>2. v1 + z * v1 = 0 + Prime * v1 /\ v1 + z * v1 \in Int /\ 0 \in Int
        BY <2>7, PrimeType
      <4> HIDE DEF q, z
      <4>3. Same(v1 + v1 * q, v1 + v1 * z)
        BY <2>7, <4>1, SameLinear
      <4>4. v1 * q = q * v1 /\ v1 * z = z * v1
        BY <2>7, <4>1
      <4>5. Same(v1 + z * v1, 0)
        BY <2>7, <4>2, SameIfMultiple
      <4>6. Same(v1 + q * v1, 0)
        BY <4>3, <4>4, <4>5 DEF Same
      <4> QED BY <4>6 DEF q
    <3> QED BY <3>1, <3>2
  <2>10. w1 = 0
    <3>1. w1 % Prime = w1 /\ 0 % Prime = 0
      BY <2>7, FieldType
    <3> QED BY <2>7, <2>9, <3>1 DEF Same
  <2> QED BY <2>4, <2>10 DEF w1, x
<1>11. e \in Vanishing(U \cup {a}, n + 1)
  BY <1>6, <1>7, <1>9, <1>10 DEF Vanishing
<1> QED BY <1>11

(* So there is one for fewer shares than the threshold.                     *)
LEMMA VanishingAtAll ==
    ASSUME NEW A, Points(A)
    PROVE  \A n \in Nat : n < SHAMIR_THRESHOLD =>
              \A U \in SUBSET A : Cardinality(U) = n => Vanishing(U, n) # {}
<1> DEFINE T == SHAMIR_THRESHOLD
           W == {n \in Nat : n < T =>
                    \A U \in SUBSET A : Cardinality(U) = n => Vanishing(U, n) # {}}
<1>1. T \in Nat /\ 1 \in 1 .. T
  BY ThresholdAssumption
<1>2. \A U \in SUBSET A : IsFiniteSet(U) /\ Cardinality(U) \in Nat
  BY FS_Subset, FS_CardinalityType DEF Points
<1>3. 0 \in W
  <2> SUFFICES ASSUME NEW U \in SUBSET A, Cardinality(U) = 0 PROVE Vanishing(U, 0) # {}
    OBVIOUS
  <2>1. U = {}
    BY <1>2, FS_EmptySet
  <2> DEFINE c == [d \in 1 .. T |-> IF d = 1 THEN 1 ELSE 0]
  <2>2. 1 \in Field /\ 0 \in Field
    BY PrimeType DEF Field
  <2>3. /\ c \in [1 .. T -> Field] /\ c[1] = 1
        /\ \A d \in 1 .. T : d > 0 + 1 => c[d] = 0
    BY <1>1, <2>2
  <2> HIDE DEF c
  <2>4. c \in Vanishing(U, 0)
    BY <2>1, <2>3 DEF Vanishing
  <2> QED BY <2>4
<1>4. ASSUME NEW n \in Nat, n \in W PROVE n + 1 \in W
  <2> SUFFICES ASSUME n + 1 < T, NEW U \in SUBSET A, Cardinality(U) = n + 1
               PROVE  Vanishing(U, n + 1) # {}
    OBVIOUS
  <2>1. PICK a \in U : TRUE
    <3>1. n + 1 # 0
      OBVIOUS
    <3> QED BY <3>1, FS_EmptySet
  <2> DEFINE V == U \ {a}
  <2>2. V \in SUBSET A /\ a \in A /\ V \cup {a} = U
    OBVIOUS
  <2>3. Cardinality(V) = n
    <3>1. Cardinality(V) = Cardinality(U) - 1
      BY <1>2, FS_RemoveElement
    <3> QED BY <3>1
  <2> HIDE DEF V
  <2>4. n < T
    BY <1>1
  <2>5. Vanishing(V, n) # {}
    BY <1>4, <2>2, <2>3, <2>4
  <2> HIDE DEF W
  <2>6. PICK c \in Vanishing(V, n) : TRUE
    BY <2>5
  <2>7. Vanishing(V \cup {a}, n + 1) # {}
    BY <2>2, <2>6, VanishingAtOneMore
  <2> QED BY <2>2, <2>7
<1>5. Nat \subseteq W
  <2> HIDE DEF W
  <2> QED BY <1>3, <1>4, CountingUp
<1> QED BY <1>5

\* The coefficient of symbol j at d, moved by z until the symbol is v.
Moved(key, coeffs, z, j, v, d) == (coeffs[j][d] + (v - key[j]) * z[d + 1]) % Prime

(* For every other value of the symbol there is one polynomial that agrees  *)
(* with fewer shares than the threshold, the one moved.                     *)
LEMMA MovedFitsTheShares ==
    ASSUME NEW key \in Key, NEW coeffs \in [1 .. KeyLen -> AnyDraw],
           NEW S \in SUBSET Range(Deal(key, coeffs)),
           NEW z \in Vanishing(S, SHAMIR_THRESHOLD - 1),
           NEW j \in 1 .. KeyLen, NEW v \in Field
    PROVE  \E c \in AnyDraw :
              /\ \A s \in S : ShareAt(v, c, s[1]) = s[j + 1]
              /\ \A d \in 1 .. SHAMIR_THRESHOLD - 1 : c[d] = Moved(key, coeffs, z, j, v, d)
<1> DEFINE T == SHAMIR_THRESHOLD
           p == <<key[j]>> \o coeffs[j]
           m == v - key[j]
<1>1. /\ T \in Nat /\ 1 \in 1 .. T /\ T - 1 \in Nat /\ T - 1 < SHAMIR_THRESHOLD
      /\ 1 \in 1 .. T + 1
  BY ThresholdAssumption
<1>2. Points(S) /\ \A s \in S : s[1] \in Field /\ s[j + 1] = Poly(p, s[1])
  BY SharesProperties
<1>3. /\ p \in [1 .. T -> Field] /\ p[1] = key[j] /\ key[j] \in Field
      /\ \A d \in 1 .. T - 1 : p[d + 1] = coeffs[j][d]
  <2>1. key[j] \in Field /\ coeffs[j] \in AnyDraw
    BY DEF Key
  <2> QED BY <2>1, CoefficientsOf
<1>4. v \in Int /\ key[j] \in Int /\ m \in Int /\ \A d \in 1 .. T : p[d] \in Int
  <2>1. v \in Int /\ key[j] \in Int
    BY <1>3, FieldType
  <2>2. \A d \in 1 .. T : p[d] \in Int
    BY <1>3, FieldType
  <2> HIDE DEF p
  <2> QED BY <2>1, <2>2
<1>6. /\ z \in [1 .. T -> Field] /\ z[1] = 1 /\ \A s \in S : Poly(z, s[1]) = 0
      /\ \A d \in 1 .. T : z[d] \in Int
  <2>1. z \in [1 .. T -> Field] /\ z[1] = 1 /\ \A s \in S : Poly(z, s[1]) = 0
    BY DEF Vanishing
  <2> QED BY <2>1, FieldType
<1> HIDE DEF p
<1> DEFINE b == [d \in 1 .. T |-> (p[d] + m * z[d]) % Prime]
<1>7. ASSUME NEW d \in 1 .. T PROVE Same(b[d], p[d] + m * z[d]) /\ b[d] \in Field
  <2> DEFINE e == p[d] + m * z[d]
  <2>1. p[d] \in Int /\ z[d] \in Int /\ b[d] = e % Prime
    BY <1>4, <1>6
  <2> HIDE DEF b
  <2>2. e \in Int
    BY <1>4, <2>1
  <2> HIDE DEF e
  <2>3. Same(b[d], e) /\ b[d] \in Field
    BY <2>1, <2>2, SameRest, Rest
  <2> QED BY <2>3 DEF e
<1>8. b \in [1 .. T -> Field] /\ b[1] = v
  <2>1. b \in [1 .. T -> Field]
    BY <1>7
  <2>2. b[1] = (p[1] + m * z[1]) % Prime
    BY <1>1
  <2>3. p[1] + m * z[1] = v
    BY <1>3, <1>4, <1>6
  <2> QED BY <2>1, <2>2, <2>3, FieldType
<1>12. \A d \in 1 .. T - 1 : b[d + 1] = Moved(key, coeffs, z, j, v, d)
  <2>1. ASSUME NEW d \in 1 .. T - 1
        PROVE  d + 1 \in 1 .. T /\ p[d + 1] = coeffs[j][d]
    BY <1>1, <1>3
  <2> QED BY <2>1 DEF Moved
<1> HIDE DEF b, m
<1> DEFINE c == [d \in 1 .. T - 1 |-> b[d + 1]]
<1>9. c \in AnyDraw
  <2>1. \A d \in 1 .. T - 1 : b[d + 1] \in Field
    BY <1>1, <1>8
  <2> QED BY <2>1 DEF AnyDraw
<1>10. <<v>> \o c = b
  <2> DEFINE h == <<v>> \o c
  <2>1. h \in [1 .. T -> Field] /\ h[1] = v /\ \A d \in 1 .. T - 1 : h[d + 1] = c[d]
    <3> HIDE DEF c
    <3> QED BY <1>9, CoefficientsOf
  <2> HIDE DEF h
  <2>2. ASSUME NEW d \in 1 .. T PROVE h[d] = b[d]
    <3>1. CASE d = 1
      BY <1>8, <2>1, <3>1
    <3>2. CASE d # 1
      <4>1. d - 1 \in 1 .. T - 1 /\ (d - 1) + 1 = d
        BY <1>1, <3>2
      <4>2. h[(d - 1) + 1] = c[d - 1] /\ c[d - 1] = b[(d - 1) + 1]
        BY <2>1, <4>1
      <4> QED BY <4>1, <4>2
    <3> QED BY <3>1, <3>2
  <2>3. h = b
    <3>1. h = [d \in 1 .. T |-> h[d]] /\ b = [d \in 1 .. T |-> b[d]]
      BY <1>8, <2>1
    <3> QED BY <2>2, <3>1
  <2> QED BY <2>3 DEF h
<1> HIDE DEF c
<1>11. ASSUME NEW s \in S PROVE ShareAt(v, c, s[1]) = s[j + 1]
  <2> DEFINE x == s[1]
  <2>1. x \in Field /\ s[j + 1] = Poly(p, x) /\ Poly(z, x) = 0
    BY <1>2, <1>6
  <2> HIDE DEF x
  <2>2. PICK pv : IsHorner(pv, p, x) /\ Poly(p, x) = pv[1]
    BY <1>3, <2>1, PolyProperties
  <2>3. PICK zv : IsHorner(zv, z, x) /\ Poly(z, x) = zv[1]
    BY <1>6, <2>1, PolyProperties
  <2>4. PICK bv : IsHorner(bv, b, x) /\ Poly(b, x) = bv[1]
    BY <1>8, <2>1, PolyProperties
  <2>5. Same(bv[1], pv[1] + m * zv[1])
    <3>1. IsSum(b, p, m, z)
      BY <1>7 DEF IsSum
    <3>2. b \in [1 .. T -> Field] /\ p \in [1 .. T -> Field] /\ z \in [1 .. T -> Field]
      BY <1>3, <1>6, <1>8
    <3>3. m \in Int /\ x \in Field
      BY <1>4, <2>1
    <3>4. IsHorner(bv, b, x) /\ IsHorner(pv, p, x) /\ IsHorner(zv, z, x)
      BY <2>2, <2>3, <2>4
    <3> QED BY <3>1, <3>2, <3>3, <3>4, HornerSum
  <2>6. pv[1] \in Field /\ pv[1] \in Int
    BY <1>1, <1>3, <2>1, <2>2, HornerStep
  <2>7. bv[1] \in Field
    BY <1>1, <1>8, <2>1, <2>4, HornerStep
  <2>8. pv[1] + m * zv[1] = pv[1]
    <3>1. m * 0 = 0
      BY <1>4
    <3> QED BY <2>1, <2>3, <2>6, <3>1
  <2>9. bv[1] % Prime = bv[1] /\ pv[1] % Prime = pv[1]
    BY <2>6, <2>7, FieldType
  <2>10. Poly(b, x) = Poly(p, x)
    BY <2>2, <2>4, <2>5, <2>8, <2>9 DEF Same
  <2> QED BY <1>10, <2>1, <2>10 DEF ShareAt, x
<1>13. \A d \in 1 .. T - 1 : c[d] = Moved(key, coeffs, z, j, v, d)
  BY <1>12 DEF c
<1> QED BY <1>9, <1>11, <1>13

(* A coefficient that is not zero becomes zero for one symbol at most.      *)
LEMMA ZeroForOneSymbol ==
    ASSUME NEW a \in Field, a # 0, NEW y \in Int, NEW k \in Int,
           NEW v \in Field, NEW w \in Field,
           (a + (v - k) * y) % Prime = 0, (a + (w - k) * y) % Prime = 0
    PROVE  v = w
<1>1. /\ a \in Int /\ v \in Int /\ w \in Int /\ 0 \in Int /\ 0 % Prime = 0
      /\ a % Prime = a /\ v % Prime = v /\ w % Prime = w
  BY FieldType
<1> DEFINE g == v - k
           h == w - k
<1>2. g \in Int /\ h \in Int /\ g - h = v - w
  BY <1>1
<1> HIDE DEF g, h
<1>3. (a + g * y) % Prime = 0 /\ (a + h * y) % Prime = 0
  BY DEF g, h
<1> DEFINE e == g * y
           u == h * y
<1>4. e \in Int /\ u \in Int /\ (g - h) * y = e - u
  BY <1>2
<1> HIDE DEF e, u
<1>5. Same(a + e, a + u) /\ a + e \in Int /\ a + u \in Int /\ Same(a + e, 0)
  BY <1>1, <1>3, <1>4 DEF Same, e, u
<1>6. PICK i \in Int : a + e = (a + u) + Prime * i
  BY <1>5, MultipleIfSame
<1>7. (v - w) * y = 0 + Prime * i /\ (v - w) * y \in Int /\ v - w \in Int
  <2>1. Prime * i \in Int
    BY PrimeType
  <2>2. e - u = 0 + Prime * i
    BY <1>1, <1>4, <1>6, <2>1
  <2> QED BY <1>1, <1>2, <1>4, <2>2
<1>8. Same((v - w) * y, 0)
  BY <1>1, <1>7, SameIfMultiple
<1>9. CASE Same(v - w, 0)
  <2>1. PICK l \in Int : v - w = 0 + Prime * l
    BY <1>1, <1>7, <1>9, MultipleIfSame
  <2>2. v = w + Prime * l
    BY <1>1, <2>1, PrimeType
  <2>3. Same(v, w)
    BY <1>1, <2>2, SameIfMultiple
  <2> QED BY <1>1, <2>3 DEF Same
<1>10. CASE Same(y, 0)
  <2>1. PICK l \in Int : y = 0 + Prime * l
    BY <1>1, <1>10, MultipleIfSame
  <2>2. e = Prime * (g * l) /\ g * l \in Int
    <3>1. e = g * (Prime * l)
      BY <2>1, PrimeType DEF e
    <3> QED BY <1>2, <3>1, PrimeType
  <2>3. a + e = a + Prime * (g * l)
    BY <2>2
  <2>4. Same(a + e, a)
    BY <1>1, <1>5, <2>2, <2>3, SameIfMultiple
  <2> QED BY <1>1, <1>5, <2>4 DEF Same
<1> QED BY <1>7, <1>8, <1>9, <1>10, NoZeroDivisors

(* Fewer shares than the threshold rule out a symbol only if one of the     *)
(* coefficients moved to it is zero, so no more symbols than coefficients.  *)
LEMMA FewerRuleOutFew ==
    ASSUME NEW key \in Key, NEW coeffs \in [1 .. KeyLen -> Draw],
           NEW S \in SUBSET Range(Deal(key, coeffs)), Cardinality(S) = SHAMIR_THRESHOLD - 1,
           NEW j \in 1 .. KeyLen
    PROVE  Cardinality({v \in Field : ~Fits(S, j, v)}) < SHAMIR_THRESHOLD
<1> DEFINE T == SHAMIR_THRESHOLD
           D == 1 .. T - 1
           X == {v \in Field : ~Fits(S, j, v)}
<1>1. T \in Nat /\ T > 0 /\ T - 1 \in Nat /\ T - 1 < T
  BY ThresholdAssumption
<1>2. /\ coeffs \in [1 .. KeyLen -> AnyDraw]
      /\ \A d \in D : coeffs[j][d] \in Field /\ coeffs[j][d] # 0
  BY DEF Draw, AnyDraw
<1>3. Points(S)
  BY <1>2, SharesProperties
<1>4. PICK z \in Vanishing(S, T - 1) : TRUE
  <2> DEFINE n == T - 1
  <2>1. n \in Nat /\ n < SHAMIR_THRESHOLD /\ Cardinality(S) = n /\ S \in SUBSET S
    BY <1>1
  <2> HIDE DEF n
  <2>2. Vanishing(S, n) # {}
    BY <1>3, <2>1, VanishingAtAll
  <2> QED BY <2>2 DEF n
<1>5. \A d \in D : z[d + 1] \in Int
  <2>1. z \in [1 .. T -> Field] /\ \A d \in D : d + 1 \in 1 .. T
    BY <1>1 DEF Vanishing
  <2> QED BY <2>1, FieldType
<1> DEFINE Gone(v, d) == Moved(key, coeffs, z, j, v, d) = 0
<1>6. ASSUME NEW v \in X PROVE \E d \in D : Gone(v, d)
  <2>1. PICK c \in AnyDraw : /\ \A s \in S : ShareAt(v, c, s[1]) = s[j + 1]
                           /\ \A d \in D : c[d] = Moved(key, coeffs, z, j, v, d)
    BY <1>2, MovedFitsTheShares
  <2>2. c \notin Draw
    BY <2>1 DEF Fits
  <2>3. c \in [D -> Field] /\ c \notin [D -> Field \ {0}]
    BY <2>1, <2>2 DEF AnyDraw, Draw
  <2>4. PICK d \in D : c[d] = 0
    BY <2>3
  <2> QED BY <2>1, <2>4
<1>7. ASSUME NEW v \in Field, NEW w \in Field, NEW d \in D, Gone(v, d), Gone(w, d)
      PROVE  v = w
  <2> DEFINE a == coeffs[j][d]
             y == z[d + 1]
             k == key[j]
  <2>1. a \in Field /\ a # 0 /\ y \in Int /\ k \in Int
    BY <1>2, <1>5, FieldType DEF Key
  <2>2. (a + (v - k) * y) % Prime = 0 /\ (a + (w - k) * y) % Prime = 0
    BY <1>7 DEF Moved
  <2> HIDE DEF a, y, k
  <2> QED BY <2>1, <2>2, ZeroForOneSymbol
<1> HIDE DEF Gone
<1> DEFINE f == [v \in X |-> CHOOSE d \in D : Gone(v, d)]
<1>8. ASSUME NEW v \in X PROVE f[v] \in D /\ Gone(v, f[v])
  BY <1>6
<1>9. f \in [X -> D]
  BY <1>6
<1>10. f \in Injection(X, D)
  <2> HIDE DEF f
  <2>1. ASSUME NEW v \in X, NEW w \in X, f[v] = f[w] PROVE v = w
    BY <1>7, <1>8, <2>1
  <2> QED BY <1>9, <2>1 DEF Injection, IsInjective
<1>11. IsFiniteSet(D) /\ Cardinality(D) = T - 1
  BY <1>1, FS_Interval
<1> HIDE DEF f, X, D
<1>12. IsFiniteSet(X) /\ Cardinality(X) <= Cardinality(D)
  BY <1>10, <1>11, FS_Injection
<1>13. Cardinality(X) \in Nat
  BY <1>12, FS_CardinalityType
<1>14. Cardinality(X) < T
  BY <1>1, <1>11, <1>12, <1>13
<1> QED BY <1>14 DEF X
=============================================================================
