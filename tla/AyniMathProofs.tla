--------------------------- MODULE AyniMathProofs ---------------------------
(* Facts about rounding division and about sums over finite sets. *)
EXTENDS AyniMath, FiniteSetTheorems, TLAPS

\* mulDiv rounds down: it is the largest q with q * d <= x * y.
LEMMA MulDivBounds ==
  ASSUME NEW x \in Nat, NEW y \in Nat, NEW d \in Nat \ {0}
  PROVE  /\ MulDiv(x, y, d) \in Nat
         /\ MulDiv(x, y, d) * d <= x * y
         /\ x * y < (MulDiv(x, y, d) + 1) * d
<1> DEFINE n == x * y
<1>1. n \in Nat  OBVIOUS
<1> HIDE DEF n
<1>2. /\ n \div d \in Nat
      /\ (n \div d) * d <= n
      /\ n < ((n \div d) + 1) * d
  BY <1>1
<1>3. QED  BY <1>2 DEF MulDiv, n

\* A share of at most the whole is at most the whole: the liquidation split
\* collateral * fee_bps / BPS never exceeds the collateral.
LEMMA MulDivShare ==
  ASSUME NEW x \in Nat, NEW d \in Nat \ {0}, NEW y \in 0 .. d
  PROVE  MulDiv(x, y, d) \in 0 .. x
<1>1. x * y <= x * d
  OBVIOUS
<1>2. MulDiv(x, y, d) \in Nat /\ MulDiv(x, y, d) * d <= x * y
  BY MulDivBounds
<1> DEFINE q == MulDiv(x, y, d)
<1>3. q * d <= x * d  BY <1>1, <1>2
<1> HIDE DEF q
<1>4. q \in Nat  BY <1>2 DEF q
<1>5. q <= x
  <2>1. SUFFICES ASSUME q >= x + 1 PROVE FALSE
    BY <1>4
  <2>2. q * d >= (x + 1) * d
    BY <1>4, <2>1
  <2>3. (x + 1) * d = x * d + d
    OBVIOUS
  <2>4. QED  BY <1>3, <2>2, <2>3, <1>4
<1>6. QED  BY <1>4, <1>5 DEF q

\* mulDivUp rounds up: it is at least the quotient, by less than one.
LEMMA MulDivUpBounds ==
  ASSUME NEW x \in Nat, NEW y \in Nat, NEW d \in Nat \ {0}
  PROVE  /\ MulDivUp(x, y, d) \in Nat
         /\ MulDivUp(x, y, d) * d >= x * y
<1> DEFINE n == x * y
<1>1. n \in Nat  OBVIOUS
<1> HIDE DEF n
<1>2. /\ n \div d \in Nat /\ n % d \in 0 .. d - 1
      /\ n % d = n - d * (n \div d)
  BY <1>1
<1>3. n \div d = MulDiv(x, y, d) /\ n % d = (x * y) % d
  BY DEF MulDiv, n
<1> DEFINE q == n \div d
           up == MulDivUp(x, y, d)
<1>4. CASE n % d > 0
  <2>1. up = q + 1
    BY <1>3, <1>4 DEF MulDivUp
  <2>2. (q + 1) * d = d * q + d
    BY <1>2
  <2>3. QED  BY <1>2, <2>1, <2>2 DEF n
<1>5. CASE n % d = 0
  <2>1. up = q
    BY <1>2, <1>3, <1>5 DEF MulDivUp
  <2>2. q * d = d * q
    BY <1>2
  <2>3. QED  BY <1>2, <1>5, <2>1, <2>2 DEF n
<1>6. QED  BY <1>2, <1>4, <1>5

\* Multiplying by a fraction of at least one loses nothing.
LEMMA MulDivGrows ==
  ASSUME NEW x \in Nat, NEW d \in Nat \ {0}, NEW y \in Nat, y >= d
  PROVE  MulDiv(x, y, d) >= x
<1> DEFINE q == MulDiv(x, y, d)
<1>1. q \in Nat /\ x * y < (q + 1) * d
  BY MulDivBounds
<1> HIDE DEF q
<1>2. x * d <= x * y
  OBVIOUS
<1>3. ASSUME q + 1 <= x PROVE FALSE
  <2>1. (q + 1) * d <= x * d
    BY <1>1, <1>3
  <2>2. QED  BY <1>1, <1>2, <2>1
<1>4. QED  BY <1>1, <1>3 DEF q

\* Rounding down does not hurt where there is nothing to round.
LEMMA MulDivExact ==
  ASSUME NEW x \in Nat, NEW d \in Nat \ {0}
  PROVE  MulDiv(x, d, d) = x /\ MulDiv(x, 0, d) = 0
<1>1. MulDiv(x, 0, d) = 0
  <2>1. x * 0 = 0 /\ 0 \div d = 0
    OBVIOUS
  <2>2. QED  BY <2>1 DEF MulDiv
<1>2. MulDiv(x, d, d) = x
  <2> DEFINE q == MulDiv(x, d, d)
  <2>1. q \in Nat /\ q * d <= x * d /\ x * d < (q + 1) * d
    BY MulDivBounds
  <2> HIDE DEF q
  <2>2. q <= x
    <3>1. ASSUME q >= x + 1 PROVE FALSE
      <4>1. q * d >= (x + 1) * d
        BY <2>1, <3>1
      <4>2. (x + 1) * d = x * d + d
        OBVIOUS
      <4>3. QED  BY <2>1, <4>1, <4>2
    <3>2. QED  BY <2>1, <3>1
  <2>3. q >= x
    BY MulDivGrows DEF q
  <2>4. QED  BY <2>1, <2>2, <2>3 DEF q
<1>3. QED  BY <1>1, <1>2
\* What a common positive factor does not change.
LEMMA CancelFactor ==
  ASSUME NEW p \in Int, NEW q \in Int, NEW d \in Nat \ {0}, p * d < q * d
  PROVE  p < q
<1>1. SUFFICES ASSUME q <= p PROVE FALSE
  OBVIOUS
<1>2. q * d <= p * d
  BY <1>1
<1>3. QED  BY <1>2

LEMMA MulDivMonotone ==
  ASSUME NEW a \in Nat, NEW b \in Nat, NEW y \in Nat, NEW z \in Nat, NEW d \in Nat \ {0},
         a <= b, y <= z
  PROVE  MulDiv(a, y, d) <= MulDiv(b, z, d)
<1> DEFINE p == MulDiv(a, y, d)
           q == MulDiv(b, z, d)
<1>1. p \in Nat /\ q \in Nat /\ p * d <= a * y /\ b * z < (q + 1) * d
  BY MulDivBounds
<1> HIDE DEF p, q
<1>2. a * y <= b * y /\ b * y <= b * z
  OBVIOUS
<1>3. p * d < (q + 1) * d
  BY <1>1, <1>2
<1>4. p < q + 1
  BY <1>1, <1>3, CancelFactor
<1>5. QED  BY <1>1, <1>4 DEF p, q

\* Two roundings lose at most one more than a single one.
LEMMA MulDivSum ==
  ASSUME NEW a \in Nat, NEW b \in Nat, NEW y \in Nat, NEW d \in Nat \ {0}
  PROVE  MulDiv(a + b, y, d) - (MulDiv(a, y, d) + MulDiv(b, y, d)) \in 0 .. 1
<1> DEFINE p == MulDiv(a, y, d)
           q == MulDiv(b, y, d)
           r == MulDiv(a + b, y, d)
<1>1. /\ p \in Nat /\ p * d <= a * y /\ a * y < (p + 1) * d
      /\ q \in Nat /\ q * d <= b * y /\ b * y < (q + 1) * d
      /\ r \in Nat /\ r * d <= (a + b) * y /\ (a + b) * y < (r + 1) * d
  <2>1. a + b \in Nat
    OBVIOUS
  <2>2. /\ r \in Nat /\ r * d <= (a + b) * y /\ (a + b) * y < (r + 1) * d
    BY <2>1, MulDivBounds
  <2>3. /\ p \in Nat /\ p * d <= a * y /\ a * y < (p + 1) * d
    BY MulDivBounds
  <2>4. /\ q \in Nat /\ q * d <= b * y /\ b * y < (q + 1) * d
    BY MulDivBounds
  <2> HIDE DEF p, q, r
  <2>5. QED  BY <2>2, <2>3, <2>4
<1> HIDE DEF p, q, r
<1>2. (a + b) * y = a * y + b * y
  OBVIOUS
<1>3. (p + q) * d = p * d + q * d /\ (p + q + 2) * d = (p + 1) * d + (q + 1) * d
  BY <1>1
<1>4. (p + q) * d < (r + 1) * d /\ r * d < (p + q + 2) * d
  BY <1>1, <1>2, <1>3
<1>5. p + q < r + 1
  BY <1>1, <1>4, CancelFactor
<1>6. r < p + q + 2
  BY <1>1, <1>4, CancelFactor
<1>7. r - (p + q) \in 0 .. 1
  BY <1>1, <1>5, <1>6
<1>8. QED  BY <1>7 DEF p, q, r

\* Scaling an amount down and back again loses at most one scaled unit's worth.
LEMMA MulDivBack ==
  ASSUME NEW x \in Nat, NEW y \in Nat \ {0}, NEW d \in Nat \ {0}
  PROVE  x - MulDiv(MulDiv(x, d, y), y, d) \in 0 .. MulDivUp(y, 1, d)
<1> DEFINE s == MulDiv(x, d, y)
           back == MulDiv(s, y, d)
           up == MulDivUp(y, 1, d)
<1>1. s \in Nat /\ s * y <= x * d /\ x * d < (s + 1) * y
  BY MulDivBounds
<1> HIDE DEF s
<1>2. back \in Nat /\ back * d <= s * y /\ s * y < (back + 1) * d
  BY <1>1, MulDivBounds
<1>3. up \in Nat /\ up * d >= y
  BY MulDivUpBounds
<1> HIDE DEF back, up
<1>4. back * d < (x + 1) * d
  <2>1. (x + 1) * d = x * d + d
    OBVIOUS
  <2>2. QED  BY <1>1, <1>2, <2>1
<1>5. x * d < (back + 1 + up) * d
  <2>1. (back + 1 + up) * d = (back + 1) * d + up * d
    BY <1>2, <1>3
  <2>2. (s + 1) * y = s * y + y
    BY <1>1
  <2>3. QED  BY <1>1, <1>2, <1>3, <2>1, <2>2
<1>6. back < x + 1 /\ x < back + 1 + up
  BY <1>2, <1>3, <1>4, <1>5, CancelFactor
<1>7. x - back \in 0 .. up
  BY <1>2, <1>3, <1>6
<1>8. QED  BY <1>7 DEF s, back, up

\* Adding what a value scales to adds no more than the value.
LEMMA MulDivAdd ==
  ASSUME NEW s \in Nat, NEW x \in Nat, NEW y \in Nat \ {0}, NEW d \in Nat \ {0}
  PROVE  MulDiv(s + MulDiv(x, d, y), y, d) <= MulDiv(s, y, d) + x
<1> DEFINE a == MulDiv(x, d, y)
           p == MulDiv(s, y, d)
           q == MulDiv(s + a, y, d)
<1>1. a \in Nat /\ a * y <= x * d
  BY MulDivBounds
<1>2. p \in Nat /\ s * y < (p + 1) * d
  BY MulDivBounds
<1>3. q \in Nat /\ q * d <= (s + a) * y
  <2>1. s + a \in Nat
    BY <1>1
  <2> HIDE DEF a
  <2>2. QED  BY <2>1, MulDivBounds
<1> HIDE DEF a, p, q
<1>4. q * d < (p + 1 + x) * d
  <2>1. (s + a) * y = s * y + a * y
    BY <1>1
  <2>2. (p + 1 + x) * d = (p + 1) * d + x * d
    BY <1>2
  <2>3. /\ s * y \in Int /\ a * y \in Int /\ x * d \in Int
        /\ (p + 1) * d \in Int /\ q * d \in Int
    BY <1>1, <1>2, <1>3
  <2>4. QED  BY <1>1, <1>2, <1>3, <2>1, <2>2, <2>3
<1>5. q < p + 1 + x
  BY <1>2, <1>3, <1>4, CancelFactor
<1>6. QED  BY <1>2, <1>3, <1>5 DEF a, p, q
-----------------------------------------------------------------------------
LEMMA ColumnCardinality ==
  ASSUME NEW S, NEW f \in [S -> Nat], NEW x \in S
  PROVE  IsFiniteSet(Column(f, x)) /\ Cardinality(Column(f, x)) = f[x]
<1>1. IsFiniteSet({x}) /\ Cardinality({x}) = 1
  BY FS_Singleton
<1>2. IsFiniteSet(1 .. f[x]) /\ Cardinality(1 .. f[x]) = f[x]
  BY FS_Interval
<1>3. /\ IsFiniteSet({x} \X (1 .. f[x]))
      /\ Cardinality({x} \X (1 .. f[x])) = Cardinality({x}) * Cardinality(1 .. f[x])
  BY <1>1, <1>2, FS_Product, Zenon
<1>4. 1 * f[x] = f[x]
  OBVIOUS
<1>5. QED
  BY <1>1, <1>2, <1>3, <1>4 DEF Column

\* The points under the graph over a part T of the domain are finitely many.
LEMMA ColumnsFinite ==
  ASSUME NEW S, IsFiniteSet(S), NEW f \in [S -> Nat], NEW T \in SUBSET S
  PROVE  IsFiniteSet(UNION {Column(f, y) : y \in T})
<1> DEFINE C == {Column(f, y) : y \in T}
           g == [y \in T |-> Column(f, y)]
<1>1. IsFiniteSet(T)
  BY FS_Subset
<1>2. g \in Surjection(T, C)
  BY DEF Surjection
<1>3. IsFiniteSet(C)
  BY <1>1, <1>2, FS_Surjection
<1>4. \A K \in C : IsFiniteSet(K)
  BY ColumnCardinality
<1>5. QED
  BY <1>3, <1>4, FS_UNION

LEMMA TotalType ==
  ASSUME NEW S, IsFiniteSet(S), NEW f \in [S -> Nat]
  PROVE  IsFiniteSet(Points(f)) /\ Total(f) \in Nat
BY ColumnsFinite, FS_CardinalityType DEF Points, Total

\* Changing one value of a function changes its total by the difference.
LEMMA TotalUpdate ==
  ASSUME NEW S, IsFiniteSet(S), NEW f \in [S -> Nat], NEW g \in [S -> Nat],
         NEW x \in S, \A y \in S \ {x} : g[y] = f[y]
  PROVE  Total(g) = Total(f) - f[x] + g[x]
<1> DEFINE Rest(h) == UNION {Column(h, y) : y \in S \ {x}}
<1>1. ASSUME NEW h \in [S -> Nat]
      PROVE  /\ IsFiniteSet(Rest(h))
             /\ Cardinality(Rest(h)) \in Nat
             /\ Total(h) = Cardinality(Rest(h)) + h[x]
  <2>1. IsFiniteSet(Rest(h)) /\ Cardinality(Rest(h)) \in Nat
    BY ColumnsFinite, FS_CardinalityType
  <2>2. Points(h) = Rest(h) \cup Column(h, x)
    BY DEF Points
  <2>3. Rest(h) \cap Column(h, x) = {}
    BY DEF Column
  <2>4. IsFiniteSet(Column(h, x)) /\ Cardinality(Column(h, x)) = h[x]
    BY ColumnCardinality
  <2>5. Cardinality(Rest(h) \cup Column(h, x))
          = Cardinality(Rest(h)) + h[x] - Cardinality({})
    BY <2>1, <2>3, <2>4, FS_Union
  <2>6. QED
    BY <2>1, <2>2, <2>5, FS_EmptySet DEF Total
<1>2. Rest(f) = Rest(g)
  BY DEF Column
<1>3. /\ Cardinality(Rest(f)) \in Nat
      /\ Total(f) = Cardinality(Rest(f)) + f[x]
      /\ Total(g) = Cardinality(Rest(f)) + g[x]
  BY <1>1, <1>2, Zenon
<1> HIDE DEF Rest
<1>4. f[x] \in Nat /\ g[x] \in Nat
  OBVIOUS
<1>5. QED
  BY <1>3, <1>4

\* A sum of naturals bounds each of its terms.
LEMMA TotalBoundsTerm ==
  ASSUME NEW S, IsFiniteSet(S), NEW f \in [S -> Nat], NEW x \in S
  PROVE  f[x] <= Total(f)
<1>1. Column(f, x) \in SUBSET Points(f)
  BY DEF Points
<1>2. QED
  BY <1>1, TotalType, ColumnCardinality, FS_Subset DEF Total

LEMMA TotalZero ==
  ASSUME NEW S, NEW f \in [S -> Nat], \A x \in S : f[x] = 0
  PROVE  Total(f) = 0
<1>1. Points(f) = {}
  BY DEF Points, Column
<1>2. QED
  BY <1>1, FS_EmptySet DEF Total

\* Rounding up is monotone too: nothing smaller reaches the quotient.
LEMMA MulDivUpMonotone ==
  ASSUME NEW a \in Nat, NEW b \in Nat, NEW y \in Nat, NEW d \in Nat \ {0}, a <= b
  PROVE  MulDivUp(a, y, d) <= MulDivUp(b, y, d)
<1> DEFINE p == MulDivUp(a, y, d)
           q == MulDivUp(b, y, d)
           n == a * y
<1>1. p \in Nat /\ q \in Nat /\ q * d >= b * y
  BY MulDivUpBounds
<1>2. n \in Nat /\ n <= b * y
  OBVIOUS
<1>3. p = n \div d + IF n % d > 0 THEN 1 ELSE 0
  BY DEF MulDivUp, MulDiv
<1> HIDE DEF p, q, n
<1>4. (p - 1) * d < n
  <2>1. PICK k \in Nat : k = n \div d
    BY <1>2
  <2>2. n % d \in 0 .. d - 1 /\ n % d = n - d * k
    BY <1>2, <2>1
  <2>3. d * k = k * d
    OBVIOUS
  <2>4. CASE n % d > 0
    <3>1. p - 1 = k
      BY <1>3, <2>1, <2>4
    <3>2. k * d < n
      BY <1>2, <2>1, <2>2, <2>3, <2>4
    <3>3. QED  BY <3>1, <3>2
  <2>5. CASE ~(n % d > 0)
    <3>1. p = k /\ k * d = n
      BY <1>2, <1>3, <2>1, <2>2, <2>3, <2>5
    <3>2. (k - 1) * d = k * d - d
      BY <2>1
    <3>3. QED  BY <1>2, <3>1, <3>2
  <2>6. QED  BY <2>4, <2>5
<1>5. (p - 1) * d < q * d
  BY <1>1, <1>2, <1>4
<1>6. p - 1 < q
  BY <1>1, <1>5, CancelFactor
<1>7. QED  BY <1>1, <1>6 DEF p, q
=============================================================================
