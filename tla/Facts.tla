------------------------------- MODULE Facts --------------------------------
(***************************************************************************)
(* Facts about numbers and sets that the proofs about several components   *)
(* rest on.                                                                *)
(***************************************************************************)
EXTENDS Integers, FiniteSets, FiniteSetsExt, WellFoundedInduction, FiniteSetTheorems, TLAPS

\* The lowest of some numbers, which is what the 8259 takes of the lines, and the model's
\* allocators of the free frames.
LEMMA LowestNumber ==
  ASSUME NEW S \in SUBSET Nat, S # {}
  PROVE  Min(S) \in S /\ \A l \in S : Min(S) <= l
<1>1. PICK x \in S : \A y \in S : ~(<<y, x>> \in OpToRel(<, Nat))
  BY NatLessThanWellFounded, WFMin
<1>2. \A y \in S : x <= y
  <2> SUFFICES ASSUME NEW y \in S, y < x PROVE FALSE
    OBVIOUS
  <2>1. <<y, x>> \in Nat \X Nat /\ <<y, x>>[1] = y /\ <<y, x>>[2] = x
    OBVIOUS
  <2>2. <<y, x>> \in OpToRel(<, Nat)
    BY <2>1, Zenon DEF OpToRel
  <2> QED BY <2>2, <1>1
<1> QED
  BY <1>2 DEF Min

\* The highest of finitely many numbers: the end of a memory map, the top of a stack. A smallest
\* set without one would have one when an element is left out, and so have one itself.
LEMMA HighestNumber ==
  ASSUME NEW S \in SUBSET Int, S # {}, IsFiniteSet(S)
  PROVE  Max(S) \in S /\ \A l \in S : l <= Max(S)
<1> DEFINE Has(U) == \E x \in U : \A y \in U : x >= y
           Bad == {U \in SUBSET S : U # {} /\ ~Has(U)}
           Rel == StrictSubsetOrdering(S)
<1>1. IsWellFoundedOn(Rel, SUBSET S)
  BY FS_StrictSubsetOrderingWellFounded, FS_FiniteSubsetsOfFinite
<1>2. ASSUME Bad # {} PROVE FALSE
  <2>1. Bad \subseteq SUBSET S
    OBVIOUS
  <2> HIDE DEF Bad, Rel
  <2>2. PICK U \in Bad : \A V \in Bad : ~(<<V, U>> \in Rel)
    BY <1>1, <1>2, <2>1, WFMin
  <2>3. U \in SUBSET S /\ U # {} /\ ~Has(U)
    BY <2>2 DEF Bad
  <2>4. PICK x \in U : TRUE
    BY <2>3
  <2> DEFINE V == U \ {x}
  <2>5. V \in SUBSET S /\ V \subseteq U /\ V # U
    BY <2>3, <2>4
  <2>6. <<V, U>> \in Rel
    <3>1. <<V, U>> \in (SUBSET S) \X (SUBSET S) /\ <<V, U>>[1] = V /\ <<V, U>>[2] = U
      BY <2>3, <2>5
    <3> QED BY <3>1, <2>5, Zenon DEF Rel, StrictSubsetOrdering
  <2>7. V = {} \/ Has(V)
    BY <2>2, <2>5, <2>6 DEF Bad
  <2>8. CASE V = {}
    <3>1. \A y \in U : y = x /\ x >= y
      BY <2>8, <2>3, <2>4
    <3> QED BY <3>1, <2>3, <2>4
  <2>9. CASE Has(V)
    <3>1. PICK y \in V : \A z \in V : y >= z
      BY <2>9
    <3>2. x \in Int /\ y \in Int /\ U \subseteq Int
      BY <2>3, <2>4, <3>1
    <3>3. CASE x >= y
      <4>1. \A z \in U : x >= z
        BY <3>1, <3>2, <3>3
      <4> QED BY <4>1, <2>3, <2>4
    <3>4. CASE y >= x
      <4>1. \A z \in U : y >= z
        BY <3>1, <3>2, <3>4
      <4> QED BY <4>1, <2>3, <3>1
    <3> QED BY <3>2, <3>3, <3>4
  <2> QED BY <2>7, <2>8, <2>9
<1>3. Has(S)
  BY <1>2
<1>4. Max(S) \in S /\ \A y \in S : Max(S) >= y
  BY <1>3 DEF Max
<1> QED BY <1>4

\* Dividing an address by the size of a page.
LEMMA Quotient ==
  ASSUME NEW a \in Nat, NEW n \in Nat \ {0}
  PROVE  /\ a \div n \in Nat
         /\ n * (a \div n) <= a /\ a < n * (a \div n) + n
  OBVIOUS

\* Addresses in order are in pages in order.
LEMMA QuotientMonotone ==
  ASSUME NEW a \in Nat, NEW b \in Nat, a <= b, NEW n \in Nat \ {0}
  PROVE  a \div n <= b \div n
<1> DEFINE q == a \div n
           r == b \div n
<1>1. q \in Nat /\ r \in Nat /\ n * q <= a /\ b < n * r + n
  BY Quotient
<1> HIDE DEF q, r
<1>2. n * q < n * (r + 1)
  BY <1>1
<1>3. q < r + 1
  <2> SUFFICES ASSUME q >= r + 1 PROVE FALSE
    BY <1>1
  <2>1. PICK k \in Nat : q = r + 1 + k
    BY <1>1
  <2>2. n * q = n * (r + 1) + n * k /\ n * k >= 0
    BY <2>1, <1>1
  <2> QED BY <2>2, <1>2, <1>1
<1>4. q <= r
  BY <1>1, <1>3
<1> QED BY <1>4 DEF q, r

\* Which page an address is in.
LEMMA QuotientIs ==
  ASSUME NEW n \in Nat \ {0}, NEW q \in Nat, NEW r \in 0 .. n - 1
  PROVE  (n * q + r) \div n = q
  OBVIOUS

\* Products with the size of a page are in the order of the pages.
LEMMA ProductMonotone ==
  ASSUME NEW a \in Nat, NEW b \in Nat, a <= b, NEW n \in Nat
  PROVE  n * a <= n * b
<1>1. PICK k \in Nat : b = a + k
  BY DEF Nat
<1>2. n * b = n * a + n * k /\ n * k \in Nat /\ n * a \in Nat
  BY <1>1
<1> QED BY <1>2

\* The addresses below a page's end are those in the pages up to it.
LEMMA QuotientBelow ==
  ASSUME NEW a \in Nat, NEW m \in Nat, NEW n \in Nat \ {0}
  PROVE  a \div n < m <=> a < n * m
<1> DEFINE q == a \div n
<1>1. q \in Nat /\ n * q <= a /\ a < n * q + n
  BY Quotient
<1> HIDE DEF q
<1>2. ASSUME q < m PROVE a < n * m
  <2>1. n * (q + 1) <= n * m
    BY <1>1, <1>2, ProductMonotone
  <2>2. n * (q + 1) = n * q + n
    BY <1>1
  <2> QED BY <1>1, <2>1, <2>2
<1>3. ASSUME m <= q PROVE ~(a < n * m)
  <2>1. n * m <= n * q
    BY <1>1, <1>3, ProductMonotone
  <2> QED BY <1>1, <2>1
<1>4. q < m <=> a < n * m
  BY <1>1, <1>2, <1>3
<1> QED BY <1>4 DEF q

\* A page made of cells: dividing by one size and then by the other.
LEMMA QuotientTwice ==
  ASSUME NEW a \in Nat, NEW m \in Nat \ {0}, NEW n \in Nat \ {0}
  PROVE  a \div (m * n) = (a \div m) \div n
<1> DEFINE x == a \div m
           y == x \div n
<1>1. x \in Nat /\ m * x <= a /\ a < m * x + m
  BY Quotient
<1>2. y \in Nat /\ n * y <= x /\ x < n * y + n
  BY <1>1, Quotient
<1> HIDE DEF x, y
<1>3. m * (n * y) <= m * x /\ m * (x + 1) <= m * (n * y + n)
  BY <1>1, <1>2, ProductMonotone
<1>4. m * (x + 1) = m * x + m /\ m * (n * y + n) = (m * n) * y + m * n /\ m * (n * y) = (m * n) * y
  BY <1>1, <1>2
<1>5. m * n \in Nat \ {0} /\ (m * n) * y \in Nat
  BY <1>2
<1> DEFINE M == m * n
           L == (m * n) * y
<1>6. L \in Nat /\ M \in Nat \ {0} /\ L <= a /\ a < L + M
  <2>1. m * x \in Nat
    BY <1>1
  <2> QED BY <1>1, <1>3, <1>4, <1>5, <2>1
<1>7. L = M * y
  OBVIOUS
<1> HIDE DEF M, L
<1>8. a - L \in 0 .. M - 1 /\ M * y + (a - L) = a
  BY <1>6, <1>7
<1>9. (M * y + (a - L)) \div M = y
  BY <1>2, <1>6, <1>8, QuotientIs
<1> QED BY <1>8, <1>9 DEF M, x, y

\* A number is a multiple of a size when nothing remains.
LEMMA Multiple ==
  ASSUME NEW a \in Nat, NEW n \in Nat \ {0}, a % n = 0
  PROVE  a \div n \in Nat /\ a = n * (a \div n)
  OBVIOUS

\* A number that fits is not changed by wrapping around.
LEMMA SmallRemainder ==
  ASSUME NEW a \in Nat, NEW n \in Nat \ {0}, a < n
  PROVE  a % n = a
  OBVIOUS

\* The size of a block is a positive number.
LEMMA Power == ASSUME NEW n \in Nat PROVE 2^n \in Nat \ {0}
<1>1. IsFiniteSet(1 .. n) /\ Cardinality(1 .. n) = n
  BY FS_Interval
<1>2. IsFiniteSet(SUBSET (1 .. n)) /\ Cardinality(SUBSET (1 .. n)) = 2^n
  BY <1>1, FS_SUBSET
<1>3. SUBSET (1 .. n) # {}
  OBVIOUS
<1> QED BY <1>2, <1>3, FS_CardinalityType, FS_EmptySet

\* Shifting twice: counted as the subsets of a set cut in two.
LEMMA PowerSum == ASSUME NEW a \in Nat, NEW b \in Nat PROVE 2^(a + b) = 2^a * 2^b
<1> DEFINE A == 1 .. a
           B == (a + 1) .. (a + b)
           C == 1 .. (a + b)
           f == [s \in SUBSET C |-> <<s \cap A, s \cap B>>]
<1>1. /\ IsFiniteSet(A) /\ Cardinality(A) = a
      /\ IsFiniteSet(B) /\ Cardinality(B) = b
      /\ IsFiniteSet(C) /\ Cardinality(C) = a + b
  <2>1. a \in Int /\ a + 1 \in Int /\ a + b \in Int /\ 1 \in Int
    OBVIOUS
  <2>2. IsFiniteSet(A) /\ Cardinality(A) = a
    BY <2>1, FS_Interval
  <2>3. IsFiniteSet(B) /\ Cardinality(B) = b
    BY <2>1, FS_Interval
  <2>4. ASSUME NEW m \in Nat PROVE IsFiniteSet(1 .. m) /\ Cardinality(1 .. m) = m
    BY FS_Interval
  <2>5. IsFiniteSet(C) /\ Cardinality(C) = a + b
    BY <2>4
  <2> QED BY <2>2, <2>3, <2>5
<1>2. C = A \cup B /\ A \cap B = {}
  OBVIOUS
<1> HIDE DEF A, B, C
<1>3. /\ IsFiniteSet(SUBSET A) /\ Cardinality(SUBSET A) = 2^a
      /\ IsFiniteSet(SUBSET B) /\ Cardinality(SUBSET B) = 2^b
      /\ IsFiniteSet(SUBSET C) /\ Cardinality(SUBSET C) = 2^(a + b)
  BY <1>1, FS_SUBSET
<1>4. f \in Bijection(SUBSET C, (SUBSET A) \X (SUBSET B))
  <2>1. f \in [SUBSET C -> (SUBSET A) \X (SUBSET B)]
    OBVIOUS
  <2>2. ASSUME NEW s \in SUBSET C, NEW t \in SUBSET C, f[s] = f[t] PROVE s = t
    <3>1. s \cap A = t \cap A /\ s \cap B = t \cap B
      BY <2>2
    <3> QED BY <3>1, <1>2
  <2>3. ASSUME NEW p \in (SUBSET A) \X (SUBSET B) PROVE \E s \in SUBSET C : f[s] = p
    <3>1. PICK u \in SUBSET A, v \in SUBSET B : p = <<u, v>>
      OBVIOUS
    <3>2. u \cup v \in SUBSET C /\ (u \cup v) \cap A = u /\ (u \cup v) \cap B = v
      BY <1>2
    <3> QED BY <3>1, <3>2
  <2> HIDE DEF f
  <2>4. f \in Injection(SUBSET C, (SUBSET A) \X (SUBSET B))
    BY <2>1, <2>2 DEF Injection, IsInjective
  <2>5. f \in Surjection(SUBSET C, (SUBSET A) \X (SUBSET B))
    BY <2>1, <2>3, Zenon DEF Surjection
  <2> QED BY <2>4, <2>5 DEF Bijection
<1>5. Cardinality((SUBSET A) \X (SUBSET B)) = Cardinality(SUBSET C)
  BY <1>3, <1>4, FS_Bijection DEF ExistsBijection
<1>6. Cardinality((SUBSET A) \X (SUBSET B)) = Cardinality(SUBSET A) * Cardinality(SUBSET B)
  BY <1>3, FS_Product
<1> QED BY <1>3, <1>5, <1>6

\* The first powers.
LEMMA FirstPowers == 2^0 = 1 /\ 2^1 = 2
<1>1. IsFiniteSet({}) /\ Cardinality({}) = 0
  BY FS_EmptySet
<1>2. SUBSET {} = {{}} /\ Cardinality(SUBSET {}) = 2^0
  BY <1>1, FS_SUBSET
<1>3. Cardinality({{}}) = 1
  BY FS_Singleton
<1>4. IsFiniteSet({0}) /\ Cardinality({0}) = 1
  BY FS_Singleton
<1>5. Cardinality(SUBSET {0}) = 2^1
  BY <1>4, FS_SUBSET
<1>6. SUBSET {0} = {{}} \cup {{0}}
  OBVIOUS
<1>7. IsFiniteSet({{}}) /\ Cardinality({{}} \cup {{0}}) = Cardinality({{}}) + 1
  BY FS_Singleton, FS_AddElement
<1> QED BY <1>2, <1>3, <1>5, <1>6, <1>7

\* The next order doubles the size.
LEMMA PowerNext == ASSUME NEW n \in Nat PROVE 2^(n + 1) = 2 * 2^n
<1>1. 1 \in Nat
  OBVIOUS
<1>2. 2^(n + 1) = 2^n * 2^1
  BY <1>1, PowerSum, Zenon
<1>3. 2^n \in Nat
  BY Power
<1>4. 2^n * 2^1 = 2^n * 2
  BY FirstPowers, Zenon
<1>5. 2^n * 2 = 2 * 2^n
  BY <1>3
<1> QED BY <1>2, <1>4, <1>5, Zenon

\* Blocks of higher order are larger.
LEMMA PowerMonotone == ASSUME NEW a \in Nat, NEW b \in Nat, a <= b PROVE 2^a <= 2^b
<1>1. PICK k \in Nat : b = a + k
  BY DEF Nat
<1>2. 2^b = 2^a * 2^k /\ 2^a \in Nat /\ 2^k \in Nat \ {0}
  BY <1>1, PowerSum, Power
<1> QED BY <1>2
=============================================================================
