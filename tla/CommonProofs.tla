---------------------------- MODULE CommonProofs ----------------------------
(***************************************************************************)
(* Facts about numbers and finite sets that the proofs about the assembler *)
(* and those about assembled scripts both need.                            *)
(***************************************************************************)
EXTENDS Macro, FiniteSetTheorems, FunctionTheorems, SequenceTheorems, TLAPS

---------------------------------------------------------------------------
(* Six chunks make a word *)

LEMMA Division ==
  ASSUME NEW x \in Nat, NEW y \in Nat, 0 < y
  PROVE  /\ x \div y \in Nat /\ x % y \in 0..(y - 1)
         /\ x = (x \div y) * y + (x % y)
         /\ x \div y <= x /\ (x \div y) * y <= x
<1>1. x \div y \in Nat /\ x % y \in 0..(y - 1) /\ x = (x \div y) * y + (x % y)
  OBVIOUS
<1> DEFINE q == x \div y
<1> HIDE DEF q
<1>2. q \in Nat => q <= q * y
  OBVIOUS
<1> QED
  BY <1>1, <1>2 DEF q

LEMMA Remainder ==
  ASSUME NEW p \in Nat, NEW n \in Nat, NEW y \in 0..(n - 1)
  PROVE  (n * p + y) % n = y
<1> DEFINE x == n * p + y
           q == x \div n
           m == x % n
<1>1. x \in Nat /\ 0 < n
  OBVIOUS
<1>2. q \in Nat /\ m \in 0..(n - 1) /\ x = q * n + m
  BY <1>1, Division
<1>3. n * p + y = n * q + m
  BY <1>2
<1> HIDE DEF x, q, m
<1>4. CASE q = p
  BY <1>2, <1>3, <1>4 DEF x, m
<1>5. CASE q < p
  <2>1. PICK i \in Nat : p = q + 1 + i
    <3>1. p - q - 1 \in Nat /\ p = q + 1 + (p - q - 1)
      BY <1>2, <1>5
    <3> QED
      BY <3>1
  <2>2. n * p = n * q + n + n * i /\ n * i \in Nat /\ n * q \in Nat
    BY <1>2, <2>1
  <2> QED
    BY <1>2, <1>3, <2>2
<1>6. CASE p < q
  <2>1. PICK i \in Nat : q = p + 1 + i
    <3>1. q - p - 1 \in Nat /\ q = p + 1 + (q - p - 1)
      BY <1>2, <1>6
    <3> QED
      BY <3>1
  <2>2. n * q = n * p + n + n * i /\ n * i \in Nat /\ n * p \in Nat
    BY <1>2, <2>1
  <2> QED
    BY <1>2, <1>3, <2>2
<1> QED
  BY <1>2, <1>4, <1>5, <1>6

\* Division by the same number keeps an order.
LEMMA QuotientOrder ==
  ASSUME NEW x \in Nat, NEW z \in Nat, x <= z, NEW y \in Nat, 0 < y
  PROVE  x \div y <= z \div y
<1> DEFINE p == x \div y
           q == z \div y
<1>1. p \in Nat /\ q \in Nat /\ p * y <= x /\ z < q * y + y
  BY Division
<1> HIDE DEF p, q
<1>2. p * y < (q + 1) * y
  BY <1>1
<1>3. p < q + 1
  BY <1>1, <1>2
<1> QED
  BY <1>1, <1>3 DEF p, q

\* What is left of a word above its lowest chunk, and above each of the others.
rest0(v) == v \div LOW
rest1(v) == rest0(v) \div IMM
rest2(v) == rest1(v) \div IMM
rest3(v) == rest2(v) \div IMM
rest4(v) == rest3(v) \div IMM

LEMMA Chunks ==
  ASSUME NEW v \in 0..(WORD - 1)
  PROVE  /\ {rest0(v), rest1(v), rest2(v), rest3(v), rest4(v)} \subseteq 0..(WORD - 1)
         /\ rest4(v) % IMM = rest4(v)
<1>1. /\ WORD \in Nat /\ IMM \in Nat /\ 0 < IMM /\ LOW \in Nat /\ 0 < LOW
      /\ WORD - 1 \in 0..(WORD - 1)
  BY WidthAssumption, ChunkAssumption
<1>2. \A x \in 0..(WORD - 1) : \A y \in {IMM, LOW} :
        /\ x \div y \in 0..(WORD - 1)
        /\ x \div y <= (WORD - 1) \div y
  <2> SUFFICES ASSUME NEW x \in 0..(WORD - 1), NEW y \in {IMM, LOW}
               PROVE  x \div y \in 0..(WORD - 1) /\ x \div y <= (WORD - 1) \div y
    OBVIOUS
  <2>1. x \in Nat /\ x <= WORD - 1 /\ WORD - 1 \in Nat /\ y \in Nat /\ 0 < y
    BY <1>1
  <2>2. x \div y \in Nat /\ x \div y <= x /\ x \div y <= (WORD - 1) \div y
    BY <2>1, Division, QuotientOrder
  <2> QED
    BY <2>1, <2>2
<1>3. \A x \in 0..(WORD - 1) :
        /\ {rest0(x), rest1(x), rest2(x), rest3(x), rest4(x)} \subseteq 0..(WORD - 1)
  BY <1>2 DEF rest0, rest1, rest2, rest3, rest4
<1>4. \A x, z \in 0..(WORD - 1) : \A y \in {IMM, LOW} : x <= z => x \div y <= z \div y
  <2> SUFFICES ASSUME NEW x \in 0..(WORD - 1), NEW z \in 0..(WORD - 1), NEW y \in {IMM, LOW}, x <= z
               PROVE  x \div y <= z \div y
    OBVIOUS
  <2>1. x \in Nat /\ z \in Nat /\ y \in Nat /\ 0 < y
    BY <1>1
  <2> QED
    BY <2>1, QuotientOrder
<1>5. rest0(v) <= rest0(WORD - 1)
  BY <1>1, <1>4 DEF rest0
<1>6. rest1(v) <= rest1(WORD - 1)
  BY <1>1, <1>3, <1>4, <1>5 DEF rest1
<1>7. rest2(v) <= rest2(WORD - 1)
  BY <1>1, <1>3, <1>4, <1>6 DEF rest2
<1>8. rest3(v) <= rest3(WORD - 1)
  BY <1>1, <1>3, <1>4, <1>7 DEF rest3
<1>9. rest4(v) <= rest4(WORD - 1)
  BY <1>1, <1>3, <1>4, <1>8 DEF rest4
<1>10. rest4(WORD - 1) < IMM
  BY LdAssumption DEF rest4, rest3, rest2, rest1, rest0
<1>11. rest4(v) \in Nat /\ rest4(v) < IMM
  BY <1>1, <1>3, <1>9, <1>10
<1>12. rest4(v) % IMM = rest4(v)
  <2> DEFINE x == rest4(v)
  <2>1. x \in Nat /\ x < IMM
    BY <1>11
  <2> HIDE DEF x
  <2>2. x % IMM = x
    BY <1>1, <2>1
  <2> QED
    BY <2>2 DEF x
<1> QED
  BY <1>3, <1>12

---------------------------------------------------------------------------
(* Least elements, and counts *)

\* A set of naturals has a least element.
LEMMA Least ==
  ASSUME NEW S \in SUBSET Nat, S # {}
  PROVE  \E n \in S : \A m \in S : n <= m
<1> DEFINE R == StrictSubsetOrdering(Nat)
           T == {1..n : n \in S}
<1>1. IsWellFoundedOn(R, FiniteSubsetsOf(Nat))
  BY FS_StrictSubsetOrderingWellFounded
<1>2. \A n \in S : 1..n \in FiniteSubsetsOf(Nat)
  <2> SUFFICES ASSUME NEW n \in S PROVE 1..n \in FiniteSubsetsOf(Nat)
    OBVIOUS
  <2>1. IsFiniteSet(1..n)
    BY FS_Interval
  <2> QED
    BY <2>1 DEF FiniteSubsetsOf
<1>3. T \subseteq FiniteSubsetsOf(Nat) /\ T # {}
  BY <1>2
<1> HIDE DEF R
<1>4. PICK x \in T : \A y \in T : <<y, x>> \notin R
  <2> HIDE DEF T
  <2> QED
    BY <1>1, <1>3, WFMin
<1>5. PICK n \in S : x = 1..n
  BY <1>4
<1>6. ASSUME NEW m \in S, m < n
      PROVE  <<1..m, 1..n>> \in R
  <2>1. 1..m \subseteq 1..n
    BY <1>6
  <2>2. n \in 1..n /\ n \notin 1..m
    BY <1>6
  <2>3. 1..m # 1..n
    BY <2>2
  <2>4. 1..m \in SUBSET Nat /\ 1..n \in SUBSET Nat
    OBVIOUS
  <2> QED
    BY <2>1, <2>3, <2>4 DEF R, StrictSubsetOrdering
<1>7. \A m \in S : ~(m < n)
  BY <1>4, <1>5, <1>6
<1>8. n \in Nat /\ \A m \in S : m \in Nat
  OBVIOUS
<1> QED
  BY <1>7, <1>8

\* The sizes of intervals, and of products with them.
LEMMA IntervalSize ==
  \A n \in Nat : IsFiniteSet(1..n) /\ Cardinality(1..n) = n
<1> SUFFICES ASSUME NEW n \in Nat PROVE IsFiniteSet(1..n) /\ Cardinality(1..n) = n
  OBVIOUS
<1>1. IsFiniteSet(1..n) /\ Cardinality(1..n) = IF 1 > n THEN 0 ELSE n - 1 + 1
  <2>1. n \in Int /\ 1 \in Int
    OBVIOUS
  <2> QED
    BY ONLY <2>1, FS_Interval
<1> QED
  BY <1>1

LEMMA ProductSize ==
  \A S, T : IsFiniteSet(S) /\ IsFiniteSet(T) =>
             IsFiniteSet(S \X T) /\ Cardinality(S \X T) = Cardinality(S) * Cardinality(T)
  BY FS_Product, Zenon

\* What a function makes of a finite set is finite.
LEMMA FiniteRange ==
  \A D, T : \A f \in [D -> T] : IsFiniteSet(D) => IsFiniteSet({f[x] : x \in D})
<1> SUFFICES ASSUME NEW D, NEW T, NEW f \in [D -> T], IsFiniteSet(D)
             PROVE  IsFiniteSet({f[x] : x \in D})
  OBVIOUS
<1> DEFINE R == {f[x] : x \in D}
<1>1. f \in [D -> R] /\ \A y \in R : \E x \in D : f[x] = y
  OBVIOUS
<1> HIDE DEF R
<1>2. f \in Surjection(D, R)
  BY <1>1, Fun_IsSurj
<1>3. IsFiniteSet(R)
  BY <1>2, FS_Surjection
<1> QED
  BY <1>3 DEF R

---------------------------------------------------------------------------
(* Prefix sums, as the sizes of sets *)

\* Entry k has w[k] words.
wordsUpTo(w, n) == UNION {{k} \X (1..w[k]) : k \in 1..n}

LEMMA WordsUpTo ==
  ASSUME NEW w, \A k \in Nat : w[k] \in 0..12
  PROVE  /\ Cardinality(wordsUpTo(w, 0)) = 0
         /\ \A n \in Nat : /\ IsFiniteSet(wordsUpTo(w, n))
                           /\ Cardinality(wordsUpTo(w, n)) \in Nat
                           /\ Cardinality(wordsUpTo(w, n + 1)) = Cardinality(wordsUpTo(w, n)) + w[n + 1]
<1> DEFINE of(k)    == {k} \X (1..w[k])
           upTo(n)  == UNION {of(k) : k \in 1..n}
<1>1. \A n : wordsUpTo(w, n) = upTo(n)
  BY DEF wordsUpTo
<1>2. upTo(0) = {}
  <2>1. 1..0 = {}
    OBVIOUS
  <2> QED
    BY <2>1
<1>3. \A n \in Nat : IsFiniteSet(upTo(n))
  <2> SUFFICES ASSUME NEW n \in Nat PROVE IsFiniteSet(upTo(n))
    OBVIOUS
  <2>1. IsFiniteSet(1..n) /\ IsFiniteSet(1..12)
    BY IntervalSize
  <2>2. IsFiniteSet((1..n) \X (1..12))
    BY <2>1, ProductSize
  <2>3. \A k \in 1..n : 1..w[k] \subseteq 1..12
    <3> SUFFICES ASSUME NEW k \in 1..n PROVE 1..w[k] \subseteq 1..12
      OBVIOUS
    <3>1. w[k] \in 0..12
      OBVIOUS
    <3> QED
      BY <3>1
  <2>4. upTo(n) \subseteq (1..n) \X (1..12)
    <3> SUFFICES ASSUME NEW p \in upTo(n) PROVE p \in (1..n) \X (1..12)
      OBVIOUS
    <3>1. PICK k \in 1..n : p \in of(k)
      OBVIOUS
    <3>2. p \in {k} \X (1..w[k])
      BY <3>1
    <3> QED
      BY <2>3, <3>2
  <2> HIDE DEF upTo
  <2> QED
    BY <2>2, <2>4, FS_Subset
<1>4. \A n \in Nat : /\ upTo(n + 1) = upTo(n) \cup of(n + 1)
                     /\ upTo(n) \cap of(n + 1) = {}
  <2> SUFFICES ASSUME NEW n \in Nat
               PROVE  /\ upTo(n + 1) = upTo(n) \cup of(n + 1)
                      /\ upTo(n) \cap of(n + 1) = {}
    OBVIOUS
  <2>1. 1..(n + 1) = 1..n \cup {n + 1} /\ n + 1 \notin 1..n
    OBVIOUS
  <2>2. upTo(n + 1) = upTo(n) \cup of(n + 1)
    <3> HIDE DEF of
    <3> QED
      BY <2>1, Zenon
  <2>3. \A k \in 1..n : of(k) \cap of(n + 1) = {}
    BY <2>1
  <2> QED
    <3> HIDE DEF of
    <3> QED
      BY <2>2, <2>3
<1>5. \A n \in Nat : IsFiniteSet(of(n + 1)) /\ Cardinality(of(n + 1)) = w[n + 1]
  <2> SUFFICES ASSUME NEW n \in Nat
               PROVE  IsFiniteSet(of(n + 1)) /\ Cardinality(of(n + 1)) = w[n + 1]
    OBVIOUS
  <2> DEFINE size == w[n + 1]
  <2>1. size \in 0..12
    OBVIOUS
  <2> HIDE DEF size
  <2>2. IsFiniteSet({n + 1}) /\ Cardinality({n + 1}) = 1
    BY FS_Singleton
  <2>3. IsFiniteSet(1..size) /\ Cardinality(1..size) = size
    BY <2>1, IntervalSize
  <2>4. IsFiniteSet({n + 1} \X (1..size)) /\ Cardinality({n + 1} \X (1..size)) = 1 * size
    <3> DEFINE A == {n + 1}
               B == 1..size
    <3> HIDE DEF A, B
    <3>1. IsFiniteSet(A) /\ Cardinality(A) = 1 /\ IsFiniteSet(B) /\ Cardinality(B) = size
      BY <2>2, <2>3 DEF A, B
    <3>2. IsFiniteSet(A \X B) /\ Cardinality(A \X B) = 1 * size
      BY <3>1, ProductSize
    <3> QED
      BY <3>2 DEF A, B
  <2> QED
    BY <2>1, <2>4 DEF size
<1> HIDE DEF of, upTo
<1>6. \A n \in Nat : Cardinality(upTo(n)) \in Nat
  BY <1>3, FS_CardinalityType
<1>7. \A n \in Nat : Cardinality(upTo(n + 1)) = Cardinality(upTo(n)) + w[n + 1]
  <2> SUFFICES ASSUME NEW n \in Nat
               PROVE  Cardinality(upTo(n + 1)) = Cardinality(upTo(n)) + w[n + 1]
    OBVIOUS
  <2>1. IsFiniteSet(upTo(n)) /\ IsFiniteSet(of(n + 1))
    BY <1>3, <1>5
  <2>2. Cardinality(upTo(n) \cup of(n + 1)) =
          Cardinality(upTo(n)) + Cardinality(of(n + 1)) - Cardinality(upTo(n) \cap of(n + 1))
    BY <2>1, FS_Union
  <2>3. Cardinality({}) = 0
    BY FS_EmptySet
  <2>4. w[n + 1] \in 0..12
    OBVIOUS
  <2>5. Cardinality(upTo(n) \cup of(n + 1)) = Cardinality(upTo(n)) + w[n + 1] - 0
    BY <2>2, <2>3, <1>4, <1>5
  <2>6. Cardinality(upTo(n)) \in Nat /\ upTo(n + 1) = upTo(n) \cup of(n + 1)
    BY <1>4, <1>6
  <2> DEFINE c == Cardinality(upTo(n))
             size == w[n + 1]
  <2> HIDE DEF c, size
  <2>7. Cardinality(upTo(n) \cup of(n + 1)) = c + size
    <3>1. c \in Nat /\ size \in Nat /\ Cardinality(upTo(n) \cup of(n + 1)) = c + size - 0
      BY <2>4, <2>5, <2>6 DEF c, size
    <3> QED
      BY <3>1
  <2> QED
    BY <2>6, <2>7 DEF c, size
<1> QED
  BY <1>1, <1>2, <1>3, <1>6, <1>7, FS_EmptySet

\* They never shrink, and grow only with an entry that has words.
LEMMA WordsOrder ==
  ASSUME NEW w, \A k \in Nat : w[k] \in 0..12, NEW m \in Nat, NEW n \in Nat, m <= n
  PROVE  /\ Cardinality(wordsUpTo(w, m)) <= Cardinality(wordsUpTo(w, n))
         /\ (\A k \in (m + 1)..n : w[k] = 0) => wordsUpTo(w, m) = wordsUpTo(w, n)
<1>1. 1..m \subseteq 1..n
  OBVIOUS
<1>2. wordsUpTo(w, m) \subseteq wordsUpTo(w, n)
  BY <1>1, Zenon DEF wordsUpTo
<1>3. Cardinality(wordsUpTo(w, m)) <= Cardinality(wordsUpTo(w, n))
  BY <1>2, WordsUpTo, FS_Subset
<1>4. ASSUME \A k \in (m + 1)..n : w[k] = 0
      PROVE  wordsUpTo(w, n) \subseteq wordsUpTo(w, m)
  <2> SUFFICES ASSUME NEW k \in 1..n, NEW p \in {k} \X (1..w[k]) PROVE p \in wordsUpTo(w, m)
    BY DEF wordsUpTo
  <2>1. w[k] # 0
    <3>1. p[2] \in 1..w[k] /\ 1..0 = {}
      OBVIOUS
    <3> QED
      BY <3>1
  <2>2. k \in 1..m
    BY <1>4, <2>1
  <2> QED
    BY <2>2 DEF wordsUpTo
<1> QED
  BY <1>2, <1>3, <1>4

\* The members of a set up to n.
countUpTo(D, n) == Cardinality({k \in 1..n : k \in D})

LEMMA CountUpTo ==
  ASSUME NEW D
  PROVE  /\ countUpTo(D, 0) = 0
         /\ \A n \in Nat : /\ countUpTo(D, n) \in Nat
                           /\ n + 1 \in D => countUpTo(D, n + 1) = countUpTo(D, n) + 1
                           /\ n + 1 \notin D => countUpTo(D, n + 1) = countUpTo(D, n)
<1> DEFINE upTo(n) == {k \in 1..n : k \in D}
<1>1. upTo(0) = {}
  OBVIOUS
<1>2. \A n \in Nat : IsFiniteSet(upTo(n))
  <2> SUFFICES ASSUME NEW n \in Nat PROVE IsFiniteSet(upTo(n))
    OBVIOUS
  <2>1. IsFiniteSet(1..n)
    BY FS_Interval
  <2>2. upTo(n) \in SUBSET (1..n)
    OBVIOUS
  <2> HIDE DEF upTo
  <2> QED
    BY <2>1, <2>2, FS_Subset
<1>3. \A n \in Nat : /\ n + 1 \in D => upTo(n + 1) = upTo(n) \cup {n + 1}
                     /\ n + 1 \notin D => upTo(n + 1) = upTo(n)
                     /\ n + 1 \notin upTo(n)
  OBVIOUS
<1>4. \A n : countUpTo(D, n) = Cardinality(upTo(n))
  BY DEF countUpTo
<1> HIDE DEF upTo
<1>5. \A n \in Nat : Cardinality(upTo(n)) \in Nat
  BY <1>2, FS_CardinalityType
<1>6. \A n \in Nat : Cardinality(upTo(n) \cup {n + 1}) = Cardinality(upTo(n)) + 1
  BY <1>2, <1>3, FS_AddElement
<1>7. countUpTo(D, 0) = 0
  BY <1>1, <1>4, FS_EmptySet
<1>8. ASSUME NEW n \in Nat
      PROVE  /\ n + 1 \in D => countUpTo(D, n + 1) = countUpTo(D, n) + 1
             /\ n + 1 \notin D => countUpTo(D, n + 1) = countUpTo(D, n)
  <2>1. /\ countUpTo(D, n + 1) = Cardinality(upTo(n + 1)) /\ countUpTo(D, n) = Cardinality(upTo(n))
        /\ Cardinality(upTo(n) \cup {n + 1}) = Cardinality(upTo(n)) + 1
    BY <1>4, <1>6
  <2>2. n + 1 \in D => upTo(n + 1) = upTo(n) \cup {n + 1}
    BY <1>3
  <2>3. n + 1 \notin D => upTo(n + 1) = upTo(n)
    BY <1>3
  <2> QED
    BY <2>1, <2>2, <2>3, Zenon
<1>9. ASSUME NEW n \in Nat PROVE countUpTo(D, n) \in Nat
  BY <1>4, <1>5
<1> QED
  <2>1. ASSUME NEW n \in Nat
        PROVE  /\ countUpTo(D, n) \in Nat
               /\ n + 1 \in D => countUpTo(D, n + 1) = countUpTo(D, n) + 1
               /\ n + 1 \notin D => countUpTo(D, n + 1) = countUpTo(D, n)
    BY <1>8, <1>9
  <2> QED
    BY <1>7, <2>1

LEMMA CountOrder ==
  ASSUME NEW D, NEW m \in Nat, NEW n \in Nat, m <= n
  PROVE  countUpTo(D, m) <= countUpTo(D, n)
<1> DEFINE upTo(k) == {j \in 1..k : j \in D}
<1>1. upTo(m) \subseteq upTo(n) /\ upTo(n) \in SUBSET (1..n)
  OBVIOUS
<1>2. IsFiniteSet(1..n)
  BY FS_Interval
<1> HIDE DEF upTo
<1>3. Cardinality(upTo(m)) <= Cardinality(upTo(n))
  BY <1>1, <1>2, FS_Subset
<1> QED
  BY <1>3 DEF countUpTo, upTo

\* A finite set as a sequence: every element has a place.
listOf(S) == CHOOSE f \in [1..Cardinality(S) -> S] : \A a, b \in DOMAIN f : f[a] = f[b] => a = b

LEMMA Listing ==
  ASSUME NEW S, IsFiniteSet(S)
  PROVE  listOf(S) \in Seq(S) /\ \A s \in S : \E n \in DOMAIN listOf(S) : listOf(S)[n] = s
<1> DEFINE size == Cardinality(S)
           f    == listOf(S)
<1>1. size \in Nat /\ ExistsBijection(1..size, S)
  BY FS_CardinalityType
<1>2. PICK g \in Bijection(1..size, S) : TRUE
  BY <1>1 DEF ExistsBijection
<1>3. g \in [1..size -> S] /\ \A a, b \in 1..size : g[a] = g[b] => a = b
  BY <1>2, Fun_BijectionProperties
<1> DEFINE one(h) == \A a, b \in DOMAIN h : h[a] = h[b] => a = b
<1>4. f = CHOOSE h \in [1..size -> S] : one(h)
  BY DEF listOf
<1>11. one(g)
  BY <1>3
<1> HIDE DEF size, f, one
<1>12. f \in [1..size -> S] /\ one(f)
  BY <1>3, <1>4, <1>11
<1>5. f \in [1..size -> S] /\ \A a, b \in DOMAIN f : f[a] = f[b] => a = b
  BY <1>12 DEF one
<1>6. f \in Injection(1..size, S)
  BY <1>5, Fun_IsInj
<1>7. IsFiniteSet(1..size) /\ Cardinality(1..size) = size
  BY <1>1, IntervalSize
<1>8. f \in Surjection(1..size, S)
  BY <1>6, <1>7, FS_Injection DEF size
<1>9. \A s \in S : \E n \in 1..size : f[n] = s
  BY <1>8 DEF Surjection
<1>10. f \in Seq(S) /\ DOMAIN f = 1..size
  BY <1>1, <1>5
<1> QED
  BY <1>9, <1>10 DEF f

\* A part of a sequence.
LEMMA PartOf ==
  ASSUME NEW S, NEW s \in Seq(S), NEW a \in Nat, NEW b \in Nat, a + b <= Len(s)
  PROVE  /\ Len(SubSeq(s, a + 1, a + b)) = b
         /\ \A n \in 1..b : SubSeq(s, a + 1, a + b)[n] = s[a + n]
<1>1. a + 1 \in 1..(Len(s) + 1) /\ a + b \in ((a + 1) - 1)..Len(s)
  OBVIOUS
<1>2. /\ Len(SubSeq(s, a + 1, a + b)) = (a + b) - (a + 1) + 1
      /\ \A n \in 1..((a + b) - (a + 1) + 1) :
           SubSeq(s, a + 1, a + b)[n] = s[(a + 1) + n - 1]
  BY <1>1, SubSeqProperties
<1>3. (a + b) - (a + 1) + 1 = b
  OBVIOUS
<1>4. \A n \in 1..b : (a + 1) + n - 1 = a + n
  OBVIOUS
<1> QED
  BY <1>2, <1>3, <1>4
=============================================================================
