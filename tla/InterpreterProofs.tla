-------------------------- MODULE InterpreterProofs --------------------------
(***************************************************************************)
(* What a call of the builtin backend does to memory, and how it ends, for *)
(* words of any width, any number of registers, any configuration and any  *)
(* code.  The invariant (RunInv) is that registers hold words and that     *)
(* memory consists of areas of bytes beside each other; what is shown of   *)
(* every instruction is that the memory it leaves is one that permitted    *)
(* writes can make of the one before it (Rewritten).  Sums of bits and     *)
(* bytes, multiple stores and the harness's writes are folds: each is      *)
(* shown to stay in a set by looking at the smallest subset for which it   *)
(* would not, and a sum of digits below the next power is one such set.    *)
(* Then XER: what the flags say is shown of each instruction from the      *)
(* integers that its words stand for.  Last, what a call reports.          *)
(***************************************************************************)
EXTENDS Interpreter, TLAPS, FiniteSetTheorems, SequenceTheorems

-----------------------------------------------------------------------------
(* Powers, greatest elements and folds *)

\* Every set of naturals has a least element.
LEMMA LeastNat ==
  ASSUME NEW T \in SUBSET Nat, T # {}
  PROVE  \E n \in T : \A m \in T : n <= m
<1> DEFINE R == OpToRel(<, Nat)
<1>1. IsWellFoundedOn(R, Nat)
  BY NatLessThanWellFounded
<1>2. \A x, y \in Nat : y < x => <<y, x>> \in R
  BY DEF OpToRel
<1> HIDE DEF R
<1>3. PICK x \in T : \A y \in T : ~ (<<y, x>> \in R)
  BY <1>1, WFMin
<1>4. x \in Nat /\ \A y \in T : y \in Nat /\ ~(y < x)
  BY <1>2, <1>3
<1> QED BY <1>3, <1>4

\* The greatest element of a bounded set of naturals.
LEMMA MaxInside ==
  ASSUME NEW T \in SUBSET Nat, T # {}, NEW n \in Nat, \A x \in T : x <= n
  PROVE  Max(T) \in T /\ \A x \in T : x <= Max(T)
<1> DEFINE D == {n - x : x \in T}
<1>1. D \in SUBSET Nat /\ D # {}
  <2>1. \A x \in T : n - x \in Nat
    OBVIOUS
  <2> QED BY <2>1
<1>2. PICK d \in D : \A e \in D : d <= e
  <2> HIDE DEF D
  <2> QED BY <1>1, LeastNat
<1>3. PICK x \in T : d = n - x
  OBVIOUS
<1>4. \A y \in T : x >= y
  BY <1>2, <1>3
<1>5. Max(T) \in T /\ \A y \in T : Max(T) >= y
  BY <1>3, <1>4 DEF Max
<1> QED BY <1>5

\* A power of two is how many subsets a set has.
LEMMA Powers == \A n \in Nat : 2 ^ n \in Nat /\ 2 ^ n > 0
<1> SUFFICES ASSUME NEW n \in Nat PROVE 2 ^ n \in Nat /\ 2 ^ n > 0
  OBVIOUS
<1>1. PICK S : IsFiniteSet(S) /\ Cardinality(S) = n
  <2>1. IsFiniteSet(1 .. n) /\ Cardinality(1 .. n) = n
    BY FS_Interval
  <2> QED BY <2>1
<1>2. IsFiniteSet(SUBSET S) /\ Cardinality(SUBSET S) = 2 ^ n
  BY <1>1, FS_SUBSET
<1>3. PICK F : F = SUBSET S
  OBVIOUS
<1>4. Cardinality(F) \in Nat /\ Cardinality(F) # 0
  <2>1. IsFiniteSet(F) /\ F # {}
    BY <1>2, <1>3
  <2> QED BY <2>1, FS_CardinalityType, FS_EmptySet
<1> QED BY <1>2, <1>3, <1>4

\* One more bit doubles a power of two.
LEMMA PowerStep == 2 ^ 0 = 1 /\ \A n \in Nat : 2 ^ (n + 1) = 2 * 2 ^ n
<1>1. 2 ^ 0 = 1
  <2>1. IsFiniteSet({}) /\ Cardinality({}) = 0
    BY FS_EmptySet
  <2>2. Cardinality(SUBSET {}) = 2 ^ 0
    BY <2>1, FS_SUBSET
  <2>3. SUBSET {} = {{}}
    OBVIOUS
  <2>4. Cardinality({{}}) = 1
    BY FS_Singleton
  <2> QED BY <2>2, <2>3, <2>4
<1>2. ASSUME NEW n \in Nat PROVE 2 ^ (n + 1) = 2 * 2 ^ n
  <2>1. PICK S : IsFiniteSet(S) /\ Cardinality(S) = n /\ n + 1 \notin S
    <3>1. IsFiniteSet(1 .. n) /\ Cardinality(1 .. n) = n
      BY FS_Interval
    <3> QED BY <3>1
  <2>2. PICK x : x \notin S
    BY <2>1
  <2>3. PICK T : T = S \cup {x}
    OBVIOUS
  <2>4. IsFiniteSet(T) /\ Cardinality(T) = n + 1
    BY <2>1, <2>2, <2>3, FS_AddElement
  <2>5. /\ IsFiniteSet(SUBSET S) /\ Cardinality(SUBSET S) = 2 ^ n
        /\ IsFiniteSet(SUBSET T) /\ Cardinality(SUBSET T) = 2 ^ (n + 1)
    BY <2>1, <2>4, FS_SUBSET
  <2>6. PICK A : A = SUBSET S
    OBVIOUS
  <2>7. PICK B : B = {s \cup {x} : s \in A}
    OBVIOUS
  <2>8. ExistsBijection(A, B)
    <3> DEFINE F == [s \in A |-> s \cup {x}]
    <3>1. F \in [A -> B] /\ \A t \in B : \E s \in A : F[s] = t
      BY <2>7
    <3>2. \A s, t \in A : F[s] = F[t] => s = t
      <4>1. \A s \in A : s = (s \cup {x}) \ {x}
        BY <2>2, <2>6
      <4> QED BY <4>1, Zenon
    <3>3. F \in Bijection(A, B)
      <4>0. DOMAIN F = A
        OBVIOUS
      <4> HIDE DEF F
      <4> QED BY <3>1, <3>2, <4>0 DEF Bijection, Injection, Surjection, IsInjective
    <3> QED BY <3>3 DEF ExistsBijection
  <2>9. IsFiniteSet(A) /\ Cardinality(A) = 2 ^ n /\ IsFiniteSet(B) /\ Cardinality(B) = 2 ^ n
    BY <2>5, <2>6, <2>8, FS_Bijection
  <2>10. A \cap B = {}
    BY <2>2, <2>6, <2>7
  <2>11. A \cup B = SUBSET T
    <3>1. A \subseteq SUBSET T /\ B \subseteq SUBSET T
      BY <2>3, <2>6, <2>7
    <3>2. ASSUME NEW t \in SUBSET T, x \in t PROVE t \in B
      <4>1. t \ {x} \in A /\ t = (t \ {x}) \cup {x}
        BY <2>3, <2>6, <3>2
      <4> QED BY <2>7, <4>1
    <3>3. ASSUME NEW t \in SUBSET T, x \notin t PROVE t \in A
      BY <2>3, <2>6, <3>3
    <3> QED BY <3>1, <3>2, <3>3
  <2>12. Cardinality(A \cup B) = Cardinality(A) + Cardinality(B) - Cardinality(A \cap B)
    BY <2>9, FS_Union
  <2>13. Cardinality(A \cap B) = 0
    BY <2>10, FS_EmptySet
  <2>14. PICK p \in Nat : p = 2 ^ n
    BY Powers
  <2>15. Cardinality(A \cup B) = 2 ^ (n + 1)
    BY <2>5, <2>11, Zenon
  <2> QED BY <2>9, <2>12, <2>13, <2>14, <2>15
<1> QED BY <1>1, <1>2

\* The power of a sum.
LEMMA PowerSum == \A m, n \in Nat : 2 ^ (m + n) = 2 ^ m * 2 ^ n
<1> SUFFICES ASSUME NEW m \in Nat PROVE \A n \in Nat : 2 ^ (m + n) = 2 ^ m * 2 ^ n
  OBVIOUS
<1> DEFINE N == {n \in Nat : 2 ^ (m + n) # 2 ^ m * 2 ^ n}
<1> SUFFICES ASSUME N # {} PROVE FALSE
  OBVIOUS
<1>1. PICK n \in N : \A k \in N : n <= k
  <2>1. N \in SUBSET Nat
    OBVIOUS
  <2> HIDE DEF N
  <2> QED BY <2>1, LeastNat
<1>2. PICK p \in Nat : p = 2 ^ m
  BY Powers
<1>3. CASE n = 0
  <2>1. m + 0 = m /\ p * 1 = p
    OBVIOUS
  <2>2. 2 ^ (m + 0) = 2 ^ m * 2 ^ 0
    BY <1>2, <2>1, PowerStep
  <2> QED BY <1>3, <2>2
<1>4. CASE n # 0
  <2>1. PICK k \in Nat : n = k + 1
    <3>1. n - 1 \in Nat /\ n = (n - 1) + 1
      BY <1>4
    <3> QED BY <3>1
  <2>2. 2 ^ (m + k) = 2 ^ m * 2 ^ k
    <3>1. k \notin N
      <4> HIDE DEF N
      <4> QED BY <1>1, <2>1
    <3> QED BY <3>1
  <2>3. PICK q \in Nat : q = 2 ^ k
    BY Powers
  <2>4. 2 ^ n = 2 * q
    BY <2>1, <2>3, PowerStep
  <2>5. 2 ^ (m + n) = 2 * (p * q)
    <3>1. m + n = (m + k) + 1 /\ m + k \in Nat
      BY <2>1
    <3> QED BY <1>2, <2>2, <2>3, <3>1, PowerStep
  <2>6. p * (2 * q) = 2 * (p * q)
    OBVIOUS
  <2>7. 2 ^ (m + n) = 2 ^ m * 2 ^ n
    BY <1>2, <2>4, <2>5, <2>6
  <2> QED BY <2>7
<1> QED BY <1>3, <1>4

\* A number is less than its power of two.
LEMMA PowerAbove == \A n \in Nat : n < 2 ^ n
<1> DEFINE N == {n \in Nat : ~(n < 2 ^ n)}
<1> SUFFICES ASSUME N # {} PROVE FALSE
  OBVIOUS
<1>1. PICK n \in N : \A k \in N : n <= k
  <2>1. N \in SUBSET Nat
    OBVIOUS
  <2> HIDE DEF N
  <2> QED BY <2>1, LeastNat
<1>2. CASE n = 0
  BY <1>2, PowerStep
<1>3. CASE n # 0
  <2>1. PICK k \in Nat : n = k + 1
    <3>1. n - 1 \in Nat /\ n = (n - 1) + 1
      BY <1>3
    <3> QED BY <3>1
  <2>2. PICK q \in Nat : q = 2 ^ k /\ q > 0
    BY Powers
  <2>3. k < q
    <3>1. k \notin N
      <4> HIDE DEF N
      <4> QED BY <1>1, <2>1
    <3> QED BY <2>2, <3>1
  <2>4. 2 ^ n = 2 * q
    BY <2>1, <2>2, PowerStep
  <2>5. n < 2 ^ n
    BY <2>1, <2>2, <2>3, <2>4
  <2> QED BY <2>5
<1> QED BY <1>2, <1>3


\* Powers within a word.
LEMMA PowerInside ==
  ASSUME NEW i \in Nat, NEW n \in Nat, i <= n
  PROVE  /\ 2 ^ n = 2 ^ (n - i) * 2 ^ i /\ 2 ^ i <= 2 ^ n /\ 2 ^ i \in Nat /\ 2 ^ i > 0
         /\ 2 ^ (n - i) \in Nat /\ 2 ^ (n - i) > 0
<1>1. PICK k \in Nat : k = n - i /\ n = k + i
  <2>1. n - i \in Nat /\ n = (n - i) + i
    OBVIOUS
  <2> QED BY <2>1
<1>2. PICK p \in Nat : p = 2 ^ i /\ p > 0
  BY Powers
<1>3. PICK q \in Nat : q = 2 ^ k /\ q > 0
  BY Powers
<1>4. 2 ^ n = q * p
  BY <1>1, <1>2, <1>3, PowerSum
<1>5. q * p >= p
  <2>1. PICK j \in Nat : q = j + 1
    <3>1. q - 1 \in Nat /\ q = (q - 1) + 1
      BY <1>3
    <3> QED BY <3>1
  <2>2. q * p = j * p + p /\ j * p \in Nat
    BY <2>1
  <2> QED BY <2>2
<1> QED BY <1>1, <1>2, <1>3, <1>4, <1>5

\* Quotient and remainder, and that a quotient is what its bounds say.
LEMMA DivMod ==
  ASSUME NEW x \in Int, NEW d \in Nat, d > 0
  PROVE  \E q \in Int, r \in 0 .. d - 1 :
           q = x \div d /\ r = x % d /\ x = q * d + r /\ (x >= 0 => q \in Nat)
<1>1. PICK q \in Int : q = x \div d
  OBVIOUS
<1>2. PICK r \in Int : r = x % d /\ 0 <= r /\ r < d
  OBVIOUS
<1>3. x = d * q + r
  BY <1>1, <1>2
<1>4. d * q = q * d
  OBVIOUS
<1>5. x >= 0 => q \in Nat
  BY <1>1
<1>6. r \in 0 .. d - 1 /\ x = q * d + r
  BY <1>2, <1>3, <1>4
<1> QED BY <1>1, <1>2, <1>5, <1>6

LEMMA QuotientIs ==
  ASSUME NEW x \in Int, NEW d \in Nat, d > 0, NEW c \in Int, c * d <= x, x < c * d + d
  PROVE  x \div d = c /\ x % d = x - c * d
<1>1. PICK q \in Int : q = x \div d /\ q * d <= x /\ x < q * d + d
  <2>1. PICK q \in Int, r \in 0 .. d - 1 : q = x \div d /\ x = q * d + r
    BY DivMod
  <2> QED BY <2>1
<1>2. ~(q < c)
  <2> SUFFICES ASSUME q < c PROVE FALSE
    OBVIOUS
  <2>1. PICK k \in Nat : c = q + 1 + k
    <3>1. c - q - 1 \in Nat /\ c = q + 1 + (c - q - 1)
      OBVIOUS
    <3> QED BY <3>1
  <2>2. c * d = q * d + d + k * d /\ k * d \in Nat
    BY <2>1
  <2> QED BY <1>1, <2>2
<1>3. ~(c < q)
  <2> SUFFICES ASSUME c < q PROVE FALSE
    OBVIOUS
  <2>1. PICK k \in Nat : q = c + 1 + k
    <3>1. q - c - 1 \in Nat /\ q = c + 1 + (q - c - 1)
      OBVIOUS
    <3> QED BY <3>1
  <2>2. q * d = c * d + d + k * d /\ k * d \in Nat
    BY <2>1
  <2> QED BY <1>1, <2>2
<1>4. q = c
  BY <1>2, <1>3
<1>5. PICK r \in Int : r = x % d /\ x = q * d + r
  BY <1>1, DivMod
<1>6. PICK p \in Int : p = c * d /\ p = q * d
  BY <1>4
<1> QED BY <1>1, <1>4, <1>5, <1>6

\* Another digit at a place of x, whose base is Q.
LEMMA DigitReplaced ==
  ASSUME NEW P \in Nat, P > 0, NEW Q \in Nat, Q > 0, NEW K \in Nat, NEW x \in 0 .. K * (Q * P) - 1,
         NEW n \in 0 .. Q - 1, NEW d, d = (x \div P) % Q
  PROVE  x + (n - d) * P \in 0 .. K * (Q * P) - 1
<1>1. PICK q \in Int, r \in 0 .. P - 1 : q = x \div P /\ x = q * P + r /\ (x >= 0 => q \in Nat)
  BY DivMod
<1>2. q \in Nat /\ r \in Nat /\ x = q * P + r /\ r < P
  BY <1>1
<1>3. PICK k \in Int, m \in 0 .. Q - 1 : m = q % Q /\ q = k * Q + m /\ (q >= 0 => k \in Nat)
  BY DivMod
<1>4. k \in Nat /\ d \in 0 .. Q - 1 /\ q = k * Q + d
  BY <1>1, <1>2, <1>3
<1>5. PICK w \in Nat : w = Q * P
  OBVIOUS
<1>6. q * P = k * w + d * P /\ d * P \in Nat /\ k * w \in Nat
  BY <1>4, <1>5
<1>7. k < K
  <2> SUFFICES ASSUME K <= k PROVE FALSE
    BY <1>4
  <2>1. PICK j \in Nat : k = K + j
    <3>1. k - K \in Nat /\ k = K + (k - K)
      OBVIOUS
    <3> QED BY <3>1
  <2>2. k * w = K * w + j * w /\ j * w \in Nat /\ K * w \in Nat
    BY <2>1, <1>5
  <2>3. x < K * w
    BY <1>5
  <2> QED BY <1>2, <1>6, <2>2, <2>3
<1>8. K * w >= k * w + w
  <2>1. PICK j \in Nat : K = k + 1 + j
    <3>1. K - k - 1 \in Nat /\ K = k + 1 + (K - k - 1)
      BY <1>7
    <3> QED BY <3>1
  <2>2. K * w = k * w + w + j * w /\ j * w \in Nat
    BY <2>1, <1>5
  <2> QED BY <2>2, <1>6
<1>9. n * P + P <= w /\ n * P \in Nat
  <2>1. PICK j \in Nat : Q = n + 1 + j
    <3>1. Q - n - 1 \in Nat /\ Q = n + 1 + (Q - n - 1)
      OBVIOUS
    <3> QED BY <3>1
  <2>2. w = n * P + P + j * P /\ j * P \in Nat /\ n * P \in Nat
    BY <2>1, <1>5
  <2> QED BY <2>2
<1>10. (n - d) * P = n * P - d * P
  BY <1>4
<1>11. x + (n - d) * P = k * w + n * P + r
  BY <1>2, <1>6, <1>9, <1>10
<1>12. k * w + n * P + r \in 0 .. K * w - 1
  <2>1. PICK a \in Nat : a = k * w
    BY <1>6
  <2>2. PICK b \in Nat : b = n * P
    BY <1>9
  <2>3. PICK c \in Int : c = K * w
    BY <1>5
  <2>4. a + b + r \in 0 .. c - 1
    BY <1>2, <1>8, <1>9, <2>1, <2>2, <2>3
  <2> QED BY <2>1, <2>2, <2>3, <2>4
<1> QED BY <1>5, <1>11, <1>12

\* The smallest member of a family of finite sets.
LEMMA SmallestSet ==
  ASSUME NEW F, F # {}, \A T \in F : IsFiniteSet(T)
  PROVE  \E T \in F : \A U \in F : Cardinality(T) <= Cardinality(U)
<1> DEFINE N == {Cardinality(T) : T \in F}
<1>1. N \in SUBSET Nat /\ N # {}
  BY FS_CardinalityType
<1>2. PICK n \in N : \A m \in N : n <= m
  <2> HIDE DEF N
  <2> QED BY <1>1, LeastNat
<1> QED BY <1>2

\* C names an element of every non-empty subset of S.
Picks(C, S) == \A s \in SUBSET S : s # {} => C[s] \in s

\* What every step of a fold keeps holds of its result.
LEMMA FoldInside ==
  ASSUME NEW S, IsFiniteSet(S), NEW V, NEW C, Picks(C, S), NEW f, f[{}] \in V,
         \A s \in SUBSET S : s # {} /\ f[s \ {C[s]}] \in V => f[s] \in V
  PROVE  f[S] \in V
<1> DEFINE F == {s \in SUBSET S : f[s] \notin V}
<1> SUFFICES ASSUME F # {} PROVE FALSE
  OBVIOUS
<1>1. \A s \in F : IsFiniteSet(s)
  BY FS_Subset
<1>2. PICK T \in F : \A U \in F : Cardinality(T) <= Cardinality(U)
  <2> HIDE DEF F
  <2> QED BY <1>1, SmallestSet
<1>3. T \in SUBSET S /\ T # {} /\ C[T] \in T
  BY DEF Picks
<1>4. PICK x : x = C[T]
  OBVIOUS
<1>5. Cardinality(T \ {x}) = Cardinality(T) - 1 /\ Cardinality(T) \in Nat
  <2> HIDE DEF F
  <2> QED BY <1>1, <1>2, <1>3, <1>4, FS_RemoveElement, FS_CardinalityType
<1>6. T \ {x} \notin F
  <2> HIDE DEF F
  <2> QED BY <1>2, <1>5
<1> QED BY <1>3, <1>4, <1>6

\* f folds the step G over the subsets of S, from b on.
FoldsBy(f, b, G, C, S) ==
  f = [s \in SUBSET S |-> IF s = {} THEN b ELSE G[<<C[s], f[s \ {C[s]}]>>]]

\* There is such a function.
LEMMA FoldExists ==
  ASSUME NEW S, IsFiniteSet(S), NEW V, NEW b \in V, NEW G \in [S \X V -> V],
         NEW C, Picks(C, S)
  PROVE  \E f \in [SUBSET S -> V] : FoldsBy(f, b, G, C, S)
<1> DEFINE D(n) == {s \in SUBSET S : Cardinality(s) <= n}
           Step(f, n) == [s \in D(n) |-> IF s = {} THEN b ELSE G[<<C[s], f[s \ {C[s]}]>>]]
           Ok(n) == \E f \in [D(n) -> V] : f = Step(f, n)
           N == {n \in Nat : ~Ok(n)}
<1>1. \A s \in SUBSET S : IsFiniteSet(s) /\ Cardinality(s) \in Nat
  BY FS_Subset, FS_CardinalityType
<1>3. \A s \in SUBSET S : s # {} => C[s] \in S /\ s \ {C[s]} \in SUBSET S
                            /\ Cardinality(s \ {C[s]}) = Cardinality(s) - 1
  BY <1>1, FS_RemoveElement DEF Picks
<1>4. \A s \in SUBSET S : s # {} => Cardinality(s) # 0
  BY <1>1, FS_EmptySet
<1>5. N = {}
  <2> SUFFICES ASSUME N # {} PROVE FALSE
    OBVIOUS
  <2>1. PICK n \in N : \A m \in N : n <= m
    <3>1. N \in SUBSET Nat
      OBVIOUS
    <3> HIDE DEF N
    <3> QED BY <3>1, LeastNat
  <2>2. n \in Nat /\ ~Ok(n)
    OBVIOUS
  <2>3. CASE n = 0
    <3> DEFINE f == [s \in D(0) |-> b]
    <3>1. \A s \in D(0) : s = {}
      BY <1>1, <1>4
    <3>2. f \in [D(0) -> V] /\ \A s \in D(0) : Step(f, 0)[s] = b
      BY <3>1
    <3>3. f = Step(f, 0)
      BY <3>2
    <3> QED BY <2>2, <2>3, <3>2, <3>3
  <2>4. CASE n # 0
    <3>1. n - 1 \in Nat /\ n - 1 \notin N
      <4> HIDE DEF N, Ok
      <4> QED BY <2>1, <2>2, <2>4
    <3>2. PICK f \in [D(n - 1) -> V] : f = Step(f, n - 1)
      BY <3>1
    <3> DEFINE g == Step(f, n)
    <3>3. \A s \in D(n) : s # {} => s \ {C[s]} \in D(n - 1)
      BY <1>1, <1>3, <2>2
    <3>4. \A s \in D(n) : g[s] \in V
      <4> SUFFICES ASSUME NEW s \in D(n), s # {} PROVE g[s] \in V
        OBVIOUS
      <4>1. f[s \ {C[s]}] \in V /\ C[s] \in S
        BY <1>3, <3>2, <3>3
      <4> QED BY <4>1
    <3>5. D(n - 1) \subseteq D(n)
      BY <1>1, <2>2
    <3>6. \A s \in D(n - 1) : g[s] = f[s]
      BY <3>2, <3>5
    <3>7. \A s \in D(n) : s # {} => g[s \ {C[s]}] = f[s \ {C[s]}]
      BY <3>3, <3>6
    <3>8. g = Step(g, n)
      BY <3>7
    <3>9. g \in [D(n) -> V]
      BY <3>4
    <3> QED BY <2>2, <3>8, <3>9
  <2> QED BY <2>3, <2>4
<1>6. Cardinality(S) \in Nat /\ Ok(Cardinality(S))
  BY <1>1, <1>5
<1>7. D(Cardinality(S)) = SUBSET S
  <2>1. \A s \in SUBSET S : Cardinality(s) <= Cardinality(S)
    BY FS_Subset
  <2> QED BY <2>1
<1> QED BY <1>6, <1>7 DEF FoldsBy

\* The sums that MapThenSumSet folds: there are such functions, and they end in Nat.
Some(s) == CHOOSE x \in s : TRUE
Sums(f, h, S) == f = [s \in SUBSET S |-> IF s = {} THEN 0 ELSE h[Some(s)] + f[s \ {Some(s)}]]

LEMMA SumExists ==
  ASSUME NEW S, IsFiniteSet(S), NEW h \in [S -> Nat]
  PROVE  \E f : Sums(f, h, S)
<1> DEFINE C == [s \in SUBSET S |-> Some(s)]
           G == [z \in S \X Nat |-> h[z[1]] + z[2]]
<1>1. Picks(C, S) /\ \A s \in SUBSET S : C[s] = Some(s) /\ (s # {} => Some(s) \in S)
  BY DEF Picks, Some
<1>2. G \in [S \X Nat -> Nat] /\ \A x \in S, v \in Nat : G[<<x, v>>] = h[x] + v
  OBVIOUS
<1>3. PICK f \in [SUBSET S -> Nat] : FoldsBy(f, 0, G, C, S)
  <2> HIDE DEF C, G
  <2>1. 0 \in Nat
    OBVIOUS
  <2> QED BY <1>1, <1>2, <2>1, FoldExists
<1>4. \A s \in SUBSET S : f[s] = IF s = {} THEN 0 ELSE h[Some(s)] + f[s \ {Some(s)}]
  <2> SUFFICES ASSUME NEW s \in SUBSET S PROVE f[s] = IF s = {} THEN 0 ELSE h[Some(s)] + f[s \ {Some(s)}]
    OBVIOUS
  <2>1. f[s] = IF s = {} THEN 0 ELSE G[<<C[s], f[s \ {C[s]}]>>]
    <3> HIDE DEF C, G
    <3>1. PICK g : g = f
      OBVIOUS
    <3>2. f = [t \in SUBSET S |-> IF t = {} THEN 0 ELSE G[<<C[t], g[t \ {C[t]}]>>]]
      BY <1>3, <3>1 DEF FoldsBy
    <3> QED BY <3>1, <3>2
  <2>2. s # {} => f[s \ {Some(s)}] \in Nat /\ Some(s) \in S /\ C[s] = Some(s)
    <3> HIDE DEF C, G
    <3> QED BY <1>1, <1>3
  <2> HIDE DEF C, G
  <2> QED BY <1>2, <2>1, <2>2
<1>5. f = [s \in SUBSET S |-> f[s]]
  OBVIOUS
<1>6. f = [s \in SUBSET S |-> IF s = {} THEN 0 ELSE h[Some(s)] + f[s \ {Some(s)}]]
  <2> HIDE DEF C, G
  <2> QED BY <1>4, <1>5, Zenon
<1> QED BY <1>6 DEF Sums

\* Such a sum, subset by subset.
LEMMA SumStep ==
  ASSUME NEW S, IsFiniteSet(S), NEW h \in [S -> Nat], NEW f, Sums(f, h, S)
  PROVE  /\ f[{}] = 0
         /\ \A s \in SUBSET S : f[s] \in Nat
         /\ \A s \in SUBSET S : s # {} =>
              Some(s) \in s /\ f[s] = h[Some(s)] + f[s \ {Some(s)}]
<1>1. \A s \in SUBSET S : f[s] = IF s = {} THEN 0 ELSE h[Some(s)] + f[s \ {Some(s)}]
  <2>1. PICK g : g = f
    OBVIOUS
  <2>2. f = [s \in SUBSET S |-> IF s = {} THEN 0 ELSE h[Some(s)] + g[s \ {Some(s)}]]
    BY <2>1 DEF Sums
  <2> QED BY <2>1, <2>2
<1>2. f[{}] = 0
  <2>1. \A s \in SUBSET S : s = {} => f[s] = 0
    BY <1>1
  <2>2. {} \in SUBSET S
    OBVIOUS
  <2> QED BY <2>1, <2>2, Zenon
<1>3. \A s \in SUBSET S : s # {} => Some(s) \in s
  BY DEF Some
<1>4. ASSUME NEW t \in SUBSET S PROVE f[t] \in Nat
  <2> DEFINE C == [s \in SUBSET t |-> Some(s)]
  <2>1. Picks(C, t) /\ IsFiniteSet(t) /\ \A s \in SUBSET t : C[s] = Some(s)
    BY <1>3, FS_Subset DEF Picks
  <2> HIDE DEF C
  <2>2. ASSUME NEW s \in SUBSET t, s # {}, f[s \ {C[s]}] \in Nat PROVE f[s] \in Nat
    <3>1. Some(s) \in S /\ s \in SUBSET S
      BY <1>3, <2>2
    <3>2. PICK a \in Nat : a = h[Some(s)]
      BY <3>1
    <3>3. PICK b \in Nat : b = f[s \ {Some(s)}]
      BY <2>1, <2>2
    <3>4. f[s] = a + b
      BY <1>1, <2>2, <3>1, <3>2, <3>3
    <3> QED BY <3>4
  <2>3. f[{}] \in Nat
    BY <1>2
  <2> QED BY <2>1, <2>2, <2>3, FoldInside
<1> QED BY <1>1, <1>2, <1>3, <1>4

LEMMA SumInside ==
  ASSUME NEW S, IsFiniteSet(S), NEW h \in [S -> Nat], NEW f, Sums(f, h, S)
  PROVE  f[S] \in Nat
  BY SumStep

\* It does not matter which element is added first.
LEMMA SumAdds ==
  ASSUME NEW S, IsFiniteSet(S), NEW h \in [S -> Nat], NEW f, Sums(f, h, S),
         NEW t \in SUBSET S, NEW x \in t
  PROVE  f[t] = h[x] + f[t \ {x}]
<1> DEFINE F == {s \in SUBSET S : \E y \in s : f[s] # h[y] + f[s \ {y}]}
<1>0. /\ \A s \in SUBSET S : f[s] \in Nat
      /\ \A s \in SUBSET S : s # {} => Some(s) \in s /\ f[s] = h[Some(s)] + f[s \ {Some(s)}]
  BY SumStep
<1> SUFFICES ASSUME F # {} PROVE FALSE
  OBVIOUS
<1>1. \A s \in F : IsFiniteSet(s)
  BY FS_Subset
<1>2. PICK s \in F : \A u \in F : Cardinality(s) <= Cardinality(u)
  <2> HIDE DEF F
  <2> QED BY <1>1, SmallestSet
<1>3. PICK y \in s : f[s] # h[y] + f[s \ {y}]
  OBVIOUS
<1>4. PICK z : z = Some(s) /\ z \in s /\ f[s] = h[z] + f[s \ {z}]
  BY <1>0, <1>3
<1>5. z # y
  BY <1>3, <1>4
<1>6. ASSUME NEW v \in s PROVE s \ {v} \in SUBSET S /\ s \ {v} \notin F
  <2>1. Cardinality(s \ {v}) = Cardinality(s) - 1 /\ Cardinality(s) \in Nat
    <3> HIDE DEF F
    <3> QED BY <1>1, <1>2, FS_RemoveElement, FS_CardinalityType
  <2>2. s \ {v} \notin F
    <3> HIDE DEF F
    <3> QED BY <1>2, <2>1
  <2> QED BY <2>2
<1>7. f[s \ {z}] = h[y] + f[(s \ {z}) \ {y}]
  BY <1>4, <1>5, <1>6
<1>8. f[s \ {y}] = h[z] + f[(s \ {y}) \ {z}]
  BY <1>3, <1>4, <1>5, <1>6
<1>9. (s \ {y}) \ {z} = (s \ {z}) \ {y}
  OBVIOUS
<1>10. PICK r \in Nat : r = f[(s \ {z}) \ {y}]
  <2>1. (s \ {z}) \ {y} \in SUBSET S
    OBVIOUS
  <2> QED BY <1>0, <2>1
<1>11. h[y] \in Nat /\ h[z] \in Nat
  BY <1>3, <1>4
<1>12. f[s \ {z}] = h[y] + r /\ f[s \ {y}] = h[z] + r
  BY <1>7, <1>8, <1>9, <1>10
<1> QED BY <1>3, <1>4, <1>11, <1>12

\* h[i] is a digit at the place rank[i]; e[j] is what the j-th place counts.
Digits(h, e, rank, S, n) ==
  /\ e \in [0 .. n -> Nat] /\ e[0] > 0 /\ \A j \in 0 .. n - 1 : e[j] <= e[j + 1]
  /\ rank \in [S -> 0 .. n - 1] /\ \A i, j \in S : rank[i] = rank[j] => i = j
  /\ \A i \in S : h[i] + e[rank[i]] <= e[rank[i] + 1]

\* Digits, each at a place of its own, make less than the first place they leave free.
LEMMA DigitsBelow ==
  ASSUME NEW S, IsFiniteSet(S), NEW h \in [S -> Nat], NEW f, Sums(f, h, S),
         NEW n \in Nat, NEW e, NEW rank, Digits(h, e, rank, S, n)
  PROVE  f[S] < e[n]
<1> DEFINE Low(k) == {t \in SUBSET S : \A i \in t : rank[i] < k}
           N == {k \in 0 .. n : \E t \in Low(k) : ~(f[t] < e[k])}
<1>0. f[{}] = 0 /\ \A s \in SUBSET S : f[s] \in Nat
  BY SumStep
<1>1. N = {}
  <2> SUFFICES ASSUME N # {} PROVE FALSE
    OBVIOUS
  <2>1. PICK k \in N : \A j \in N : k <= j
    <3>1. N \in SUBSET Nat
      OBVIOUS
    <3> HIDE DEF N
    <3> QED BY <3>1, LeastNat
  <2>2. PICK t \in Low(k) : k \in 0 .. n /\ ~(f[t] < e[k])
    OBVIOUS
  <2>3. t \in SUBSET S /\ \A i \in t : rank[i] < k
    OBVIOUS
  <2>4. \A j \in 0 .. n : j < k => \A u \in SUBSET S : (\A i \in u : rank[i] < j) => f[u] < e[j]
    <3>1. \A j \in 0 .. n : j < k => j \notin N
      <4> HIDE DEF N, Low
      <4> QED BY <2>1, <2>2
    <3> QED BY <3>1
  <2> HIDE DEF N, Low
  <2>5. CASE k = 0
    <3>1. \A i \in S : rank[i] >= 0
      BY DEF Digits
    <3>2. t = {}
      BY <2>3, <2>5, <3>1 DEF Digits
    <3>3. e[0] > 0
      BY DEF Digits
    <3> QED BY <1>0, <2>2, <2>5, <3>2, <3>3
  <2>6. CASE k # 0
    <3>1. PICK j \in 0 .. n - 1 : k = j + 1
      <4>1. k - 1 \in 0 .. n - 1 /\ k = (k - 1) + 1
        BY <2>2, <2>6
      <4> QED BY <4>1
    <3>2. j \in 0 .. n /\ j < k /\ j \in Int /\ k \in Int
      BY <3>1
    <3>3. \A u \in SUBSET S : (\A i \in u : rank[i] < j) => f[u] < e[j]
      BY <2>4, <3>2
    <3>4. e[j] \in Nat /\ e[k] \in Nat /\ e[j] <= e[k] /\ f[t] \in Nat
      BY <1>0, <2>2, <2>3, <3>1, <3>2 DEF Digits
    <3>5. \A i \in t : rank[i] # j => rank[i] < j
      <4> SUFFICES ASSUME NEW i \in t, rank[i] # j PROVE rank[i] < j
        OBVIOUS
      <4>1. PICK r \in Int : r = rank[i] /\ r # j /\ r < k
        BY <2>3 DEF Digits
      <4> QED BY <3>1, <3>2, <4>1
    <3>6. CASE \E i \in t : rank[i] = j
      <4>1. PICK i \in t : rank[i] = j
        BY <3>6
      <4>2. t \ {i} \in SUBSET S /\ \A y \in t \ {i} : rank[y] < j
        <5>1. \A y \in t \ {i} : rank[y] # j
          BY <2>3, <4>1 DEF Digits
        <5> QED BY <2>3, <3>5, <5>1
      <4>3. f[t \ {i}] < e[j] /\ f[t \ {i}] \in Nat
        BY <1>0, <3>3, <4>2
      <4>4. f[t] = h[i] + f[t \ {i}]
        BY <2>3, SumAdds
      <4>5. h[i] + e[j] <= e[k] /\ h[i] \in Nat
        BY <2>3, <3>1, <4>1 DEF Digits
      <4> QED BY <2>2, <3>4, <4>3, <4>4, <4>5
    <3>7. CASE ~\E i \in t : rank[i] = j
      BY <2>2, <2>3, <3>3, <3>4, <3>5, <3>7
    <3> QED BY <3>6, <3>7
  <2> QED BY <2>5, <2>6
<1>2. S \in Low(n) /\ n \in 0 .. n
  BY DEF Digits
<1> QED BY <1>1, <1>2

\* Bits of n places make a number of n bits.
LEMMA BitsBelow ==
  ASSUME NEW n \in Nat, NEW S \in SUBSET (0 .. n - 1)
  PROVE  FromBits(S) \in 0 .. 2 ^ n - 1
<1> DEFINE h == [i \in S |-> 2 ^ i]
           e == [i \in 0 .. n |-> 2 ^ i]
           rank == [i \in S |-> i]
           T(g) == [s \in SUBSET S |-> IF s = {} THEN 0
                      ELSE 2 ^ (CHOOSE x \in s : TRUE) + g[s \ {CHOOSE x \in s : TRUE}]]
<1>0. IsFiniteSet(S)
  <2>1. IsFiniteSet(0 .. n - 1)
    BY FS_Interval
  <2> QED BY <2>1, FS_Subset
<1>1. h \in [S -> Nat]
  BY Powers
<1>2. \A g : Sums(g, h, S) <=> g = T(g)
  <2> SUFFICES ASSUME NEW g
               PROVE  [s \in SUBSET S |-> IF s = {} THEN 0 ELSE h[Some(s)] + g[s \ {Some(s)}]] = T(g)
    BY DEF Sums
  <2>1. \A s \in SUBSET S : s # {} => h[Some(s)] = 2 ^ (CHOOSE x \in s : TRUE)
    BY DEF Some
  <2> QED BY <2>1 DEF Some
<1>3. \E g : g = T(g)
  <2> HIDE DEF h, T
  <2> QED BY <1>0, <1>1, <1>2, SumExists
<1>4. \E g : g = T(g) /\ FromBits(S) = g[S]
  BY <1>3, Zenon DEF FromBits, MapThenSumSet, MapThenFoldSet
<1>5. Digits(h, e, rank, S, n)
  <2>1. \A i \in Nat : 2 ^ i \in Nat /\ 2 ^ i > 0 /\ 2 ^ (i + 1) = 2 ^ i + 2 ^ i
    BY Powers, PowerStep
  <2>2. e \in [0 .. n -> Nat] /\ e[0] > 0 /\ \A j \in 0 .. n - 1 : e[j] <= e[j + 1]
    BY <2>1
  <2>3. rank \in [S -> 0 .. n - 1] /\ \A i, j \in S : rank[i] = rank[j] => i = j
    OBVIOUS
  <2>4. ASSUME NEW i \in S PROVE h[i] + e[rank[i]] <= e[rank[i] + 1]
    <3>1. h[i] = 2 ^ i /\ rank[i] = i /\ e[i] = 2 ^ i /\ e[i + 1] = 2 ^ (i + 1) /\ i \in Nat
      OBVIOUS
    <3> HIDE DEF h, e, rank
    <3> QED BY <2>1, <3>1
  <2> HIDE DEF h, e, rank
  <2> QED BY <2>2, <2>3, <2>4 DEF Digits
<1>6. e[n] = 2 ^ n /\ 2 ^ n \in Nat
  BY Powers
<1> HIDE DEF h, T, e, rank
<1>7. PICK g : Sums(g, h, S) /\ FromBits(S) = g[S]
  BY <1>2, <1>4
<1>8. g[S] < e[n] /\ g[S] \in Nat
  BY <1>0, <1>1, <1>5, <1>7, DigitsBelow, SumInside
<1> QED BY <1>6, <1>7, <1>8

\* Regions as map makes them.
Regions ==
  {r \in [base : Nat, size : Nat \ {0}, perms : SUBSET Perms, bytes : UNION {[0 .. n - 1 -> Byte] : n \in Nat}] :
     r.bytes \in [0 .. r.size - 1 -> Byte]}

\* A byte at the i-th place from below stays below the next place.
LEMMA BytePlace ==
  ASSUME NEW b \in Byte, NEW i \in Nat
  PROVE  /\ ByteBits * i \in Nat /\ 2 ^ (ByteBits * i) \in Nat /\ 2 ^ (ByteBits * i) > 0
         /\ b * 2 ^ (ByteBits * i) \in Nat
         /\ b * 2 ^ (ByteBits * i) + 2 ^ (ByteBits * i) <= 2 ^ (ByteBits * (i + 1))
<1>1. PICK B \in Nat : B = ByteBits
  BY ByteBitsAssumption
<1>2. B * i \in Nat /\ B * (i + 1) = B * i + B
  OBVIOUS
<1>3. PICK p \in Nat : p = 2 ^ (B * i) /\ p > 0
  BY <1>2, Powers
<1>4. PICK q \in Nat : q = 2 ^ B /\ b \in 0 .. q - 1
  BY <1>1, Powers DEF Byte
<1>5. 2 ^ (B * (i + 1)) = p * q
  BY <1>2, <1>3, <1>4, PowerSum
<1>6. b * p + p = p * (b + 1) /\ b * p \in Nat
  BY <1>4
<1>7. p * (b + 1) <= p * q
  <2>1. PICK d \in Nat : q = (b + 1) + d
    <3>1. q - (b + 1) \in Nat /\ q = (b + 1) + (q - (b + 1))
      BY <1>4
    <3> QED BY <3>1
  <2>2. p * q = p * (b + 1) + p * d /\ p * d \in Nat
    BY <1>4, <2>1
  <2> QED BY <1>4, <2>2
<1> QED BY <1>1, <1>2, <1>3, <1>5, <1>6, <1>7


\* What the places of size bytes count.
Places(size) == [j \in 0 .. size |-> 2 ^ (ByteBits * j)]

\* Bytes at places of their own.
BytesAt(h, rank, size) ==
  /\ rank \in [0 .. size - 1 -> 0 .. size - 1]
  /\ \A i, j \in 0 .. size - 1 : rank[i] = rank[j] => i = j
  /\ \A i \in 0 .. size - 1 : \E b \in Byte : h[i] = b * 2 ^ (ByteBits * rank[i])

LEMMA BytesAreDigits ==
  ASSUME NEW size \in Nat, NEW h, NEW rank, BytesAt(h, rank, size)
  PROVE  /\ Digits(h, Places(size), rank, 0 .. size - 1, size)
         /\ \A i \in 0 .. size - 1 : h[i] \in Nat
         /\ Places(size)[size] = 2 ^ (ByteBits * size)
<1> DEFINE e == Places(size)
<1>0. 0 \in Byte
  <2>1. PICK q \in Nat : q = 2 ^ ByteBits /\ q > 0
    BY ByteBitsAssumption, Powers
  <2> QED BY <2>1 DEF Byte
<1>1. \A j \in 0 .. size : e[j] = 2 ^ (ByteBits * j)
  BY DEF Places
<1>2. \A j \in Nat : /\ 2 ^ (ByteBits * j) \in Nat /\ 2 ^ (ByteBits * j) > 0
                     /\ 2 ^ (ByteBits * j) <= 2 ^ (ByteBits * (j + 1))
  <2> SUFFICES ASSUME NEW j \in Nat
               PROVE  /\ 2 ^ (ByteBits * j) \in Nat /\ 2 ^ (ByteBits * j) > 0
                      /\ 2 ^ (ByteBits * j) <= 2 ^ (ByteBits * (j + 1))
    OBVIOUS
  <2>1. PICK p \in Nat : p = 2 ^ (ByteBits * j) /\ p > 0 /\ 0 * p + p <= 2 ^ (ByteBits * (j + 1))
    BY <1>0, BytePlace
  <2>2. 0 * p + p = p
    OBVIOUS
  <2> QED BY <2>1, <2>2
<1>3. e \in [0 .. size -> Nat] /\ e[0] > 0 /\ \A j \in 0 .. size - 1 : e[j] <= e[j + 1]
  <2>1. ASSUME NEW j \in 0 .. size PROVE e[j] \in Nat
    <3>1. j \in Nat
      OBVIOUS
    <3> HIDE DEF e
    <3> QED BY <1>1, <1>2, <3>1
  <2>2. e \in [0 .. size -> Nat]
    BY <2>1 DEF Places
  <2>3. e[0] > 0
    <3>1. 0 \in 0 .. size /\ 0 \in Nat
      OBVIOUS
    <3> HIDE DEF e
    <3> QED BY <1>1, <1>2, <3>1
  <2>4. ASSUME NEW j \in 0 .. size - 1 PROVE e[j] <= e[j + 1]
    <3>1. j \in 0 .. size /\ j + 1 \in 0 .. size /\ j \in Nat
      OBVIOUS
    <3> HIDE DEF e
    <3> QED BY <1>1, <1>2, <3>1
  <2> QED BY <2>2, <2>3, <2>4
<1> HIDE DEF e
<1>4. ASSUME NEW i \in 0 .. size - 1
      PROVE  h[i] \in Nat /\ h[i] + e[rank[i]] <= e[rank[i] + 1]
  <2>1. PICK j \in 0 .. size - 1 : j = rank[i]
    BY DEF BytesAt
  <2>2. j \in 0 .. size /\ j + 1 \in 0 .. size /\ j \in Nat
    OBVIOUS
  <2>3. PICK b \in Byte : h[i] = b * 2 ^ (ByteBits * j)
    BY <2>1 DEF BytesAt
  <2>4. e[j] = 2 ^ (ByteBits * j) /\ e[j + 1] = 2 ^ (ByteBits * (j + 1))
    BY <1>1, <2>2
  <2> QED BY <2>1, <2>2, <2>3, <2>4, BytePlace
<1>5. e[size] = 2 ^ (ByteBits * size)
  BY <1>1
<1> QED BY <1>3, <1>4, <1>5 DEF Digits, BytesAt, e

\* Bytes of which the first counts most make a number of as many bytes.
LEMMA BytesBelow ==
  ASSUME NEW b, NEW o, NEW size \in Nat, \A i \in 0 .. size - 1 : b[o + i] \in Byte
  PROVE  BigEndian(b, o, size) \in 0 .. 2 ^ (ByteBits * size) - 1
<1> DEFINE S == 0 .. size - 1
           h == [i \in S |-> b[o + i] * 2 ^ (ByteBits * (size - 1 - i))]
           rank == [i \in S |-> size - 1 - i]
           T(g) == [s \in SUBSET S |-> IF s = {} THEN 0
                      ELSE b[o + (CHOOSE x \in s : TRUE)] * 2 ^ (ByteBits * (size - 1 - (CHOOSE x \in s : TRUE)))
                             + g[s \ {CHOOSE x \in s : TRUE}]]
<1>1. Digits(h, Places(size), rank, S, size) /\ h \in [S -> Nat] /\ IsFiniteSet(S)
      /\ Places(size)[size] = 2 ^ (ByteBits * size)
  <2>1. rank \in [S -> S] /\ \A i, j \in S : rank[i] = rank[j] => i = j
    <3>1. \A i, j \in S : size - 1 - i \in S /\ (size - 1 - i = size - 1 - j => i = j)
      OBVIOUS
    <3>2. \A i \in S : rank[i] = size - 1 - i
      OBVIOUS
    <3> HIDE DEF S
    <3> QED BY <3>1, <3>2
  <2>2. \A i \in S : \E d \in Byte : h[i] = d * 2 ^ (ByteBits * rank[i])
    OBVIOUS
  <2>3. IsFiniteSet(S)
    BY FS_Interval
  <2>4. DOMAIN h = S /\ h = [i \in S |-> h[i]]
    OBVIOUS
  <2> HIDE DEF h, rank
  <2>5. /\ Digits(h, Places(size), rank, S, size) /\ Places(size)[size] = 2 ^ (ByteBits * size)
        /\ \A i \in S : h[i] \in Nat
    <3>1. BytesAt(h, rank, size)
      BY <2>1, <2>2 DEF BytesAt
    <3> QED BY <3>1, BytesAreDigits
  <2>6. h \in [S -> Nat]
    <3> HIDE DEF S
    <3> QED BY <2>4, <2>5
  <2> QED BY <2>3, <2>5, <2>6
<1>2. \A g : Sums(g, h, S) <=> g = T(g)
  <2> SUFFICES ASSUME NEW g
               PROVE  [s \in SUBSET S |-> IF s = {} THEN 0 ELSE h[Some(s)] + g[s \ {Some(s)}]] = T(g)
    BY DEF Sums
  <2>1. \A s \in SUBSET S : s # {} => Some(s) \in S /\ Some(s) = CHOOSE x \in s : TRUE
    <3> HIDE DEF S
    <3> QED BY DEF Some
  <2>2. \A s \in SUBSET S : s # {} => h[Some(s)] = b[o + (CHOOSE x \in s : TRUE)] * 2 ^ (ByteBits * (size - 1 - (CHOOSE x \in s : TRUE)))
    <3>1. \A i \in S : h[i] = b[o + i] * 2 ^ (ByteBits * (size - 1 - i))
      OBVIOUS
    <3> HIDE DEF S, h
    <3> QED BY <2>1, <3>1
  <2> HIDE DEF S, h
  <2> QED BY <2>2 DEF Some
<1>3. \E g : g = T(g)
  <2> HIDE DEF S, h, T
  <2> QED BY <1>1, <1>2, SumExists
<1>4. \E g : g = T(g) /\ BigEndian(b, o, size) = g[S]
  BY <1>3, Zenon DEF BigEndian, MapThenSumSet, MapThenFoldSet
<1>6. 2 ^ (ByteBits * size) \in Nat
  BY ByteBitsAssumption, Powers
<1> HIDE DEF S, h, T, rank
<1>7. PICK g : Sums(g, h, S) /\ BigEndian(b, o, size) = g[S]
  BY <1>2, <1>4
<1>8. g[S] < Places(size)[size] /\ g[S] \in Nat
  BY <1>1, <1>7, DigitsBelow, SumInside
<1> QED BY <1>1, <1>6, <1>7, <1>8

\* What is read from a region that holds it has as many bytes as are read.
LEMMA ReadIn ==
  ASSUME NEW m \in SUBSET Regions, NEW address \in Int, NEW size \in Nat,
         find(m, address, size) # {}
  PROVE  readBytes(m, address, size) \in 0 .. 2 ^ (ByteBits * size) - 1
<1>1. PICK r : r = CHOOSE q \in find(m, address, size) : TRUE
  OBVIOUS
<1>2. r \in find(m, address, size)
  BY <1>1
<1>3. PICK o : o = address - r.base
  OBVIOUS
<1>4. \A i \in 0 .. size - 1 : r.bytes[o + i] \in Byte
  <2>1. r \in Regions
    BY <1>2 DEF find
  <2>2. r.base \in Int /\ r.size \in Nat /\ r.bytes \in [0 .. r.size - 1 -> Byte]
    BY <2>1 DEF Regions
  <2>3. address >= r.base /\ address + size <= r.base + r.size
    BY <1>2 DEF find, endExclusive
  <2>4. \A i \in 0 .. size - 1 : o + i \in 0 .. r.size - 1
    BY <1>3, <2>2, <2>3
  <2> QED BY <2>2, <2>4
<1>5. readBytes(m, address, size)
        = BigEndian(r.bytes, o, size)
  BY <1>1, <1>3, Zenon DEF readBytes
<1>6. PICK b : b = r.bytes
  OBVIOUS
<1>7. BigEndian(b, o, size) \in 0 .. 2 ^ (ByteBits * size) - 1
  <2>1. \A i \in 0 .. size - 1 : b[o + i] \in Byte
    BY <1>4, <1>6
  <2> QED BY <2>1, BytesBelow
<1> QED BY <1>5, <1>6, <1>7, Zenon

LEMMA ReadNat ==
  ASSUME NEW m \in SUBSET Regions, NEW address \in Int, NEW size \in Nat,
         find(m, address, size) # {}
  PROVE  readBytes(m, address, size) \in Nat
<1>1. 2 ^ (ByteBits * size) \in Nat
  BY ByteBitsAssumption, Powers
<1> QED BY <1>1, ReadIn

\* Every byte of a number is one, and so are quotients and remainders by powers.
LEMMA Parts ==
  ASSUME NEW v \in Nat, NEW n \in Nat
  PROVE  v \div 2 ^ n \in Nat /\ v % 2 ^ n \in Nat
<1>1. PICK d \in Nat : d = 2 ^ n /\ d > 0
  BY Powers
<1>2. v \div d \in Nat /\ v % d \in Nat
  BY <1>1
<1> QED BY <1>1, <1>2

\* Bytes of a value are bytes.
LEMMA ByteOfIn ==
  ASSUME NEW v \in Nat, NEW size \in Nat
  PROVE  \A i \in 0 .. size - 1 : ByteOf(v, size, i) \in Byte
<1> SUFFICES ASSUME NEW i \in 0 .. size - 1 PROVE ByteOf(v, size, i) \in Byte
  OBVIOUS
<1>1. ByteBits * (size - 1 - i) \in Nat /\ ByteBits \in Nat
  BY ByteBitsAssumption
<1>2. PICK e \in Nat : e = ByteBits * (size - 1 - i)
  BY <1>1
<1>3. PICK q \in Nat : q = v \div 2 ^ e
  BY Parts
<1>4. PICK d \in Nat : d = 2 ^ ByteBits /\ d > 0
  BY <1>1, Powers
<1>5. q % d \in 0 .. d - 1
  BY <1>4
<1> QED BY <1>2, <1>3, <1>4, <1>5 DEF ByteOf, Byte

\* A byte-reversed value has as many bytes.
LEMMA SwapBelow ==
  ASSUME NEW v \in Nat, NEW size \in Nat
  PROVE  byteSwap(v, size) \in 0 .. 2 ^ (ByteBits * size) - 1
<1> DEFINE S == 0 .. size - 1
           h == [i \in S |-> ByteOf(v, size, i) * 2 ^ (ByteBits * i)]
           rank == [i \in S |-> i]
           T(g) == [s \in SUBSET S |-> IF s = {} THEN 0
                      ELSE ByteOf(v, size, (CHOOSE x \in s : TRUE)) * 2 ^ (ByteBits * (CHOOSE x \in s : TRUE))
                             + g[s \ {CHOOSE x \in s : TRUE}]]
<1>1. Digits(h, Places(size), rank, S, size) /\ h \in [S -> Nat] /\ IsFiniteSet(S)
      /\ Places(size)[size] = 2 ^ (ByteBits * size)
  <2>1. rank \in [S -> S] /\ \A i, j \in S : rank[i] = rank[j] => i = j
    OBVIOUS
  <2>2. \A i \in S : \E d \in Byte : h[i] = d * 2 ^ (ByteBits * rank[i])
    BY ByteOfIn
  <2>3. IsFiniteSet(S)
    BY FS_Interval
  <2>4. DOMAIN h = S /\ h = [i \in S |-> h[i]]
    OBVIOUS
  <2> HIDE DEF h, rank
  <2>5. /\ Digits(h, Places(size), rank, S, size) /\ Places(size)[size] = 2 ^ (ByteBits * size)
        /\ \A i \in S : h[i] \in Nat
    <3>1. BytesAt(h, rank, size)
      BY <2>1, <2>2 DEF BytesAt
    <3> QED BY <3>1, BytesAreDigits
  <2>6. h \in [S -> Nat]
    <3> HIDE DEF S
    <3> QED BY <2>4, <2>5
  <2> QED BY <2>3, <2>5, <2>6
<1>2. \A g : Sums(g, h, S) <=> g = T(g)
  <2> SUFFICES ASSUME NEW g
               PROVE  [s \in SUBSET S |-> IF s = {} THEN 0 ELSE h[Some(s)] + g[s \ {Some(s)}]] = T(g)
    BY DEF Sums
  <2>1. \A s \in SUBSET S : s # {} => Some(s) \in S /\ Some(s) = CHOOSE x \in s : TRUE
    <3> HIDE DEF S
    <3> QED BY DEF Some
  <2>2. \A s \in SUBSET S : s # {} => h[Some(s)] = ByteOf(v, size, (CHOOSE x \in s : TRUE)) * 2 ^ (ByteBits * (CHOOSE x \in s : TRUE))
    <3>1. \A i \in S : h[i] = ByteOf(v, size, i) * 2 ^ (ByteBits * i)
      OBVIOUS
    <3> HIDE DEF S, h
    <3> QED BY <2>1, <3>1
  <2> HIDE DEF S, h
  <2> QED BY <2>2 DEF Some
<1>3. \E g : g = T(g)
  <2> HIDE DEF S, h, T
  <2> QED BY <1>1, <1>2, SumExists
<1>4. \E g : g = T(g) /\ byteSwap(v, size) = g[S]
  BY <1>3, Zenon DEF byteSwap, MapThenSumSet, MapThenFoldSet
<1>6. 2 ^ (ByteBits * size) \in Nat
  BY ByteBitsAssumption, Powers
<1> HIDE DEF S, h, T, rank
<1>7. PICK g : Sums(g, h, S) /\ byteSwap(v, size) = g[S]
  BY <1>2, <1>4
<1>8. g[S] < Places(size)[size] /\ g[S] \in Nat
  BY <1>1, <1>7, DigitsBelow, SumInside
<1> QED BY <1>1, <1>6, <1>7, <1>8

\* The value that memset and bzero write.
LEMMA FillNat ==
  ASSUME NEW byte \in Nat, NEW size \in Nat
  PROVE  Repeated(byte, size) \in Nat
<1> DEFINE S == 0 .. size - 1
           h == [i \in S |-> byte * 2 ^ (ByteBits * i)]
           T(g) == [s \in SUBSET S |-> IF s = {} THEN 0
                      ELSE byte * 2 ^ (ByteBits * (CHOOSE x \in s : TRUE))
                             + g[s \ {CHOOSE x \in s : TRUE}]]
<1>1. h \in [S -> Nat] /\ IsFiniteSet(S)
  <2>2. \A i \in S : ByteBits * i \in Nat
    BY ByteBitsAssumption
  <2>3. \A i \in S : 2 ^ (ByteBits * i) \in Nat
    BY <2>2, Powers
  <2>4. \A x, y \in Nat : x * y \in Nat
    OBVIOUS
  <2>5. h \in [S -> Nat]
    <3>1. \A i \in S : h[i] \in Nat
      BY <2>3, <2>4
    <3> QED BY <3>1
  <2> QED BY <2>5, FS_Interval
<1>2. \A g : Sums(g, h, S) <=> g = T(g)
  <2> SUFFICES ASSUME NEW g
               PROVE  [s \in SUBSET S |-> IF s = {} THEN 0 ELSE h[Some(s)] + g[s \ {Some(s)}]] = T(g)
    BY DEF Sums
  <2>1. \A s \in SUBSET S : s # {} => Some(s) \in S /\ Some(s) = CHOOSE x \in s : TRUE
    <3> HIDE DEF S
    <3> QED BY DEF Some
  <2>2. \A s \in SUBSET S : s # {} => h[Some(s)] = byte * 2 ^ (ByteBits * (CHOOSE x \in s : TRUE))
    <3>1. \A i \in S : h[i] = byte * 2 ^ (ByteBits * i)
      OBVIOUS
    <3> HIDE DEF S, h
    <3> QED BY <2>1, <3>1
  <2> HIDE DEF S, h
  <2> QED BY <2>2 DEF Some
<1>3. \E g : g = T(g)
  <2> HIDE DEF S, h, T
  <2> QED BY <1>1, <1>2, SumExists
<1>4. \E g : g = T(g) /\ Repeated(byte, size) = g[S]
  BY <1>3, Zenon DEF Repeated, MapThenSumSet, MapThenFoldSet
<1> HIDE DEF S, h, T
<1> QED BY <1>1, <1>2, <1>4, SumInside

-----------------------------------------------------------------------------
(* What a write does to a memory *)

Bare(r) == [r EXCEPT !.bytes = 0]

\* The memories that permitted writes can make of m0: the same areas, and where writing is
\* not allowed the same bytes.
Rewritten(m0) ==
  {m \in SUBSET Regions :
     /\ Disjoint(m)
     /\ {Bare(r) : r \in m} = {Bare(r) : r \in m0}
     /\ \A r \in m0 : "write" \notin r.perms => r \in m}

\* What is left of a region without its bytes.
LEMMA BareFields ==
  ASSUME NEW r \in Regions
  PROVE  /\ r.base \in Nat /\ r.size \in Nat /\ r.size > 0 /\ r.bytes \in [0 .. r.size - 1 -> Byte]
         /\ Bare(r) = [base |-> r.base, size |-> r.size, perms |-> r.perms, bytes |-> 0]
  BY DEF Regions, Bare

\* Regions that do not overlap have at most one that holds an access.
LEMMA OneHolds ==
  ASSUME NEW m \in SUBSET Regions, Disjoint(m), NEW address \in Int, NEW size \in Nat, size > 0,
         NEW r \in find(m, address, size), NEW q \in find(m, address, size)
  PROVE  r = q
<1>1. /\ r \in m /\ q \in m /\ r.base \in Nat /\ q.base \in Nat /\ r.size \in Nat /\ q.size \in Nat
      /\ address >= r.base /\ address + size <= r.base + r.size
      /\ address >= q.base /\ address + size <= q.base + q.size
  BY BareFields DEF find, endExclusive
<1>2. r = q \/ r.base + r.size <= q.base \/ q.base + q.size <= r.base
  BY <1>1 DEF Disjoint, endExclusive
<1> QED BY <1>1, <1>2

\* A region has its like in a rewritten memory, and the other way round.
LEMMA Likes ==
  ASSUME NEW m0 \in SUBSET Regions, NEW m \in Rewritten(m0)
  PROVE  /\ \A r \in m0 : \E q \in m : q.base = r.base /\ q.size = r.size /\ q.perms = r.perms
         /\ \A q \in m : \E r \in m0 : q.base = r.base /\ q.size = r.size /\ q.perms = r.perms
<1>1. \A r \in m0 : \E q \in m : Bare(q) = Bare(r)
  BY DEF Rewritten
<1>2. \A q \in m : \E r \in m0 : Bare(q) = Bare(r)
  BY DEF Rewritten
<1>3. m \in SUBSET Regions
  BY DEF Rewritten
<1>4. \A r, q \in Regions : Bare(q) = Bare(r) => q.base = r.base /\ q.size = r.size /\ q.perms = r.perms
  <2> SUFFICES ASSUME NEW r \in Regions, NEW q \in Regions, Bare(q) = Bare(r)
               PROVE  q.base = r.base /\ q.size = r.size /\ q.perms = r.perms
    OBVIOUS
  <2>1. /\ Bare(q).base = q.base /\ Bare(q).size = q.size /\ Bare(q).perms = q.perms
        /\ Bare(r).base = r.base /\ Bare(r).size = r.size /\ Bare(r).perms = r.perms
    BY BareFields
  <2> QED BY <2>1
<1> QED BY <1>1, <1>2, <1>3, <1>4

\* Writing changes no permission.
LEMMA SamePermissions ==
  ASSUME NEW m0 \in SUBSET Regions, NEW m \in Rewritten(m0), NEW address, NEW size, NEW perm
  PROVE  Permitted(m, address, size, perm) <=> Permitted(m0, address, size, perm)
  BY Likes DEF Permitted, find, endExclusive

\* A permitted write.
LEMMA WriteKeeps ==
  ASSUME NEW m0 \in SUBSET Regions, NEW m \in Rewritten(m0), NEW address \in Int,
         NEW size \in Nat, size > 0, NEW value \in Nat, Permitted(m0, address, size, "write")
  PROVE  writeBytes(m, address, size, value) \in Rewritten(m0)
<1>1. m \in SUBSET Regions /\ Disjoint(m)
  BY DEF Rewritten
<1>2. PICK q \in find(m, address, size) : "write" \in q.perms
  BY SamePermissions DEF Permitted
<1>3. PICK r : r = CHOOSE x \in find(m, address, size) : TRUE
  OBVIOUS
<1>4. r \in find(m, address, size)
  BY <1>2, <1>3
<1>5. r = q
  BY <1>1, <1>2, <1>4, OneHolds
<1>6. r \in m /\ r \in Regions /\ "write" \in r.perms
  BY <1>1, <1>2, <1>4, <1>5 DEF find
<1> DEFINE offset == address - r.base
           bytes == [i \in DOMAIN r.bytes |->
                       IF i \in offset .. offset + size - 1 THEN ByteOf(value, size, i - offset)
                       ELSE r.bytes[i]]
<1>7. writeBytes(m, address, size, value) = (m \ {r}) \cup {[r EXCEPT !.bytes = bytes]}
  BY <1>3, Zenon DEF writeBytes
<1>8. bytes \in [0 .. r.size - 1 -> Byte]
  <2>1. r.base \in Nat /\ r.bytes \in [0 .. r.size - 1 -> Byte] /\ offset \in Int
    BY <1>6, BareFields
  <2>2. \A i \in 0 .. r.size - 1 : i \in offset .. offset + size - 1 => i - offset \in 0 .. size - 1
    <3> HIDE DEF offset
    <3> QED BY <2>1
  <2>3. \A i \in 0 .. r.size - 1 :
          i \in offset .. offset + size - 1 => ByteOf(value, size, i - offset) \in Byte
    <3> HIDE DEF offset
    <3> QED BY <2>2, ByteOfIn
  <2> HIDE DEF offset
  <2> QED BY <2>1, <2>3
<1> HIDE DEF bytes
<1>9. PICK n : n = [r EXCEPT !.bytes = bytes]
  OBVIOUS
<1>10. /\ n.base = r.base /\ n.size = r.size /\ n.perms = r.perms /\ n \in Regions
  <2>1. r \in [base : Nat, size : Nat \ {0}, perms : SUBSET Perms, bytes : UNION {[0 .. k - 1 -> Byte] : k \in Nat}]
    BY <1>6 DEF Regions
  <2>2. r.size \in Nat /\ bytes \in UNION {[0 .. k - 1 -> Byte] : k \in Nat}
    BY <1>8, <2>1
  <2>3. n.base = r.base /\ n.size = r.size /\ n.perms = r.perms /\ n.bytes = bytes
    BY <1>9, <2>1
  <2>4. n \in [base : Nat, size : Nat \ {0}, perms : SUBSET Perms, bytes : UNION {[0 .. k - 1 -> Byte] : k \in Nat}]
    <3>1. PICK U : U = UNION {[0 .. k - 1 -> Byte] : k \in Nat}
      OBVIOUS
    <3> QED BY <1>9, <2>1, <2>2, <3>1
  <2> QED BY <1>8, <2>3, <2>4 DEF Regions
<1>11. PICK m2 : m2 = (m \ {r}) \cup {n}
  OBVIOUS
<1>12. m2 \in SUBSET Regions
  BY <1>1, <1>10, <1>11
<1>13. Disjoint(m2)
  <2>2. \A x \in m2 : x.size > 0 /\ endExclusive(x) <= Modulus
    BY <1>1, <1>6, <1>10, <1>11 DEF Disjoint, endExclusive
  <2>3. ASSUME NEW x \in m2, NEW y \in m2, x # y
        PROVE  endExclusive(x) <= y.base \/ endExclusive(y) <= x.base
    BY <1>1, <1>6, <1>10, <1>11, <2>3 DEF Disjoint, endExclusive
  <2> QED BY <2>2, <2>3 DEF Disjoint
<1>14. Bare(n) = Bare(r)
  BY <1>6, <1>10, BareFields
<1>15. {Bare(x) : x \in m2} = {Bare(x) : x \in m}
  BY <1>6, <1>11, <1>14
<1>16. \A x \in m0 : "write" \notin x.perms => x \in m2
  BY <1>6, <1>11 DEF Rewritten
<1>17. m2 \in Rewritten(m0)
  <2>1. {Bare(x) : x \in m} = {Bare(x) : x \in m0}
    BY DEF Rewritten
  <2> QED BY <1>12, <1>13, <1>15, <1>16, <2>1 DEF Rewritten
<1> QED BY <1>7, <1>9, <1>11, <1>17

\* A permitted write changes no other byte than one that may be written.
Confined(m, m2) ==
  /\ {[r EXCEPT !.bytes = 0] : r \in m2} = {[r EXCEPT !.bytes = 0] : r \in m}
  /\ \A a \in DOMAIN MemoryBytes(m) :
       MemoryBytes(m2)[a] # MemoryBytes(m)[a] => \E r \in find(m, a, 1) : "write" \in r.perms

\* The byte at an address is that of the region which holds it.
LEMMA ContentsOf ==
  ASSUME NEW m \in SUBSET Regions, Disjoint(m), NEW r \in m, NEW a \in r.base .. endExclusive(r) - 1
  PROVE  /\ a \in DOMAIN MemoryBytes(m) /\ a \in Int /\ r \in find(m, a, 1)
         /\ MemoryBytes(m)[a] = r.bytes[a - r.base]
<1>1. r.base \in Nat /\ r.size \in Nat /\ a \in Int /\ r.base <= a /\ a + 1 <= r.base + r.size
  BY BareFields DEF endExclusive
<1>2. r \in find(m, a, 1)
  BY <1>1 DEF find, endExclusive
<1>3. PICK q : q = CHOOSE x \in find(m, a, 1) : TRUE
  OBVIOUS
<1>4. q \in find(m, a, 1)
  BY <1>2, <1>3
<1>5. q = r
  BY <1>1, <1>2, <1>4, OneHolds
<1>6. a \in UNION {x.base .. endExclusive(x) - 1 : x \in m}
  OBVIOUS
<1>7. DOMAIN MemoryBytes(m) = UNION {x.base .. endExclusive(x) - 1 : x \in m}
  BY DEF MemoryBytes
<1>8. MemoryBytes(m)[a] = q.bytes[a - q.base]
  BY <1>3, <1>6, Zenon DEF MemoryBytes
<1> QED BY <1>1, <1>2, <1>5, <1>6, <1>7, <1>8

LEMMA RewrittenConfined ==
  ASSUME NEW m \in SUBSET Regions, Disjoint(m), NEW m2 \in Rewritten(m)
  PROVE  Confined(m, m2) /\ Disjoint(m2) /\ m2 \in SUBSET Regions
<1>1. m2 \in SUBSET Regions /\ Disjoint(m2) /\ {Bare(r) : r \in m2} = {Bare(r) : r \in m}
  BY DEF Rewritten
<1>2. ASSUME NEW a \in DOMAIN MemoryBytes(m), MemoryBytes(m2)[a] # MemoryBytes(m)[a]
      PROVE  \E r \in find(m, a, 1) : "write" \in r.perms
  <2>1. PICK r \in m : a \in r.base .. endExclusive(r) - 1
    BY DEF MemoryBytes
  <2>2. r \in find(m, a, 1) /\ MemoryBytes(m)[a] = r.bytes[a - r.base]
    BY <2>1, ContentsOf
  <2>3. CASE "write" \notin r.perms
    <3>1. r \in m2
      BY <2>3 DEF Rewritten
    <3>2. MemoryBytes(m2)[a] = r.bytes[a - r.base]
      BY <1>1, <2>1, <3>1, ContentsOf
    <3> QED BY <1>2, <2>2, <3>2
  <2> QED BY <2>2, <2>3
<1> QED BY <1>1, <1>2 DEF Confined, Bare

\* Nothing was written yet.
LEMMA RewrittenSelf ==
  ASSUME NEW m \in SUBSET Regions, Disjoint(m)
  PROVE  m \in Rewritten(m)
  BY DEF Rewritten

\* f performs the writes of the values W at the addresses A, one word each.
WritesBy(f, m, A, W, C, S) ==
  f = [s \in SUBSET S |->
         IF s = {} THEN m ELSE writeBytes(f[s \ {C[s]}], A[C[s]], 4, W[C[s]])]

LEMMA WritesExist ==
  ASSUME NEW S, IsFiniteSet(S), NEW m \in SUBSET Regions, Disjoint(m),
         NEW A \in [S -> Int], NEW W \in [S -> Nat], NEW C, Picks(C, S),
         \A j \in S : Permitted(m, A[j], 4, "write")
  PROVE  \E f : WritesBy(f, m, A, W, C, S)
<1> DEFINE V == Rewritten(m)
           G == [z \in S \X V |-> writeBytes(z[2], A[z[1]], 4, W[z[1]])]
<1>1. \A x \in S, v \in V : writeBytes(v, A[x], 4, W[x]) \in V
  <2> SUFFICES ASSUME NEW x \in S, NEW v \in V PROVE writeBytes(v, A[x], 4, W[x]) \in V
    OBVIOUS
  <2>1. A[x] \in Int /\ W[x] \in Nat /\ 4 \in Nat /\ 4 > 0 /\ Permitted(m, A[x], 4, "write")
    OBVIOUS
  <2> QED BY <2>1, WriteKeeps
<1>2. G \in [S \X V -> V] /\ \A x \in S, v \in V : G[<<x, v>>] = writeBytes(v, A[x], 4, W[x])
  <2> HIDE DEF V
  <2> QED BY <1>1
<1>3. m \in V
  BY RewrittenSelf
<1> HIDE DEF V, G
<1>4. PICK f \in [SUBSET S -> V] : FoldsBy(f, m, G, C, S)
  BY <1>2, <1>3, FoldExists
<1>5. PICK g : g = f
  OBVIOUS
<1>6. f = [s \in SUBSET S |-> IF s = {} THEN m ELSE G[<<C[s], g[s \ {C[s]}]>>]]
  BY <1>4, <1>5 DEF FoldsBy
<1>7. \A s \in SUBSET S : s # {} => C[s] \in S /\ g[s \ {C[s]}] \in V
  BY <1>4, <1>5 DEF Picks
<1>8. \A s \in SUBSET S : s # {} =>
        G[<<C[s], g[s \ {C[s]}]>>] = writeBytes(g[s \ {C[s]}], A[C[s]], 4, W[C[s]])
  BY <1>2, <1>7
<1>9. f = [s \in SUBSET S |->
             IF s = {} THEN m ELSE writeBytes(g[s \ {C[s]}], A[C[s]], 4, W[C[s]])]
  BY <1>6, <1>8
<1> QED BY <1>5, <1>9, Zenon DEF WritesBy

LEMMA WritesInside ==
  ASSUME NEW S, IsFiniteSet(S), NEW m \in SUBSET Regions, Disjoint(m),
         NEW A \in [S -> Int], NEW W \in [S -> Nat], NEW C, Picks(C, S),
         \A j \in S : Permitted(m, A[j], 4, "write"), NEW f, WritesBy(f, m, A, W, C, S)
  PROVE  f[S] \in Rewritten(m)
<1>1. \A s \in SUBSET S :
        f[s] = IF s = {} THEN m ELSE writeBytes(f[s \ {C[s]}], A[C[s]], 4, W[C[s]])
  <2>1. PICK g : g = f
    OBVIOUS
  <2>2. f = [s \in SUBSET S |->
               IF s = {} THEN m ELSE writeBytes(g[s \ {C[s]}], A[C[s]], 4, W[C[s]])]
    BY <2>1 DEF WritesBy
  <2> QED BY <2>1, <2>2
<1>2. f[{}] \in Rewritten(m)
  <2>1. \A s \in SUBSET S : s = {} => f[s] = m
    BY <1>1
  <2>2. {} \in SUBSET S
    OBVIOUS
  <2>3. f[{}] = m
    BY <2>1, <2>2, Zenon
  <2> QED BY <2>3, RewrittenSelf
<1>3. ASSUME NEW s \in SUBSET S, s # {}, f[s \ {C[s]}] \in Rewritten(m)
      PROVE  f[s] \in Rewritten(m)
  <2>1. f[s] = writeBytes(f[s \ {C[s]}], A[C[s]], 4, W[C[s]])
    BY <1>1, <1>3
  <2>2. PICK x \in S : x = C[s]
    BY <1>3 DEF Picks
  <2>3. A[x] \in Int /\ W[x] \in Nat /\ 4 \in Nat /\ 4 > 0 /\ Permitted(m, A[x], 4, "write")
    OBVIOUS
  <2>4. writeBytes(f[s \ {C[s]}], A[x], 4, W[x]) \in Rewritten(m)
    BY <1>3, <2>3, WriteKeeps
  <2> QED BY <2>1, <2>2, <2>4
<1> QED BY <1>2, <1>3, FoldInside

\* Word and half have a positive modulus.
LEMMA Moduli ==
  /\ WordBits \in Nat /\ WordBits >= 4 /\ ByteBits \in Nat /\ ByteBits > 0
  /\ Modulus \in Nat /\ Modulus > 0 /\ HalfModulus \in Nat /\ HalfModulus > 0
<1>1. ByteBits \in Nat /\ ByteBits > 0 /\ 4 * ByteBits \in Nat /\ 2 * ByteBits \in Nat /\ 4 * ByteBits >= 4
  BY ByteBitsAssumption
<1> QED BY <1>1, Powers DEF WordBits, Modulus, HalfModulus

LEMMA WrapNat ==
  ASSUME NEW v \in Int
  PROVE  Wrap(v) \in Nat /\ Wrap(v) \in Word
<1>1. PICK d \in Nat : d = Modulus /\ d > 0
  BY Moduli
<1>2. v % d \in 0 .. d - 1
  BY <1>1
<1> QED BY <1>1, <1>2 DEF Wrap, Word

\* Words are natural numbers, and so are their bytes.
LEMMA WordsNat == Word \subseteq Nat /\ Byte \subseteq Nat
<1>1. PICK d \in Nat : d = Modulus
  BY Moduli
<1>2. PICK b \in Nat : b = 2 ^ ByteBits
  BY Moduli, Powers
<1> QED BY <1>1, <1>2 DEF Word, Byte

LEMMA WordBelow ==
  ASSUME NEW x \in Word, NEW y \in Nat, y <= x
  PROVE  y \in Word
<1>1. PICK d \in Nat : d = Modulus
  BY Moduli
<1> QED BY <1>1 DEF Word


\* What is read in up to four bytes is a word.
LEMMA BytesAreWords ==
  ASSUME NEW size \in {1, 2, 4}
  PROVE  0 .. 2 ^ (ByteBits * size) - 1 \subseteq Word
<1>1. PICK n \in Nat : n = ByteBits * size /\ n <= WordBits /\ WordBits \in Nat
  BY Moduli DEF WordBits
<1>2. 2 ^ n <= 2 ^ WordBits /\ 2 ^ n \in Nat /\ 2 ^ WordBits \in Nat
  BY <1>1, PowerInside, Powers
<1> QED BY <1>1, <1>2 DEF Word, Modulus

LEMMA WordRead ==
  ASSUME NEW m \in SUBSET Regions, NEW address \in Int, NEW size \in {1, 2, 4}, NEW perm,
         Permitted(m, address, size, perm)
  PROVE  readBytes(m, address, size) \in Word
<1>1. PICK n \in Nat : n = size
  OBVIOUS
<1>2. find(m, address, n) # {}
  BY <1>1 DEF Permitted
<1>3. readBytes(m, address, n) \in 0 .. 2 ^ (ByteBits * n) - 1
  BY <1>2, ReadIn
<1> QED BY <1>1, <1>3, BytesAreWords

\* stmw: words that may all be written.
LEMMA StoreWordsKeep ==
  ASSUME NEW m \in SUBSET Regions, Disjoint(m), NEW ea \in Int, NEW first, NEW n \in Nat,
         \A j \in 0 .. n - 1 : cpu.gpr[first + j] \in Nat /\ Permitted(m, Wrap(ea + 4 * j), 4, "write")
  PROVE  storeWords(m, ea, first, n) \in Rewritten(m)
<1> DEFINE S == 0 .. n - 1
           A == [j \in S |-> Wrap(ea + 4 * j)]
           W == [j \in S |-> cpu.gpr[first + j]]
           C == [s \in SUBSET S |-> CHOOSE x \in s : TRUE]
           T(g) == [s \in SUBSET S |-> IF s = {} THEN m
                      ELSE writeBytes(g[s \ {CHOOSE x \in s : TRUE}], Wrap(ea + 4 * (CHOOSE x \in s : TRUE)), 4, cpu.gpr[first + (CHOOSE x \in s : TRUE)])]
<1>1. IsFiniteSet(S) /\ A \in [S -> Int] /\ W \in [S -> Nat]
  <2>1. \A j \in S : A[j] \in Int
    BY WrapNat
  <2>2. IsFiniteSet(S)
    BY FS_Interval
  <2> QED BY <2>1, <2>2
<1>2. Picks(C, S)
  BY DEF Picks
<1>3. \A j \in S : Permitted(m, A[j], 4, "write")
  OBVIOUS
<1>4. \A g : WritesBy(g, m, A, W, C, S) <=> g = T(g)
  <2> SUFFICES ASSUME NEW g
               PROVE  [s \in SUBSET S |-> IF s = {} THEN m
                         ELSE writeBytes(g[s \ {C[s]}], A[C[s]], 4, W[C[s]])] = T(g)
    BY DEF WritesBy
  <2>1. \A s \in SUBSET S : s # {} => C[s] \in S /\ C[s] = CHOOSE x \in s : TRUE
    <3>1. \A s \in SUBSET S : C[s] = CHOOSE x \in s : TRUE
      OBVIOUS
    <3> HIDE DEF C
    <3> QED BY <1>2, <3>1 DEF Picks
  <2>2. \A j \in S : A[j] = Wrap(ea + 4 * j) /\ W[j] = cpu.gpr[first + j]
    OBVIOUS
  <2> HIDE DEF S, A, W, C
  <2>3. \A s \in SUBSET S : s # {} =>
          A[C[s]] = Wrap(ea + 4 * (CHOOSE x \in s : TRUE)) /\ W[C[s]] = cpu.gpr[first + (CHOOSE x \in s : TRUE)]
    BY <2>1, <2>2
  <2> QED BY <2>1, <2>3
<1>5. \E g : g = T(g)
  <2> HIDE DEF S, A, W, C, T
  <2> QED BY <1>1, <1>2, <1>3, <1>4, WritesExist
<1>6. \E g : g = T(g) /\ storeWords(m, ea, first, n) = g[S]
  BY <1>5, Zenon DEF storeWords, FoldSet, MapThenFoldSet
<1> HIDE DEF S, A, W, C, T
<1> QED BY <1>1, <1>2, <1>3, <1>4, <1>6, WritesInside

\* Writes at the start of a call, as far as they are permitted.
LEMMA WriteFirstKeeps ==
  ASSUME NEW m \in SUBSET Regions, Disjoint(m), NEW k, NEW n \in Nat, NEW q,
         q = SubSeq(k.writes, 1, n), DOMAIN q = 1 .. n,
         \A j \in 1 .. n : /\ q[j].address \in Int /\ q[j].value \in Nat
                            /\ Permitted(m, q[j].address, 4, "write")
  PROVE  WriteFirst(k, m, n) \in Rewritten(m)
<1> DEFINE S == DOMAIN q
           A == [j \in S |-> q[j].address]
           W == [j \in S |-> q[j].value]
           C == [s \in SUBSET S |-> Max(s)]
           T(g) == [s \in SUBSET S |-> IF s = {} THEN m
                      ELSE writeBytes(g[s \ {Max(s)}], q[Max(s)].address, 4, q[Max(s)].value)]
<1>1. IsFiniteSet(S) /\ A \in [S -> Int] /\ W \in [S -> Nat]
  <2>1. IsFiniteSet(1 .. n)
    BY FS_Interval
  <2> QED BY <2>1
<1>2. Picks(C, S)
  <2>1. \A s \in SUBSET S : s # {} => Max(s) \in s
    <3> SUFFICES ASSUME NEW s \in SUBSET S, s # {} PROVE Max(s) \in s
      OBVIOUS
    <3>1. s \in SUBSET Nat /\ \A x \in s : x <= n
      OBVIOUS
    <3> QED BY <3>1, MaxInside
  <2> QED BY <2>1 DEF Picks
<1>3. \A j \in S : Permitted(m, A[j], 4, "write")
  OBVIOUS
<1>4. \A g : WritesBy(g, m, A, W, C, S) <=> g = T(g)
  <2> SUFFICES ASSUME NEW g
               PROVE  [s \in SUBSET S |-> IF s = {} THEN m
                         ELSE writeBytes(g[s \ {C[s]}], A[C[s]], 4, W[C[s]])] = T(g)
    BY DEF WritesBy
  <2>1. \A s \in SUBSET S : s # {} => C[s] \in S /\ C[s] = Max(s)
    <3>1. \A s \in SUBSET S : C[s] = Max(s)
      OBVIOUS
    <3> HIDE DEF C
    <3> QED BY <1>2, <3>1 DEF Picks
  <2>2. \A j \in S : A[j] = q[j].address /\ W[j] = q[j].value
    OBVIOUS
  <2> HIDE DEF S, A, W, C
  <2>3. \A s \in SUBSET S : s # {} =>
          A[C[s]] = q[Max(s)].address /\ W[C[s]] = q[Max(s)].value
    BY <2>1, <2>2
  <2> QED BY <2>1, <2>3
<1>5. \E g : g = T(g)
  <2> HIDE DEF S, A, W, C, T
  <2> QED BY <1>1, <1>2, <1>3, <1>4, WritesExist
<1>6. \E g : g = T(g) /\ WriteFirst(k, m, n) = g[S]
  <2>1. WriteFirst(k, m, n) = FoldLeft(LAMBDA acc, w : writeBytes(acc, w.address, 4, w.value), m, q)
    BY Zenon DEF WriteFirst
  <2> QED BY <1>5, <2>1, Zenon DEF FoldLeft, MapThenFoldSet
<1> HIDE DEF S, A, W, C, T
<1>7. PICK g : g = T(g) /\ WriteFirst(k, m, n) = g[S]
  BY <1>6
<1>8. WritesBy(g, m, A, W, C, S)
  BY <1>4, <1>7
<1>9. g[S] \in Rewritten(m)
  BY <1>1, <1>2, <1>3, <1>8, WritesInside
<1> QED BY <1>7, <1>9

-----------------------------------------------------------------------------
(* Registers hold words *)

LEMMA BitNat ==
  ASSUME NEW x \in Nat, NEW i \in Nat
  PROVE  Bit(x, i) \in {0, 1} /\ Bit(x, i) * 2 ^ i <= x /\ 2 ^ i \in Nat
<1>1. PICK d \in Nat : d = 2 ^ i /\ d > 0
  BY Powers
<1>2. PICK q \in Nat : q = x \div d
  BY <1>1
<1>3. q * d <= x
  BY <1>1, <1>2
<1>4. q % 2 \in {0, 1} /\ (q % 2 = 1 => q >= 1)
  OBVIOUS
<1>5. q >= 1 => d <= x
  BY <1>1, <1>3
<1>6. Bit(x, i) = q % 2
  BY <1>1, <1>2 DEF Bit
<1>7. CASE q % 2 = 0
  BY <1>1, <1>6, <1>7
<1>8. CASE q % 2 = 1
  BY <1>1, <1>4, <1>5, <1>6, <1>8
<1> QED BY <1>4, <1>7, <1>8

\* A word in which a bit is set or cleared.
LEMMA SetBitIn ==
  ASSUME NEW x \in Word, NEW i \in 0 .. WordBits - 1, NEW on
  PROVE  SetBit(x, i, on) \in Word
<1>1. PICK P \in Nat : P = 2 ^ i /\ P > 0
  BY Powers, Moduli
<1>2. i \in Nat /\ i + 1 \in Nat /\ i + 1 <= WordBits /\ WordBits \in Nat
  BY Moduli
<1>3. PICK K \in Nat : K = 2 ^ (WordBits - (i + 1)) /\ Modulus = K * 2 ^ (i + 1)
  BY <1>2, PowerInside DEF Modulus
<1>4. Modulus = K * (2 * P)
  BY <1>1, <1>2, <1>3, PowerStep
<1>5. PICK b \in 0 .. 1 : b = IF on THEN 1 ELSE 0
  OBVIOUS
<1>6. PICK d : d = (x \div P) % 2
  OBVIOUS
<1>9. SetBit(x, i, on) = x + (b - d) * P
  BY <1>1, <1>5, <1>6, Zenon DEF SetBit, Bit
<1>7. x \in 0 .. K * (2 * P) - 1
  BY <1>4 DEF Word
<1>8. x + (b - d) * P \in 0 .. K * (2 * P) - 1
  <2>1. P > 0 /\ 2 \in Nat /\ 2 > 0 /\ b \in 0 .. 2 - 1
    BY <1>1
  <2> QED BY <1>6, <1>7, <2>1, DigitReplaced, Zenon
<1> QED BY <1>4, <1>8, <1>9 DEF Word

LEMMA NibbleIn ==
  ASSUME NEW x \in Nat, NEW f \in Fields
  PROVE  Nibble(x, f) \in 0 .. 15
<1>1. FieldShift(f) \in Nat
  BY Moduli DEF FieldShift, Fields, WordBits
<1>2. PICK q \in Nat : q = x \div 2 ^ FieldShift(f)
  BY <1>1, Parts
<1>3. q % 16 \in 0 .. 15
  OBVIOUS
<1> QED BY <1>2, <1>3 DEF Nibble

\* A word in which a field is replaced.
LEMMA PutNibbleIn ==
  ASSUME NEW x \in Word, NEW f \in Fields, NEW n \in 0 .. 15
  PROVE  PutNibble(x, f, n) \in Word
<1>1. PICK s \in Nat : s = FieldShift(f) /\ s + 4 <= WordBits /\ s + 4 \in Nat /\ WordBits \in Nat
  BY Moduli DEF FieldShift, Fields, WordBits
<1>2. PICK P \in Nat : P = 2 ^ s /\ P > 0
  BY <1>1, Powers
<1>3. PICK K \in Nat : K = 2 ^ (WordBits - (s + 4)) /\ Modulus = K * 2 ^ (s + 4)
  BY <1>1, PowerInside DEF Modulus
<1>4. 2 ^ (s + 4) = 16 * P
  <2>1. 2 ^ (s + 1) = 2 * P
    BY <1>2, PowerStep
  <2>2. 2 ^ (s + 2) = 4 * P
    <3>1. s + 2 = (s + 1) + 1 /\ s + 1 \in Nat
      OBVIOUS
    <3> QED BY <2>1, <3>1, PowerStep
  <2>3. 2 ^ (s + 3) = 8 * P
    <3>1. s + 3 = (s + 2) + 1 /\ s + 2 \in Nat
      OBVIOUS
    <3> QED BY <2>2, <3>1, PowerStep
  <2>4. s + 4 = (s + 3) + 1 /\ s + 3 \in Nat
    OBVIOUS
  <2> QED BY <2>3, <2>4, PowerStep
<1>5. Modulus = K * (16 * P)
  BY <1>3, <1>4
<1>6. PICK d : d = (x \div P) % 16
  OBVIOUS
<1>9. PutNibble(x, f, n) = x + (n - d) * P
  BY <1>1, <1>2, <1>6, Zenon DEF PutNibble, Nibble
<1>7. x \in 0 .. K * (16 * P) - 1
  BY <1>5 DEF Word
<1>8. x + (n - d) * P \in 0 .. K * (16 * P) - 1
  <2>1. P > 0 /\ 16 \in Nat /\ 16 > 0 /\ n \in 0 .. 16 - 1
    BY <1>2
  <2> QED BY <1>6, <1>7, <2>1, DigitReplaced, Zenon
<1> QED BY <1>5, <1>8, <1>9 DEF Word

\* XER has three bits above the rest.
LEMMA XerPlaces ==
  /\ 2 ^ CA \in Nat /\ 2 ^ CA > 0 /\ 2 ^ OV = 2 * 2 ^ CA /\ 2 ^ SO = 4 * 2 ^ CA
  /\ Modulus = 8 * 2 ^ CA
<1>1. PICK w \in Nat : w = CA /\ w + 1 = OV /\ (w + 1) + 1 = SO /\ ((w + 1) + 1) + 1 = WordBits
  BY Moduli DEF CA, OV, SO
<1>2. PICK p \in Nat : p = 2 ^ w /\ p > 0
  BY Powers
<1>3. 2 ^ OV = 2 * p
  BY <1>1, <1>2, PowerStep
<1>4. 2 ^ SO = 4 * p
  <2>1. w + 1 \in Nat
    OBVIOUS
  <2> QED BY <1>1, <1>3, <2>1, PowerStep
<1>5. 2 ^ WordBits = 8 * p
  <2>1. (w + 1) + 1 \in Nat
    OBVIOUS
  <2> QED BY <1>1, <1>4, <2>1, PowerStep
<1> QED BY <1>1, <1>2, <1>3, <1>4, <1>5 DEF Modulus

\* The flags of an XER with q above the rest r.
LEMMA XerBits ==
  ASSUME NEW q \in 0 .. 7, NEW r \in 0 .. 2 ^ CA - 1
  PROVE  /\ Bit(q * 2 ^ CA + r, CA) = q % 2
         /\ Bit(q * 2 ^ CA + r, OV) = (q \div 2) % 2
         /\ Bit(q * 2 ^ CA + r, SO) = q \div 4
<1>1. PICK p \in Nat : p = 2 ^ CA /\ p > 0 /\ r \in 0 .. p - 1
  BY XerPlaces
<1>2. PICK x \in Nat : x = q * p + r
  BY <1>1
<1>3. x \div p = q
  <2>1. q * p <= x /\ x < q * p + p /\ q \in Int /\ x \in Int /\ p > 0
    BY <1>1, <1>2
  <2> QED BY <2>1, QuotientIs, Zenon
<1>4. PICK d \in Nat : d = 2 * p /\ d > 0
  BY <1>1
<1>5. PICK f \in Nat : f = 4 * p /\ f > 0
  BY <1>1
<1>6. x \div d = q \div 2
  <2>1. PICK c \in 0 .. 3 : c = q \div 2 /\ (q = 2 * c \/ q = 2 * c + 1)
    OBVIOUS
  <2>3. PICK k \in Nat : k = c * p
    BY <1>1
  <2>4. c * d = 2 * k /\ (q * p = 2 * k \/ q * p = 2 * k + p)
    BY <1>4, <2>1, <2>3
  <2>5. PICK a \in Nat : a = q * p
    BY <1>1
  <2>6. PICK b \in Nat : b = c * d
    BY <1>4
  <2>8. b = 2 * k /\ (a = 2 * k \/ a = 2 * k + p)
    BY <2>4, <2>5, <2>6
  <2>9. x = a + r
    BY <1>2, <2>5
  <2>7. b <= x /\ x < b + d
    BY <1>1, <1>4, <2>8, <2>9
  <2>2. c * d <= x /\ x < c * d + d
    BY <2>6, <2>7
  <2> QED BY <1>4, <2>1, <2>2, QuotientIs
<1>7. x \div f = q \div 4
  <2>1. PICK c \in 0 .. 1 : c = q \div 4 /\ 4 * c <= q /\ q <= 4 * c + 3
    OBVIOUS
  <2>2. c * f <= x /\ x < c * f + f
    BY <1>1, <1>2, <1>5, <2>1
  <2> QED BY <1>5, <2>1, <2>2, QuotientIs
<1>8. (q \div 4) % 2 = q \div 4
  OBVIOUS
<1>9. Bit(x, CA) = (x \div p) % 2 /\ Bit(x, OV) = (x \div d) % 2 /\ Bit(x, SO) = (x \div f) % 2
  BY <1>1, <1>4, <1>5, XerPlaces DEF Bit
<1>10. Bit(x, CA) = q % 2 /\ Bit(x, OV) = (q \div 2) % 2 /\ Bit(x, SO) = q \div 4
  BY <1>3, <1>6, <1>7, <1>8, <1>9
<1> QED BY <1>1, <1>2, <1>10

\* The flags that a word holds in XER.
LEMMA XerParts ==
  ASSUME NEW x \in Word
  PROVE  \E q \in 0 .. 7, r \in 0 .. 2 ^ CA - 1 : x = q * 2 ^ CA + r
<1>1. PICK p \in Nat : p = 2 ^ CA /\ p > 0 /\ Modulus = 8 * p
  BY XerPlaces
<1>2. x \in Int /\ x >= 0 /\ x < 8 * p
  BY <1>1 DEF Word
<1>3. PICK q \in Int, r \in 0 .. p - 1 : x = q * p + r /\ (x >= 0 => q \in Nat)
  BY <1>1, <1>2, DivMod
<1>4. q < 8
  <2> SUFFICES ASSUME q >= 8 PROVE FALSE
    OBVIOUS
  <2>1. PICK k \in Nat : q = 8 + k
    <3>1. q - 8 \in Nat /\ q = 8 + (q - 8)
      OBVIOUS
    <3> QED BY <3>1
  <2>2. q * p = 8 * p + k * p /\ k * p \in Nat
    BY <2>1
  <2> QED BY <1>2, <1>3, <2>2
<1>5. q \in 0 .. 7
  BY <1>2, <1>3, <1>4
<1> QED BY <1>1, <1>3, <1>5

\* The flags of XER and the first field of CR exist.
LEMMA FlagsExist ==
  /\ SO \in Nat /\ OV \in Nat /\ CA \in Nat /\ 0 \in Fields
  /\ SO \in 0 .. WordBits - 1 /\ OV \in 0 .. WordBits - 1 /\ CA \in 0 .. WordBits - 1
  BY Moduli DEF SO, OV, CA, Fields

LEMMA FlagsKeep ==
  ASSUME NEW c \in Cpus, NEW on
  PROVE  setCarry(c, on) \in Cpus /\ setOverflow(c, on) \in Cpus
<1>1. \A x \in Word : SetBit(x, CA, on) \in Word
  BY FlagsExist, SetBitIn
<1>2. \A x \in Word : SetBit(IF on THEN SetBit(x, SO, TRUE) ELSE x, OV, on) \in Word
  BY FlagsExist, SetBitIn
<1>3. ASSUME NEW y \in Word PROVE [c EXCEPT !.xer = y] \in Cpus
  BY DEF Cpus
<1>4. c.xer \in Word
  BY DEF Cpus
<1> QED BY <1>1, <1>2, <1>3, <1>4 DEF setCarry, setOverflow

LEMMA FieldKeeps ==
  ASSUME NEW c \in Cpus, NEW f \in Fields, NEW less, NEW greater, NEW equal, NEW so
  PROVE  setCrField(c, f, less, greater, equal, so) \in Cpus
<1>1. PICK n \in 0 .. 15 : n = (IF less THEN 8 ELSE 0) + (IF greater THEN 4 ELSE 0)
                             + (IF equal THEN 2 ELSE 0) + (IF so THEN 1 ELSE 0)
  OBVIOUS
<1>2. c.cr \in Word
  BY DEF Cpus
<1>3. PICK v \in Word : v = PutNibble(c.cr, f, n)
  BY <1>2, PutNibbleIn
<1>4. setCrField(c, f, less, greater, equal, so) = [c EXCEPT !.cr = v]
  BY <1>1, <1>3 DEF setCrField
<1> QED BY <1>3, <1>4 DEF Cpus

LEMMA CompareKeeps ==
  ASSUME NEW c \in Cpus, NEW f \in Fields, NEW a, NEW b
  PROVE  setCompare(c, f, a, b) \in Cpus
  BY FieldKeeps DEF setCompare

LEMMA RecordKeeps ==
  ASSUME NEW c \in Cpus, NEW i, NEW r
  PROVE  updateCr0(c, i, r) \in Cpus
  BY CompareKeeps, FlagsExist DEF updateCr0

LEMMA AssignKeeps ==
  ASSUME NEW c \in Cpus, NEW r, NEW v \in Word
  PROVE  /\ [c EXCEPT !.gpr[r] = v] \in Cpus /\ [c EXCEPT !.gpr = [@ EXCEPT ![r] = v]] \in Cpus
         /\ [c EXCEPT !.pc = v] \in Cpus /\ [c EXCEPT !.lr = v] \in Cpus /\ [c EXCEPT !.ctr = v] \in Cpus
         /\ [c EXCEPT !.xer = v] \in Cpus /\ [c EXCEPT !.cr = v] \in Cpus
  BY DEF Cpus

LEMMA CpuFields ==
  ASSUME NEW c \in Cpus
  PROVE  /\ c.gpr \in [Regs -> Word] /\ c.gpr \in [Regs -> Nat] /\ c.pc \in Word /\ c.pc \in Nat
         /\ c.lr \in Word /\ c.lr \in Nat /\ c.ctr \in Word /\ c.ctr \in Nat
         /\ c.cr \in Word /\ c.cr \in Nat /\ c.xer \in Word /\ c.xer \in Nat
  BY WordsNat DEF Cpus

LEMMA SignedInt ==
  ASSUME NEW x \in Int
  PROVE  Signed(x) \in Int /\ Not(x) \in Int /\ signExtend16(x) \in Int /\ signExtend8(x) \in Int
<1>1. PICK d \in Nat : d = Modulus
  BY Moduli
<1>2. PICK e \in Nat : e = HalfModulus
  BY Moduli
<1>3. PICK b \in Nat : b = 2 ^ ByteBits
  BY Moduli, Powers
<1> QED BY <1>1, <1>2, <1>3 DEF Signed, Not, signExtend16, signExtend8

LEMMA WideInt ==
  ASSUME NEW op \in AddSub, NEW a \in Nat, NEW b \in Nat, NEW ca \in {0, 1}
  PROVE  Wide(op, a, b, ca) \in Int
<1>1. Not(a) \in Int /\ Modulus \in Int
  BY SignedInt, Moduli
<1> HIDE DEF Not, Modulus
<1>2. op \in {"add", "addc", "adde", "addze", "addme", "subf", "subfc", "subfe", "subfze", "subfme", "neg"}
  BY DEF AddSub, Extended
<1> QED BY <1>1, <1>2 DEF Wide

LEMMA AddSubKeeps ==
  ASSUME NEW c \in Cpus, NEW i, WellEncoded(i), i.op \in AddSub
  PROVE  addSub(c, i) \in Cpus
<1> DEFINE ca   == Bit(c.xer, CA)
           wide == Wide(i.op, c.gpr[i.ra], c.gpr[i.rb], ca)
           g    == [c.gpr EXCEPT ![i.rt] = Wrap(wide)]
           c1   == [c EXCEPT !.gpr = g]
           c2   == IF i.op \in Extended THEN setCarry(c1, wide >= Modulus) ELSE c1
           c3   == IF i.oe THEN setOverflow(c2, Overflows(i.op, g[i.ra], g[i.rb], g[i.rt], ca)) ELSE c2
<1>1. addSub(c, i) = updateCr0(c3, i, i.rt)
  BY DEF addSub
<1> HIDE DEF ca, wide, g, c1, c2, c3
<1>2. c.gpr[i.ra] \in Nat /\ c.gpr[i.rb] \in Nat
  BY CpuFields DEF WellEncoded
<1>3. ca \in {0, 1}
  BY CpuFields, BitNat, FlagsExist DEF ca
<1>4. wide \in Int
  BY <1>2, <1>3, WideInt DEF wide
<1>5. g \in [Regs -> Word]
  BY <1>4, WrapNat, CpuFields DEF g
<1>6. c1 \in Cpus
  BY <1>5 DEF Cpus, c1
<1>7. c2 \in Cpus
  BY <1>6, FlagsKeep DEF c2
<1>8. c3 \in Cpus
  BY <1>7, FlagsKeep DEF c3
<1> QED BY <1>1, <1>8, RecordKeeps

LEMMA QuotientInt ==
  ASSUME NEW a \in Int, NEW b \in Int, b # 0
  PROVE  Quotient(a, b) \in Int
<1>1. PICK x \in Nat : x = IF a < 0 THEN -a ELSE a
  OBVIOUS
<1>2. PICK y \in Nat : y > 0 /\ y = IF b < 0 THEN -b ELSE b
  OBVIOUS
<1>3. PICK q \in Int : q = x \div y
  BY <1>1, <1>2
<1>4. Quotient(a, b) = IF (a < 0) = (b < 0) THEN q ELSE -q
  BY <1>1, <1>2, <1>3 DEF Quotient
<1> QED BY <1>4

LEMMA MulDivKeeps ==
  ASSUME NEW c \in Cpus, NEW i, WellEncoded(i), i.op \in {"mullw", "mulhw", "mulhwu", "divw", "divwu"}
  PROVE  mulDiv(c, i) \in Cpus
<1> DEFINE a == c.gpr[i.ra]
           b == c.gpr[i.rb]
           product == Signed(a) * Signed(b)
           invalid == IF i.op = "divw"
                      THEN Signed(b) = 0 \/ (2 * Signed(a) = -Modulus /\ Signed(b) = -1)
                      ELSE b = 0
           value == CASE i.op = "mullw"  -> product
                      [] i.op = "mulhw"  -> product \div Modulus
                      [] i.op = "mulhwu" -> (a * b) \div Modulus
                      [] i.op = "divw"   -> IF invalid THEN 0 ELSE Quotient(Signed(a), Signed(b))
                      [] i.op = "divwu"  -> IF invalid THEN 0 ELSE a \div b
           c1 == [c EXCEPT !.gpr[i.rt] = Wrap(value)]
           c2 == IF i.oe THEN setOverflow(c1, IF i.op = "mullw" THEN OutOfRange(product) ELSE invalid)
                 ELSE c1
<1>1. mulDiv(c, i) = updateCr0(c2, i, i.rt)
  BY DEF mulDiv
<1> HIDE DEF a, b, product, invalid, value, c1, c2
<1>2. a \in Nat /\ b \in Nat
  BY CpuFields DEF WellEncoded, a, b
<1>3. product \in Int
  BY <1>2, SignedInt DEF product
<1>4. product \div Modulus \in Int /\ (a * b) \div Modulus \in Int
  <2>1. PICK d \in Nat : d = Modulus /\ d > 0
    BY Moduli
  <2>2. PICK e \in Nat : e = a * b
    BY <1>2
  <2>3. product \div d \in Int /\ e \div d \in Int
    BY <1>3, <2>1
  <2> QED BY <2>1, <2>2, <2>3
<1>5. i.op = "divw" /\ ~invalid => Quotient(Signed(a), Signed(b)) \in Int
  BY <1>2, SignedInt, QuotientInt DEF invalid
<1>6. i.op = "divwu" /\ ~invalid => a \div b \in Int
  BY <1>2 DEF invalid
<1>7. value \in Int
  BY <1>3, <1>4, <1>5, <1>6 DEF value
<1>8. c1 \in Cpus
  BY <1>7, WrapNat, AssignKeeps DEF c1
<1>9. c2 \in Cpus
  BY <1>8, FlagsKeep DEF c2
<1> QED BY <1>1, <1>9, RecordKeeps

LEMMA ImmediateKeeps ==
  ASSUME NEW c \in Cpus, NEW i, WellEncoded(i),
         i.op \in {"addi", "addis", "addic", "subfic", "mulli"}
  PROVE  immediate(c, i) \in Cpus
<1> DEFINE simm == signExtend16(i.imm)
           base == IF i.ra = 0 THEN 0 ELSE c.gpr[i.ra]
           wide == CASE i.op = "addi"   -> base + simm
                     [] i.op = "addis"  -> base + simm * HalfModulus
                     [] i.op = "addic"  -> c.gpr[i.ra] + Wrap(simm)
                     [] i.op = "subfic" -> Wrap(simm) + Not(c.gpr[i.ra]) + 1
                     [] i.op = "mulli"  -> Signed(c.gpr[i.ra]) * simm
           c1   == [c EXCEPT !.gpr[i.rt] = Wrap(wide)]
           c2   == IF i.op \in {"addic", "subfic"} THEN setCarry(c1, wide >= Modulus) ELSE c1
<1>1. immediate(c, i) = updateCr0(c2, i, i.rt)
  BY DEF immediate
<1> HIDE DEF simm, base, wide, c1, c2
<1>2. i.imm \in Int /\ c.gpr[i.ra] \in Nat /\ base \in Nat
  BY CpuFields, Moduli DEF WellEncoded, Half, base
<1>3. simm \in Int
  BY <1>2, SignedInt DEF simm
<1>4. Wrap(simm) \in Nat /\ Not(c.gpr[i.ra]) \in Int /\ Signed(c.gpr[i.ra]) \in Int /\ HalfModulus \in Nat
  BY <1>2, <1>3, SignedInt, WrapNat, Moduli
<1>5. simm * HalfModulus \in Int /\ Signed(c.gpr[i.ra]) * simm \in Int
  BY <1>3, <1>4
<1>6. wide \in Int
  BY <1>2, <1>3, <1>4, <1>5 DEF wide
<1>7. c1 \in Cpus
  BY <1>6, WrapNat, AssignKeeps DEF c1
<1>8. c2 \in Cpus
  BY <1>7, FlagsKeep DEF c2
<1> QED BY <1>1, <1>8, RecordKeeps

LEMMA BitSetIn ==
  ASSUME NEW S \in SUBSET (0 .. WordBits - 1)
  PROVE  FromBits(S) \in Word
<1>1. PICK n \in Nat : n = WordBits
  BY Moduli
<1>2. FromBits(S) \in 0 .. 2 ^ n - 1
  BY <1>1, BitsBelow
<1> QED BY <1>1, <1>2 DEF Word, Modulus

LEMMA CombineInside ==
  ASSUME NEW op \in Logical, NEW x \in SUBSET (0 .. WordBits - 1), NEW y \in SUBSET (0 .. WordBits - 1)
  PROVE  Combine(op, x, y) \in SUBSET (0 .. WordBits - 1)
<1>1. PICK W : W = 0 .. WordBits - 1
  OBVIOUS
<1>2. op \in {"and", "or", "xor", "nand", "nor", "eqv", "andc", "orc"}
  BY DEF Logical
<1> QED BY <1>1, <1>2 DEF Combine, SymDiff

LEMMA LogicalKeeps ==
  ASSUME NEW c \in Cpus, NEW d \in Cpus, NEW i, WellEncoded(i), i.op \in Logical
  PROVE  updateCr0([d EXCEPT !.gpr[i.ra] =
                      FromBits(Combine(i.op, Bits(c.gpr[i.rt]), SecondBits(c, i)))], i, i.ra) \in Cpus
<1>1. \A x : Bits(x) \in SUBSET (0 .. WordBits - 1)
  BY DEF Bits
<1>2. SecondBits(c, i) \in SUBSET (0 .. WordBits - 1)
  BY <1>1 DEF SecondBits, WellEncoded
<1>3. FromBits(Combine(i.op, Bits(c.gpr[i.rt]), SecondBits(c, i))) \in Word
  BY <1>1, <1>2, CombineInside, BitSetIn
<1> QED BY <1>3, AssignKeeps, RecordKeeps

LEMMA RotateKeeps ==
  ASSUME NEW c \in Cpus, NEW i
  PROVE  rotate(c, i) \in Cpus
<1> DEFINE mask == Bits(ppcMask(i.mb, i.me))
           n    == IF i.op = "rlwnm" THEN c.gpr[i.rb] % WordBits ELSE i.rb
           kept == IF i.op = "rlwimi" THEN Bits(c.gpr[i.ra]) \ mask ELSE {}
           v    == FromBits(kept \cup (Bits(rotl32(c.gpr[i.rt], n)) \cap mask))
<1>1. rotate(c, i) = updateCr0([c EXCEPT !.gpr[i.ra] = v], i, i.ra)
  BY DEF rotate
<1>2. \A x : Bits(x) \in SUBSET (0 .. WordBits - 1)
  BY DEF Bits
<1> HIDE DEF mask, n
<1>3. kept \cup (Bits(rotl32(c.gpr[i.rt], n)) \cap mask) \in SUBSET (0 .. WordBits - 1)
  BY <1>2
<1>4. v \in Word
  <2> HIDE DEF kept
  <2> QED BY <1>3, BitSetIn
<1> HIDE DEF v, kept
<1>5. [c EXCEPT !.gpr[i.ra] = v] \in Cpus
  BY <1>4, AssignKeeps
<1> QED BY <1>1, <1>5, RecordKeeps, Zenon

LEMMA ShiftKeeps ==
  ASSUME NEW c \in Cpus, NEW i, WellEncoded(i), i.op \in {"slw", "srw", "cntlzw", "extsh", "extsb"}
  PROVE  shift(c, i) \in Cpus
<1> DEFINE x == c.gpr[i.rt]
           n == c.gpr[i.rb] % (2 * WordBits)
           v == CASE i.op = "slw"    -> IF n >= WordBits THEN 0 ELSE Wrap(x * 2 ^ n)
                  [] i.op = "srw"    -> IF n >= WordBits THEN 0 ELSE x \div 2 ^ n
                  [] i.op = "cntlzw" -> Leading(x)
                  [] i.op = "extsh"  -> Wrap(signExtend16(x % HalfModulus))
                  [] i.op = "extsb"  -> Wrap(signExtend8(x % 2 ^ ByteBits))
<1>1. shift(c, i) = [c EXCEPT !.gpr[i.ra] = v]
  BY DEF shift
<1> HIDE DEF x, n, v
<1> SUFFICES v \in Word
  <2>1. v \in Word => [c EXCEPT !.gpr[i.ra] = v] \in Cpus
    BY AssignKeeps
  <2> QED BY <1>1, <2>1, Zenon
<1>2. x \in Nat /\ x \in Word
  <2>1. i.rt \in Regs
    BY DEF WellEncoded
  <2> QED BY <2>1, CpuFields DEF x
<1>3. CASE i.op \in {"slw", "srw"}
  <2>1. c.gpr[i.rb] \in Nat
    BY <1>3, CpuFields DEF WellEncoded
  <2>2. PICK w \in Nat : w = 2 * WordBits /\ w > 0
    BY Moduli
  <2>3. n \in Nat
    BY <2>1, <2>2 DEF n
  <2>4. x * 2 ^ n \in Int
    BY <1>2, <2>3, Powers
  <2>5. x \div 2 ^ n \in Word
    <3>1. PICK d \in Nat : d = 2 ^ n /\ d > 0
      BY <2>3, Powers
    <3>2. PICK q \in Nat : q = x \div d /\ q <= x
      BY <1>2, <3>1
    <3>3. q \in Word
      BY <1>2, <3>2, WordBelow
    <3> QED BY <3>1, <3>2, <3>3
  <2>6. 0 \in Word
    BY Moduli DEF Word
  <2> QED BY <1>3, <2>4, <2>5, <2>6, WrapNat DEF v
<1>4. CASE i.op = "cntlzw"
  <2> DEFINE L == {k \in 1 .. WordBits : x < 2 ^ (WordBits - k)}
  <2>1. PICK w \in Nat : w = WordBits
    BY Moduli
  <2>2. IsFiniteSet(1 .. w)
    BY FS_Interval
  <2>3. IsFiniteSet(L)
    BY <2>1, <2>2, FS_Subset
  <2>4. Leading(x) = Cardinality(L)
    BY DEF Leading
  <2>5. v = Leading(x)
    BY <1>4 DEF v
  <2>6. Cardinality(1 .. w) = w /\ L \subseteq 1 .. w
    BY <2>1, FS_Interval
  <2> HIDE DEF L
  <2>7. Cardinality(L) \in Nat /\ Cardinality(L) <= w
    BY <2>2, <2>3, <2>6, FS_Subset, FS_CardinalityType
  <2>8. w < Modulus /\ Modulus \in Nat
    BY <2>1, PowerAbove, Moduli DEF Modulus
  <2> QED BY <2>4, <2>5, <2>7, <2>8 DEF Word
<1>5. CASE i.op \in {"extsh", "extsb"}
  <2>1. x % HalfModulus \in Nat /\ x % 2 ^ ByteBits \in Nat
    <3>1. 2 * ByteBits \in Nat /\ ByteBits \in Nat
      BY Moduli
    <3> QED BY <1>2, <3>1, Parts DEF HalfModulus
  <2> QED BY <1>5, <2>1, SignedInt, WrapNat DEF v
<1> QED BY <1>3, <1>4, <1>5

LEMMA AlgebraicKeeps ==
  ASSUME NEW c \in Cpus, NEW i, WellEncoded(i), i.op \in {"sraw", "srawi"}
  PROVE  shiftAlgebraic(c, i) \in Cpus
<1> DEFINE n  == IF i.op = "srawi" THEN i.rb ELSE c.gpr[i.rb] % (2 * WordBits)
           s  == Signed(c.gpr[i.rt])
           v  == IF n >= WordBits THEN (IF s < 0 THEN Modulus - 1 ELSE 0) ELSE Wrap(s \div 2 ^ n)
           g  == [c.gpr EXCEPT ![i.ra] = v]
           lost == IF n >= WordBits THEN g[i.rt] # 0 ELSE g[i.rt] % 2 ^ n # 0
<1>1. shiftAlgebraic(c, i) = setCarry([c EXCEPT !.gpr = g], s < 0 /\ lost)
  BY DEF shiftAlgebraic
<1> HIDE DEF n, s, v, g, lost
<1>2. s \in Int
  <2>1. i.rt \in Regs
    BY DEF WellEncoded
  <2>2. c.gpr[i.rt] \in Int
    BY <2>1, CpuFields
  <2> QED BY <2>2, SignedInt DEF s
<1>3. n \in Nat
  <2>1. PICK w \in Nat : w = 2 * WordBits /\ w > 0
    BY Moduli
  <2>2. CASE i.op = "srawi"
    BY <2>2, Moduli DEF n, WellEncoded
  <2>3. CASE i.op = "sraw"
    <3>1. c.gpr[i.rb] \in Nat
      BY <2>3, CpuFields DEF WellEncoded
    <3>2. n = c.gpr[i.rb] % w
      BY <2>1, <2>3 DEF n
    <3> QED BY <2>1, <3>1, <3>2
  <2> QED BY <2>2, <2>3
<1>4. v \in Word
  <2>1. PICK d \in Nat : d = 2 ^ n /\ d > 0
    BY <1>3, Powers
  <2>2. s \div d \in Int
    BY <1>2, <2>1
  <2>3. Wrap(s \div 2 ^ n) \in Word
    BY <2>1, <2>2, WrapNat
  <2>4. Modulus - 1 \in Word /\ 0 \in Word
    BY Moduli DEF Word
  <2> QED BY <2>3, <2>4 DEF v
<1>5. g \in [Regs -> Word]
  BY <1>4, CpuFields DEF g
<1>6. [c EXCEPT !.gpr = g] \in Cpus
  BY <1>5 DEF Cpus
<1> QED BY <1>1, <1>6, FlagsKeep

LEMMA ComparisonKeeps ==
  ASSUME NEW c \in Cpus, NEW i, WellEncoded(i), i.op \in {"cmpw", "cmplw", "cmpwi", "cmplwi"}
  PROVE  compare(c, i) \in Cpus
<1>1. i.bf \in Fields
  BY DEF WellEncoded
<1>2. \A a, b : setCompare(c, i.bf, a, b) \in Cpus
  BY <1>1, CompareKeeps
<1> QED BY <1>2 DEF compare

LEMMA ConditionKeeps ==
  ASSUME NEW c \in Cpus, NEW i, WellEncoded(i), i.op \in {"crlogic", "mcrf", "mcrxr", "mfcr", "mtcrf"}
  PROVE  conditionRegister(c, i) \in Cpus
<1>0. c.cr \in Nat /\ c.xer \in Nat /\ c.cr \in Word /\ c.xer \in Word
  BY CpuFields
<1>1. CASE i.op = "crlogic"
  <2> DEFINE x == IF crBit(c, i.ra) THEN {0} ELSE {}
             y == IF crBit(c, i.rb) THEN {0} ELSE {}
             v == SetBit(c.cr, WordBits - 1 - i.rt, 0 \in Combine(i.logic, x, y))
  <2>1. conditionRegister(c, i) = [c EXCEPT !.cr = v]
    BY <1>1 DEF conditionRegister
  <2>2. WordBits - 1 - i.rt \in 0 .. WordBits - 1
    BY <1>1, Moduli DEF WellEncoded
  <2> HIDE DEF x, y
  <2>3. v \in Word
    BY <1>0, <2>2, SetBitIn
  <2> HIDE DEF v
  <2>4. [c EXCEPT !.cr = v] \in Cpus
    BY <2>3, AssignKeeps
  <2> QED BY <2>1, <2>4, Zenon
<1>2. CASE i.op = "mcrf"
  <2>1. PICK n \in 0 .. 15 : n = Nibble(c.cr, i.bfa)
    BY <1>0, <1>2, NibbleIn DEF WellEncoded
  <2>2. PICK v \in Word : v = PutNibble(c.cr, i.bf, n)
    BY <1>0, <1>2, PutNibbleIn DEF WellEncoded
  <2>3. conditionRegister(c, i) = [c EXCEPT !.cr = v]
    BY <1>2, <2>1, <2>2 DEF conditionRegister
  <2>4. [c EXCEPT !.cr = v] \in Cpus
    BY <2>2, AssignKeeps
  <2> QED BY <2>3, <2>4, Zenon
<1>3. CASE i.op = "mcrxr"
  <2>0. PICK p \in Nat : p = 2 ^ CA /\ p > 0 /\ Modulus = 8 * p
    BY XerPlaces
  <2>1. PICK n \in 0 .. 15 : n = 2 * (c.xer \div 2 ^ CA)
    <3>1. PICK q \in 0 .. 7, r \in 0 .. p - 1 : c.xer = q * p + r
      BY <1>0, <2>0, XerParts
    <3>2. q * p <= c.xer /\ c.xer < q * p + p /\ q \in Int /\ c.xer \in Int /\ p > 0
      BY <1>0, <2>0, <3>1
    <3>3. c.xer \div p = q
      BY <3>2, QuotientIs, Zenon
    <3> QED BY <2>0, <3>3
  <2>2. PICK v \in Word : v = PutNibble(c.cr, i.bf, n)
    BY <1>0, <1>3, PutNibbleIn DEF WellEncoded
  <2>3. PICK w \in Word : w = c.xer % 2 ^ CA
    <3>1. c.xer % p \in 0 .. p - 1
      BY <1>0, <2>0
    <3> QED BY <2>0, <3>1 DEF Word
  <2>4. conditionRegister(c, i) = [c EXCEPT !.cr = v, !.xer = w]
    BY <1>3, <2>1, <2>2, <2>3 DEF conditionRegister
  <2>5. [c EXCEPT !.cr = v, !.xer = w] \in Cpus
    BY <2>2, <2>3 DEF Cpus
  <2> QED BY <2>4, <2>5, Zenon
<1>4. CASE i.op = "mfcr"
  <2>1. conditionRegister(c, i) = [c EXCEPT !.gpr[i.rt] = c.cr]
    BY <1>4 DEF conditionRegister
  <2>2. [c EXCEPT !.gpr[i.rt] = c.cr] \in Cpus
    BY <1>0, AssignKeeps
  <2> QED BY <2>1, <2>2, Zenon
<1>5. CASE i.op = "mtcrf"
  <2> DEFINE S == {b \in 0 .. WordBits - 1 :
                     IF (WordBits - 1 - b) \div 4 \in i.fields THEN Bit(c.gpr[i.rt], b) = 1
                                                               ELSE Bit(c.cr, b) = 1}
  <2>1. conditionRegister(c, i) = [c EXCEPT !.cr = FromBits(S)]
    BY <1>5 DEF conditionRegister
  <2>2. S \in SUBSET (0 .. WordBits - 1)
    OBVIOUS
  <2> HIDE DEF S
  <2>3. [c EXCEPT !.cr = FromBits(S)] \in Cpus
    BY <2>2, BitSetIn, AssignKeeps
  <2> QED BY <2>1, <2>3, Zenon
<1> QED BY <1>1, <1>2, <1>3, <1>4, <1>5

-----------------------------------------------------------------------------
(* Steps of a running call *)

\* Configuration, registers and memory are well formed, and areas do not overlap.
RunInv ==
  /\ WellTyped(call)
  /\ cpu \in Cpus
  /\ mem \in SUBSET Regions /\ Disjoint(mem)

\* A step that keeps RunInv and writes only where it may.
Sound == RunInv' /\ (result.reason = "run" => mem' \in Rewritten(mem))

LEMMA StepSound ==
  ASSUME RunInv, NEW c \in Cpus, NEW m \in Rewritten(mem), cpu' = c, mem' = m, call' = call
  PROVE  Sound
<1>1. m \in SUBSET Regions /\ Disjoint(m)
  BY RewrittenConfined DEF RunInv
<1>2. WellTyped(call)'
  BY DEF RunInv, WellTyped
<1> QED BY <1>1, <1>2 DEF RunInv, Sound

LEMMA CompleteSound ==
  ASSUME RunInv, NEW c \in Cpus, NEW m \in Rewritten(mem), Complete(c, m)
  PROVE  Sound
  BY StepSound DEF Complete

LEMMA FaultSound ==
  ASSUME RunInv, NEW c \in Cpus, NEW m \in Rewritten(mem), NEW reason, Fault(reason, c, m)
  PROVE  Sound
  BY StepSound DEF Fault

\* The instruction at pc, pc moved on, and memory as it is.
LEMMA AtStep ==
  ASSUME RunInv
  PROVE  WellEncoded(Insn) /\ Advanced \in Cpus /\ cpu \in Cpus /\ mem \in Rewritten(mem)
<1>1. WellEncoded(Insn)
  <2>1. CASE cpu.pc \in DOMAIN call.code
    BY <2>1 DEF RunInv, WellTyped, Insn
  <2>2. CASE cpu.pc \notin DOMAIN call.code
    <3>1. Insn.op = "unsupported"
      BY <2>2 DEF Insn
    <3> QED BY <3>1 DEF WellEncoded, AddSub, Extended, Logical
  <2> QED BY <2>1, <2>2
<1>2. Advanced \in Cpus
  <2>1. Wrap(cpu.pc + 4) \in Word
    BY CpuFields, WrapNat DEF RunInv
  <2>2. Advanced = [cpu EXCEPT !.pc = Wrap(cpu.pc + 4)]
    BY DEF Advanced
  <2>3. [cpu EXCEPT !.pc = Wrap(cpu.pc + 4)] \in Cpus
    BY <2>1, AssignKeeps DEF RunInv
  <2> QED BY <2>2, <2>3, Zenon
<1>3. mem \in Rewritten(mem)
  BY RewrittenSelf DEF RunInv
<1> QED BY <1>1, <1>2, <1>3 DEF RunInv

\* Instructions on registers alone.
LEMMA RegisterStepsSound ==
  ASSUME RunInv,
         \/ AddSubStep \/ MulDivStep \/ ImmediateStep \/ LogicalStep \/ RotateStep \/ ShiftStep
         \/ CompareStep \/ ConditionStep \/ Hint \/ Unsupported \/ TrapStep
  PROVE  Sound
<1>0. WellEncoded(Insn) /\ Advanced \in Cpus /\ cpu \in Cpus /\ mem \in Rewritten(mem)
  BY AtStep
<1>1. CASE AddSubStep
  <2>1. addSub(Advanced, Insn) \in Cpus /\ Complete(addSub(Advanced, Insn), mem)
    BY <1>0, <1>1, AddSubKeeps DEF AddSubStep, Fetched
  <2> QED BY <1>0, <2>1, CompleteSound
<1>2. CASE MulDivStep
  <2>1. mulDiv(Advanced, Insn) \in Cpus /\ Complete(mulDiv(Advanced, Insn), mem)
    BY <1>0, <1>2, MulDivKeeps DEF MulDivStep, Fetched
  <2> QED BY <1>0, <2>1, CompleteSound
<1>3. CASE ImmediateStep
  <2>1. immediate(Advanced, Insn) \in Cpus /\ Complete(immediate(Advanced, Insn), mem)
    BY <1>0, <1>3, ImmediateKeeps DEF ImmediateStep, Fetched
  <2> QED BY <1>0, <2>1, CompleteSound
<1>4. CASE LogicalStep
  <2>1. Insn.op \in Logical
    BY <1>4 DEF LogicalStep, Fetched
  <2>2. PICK c \in Cpus : c = updateCr0([Advanced EXCEPT !.gpr[Insn.ra] =
              FromBits(Combine(Insn.op, Bits(cpu.gpr[Insn.rt]), SecondBits(cpu, Insn)))], Insn, Insn.ra)
    BY <1>0, <2>1, LogicalKeeps
  <2>3. Complete(c, mem)
    BY <1>4, <2>2, Zenon DEF LogicalStep
  <2> QED BY <1>0, <2>2, <2>3, CompleteSound
<1>5. CASE RotateStep
  <2>1. rotate(Advanced, Insn) \in Cpus /\ Complete(rotate(Advanced, Insn), mem)
    BY <1>0, <1>5, RotateKeeps DEF RotateStep
  <2> QED BY <1>0, <2>1, CompleteSound
<1>6. CASE ShiftStep
  <2>1. PICK c \in Cpus : Complete(c, mem)
    <3>1. CASE /\ Fetched({"slw", "srw", "cntlzw", "extsh", "extsb"})
               /\ Complete(updateCr0(shift(Advanced, Insn), Insn, Insn.ra), mem)
      <4>1. updateCr0(shift(Advanced, Insn), Insn, Insn.ra) \in Cpus
        BY <1>0, <3>1, ShiftKeeps, RecordKeeps DEF Fetched
      <4> QED BY <3>1, <4>1
    <3>2. CASE /\ Fetched({"sraw", "srawi"})
               /\ Complete(updateCr0(shiftAlgebraic(Advanced, Insn), Insn, Insn.ra), mem)
      <4>1. updateCr0(shiftAlgebraic(Advanced, Insn), Insn, Insn.ra) \in Cpus
        BY <1>0, <3>2, AlgebraicKeeps, RecordKeeps DEF Fetched
      <4> QED BY <3>2, <4>1
    <3> QED BY <1>6, <3>1, <3>2 DEF ShiftStep
  <2> QED BY <1>0, <2>1, CompleteSound
<1>7. CASE CompareStep
  <2>1. compare(Advanced, Insn) \in Cpus /\ Complete(compare(Advanced, Insn), mem)
    BY <1>0, <1>7, ComparisonKeeps DEF CompareStep, Fetched
  <2> QED BY <1>0, <2>1, CompleteSound
<1>8. CASE ConditionStep
  <2>1. conditionRegister(Advanced, Insn) \in Cpus /\ Complete(conditionRegister(Advanced, Insn), mem)
    BY <1>0, <1>8, ConditionKeeps DEF ConditionStep, Fetched
  <2> QED BY <1>0, <2>1, CompleteSound
<1>9. CASE Hint \/ Unsupported \/ TrapStep
  <2>1. Complete(Advanced, mem) \/ \E reason : Fault(reason, Advanced, mem)
    BY <1>9, Zenon DEF Hint, Unsupported, TrapStep
  <2> QED BY <1>0, <2>1, CompleteSound, FaultSound
<1> QED BY <1>1, <1>2, <1>3, <1>4, <1>5, <1>6, <1>7, <1>8, <1>9

\* Moves to and from the special registers, and system calls.
LEMMA SpecialStepsSound ==
  ASSUME RunInv, SpecialStep \/ SystemCall
  PROVE  Sound
<1>0. WellEncoded(Insn) /\ Advanced \in Cpus /\ cpu \in Cpus /\ mem \in Rewritten(mem)
  BY AtStep
<1>1. (\E c \in Cpus : Complete(c, mem)) \/ \E reason : Fault(reason, Advanced, mem)
  <2>1. CASE SpecialStep
    <3>0. Insn.op \in {"mfspr", "mtspr"}
      BY <2>1 DEF SpecialStep, Fetched
    <3>1. CASE Insn.spr \notin {"xer", "lr", "ctr"}
      BY <2>1, <3>1 DEF SpecialStep
    <3>2. CASE Insn.spr \in {"xer", "lr", "ctr"} /\ Insn.op = "mfspr"
      <4>1. PICK v \in Word : v = cpu[Insn.spr]
        BY <1>0, <3>2, CpuFields
      <4>2. [Advanced EXCEPT !.gpr[Insn.rt] = v] \in Cpus
        BY <1>0, AssignKeeps
      <4>3. Complete([Advanced EXCEPT !.gpr[Insn.rt] = v], mem)
        BY <2>1, <3>2, <4>1 DEF SpecialStep
      <4> QED BY <4>2, <4>3
    <3>3. CASE Insn.spr \in {"xer", "lr", "ctr"} /\ Insn.op = "mtspr"
      <4>1. PICK v \in Word : v = cpu.gpr[Insn.rt]
        <5>1. Insn.rt \in Regs
          BY <1>0, <3>3 DEF WellEncoded
        <5> QED BY <1>0, <5>1, CpuFields
      <4>2. [Advanced EXCEPT ![Insn.spr] = v] \in Cpus
        BY <1>0, <3>3, AssignKeeps
      <4>3. Complete([Advanced EXCEPT ![Insn.spr] = v], mem)
        BY <2>1, <3>3, <4>1 DEF SpecialStep
      <4> QED BY <4>2, <4>3
    <3> QED BY <3>0, <3>1, <3>2, <3>3
  <2>2. CASE SystemCall
    <3>1. CASE cpu.gpr[0] \notin DOMAIN call.syscalls /\ call.defaultReturn \notin Word
      BY <2>2, <3>1 DEF SystemCall
    <3>2. CASE cpu.gpr[0] \in DOMAIN call.syscalls
      <4>1. PICK v \in Word : v = call.syscalls[cpu.gpr[0]]
        BY <3>2, WordsNat DEF RunInv, WellTyped
      <4>2. Complete([Advanced EXCEPT !.gpr[3] = v], mem)
        BY <2>2, <3>2, <4>1 DEF SystemCall
      <4> QED BY <1>0, <4>2, AssignKeeps
    <3>3. CASE cpu.gpr[0] \notin DOMAIN call.syscalls /\ call.defaultReturn \in Word
      <4>1. PICK v \in Word : v = call.defaultReturn
        BY <3>3, WordsNat
      <4>2. Complete([Advanced EXCEPT !.gpr[3] = v], mem)
        BY <2>2, <3>3, <4>1 DEF SystemCall
      <4> QED BY <1>0, <4>2, AssignKeeps
    <3> QED BY <3>1, <3>2, <3>3
  <2> QED BY <2>1, <2>2
<1> QED BY <1>0, <1>1, CompleteSound, FaultSound

LEMMA BranchParts ==
  ASSUME NEW c \in Cpus, NEW i, NEW bo
  PROVE  Counted(c, bo) \in Cpus /\ Linked(c, i) \in Cpus
<1>0. c.pc \in Word /\ c.ctr \in Word /\ c.ctr \in Nat
  BY CpuFields
<1>1. PICK v \in Word : v = Wrap(c.ctr - 1)
  BY <1>0, WrapNat
<1>2. Counted(c, bo) = IF Bit(bo, 2) = 0 THEN [c EXCEPT !.ctr = v] ELSE c
  BY <1>1 DEF Counted
<1>3. [c EXCEPT !.ctr = v] \in Cpus /\ [c EXCEPT !.lr = c.pc] \in Cpus
  BY <1>0, AssignKeeps
<1> QED BY <1>2, <1>3 DEF Linked

LEMMA DirectBranchSound ==
  ASSUME RunInv, DirectBranch
  PROVE  Sound
<1>0. WellEncoded(Insn) /\ Advanced \in Cpus /\ cpu \in Cpus /\ mem \in Rewritten(mem)
  BY AtStep
<1>1. PICK c \in Cpus : c = Counted(Linked(Advanced, Insn), Insn.bo)
  BY <1>0, BranchParts
<1>2. PICK t \in Word : t = Wrap(IF Insn.aa THEN Insn.disp ELSE cpu.pc + Insn.disp)
  <2>1. Insn.disp \in Int
    BY <1>0 DEF DirectBranch, Fetched, WellEncoded
  <2>2. (IF Insn.aa THEN Insn.disp ELSE cpu.pc + Insn.disp) \in Int
    BY <1>0, <2>1, CpuFields
  <2> QED BY <2>2, WrapNat
<1>3. Complete(IF evaluateBranchCondition(cpu, Insn.bo, Insn.bi) THEN [c EXCEPT !.pc = t] ELSE c, mem)
  BY <1>1, <1>2 DEF DirectBranch
<1>4. [c EXCEPT !.pc = t] \in Cpus
  BY AssignKeeps
<1>5. PICK d \in Cpus : Complete(d, mem)
  BY <1>3, <1>4
<1> QED BY <1>0, <1>5, CompleteSound

\* An import stub that is not refused.
LEMMA StubKeeps ==
  ASSUME NEW m \in SUBSET Regions, Disjoint(m), NEW c \in Cpus,
         NEW kind \in {"blockmove", "memmove", "memset", "bzero", "float"}
  PROVE  Stub(kind, c, m).ok => Stub(kind, c, m).mem \in Rewritten(m)
<1> DEFINE a == c.gpr[3]
           b == c.gpr[4]
           n == c.gpr[5]
           Moves(from, to) == n <= StubLimit /\
             (n = 0 \/ (Permitted(m, from, n, "read") /\ Permitted(m, to, n, "write")))
           Move(from, to) ==
             [ok  |-> Moves(from, to),
              mem |-> IF Moves(from, to) /\ n # 0 THEN writeBytes(m, to, n, readBytes(m, from, n)) ELSE m]
           Fills(to, size) == size <= StubLimit /\ (size = 0 \/ Permitted(m, to, size, "write"))
           Fill(to, size, byte) ==
             [ok  |-> Fills(to, size),
              mem |-> IF Fills(to, size) /\ size # 0
                      THEN writeBytes(m, to, size, Repeated(byte, size)) ELSE m]
<1>0. a \in Nat /\ b \in Nat /\ n \in Nat
  BY CpuFields, SizesAssumption DEF Regs
<1>1. m \in Rewritten(m)
  BY RewrittenSelf
<1>2. Stub(kind, c, m) = CASE kind = "blockmove" -> Move(a, b)
                           [] kind = "memmove"   -> Move(b, a)
                           [] kind = "memset"    -> Fill(a, n, b % 2 ^ ByteBits)
                           [] kind = "bzero"     -> Fill(a, b, 0)
                           [] kind = "float"     -> [ok |-> TRUE, mem |-> m]
  BY DEF Stub
<1>3. ASSUME NEW from \in Nat, NEW to \in Nat, Move(from, to).ok
      PROVE  Move(from, to).mem \in Rewritten(m)
  <2>1. CASE n = 0
    BY <1>1, <2>1
  <2>2. CASE n # 0
    <3> HIDE DEF n
    <3>1. Permitted(m, from, n, "read") /\ Permitted(m, to, n, "write")
      BY <1>3, <2>2
    <3>2. PICK v \in Nat : v = readBytes(m, from, n)
      <4>1. find(m, from, n) # {}
        BY <3>1 DEF Permitted
      <4> QED BY <1>0, <4>1, ReadNat
    <3>3. writeBytes(m, to, n, v) \in Rewritten(m)
      BY <1>0, <1>1, <2>2, <3>1, WriteKeeps
    <3> QED BY <1>1, <3>2, <3>3
  <2> QED BY <2>1, <2>2
<1>4. ASSUME NEW to \in Nat, NEW size \in Nat, NEW byte \in Nat, Fill(to, size, byte).ok
      PROVE  Fill(to, size, byte).mem \in Rewritten(m)
  <2>1. CASE size = 0
    BY <1>1, <2>1
  <2>2. CASE size # 0
    <3>1. Permitted(m, to, size, "write")
      BY <1>4, <2>2
    <3>2. PICK v \in Nat : v = Repeated(byte, size)
      BY FillNat
    <3>3. writeBytes(m, to, size, v) \in Rewritten(m)
      BY <1>1, <2>2, <3>1, WriteKeeps
    <3> QED BY <1>1, <3>2, <3>3
  <2> QED BY <2>1, <2>2
<1>5. b % 2 ^ ByteBits \in Nat
  BY <1>0, Moduli, Parts
<1> HIDE DEF a, b, n, Move, Fill
<1>6. CASE kind = "blockmove"
  BY <1>0, <1>2, <1>3, <1>6
<1>7. CASE kind = "memmove"
  BY <1>0, <1>2, <1>3, <1>7
<1>8. CASE kind = "memset"
  <2>1. PICK v \in Nat : v = b % 2 ^ ByteBits
    BY <1>5
  <2>2. Stub(kind, c, m) = Fill(a, n, v)
    BY <1>2, <1>8, <2>1
  <2> QED BY <1>0, <1>4, <2>2
<1>9. CASE kind = "bzero"
  BY <1>0, <1>2, <1>4, <1>9
<1>10. CASE kind = "float"
  BY <1>1, <1>2, <1>10
<1> QED BY <1>6, <1>7, <1>8, <1>9, <1>10

LEMMA IndirectBranchSound ==
  ASSUME RunInv, IndirectBranch
  PROVE  Sound
<1>0. WellEncoded(Insn) /\ Advanced \in Cpus /\ cpu \in Cpus /\ mem \in Rewritten(mem)
  BY AtStep
<1> DEFINE to == IF Insn.op = "bclr" THEN cpu.lr ELSE cpu.ctr
           target == to - (to % 4)
           c == Counted(Advanced, Insn.bo)
           id == cpu.gpr[12]
           glue == Insn.op = "bcctr" /\ target = 0 /\ InImports(id)
           stub == Stub(call.stubs[id], c, mem)
<1>1. \/ Complete(c, mem)
      \/ Complete([Linked(c, Insn) EXCEPT !.pc = target], mem)
      \/ id \in DOMAIN call.stubs /\ stub.ok /\ Complete([c EXCEPT !.pc = c.lr], stub.mem)
      \/ cpu' = c /\ UNCHANGED <<call, mem, count>>
  <2>1. CASE ~evaluateBranchCondition(cpu, Insn.bo, Insn.bi)
    BY <2>1 DEF IndirectBranch
  <2>2. CASE evaluateBranchCondition(cpu, Insn.bo, Insn.bi) /\ ~glue
    BY <2>2 DEF IndirectBranch
  <2>3. CASE evaluateBranchCondition(cpu, Insn.bo, Insn.bi) /\ glue
    <3>1. IF id \in DOMAIN call.stubs /\ stub.ok
          THEN Complete([c EXCEPT !.pc = c.lr], stub.mem)
          ELSE cpu' = c /\ UNCHANGED <<call, mem, count>>
      BY <2>3 DEF IndirectBranch
    <3> HIDE DEF c, id, stub
    <3> QED BY <3>1
  <2> QED BY <2>1, <2>2, <2>3
<1>2. c \in Cpus /\ Linked(c, Insn) \in Cpus
  BY <1>0, BranchParts
<1>3. target \in Word
  <2>1. to \in Nat /\ to \in Word
    BY <1>0, CpuFields
  <2> HIDE DEF to
  <2>2. PICK t \in Nat : t = target /\ t <= to
    BY <2>1
  <2> QED BY <2>1, <2>2, WordBelow
<1>4. id \in DOMAIN call.stubs /\ stub.ok => stub.mem \in Rewritten(mem)
  <2>1. id \in DOMAIN call.stubs =>
          call.stubs[id] \in {"blockmove", "memmove", "memset", "bzero", "float"}
    BY DEF RunInv, WellTyped
  <2> HIDE DEF c, id
  <2> QED BY <1>2, <2>1, StubKeeps DEF RunInv
<1> HIDE DEF c, target, stub, id
<1>5. CASE Complete(c, mem)
  BY <1>0, <1>2, <1>5, CompleteSound
<1>6. CASE Complete([Linked(c, Insn) EXCEPT !.pc = target], mem)
  <2>1. [Linked(c, Insn) EXCEPT !.pc = target] \in Cpus
    BY <1>2, <1>3, AssignKeeps
  <2> QED BY <1>0, <1>6, <2>1, CompleteSound
<1>7. CASE id \in DOMAIN call.stubs /\ stub.ok /\ Complete([c EXCEPT !.pc = c.lr], stub.mem)
  <2>1. [c EXCEPT !.pc = c.lr] \in Cpus
    BY <1>2, CpuFields, AssignKeeps
  <2> QED BY <1>4, <1>7, <2>1, CompleteSound
<1>8. CASE cpu' = c /\ UNCHANGED <<call, mem, count>>
  BY <1>0, <1>2, <1>8, StepSound
<1> QED BY <1>1, <1>5, <1>6, <1>7, <1>8

LEMMA AddressNat ==
  ASSUME NEW c \in Cpus, NEW i, i.ra \in Regs, IF i.indexed THEN i.rb \in Regs ELSE i.imm \in Half
  PROVE  effectiveAddress(c, i) \in Nat /\ effectiveAddress(c, i) \in Word
<1>1. PICK x \in Int : x = IF i.ra = 0 THEN 0 ELSE c.gpr[i.ra]
  BY CpuFields
<1>2. PICK y \in Int : y = IF i.indexed THEN c.gpr[i.rb] ELSE signExtend16(i.imm)
  <2>1. CASE i.indexed
    BY <2>1, CpuFields
  <2>2. CASE ~i.indexed
    BY <2>2, Moduli, SignedInt DEF Half
  <2> QED BY <2>1, <2>2
<1>3. effectiveAddress(c, i) = Wrap(x + y)
  BY <1>1, <1>2 DEF effectiveAddress
<1> QED BY <1>3, WrapNat

\* The instructions that address memory.
LEMMA AtAccess ==
  ASSUME RunInv, Insn.op \in {"load", "store", "lmw", "stmw", "lwarx", "stwcx", "dcbz"}
  PROVE  /\ effectiveAddress(cpu, Insn) \in Nat /\ effectiveAddress(cpu, Insn) \in Word
         /\ Insn.rt \in Regs /\ cpu.gpr[Insn.rt] \in Nat
<1>1. /\ Insn.ra \in Regs /\ Insn.rt \in Regs
      /\ IF Insn.indexed THEN Insn.rb \in Regs ELSE Insn.imm \in Half
  BY AtStep DEF WellEncoded
<1>2. cpu \in Cpus
  BY DEF RunInv
<1> QED BY <1>1, <1>2, AddressNat, CpuFields

LEMMA UpdatedKeeps ==
  ASSUME NEW c \in Cpus, NEW i, NEW ea \in Word
  PROVE  Updated(c, i, ea) \in Cpus
  BY AssignKeeps DEF Updated

LEMMA LoadSound ==
  ASSUME RunInv, Load
  PROVE  Sound
<1>0. /\ WellEncoded(Insn) /\ Advanced \in Cpus /\ mem \in Rewritten(mem) /\ mem \in SUBSET Regions
      /\ Insn.op = "load"
  BY AtStep DEF RunInv, Load, Fetched
<1>1. PICK ea \in Nat : ea = effectiveAddress(cpu, Insn) /\ ea \in Word
  BY <1>0, AtAccess
<1>2. Insn.size \in {1, 2, 4} /\ Insn.as \in {"zero", "algebraic", "reversed"}
  BY <1>0 DEF WellEncoded
<1>3. CASE ~Permitted(mem, ea, Insn.size, "read")
  <2>1. Fault("memory_fault", Advanced, mem)
    BY <1>1, <1>3 DEF Load
  <2> QED BY <1>0, <2>1, FaultSound
<1>4. CASE Permitted(mem, ea, Insn.size, "read")
  <2>1. PICK v \in Word : v = readBytes(mem, ea, Insn.size)
    BY <1>0, <1>2, <1>4, WordRead
  <2>2. PICK w \in Word : w = CASE Insn.as = "zero"      -> v
                               [] Insn.as = "algebraic" -> Wrap(signExtend16(v))
                               [] Insn.as = "reversed"  -> byteSwap(v, Insn.size)
    <3>1. signExtend16(v) \in Int /\ v \in Nat
      BY WordsNat, SignedInt
    <3>2. Wrap(signExtend16(v)) \in Word
      BY <3>1, WrapNat
    <3>3. byteSwap(v, Insn.size) \in Word
      <4>1. PICK n \in Nat : n = Insn.size /\ n \in {1, 2, 4}
        BY <1>2
      <4>2. byteSwap(v, n) \in 0 .. 2 ^ (ByteBits * n) - 1
        BY <3>1, SwapBelow
      <4> QED BY <4>1, <4>2, BytesAreWords
    <3> QED BY <1>2, <3>2, <3>3
  <2>3. Complete(Updated([Advanced EXCEPT !.gpr[Insn.rt] = w], Insn, ea), mem)
    BY <1>1, <1>4, <2>1, <2>2 DEF Load
  <2>4. [Advanced EXCEPT !.gpr[Insn.rt] = w] \in Cpus
    BY <1>0, AssignKeeps
  <2>5. Updated([Advanced EXCEPT !.gpr[Insn.rt] = w], Insn, ea) \in Cpus
    BY <1>1, <2>4, UpdatedKeeps
  <2> QED BY <1>0, <2>3, <2>5, CompleteSound
<1> QED BY <1>3, <1>4

LEMMA StoreSound ==
  ASSUME RunInv, Store
  PROVE  Sound
<1>0. /\ WellEncoded(Insn) /\ Advanced \in Cpus /\ mem \in Rewritten(mem) /\ mem \in SUBSET Regions
      /\ Insn.op = "store"
  BY AtStep DEF RunInv, Store, Fetched
<1>1. PICK ea \in Nat : ea = effectiveAddress(cpu, Insn) /\ ea \in Word
  BY <1>0, AtAccess
<1>2. Insn.size \in {1, 2, 4}
  BY <1>0 DEF WellEncoded
<1>3. CASE ~Permitted(mem, ea, Insn.size, "write")
  <2>1. Fault("memory_fault", Advanced, mem)
    BY <1>1, <1>3 DEF Store
  <2> QED BY <1>0, <2>1, FaultSound
<1>4. CASE Permitted(mem, ea, Insn.size, "write")
  <2>1. PICK v \in Nat : v = cpu.gpr[Insn.rt] % 2 ^ (ByteBits * Insn.size)
    <3>1. ByteBits * Insn.size \in Nat
      BY <1>2, Moduli
    <3> QED BY <1>0, <3>1, AtAccess, Parts
  <2>2. PICK w \in Nat : w = IF Insn.as = "reversed" THEN byteSwap(v, Insn.size) ELSE v
    <3>1. PICK n \in Nat : n = Insn.size
      BY <1>2
    <3>2. byteSwap(v, n) \in 0 .. 2 ^ (ByteBits * n) - 1 /\ 2 ^ (ByteBits * n) \in Nat
      BY SwapBelow, ByteBitsAssumption, Powers
    <3>3. byteSwap(v, n) \in Nat
      BY <3>2
    <3> QED BY <3>1, <3>3
  <2>3. Complete(Updated(Advanced, Insn, ea), writeBytes(mem, ea, Insn.size, w))
    BY <1>1, <1>4, <2>1, <2>2 DEF Store
  <2>4. writeBytes(mem, ea, Insn.size, w) \in Rewritten(mem)
    <3>1. PICK n \in Nat : n = Insn.size /\ n > 0
      BY <1>2
    <3>2. writeBytes(mem, ea, n, w) \in Rewritten(mem)
      BY <1>0, <1>4, <3>1, WriteKeeps
    <3> QED BY <3>1, <3>2
  <2>5. Updated(Advanced, Insn, ea) \in Cpus
    BY <1>0, <1>1, UpdatedKeeps
  <2> QED BY <2>3, <2>4, <2>5, CompleteSound
<1> QED BY <1>3, <1>4

LEMMA ReservationsSound ==
  ASSUME RunInv, Reserve \/ StoreConditional \/ ZeroBlock
  PROVE  Sound
<1>0. /\ Advanced \in Cpus /\ cpu \in Cpus /\ mem \in Rewritten(mem) /\ mem \in SUBSET Regions
      /\ Insn.op \in {"lwarx", "stwcx", "dcbz"}
  BY AtStep DEF RunInv, Reserve, StoreConditional, ZeroBlock, Fetched
<1>1. PICK ea \in Nat : ea = effectiveAddress(cpu, Insn) /\ ea \in Word
  BY <1>0, AtAccess
<1>2. CASE Fault("memory_fault", Advanced, mem)
  BY <1>0, <1>2, FaultSound
<1>3. CASE Reserve /\ ~Fault("memory_fault", Advanced, mem)
  <2>1. Permitted(mem, ea, 4, "read")
    BY <1>1, <1>3 DEF Reserve
  <2>2. PICK v \in Word : v = readBytes(mem, ea, 4)
    BY <1>0, <2>1, WordRead
  <2>3. Complete([Advanced EXCEPT !.gpr[Insn.rt] = v, !.reserved = ea, !.valid = TRUE], mem)
    BY <1>1, <1>3, <2>2 DEF Reserve
  <2>4. [Advanced EXCEPT !.gpr[Insn.rt] = v, !.reserved = ea, !.valid = TRUE] \in Cpus
    BY <1>0, <1>1 DEF Cpus
  <2> QED BY <1>0, <2>3, <2>4, CompleteSound
<1>4. CASE StoreConditional /\ ~Fault("memory_fault", Advanced, mem)
  <2> DEFINE success == cpu.valid /\ cpu.reserved = ea
             flags == setCrField(Advanced, 0, FALSE, FALSE, success, Bit(cpu.xer, SO) = 1)
             m == IF success THEN writeBytes(mem, ea, 4, cpu.gpr[Insn.rt]) ELSE mem
  <2>1. Complete([flags EXCEPT !.valid = FALSE], m) /\ (success => Permitted(mem, ea, 4, "write"))
    BY <1>1, <1>4 DEF StoreConditional
  <2>2. flags \in Cpus
    <3> HIDE DEF success
    <3> QED BY <1>0, FlagsExist, FieldKeeps
  <2>3. m \in Rewritten(mem)
    <3>1. cpu.gpr[Insn.rt] \in Nat
      BY <1>0, AtAccess
    <3> HIDE DEF success
    <3> QED BY <1>0, <2>1, <3>1, WriteKeeps
  <2> HIDE DEF flags, m
  <2>4. [flags EXCEPT !.valid = FALSE] \in Cpus
    BY <2>2 DEF Cpus
  <2> QED BY <2>1, <2>3, <2>4, CompleteSound
<1>5. CASE ZeroBlock /\ ~Fault("memory_fault", Advanced, mem)
  <2>1. PICK start \in Nat : start = ea - (ea % LineBytes)
    BY SizesAssumption
  <2>2. Permitted(mem, start, LineBytes, "write") /\ Complete(Advanced, writeBytes(mem, start, LineBytes, 0))
    BY <1>1, <1>5, <2>1 DEF ZeroBlock
  <2>3. writeBytes(mem, start, LineBytes, 0) \in Rewritten(mem)
    BY <1>0, <2>2, SizesAssumption, WriteKeeps
  <2> QED BY <1>0, <2>2, <2>3, CompleteSound
<1> QED BY <1>2, <1>3, <1>4, <1>5

\* lmw and stmw, as far as they come.
LEMMA MultipleSound ==
  ASSUME RunInv, Multiple
  PROVE  Sound
<1>0. /\ WellEncoded(Insn) /\ Advanced \in Cpus /\ cpu \in Cpus /\ mem \in Rewritten(mem)
      /\ mem \in SUBSET Regions /\ Disjoint(mem) /\ Insn.op \in {"lmw", "stmw"}
  BY AtStep DEF RunInv, Multiple, Fetched
<1>1. PICK ea \in Nat : ea = effectiveAddress(cpu, Insn) /\ ea \in Word
  BY <1>0, AtAccess
<1>2. PICK first \in Regs : first = Insn.rt
  BY <1>0, AtAccess
<1>3. PICK perm : perm = IF Insn.op = "lmw" THEN "read" ELSE "write"
  OBVIOUS
<1> DEFINE n == NumRegs - first
           At(j) == Wrap(ea + 4 * j)
           T == {k \in 0 .. n : \A j \in 0 .. k - 1 : Permitted(mem, At(j), 4, perm)}
           done == Max(T)
           read(d) == [Advanced EXCEPT !.gpr = [r \in Regs |->
                         IF r - first \in 0 .. d - 1 THEN readBytes(mem, At(r - first), 4) ELSE @[r]]]
           c(d) == IF Insn.op = "stmw" THEN Advanced ELSE read(d)
           m(d) == IF Insn.op = "lmw" THEN mem ELSE storeWords(mem, ea, first, d)
<1>4. Complete(c(done), m(done)) \/ Fault("memory_fault", c(done), m(done))
  BY <1>1, <1>2, <1>3 DEF Multiple
<1>5. PICK d \in T : d = done
  <2>1. n \in Nat
    BY SizesAssumption DEF Regs
  <2>2. T \in SUBSET Nat /\ 0 \in T /\ \A x \in T : x <= n
    BY <2>1
  <2> HIDE DEF T, n
  <2> QED BY <2>1, <2>2, MaxInside
<1>6. d \in 0 .. n /\ \A j \in 0 .. d - 1 : Permitted(mem, At(j), 4, perm)
  OBVIOUS
<1>7. Complete(c(d), m(d)) \/ Fault("memory_fault", c(d), m(d))
  BY <1>4, <1>5
<1> HIDE DEF T, done
<1>8. c(d) \in Cpus
  <2>1. ASSUME NEW r \in Regs, r - first \in 0 .. d - 1
        PROVE  readBytes(mem, At(r - first), 4) \in Word
    <3>1. PICK j \in 0 .. d - 1 : j = r - first
      BY <2>1
    <3>2. At(j) \in Nat /\ Permitted(mem, At(j), 4, perm)
      <4>1. ea + 4 * j \in Int
        OBVIOUS
      <4> QED BY <1>6, <4>1, WrapNat
    <3> HIDE DEF At
    <3> QED BY <1>0, <3>1, <3>2, WordRead
  <2> DEFINE g == [r \in Regs |-> IF r - first \in 0 .. d - 1 THEN readBytes(mem, At(r - first), 4)
                                  ELSE Advanced.gpr[r]]
  <2>2. g \in [Regs -> Word]
    <3> HIDE DEF At
    <3> QED BY <1>0, <2>1, CpuFields
  <2>3. read(d) = [Advanced EXCEPT !.gpr = g]
    OBVIOUS
  <2> HIDE DEF g
  <2>4. [Advanced EXCEPT !.gpr = g] \in Cpus
    BY <1>0, <2>2 DEF Cpus
  <2>5. read(d) \in Cpus
    BY <2>3, <2>4, Zenon
  <2> HIDE DEF read
  <2> QED BY <1>0, <2>5
<1>9. m(d) \in Rewritten(mem)
  <2>1. CASE Insn.op = "lmw"
    BY <1>0, <2>1
  <2>2. CASE Insn.op = "stmw"
    <3>1. perm = "write" /\ m(d) = storeWords(mem, ea, first, d)
      BY <1>3, <2>2
    <3>2. ASSUME NEW j \in 0 .. d - 1
          PROVE  cpu.gpr[first + j] \in Nat /\ Permitted(mem, Wrap(ea + 4 * j), 4, "write")
      <4>1. first + j \in Regs
        BY <1>6, SizesAssumption DEF Regs
      <4> QED BY <1>0, <1>6, <3>1, <4>1, CpuFields
    <3>3. d \in Nat /\ ea \in Int
      BY <1>6
    <3> HIDE DEF n, At, c, m, read
    <3>4. storeWords(mem, ea, first, d) \in Rewritten(mem)
      BY <1>0, <3>2, <3>3, StoreWordsKeep
    <3> QED BY <3>1, <3>4
  <2> QED BY <1>0, <2>1, <2>2
<1> HIDE DEF c, m
<1> QED BY <1>7, <1>8, <1>9, CompleteSound, FaultSound

\* The ends of run's loop, and after them.
LEMMA EndsSound ==
  ASSUME RunInv, AtLimit \/ Leave \/ Stopped \/ UNCHANGED vars
  PROVE  Sound
<1>1. UNCHANGED <<call, cpu, mem>>
  BY DEF AtLimit, Leave, Stopped, vars
<1> QED BY <1>1, AtStep, StepSound

-----------------------------------------------------------------------------
(* prepare *)

\* An area that a configuration may ask for.
Asked(a) ==
  /\ a.base \in Nat /\ a.size \in Nat /\ a.perms \subseteq Perms
  /\ \A n \in DOMAIN a.bytes : a.bytes[n] \in Byte

LEMMA LayoutAsked ==
  ASSUME NEW k, WellTyped(k)
  PROVE  /\ Len(Layout(k)) \in Nat /\ DOMAIN Layout(k) = 1 .. Len(Layout(k))
         /\ \A j \in 1 .. Len(Layout(k)) : Asked(Layout(k)[j])
<1> DEFINE extra == << Area(k.importBase, k.importSize, {"read", "execute"}),
                       Area(k.heapBase, k.heapSize, {"read", "write"}),
                       Area(k.stackBase, k.stackSize, {"read", "write"}) >>
           X == {a \in ToSet(k.image) \cup {extra[1], extra[2], extra[3]} : Asked(a)}
<1>1. ASSUME NEW b \in Word, NEW s \in Word, NEW p \in SUBSET Perms
      PROVE  Asked(Area(b, s, p))
  BY WordsNat DEF Asked, Area
<1>2. Asked(extra[1]) /\ Asked(extra[2]) /\ Asked(extra[3])
  <2>1. /\ k.importBase \in Word /\ k.importSize \in Word /\ k.heapBase \in Word
        /\ k.heapSize \in Word /\ k.stackBase \in Word /\ k.stackSize \in Word
    BY DEF WellTyped
  <2>2. {"read", "execute"} \in SUBSET Perms /\ {"read", "write"} \in SUBSET Perms
    BY DEF Perms
  <2> QED BY <1>1, <2>1, <2>2
<1>3. \A a \in ToSet(k.image) : Asked(a)
  BY WordsNat DEF WellTyped, Asked
<1>4. k.image \in Seq(X)
  <2>1. k.image \in Seq(ToSet(k.image))
    BY DEF WellTyped
  <2>2. ToSet(k.image) \subseteq X
    BY <1>3
  <2> HIDE DEF X
  <2> QED BY <2>1, <2>2
<1>5. extra \in Seq(X)
  <2>1. extra[1] \in X /\ extra[2] \in X /\ extra[3] \in X
    BY <1>2
  <2> HIDE DEF X
  <2> QED BY <2>1
<1>6. PICK areas \in Seq(X) : areas = Layout(k)
  <2>1. Layout(k) = k.image \o extra
    BY DEF Layout
  <2> HIDE DEF X, extra
  <2>2. k.image \o extra \in Seq(X)
    BY <1>4, <1>5, ConcatProperties
  <2> QED BY <2>1, <2>2
<1>7. \A x \in X : Asked(x)
  OBVIOUS
<1> HIDE DEF X, extra
<1> QED BY <1>6, <1>7

\* Areas that were mapped one after the other, each beside those before it.
LEMMA MappedAreas ==
  ASSUME NEW areas, NEW n \in Nat, \A j \in 1 .. n : Asked(areas[j]),
         \A j \in 1 .. n : Mappable({areas[h] : h \in 1 .. j - 1}, areas[j].base, areas[j].size)
  PROVE  MapFirst(areas, n) \in SUBSET Regions /\ Disjoint(MapFirst(areas, n))
<1> DEFINE R(j) == Region(areas[j].base, areas[j].size, areas[j].perms, areas[j].bytes)
<1>1. ASSUME NEW j \in 1 .. n
      PROVE  /\ areas[j].base \in Nat /\ areas[j].size \in Nat /\ areas[j].size > 0
             /\ areas[j].base + areas[j].size <= Modulus
             /\ \A h \in 1 .. j - 1 : \/ areas[j].base + areas[j].size <= areas[h].base
                                      \/ areas[j].base >= areas[h].base + areas[h].size
  BY DEF Asked, Mappable, endExclusive
<1>2. ASSUME NEW j \in 1 .. n
      PROVE  R(j) \in Regions /\ R(j).base = areas[j].base /\ R(j).size = areas[j].size
  <2> DEFINE b == [i \in 0 .. areas[j].size - 1 |->
                     IF i \in DOMAIN areas[j].bytes THEN areas[j].bytes[i] ELSE 0]
  <2>0. 0 \in Byte
    BY Moduli, Powers DEF Byte
  <2>1. b \in [0 .. areas[j].size - 1 -> Byte]
    BY <2>0 DEF Asked
  <2>2. R(j) = [base |-> areas[j].base, size |-> areas[j].size, perms |-> areas[j].perms, bytes |-> b]
    BY DEF Region
  <2>3. areas[j].perms \in SUBSET Perms
    BY DEF Asked
  <2> HIDE DEF b
  <2>4. PICK size \in Nat \ {0} : size = areas[j].size
    BY <1>1
  <2>5. PICK base \in Nat : base = areas[j].base
    BY <1>1
  <2>6. b \in [0 .. size - 1 -> Byte] /\ b \in UNION {[0 .. i - 1 -> Byte] : i \in Nat}
    BY <2>1, <2>4
  <2>7. R(j) = [base |-> base, size |-> size, perms |-> areas[j].perms, bytes |-> b]
    BY <2>2, <2>4, <2>5
  <2> HIDE DEF R
  <2> QED BY <2>3, <2>4, <2>5, <2>6, <2>7 DEF Regions
<1>3. MapFirst(areas, n) = {R(j) : j \in 1 .. n}
  BY DEF MapFirst
<1> HIDE DEF R
<1>4. ASSUME NEW j \in 1 .. n, NEW h \in 1 .. n
      PROVE  \/ R(j) = R(h) \/ endExclusive(R(j)) <= R(h).base \/ endExclusive(R(h)) <= R(j).base
  <2>1. CASE h = j
    BY <2>1
  <2>2. CASE h < j
    <3>1. h \in 1 .. j - 1
      BY <2>2
    <3> QED BY <1>1, <1>2, <3>1 DEF endExclusive
  <2>3. CASE j < h
    <3>1. j \in 1 .. h - 1
      BY <2>3
    <3> QED BY <1>1, <1>2, <3>1 DEF endExclusive
  <2> QED BY <2>1, <2>2, <2>3
<1>5. \A j \in 1 .. n : R(j).size > 0 /\ endExclusive(R(j)) <= Modulus
  BY <1>1, <1>2 DEF endExclusive
<1> QED BY <1>2, <1>3, <1>4, <1>5 DEF Disjoint

LEMMA MapCountIn ==
  ASSUME NEW areas, NEW len \in Nat, len = Len(areas)
  PROVE  /\ MapCount(areas) \in 0 .. len
         /\ \A j \in 1 .. MapCount(areas) :
              Mappable({areas[h] : h \in 1 .. j - 1}, areas[j].base, areas[j].size)
<1> DEFINE T == {n \in 0 .. len : \A j \in 1 .. n :
                   Mappable({areas[h] : h \in 1 .. j - 1}, areas[j].base, areas[j].size)}
<1>1. T \in SUBSET Nat /\ 0 \in T /\ \A x \in T : x <= len
  OBVIOUS
<1>2. MapCount(areas) = Max(T)
  BY DEF MapCount
<1>3. Max(T) \in T
  <2> HIDE DEF T
  <2> QED BY <1>1, MaxInside
<1> QED BY <1>2, <1>3

LEMMA ZeroKept == ZeroCpu \in Cpus
<1>1. 0 \in Word
  BY Moduli DEF Word
<1> QED BY <1>1 DEF ZeroCpu, Cpus

LEMMA EnteredKeeps ==
  ASSUME NEW k, WellTyped(k), NEW m \in SUBSET Regions, NEW tv \in Word,
         tv # 0 => \A a \in {tv, Wrap(tv + 4)} : Permitted(m, a, 4, "read")
  PROVE  Entered(k, tv, m) \in Cpus
<1>0. /\ k.stackBase \in Nat /\ k.stackSize \in Nat /\ k.toc \in Word /\ k.returnAddress \in Word
      /\ k.entry \in Word /\ tv \in Nat
  BY WordsNat DEF WellTyped
<1>1. PICK top \in Word : top = Wrap(k.stackBase + k.stackSize - RedZone)
  BY <1>0, WrapNat, SizesAssumption
<1>2. PICK sp \in Word : sp = top - (top % StackAlign)
  <2>1. top \in Nat
    BY WordsNat
  <2>2. PICK sp \in Nat : sp = top - (top % StackAlign) /\ sp <= top
    BY <2>1, SizesAssumption
  <2> QED BY <2>1, <2>2, WordBelow
<1> DEFINE c == [ZeroCpu EXCEPT !.gpr[1] = sp, !.gpr[2] = k.toc, !.lr = k.returnAddress, !.pc = k.entry]
           d(p, t) == [c EXCEPT !.pc = p, !.gpr[2] = t, !.gpr[12] = tv]
<1>3. ZeroCpu \in Cpus
  BY ZeroKept
<1>4. c \in Cpus
  BY <1>0, <1>3 DEF Cpus
<1>5. CASE tv = 0
  <2>1. Entered(k, tv, m) = c
    BY <1>1, <1>2, <1>5 DEF Entered
  <2> HIDE DEF c
  <2> QED BY <1>4, <2>1
<1>6. CASE tv # 0
  <2>1. PICK p \in Word : p = readBytes(m, tv, 4)
    <3>1. Permitted(m, tv, 4, "read") /\ tv \in Int
      BY <1>0, <1>6
    <3> QED BY <3>1, WordRead
  <2>2. PICK t \in Word : t = readBytes(m, Wrap(tv + 4), 4)
    <3>1. Wrap(tv + 4) \in Nat
      BY <1>0, WrapNat
    <3> QED BY <1>6, <3>1, WordRead
  <2>3. Entered(k, tv, m) = d(p, t)
    BY <1>1, <1>2, <1>6, <2>1, <2>2 DEF Entered
  <2> HIDE DEF c
  <2>4. d(p, t) \in Cpus
    BY <1>0, <1>4 DEF Cpus
  <2> QED BY <2>3, <2>4, Zenon
<1> QED BY <1>5, <1>6

LEMMA AssignedKeeps ==
  ASSUME NEW k, WellTyped(k), NEW c \in Cpus
  PROVE  Assigned(k, c) \in Cpus
<1> DEFINE g == [r \in Regs |-> IF r \in DOMAIN k.registers THEN k.registers[r] ELSE c.gpr[r]]
<1>1. g \in [Regs -> Word]
  BY WordsNat, CpuFields DEF WellTyped
<1>2. Assigned(k, c) = [c EXCEPT !.gpr = g]
  BY DEF Assigned
<1> HIDE DEF g
<1>3. [c EXCEPT !.gpr = g] \in Cpus
  BY <1>1 DEF Cpus
<1> QED BY <1>2, <1>3, Zenon

LEMMA FirstWritesKeep ==
  ASSUME NEW k, WellTyped(k), NEW m \in SUBSET Regions, Disjoint(m)
  PROVE  WriteFirst(k, m, WriteCount(k, m)) \in Rewritten(m)
<1>1. PICK X : X = ToSet(k.writes) /\ k.writes \in Seq(X)
  BY DEF WellTyped
<1>2. PICK w \in Seq(X) : w = k.writes
  BY <1>1
<1>3. \A j \in 1 .. Len(w) : w[j].address \in Int /\ w[j].value \in Nat
  <2>1. \A j \in 1 .. Len(w) : w[j] \in ToSet(k.writes)
    BY <1>1, <1>2
  <2>2. \A x \in ToSet(k.writes) : x.address \in Int /\ x.value \in Nat
    <3>1. \A x \in ToSet(k.writes) : x.address \in Word /\ x.value \in Word
      BY Zenon DEF WellTyped
    <3>2. \A v \in Word : v \in Nat /\ v \in Int
      BY WordsNat
    <3> QED BY <3>1, <3>2, Zenon
  <2> QED BY <2>1, <2>2
<1> DEFINE T == {n \in 0 .. Len(w) : \A j \in 1 .. n : Permitted(m, w[j].address, 4, "write")}
<1>4. T \in SUBSET Nat /\ 0 \in T /\ \A x \in T : x <= Len(w)
  OBVIOUS
<1>5. PICK n \in T : n = WriteCount(k, m)
  <2>1. WriteCount(k, m) = Max(T)
    BY <1>2 DEF WriteCount
  <2>2. Max(T) \in T
    <3>1. Len(w) \in Nat
      OBVIOUS
    <3> HIDE DEF T
    <3> QED BY <1>4, <3>1, MaxInside
  <2> QED BY <2>1, <2>2
<1>6. n \in Nat /\ n <= Len(w) /\ \A j \in 1 .. n : Permitted(m, w[j].address, 4, "write")
  OBVIOUS
<1> HIDE DEF T
<1>7. PICK q : q = SubSeq(k.writes, 1, n) /\ DOMAIN q = 1 .. n /\ \A j \in 1 .. n : q[j] = w[j]
  <2>1. PICK q : q = SubSeq(w, 1, n)
    OBVIOUS
  <2>2. DOMAIN q = 1 .. n /\ \A j \in 1 .. n : q[j] = w[j]
    BY <1>6, <2>1
  <2> QED BY <1>2, <2>1, <2>2
<1>8. WriteFirst(k, m, n) \in Rewritten(m)
  <2>1. \A j \in 1 .. n : /\ q[j].address \in Int /\ q[j].value \in Nat
                           /\ Permitted(m, q[j].address, 4, "write")
    BY <1>3, <1>6, <1>7
  <2> QED BY <1>6, <1>7, <2>1, WriteFirstKeeps
<1> QED BY <1>5, <1>8

LEMMA PrepareSound ==
  ASSUME RunInv, Prepare
  PROVE  Sound
<1>0. WellTyped(call) /\ cpu \in Cpus
  BY DEF RunInv
<1>1. PICK areas : areas = Layout(call)
  OBVIOUS
<1>2. PICK len \in Nat : len = Len(areas) /\ \A j \in 1 .. len : Asked(areas[j])
  BY <1>0, <1>1, LayoutAsked
<1>3. PICK n \in 0 .. len :
        /\ n = MapCount(areas)
        /\ \A j \in 1 .. n : Mappable({areas[h] : h \in 1 .. j - 1}, areas[j].base, areas[j].size)
  BY <1>2, MapCountIn
<1>4. PICK m \in SUBSET Regions : m = MapFirst(areas, n) /\ Disjoint(m)
  <2>1. n \in Nat /\ \A j \in 1 .. n : Asked(areas[j])
    BY <1>2
  <2> QED BY <1>3, <2>1, MappedAreas
<1>5. \/ cpu' = cpu /\ mem' = m
      \/ cpu' = Entered(call, 0, m) /\ mem' = m
      \/ /\ CanEnter(call, m) /\ cpu' = Assigned(call, Entered(call, call.transitionVector, m))
         /\ mem' = WriteFirst(call, m, WriteCount(call, m))
  BY <1>1, <1>2, <1>3, <1>4 DEF Prepare
<1>6. m \in Rewritten(m)
  BY <1>4, RewrittenSelf
<1>7. cpu' \in Cpus /\ mem' \in Rewritten(m)
  <2>1. CASE cpu' = cpu /\ mem' = m
    BY <1>0, <1>6, <2>1
  <2>2. CASE cpu' = Entered(call, 0, m) /\ mem' = m
    <3>1. 0 \in Word
      BY Moduli DEF Word
    <3> QED BY <1>0, <1>6, <2>2, <3>1, EnteredKeeps
  <2>3. CASE /\ CanEnter(call, m) /\ cpu' = Assigned(call, Entered(call, call.transitionVector, m))
             /\ mem' = WriteFirst(call, m, WriteCount(call, m))
    <3>1. PICK tv \in Word : tv = call.transitionVector
      BY <1>0 DEF WellTyped
    <3>2. tv # 0 => \A a \in {tv, Wrap(tv + 4)} : Permitted(m, a, 4, "read")
      BY <2>3, <3>1 DEF CanEnter
    <3>3. Entered(call, tv, m) \in Cpus
      BY <1>0, <3>2, EnteredKeeps
    <3>4. Assigned(call, Entered(call, tv, m)) \in Cpus
      BY <1>0, <3>3, AssignedKeeps
    <3> QED BY <1>0, <1>4, <2>3, <3>1, <3>4, FirstWritesKeep
  <2> QED BY <1>5, <2>1, <2>2, <2>3
<1>8. mem' \in SUBSET Regions /\ Disjoint(mem')
  BY <1>4, <1>7, RewrittenConfined
<1>9. call' = call /\ result.reason # "run"
  BY DEF Prepare, Going
<1>10. WellTyped(call)'
  BY <1>0, <1>9 DEF WellTyped
<1>11. Disjoint(mem)'
  BY <1>8 DEF Disjoint
<1> QED BY <1>7, <1>8, <1>9, <1>10, <1>11 DEF RunInv, Sound

-----------------------------------------------------------------------------
(* Memory is written only where it may be *)

LEMMA InitRun == Init => RunInv
<1> SUFFICES ASSUME Init PROVE RunInv
  OBVIOUS
<1>1. WellTyped(call)
  BY CallsAssumption DEF Init
<1>2. cpu \in Cpus
  BY ZeroKept DEF Init
<1>3. mem \in SUBSET Regions /\ Disjoint(mem)
  BY DEF Init, Disjoint
<1> QED BY <1>1, <1>2, <1>3 DEF RunInv

LEMMA EveryStepSound == RunInv /\ [Next]_vars => Sound
<1> SUFFICES ASSUME RunInv, [Next]_vars PROVE Sound
  OBVIOUS
<1>1. CASE \/ AddSubStep \/ MulDivStep \/ ImmediateStep \/ LogicalStep \/ RotateStep \/ ShiftStep
           \/ CompareStep \/ ConditionStep \/ Hint \/ Unsupported \/ TrapStep
  BY <1>1, RegisterStepsSound
<1>2. CASE SpecialStep \/ SystemCall
  BY <1>2, SpecialStepsSound
<1>3. CASE DirectBranch \/ IndirectBranch
  BY <1>3, DirectBranchSound, IndirectBranchSound
<1>4. CASE Load \/ Store \/ Multiple
  BY <1>4, LoadSound, StoreSound, MultipleSound
<1>5. CASE Reserve \/ StoreConditional \/ ZeroBlock
  BY <1>5, ReservationsSound
<1>6. CASE AtLimit \/ Leave \/ Stopped \/ UNCHANGED vars
  BY <1>6, EndsSound
<1>7. CASE Prepare
  BY <1>7, PrepareSound
<1> QED BY <1>1, <1>2, <1>3, <1>4, <1>5, <1>6, <1>7 DEF Next

\* WritesConfined holds of every call: prepare maps areas that never overlap (Memory::map),
\* and no instruction, stub or partial stmw changes a byte where the region that holds it
\* does not allow writing, nor the regions themselves (Memory::writeBytes and its callers).
THEOREM WritesStayConfined == Spec => WritesConfined
<1>1. ASSUME RunInv, [Next]_vars
      PROVE  RunInv' /\ Disjoint(mem') /\ (result.reason = "run" => Confined(mem, mem'))
  <2>1. Sound
    BY <1>1, EveryStepSound
  <2>2. RunInv' /\ Disjoint(mem')
    BY <2>1 DEF Sound, RunInv, Disjoint
  <2>3. mem \in SUBSET Regions /\ Disjoint(mem)
    BY <1>1 DEF RunInv
  <2> QED BY <2>1, <2>2, <2>3, RewrittenConfined DEF Sound
<1>2. RunInv /\ [Next]_vars =>
        RunInv' /\ [/\ Disjoint(mem')
                    /\ result.reason = "run" =>
                         /\ {[r EXCEPT !.bytes = 0] : r \in mem'} = {[r EXCEPT !.bytes = 0] : r \in mem}
                         /\ \A a \in DOMAIN MemoryBytes(mem) :
                              MemoryBytes(mem')[a] # MemoryBytes(mem)[a] =>
                                \E r \in find(mem, a, 1) : "write" \in r.perms]_vars
  BY <1>1 DEF Confined
<1> QED BY <1>2, InitRun, PTL DEF Spec, WritesConfined

-----------------------------------------------------------------------------
(* A refused instruction *)

\* What FaultChangesNothing compares: all of the CPU but pc and CTR.
Kept(c) == [c EXCEPT !.pc = 0, !.ctr = 0]

\* A step as FaultChangesNothing allows it.
Harmless == Faulted /\ Insn.op \notin {"lmw", "stmw"} => mem' = mem /\ Kept(cpu') = Kept(cpu)

\* A completed instruction does not end the call.
LEMMA CompletedGoesOn ==
  ASSUME NEW c, NEW m, Complete(c, m)
  PROVE  Harmless
<1>1. result' = result
  BY DEF Complete
<1>2. ~Faulted
  BY <1>1 DEF Faulted, StopReasons
<1> QED BY <1>2 DEF Harmless

\* pc and CTR are not compared.
LEMMA KeptParts ==
  ASSUME NEW v
  PROVE  Kept(Advanced) = Kept(cpu) /\ Kept(Counted(Advanced, v)) = Kept(cpu)
<1>1. Kept(Advanced) = Kept(cpu)
  BY DEF Kept, Advanced
<1>2. CASE Counted(Advanced, v) = Advanced
  BY <1>1, <1>2
<1>3. CASE Counted(Advanced, v) # Advanced
  <2>1. \E w : Counted(Advanced, v) = [Advanced EXCEPT !.ctr = w]
    BY <1>3 DEF Counted
  <2> QED BY <1>1, <2>1 DEF Kept
<1> QED BY <1>1, <1>2, <1>3

\* fault(...) reports the instruction; memory is what it was.
LEMMA FaultKeeps ==
  ASSUME NEW reason, Fault(reason, Advanced, mem)
  PROVE  Harmless
  BY KeptParts DEF Fault, Harmless

\* Instructions that cannot be refused.
LEMMA PlainCompletes ==
  ASSUME \/ AddSubStep \/ MulDivStep \/ ImmediateStep \/ LogicalStep \/ RotateStep \/ ShiftStep
         \/ CompareStep \/ ConditionStep \/ Hint \/ DirectBranch
  PROVE  \E c, m : Complete(c, m)
<1>1. CASE AddSubStep \/ MulDivStep \/ ImmediateStep \/ CompareStep \/ ConditionStep \/ Hint
  BY <1>1, Zenon DEF AddSubStep, MulDivStep, ImmediateStep, CompareStep, ConditionStep, Hint
<1>2. CASE LogicalStep \/ RotateStep \/ ShiftStep \/ DirectBranch
  BY <1>2, Zenon DEF LogicalStep, RotateStep, ShiftStep, DirectBranch
<1> QED BY <1>1, <1>2

\* Instructions that are refused as a whole: traps, special registers, system calls, words
\* without meaning, and accesses that are checked before anything is assigned.
LEMMA CompletesOrRefuses ==
  ASSUME \/ TrapStep \/ SpecialStep \/ SystemCall \/ Unsupported
         \/ Load \/ Store \/ Reserve \/ StoreConditional \/ ZeroBlock
  PROVE  (\E c, m : Complete(c, m)) \/ (\E reason : Fault(reason, Advanced, mem))
<1>1. CASE TrapStep
  BY <1>1, Zenon DEF TrapStep
<1>2. CASE SpecialStep
  <2>1. Insn.op = "mfspr" \/ Insn.op = "mtspr"
    BY <1>2 DEF SpecialStep, Fetched
  <2>2. CASE Insn.spr \notin {"xer", "lr", "ctr"}
    BY <1>2, <2>2, Zenon DEF SpecialStep
  <2>3. CASE Insn.spr \in {"xer", "lr", "ctr"} /\ Insn.op = "mfspr"
    BY <1>2, <2>3, Zenon DEF SpecialStep
  <2>4. CASE Insn.spr \in {"xer", "lr", "ctr"} /\ Insn.op = "mtspr"
    BY <1>2, <2>4, Zenon DEF SpecialStep
  <2> QED BY <2>1, <2>2, <2>3, <2>4
<1>3. CASE SystemCall
  BY <1>3, Zenon DEF SystemCall
<1>4. CASE Unsupported
  BY <1>4, Zenon DEF Unsupported
<1>5. CASE Load \/ Store
  BY <1>5, Zenon DEF Load, Store
<1>6. CASE Reserve \/ ZeroBlock
  BY <1>6, Zenon DEF Reserve, ZeroBlock
<1>7. CASE StoreConditional
  BY <1>7, Zenon DEF StoreConditional
<1> QED BY <1>1, <1>2, <1>3, <1>4, <1>5, <1>6, <1>7

\* An import that is refused has counted CTR down and moved pc, nothing else.
LEMMA GlueEnds ==
  ASSUME IndirectBranch
  PROVE  \/ \E c, m : Complete(c, m)
         \/ /\ cpu' = Counted(Advanced, Insn.bo) /\ mem' = mem /\ call' = call /\ count' = count
            /\ InImports(cpu.gpr[12]) /\ \E reason : Stop(reason, count + 1, cpu.gpr[12])
<1>1. CASE ~evaluateBranchCondition(cpu, Insn.bo, Insn.bi)
  BY <1>1, Zenon DEF IndirectBranch
<1>2. CASE evaluateBranchCondition(cpu, Insn.bo, Insn.bi)
  BY <1>2, Zenon DEF IndirectBranch
<1> QED BY <1>1, <1>2

\* A call that stops, whatever its configuration, its code and the reason, stops before the
\* instruction that it reports has changed a byte or anything but pc and CTR; only lmw and
\* stmw leave a part of their work (every return fault(...) in run).
THEOREM RefusalsChangeNothing == Spec => [][FaultChangesNothing]_vars
<1>1. ASSUME [Next]_vars PROVE Harmless \/ UNCHANGED vars
  <2>1. CASE Prepare
    BY <2>1 DEF Prepare, Going, Harmless, Faulted
  <2>2. CASE AtLimit \/ Leave \/ Stopped
    BY <2>2 DEF AtLimit, Leave, Stopped, Harmless, vars
  <2>3. CASE Multiple
    BY <2>3 DEF Multiple, Fetched, Harmless
  <2>4. CASE UNCHANGED vars
    BY <2>4
  <2>5. CASE \/ AddSubStep \/ MulDivStep \/ ImmediateStep \/ LogicalStep \/ RotateStep \/ ShiftStep
             \/ CompareStep \/ ConditionStep \/ Hint \/ DirectBranch
    BY <2>5, PlainCompletes, CompletedGoesOn
  <2>6. CASE \/ TrapStep \/ SpecialStep \/ SystemCall \/ Unsupported
             \/ Load \/ Store \/ Reserve \/ StoreConditional \/ ZeroBlock
    BY <2>6, CompletesOrRefuses, CompletedGoesOn, FaultKeeps
  <2>7. CASE IndirectBranch
    <3>1. CASE \E c, m : Complete(c, m)
      BY <3>1, CompletedGoesOn
    <3>2. CASE cpu' = Counted(Advanced, Insn.bo) /\ mem' = mem
      BY <3>2, KeptParts DEF Harmless
    <3> QED BY <2>7, <3>1, <3>2, GlueEnds
  <2> QED
    BY <1>1, <2>1, <2>2, <2>3, <2>4, <2>5, <2>6, <2>7 DEF Next
<1> QED
  BY <1>1, PTL DEF Spec, FaultChangesNothing, Harmless, Kept

-----------------------------------------------------------------------------
(* XER tells what the integers do *)

\* What setCarry and setOverflow do to the flags.
LEMMA FlagsSet ==
  ASSUME NEW x \in Word, NEW on \in BOOLEAN
  PROVE  /\ (Bit(SetBit(x, CA, on), CA) = 1) = on /\ Bit(SetBit(x, CA, on), SO) = Bit(x, SO)
         /\ LET y == SetBit(IF on THEN SetBit(x, SO, TRUE) ELSE x, OV, on)
            IN  (Bit(y, OV) = 1) = on /\ (Bit(y, SO) = 1) = (Bit(x, SO) = 1 \/ on)
<1>1. PICK p \in Nat : p = 2 ^ CA /\ 2 ^ OV = 2 * p /\ 2 ^ SO = 4 * p
  BY XerPlaces
<1>2. PICK q \in 0 .. 7, r \in 0 .. p - 1 : x = q * p + r
  BY <1>1, XerParts
<1>3. \A k \in 0 .. 7 : /\ Bit(k * p + r, CA) = k % 2 /\ Bit(k * p + r, OV) = (k \div 2) % 2
                        /\ Bit(k * p + r, SO) = k \div 4
  BY <1>1, XerBits
<1> DEFINE b == IF on THEN 1 ELSE 0
           k == q + b - (q % 2)
           l == IF on THEN q + 4 * (1 - (q \div 4)) ELSE q
           j == l + 2 * (b - ((l \div 2) % 2))
<1>4. k \in 0 .. 7 /\ k % 2 = b /\ k \div 4 = q \div 4
  OBVIOUS
<1>5. SetBit(x, CA, on) = k * p + r
  <2>1. SetBit(x, CA, on) = x + (b - (q % 2)) * p
    BY <1>1, <1>2, <1>3 DEF SetBit
  <2>2. PICK d \in Int : d = b - (q % 2)
    OBVIOUS
  <2>3. k = q + d
    BY <2>2
  <2> HIDE DEF b, k
  <2> QED BY <1>2, <2>1, <2>2, <2>3
<1>6. (Bit(SetBit(x, CA, on), CA) = 1) = on
  <2>1. Bit(SetBit(x, CA, on), CA) = b
    <3> HIDE DEF k, b
    <3> QED BY <1>3, <1>4, <1>5
  <2> QED BY <2>1
<1>6a. Bit(SetBit(x, CA, on), SO) = Bit(x, SO)
  <2> HIDE DEF k, b
  <2> QED BY <1>2, <1>3, <1>4, <1>5
<1>7. l \in 0 .. 7 /\ l \div 4 = (IF on THEN 1 ELSE q \div 4)
  OBVIOUS
<1>8. (IF on THEN SetBit(x, SO, TRUE) ELSE x) = l * p + r
  <2>1. CASE on
    <3>1. SetBit(x, SO, TRUE) = x + (1 - (q \div 4)) * (4 * p)
      BY <1>1, <1>2, <1>3 DEF SetBit
    <3>2. PICK d \in Int : d = 1 - (q \div 4)
      OBVIOUS
    <3>3. l = q + 4 * d
      BY <2>1, <3>2
    <3>4. (q + 4 * d) * p = q * p + d * (4 * p)
      BY <3>2
    <3>5. PICK a \in Int : a = d * (4 * p)
      BY <3>2
    <3>6. PICK c \in Int : c = q * p
      BY <1>2
    <3>7. SetBit(x, SO, TRUE) = (c + r) + a
      BY <1>2, <3>1, <3>2, <3>5, <3>6
    <3>8. l * p = c + a
      <4> HIDE DEF l
      <4> QED BY <3>3, <3>4, <3>5, <3>6
    <3>9. SetBit(x, SO, TRUE) = (c + a) + r
      <4>1. r \in Int
        OBVIOUS
      <4>2. (c + r) + a = (c + a) + r
        BY <4>1
      <4> QED BY <3>7, <4>2, Zenon
    <3> HIDE DEF l
    <3> QED BY <2>1, <3>8, <3>9
  <2>2. CASE ~on
    BY <1>2, <2>2
  <2> QED BY <2>1, <2>2
<1> HIDE DEF l
<1>9. j \in 0 .. 7 /\ (j \div 2) % 2 = b /\ j \div 4 = l \div 4
  BY <1>7
<1>10. SetBit(l * p + r, OV, on) = j * p + r
  <2>1. SetBit(l * p + r, OV, on) = l * p + r + (b - ((l \div 2) % 2)) * (2 * p)
    BY <1>1, <1>3, <1>7 DEF SetBit
  <2>2. PICK d \in Int : d = b - ((l \div 2) % 2)
    BY <1>7
  <2>3. j = l + 2 * d
    BY <2>2
  <2>4. (l + 2 * d) * p = l * p + d * (2 * p)
    BY <1>7, <2>2
  <2>5. PICK a \in Int : a = d * (2 * p)
    BY <2>2
  <2>6. PICK c \in Int : c = l * p
    BY <1>7
  <2> HIDE DEF b, j
  <2> QED BY <1>7, <2>1, <2>2, <2>3, <2>4, <2>5, <2>6
<1> DEFINE y == SetBit(IF on THEN SetBit(x, SO, TRUE) ELSE x, OV, on)
<1>11. y = j * p + r
  BY <1>8, <1>10, Zenon
<1> HIDE DEF y
<1>12. Bit(y, OV) = b /\ Bit(y, SO) = l \div 4
  <2> HIDE DEF j, b
  <2> QED BY <1>3, <1>9, <1>11
<1>13. Bit(x, SO) = q \div 4
  BY <1>2, <1>3
<1>14. (Bit(y, OV) = 1) = on
  BY <1>12
<1>15. (Bit(y, SO) = 1) = (Bit(x, SO) = 1 \/ on)
  BY <1>7, <1>12, <1>13
<1> QED BY <1>6, <1>6a, <1>14, <1>15 DEF y

\* A word as an unsigned and as a signed number.
LEMMA SignedIs ==
  \E H \in Nat :
    /\ H > 0 /\ Modulus = 2 * H /\ Modulus \div 2 = H
    /\ \A x \in Word : /\ x \in Int /\ 0 <= x /\ x < 2 * H
                       /\ Signed(x) = (IF x < H THEN x ELSE x - 2 * H) /\ Signed(x) \in Int
                       /\ Negative(x) <=> x >= H
<1>1. PICK H \in Nat : H > 0 /\ Modulus = 2 * H
  <2>1. PICK p \in Nat : p = 2 ^ CA /\ p > 0 /\ Modulus = 8 * p
    BY XerPlaces
  <2>2. 4 * p \in Nat /\ 4 * p > 0 /\ Modulus = 2 * (4 * p)
    BY <2>1
  <2> QED BY <2>2
<1>2. Modulus \div 2 = H
  BY <1>1
<1>3. ASSUME NEW x \in Word
      PROVE  /\ x \in Int /\ 0 <= x /\ x < 2 * H
             /\ Signed(x) = (IF x < H THEN x ELSE x - 2 * H) /\ Signed(x) \in Int
             /\ Negative(x) <=> x >= H
  <2>1. x \in Int /\ 0 <= x /\ x < 2 * H
    BY <1>1 DEF Word
  <2>2. Signed(x) = IF x < H THEN x ELSE x - 2 * H
    BY <1>1, <2>1 DEF Signed
  <2> QED BY <2>1, <2>2 DEF Negative
<1> QED BY <1>1, <1>2, <1>3

\* Sums of two words wrap at most once.
LEMMA WrapOnce ==
  ASSUME NEW v \in Int, v >= 0, v < 2 * Modulus
  PROVE  Wrap(v) = IF v < Modulus THEN v ELSE v - Modulus
<1>1. PICK d \in Nat : d = Modulus /\ d > 0
  BY Moduli
<1>2. CASE v < d
  <2>1. 0 * d <= v /\ v < 0 * d + d /\ 0 \in Int
    BY <1>2
  <2>2. v % d = v - 0 * d
    BY <1>1, <2>1, QuotientIs, Zenon
  <2> QED BY <1>1, <1>2, <2>2 DEF Wrap
<1>3. CASE ~(v < d)
  <2>1. 1 * d <= v /\ v < 1 * d + d /\ 1 \in Int
    BY <1>1, <1>3
  <2>2. v % d = v - 1 * d
    BY <1>1, <2>1, QuotientIs, Zenon
  <2> QED BY <1>1, <1>3, <2>2 DEF Wrap
<1> QED BY <1>1, <1>2, <1>3

\* The overflow that addSub judges is that of the integers.
LEMMA OverflowExact ==
  ASSUME NEW op \in AddSub, NEW a \in Word, NEW b \in Word, NEW ca \in {0, 1}
  PROVE  Overflows(op, a, b, Wrap(Wide(op, a, b, ca)), ca)
           <=> OutOfRange(TrueValue(op, Signed(a), Signed(b), ca))
<1>1. PICK H \in Nat :
        /\ H > 0 /\ Modulus = 2 * H /\ Modulus \div 2 = H
        /\ \A x \in Word : /\ x \in Int /\ 0 <= x /\ x < 2 * H
                           /\ Signed(x) = (IF x < H THEN x ELSE x - 2 * H) /\ Signed(x) \in Int
                           /\ Negative(x) <=> x >= H
  BY SignedIs
<1>2. \A v : OutOfRange(v) <=> v < -H \/ v >= H
  BY <1>1 DEF OutOfRange
<1>3. /\ a \in Int /\ 0 <= a /\ a < 2 * H /\ Signed(a) = (IF a < H THEN a ELSE a - 2 * H)
      /\ b \in Int /\ 0 <= b /\ b < 2 * H /\ Signed(b) = (IF b < H THEN b ELSE b - 2 * H)
      /\ (Negative(a) <=> a >= H) /\ (Negative(b) <=> b >= H)
  BY <1>1
<1>4. ASSUME NEW v \in Int, v >= 0, v < 4 * H
      PROVE  /\ Wrap(v) = (IF v < 2 * H THEN v ELSE v - 2 * H)
             /\ Negative(Wrap(v)) <=> Wrap(v) >= H
  BY <1>1, <1>4, WrapOnce, WrapNat
<1>5. op \in {"add", "addc", "adde", "addze", "addme", "subf", "subfc", "subfe", "subfze", "subfme", "neg"}
  BY DEF AddSub, Extended
<1>6. CASE op \in {"add", "addc"}
  <2>1. /\ Wide(op, a, b, ca) = a + b
        /\ TrueValue(op, Signed(a), Signed(b), ca) = Signed(a) + Signed(b)
        /\ \A r : Overflows(op, a, b, r, ca) <=> addOverflow(a, b, r)
    BY <1>6 DEF Wide, TrueValue, Overflows
  <2>2. PICK r \in Int : /\ r = Wrap(a + b) /\ r = (IF a + b < 2 * H THEN a + b ELSE a + b - 2 * H)
                         /\ Negative(r) <=> r >= H
    BY <1>3, <1>4
  <2>3. addOverflow(a, b, r) <=> ((a >= H <=> b >= H) /\ ~(a >= H <=> r >= H))
    BY <1>3, <2>2 DEF addOverflow, Negative
  <2>4. PICK v \in Int : v = Signed(a) + Signed(b)
    BY <1>3
  <2>5. ((a >= H <=> b >= H) /\ ~(a >= H <=> r >= H)) <=> v < -H \/ v >= H
    BY <1>3, <2>2, <2>4
  <2> QED BY <1>2, <2>1, <2>2, <2>3, <2>4, <2>5
<1>7. CASE op \in {"subf", "subfc"}
  <2>1. /\ Wide(op, a, b, ca) = b + Not(a) + 1
        /\ TrueValue(op, Signed(a), Signed(b), ca) = Signed(b) - Signed(a)
        /\ \A r : Overflows(op, a, b, r, ca) <=> subOverflow(b, a, r)
    BY <1>7 DEF Wide, TrueValue, Overflows
  <2>2. PICK w \in Int : w = b + Not(a) + 1 /\ w = b - a + 2 * H
    BY <1>1, <1>3 DEF Not
  <2>3. PICK r \in Int : r = Wrap(w) /\ r = (IF w < 2 * H THEN w ELSE w - 2 * H) /\ (Negative(r) <=> r >= H)
    BY <1>3, <1>4, <2>2
  <2>4. subOverflow(b, a, r) <=> (~(a >= H <=> b >= H) /\ ~(b >= H <=> r >= H))
    BY <1>3, <2>3 DEF subOverflow, Negative
  <2>5. PICK v \in Int : v = Signed(b) - Signed(a)
    BY <1>1
  <2>6. (~(a >= H <=> b >= H) /\ ~(b >= H <=> r >= H)) <=> v < -H \/ v >= H
    BY <1>3, <2>2, <2>3, <2>5
  <2> QED BY <1>2, <2>1, <2>2, <2>3, <2>4, <2>5, <2>6
<1>8. CASE op = "neg"
  <2>1. /\ TrueValue(op, Signed(a), Signed(b), ca) = -Signed(a)
        /\ \A r : Overflows(op, a, b, r, ca) <=> 2 * a = Modulus
    BY <1>8 DEF TrueValue, Overflows
  <2>2. PICK v \in Int : v = -Signed(a)
    BY <1>3
  <2>3. 2 * a = Modulus <=> v < -H \/ v >= H
    BY <1>1, <1>3, <2>2
  <2> QED BY <1>2, <2>1, <2>2, <2>3
<1>9. CASE op \in {"adde", "subfe", "addze", "addme", "subfze", "subfme"}
  <2>1. Signed(a) \in Int /\ Signed(b) \in Int
    BY <1>3
  <2>2. PICK x \in Int : x = Signed(a)
    BY <2>1
  <2>3. PICK y \in Int : y = Signed(b)
    BY <2>1
  <2>4. y - x + ca - 1 = y - x - 1 + ca
    OBVIOUS
  <2> QED BY <1>9, <2>2, <2>3, <2>4 DEF Overflows, TrueValue
<1> QED BY <1>5, <1>6, <1>7, <1>8, <1>9

\* The bits that an algebraic shift loses are those that the integers lose.
LEMMA LostBits ==
  ASSUME NEW x \in Word, NEW n \in Nat, NEW s, s = Signed(x)
  PROVE  (s < 0 /\ (IF n >= WordBits THEN x # 0 ELSE x % 2 ^ n # 0)) <=> (s < 0 /\ s % 2 ^ n # 0)
<1>1. PICK H \in Nat : /\ H > 0 /\ Modulus = 2 * H /\ x \in Int /\ 0 <= x /\ x < 2 * H
                       /\ s = (IF x < H THEN x ELSE x - 2 * H)
  BY SignedIs
<1>2. PICK d \in Nat : d = 2 ^ n /\ d > 0
  BY Powers
<1>3. CASE s < 0 /\ n >= WordBits
  <2>1. d >= 2 * H
    BY <1>1, <1>2, <1>3, PowerInside, Moduli DEF Modulus
  <2>2. s \in Int /\ (-1) * d <= s /\ s < (-1) * d + d /\ -1 \in Int
    BY <1>1, <1>3, <2>1
  <2>3. s % d = s - (-1) * d
    BY <1>2, <2>2, QuotientIs, Zenon
  <2>4. s % d # 0 /\ x # 0
    BY <1>1, <1>3, <2>1, <2>3
  <2> QED BY <1>2, <1>3, <2>4
<1>4. CASE s < 0 /\ ~(n >= WordBits)
  <2>1. PICK K \in Nat : 2 * H = K * d
    <3>1. n <= WordBits /\ WordBits \in Nat
      BY <1>4, Moduli
    <3>2. 2 ^ WordBits = 2 ^ (WordBits - n) * 2 ^ n /\ 2 ^ (WordBits - n) \in Nat
      BY <3>1, PowerInside
    <3> QED BY <1>1, <1>2, <3>2 DEF Modulus
  <2>2. PICK q \in Int, r \in 0 .. d - 1 : r = x % d /\ x = q * d + r
    BY <1>1, <1>2, DivMod
  <2>3. PICK c \in Int : c = q - K
    OBVIOUS
  <2>4. c * d = q * d - K * d
    BY <2>3
  <2>5. PICK a \in Int : a = c * d /\ s = a + r
    <3>1. s = x - K * d
      BY <1>1, <1>4, <2>1
    <3>2. PICK a \in Int : a = c * d
      OBVIOUS
    <3>3. PICK e \in Int : e = q * d
      OBVIOUS
    <3>4. PICK f \in Int : f = K * d
      OBVIOUS
    <3>5. a = e - f /\ s = x - f /\ x = e + r
      BY <2>2, <2>4, <3>1, <3>2, <3>3, <3>4
    <3> QED BY <3>2, <3>5
  <2>6. s \in Int /\ c * d <= s /\ s < c * d + d
    BY <2>5
  <2>7. s % d = s - c * d
    BY <1>2, <2>6, QuotientIs, Zenon
  <2>8. s % d = r
    BY <2>5, <2>7
  <2> QED BY <1>2, <1>4, <2>2, <2>8
<1> QED BY <1>3, <1>4

\* The record form leaves XER alone.
LEMMA RecordXer ==
  ASSUME NEW c \in Cpus, NEW i, NEW r
  PROVE  updateCr0(c, i, r).xer = c.xer
<1>1. \A v : [c EXCEPT !.cr = v].xer = c.xer
  BY DEF Cpus
<1> QED BY <1>1 DEF updateCr0, setCompare, setCrField

\* XER after setCarry and setOverflow.
LEMMA FlagsAre ==
  ASSUME NEW c \in Cpus, NEW on \in BOOLEAN
  PROVE  /\ (Bit(setCarry(c, on).xer, CA) = 1) = on
         /\ Bit(setCarry(c, on).xer, SO) = Bit(c.xer, SO)
         /\ (Bit(setOverflow(c, on).xer, OV) = 1) = on
         /\ (Bit(setOverflow(c, on).xer, SO) = 1) = (Bit(c.xer, SO) = 1 \/ on)
<1>1. \A v : [c EXCEPT !.xer = v].xer = v
  BY DEF Cpus
<1>2. c.xer \in Word
  BY CpuFields
<1>3. setCarry(c, on).xer = SetBit(c.xer, CA, on)
  BY <1>1 DEF setCarry
<1>4. setOverflow(c, on).xer = SetBit(IF on THEN SetBit(c.xer, SO, TRUE) ELSE c.xer, OV, on)
  BY <1>1 DEF setOverflow
<1>5. /\ (Bit(SetBit(c.xer, CA, on), CA) = 1) = on /\ Bit(SetBit(c.xer, CA, on), SO) = Bit(c.xer, SO)
      /\ LET y == SetBit(IF on THEN SetBit(c.xer, SO, TRUE) ELSE c.xer, OV, on)
         IN  (Bit(y, OV) = 1) = on /\ (Bit(y, SO) = 1) = (Bit(c.xer, SO) = 1 \/ on)
  BY <1>2, FlagsSet, Zenon
<1> QED BY <1>3, <1>4, <1>5, Zenon

\* XerExact of one OE form: c and d are the CPU before and after it.
OverflowTold(c, d, i) ==
  /\ (Bit(d.xer, OV) = 1) = OutOfRange(TrueValue(i.op, Signed(c.gpr[i.ra]), Signed(c.gpr[i.rb]),
                                                Bit(c.xer, CA)))
  /\ (Bit(d.xer, SO) = 1) = (Bit(c.xer, SO) = 1 \/ Bit(d.xer, OV) = 1)

\* XerExact of one algebraic shift.
CarryTold(c, d, i) ==
  LET s == Signed(c.gpr[i.rt])
      n == IF i.op = "srawi" THEN i.rb ELSE c.gpr[i.rb] % (2 * WordBits)
  IN  (Bit(d.xer, CA) = 1) = (s < 0 /\ s % 2 ^ n # 0)

\* neg overflows on the one word that is its own negative, so that it is the same to
\* ask the target.
LEMMA NegatedTwice ==
  ASSUME NEW a \in Word
  PROVE  2 * Wrap(Not(a) + 1) = Modulus <=> 2 * a = Modulus
<1>1. PICK d \in Nat : d = Modulus /\ d > 0
  BY Moduli
<1>2. a \in Int /\ 0 <= a /\ a < d
  BY <1>1 DEF Word
<1>3. PICK v \in Int : v = Not(a) + 1 /\ v = d - a
  BY <1>1, <1>2 DEF Not
<1>4. Wrap(v) = IF v < d THEN v ELSE v - d
  BY <1>1, <1>2, <1>3, WrapOnce
<1> QED BY <1>1, <1>2, <1>3, <1>4

\* What is judged is what the operands were, although they are read after the result
\* was assigned.
LEMMA JudgedAsBefore ==
  ASSUME NEW i, i.op \in AddSub, i.oe, Unaliased(i), i.ra \in Regs, i.rb \in Regs, i.rt \in Regs,
         NEW f \in [Regs -> Word], NEW ca \in {0, 1}, NEW g,
         g = [f EXCEPT ![i.rt] = Wrap(Wide(i.op, f[i.ra], f[i.rb], ca))]
  PROVE  Overflows(i.op, g[i.ra], g[i.rb], g[i.rt], ca)
           <=> OutOfRange(TrueValue(i.op, Signed(f[i.ra]), Signed(f[i.rb]), ca))
<1>1. PICK a \in Word : a = f[i.ra]
  OBVIOUS
<1>2. PICK b \in Word : b = f[i.rb]
  OBVIOUS
<1>3. PICK op \in AddSub : op = i.op
  OBVIOUS
<1>4. PICK r : r = Wrap(Wide(op, a, b, ca))
  OBVIOUS
<1>5. g[i.rt] = r /\ \A x \in Regs : x # i.rt => g[x] = f[x]
  BY <1>1, <1>2, <1>3, <1>4
<1>6. Overflows(op, a, b, r, ca) <=> OutOfRange(TrueValue(op, Signed(a), Signed(b), ca))
  BY <1>4, OverflowExact
<1>7. Overflows(op, g[i.ra], g[i.rb], r, ca) <=> Overflows(op, a, b, r, ca)
  <2>1. CASE op \in {"add", "addc", "adde", "subf", "subfc", "subfe"}
    <3>1. i.rt # i.ra /\ i.rt # i.rb
      BY <1>3, <2>1 DEF Unaliased
    <3>2. g[i.ra] = a /\ g[i.rb] = b
      BY <1>1, <1>2, <1>5, <3>1
    <3> QED BY <3>2
  <2>2. CASE op \in {"addze", "addme", "subfze", "subfme"}
    <3>1. i.rt # i.ra
      BY <1>3, <2>2 DEF Unaliased
    <3>2. g[i.ra] = a
      BY <1>1, <1>5, <3>1
    <3>3. \A x : Overflows(op, a, x, r, ca) <=> Overflows(op, a, b, r, ca)
      BY <2>2 DEF Overflows
    <3> QED BY <3>2, <3>3
  <2>3. CASE op = "neg"
    <3>1. \A x, y : Overflows(op, x, y, r, ca) <=> 2 * x = Modulus
      BY <2>3 DEF Overflows
    <3>2. r = Wrap(Not(a) + 1)
      BY <1>4, <2>3 DEF Wide
    <3>3. 2 * r = Modulus <=> 2 * a = Modulus
      BY <3>2, NegatedTwice
    <3>4. g[i.ra] = r \/ g[i.ra] = a
      BY <1>1, <1>5
    <3> QED BY <3>1, <3>3, <3>4
  <2> QED BY <2>1, <2>2, <2>3 DEF AddSub, Extended
<1> QED BY <1>1, <1>2, <1>3, <1>5, <1>6, <1>7

LEMMA AddSubTells ==
  ASSUME NEW c \in Cpus, NEW i, WellEncoded(i), i.op \in AddSub, i.oe, Unaliased(i)
  PROVE  OverflowTold(c, addSub(c, i), i)
<1> DEFINE ca   == Bit(c.xer, CA)
           wide == Wide(i.op, c.gpr[i.ra], c.gpr[i.rb], ca)
           g    == [c.gpr EXCEPT ![i.rt] = Wrap(wide)]
           c1   == [c EXCEPT !.gpr = g]
           c2   == IF i.op \in Extended THEN setCarry(c1, wide >= Modulus) ELSE c1
           over == Overflows(i.op, g[i.ra], g[i.rb], g[i.rt], ca)
           c3   == setOverflow(c2, over)
<1>1. addSub(c, i) = updateCr0(c3, i, i.rt)
  BY DEF addSub
<1>2. i.ra \in Regs /\ i.rb \in Regs /\ i.rt \in Regs
  BY DEF WellEncoded
<1>3. ca \in {0, 1}
  BY CpuFields, BitNat, FlagsExist
<1>4. c.gpr \in [Regs -> Word]
  BY CpuFields
<1>5. over <=> OutOfRange(TrueValue(i.op, Signed(c.gpr[i.ra]), Signed(c.gpr[i.rb]), ca))
  <2> HIDE DEF ca
  <2> QED BY <1>2, <1>3, <1>4, JudgedAsBefore
<1>6. wide \in Int
  <2>1. c.gpr[i.ra] \in Nat /\ c.gpr[i.rb] \in Nat
    BY <1>2, CpuFields
  <2> HIDE DEF ca
  <2> QED BY <1>3, <2>1, WideInt
<1>7. over \in BOOLEAN
  BY DEF Overflows, addOverflow, subOverflow, OutOfRange, AddSub, Extended
<1> HIDE DEF over, ca, wide
<1>8. g \in [Regs -> Word]
  BY <1>4, <1>6, WrapNat
<1> HIDE DEF g
<1>9. c1 \in Cpus /\ c1.xer = c.xer
  BY <1>8 DEF Cpus
<1> HIDE DEF c1
<1>10. (wide >= Modulus) \in BOOLEAN
  OBVIOUS
<1>11. c2 \in Cpus /\ Bit(c2.xer, SO) = Bit(c.xer, SO)
  BY <1>9, <1>10, FlagsKeep, FlagsAre
<1> HIDE DEF c2
<1>12. c3 \in Cpus
  BY <1>11, FlagsKeep
<1>13. (Bit(c3.xer, OV) = 1) = over /\ (Bit(c3.xer, SO) = 1) = (Bit(c.xer, SO) = 1 \/ over)
  BY <1>7, <1>11, FlagsAre
<1> HIDE DEF c3
<1>14. addSub(c, i).xer = c3.xer
  BY <1>1, <1>12, RecordXer
<1> QED BY <1>5, <1>7, <1>13, <1>14 DEF OverflowTold, OutOfRange, ca

LEMMA MultiplyTells ==
  ASSUME NEW c \in Cpus, NEW i, WellEncoded(i), i.op = "mullw", i.oe
  PROVE  OverflowTold(c, mulDiv(c, i), i)
<1> DEFINE product == Signed(c.gpr[i.ra]) * Signed(c.gpr[i.rb])
           c1 == [c EXCEPT !.gpr[i.rt] = Wrap(product)]
           c2 == setOverflow(c1, OutOfRange(product))
<1>1. mulDiv(c, i) = updateCr0(c2, i, i.rt)
  BY DEF mulDiv
<1>2. product \in Int
  <2>1. c.gpr[i.ra] \in Word /\ c.gpr[i.rb] \in Word
    BY CpuFields DEF WellEncoded
  <2>2. PICK a \in Int : a = Signed(c.gpr[i.ra])
    BY <2>1, SignedIs
  <2>3. PICK b \in Int : b = Signed(c.gpr[i.rb])
    BY <2>1, SignedIs
  <2> QED BY <2>2, <2>3
<1>3. TrueValue(i.op, Signed(c.gpr[i.ra]), Signed(c.gpr[i.rb]), Bit(c.xer, CA)) = product
  BY DEF TrueValue
<1> HIDE DEF product
<1>4. Wrap(product) \in Word
  BY <1>2, WrapNat
<1>5. c1 \in Cpus /\ c1.xer = c.xer
  BY <1>4 DEF Cpus
<1> HIDE DEF c1
<1>6. OutOfRange(product) \in BOOLEAN
  BY DEF OutOfRange
<1>7. c2 \in Cpus
  BY <1>5, FlagsKeep
<1>8. /\ (Bit(c2.xer, OV) = 1) = OutOfRange(product)
      /\ (Bit(c2.xer, SO) = 1) = (Bit(c.xer, SO) = 1 \/ OutOfRange(product))
  BY <1>5, <1>6, FlagsAre
<1> HIDE DEF c2
<1>9. mulDiv(c, i).xer = c2.xer
  BY <1>1, <1>7, RecordXer
<1> QED BY <1>3, <1>6, <1>8, <1>9 DEF OverflowTold

LEMMA ShiftTells ==
  ASSUME NEW c \in Cpus, NEW i, WellEncoded(i), i.op \in {"sraw", "srawi"}, Unaliased(i), NEW r
  PROVE  CarryTold(c, updateCr0(shiftAlgebraic(c, i), i, r), i)
<1> DEFINE n  == IF i.op = "srawi" THEN i.rb ELSE c.gpr[i.rb] % (2 * WordBits)
           s  == Signed(c.gpr[i.rt])
           v  == IF n >= WordBits THEN (IF s < 0 THEN Modulus - 1 ELSE 0) ELSE Wrap(s \div 2 ^ n)
           g  == [c.gpr EXCEPT ![i.ra] = v]
           lost == IF n >= WordBits THEN g[i.rt] # 0 ELSE g[i.rt] % 2 ^ n # 0
           d  == [c EXCEPT !.gpr = g]
           e  == setCarry(d, s < 0 /\ lost)
<1>1. shiftAlgebraic(c, i) = e
  BY DEF shiftAlgebraic
<1>2. e \in Cpus
  BY <1>1, AlgebraicKeeps
<1>3. c.gpr \in [Regs -> Word] /\ i.rt \in Regs /\ i.ra # i.rt
  BY CpuFields DEF WellEncoded, Unaliased
<1>4. n \in Nat
  <2>1. CASE i.op = "srawi"
    BY <2>1, Moduli DEF WellEncoded
  <2>2. CASE i.op = "sraw"
    <3>1. i.rb \in Regs
      BY <2>2 DEF WellEncoded
    <3>2. c.gpr[i.rb] \in Nat
      BY <3>1, CpuFields
    <3>3. 2 * WordBits \in Nat /\ 2 * WordBits > 0
      BY Moduli
    <3>4. c.gpr[i.rb] % (2 * WordBits) \in Nat
      BY <3>2, <3>3
    <3> QED BY <2>2, <3>4
  <2> QED BY <2>1, <2>2
<1>5. g[i.rt] = c.gpr[i.rt]
  BY <1>3
<1>6. (s < 0 /\ lost) <=> (s < 0 /\ s % 2 ^ n # 0)
  <2>1. PICK x \in Word : x = c.gpr[i.rt]
    BY <1>3
  <2>2. lost <=> (IF n >= WordBits THEN x # 0 ELSE x % 2 ^ n # 0)
    BY <1>5, <2>1
  <2>3. s = Signed(x)
    BY <2>1
  <2> HIDE DEF n, s, lost
  <2> QED BY <1>4, <2>2, <2>3, LostBits
<1>7. e.xer = SetBit(c.xer, CA, s < 0 /\ lost)
  <2>1. d.xer = c.xer
    BY DEF Cpus
  <2>2. [d EXCEPT !.xer = SetBit(@, CA, s < 0 /\ lost)].xer = SetBit(d.xer, CA, s < 0 /\ lost)
    BY DEF Cpus
  <2> HIDE DEF d
  <2> QED BY <2>1, <2>2 DEF setCarry
<1>8. c.xer \in Word
  BY CpuFields
<1> DEFINE on == s < 0 /\ lost
<1>9. on \in BOOLEAN /\ e.xer = SetBit(c.xer, CA, on) /\ (on <=> (s < 0 /\ s % 2 ^ n # 0))
  BY <1>6, <1>7
<1> HIDE DEF on, e
<1>10. (Bit(e.xer, CA) = 1) = on
  <2>1. (Bit(SetBit(c.xer, CA, on), CA) = 1) = on
    BY <1>8, <1>9, FlagsSet, Zenon
  <2> QED BY <1>9, <2>1, Zenon
<1>11. updateCr0(shiftAlgebraic(c, i), i, r).xer = e.xer
  BY <1>1, <1>2, RecordXer
<1> QED BY <1>9, <1>10, <1>11 DEF CarryTold

\* A step as XerExact allows it.
Told ==
  Completed =>
    /\ Insn.op \in AddSub \cup {"mullw"} /\ Insn.oe => OverflowTold(cpu, cpu', Insn)
    /\ Insn.op \in {"sraw", "srawi"} => CarryTold(cpu, cpu', Insn)

\* Instructions XerExact says nothing of.
LEMMA OthersTell ==
  ASSUME \/ ImmediateStep \/ LogicalStep \/ RotateStep \/ CompareStep \/ TrapStep \/ ConditionStep
         \/ SpecialStep \/ SystemCall \/ Hint \/ Unsupported \/ DirectBranch \/ IndirectBranch
         \/ Load \/ Store \/ Multiple \/ Reserve \/ StoreConditional \/ ZeroBlock
  PROVE  Told
<1> DEFINE Others == Logical \cup {"addi", "addis", "addic", "subfic", "mulli", "rlwinm", "rlwimi",
                       "rlwnm", "cmpw", "cmplw", "cmpwi", "cmplwi", "tw", "twi", "crlogic", "mcrf",
                       "mcrxr", "mfcr", "mtcrf", "mfspr", "mtspr", "sc", "sync", "unsupported", "bc",
                       "bclr", "bcctr", "load", "store", "lmw", "stmw", "lwarx", "stwcx", "dcbz"}
<1>1. Insn.op \in Others
  <2>1. CASE ImmediateStep \/ LogicalStep \/ RotateStep \/ CompareStep \/ TrapStep
    BY <2>1 DEF ImmediateStep, LogicalStep, RotateStep, CompareStep, TrapStep, Fetched
  <2>2. CASE ConditionStep \/ SpecialStep \/ SystemCall \/ Hint \/ Unsupported \/ DirectBranch \/ IndirectBranch
    BY <2>2 DEF ConditionStep, SpecialStep, SystemCall, Hint, Unsupported, DirectBranch, IndirectBranch, Fetched
  <2>3. CASE Load \/ Store \/ Multiple \/ Reserve \/ StoreConditional \/ ZeroBlock
    BY <2>3 DEF Load, Store, Multiple, Reserve, StoreConditional, ZeroBlock, Fetched
  <2> QED BY <2>1, <2>2, <2>3
<1>2. Insn.op \notin AddSub \cup {"mullw", "sraw", "srawi"}
  BY <1>1 DEF AddSub, Extended, Logical
<1> QED BY <1>2 DEF Told

LEMMA ArithmeticTells ==
  ASSUME RunInv, Unaliased(Insn), AddSubStep \/ MulDivStep \/ ShiftStep
  PROVE  Told
<1>1. WellEncoded(Insn) /\ Advanced \in Cpus
  BY AtStep
<1>2. Advanced.gpr = cpu.gpr /\ Advanced.xer = cpu.xer
  BY DEF Advanced, RunInv, Cpus
<1>3. \A d : /\ OverflowTold(Advanced, d, Insn) <=> OverflowTold(cpu, d, Insn)
             /\ CarryTold(Advanced, d, Insn) <=> CarryTold(cpu, d, Insn)
  BY <1>2, Zenon DEF OverflowTold, CarryTold
<1>4. CASE AddSubStep
  <2>1. Insn.op \in AddSub /\ cpu' = addSub(Advanced, Insn)
    BY <1>4 DEF AddSubStep, Fetched, Complete
  <2>2. Insn.op \notin {"sraw", "srawi"}
    BY <2>1 DEF AddSub, Extended
  <2>3. Insn.oe => OverflowTold(Advanced, addSub(Advanced, Insn), Insn)
    BY <1>1, <2>1, AddSubTells
  <2> QED BY <1>3, <2>1, <2>2, <2>3, Zenon DEF Told
<1>5. CASE MulDivStep
  <2>1. Insn.op \in {"mullw", "mulhw", "mulhwu", "divw", "divwu"} /\ cpu' = mulDiv(Advanced, Insn)
    BY <1>5 DEF MulDivStep, Fetched, Complete
  <2>2. Insn.op \notin {"sraw", "srawi"} /\ Insn.op \notin AddSub
    BY <2>1 DEF AddSub, Extended
  <2>3. Insn.op = "mullw" /\ Insn.oe => OverflowTold(Advanced, mulDiv(Advanced, Insn), Insn)
    BY <1>1, MultiplyTells
  <2>4. Insn.op \in AddSub \cup {"mullw"} /\ Insn.oe => OverflowTold(cpu, cpu', Insn)
    BY <1>3, <2>1, <2>2, <2>3, Zenon
  <2> QED BY <2>2, <2>4, Zenon DEF Told
<1>6. CASE ShiftStep
  <2>1. Insn.op \in {"slw", "srw", "cntlzw", "extsh", "extsb", "sraw", "srawi"}
    BY <1>6 DEF ShiftStep, Fetched
  <2>2. Insn.op \notin AddSub \cup {"mullw"}
    BY <2>1 DEF AddSub, Extended
  <2>3. Insn.op \in {"sraw", "srawi"} => cpu' = updateCr0(shiftAlgebraic(Advanced, Insn), Insn, Insn.ra)
    BY <1>6 DEF ShiftStep, Fetched, Complete
  <2>4. Insn.op \in {"sraw", "srawi"} =>
          CarryTold(Advanced, updateCr0(shiftAlgebraic(Advanced, Insn), Insn, Insn.ra), Insn)
    BY <1>1, ShiftTells
  <2>5. Insn.op \in {"sraw", "srawi"} => CarryTold(cpu, cpu', Insn)
    BY <1>3, <2>3, <2>4, Zenon
  <2> QED BY <2>2, <2>5, Zenon DEF Told
<1> QED BY <1>4, <1>5, <1>6

\* A step completes at most one instruction and never changes the configuration.
LEMMA StepCounts ==
  ASSUME [Next]_vars
  PROVE  call' = call /\ count' \in {count, count + 1}
<1>1. CASE \/ AddSubStep \/ MulDivStep \/ ImmediateStep \/ LogicalStep \/ RotateStep \/ ShiftStep
           \/ CompareStep \/ ConditionStep \/ Hint \/ DirectBranch
  BY <1>1, PlainCompletes DEF Complete
<1>2. CASE \/ TrapStep \/ SpecialStep \/ SystemCall \/ Unsupported
           \/ Load \/ Store \/ Reserve \/ StoreConditional \/ ZeroBlock
  BY <1>2, CompletesOrRefuses DEF Complete, Fault
<1>3. CASE IndirectBranch
  BY <1>3, GlueEnds DEF Complete
<1>4. CASE Multiple
  <2>1. (\E c, m : Complete(c, m)) \/ (\E c, m : Fault("memory_fault", c, m))
    BY <1>4, Zenon DEF Multiple
  <2> QED BY <2>1 DEF Complete, Fault
<1>5. CASE Prepare \/ AtLimit \/ Leave \/ Stopped \/ UNCHANGED vars
  BY <1>5, Zenon DEF Prepare, AtLimit, Leave, Stopped, vars
<1> QED BY <1>1, <1>2, <1>3, <1>4, <1>5 DEF Next

\* The invariant of both theorems below: the instructions of this call are those of one of
\* the families.
FlagInv ==
  /\ RunInv
  /\ count \in Nat
  /\ \E family \in Calls : call \in family

LEMMA InitFlags == Init => FlagInv
  BY InitRun DEF Init, FlagInv

LEMMA FlagsKept == FlagInv /\ [Next]_vars => FlagInv'
<1> SUFFICES ASSUME FlagInv, [Next]_vars PROVE FlagInv'
  OBVIOUS
<1>1. call' = call /\ count' \in {count, count + 1}
  BY StepCounts
<1>2. RunInv'
  BY EveryStepSound DEF FlagInv, Sound
<1> QED BY <1>1, <1>2 DEF FlagInv

\* Whatever a call is made of and whatever its code does, every register holds a word and
\* every cell of memory a byte: results are cut off, digits are put together below the next
\* power, and what is read in pieces is no wider than a register (BuiltinInterpreter::run).
THEOREM TypesAreKept == Spec => []TypeOK
<1>1. FlagInv => TypeOK
  <2> SUFFICES ASSUME FlagInv PROVE TypeOK
    OBVIOUS
  <2>1. \A r \in mem : r.bytes \in [0 .. r.size - 1 -> Byte]
    BY DEF FlagInv, RunInv, Regions
  <2> QED BY <2>1 DEF FlagInv, RunInv, TypeOK
<1> QED BY <1>1, InitFlags, FlagsKept, PTL DEF Spec

\* Whatever the width of a word, the operands and the code, OV says whether the integer result
\* fits, SO sums up and CA says whether a shift lost bits, provided that no instruction whose
\* flags are judged late overwrites what is judged (addSub and shiftAlgebraic; the run alias
\* shows that they are wrong otherwise).
THEOREM FlagsAreExact ==
  ASSUME \A family \in Calls : \A k \in family : \A a \in DOMAIN k.code : Unaliased(k.code[a])
  PROVE  Spec => XerExact
<1>1. ASSUME FlagInv, [Next]_vars PROVE Told \/ UNCHANGED vars
  <2>1. Unaliased(Insn)
    <3>1. CASE cpu.pc \in DOMAIN call.code
      BY <1>1, <3>1 DEF FlagInv, Insn
    <3>2. CASE cpu.pc \notin DOMAIN call.code
      <4>1. Insn.op = "unsupported"
        BY <3>2 DEF Insn
      <4> QED BY <4>1 DEF Unaliased, AddSub, Extended
    <3> QED BY <3>1, <3>2
  <2>2. CASE AddSubStep \/ MulDivStep \/ ShiftStep
    BY <1>1, <2>1, <2>2, ArithmeticTells DEF FlagInv
  <2>3. CASE Prepare \/ AtLimit \/ Leave \/ Stopped
    <3>1. count' = count
      BY <2>3, Zenon DEF Prepare, AtLimit, Leave, Stopped, vars
    <3> QED BY <1>1, <3>1 DEF Told, Completed, FlagInv
  <2>4. CASE UNCHANGED vars
    BY <2>4
  <2> QED BY <1>1, <2>2, <2>3, <2>4, OthersTell DEF Next
<1> QED BY <1>1, InitFlags, FlagsKept, PTL DEF Spec, XerExact, Told, OverflowTold, CarryTold

-----------------------------------------------------------------------------
(* What is reported *)

\* ReportExact, and nothing is counted before the call runs.
ReportInv ==
  /\ FlagInv
  /\ ReportExact
  /\ result = Going("prepare") => count = 0

\* Every instruction is fetched.
InstructionStep ==
  \/ AddSubStep \/ MulDivStep \/ ImmediateStep \/ LogicalStep \/ RotateStep \/ ShiftStep
  \/ CompareStep \/ TrapStep \/ ConditionStep \/ SpecialStep \/ SystemCall \/ Hint
  \/ Unsupported \/ DirectBranch \/ IndirectBranch
  \/ Load \/ Store \/ Multiple \/ Reserve \/ StoreConditional \/ ZeroBlock

LEMMA InstructionFetched ==
  ASSUME InstructionStep
  PROVE  result = Going("run") /\ count < call.limit
<1>1. \E ops : Fetched(ops)
  <2>1. CASE AddSubStep \/ MulDivStep \/ ImmediateStep \/ LogicalStep \/ RotateStep \/ ShiftStep
    BY <2>1, Zenon DEF AddSubStep, MulDivStep, ImmediateStep, LogicalStep, RotateStep, ShiftStep
  <2>2. CASE CompareStep \/ TrapStep \/ ConditionStep \/ SpecialStep \/ SystemCall \/ Hint
    BY <2>2, Zenon DEF CompareStep, TrapStep, ConditionStep, SpecialStep, SystemCall, Hint
  <2>3. CASE Unsupported \/ DirectBranch \/ IndirectBranch \/ Load \/ Store
    BY <2>3, Zenon DEF Unsupported, DirectBranch, IndirectBranch, Load, Store
  <2>4. CASE Multiple \/ Reserve \/ StoreConditional \/ ZeroBlock
    BY <2>4, Zenon DEF Multiple, Reserve, StoreConditional, ZeroBlock
  <2> QED BY <2>1, <2>2, <2>3, <2>4 DEF InstructionStep
<1> QED BY <1>1 DEF Fetched, Running

\* How an instruction ends.
LEMMA InstructionEnds ==
  ASSUME InstructionStep
  PROVE  \/ \E c, m : Complete(c, m)
         \/ \E reason, c, m : Fault(reason, c, m)
         \/ IndirectBranch /\ count' = count /\ \E reason : Stop(reason, count + 1, cpu.gpr[12])
<1>1. CASE Multiple
  BY <1>1, Zenon DEF Multiple
<1>2. CASE IndirectBranch
  BY <1>2, GlueEnds
<1> QED BY <1>1, <1>2, PlainCompletes, CompletesOrRefuses DEF InstructionStep

\* Refused glue leaves r12, which names the import.
LEMMA GlueNamed ==
  ASSUME RunInv, IndirectBranch, count' = count, count \in Nat
  PROVE  InImports(cpu.gpr[12]) /\ cpu'.gpr[12] = cpu.gpr[12]
<1>1. ~ \E c, m : Complete(c, m)
  BY DEF Complete
<1>2. InImports(cpu.gpr[12]) /\ cpu' = Counted(Advanced, Insn.bo)
  BY <1>1, GlueEnds
<1>3. \A v : [Advanced EXCEPT !.ctr = v].gpr = Advanced.gpr
  BY AtStep DEF Cpus
<1>4. Advanced.gpr = cpu.gpr
  BY DEF Advanced, RunInv, Cpus
<1> QED BY <1>2, <1>3, <1>4 DEF Counted

LEMMA InstructionReports ==
  ASSUME ReportInv, InstructionStep, call' = call
  PROVE  ReportExact' /\ (result' = Going("prepare") => count' = 0)
<1>1. result = Going("run") /\ count < call.limit
  BY InstructionFetched
<1>2. count \in Nat /\ call.limit \in Nat
  BY DEF ReportInv, FlagInv, RunInv, WellTyped
<1>3. CASE \E c, m : Complete(c, m)
  <2>1. count' = count + 1 /\ result' = result
    BY <1>3 DEF Complete
  <2>2. result'.reason = "run"
    BY <1>1, <2>1 DEF Going
  <2> QED BY <1>1, <1>2, <2>1, <2>2 DEF ReportExact, StopReasons, Going
<1>4. CASE \E reason, c, m : Fault(reason, c, m)
  <2>1. count' = count /\ result'.instructions = count
    BY <1>4 DEF Fault, Stop
  <2> QED BY <1>1, <1>2, <2>1 DEF ReportExact, Going
<1>5. CASE IndirectBranch /\ count' = count /\ \E reason : Stop(reason, count + 1, cpu.gpr[12])
  <2>1. count' = count /\ result'.instructions = count + 1 /\ result'.pc = cpu.gpr[12]
    BY <1>5 DEF Stop
  <2>2. InImports(cpu.gpr[12]) /\ cpu'.gpr[12] = cpu.gpr[12]
    BY <1>2, <1>5, <2>1, GlueNamed DEF ReportInv, FlagInv
  <2>3. InImports(result.pc)'
    BY <2>1, <2>2 DEF InImports
  <2>4. result' # Going("prepare")
    BY <1>2, <2>1 DEF Going
  <2> QED BY <1>1, <1>2, <2>1, <2>2, <2>3, <2>4 DEF ReportExact
<1> QED BY <1>3, <1>4, <1>5, InstructionEnds

\* For every limit, configuration and code, a call completes no more instructions than its
\* limit, and reports how many it completed, or one more where import glue was refused
\* (the loop of run, its returns and fault).
THEOREM ReportsAreExact == Spec => []ReportExact
<1>1. Init => ReportInv
  <2> SUFFICES ASSUME Init PROVE ReportInv
    OBVIOUS
  <2>1. FlagInv
    BY InitFlags
  <2>2. call.limit \in Nat
    BY <2>1 DEF FlagInv, RunInv, WellTyped
  <2>3. count = 0 /\ result.reason = "prepare"
    BY DEF Init, Going
  <2> QED BY <2>1, <2>2, <2>3 DEF ReportInv, ReportExact, StopReasons
<1>2. ASSUME ReportInv, [Next]_vars PROVE ReportInv'
  <2>1. FlagInv' /\ call' = call
    BY <1>2, FlagsKept, StepCounts DEF ReportInv
  <2>2. count \in Nat /\ call.limit \in Nat
    BY <1>2 DEF ReportInv, FlagInv, RunInv, WellTyped
  <2>3. CASE InstructionStep
    BY <1>2, <2>1, <2>3, InstructionReports DEF ReportInv
  <2>4. CASE Prepare
    <3>1. count = 0 /\ count' = count
      BY <1>2, <2>4 DEF Prepare, ReportInv
    <3>2. \E phase : result' = Going(phase)
      BY <2>4, Zenon DEF Prepare
    <3>3. result'.instructions = 0
      BY <3>2 DEF Going
    <3> QED BY <2>1, <2>2, <3>1, <3>3 DEF ReportInv, ReportExact
  <2>5. CASE AtLimit \/ Leave
    <3>1. count' = count /\ count = IF AtLimit THEN call.limit ELSE count
      BY <1>2, <2>2, <2>5 DEF AtLimit, Leave, ReportInv, ReportExact
    <3>2. result'.instructions = count /\ result = Going("run")
      BY <2>5, <3>1 DEF AtLimit, Leave, Stop, Running
    <3>3. result' = Going("prepare") => count' = 0
      BY <3>1, <3>2 DEF Going
    <3>4. count <= call.limit
      BY <1>2 DEF ReportInv, ReportExact
    <3> QED BY <2>1, <3>1, <3>2, <3>3, <3>4 DEF ReportInv, ReportExact
  <2>6. CASE Stopped \/ UNCHANGED vars
    <3>1. call' = call /\ cpu' = cpu /\ count' = count /\ result' = result
      BY <2>6 DEF Stopped, vars
    <3> QED BY <1>2, <2>1, <3>1 DEF ReportInv, ReportExact, InImports
  <2> QED BY <1>2, <2>3, <2>4, <2>5, <2>6 DEF Next, InstructionStep
<1> QED BY <1>1, <1>2, PTL DEF Spec, ReportInv

\* Whatever the limit, the configuration and the code, a call that stops has completed what
\* it counts and not begun the instruction it stopped at (run and fault).
THEOREM StopsAreExact == Spec => StopsExact
  BY RefusalsChangeNothing, ReportsAreExact, PTL DEF StopsExact
=============================================================================
