--------------------------- MODULE UsageStoreProofs ---------------------------
(***************************************************************************)
(* Proofs about UsageStore: text order is the order of times, the casts    *)
(* lose nothing, and so the queries return what was recorded; sums in i64  *)
(* are those of the counters reported, and costs those of the prices.      *)
(***************************************************************************)
EXTENDS UsageStore, FiniteSetTheorems, TLAPS

(***************************************************************************)
(* Induction over the subsets of a finite set, for a set F of subsets: a   *)
(* smallest one outside of F would have all of its smaller ones in F.      *)
(***************************************************************************)
LEMMA FiniteInduction ==
    ASSUME NEW S, IsFiniteSet(S), NEW F,
           \A T \in SUBSET S : (\A x \in T : T \ {x} \in F) => T \in F
    PROVE  \A T \in SUBSET S : T \in F
<1> SUFFICES ASSUME (SUBSET S) \ F # {} PROVE FALSE
  OBVIOUS
<1>1. (SUBSET S) \ F \subseteq FiniteSubsetsOf(S)
  BY FS_Subset DEF FiniteSubsetsOf
<1>2. PICK T \in (SUBSET S) \ F :
          \A U \in (SUBSET S) \ F : <<U, T>> \notin StrictSubsetOrdering(S)
  BY <1>1, FS_StrictSubsetOrderingWellFounded, WFMin
<1>3. ASSUME NEW x \in T PROVE T \ {x} \in F
  <2>1. <<T \ {x}, T>> \in StrictSubsetOrdering(S)
    BY DEF StrictSubsetOrdering
  <2>2. QED
    BY <1>2, <2>1
<1>4. QED
  BY <1>3

LEMMA CountingInduction ==
    ASSUME NEW S, 0 \in S, \A n \in Nat : n \in S => n + 1 \in S
    PROVE  \A n \in Nat : n \in S
<1> TAKE n \in Nat
<1>1. PICK D : IsFiniteSet(D) /\ Cardinality(D) = n
  <2>1. IsFiniteSet(1..n) /\ Cardinality(1..n) = n
    BY FS_Interval
  <2>2. QED
    BY <2>1
<1> DEFINE F == {T \in SUBSET D : Cardinality(T) \in S}
<1>2. \A T \in SUBSET D : (\A x \in T : T \ {x} \in F) => T \in F
  <2> SUFFICES ASSUME NEW T \in SUBSET D, \A x \in T : T \ {x} \in F
               PROVE  T \in F
    OBVIOUS
  <2>1. IsFiniteSet(T) /\ Cardinality(T) \in Nat
    BY <1>1, FS_Subset, FS_CardinalityType
  <2>2. CASE T = {}
    BY <2>2, FS_EmptySet
  <2>3. ASSUME NEW x \in T PROVE T \in F
    <3>1. Cardinality(T \ {x}) = Cardinality(T) - 1 /\ Cardinality(T \ {x}) \in S
      BY <2>1, FS_RemoveElement
    <3>2. Cardinality(T \ {x}) \in Nat
      BY <2>1, FS_RemoveElement, FS_CardinalityType
    <3>3. QED
      BY <2>1, <3>1, <3>2
  <2>4. QED
    BY <2>2, <2>3
<1> HIDE DEF F
<1>3. \A T \in SUBSET D : T \in F
  BY <1>1, <1>2, FiniteInduction
<1>4. QED
  BY <1>3, <1>1 DEF F

-----------------------------------------------------------------------------
(***************************************************************************)
(* The function by which the library's sum over a set is defined, on a     *)
(* set C of sets: it takes away one element after another.                 *)
(***************************************************************************)
Any(T) == CHOOSE x \in T : TRUE

Adding(f, g, T) == IF T = {} THEN 0 ELSE f[Any(T)] + g[T \ {Any(T)}]

IsSum(g, f, C) == g = [T \in C |-> Adding(f, g, T)]

LEMMA SumIsFold ==
    ASSUME NEW f, NEW S
    PROVE  SumFunctionOnSet(f, S) = (CHOOSE g : IsSum(g, f, SUBSET S))[S]
  BY DEF SumFunctionOnSet, FoldFunctionOnSet, MapThenFoldSet, IsSum, Adding, Any

(***************************************************************************)
(* There is such a function: it is built up by the size of the sets.       *)
(***************************************************************************)
LEMMA SumExists ==
    ASSUME NEW f, NEW S, IsFiniteSet(S)
    PROVE  \E g : IsSum(g, f, SUBSET S)
<1> DEFINE Small(n) == {T \in SUBSET S : Cardinality(T) <= n}
           N == {n \in Nat : \E g : IsSum(g, f, Small(n))}
<1>1. \A T \in SUBSET S :
          /\ IsFiniteSet(T)
          /\ Cardinality(T) \in Nat
          /\ Cardinality(T) <= Cardinality(S)
  BY FS_Subset, FS_CardinalityType
<1>2. \A T \in SUBSET S : T # {} =>
          /\ T \ {Any(T)} \in SUBSET S
          /\ Cardinality(T \ {Any(T)}) = Cardinality(T) - 1
  <2> TAKE T \in SUBSET S
  <2>1. T # {} => Any(T) \in T
    BY DEF Any
  <2>2. QED
    BY <2>1, <1>1, FS_RemoveElement
<1>3. 0 \in N
  <2>1. Small(0) = {{}}
    BY <1>1, FS_EmptySet
  <2>2. IsSum([T \in Small(0) |-> 0], f, Small(0))
    BY <2>1 DEF IsSum, Adding
  <2>3. QED
    BY <2>2
<1>4. ASSUME NEW n \in Nat, NEW g, IsSum(g, f, Small(n))
      PROVE  \E h : IsSum(h, f, Small(n + 1))
  <2> DEFINE h == [T \in Small(n + 1) |-> Adding(f, g, T)]
  <2>1. \A T \in Small(n) : g[T] = Adding(f, g, T)
    BY <1>4 DEF IsSum
  <2>2. \A T \in Small(n) : T \in Small(n + 1)
    BY <1>1
  <2>3. \A T \in Small(n) : g[T] = h[T]
    BY <2>1, <2>2
  <2>4. \A T \in Small(n + 1) : T # {} => T \ {Any(T)} \in Small(n)
    BY <1>1, <1>2
  <2> HIDE DEF Small
  <2>5. \A T \in Small(n + 1) : Adding(f, g, T) = Adding(f, h, T)
    BY <2>3, <2>4 DEF Adding
  <2>6. h = [T \in Small(n + 1) |-> Adding(f, h, T)]
    BY <2>5
  <2>7. QED
    BY <2>6 DEF IsSum
<1>5. \A n \in Nat : n \in N => n + 1 \in N
  <2> HIDE DEF Small
  <2>1. QED
    BY <1>4
<1>6. Cardinality(S) \in N
  <2> HIDE DEF N
  <2>1. \A n \in Nat : n \in N
    BY <1>3, <1>5, CountingInduction
  <2>2. QED
    BY <2>1, FS_CardinalityType
<1>7. Small(Cardinality(S)) = SUBSET S
  BY <1>1
<1>8. QED
  BY <1>6, <1>7

(***************************************************************************)
(* It gives the sum of each subset.                                        *)
(***************************************************************************)
LEMMA SumOfSubset ==
    ASSUME NEW f, NEW S, IsFiniteSet(S), NEW g, IsSum(g, f, SUBSET S), NEW T \in SUBSET S
    PROVE  g[T] = SumFunctionOnSet(f, T)
<1> DEFINE h == CHOOSE h : IsSum(h, f, SUBSET T)
           F == {U \in SUBSET T : g[U] = h[U]}
<1>1. IsFiniteSet(T)
  BY FS_Subset
<1>2. IsSum(h, f, SUBSET T)
  BY <1>1, SumExists
<1> HIDE DEF h
<1>3. \A U \in SUBSET T : (\A x \in U : U \ {x} \in F) => U \in F
  <2> SUFFICES ASSUME NEW U \in SUBSET T, \A x \in U : U \ {x} \in F
               PROVE  U \in F
    OBVIOUS
  <2>1. g[U] = Adding(f, g, U) /\ h[U] = Adding(f, h, U)
    BY <1>2 DEF IsSum
  <2>2. U # {} => Any(U) \in U
    BY DEF Any
  <2>3. Adding(f, g, U) = Adding(f, h, U)
    BY <2>2 DEF Adding
  <2>4. QED
    BY <2>1, <2>3
<1> HIDE DEF F
<1>4. T \in F
  BY <1>1, <1>3, FiniteInduction
<1>5. QED
  BY <1>4, SumIsFold DEF F, h

LEMMA SumOfNothing ==
    ASSUME NEW f PROVE SumFunctionOnSet(f, {}) = 0
<1>1. PICK g : IsSum(g, f, SUBSET {})
  BY SumExists, FS_EmptySet
<1>2. g[{}] = 0
  BY <1>1 DEF IsSum, Adding
<1>3. QED
  BY <1>1, <1>2, SumOfSubset, FS_EmptySet

(***************************************************************************)
(* A sum of integers is an integer, and any of them may be taken away.     *)
(***************************************************************************)
LEMMA SumTakesAway ==
    ASSUME NEW f, NEW S, IsFiniteSet(S), \A i \in S : f[i] \in Int
    PROVE  /\ SumFunctionOnSet(f, S) \in Int
           /\ \A x \in S : SumFunctionOnSet(f, S) = f[x] + SumFunctionOnSet(f, S \ {x})
<1>1. PICK g : IsSum(g, f, SUBSET S)
  BY SumExists
<1>2. \A T \in SUBSET S : g[T] = Adding(f, g, T) /\ (T # {} => Any(T) \in T)
  BY <1>1 DEF IsSum, Any
<1>3. \A T \in SUBSET S : g[T] \in Int
  <2> DEFINE F == {T \in SUBSET S : g[T] \in Int}
  <2>1. \A T \in SUBSET S : (\A x \in T : T \ {x} \in F) => T \in F
    <3> SUFFICES ASSUME NEW T \in SUBSET S, \A x \in T : T \ {x} \in F
                 PROVE  g[T] \in Int
      OBVIOUS
    <3>1. CASE T = {}
      <4>1. g[T] = 0
        BY <1>2, <3>1 DEF Adding
      <4>2. QED
        BY <4>1
    <3>2. CASE T # {}
      <4> DEFINE a == Any(T)
      <4>1. a \in T /\ g[T] = f[a] + g[T \ {a}]
        BY <1>2, <3>2 DEF Adding
      <4> HIDE DEF a
      <4>2. f[a] \in Int /\ g[T \ {a}] \in Int
        BY <4>1
      <4>3. QED
        BY <4>1, <4>2
    <3>3. QED
      BY <3>1, <3>2
  <2> HIDE DEF F
  <2>2. \A T \in SUBSET S : T \in F
    BY <2>1, FiniteInduction
  <2>3. QED
    BY <2>2 DEF F
<1>4. \A T \in SUBSET S : \A x \in T : g[T] = f[x] + g[T \ {x}]
  <2> DEFINE F == {T \in SUBSET S : \A x \in T : g[T] = f[x] + g[T \ {x}]}
  <2>1. \A T \in SUBSET S : (\A x \in T : T \ {x} \in F) => T \in F
    <3> SUFFICES ASSUME NEW T \in SUBSET S, \A x \in T : T \ {x} \in F, NEW x \in T
                 PROVE  g[T] = f[x] + g[T \ {x}]
      OBVIOUS
    <3> DEFINE a == Any(T)
    <3>1. a \in T /\ g[T] = f[a] + g[T \ {a}]
      BY <1>2 DEF Adding
    <3> HIDE DEF a
    <3>2. CASE x # a
      <4> DEFINE r == g[T \ {a, x}]
      <4>1. x \in T \ {a} /\ a \in T \ {x} /\ T \ {a} \in F /\ T \ {x} \in F
        BY <3>1, <3>2
      <4>2. (T \ {a}) \ {x} = T \ {a, x} /\ (T \ {x}) \ {a} = T \ {a, x}
        OBVIOUS
      <4>3. g[T \ {a}] = f[x] + r /\ g[T \ {x}] = f[a] + r
        BY <4>1, <4>2
      <4>4. f[x] \in Int /\ f[a] \in Int /\ r \in Int
        BY <1>3, <3>1
      <4> HIDE DEF r
      <4>5. QED
        BY <3>1, <4>3, <4>4
    <3>3. QED
      BY <3>1, <3>2
  <2> HIDE DEF F
  <2>2. \A T \in SUBSET S : T \in F
    BY <2>1, FiniteInduction
  <2>3. QED
    BY <2>2 DEF F
<1>5. \A T \in SUBSET S : g[T] = SumFunctionOnSet(f, T)
  BY <1>1, SumOfSubset
<1>6. QED
  BY <1>3, <1>4, <1>5

(***************************************************************************)
(* Sums by parts, bounds, remainders and combinations of sums.             *)
(***************************************************************************)
LEMMA SumAtMost ==
    ASSUME NEW S, IsFiniteSet(S), NEW f, NEW h,
           \A i \in S : f[i] \in Int /\ h[i] \in Int /\ f[i] <= h[i]
    PROVE  SumFunctionOnSet(f, S) <= SumFunctionOnSet(h, S)
<1> DEFINE F == {T \in SUBSET S : SumFunctionOnSet(f, T) <= SumFunctionOnSet(h, T)}
<1>1. \A T \in SUBSET S : (\A x \in T : T \ {x} \in F) => T \in F
  <2> SUFFICES ASSUME NEW T \in SUBSET S, \A x \in T : T \ {x} \in F
               PROVE  SumFunctionOnSet(f, T) <= SumFunctionOnSet(h, T)
    OBVIOUS
  <2>1. CASE T = {}
    BY <2>1, SumOfNothing
  <2>2. ASSUME NEW x \in T
        PROVE  SumFunctionOnSet(f, T) <= SumFunctionOnSet(h, T)
    <3>1. IsFiniteSet(T) /\ IsFiniteSet(T \ {x})
      BY FS_Subset
    <3>2. /\ SumFunctionOnSet(f, T) = f[x] + SumFunctionOnSet(f, T \ {x})
          /\ SumFunctionOnSet(h, T) = h[x] + SumFunctionOnSet(h, T \ {x})
      BY <3>1, SumTakesAway
    <3>3. /\ SumFunctionOnSet(f, T \ {x}) \in Int
          /\ SumFunctionOnSet(h, T \ {x}) \in Int
      BY <3>1, SumTakesAway
    <3>4. /\ SumFunctionOnSet(f, T \ {x}) <= SumFunctionOnSet(h, T \ {x})
          /\ f[x] \in Int /\ h[x] \in Int /\ f[x] <= h[x]
      OBVIOUS
    <3>5. QED
      BY <3>2, <3>3, <3>4
  <2>3. QED
    BY <2>1, <2>2
<1> HIDE DEF F
<1>2. \A T \in SUBSET S : T \in F
  BY <1>1, FiniteInduction
<1>3. QED
  BY <1>2 DEF F

LEMMA SumOfPart ==
    ASSUME NEW S, IsFiniteSet(S), NEW f, \A i \in S : f[i] \in Nat, NEW P \in SUBSET S
    PROVE  /\ SumFunctionOnSet(f, P) \in Nat
           /\ SumFunctionOnSet(f, P) <= SumFunctionOnSet(f, S)
<1> DEFINE F == {T \in SUBSET S :
                    \A Q \in SUBSET T : SumFunctionOnSet(f, Q) <= SumFunctionOnSet(f, T)}
<1>1. \A T \in SUBSET S : IsFiniteSet(T) /\ SumFunctionOnSet(f, T) \in Int
  BY FS_Subset, SumTakesAway
<1>2. \A T \in SUBSET S : (\A x \in T : T \ {x} \in F) => T \in F
  <2> SUFFICES ASSUME NEW T \in SUBSET S, \A x \in T : T \ {x} \in F, NEW Q \in SUBSET T
               PROVE  SumFunctionOnSet(f, Q) <= SumFunctionOnSet(f, T)
    OBVIOUS
  <2>1. CASE Q = T
    BY <1>1, <2>1
  <2>2. ASSUME NEW x \in T \ Q
        PROVE  SumFunctionOnSet(f, Q) <= SumFunctionOnSet(f, T)
    <3>1. SumFunctionOnSet(f, Q) <= SumFunctionOnSet(f, T \ {x})
      OBVIOUS
    <3>2. SumFunctionOnSet(f, T) = f[x] + SumFunctionOnSet(f, T \ {x})
      BY <1>1, SumTakesAway
    <3>3. /\ SumFunctionOnSet(f, Q) \in Int
          /\ SumFunctionOnSet(f, T \ {x}) \in Int
      BY <1>1
    <3>4. f[x] \in Nat
      OBVIOUS
    <3>5. QED
      BY <3>1, <3>2, <3>3, <3>4
  <2>3. QED
    BY <2>1, <2>2
<1> HIDE DEF F
<1>3. \A T \in SUBSET S : T \in F
  BY <1>2, FiniteInduction
<1>4. \A T \in SUBSET S : \A Q \in SUBSET T : SumFunctionOnSet(f, Q) <= SumFunctionOnSet(f, T)
  BY <1>3 DEF F
<1>5. SumFunctionOnSet(f, P) >= 0
  BY <1>1, <1>4, SumOfNothing
<1>6. QED
  BY <1>1, <1>4, <1>5

Wraps(S, f, h, w) ==
    /\ IsFiniteSet(S) /\ w \in Nat
    /\ \A i \in S : f[i] \in Int /\ h[i] \in Int /\ (f[i] = h[i] \/ f[i] = h[i] - w)

LEMMA SumModulo ==
    ASSUME NEW S, NEW f, NEW h, NEW w, Wraps(S, f, h, w)
    PROVE  \E k \in Nat : SumFunctionOnSet(h, S) = SumFunctionOnSet(f, S) + k * w
<1> USE DEF Wraps
<1> DEFINE F == {T \in SUBSET S :
                    \E k \in Nat : SumFunctionOnSet(h, T) = SumFunctionOnSet(f, T) + k * w}
<1>1. \A T \in SUBSET S : (\A x \in T : T \ {x} \in F) => T \in F
  <2> SUFFICES ASSUME NEW T \in SUBSET S, \A x \in T : T \ {x} \in F
               PROVE  \E k \in Nat : SumFunctionOnSet(h, T) = SumFunctionOnSet(f, T) + k * w
    OBVIOUS
  <2>1. CASE T = {}
    <3>1. SumFunctionOnSet(h, T) = 0 /\ SumFunctionOnSet(f, T) = 0 /\ 0 * w = 0
      BY <2>1, SumOfNothing
    <3>2. QED
      BY <3>1
  <2>2. ASSUME NEW x \in T
        PROVE  \E k \in Nat : SumFunctionOnSet(h, T) = SumFunctionOnSet(f, T) + k * w
    <3> DEFINE s == SumFunctionOnSet(f, T \ {x})
               t == SumFunctionOnSet(h, T \ {x})
    <3>1. IsFiniteSet(T) /\ IsFiniteSet(T \ {x})
      BY FS_Subset
    <3>2. SumFunctionOnSet(f, T) = f[x] + s /\ SumFunctionOnSet(h, T) = h[x] + t
      BY <3>1, SumTakesAway
    <3>3. s \in Int /\ t \in Int
      BY <3>1, SumTakesAway
    <3>4. PICK k \in Nat : t = s + k * w
      OBVIOUS
    <3>5. f[x] \in Int /\ h[x] \in Int /\ (f[x] = h[x] \/ f[x] = h[x] - w)
      OBVIOUS
    <3>6. (k + 1) * w = k * w + w /\ k * w \in Int
      OBVIOUS
    <3> HIDE DEF s, t
    <3>7. h[x] + t = (f[x] + s) + k * w \/ h[x] + t = (f[x] + s) + (k + 1) * w
      BY <3>3, <3>4, <3>5, <3>6
    <3>8. k + 1 \in Nat
      OBVIOUS
    <3>9. QED
      BY <3>2, <3>7, <3>8
  <2>3. QED
    BY <2>1, <2>2
<1> HIDE DEF F
<1>2. \A T \in SUBSET S : T \in F
  BY <1>1, FiniteInduction
<1>3. QED
  BY <1>2 DEF F

LEMMA Distributes ==
    ASSUME NEW a \in Int, NEW x \in Int, NEW y \in Int
    PROVE  /\ a * (x + y) = a * x + a * y
           /\ a * x \in Int /\ a * y \in Int
  OBVIOUS

Combines(S, f, a, x, b, y, c, z) ==
    /\ IsFiniteSet(S)
    /\ a \in Int /\ b \in Int /\ c \in Int
    /\ \A i \in S : /\ x[i] \in Int /\ y[i] \in Int /\ z[i] \in Int
                    /\ f[i] = a * x[i] + b * y[i] + c * z[i]

LEMMA SumLinear ==
    ASSUME NEW S, NEW f, NEW a, NEW x, NEW b, NEW y, NEW c, NEW z,
           Combines(S, f, a, x, b, y, c, z)
    PROVE  SumFunctionOnSet(f, S)
               = a * SumFunctionOnSet(x, S) + b * SumFunctionOnSet(y, S)
                     + c * SumFunctionOnSet(z, S)
<1> DEFINE F == {T \in SUBSET S :
                    SumFunctionOnSet(f, T)
                        = a * SumFunctionOnSet(x, T) + b * SumFunctionOnSet(y, T)
                              + c * SumFunctionOnSet(z, T)}
<1> USE DEF Combines
<1>1. \A i \in S : f[i] \in Int
  OBVIOUS
<1>2. \A T \in SUBSET S : (\A i \in T : T \ {i} \in F) => T \in F
  <2> SUFFICES ASSUME NEW T \in SUBSET S, \A i \in T : T \ {i} \in F
               PROVE  T \in F
    OBVIOUS
  <2>1. CASE T = {}
    <3>1. /\ SumFunctionOnSet(f, T) = 0 /\ SumFunctionOnSet(x, T) = 0
          /\ SumFunctionOnSet(y, T) = 0 /\ SumFunctionOnSet(z, T) = 0
      BY <2>1, SumOfNothing
    <3>2. a * 0 + b * 0 + c * 0 = 0
      OBVIOUS
    <3>3. QED
      BY <3>1, <3>2
  <2>2. ASSUME NEW i \in T
        PROVE  T \in F
    <3> DEFINE R(g) == SumFunctionOnSet(g, T \ {i})
    <3>1. IsFiniteSet(T) /\ IsFiniteSet(T \ {i})
      BY FS_Subset
    <3>2. /\ SumFunctionOnSet(f, T) = f[i] + R(f)
          /\ SumFunctionOnSet(x, T) = x[i] + R(x)
          /\ SumFunctionOnSet(y, T) = y[i] + R(y)
          /\ SumFunctionOnSet(z, T) = z[i] + R(z)
      BY <1>1, <3>1, SumTakesAway
    <3>3. R(f) \in Int /\ R(x) \in Int /\ R(y) \in Int /\ R(z) \in Int
      BY <1>1, <3>1, SumTakesAway
    <3>4. R(f) = a * R(x) + b * R(y) + c * R(z)
      OBVIOUS
    <3>5. /\ x[i] \in Int /\ y[i] \in Int /\ z[i] \in Int
          /\ f[i] = a * x[i] + b * y[i] + c * z[i]
      OBVIOUS
    <3> HIDE DEF R
    <3>6. /\ a * (x[i] + R(x)) = a * x[i] + a * R(x)
          /\ b * (y[i] + R(y)) = b * y[i] + b * R(y)
          /\ c * (z[i] + R(z)) = c * z[i] + c * R(z)
      BY <3>3, <3>5, Distributes
    <3>7. /\ a * x[i] \in Int /\ b * y[i] \in Int /\ c * z[i] \in Int
          /\ a * R(x) \in Int /\ b * R(y) \in Int /\ c * R(z) \in Int
      BY <3>3, <3>5, Distributes
    <3>8. f[i] + R(f) = a * (x[i] + R(x)) + b * (y[i] + R(y)) + c * (z[i] + R(z))
      BY <3>4, <3>5, <3>6, <3>7
    <3>9. QED
      BY <3>2, <3>8
  <2>3. QED
    BY <2>1, <2>2
<1> HIDE DEF F
<1>3. \A T \in SUBSET S : T \in F
  BY <1>2, FiniteInduction
<1>4. QED
  BY <1>3 DEF F

LEMMA RemainderIsUnique ==
    ASSUME NEW w \in Nat \ {0}, NEW r \in 0..(w - 1), NEW k \in Int, NEW x \in Int,
           x = r + k * w
    PROVE  x % w = r
  OBVIOUS

-----------------------------------------------------------------------------
(***************************************************************************)
(* `as i64' and back is the identity on u64.                               *)
(***************************************************************************)
LEMMA CastsRoundTrip ==
    ASSUME NEW v \in 0..(2 * Half - 1)
    PROVE  Signed(v) \in Signeds /\ Unsigned(Signed(v)) = v
  BY UsageAssumption DEF Signed, Unsigned, Signeds

(***************************************************************************)
(* The three forms of a timestamp.                                         *)
(***************************************************************************)
IsForm(t, x) ==
    /\ x[1] = 2 + t.sec
    /\ t.milli = 0 /\ t.micro = 0 => Len(x) = 2 /\ x[2] = 0
    /\ t.milli # 0 /\ t.micro = 0 =>
          Len(x) = 4 /\ x[2] = 1 /\ x[3] = 2 + t.milli /\ x[4] = 0
    /\ t.micro # 0 =>
          /\ Len(x) = 5 /\ x[2] = 1 /\ x[3] = 2 + t.milli
          /\ x[4] = 2 + t.micro /\ x[5] = 0

LEMMA Forms ==
    ASSUME NEW t \in Time
    PROVE  to_rfc3339(t) \in Seq(Nat) /\ IsForm(t, to_rfc3339(t))
  BY DEF to_rfc3339, Written, Plus, Point, Digit, Time, IsForm

LEMMA FormLength ==
    ASSUME NEW t \in Time, NEW x, IsForm(t, x)
    PROVE  /\ Len(x) \in Nat
           /\ 2 <= Len(x)
           /\ t.milli # 0 \/ t.micro # 0 => 4 <= Len(x)
<1>1. CASE t.milli = 0 /\ t.micro = 0
  <2>1. Len(x) = 2
    BY <1>1 DEF IsForm
  <2>2. QED
    BY <1>1, <2>1
<1>2. CASE t.milli # 0 /\ t.micro = 0
  <2>1. Len(x) = 4
    BY <1>2 DEF IsForm
  <2>2. QED
    BY <2>1
<1>3. CASE t.micro # 0
  <2>1. Len(x) = 5
    BY <1>3 DEF IsForm
  <2>2. QED
    BY <2>1
<1>4. QED
  BY <1>1, <1>2, <1>3

LEMMA DiffersAt ==
    ASSUME NEW x, NEW y, NEW k \in Nat, k >= 1, Len(x) \in Nat, Len(y) \in Nat,
           k <= Len(x), k <= Len(y), x[k] < y[k],
           \A j \in 1..(k - 1) : x[j] = y[j]
    PROVE  TextBefore(x, y)
  BY DEF TextBefore

(***************************************************************************)
(* Texts differ first where the times do: in the seconds, at the point that*)
(* a whole second lacks, in the thousandths or in the millionths.          *)
(***************************************************************************)
LEMMA EarlierFormFirst ==
    ASSUME NEW s \in Time, NEW t \in Time, NEW x, NEW y,
           IsForm(s, x), IsForm(t, y), Before(s, t)
    PROVE  TextBefore(x, y)
<1>s. s.sec \in Nat /\ s.milli \in Nat /\ s.micro \in Nat
  BY DEF Time
<1>t. t.sec \in Nat /\ t.milli \in Nat /\ t.micro \in Nat
  BY DEF Time
<1>len. Len(x) \in Nat /\ Len(y) \in Nat /\ 2 <= Len(x) /\ 2 <= Len(y)
  BY FormLength
<1>1. CASE s.sec < t.sec
  <2>1. x[1] = 2 + s.sec /\ y[1] = 2 + t.sec
    BY DEF IsForm
  <2>2. x[1] < y[1]
    BY <1>1, <1>s, <1>t, <2>1
  <2>3. 1 <= Len(x) /\ 1 <= Len(y)
    BY <1>len
  <2>4. \A j \in 1..(1 - 1) : x[j] = y[j]
    OBVIOUS
  <2>5. QED
    BY <2>2, <2>3, <2>4, <1>len, DiffersAt
<1>2. CASE s.sec = t.sec /\ s.milli = 0 /\ s.micro = 0
  <2>1. t.milli # 0 \/ t.micro # 0
    BY <1>2, <1>s, <1>t DEF Before
  <2>2. x[2] < y[2] /\ x[1] = y[1]
    <3>1. x[1] = 2 + s.sec /\ x[2] = 0 /\ y[1] = 2 + t.sec /\ y[2] = 1
      BY <1>2, <2>1 DEF IsForm
    <3>2. QED
      BY <3>1, <1>2
  <2>3. \A j \in 1..(2 - 1) : j = 1
    OBVIOUS
  <2>4. \A j \in 1..(2 - 1) : x[j] = y[j]
    BY <2>2, <2>3
  <2>5. QED
    BY <2>2, <2>4, <1>len, DiffersAt
<1>3. CASE s.sec = t.sec /\ (s.milli # 0 \/ s.micro # 0) /\ s.milli < t.milli
  <2>1. x[1] = y[1] /\ x[2] = y[2] /\ x[3] < y[3]
    BY <1>3, <1>s, <1>t DEF IsForm
  <2>2. 3 <= Len(x) /\ 3 <= Len(y)
    <3>1. 4 <= Len(x) /\ 4 <= Len(y)
      BY <1>3, <1>s, <1>t, FormLength
    <3>2. QED
      BY <3>1, <1>len
  <2>3. \A j \in 1..(3 - 1) : j = 1 \/ j = 2
    OBVIOUS
  <2>4. \A j \in 1..(3 - 1) : x[j] = y[j]
    BY <2>1, <2>3
  <2>5. QED
    BY <2>1, <2>2, <2>4, <1>len, DiffersAt
<1>4. CASE /\ s.sec = t.sec /\ (s.milli # 0 \/ s.micro # 0)
           /\ s.milli = t.milli /\ s.micro < t.micro
  <2>1. x[1] = y[1] /\ x[2] = y[2] /\ x[3] = y[3] /\ x[4] < y[4]
    BY <1>4, <1>s, <1>t DEF IsForm
  <2>2. 4 <= Len(x) /\ 4 <= Len(y)
    <3>1. 4 <= Len(x) /\ 4 <= Len(y)
      BY <1>4, <1>s, <1>t, FormLength
    <3>2. QED
      BY <3>1, <1>len
  <2>3. \A j \in 1..(4 - 1) : j = 1 \/ j = 2 \/ j = 3
    OBVIOUS
  <2>4. \A j \in 1..(4 - 1) : x[j] = y[j]
    BY <2>1, <2>3
  <2>5. QED
    BY <2>1, <2>2, <2>4, <1>len, DiffersAt
<1>5. QED
  BY <1>1, <1>2, <1>3, <1>4, <1>s, <1>t DEF Before

LEMMA EarlierTextFirst ==
    ASSUME NEW s \in Time, NEW t \in Time, Before(s, t)
    PROVE  TextBefore(to_rfc3339(s), to_rfc3339(t))
  BY Forms, EarlierFormFirst

LEMMA TextOrderIsTotal ==
    ASSUME NEW s \in Time, NEW t \in Time
    PROVE  Before(s, t) \/ s = t \/ Before(t, s)
  BY DEF Before, Time

(***************************************************************************)
(* No text is before one that is before it.                                *)
(***************************************************************************)
LEMMA TextAsymmetric ==
    ASSUME NEW x \in Seq(Nat), NEW y \in Seq(Nat), TextBefore(x, y)
    PROVE  ~TextBefore(y, x)
<1> SUFFICES ASSUME TextBefore(y, x) PROVE FALSE
  OBVIOUS
<1>1. CASE \E k \in (1..Len(x)) \cap (1..Len(y)) :
               x[k] < y[k] /\ \A j \in 1..(k - 1) : x[j] = y[j]
  <2>1. PICK k \in (1..Len(x)) \cap (1..Len(y)) :
               x[k] < y[k] /\ \A j \in 1..(k - 1) : x[j] = y[j]
    BY <1>1
  <2>2. CASE \E i \in (1..Len(y)) \cap (1..Len(x)) :
                 y[i] < x[i] /\ \A j \in 1..(i - 1) : y[j] = x[j]
    <3>1. PICK i \in (1..Len(y)) \cap (1..Len(x)) :
                 y[i] < x[i] /\ \A j \in 1..(i - 1) : y[j] = x[j]
      BY <2>2
    <3>2. k < i \/ k = i \/ i < k
      OBVIOUS
    <3>3. x[k] \in Nat /\ y[k] \in Nat /\ x[i] \in Nat /\ y[i] \in Nat
      OBVIOUS
    <3>4. QED
      BY <2>1, <3>1, <3>2, <3>3
  <2>3. CASE Len(y) < Len(x) /\ \A j \in 1..Len(y) : y[j] = x[j]
    <3>1. x[k] \in Nat /\ y[k] = x[k]
      BY <2>3
    <3>2. QED
      BY <2>1, <3>1
  <2>4. QED
    BY <2>2, <2>3 DEF TextBefore
<1>2. CASE Len(x) < Len(y) /\ \A j \in 1..Len(x) : x[j] = y[j]
  <2>1. PICK i \in (1..Len(y)) \cap (1..Len(x)) : y[i] < x[i]
    BY <1>2 DEF TextBefore
  <2>2. x[i] \in Nat /\ y[i] = x[i]
    BY <1>2
  <2>3. QED
    BY <2>1, <2>2
<1>3. QED
  BY <1>1, <1>2 DEF TextBefore

(***************************************************************************)
(* The order of the texts is the order of the times, and a text names its  *)
(* time.                                                                   *)
(***************************************************************************)
THEOREM TextOrder ==
    ASSUME NEW s \in Time, NEW t \in Time
    PROVE  /\ TextBefore(to_rfc3339(s), to_rfc3339(t)) <=> Before(s, t)
           /\ to_rfc3339(s) = to_rfc3339(t) => s = t
<1>1. to_rfc3339(s) \in Seq(Nat) /\ to_rfc3339(t) \in Seq(Nat)
  BY Forms
<1>2. Before(s, t) => TextBefore(to_rfc3339(s), to_rfc3339(t))
  BY EarlierTextFirst
<1>3. Before(t, s) => TextBefore(to_rfc3339(t), to_rfc3339(s))
  BY EarlierTextFirst
<1>4. ~TextBefore(to_rfc3339(s), to_rfc3339(s))
  BY <1>1, TextAsymmetric
<1>5. TextBefore(to_rfc3339(s), to_rfc3339(t)) => ~TextBefore(to_rfc3339(t), to_rfc3339(s))
  BY <1>1, TextAsymmetric
<1>6. QED
  BY <1>2, <1>3, <1>4, <1>5, TextOrderIsTotal

-----------------------------------------------------------------------------
(***************************************************************************)
(* Each row is what was handed over for it, as it is stored.               *)
(***************************************************************************)
RowsStored ==
    /\ Len(table) = Len(recorded)
    /\ \A i \in 1..Len(recorded) : table[i] = Stored(recorded[i])

(***************************************************************************)
(* Each record costs what its counters do at its provider's prices.        *)
(***************************************************************************)
Priced(r) == r.cost = Cost(r.provider, r)

RecordsPriced ==
    /\ \A k \in Tasks : pending[k] # NoRecord => Priced(pending[k])
    /\ \A i \in 1..Len(recorded) : Priced(recorded[i])

IInv == TypeOK /\ RowsStored /\ RecordsPriced

LEMMA StoredType ==
    ASSUME NEW r \in Record PROVE Stored(r) \in Row
<1>1. to_rfc3339(r.timestamp) \in Seq(Nat)
  BY Forms, UsageAssumption DEF Record
<1>2. Signed(r.input) \in Signeds /\ Signed(r.cache_read) \in Signeds /\ Signed(r.output) \in Signeds
  BY CastsRoundTrip, UsageAssumption DEF Record
<1>3. QED
  BY <1>1, <1>2 DEF Stored, Row, Record

LEMMA CostType ==
    ASSUME NEW p \in Providers, NEW usage \in Usages PROVE Cost(p, usage) \in Nat
<1>0. usage \in Usage /\ \A v \in Counters : v \in Nat
  BY UsageAssumption
<1>1. /\ usage.input \in Nat /\ usage.cache_read \in Nat /\ usage.output \in Nat
  BY <1>0 DEF Usage
<1>2. price[p] \in Pricing
  BY UsageAssumption
<1>3. QED
  BY <1>1, <1>2 DEF Cost, calculate, Pricing

THEOREM UsageInvariant == Spec => []IInv
<1>1. Init => IInv
  BY UsageAssumption DEF Init, IInv, TypeOK, RowsStored, RecordsPriced
<1>2. IInv /\ [Next]_vars => IInv'
  <2> SUFFICES ASSUME IInv, [Next]_vars PROVE IInv'
    OBVIOUS
  <2> USE DEF IInv, TypeOK
  <2>1. ASSUME NEW k \in Tasks, NEW p \in Providers, NEW usage \in Usages, NEW now \in Times,
               Track(k, p, usage, now)
        PROVE  IInv'
    <3> DEFINE r == [timestamp |-> now, provider |-> p, input |-> usage.input,
                     cache_read |-> usage.cache_read, output |-> usage.output,
                     cost |-> Cost(p, usage)]
    <3>1. usage \in Usage
      BY UsageAssumption
    <3>2. r \in Record
      BY <3>1, CostType DEF Usage, Record
    <3>3. Priced(r)
      BY DEF Priced, Cost
    <3> HIDE DEF r
    <3>4. /\ pending' = [pending EXCEPT ![k] = r]
          /\ UNCHANGED <<table, recorded>>
      BY <2>1 DEF Track, r
    <3>5. TypeOK' /\ RowsStored'
      BY <3>2, <3>4 DEF RowsStored
    <3>6. RecordsPriced'
      BY <3>3, <3>4 DEF RecordsPriced, Priced, Cost
    <3>7. QED
      BY <3>5, <3>6
  <2>2. ASSUME NEW k \in Tasks, record(k) PROVE IInv'
    <3>1. pending[k] \in Record /\ Stored(pending[k]) \in Row
      BY <2>2, StoredType DEF record
    <3>2. TypeOK'
      BY <2>2, <3>1, UsageAssumption DEF record
    <3>3. RowsStored'
      BY <2>2, <3>1 DEF record, RowsStored
    <3>4. RecordsPriced'
      <4>1. Priced(pending[k])
        BY <2>2 DEF record, RecordsPriced
      <4>2. \A j \in Tasks : pending'[j] # NoRecord => pending'[j] = pending[j]
        BY <2>2 DEF record
      <4>3. \A i \in 1..Len(recorded') :
                IF i = Len(recorded) + 1 THEN recorded'[i] = pending[k]
                ELSE i \in 1..Len(recorded) /\ recorded'[i] = recorded[i]
        BY <2>2, <3>1 DEF record
      <4>4. QED
        BY <4>1, <4>2, <4>3 DEF RecordsPriced, Priced, Cost
    <3>5. QED
      BY <3>2, <3>3, <3>4
  <2>3. ASSUME NEW k \in Tasks, RecordFails(k) PROVE IInv'
    BY <2>3 DEF RecordFails, RowsStored, RecordsPriced, Priced, Cost
  <2>4. CASE Kill
    BY <2>4 DEF Kill, RowsStored, RecordsPriced, Priced, Cost
  <2>5. CASE UNCHANGED vars
    BY <2>5 DEF vars, RowsStored, RecordsPriced, Priced, Cost
  <2>6. QED
    BY <2>1, <2>2, <2>3, <2>4, <2>5 DEF Next
<1>3. QED
  BY <1>1, <1>2, PTL DEF Spec

(***************************************************************************)
(* The table and the records handed over keep their types.                 *)
(***************************************************************************)
THEOREM UsageTypeCorrect == Spec => []TypeOK
<1>1. IInv => TypeOK
  BY DEF IInv
<1>2. QED
  BY <1>1, UsageInvariant, PTL

LEMMA ReadsBack ==
    ASSUME NEW r \in Record PROVE Read(Stored(r)) = r
<1>1. r.timestamp \in Times /\ \A t \in Times : to_rfc3339(t) = to_rfc3339(r.timestamp) => t = r.timestamp
  BY TextOrder, UsageAssumption DEF Record
<1>2. parse_ts(to_rfc3339(r.timestamp)) = r.timestamp
  BY <1>1 DEF parse_ts
<1>3. /\ Unsigned(Signed(r.input)) = r.input
      /\ Unsigned(Signed(r.cache_read)) = r.cache_read
      /\ Unsigned(Signed(r.output)) = r.output
  BY CastsRoundTrip, UsageAssumption DEF Record
<1>4. QED
  BY <1>2, <1>3 DEF Read, Stored, Record

LEMMA RowsReadBack ==
    ASSUME IInv, NEW i \in 1..Len(recorded)
    PROVE  /\ recorded[i] \in Record /\ recorded[i].timestamp \in Time
           /\ table[i].timestamp = to_rfc3339(recorded[i].timestamp)
           /\ Read(table[i]) = recorded[i]
<1>1. recorded[i] \in Record
  BY DEF IInv, TypeOK
<1>2. recorded[i].timestamp \in Time
  BY <1>1, UsageAssumption DEF Record
<1>3. table[i] = Stored(recorded[i])
  BY DEF IInv, RowsStored
<1>4. Stored(recorded[i]).timestamp = to_rfc3339(recorded[i].timestamp)
  BY <1>1 DEF Stored, Record
<1>5. QED
  BY <1>1, <1>2, <1>3, <1>4, ReadsBack

LEMMA WindowsAgree ==
    ASSUME IInv, NEW start \in Times, NEW end \in Times
    PROVE  InWindow(start, end) = RecordedIn(start, end)
<1>1. start \in Time /\ end \in Time
  BY UsageAssumption
<1>2. QED
  BY <1>1, RowsReadBack, TextOrder DEF IInv, RowsStored, InWindow, RecordedIn

(***************************************************************************)
(* Queries return what was recorded, for any width, clock and price.       *)
(***************************************************************************)
THEOREM QueriesAlwaysFaithful == Spec => []QueriesFaithful
<1>1. IInv => QueriesFaithful
  <2> SUFFICES ASSUME IInv PROVE QueriesFaithful
    OBVIOUS
  <2>1. ASSUME NEW start \in Times, NEW end \in Times
        PROVE  query(start, end) = [i \in RecordedIn(start, end) |-> recorded[i]]
    BY RowsReadBack, WindowsAgree DEF query, RecordedIn
  <2>2. \A i, j \in 1..Len(recorded) :
            TextBefore(table[i].timestamp, table[j].timestamp)
                <=> Before(recorded[i].timestamp, recorded[j].timestamp)
    BY RowsReadBack, TextOrder
  <2>3. QED
    BY <2>1, <2>2 DEF QueriesFaithful
<1>2. QED
  BY <1>1, UsageInvariant, PTL

-----------------------------------------------------------------------------
(***************************************************************************)
(* A column of the table is the counters handed over, as i64.              *)
(***************************************************************************)
LEMMA ColumnsStored ==
    ASSUME IInv, NEW column \in TokenColumns, NEW i \in 1..Len(recorded)
    PROVE  /\ i \in DOMAIN table /\ i \in DOMAIN recorded
           /\ recorded[i][column] \in 0..(2 * Half - 1)
           /\ table[i][column] = Signed(recorded[i][column])
<1>1. recorded[i] \in Record /\ table[i] = Stored(recorded[i])
  BY DEF IInv, TypeOK, RowsStored
<1>2. i \in DOMAIN table /\ i \in DOMAIN recorded
  BY DEF IInv, TypeOK, RowsStored
<1>3. recorded[i][column] \in Counters
  BY <1>1 DEF Record, TokenColumns
<1>4. table[i][column] = Signed(recorded[i][column])
  BY <1>1 DEF Stored, Record, TokenColumns
<1>5. QED
  BY <1>2, <1>3, <1>4, UsageAssumption

LEMMA HalfPositive == Half \in Nat /\ Half > 0 /\ 2 * Half \in Nat \ {0}
  BY UsageAssumption

(***************************************************************************)
(* What SQLite's SUM over some rows has to do with what was reported for   *)
(* them: it differs by a multiple of 2^64, and it can leave i64 only if as *)
(* much as 2^63 was reported.  For the latter, either it is not below what *)
(* the rows reported, or one of the rows is negative and reported as much. *)
(***************************************************************************)
LEMMA SumsStored ==
    ASSUME IInv, NEW column \in TokenColumns, NEW D \in SUBSET (1..Len(recorded))
    PROVE  /\ Sum(column, D) \in Signeds =>
                  Unsigned(Sum(column, D)) = Reported(column, D) % (2 * Half)
           /\ \A part \in SUBSET D :
                  Sum(column, part) \notin Signeds => Reported(column, D) >= Half
<1> DEFINE f == [i \in DOMAIN table |-> table[i][column]]
           h == [i \in DOMAIN recorded |-> recorded[i][column]]
<1>1. IsFiniteSet(D)
  <2>1. Len(recorded) \in Nat
    BY DEF IInv, TypeOK
  <2>2. ASSUME NEW n \in Nat PROVE IsFiniteSet(1..n)
    BY FS_Interval
  <2>3. IsFiniteSet(1..Len(recorded))
    BY <2>1, <2>2
  <2>4. QED
    BY <2>3, FS_Subset
<1>2. \A i \in D : h[i] \in 0..(2 * Half - 1) /\ f[i] = Signed(h[i])
  BY ColumnsStored
<1>3. \A i \in D : /\ f[i] \in Int /\ h[i] \in Nat /\ h[i] \in Int
                   /\ f[i] <= h[i]
                   /\ f[i] = h[i] \/ f[i] = h[i] - 2 * Half
                   /\ f[i] < 0 => h[i] >= Half
  BY <1>2, HalfPositive DEF Signed
<1>4. /\ \A part : Sum(column, part) = SumFunctionOnSet(f, part)
      /\ Reported(column, D) = SumFunctionOnSet(h, D)
  BY DEF Sum, Reported
<1> HIDE DEF f, h
<1>5. SumFunctionOnSet(f, D) \in Int /\ SumFunctionOnSet(h, D) \in Nat
  BY <1>1, <1>3, SumTakesAway, SumOfPart
<1>6. SumFunctionOnSet(f, D) \in Signeds =>
          Unsigned(SumFunctionOnSet(f, D)) = SumFunctionOnSet(h, D) % (2 * Half)
  <2> DEFINE s == SumFunctionOnSet(f, D)
             t == SumFunctionOnSet(h, D)
             w == 2 * Half
  <2> SUFFICES ASSUME s \in Signeds PROVE Unsigned(s) = t % w
    OBVIOUS
  <2>1. w \in Nat \ {0} /\ s \in Int /\ t \in Int
    BY <1>5, HalfPositive
  <2>2. PICK k \in Nat : t = s + k * w
    <3> HIDE DEF w
    <3>1. \A i \in D : f[i] \in Int /\ h[i] \in Int /\ (f[i] = h[i] \/ f[i] = h[i] - w)
      BY <1>3 DEF w
    <3>2. w \in Nat
      BY <2>1
    <3>3. Wraps(D, f, h, w)
      BY <1>1, <3>1, <3>2 DEF Wraps
    <3>4. QED
      BY <3>3, SumModulo
  <2>3. /\ Unsigned(s) \in 0..(w - 1)
        /\ Unsigned(s) = s \/ Unsigned(s) = s + w
    BY HalfPositive DEF Unsigned, Signeds
  <2> HIDE DEF s, t, w
  <2>4. k * w \in Int /\ (k - 1) * w = k * w - w
    BY <2>1
  <2>5. t = Unsigned(s) + k * w \/ t = Unsigned(s) + (k - 1) * w
    BY <2>1, <2>2, <2>3, <2>4
  <2>6. k \in Int /\ k - 1 \in Int
    OBVIOUS
  <2>7. QED
    BY <2>1, <2>3, <2>5, <2>6, RemainderIsUnique
<1>7. ASSUME NEW part \in SUBSET D, SumFunctionOnSet(f, part) \notin Signeds
      PROVE  SumFunctionOnSet(h, D) >= Half
  <2> DEFINE s == SumFunctionOnSet(f, part)
  <2>1. IsFiniteSet(part) /\ s \in Int
    BY <1>1, <1>3, FS_Subset, SumTakesAway
  <2>2. CASE s >= Half
    <3>1. s <= SumFunctionOnSet(h, part)
      BY <1>3, <2>1, SumAtMost
    <3>2. SumFunctionOnSet(h, part) \in Nat /\ SumFunctionOnSet(h, part) <= SumFunctionOnSet(h, D)
      BY <1>1, <1>3, SumOfPart
    <3>3. QED
      BY <1>5, <2>1, <2>2, <3>1, <3>2, HalfPositive
  <2>3. CASE s < 0
    <3>1. PICK i \in part : ~(f[i] \in Nat)
      <4>1. (\A i \in part : f[i] \in Nat) => s \in Nat
        BY <2>1, SumOfPart
      <4>2. QED
        BY <2>1, <2>3, <4>1
    <3>2. h[i] >= Half /\ h[i] \in Nat
      BY <1>3, <3>1
    <3>3. SumFunctionOnSet(h, {i}) = h[i]
      <4>1. IsFiniteSet({i}) /\ {i} \ {i} = {}
        BY <1>1, FS_Subset
      <4>2. SumFunctionOnSet(h, {i}) = h[i] + SumFunctionOnSet(h, {i} \ {i})
        BY <1>3, <4>1, SumTakesAway
      <4>3. SumFunctionOnSet(h, {i} \ {i}) = 0
        BY <4>1, SumOfNothing
      <4>4. QED
        BY <3>2, <4>2, <4>3
    <3>4. SumFunctionOnSet(h, {i}) <= SumFunctionOnSet(h, D)
      BY <1>1, <1>3, SumOfPart
    <3>5. QED
      BY <1>5, <3>2, <3>3, <3>4, HalfPositive
  <2>4. s >= Half \/ s < 0
    BY <1>7, <2>1, HalfPositive DEF Signeds
  <2>5. QED
    BY <2>2, <2>3, <2>4
<1>8. QED
  BY <1>4, <1>6, <1>7

(***************************************************************************)
(* What the rows of a provider cost is what their counters do.             *)
(***************************************************************************)
LEMMA CostsStored ==
    ASSUME IInv, NEW p \in Providers, NEW D \in SUBSET (1..Len(recorded)),
           \A i \in D : recorded[i].provider = p
    PROVE  Sum("cost", D)
               = Reported("input", D) * price[p].input_per_m
                     + Reported("output", D) * price[p].output_per_m
                     + Reported("cache_read", D) * (IF price[p].cache_read_per_m = NoRecord THEN 0
                                                    ELSE price[p].cache_read_per_m)
<1> DEFINE f == [i \in DOMAIN table |-> table[i]["cost"]]
           h(column) == [i \in DOMAIN recorded |-> recorded[i][column]]
           a == price[p].input_per_m
           b == price[p].output_per_m
           c == IF price[p].cache_read_per_m = NoRecord THEN 0 ELSE price[p].cache_read_per_m
<1>1. IsFiniteSet(D)
  <2>1. Len(recorded) \in Nat
    BY DEF IInv, TypeOK
  <2>2. ASSUME NEW n \in Nat PROVE IsFiniteSet(1..n)
    BY FS_Interval
  <2>3. IsFiniteSet(1..Len(recorded))
    BY <2>1, <2>2
  <2>4. QED
    BY <2>3, FS_Subset
<1>2. a \in Nat /\ b \in Nat /\ c \in Nat
  <2>1. price[p] \in Pricing
    BY UsageAssumption
  <2>2. QED
    BY <2>1 DEF Pricing
<1>3. ASSUME NEW i \in D
      PROVE  /\ h("input")[i] \in Nat /\ h("output")[i] \in Nat /\ h("cache_read")[i] \in Nat
             /\ f[i] = a * h("input")[i] + b * h("output")[i] + c * h("cache_read")[i]
  <2>1. /\ h("input")[i] = recorded[i].input
        /\ h("output")[i] = recorded[i].output
        /\ h("cache_read")[i] = recorded[i].cache_read
        /\ h("input")[i] \in Nat /\ h("output")[i] \in Nat /\ h("cache_read")[i] \in Nat
    BY ColumnsStored, HalfPositive DEF TokenColumns
  <2>2. f[i] = recorded[i].cost
    <3>1. recorded[i] \in Record /\ table[i] = Stored(recorded[i])
      BY DEF IInv, TypeOK, RowsStored
    <3>2. i \in DOMAIN table
      BY ColumnsStored DEF TokenColumns
    <3>3. QED
      BY <3>1, <3>2 DEF Stored, Record
  <2>3. recorded[i].cost = a * recorded[i].input + b * recorded[i].output + c * recorded[i].cache_read
    BY DEF IInv, RecordsPriced, Priced, Cost, calculate
  <2>4. QED
    BY <2>1, <2>2, <2>3
<1>4. /\ Sum("cost", D) = SumFunctionOnSet(f, D)
      /\ Reported("input", D) = SumFunctionOnSet(h("input"), D)
      /\ Reported("output", D) = SumFunctionOnSet(h("output"), D)
      /\ Reported("cache_read", D) = SumFunctionOnSet(h("cache_read"), D)
  BY DEF Sum, Reported
<1> HIDE DEF f, h, a, b, c
<1>5. SumFunctionOnSet(f, D)
          = a * SumFunctionOnSet(h("input"), D) + b * SumFunctionOnSet(h("output"), D)
                + c * SumFunctionOnSet(h("cache_read"), D)
  <2> DEFINE x == h("input")
             y == h("output")
             z == h("cache_read")
  <2>1. Combines(D, f, a, x, b, y, c, z)
    BY <1>1, <1>2, <1>3 DEF Combines
  <2> HIDE DEF x, y, z
  <2>2. SumFunctionOnSet(f, D)
            = a * SumFunctionOnSet(x, D) + b * SumFunctionOnSet(y, D)
                  + c * SumFunctionOnSet(z, D)
    BY <2>1, SumLinear
  <2>3. QED
    BY <2>2 DEF x, y, z
<1>6. /\ SumFunctionOnSet(h("input"), D) \in Nat
      /\ SumFunctionOnSet(h("output"), D) \in Nat
      /\ SumFunctionOnSet(h("cache_read"), D) \in Nat
  BY <1>1, <1>3, SumOfPart
<1>7. SumFunctionOnSet(f, D)
          = SumFunctionOnSet(h("input"), D) * a + SumFunctionOnSet(h("output"), D) * b
                + SumFunctionOnSet(h("cache_read"), D) * c
  BY <1>2, <1>5, <1>6
<1>8. QED
  BY <1>4, <1>7 DEF a, b, c

(***************************************************************************)
(* The statistics are right modulo 2^64, and the query fails only if there *)
(* is a provider with tokens beyond i64, for every width, window and price.*)
(***************************************************************************)
THEOREM StatsAlwaysAddUp == Spec => []StatsAddUp
<1>1. IInv => StatsAddUp
  <2> SUFFICES ASSUME IInv, NEW start \in Times, NEW end \in Times
               PROVE  LET ids == RecordedIn(start, end)
                          stats == aggregate_by_provider(start, end)
                      IN /\ MayOverflow(ids) =>
                               \E p \in Providers, column \in TokenColumns :
                                   TrueSum(column, p, ids) >= Half
                         /\ DOMAIN stats = {recorded[i].provider : i \in ids}
                         /\ \A p \in DOMAIN stats :
                               /\ stats[p].total_cost_usd = TrueCost(p, ids)
                               /\ ~MayOverflow(ids) =>
                                     /\ stats[p].total_input_tokens
                                            = TrueSum("input", p, ids) % (2 * Half)
                                     /\ stats[p].total_cache_read_tokens
                                            = TrueSum("cache_read", p, ids) % (2 * Half)
                                     /\ stats[p].total_output_tokens
                                            = TrueSum("output", p, ids) % (2 * Half)
    BY DEF StatsAddUp
  <2> DEFINE ids == RecordedIn(start, end)
             stats == aggregate_by_provider(start, end)
  <2>1. InWindow(start, end) = ids /\ ids \subseteq 1..Len(recorded)
    BY WindowsAgree DEF RecordedIn
  <2>2. \A i \in ids : table[i].provider = recorded[i].provider /\ recorded[i].provider \in Providers
    <3> TAKE i \in ids
    <3>1. recorded[i] \in Record /\ table[i] = Stored(recorded[i])
      BY <2>1 DEF IInv, TypeOK, RowsStored
    <3>2. QED
      BY <3>1 DEF Stored, Record
  <2>3. stats = [p \in {q \in Providers : Of(q, ids) # {}} |->
            [total_requests          |-> Cardinality(Of(p, ids)),
             total_input_tokens      |-> Unsigned(Sum("input", Of(p, ids))),
             total_cache_read_tokens |-> Unsigned(Sum("cache_read", Of(p, ids))),
             total_output_tokens     |-> Unsigned(Sum("output", Of(p, ids))),
             total_cost_usd          |-> Sum("cost", Of(p, ids))]]
    BY <2>1 DEF aggregate_by_provider
  <2> HIDE DEF ids, stats
  <2>4. ASSUME NEW p
        PROVE  /\ Of(p, ids) = {i \in ids : recorded[i].provider = p}
               /\ Of(p, ids) \in SUBSET (1..Len(recorded))
               /\ \A i \in Of(p, ids) : recorded[i].provider = p
               /\ \A column : TrueSum(column, p, ids) = Reported(column, Of(p, ids))
    BY <2>1, <2>2 DEF Of, TrueSum
  <2>5. MayOverflow(ids) =>
            \E p \in Providers, column \in TokenColumns : TrueSum(column, p, ids) >= Half
    <3> SUFFICES ASSUME NEW p \in Providers, NEW column \in TokenColumns,
                        NEW part \in SUBSET Of(p, ids), Sum(column, part) \notin Signeds
                 PROVE  TrueSum(column, p, ids) >= Half
      BY DEF MayOverflow
    <3>1. QED
      BY <2>4, SumsStored
  <2>6. DOMAIN stats = {recorded[i].provider : i \in ids}
    BY <2>2, <2>3, <2>4
  <2>7. ASSUME NEW p \in DOMAIN stats
        PROVE  /\ stats[p].total_cost_usd = TrueCost(p, ids)
               /\ ~MayOverflow(ids) =>
                     /\ stats[p].total_input_tokens = TrueSum("input", p, ids) % (2 * Half)
                     /\ stats[p].total_cache_read_tokens
                            = TrueSum("cache_read", p, ids) % (2 * Half)
                     /\ stats[p].total_output_tokens = TrueSum("output", p, ids) % (2 * Half)
    <3>1. p \in Providers
      BY <2>3
    <3>2. /\ stats[p].total_cost_usd = Sum("cost", Of(p, ids))
          /\ stats[p].total_input_tokens = Unsigned(Sum("input", Of(p, ids)))
          /\ stats[p].total_cache_read_tokens = Unsigned(Sum("cache_read", Of(p, ids)))
          /\ stats[p].total_output_tokens = Unsigned(Sum("output", Of(p, ids)))
      BY <2>3
    <3>3. Sum("cost", Of(p, ids)) = TrueCost(p, ids)
      BY <2>4, <3>1, CostsStored DEF TrueCost
    <3>4. ASSUME ~MayOverflow(ids), NEW column \in TokenColumns
          PROVE  Unsigned(Sum(column, Of(p, ids))) = TrueSum(column, p, ids) % (2 * Half)
      <4>1. Sum(column, Of(p, ids)) \in Signeds
        BY <3>1, <3>4 DEF MayOverflow
      <4>2. QED
        BY <2>4, <4>1, SumsStored
    <3>5. QED
      BY <3>2, <3>3, <3>4 DEF TokenColumns
  <2>8. QED
    BY <2>5, <2>6, <2>7 DEF ids, stats
<1>2. QED
  BY <1>1, UsageInvariant, PTL
=============================================================================
