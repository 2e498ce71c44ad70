----------------------------- MODULE SumTheorems -----------------------------
(***************************************************************************)
(* What SumFunctionOnSet of the community modules computes, for every      *)
(* finite set. The library's induction theorems take an operator, which    *)
(* no installed prover instantiates; WFMin speaks of sets, so these proofs *)
(* take a smallest counterexample instead. After it, what money.ts hands   *)
(* out when an amount is divided: the parts add up to it, for every        *)
(* amount, number of parts and weights.                                    *)
(***************************************************************************)
EXTENDS Money, FiniteSetTheorems, WellFoundedInduction, TLAPS

LEMMA LeastNumber ==
    ASSUME NEW T \in SUBSET Nat, T # {}
    PROVE  \E x \in T : \A y \in T : x <= y
<1>1. PICK x \in T : \A y \in T : ~(<<y, x>> \in OpToRel(<, Nat))
  BY NatLessThanWellFounded, WFMin
<1>2. \A y \in T : ~(y < x)
  BY <1>1 DEF OpToRel
<1> QED
  BY <1>2

\* A property that every subset has if those without one element have it, every subset has.
LEMMA SmallestSubset ==
    ASSUME NEW S, IsFiniteSet(S), NEW Q \in SUBSET (SUBSET S), Q # {}
    PROVE  \E s \in Q : \A x \in s : s \ {x} \notin Q
<1> DEFINE Sizes == {Cardinality(s) : s \in Q}
<1>1. \A s \in Q : IsFiniteSet(s) /\ Cardinality(s) \in Nat
  BY FS_Subset, FS_CardinalityType
<1>2. PICK n \in Sizes : \A m \in Sizes : n <= m
  <2>1. Sizes \in SUBSET Nat /\ Sizes # {}
    BY <1>1
  <2> QED
    BY <2>1, LeastNumber
<1>3. PICK s \in Q : Cardinality(s) = n
  BY <1>2
<1>4. ASSUME NEW x \in s, s \ {x} \in Q PROVE FALSE
  <2>1. Cardinality(s \ {x}) = Cardinality(s) - 1
    BY <1>1, <1>3, FS_RemoveElement
  <2>2. n <= Cardinality(s \ {x}) /\ n \in Nat
    BY <1>1, <1>2, <1>3, <1>4
  <2> QED
    BY <1>3, <2>1, <2>2
<1> QED
  BY <1>3, <1>4

-------------------------------------------------------------------------------
Chosen(s) == CHOOSE x \in s : TRUE
SumStep(g, f, s) == IF s = {} THEN 0 ELSE f[Chosen(s)] + g[s \ {Chosen(s)}]
\* The recursion that defines the sum, over the subsets of S.
IsSum(g, f, S) == g = [s \in SUBSET S |-> SumStep(g, f, s)]

LEMMA SumUnfolds ==
    ASSUME NEW f, NEW S
    PROVE  SumFunctionOnSet(f, S) = (CHOOSE g : IsSum(g, f, S))[S]
BY DEF SumFunctionOnSet, FoldFunctionOnSet, MapThenFoldSet, IsSum, SumStep, Chosen

LEMMA SumExists ==
    ASSUME NEW f, NEW S, IsFiniteSet(S)
    PROVE  \E g : IsSum(g, f, S)
<1> DEFINE UpTo(n) == {s \in SUBSET S : Cardinality(s) <= n}
           Defined(g, n) == g = [s \in UpTo(n) |-> SumStep(g, f, s)]
           Missing == {n \in Nat : ~ \E g : Defined(g, n)}
<1>1. \A s \in SUBSET S : IsFiniteSet(s) /\ Cardinality(s) \in Nat /\ Cardinality(s) <= Cardinality(S)
  BY FS_Subset, FS_CardinalityType
<1>2. \A s \in SUBSET S : s # {} => /\ s \ {Chosen(s)} \in SUBSET S
                                    /\ Cardinality(s \ {Chosen(s)}) = Cardinality(s) - 1
  BY <1>1, FS_RemoveElement DEF Chosen
<1>3. Missing = {}
  <2> SUFFICES ASSUME Missing # {} PROVE FALSE
    OBVIOUS
  <2>1. PICK n \in Missing : \A m \in Missing : n <= m
    BY LeastNumber
  <2>2. CASE n = 0
    <3> DEFINE h == [s \in UpTo(0) |-> 0]
    <3>1. \A s \in UpTo(0) : s = {}
      <4> SUFFICES ASSUME NEW s \in UpTo(0) PROVE s = {}
        OBVIOUS
      <4>1. IsFiniteSet(s) /\ Cardinality(s) = 0
        BY <1>1
      <4> QED
        BY <4>1, FS_EmptySet
    <3>2. Defined(h, 0)
      BY <3>1 DEF SumStep
    <3> HIDE DEF h, Defined
    <3> QED
      BY <2>1, <2>2, <3>2
  <2>3. CASE n # 0
    <3>1. n - 1 \in Nat /\ n - 1 \notin Missing
      <4>1. n \in Nat
        OBVIOUS
      <4>2. ~(n <= n - 1) /\ n - 1 \in Nat
        BY <2>3, <4>1
      <4> HIDE DEF Missing
      <4> QED
        BY <2>1, <4>2
    <3>2. PICK g : Defined(g, n - 1)
      BY <3>1
    <3> DEFINE h == [s \in UpTo(n) |-> IF Cardinality(s) <= n - 1 THEN g[s] ELSE SumStep(g, f, s)]
    <3>3. \A s \in UpTo(n - 1) : g[s] = SumStep(g, f, s)
      BY <3>2
    <3>4. \A s \in UpTo(n) : s # {} => s \ {Chosen(s)} \in UpTo(n - 1) /\ s \ {Chosen(s)} \in UpTo(n)
      BY <1>1, <1>2, <3>1
    <3>5. \A s \in UpTo(n) : h[s] = SumStep(g, f, s)
      BY <3>3
    <3>6. \A s \in UpTo(n - 1) : h[s] = g[s]
      BY <1>1, <3>1, <3>3
    <3>7. \A s \in UpTo(n) : h[s] = SumStep(h, f, s)
      <4> SUFFICES ASSUME NEW s \in UpTo(n) PROVE SumStep(h, f, s) = SumStep(g, f, s)
        BY <3>5
      <4> HIDE DEF h
      <4> QED
        BY <3>4, <3>6 DEF SumStep
    <3>8. h = [s \in UpTo(n) |-> SumStep(h, f, s)]
      <4>1. h = [s \in UpTo(n) |-> h[s]]
        OBVIOUS
      <4> HIDE DEF h, UpTo
      <4> QED
        BY <3>7, <4>1
    <3> HIDE DEF h
    <3> QED
      BY <2>1, <3>8
  <2> QED
    BY <2>2, <2>3
<1>4. PICK g : Defined(g, Cardinality(S))
  <2>1. Cardinality(S) \in Nat
    BY FS_CardinalityType
  <2> QED
    BY <1>3, <2>1
<1>5. UpTo(Cardinality(S)) = SUBSET S
  BY <1>1
<1> QED
  BY <1>4, <1>5 DEF IsSum

\* The sum over a set is the same wherever the recursion started.
LEMMA SumUnique ==
    ASSUME NEW f, NEW S, IsFiniteSet(S), NEW T \in SUBSET S,
           NEW g, IsSum(g, f, S), NEW h, IsSum(h, f, T)
    PROVE  g[T] = h[T]
<1> DEFINE Differ == {s \in SUBSET T : g[s] # h[s]}
<1> SUFFICES ASSUME Differ # {} PROVE FALSE
  OBVIOUS
<1>1. PICK s \in Differ : \A x \in s : s \ {x} \notin Differ
  <2>1. IsFiniteSet(T)
    BY FS_Subset
  <2> QED
    BY <2>1, SmallestSubset
<1>2. g[s] = SumStep(g, f, s) /\ h[s] = SumStep(h, f, s)
  BY DEF IsSum
<1>3. CASE s = {}
  BY <1>1, <1>2, <1>3 DEF SumStep
<1>4. CASE s # {}
  <2>1. Chosen(s) \in s
    BY <1>4 DEF Chosen
  <2>2. g[s \ {Chosen(s)}] = h[s \ {Chosen(s)}]
    BY <1>1, <2>1
  <2> QED
    BY <1>1, <1>2, <1>4, <2>2 DEF SumStep
<1> QED
  BY <1>3, <1>4

LEMMA SumRecursion ==
    ASSUME NEW f, NEW S, IsFiniteSet(S)
    PROVE  SumFunctionOnSet(f, S) =
             IF S = {} THEN 0 ELSE f[Chosen(S)] + SumFunctionOnSet(f, S \ {Chosen(S)})
<1> DEFINE g == CHOOSE g : IsSum(g, f, S)
           T == S \ {Chosen(S)}
           h == CHOOSE h : IsSum(h, f, T)
<1>1. IsSum(g, f, S)
  BY SumExists
<1>2. IsFiniteSet(T) /\ T \in SUBSET S
  BY FS_Subset
<1>3. IsSum(h, f, T)
  BY <1>2, SumExists
<1>4. SumFunctionOnSet(f, S) = g[S] /\ SumFunctionOnSet(f, T) = h[T]
  BY SumUnfolds
<1> HIDE DEF g, h
<1>5. g[S] = SumStep(g, f, S)
  BY <1>1 DEF IsSum
<1>6. g[T] = h[T]
  BY <1>1, <1>2, <1>3, SumUnique
<1> QED
  BY <1>4, <1>5, <1>6 DEF SumStep

-------------------------------------------------------------------------------
LEMMA SumOfNone == \A f : SumFunctionOnSet(f, {}) = 0
BY SumRecursion, FS_EmptySet

LEMMA SumIsInt ==
    ASSUME NEW S, IsFiniteSet(S), NEW f, \A x \in S : f[x] \in Int
    PROVE  SumFunctionOnSet(f, S) \in Int
<1> DEFINE Bad == {s \in SUBSET S : SumFunctionOnSet(f, s) \notin Int}
<1> SUFFICES ASSUME Bad # {} PROVE FALSE
  OBVIOUS
<1>1. PICK s \in Bad : \A x \in s : s \ {x} \notin Bad
  BY SmallestSubset
<1>2. IsFiniteSet(s)
  BY FS_Subset
<1>3. s # {} => Chosen(s) \in s
  BY DEF Chosen
<1>4. CASE s = {}
  <2>1. SumFunctionOnSet(f, s) = 0
    BY <1>2, <1>4, SumRecursion
  <2> QED
    BY <1>1, <2>1
<1>5. CASE s # {}
  <2>1. s \ {Chosen(s)} \notin Bad /\ s \ {Chosen(s)} \in SUBSET S /\ f[Chosen(s)] \in Int
    BY <1>1, <1>3, <1>5
  <2>2. SumFunctionOnSet(f, s \ {Chosen(s)}) \in Int
    BY <2>1
  <2>3. SumFunctionOnSet(f, s) = f[Chosen(s)] + SumFunctionOnSet(f, s \ {Chosen(s)})
    BY <1>2, <1>5, SumRecursion
  <2>4. f[Chosen(s)] + SumFunctionOnSet(f, s \ {Chosen(s)}) \in Int
    BY <2>1, <2>2
  <2> QED
    BY <1>1, <2>3, <2>4
<1> QED
  BY <1>4, <1>5

LEMMA SumIsNat ==
    ASSUME NEW S, IsFiniteSet(S), NEW f, \A x \in S : f[x] \in Nat
    PROVE  SumFunctionOnSet(f, S) \in Nat
<1> DEFINE Bad == {s \in SUBSET S : SumFunctionOnSet(f, s) \notin Nat}
<1> SUFFICES ASSUME Bad # {} PROVE FALSE
  OBVIOUS
<1>1. PICK s \in Bad : \A x \in s : s \ {x} \notin Bad
  BY SmallestSubset
<1>2. IsFiniteSet(s)
  BY FS_Subset
<1>3. s # {} => Chosen(s) \in s
  BY DEF Chosen
<1>4. CASE s = {}
  <2>1. SumFunctionOnSet(f, s) = 0
    BY <1>2, <1>4, SumRecursion
  <2> QED
    BY <1>1, <2>1
<1>5. CASE s # {}
  <2>1. s \ {Chosen(s)} \notin Bad /\ s \ {Chosen(s)} \in SUBSET S /\ f[Chosen(s)] \in Nat
    BY <1>1, <1>3, <1>5
  <2>2. SumFunctionOnSet(f, s \ {Chosen(s)}) \in Nat
    BY <2>1
  <2>3. SumFunctionOnSet(f, s) = f[Chosen(s)] + SumFunctionOnSet(f, s \ {Chosen(s)})
    BY <1>2, <1>5, SumRecursion
  <2>4. f[Chosen(s)] + SumFunctionOnSet(f, s \ {Chosen(s)}) \in Nat
    BY <2>1, <2>2
  <2> QED
    BY <1>1, <2>3, <2>4
<1> QED
  BY <1>4, <1>5

\* Any element may be taken out first.
LEMMA SumWithout ==
    ASSUME NEW S, IsFiniteSet(S), NEW f, \A x \in S : f[x] \in Int, NEW y \in S
    PROVE  SumFunctionOnSet(f, S) = f[y] + SumFunctionOnSet(f, S \ {y})
<1> DEFINE Splits(s, z) == SumFunctionOnSet(f, s) = f[z] + SumFunctionOnSet(f, s \ {z})
           Bad == {s \in SUBSET S : \E z \in s : ~Splits(s, z)}
<1> SUFFICES ASSUME Bad # {} PROVE FALSE
  OBVIOUS
<1>1. PICK s \in Bad : \A x \in s : s \ {x} \notin Bad
  BY SmallestSubset
<1>2. PICK z \in s : ~Splits(s, z)
  BY <1>1
<1> DEFINE c == Chosen(s)
<1>3. c \in s
  BY <1>2 DEF Chosen
<1>4. IsFiniteSet(s) /\ s \in SUBSET S
  BY FS_Subset
<1>5. Splits(s, c)
  BY <1>2, <1>4, SumRecursion
<1>6. z # c
  BY <1>2, <1>5
<1>7. z \in s \ {c} /\ c \in s \ {z} /\ s \ {c} \in SUBSET S /\ s \ {z} \in SUBSET S
  BY <1>2, <1>3, <1>4, <1>6
<1>8. Splits(s \ {c}, z) /\ Splits(s \ {z}, c)
  BY <1>1, <1>2, <1>3, <1>7
<1>9. (s \ {c}) \ {z} = (s \ {z}) \ {c}
  OBVIOUS
<1>10. SumFunctionOnSet(f, (s \ {c}) \ {z}) \in Int /\ f[z] \in Int /\ f[c] \in Int
  <2>1. IsFiniteSet((s \ {c}) \ {z}) /\ \A x \in (s \ {c}) \ {z} : f[x] \in Int
    BY <1>4, FS_RemoveElement
  <2> QED
    BY <1>2, <1>3, <1>4, <2>1, SumIsInt
<1> HIDE DEF c
<1> QED
  BY <1>2, <1>5, <1>8, <1>9, <1>10

LEMMA SumWith ==
    ASSUME NEW S, IsFiniteSet(S), NEW f, NEW y, y \notin S, \A x \in S \cup {y} : f[x] \in Int
    PROVE  SumFunctionOnSet(f, S \cup {y}) = f[y] + SumFunctionOnSet(f, S)
<1>1. IsFiniteSet(S \cup {y})
  BY FS_AddElement
<1>2. (S \cup {y}) \ {y} = S
  OBVIOUS
<1>3. SumFunctionOnSet(f, S \cup {y}) = f[y] + SumFunctionOnSet(f, (S \cup {y}) \ {y})
  BY <1>1, SumWithout
<1> QED
  BY <1>2, <1>3

\* Only the values on the set count.
LEMMA SumOfEqual ==
    ASSUME NEW S, IsFiniteSet(S), NEW f, NEW g, \A x \in S : f[x] = g[x]
    PROVE  SumFunctionOnSet(f, S) = SumFunctionOnSet(g, S)
<1> DEFINE Bad == {s \in SUBSET S : SumFunctionOnSet(f, s) # SumFunctionOnSet(g, s)}
<1> SUFFICES ASSUME Bad # {} PROVE FALSE
  OBVIOUS
<1>1. PICK s \in Bad : \A x \in s : s \ {x} \notin Bad
  BY SmallestSubset
<1>2. IsFiniteSet(s)
  BY FS_Subset
<1>3. s # {} => Chosen(s) \in s /\ s \ {Chosen(s)} \notin Bad
  BY <1>1 DEF Chosen
<1> QED
  BY <1>1, <1>2, <1>3, SumRecursion

\* f and g are the same on S but at y.
ChangesAt(S, f, g, y) ==
    /\ y \in S
    /\ \A x \in S : f[x] \in Int /\ g[x] \in Int
    /\ \A x \in S \ {y} : f[x] = g[x]

\* One value changes, and the sum by as much.
LEMMA SumWithOneChanged ==
    ASSUME NEW S, IsFiniteSet(S), NEW f, NEW g, NEW y, ChangesAt(S, f, g, y)
    PROVE  SumFunctionOnSet(g, S) = SumFunctionOnSet(f, S) - f[y] + g[y]
<1>0. /\ y \in S /\ f[y] \in Int /\ g[y] \in Int
      /\ \A x \in S : f[x] \in Int
      /\ \A x \in S : g[x] \in Int
      /\ \A x \in S \ {y} : f[x] = g[x]
  BY DEF ChangesAt
<1>1. IsFiniteSet(S \ {y})
  BY FS_RemoveElement
<1>2. SumFunctionOnSet(f, S \ {y}) = SumFunctionOnSet(g, S \ {y})
  BY <1>0, <1>1, SumOfEqual
<1>3. SumFunctionOnSet(f, S \ {y}) \in Int
  BY <1>0, <1>1, SumIsInt
<1>4. SumFunctionOnSet(f, S) = f[y] + SumFunctionOnSet(f, S \ {y})
  BY <1>0, SumWithout
<1>5. SumFunctionOnSet(g, S) = g[y] + SumFunctionOnSet(g, S \ {y})
  BY <1>0, SumWithout
<1> QED
  BY <1>0, <1>2, <1>3, <1>4, <1>5

LEMMA SumAtMost ==
    ASSUME NEW S, IsFiniteSet(S), NEW f, NEW g,
           \A x \in S : f[x] \in Int /\ g[x] \in Int /\ f[x] <= g[x]
    PROVE  SumFunctionOnSet(f, S) <= SumFunctionOnSet(g, S)
<1> DEFINE Bad == {s \in SUBSET S : ~(SumFunctionOnSet(f, s) <= SumFunctionOnSet(g, s))}
<1> SUFFICES ASSUME Bad # {} PROVE FALSE
  OBVIOUS
<1>1. PICK s \in Bad : \A x \in s : s \ {x} \notin Bad
  BY SmallestSubset
<1>2. CASE s = {}
  BY <1>1, <1>2, SumOfNone
<1>3. CASE s # {}
  <2>1. PICK x \in s : TRUE
    BY <1>3
  <2>2. IsFiniteSet(s) /\ IsFiniteSet(s \ {x}) /\ s \ {x} \in SUBSET S
    BY FS_Subset
  <2>3. SumFunctionOnSet(f, s) = f[x] + SumFunctionOnSet(f, s \ {x})
    BY <2>2, SumWithout
  <2>4. SumFunctionOnSet(g, s) = g[x] + SumFunctionOnSet(g, s \ {x})
    BY <2>2, SumWithout
  <2>5. SumFunctionOnSet(f, s \ {x}) \in Int /\ SumFunctionOnSet(g, s \ {x}) \in Int
    BY <2>2, SumIsInt
  <2>6. SumFunctionOnSet(f, s \ {x}) <= SumFunctionOnSet(g, s \ {x})
    BY <1>1, <2>2
  <2> QED
    BY <1>1, <2>3, <2>4, <2>5, <2>6
<1> QED
  BY <1>2, <1>3

LEMMA SumOfTwoParts ==
    ASSUME NEW S, IsFiniteSet(S), NEW T, IsFiniteSet(T), S \cap T = {}, NEW f,
           \A x \in S \cup T : f[x] \in Int
    PROVE  SumFunctionOnSet(f, S \cup T) = SumFunctionOnSet(f, S) + SumFunctionOnSet(f, T)
<1> DEFINE Adds(s) == SumFunctionOnSet(f, S \cup s) = SumFunctionOnSet(f, S) + SumFunctionOnSet(f, s)
           Bad == {s \in SUBSET T : ~Adds(s)}
<1> SUFFICES ASSUME Bad # {} PROVE FALSE
  OBVIOUS
<1>1. PICK s \in Bad : \A x \in s : s \ {x} \notin Bad
  BY SmallestSubset
<1>2. SumFunctionOnSet(f, S) \in Int
  BY SumIsInt
<1>3. CASE s = {}
  <2>1. S \cup s = S
    BY <1>3
  <2> QED
    BY <1>1, <1>2, <1>3, <2>1, SumOfNone
<1>4. CASE s # {}
  <2>1. PICK x \in s : TRUE
    BY <1>4
  <2>2. IsFiniteSet(s) /\ IsFiniteSet(s \ {x}) /\ s \ {x} \in SUBSET T
    BY FS_Subset
  <2>3. IsFiniteSet(S \cup s) /\ x \in S \cup s
    BY <2>1, <2>2, FS_Union
  <2>4. (S \cup s) \ {x} = S \cup (s \ {x})
    BY <2>1
  <2>5. SumFunctionOnSet(f, S \cup s) = f[x] + SumFunctionOnSet(f, S \cup (s \ {x}))
    BY <2>3, <2>4, SumWithout
  <2>6. SumFunctionOnSet(f, s) = f[x] + SumFunctionOnSet(f, s \ {x})
    BY <2>2, SumWithout
  <2>7. Adds(s \ {x})
    BY <1>1, <2>2
  <2>8. SumFunctionOnSet(f, s \ {x}) \in Int /\ f[x] \in Int
    BY <2>2, SumIsInt
  <2> QED
    BY <1>1, <1>2, <2>5, <2>6, <2>7, <2>8
<1> QED
  BY <1>3, <1>4

\* Fewer amounts come to no more.
LEMMA SumOfSubset ==
    ASSUME NEW S, IsFiniteSet(S), NEW T \in SUBSET S, NEW f, \A x \in S : f[x] \in Nat
    PROVE  SumFunctionOnSet(f, T) <= SumFunctionOnSet(f, S)
<1>1. IsFiniteSet(T) /\ IsFiniteSet(S \ T) /\ T \cup (S \ T) = S
  BY FS_Subset
<1>2. SumFunctionOnSet(f, S) = SumFunctionOnSet(f, T) + SumFunctionOnSet(f, S \ T)
  BY <1>1, SumOfTwoParts
<1>3. SumFunctionOnSet(f, T) \in Nat /\ SumFunctionOnSet(f, S \ T) \in Nat
  BY <1>1, SumIsNat
<1> QED
  BY <1>2, <1>3

LEMMA SumOfNothings ==
    ASSUME NEW S, IsFiniteSet(S), NEW f, \A x \in S : f[x] = 0
    PROVE  SumFunctionOnSet(f, S) = 0
<1> DEFINE Bad == {s \in SUBSET S : SumFunctionOnSet(f, s) # 0}
<1> SUFFICES ASSUME Bad # {} PROVE FALSE
  OBVIOUS
<1>1. PICK s \in Bad : \A x \in s : s \ {x} \notin Bad
  BY SmallestSubset
<1>2. IsFiniteSet(s)
  BY FS_Subset
<1>3. s # {} => Chosen(s) \in s /\ s \ {Chosen(s)} \notin Bad
  BY <1>1 DEF Chosen
<1> QED
  BY <1>1, <1>2, <1>3, SumRecursion

\* h adds f and g up, or takes c times f, on every element of S.
AddsOn(S, h, f, g) == \A x \in S : f[x] \in Int /\ g[x] \in Int /\ h[x] = f[x] + g[x]
ScalesOn(S, h, c, f) == \A x \in S : f[x] \in Int /\ h[x] = c * f[x]

LEMMA SumOfSums ==
    ASSUME NEW S, IsFiniteSet(S), NEW f, NEW g, NEW h, AddsOn(S, h, f, g)
    PROVE  SumFunctionOnSet(h, S) = SumFunctionOnSet(f, S) + SumFunctionOnSet(g, S)
<1> DEFINE Adds(s) == SumFunctionOnSet(h, s) = SumFunctionOnSet(f, s) + SumFunctionOnSet(g, s)
           Bad == {s \in SUBSET S : ~Adds(s)}
<1> SUFFICES ASSUME Bad # {} PROVE FALSE
  OBVIOUS
<1>1. PICK s \in Bad : \A x \in s : s \ {x} \notin Bad
  BY SmallestSubset
<1>2. CASE s = {}
  BY <1>1, <1>2, SumOfNone
<1>3. CASE s # {}
  <2>1. PICK x \in s : TRUE
    BY <1>3
  <2>2. IsFiniteSet(s) /\ IsFiniteSet(s \ {x}) /\ s \ {x} \in SUBSET S
    BY FS_Subset
  <2>3. \A y \in s : f[y] \in Int /\ g[y] \in Int /\ h[y] \in Int
    BY DEF AddsOn
  <2>4. SumFunctionOnSet(f, s) = f[x] + SumFunctionOnSet(f, s \ {x})
    BY <2>2, <2>3, SumWithout
  <2>5. SumFunctionOnSet(g, s) = g[x] + SumFunctionOnSet(g, s \ {x})
    BY <2>2, <2>3, SumWithout
  <2>6. SumFunctionOnSet(h, s) = h[x] + SumFunctionOnSet(h, s \ {x})
    BY <2>2, <2>3, SumWithout
  <2>7. SumFunctionOnSet(f, s \ {x}) \in Int /\ SumFunctionOnSet(g, s \ {x}) \in Int
    BY <2>2, <2>3, SumIsInt
  <2>8. Adds(s \ {x}) /\ h[x] = f[x] + g[x] /\ f[x] \in Int /\ g[x] \in Int
    BY <1>1, <2>1, <2>2 DEF AddsOn
  <2> QED
    BY <1>1, <2>4, <2>5, <2>6, <2>7, <2>8
<1> QED
  BY <1>2, <1>3

LEMMA SumScaled ==
    ASSUME NEW S, IsFiniteSet(S), NEW f, NEW h, NEW c \in Int,
           ScalesOn(S, h, c, f)
    PROVE  SumFunctionOnSet(h, S) = c * SumFunctionOnSet(f, S)
<1> DEFINE Scales(s) == SumFunctionOnSet(h, s) = c * SumFunctionOnSet(f, s)
           Bad == {s \in SUBSET S : ~Scales(s)}
<1> SUFFICES ASSUME Bad # {} PROVE FALSE
  OBVIOUS
<1>1. PICK s \in Bad : \A x \in s : s \ {x} \notin Bad
  BY SmallestSubset
<1>2. CASE s = {}
  <2>1. SumFunctionOnSet(h, s) = 0 /\ SumFunctionOnSet(f, s) = 0
    BY <1>2, SumOfNone
  <2> QED
    BY <1>1, <2>1
<1>3. CASE s # {}
  <2>1. PICK x \in s : TRUE
    BY <1>3
  <2>2. IsFiniteSet(s) /\ IsFiniteSet(s \ {x}) /\ s \ {x} \in SUBSET S
    BY FS_Subset
  <2>3. \A y \in s : f[y] \in Int /\ h[y] \in Int
    BY DEF ScalesOn
  <2>4. SumFunctionOnSet(f, s) = f[x] + SumFunctionOnSet(f, s \ {x})
    BY <2>2, <2>3, SumWithout
  <2>5. SumFunctionOnSet(h, s) = h[x] + SumFunctionOnSet(h, s \ {x})
    BY <2>2, <2>3, SumWithout
  <2>6. SumFunctionOnSet(f, s \ {x}) \in Int
    BY <2>2, <2>3, SumIsInt
  <2>7. Scales(s \ {x}) /\ h[x] = c * f[x] /\ f[x] \in Int
    BY <1>1, <2>1, <2>2 DEF ScalesOn
  <2>8. \A a, b \in Int : c * (a + b) = c * a + c * b
    OBVIOUS
  <2>9. c * SumFunctionOnSet(f, s) = c * f[x] + c * SumFunctionOnSet(f, s \ {x})
    BY <2>4, <2>6, <2>7, <2>8
  <2> QED
    BY <1>1, <2>5, <2>7, <2>9
<1> QED
  BY <1>2, <1>3

\* Each element counts c: their sum is as many times c.
LEMMA SumOfConstant ==
    ASSUME NEW S, IsFiniteSet(S), NEW f, NEW c \in Int, \A x \in S : f[x] = c
    PROVE  SumFunctionOnSet(f, S) = c * Cardinality(S)
<1> DEFINE Counts(s) == SumFunctionOnSet(f, s) = c * Cardinality(s)
           Bad == {s \in SUBSET S : ~Counts(s)}
<1> SUFFICES ASSUME Bad # {} PROVE FALSE
  OBVIOUS
<1>1. PICK s \in Bad : \A x \in s : s \ {x} \notin Bad
  BY SmallestSubset
<1>2. CASE s = {}
  <2>1. SumFunctionOnSet(f, s) = 0 /\ Cardinality(s) = 0
    BY <1>2, SumOfNone, FS_EmptySet
  <2> QED
    BY <1>1, <2>1
<1>3. CASE s # {}
  <2>1. PICK x \in s : TRUE
    BY <1>3
  <2>2. IsFiniteSet(s) /\ IsFiniteSet(s \ {x}) /\ s \ {x} \in SUBSET S
    BY FS_Subset
  <2>3. SumFunctionOnSet(f, s) = f[x] + SumFunctionOnSet(f, s \ {x})
    BY <2>2, SumWithout
  <2>4. Cardinality(s \ {x}) = Cardinality(s) - 1 /\ Cardinality(s) \in Nat
    BY <2>1, <2>2, FS_RemoveElement, FS_CardinalityType
  <2>5. Counts(s \ {x}) /\ f[x] = c
    BY <1>1, <2>1, <2>2
  <2>6. c * Cardinality(s) = c + c * (Cardinality(s) - 1)
    BY <2>4
  <2> QED
    BY <1>1, <2>3, <2>4, <2>5, <2>6
<1> QED
  BY <1>2, <1>3

\* Those that count one among those that count nothing.
LEMMA SumOfOnes ==
    ASSUME NEW S, IsFiniteSet(S), NEW A \in SUBSET S, NEW f,
           \A x \in S : f[x] = IF x \in A THEN 1 ELSE 0
    PROVE  SumFunctionOnSet(f, S) = Cardinality(A)
<1>1. IsFiniteSet(A) /\ IsFiniteSet(S \ A) /\ A \cup (S \ A) = S
  BY FS_Subset
<1>2. SumFunctionOnSet(f, S) = SumFunctionOnSet(f, A) + SumFunctionOnSet(f, S \ A)
  BY <1>1, SumOfTwoParts
<1>3. SumFunctionOnSet(f, A) = 1 * Cardinality(A)
  BY <1>1, SumOfConstant
<1>4. SumFunctionOnSet(f, S \ A) = 0
  BY <1>1, SumOfNothings
<1>5. Cardinality(A) \in Nat
  BY <1>1, FS_CardinalityType
<1> QED
  BY <1>2, <1>3, <1>4, <1>5

-------------------------------------------------------------------------------
(***************************************************************************)
(* Dividing an amount                                                      *)
(***************************************************************************)
LEMMA TotalIs == \A f : Total(f) = SumFunctionOnSet(f, DOMAIN f)
BY DEF Total, SumFunction

LEMMA CancelFactor ==
    ASSUME NEW c \in Nat \ {0}, NEW a \in Int, NEW b \in Int
    PROVE  /\ c * a <= c * b => a <= b
           /\ c * a < c * b => a < b
OBVIOUS

LEMMA Quotient ==
    ASSUME NEW n \in Nat, NEW d \in Nat \ {0}
    PROVE  n \div d \in Nat /\ n % d \in Nat /\ n % d < d /\ n = d * (n \div d) + (n % d)
OBVIOUS

-------------------------------------------------------------------------------
(* Who comes first *)

Ahead(before, s, i) == {j \in s : <<j, i>> \in before}
First(before, s, k) == {i \in s : Cardinality(Ahead(before, s, i)) < k}

\* Of any two elements exactly one is before the other.
StrictOrder(before, S) ==
    /\ \A i \in S : <<i, i>> \notin before
    /\ \A i, j \in S : i # j => (<<i, j>> \in before <=> <<j, i>> \notin before)
    /\ \A i, j, k \in S : <<i, j>> \in before /\ <<j, k>> \in before => <<i, k>> \in before

LEMMA OneIsLast ==
    ASSUME NEW S, IsFiniteSet(S), S # {}, NEW before, StrictOrder(before, S)
    PROVE  \E m \in S : \A i \in S \ {m} : <<i, m>> \in before
<1> DEFINE HasLast(s) == \E m \in s : \A i \in s \ {m} : <<i, m>> \in before
           Bad == {s \in SUBSET S : s # {} /\ ~HasLast(s)}
<1> SUFFICES ASSUME Bad # {} PROVE FALSE
  OBVIOUS
<1>1. PICK s \in Bad : \A x \in s : s \ {x} \notin Bad
  BY SmallestSubset
<1>2. PICK x \in s : TRUE
  BY <1>1
<1>3. CASE s = {x}
  BY <1>1, <1>3
<1>4. CASE s # {x}
  <2>1. s \ {x} # {} /\ s \ {x} \in SUBSET S
    BY <1>2, <1>4
  <2>2. PICK m \in s \ {x} : \A i \in (s \ {x}) \ {m} : <<i, m>> \in before
    BY <1>1, <1>2, <2>1
  <2>3. CASE <<x, m>> \in before
    <3>1. \A i \in s \ {m} : <<i, m>> \in before
      BY <2>2, <2>3
    <3> QED
      BY <1>1, <2>2, <3>1
  <2>4. CASE <<x, m>> \notin before
    <3>1. <<m, x>> \in before
      BY <1>1, <1>2, <2>2, <2>4 DEF StrictOrder
    <3>2. \A i \in s \ {x} : <<i, x>> \in before
      BY <1>1, <1>2, <2>2, <3>1 DEF StrictOrder
    <3> QED
      BY <1>1, <1>2, <3>2
  <2> QED
    BY <2>3, <2>4
<1> QED
  BY <1>3, <1>4

\* The ranks are 0, 1, 2 and so on: k elements have fewer than k before them.
LEMMA FirstOnes ==
    ASSUME NEW S, IsFiniteSet(S), NEW before, StrictOrder(before, S), NEW k \in 0..Cardinality(S)
    PROVE  Cardinality(First(before, S, k)) = k
<1> DEFINE Ranked(s) == \A n \in 0..Cardinality(s) : Cardinality(First(before, s, n)) = n
           Bad == {s \in SUBSET S : ~Ranked(s)}
<1> SUFFICES ASSUME Bad # {} PROVE FALSE
  OBVIOUS
<1>1. PICK s \in Bad : \A x \in s : s \ {x} \notin Bad
  BY SmallestSubset
<1>2. IsFiniteSet(s) /\ Cardinality(s) \in Nat
  BY FS_Subset, FS_CardinalityType
<1>3. CASE s = {}
  <2>1. Cardinality(s) = 0 /\ \A n : First(before, s, n) = {}
    BY <1>3, FS_EmptySet DEF First
  <2> QED
    BY <1>1, <2>1, FS_EmptySet
<1>4. CASE s # {}
  <2>1. PICK m \in s : \A i \in s \ {m} : <<i, m>> \in before
    <3>1. StrictOrder(before, s)
      BY DEF StrictOrder
    <3> QED
      BY <1>2, <1>4, <3>1, OneIsLast
  <2> DEFINE t == s \ {m}
  <2>2. IsFiniteSet(t) /\ Cardinality(t) = Cardinality(s) - 1 /\ t \in SUBSET S
    BY <1>2, <2>1, FS_RemoveElement
  <2>3. Ahead(before, s, m) = t
    BY <1>1, <2>1 DEF Ahead, StrictOrder
  <2>4. \A i \in t : Ahead(before, s, i) = Ahead(before, t, i)
    BY <1>1, <2>1 DEF Ahead, StrictOrder
  <2>5. \A i \in t : Cardinality(Ahead(before, t, i)) \in Nat /\ Cardinality(Ahead(before, t, i)) <= Cardinality(t)
    <3> SUFFICES ASSUME NEW i \in t
                 PROVE  /\ Cardinality(Ahead(before, t, i)) \in Nat
                        /\ Cardinality(Ahead(before, t, i)) <= Cardinality(t)
      OBVIOUS
    <3>1. Ahead(before, t, i) \in SUBSET t
      BY DEF Ahead
    <3> QED
      BY <2>2, <3>1, FS_Subset, FS_CardinalityType
  <2>6. \A n \in 0..Cardinality(t) : Cardinality(First(before, s, n)) = n
    <3> SUFFICES ASSUME NEW n \in 0..Cardinality(t) PROVE Cardinality(First(before, s, n)) = n
      OBVIOUS
    <3>1. First(before, s, n) = First(before, t, n)
      <4>1. ~(Cardinality(Ahead(before, s, m)) < n)
        BY <1>2, <2>2, <2>3
      <4> HIDE DEF t
      <4>2. s = t \cup {m} /\ m \notin t
        BY <2>1 DEF t
      <4> QED
        BY <2>4, <4>1, <4>2 DEF First
    <3>2. Ranked(t)
      BY <1>1, <2>1, <2>2
    <3> QED
      BY <3>1, <3>2
  <2>7. First(before, s, Cardinality(s)) = s
    <3>1. Cardinality(t) < Cardinality(s) /\ Cardinality(t) \in Nat
      BY <1>2, <2>2, FS_CardinalityType
    <3>2. \A i \in s : Cardinality(Ahead(before, s, i)) < Cardinality(s)
      <4> SUFFICES ASSUME NEW i \in s PROVE Cardinality(Ahead(before, s, i)) < Cardinality(s)
        OBVIOUS
      <4>1. CASE i = m
        BY <2>3, <3>1, <4>1
      <4>2. CASE i \in t
        BY <1>2, <2>4, <2>5, <3>1, <4>2
      <4> QED
        BY <4>1, <4>2
    <3> QED
      BY <3>2 DEF First
  <2>8. \A n \in 0..Cardinality(s) : n \in 0..Cardinality(t) \/ n = Cardinality(s)
    BY <1>2, <2>2
  <2>9. Ranked(s)
    BY <2>6, <2>7, <2>8
  <2> QED
    BY <1>1, <2>9
<1> QED
  BY <1>3, <1>4

-------------------------------------------------------------------------------
(* The dust *)

Served(rest) == {p \in (DOMAIN rest) \X (DOMAIN rest) : ServedBefore(rest, p[1], p[2])}

\* Indices that the first k paise of the dust go to.
Lucky(rest, k) == {i \in DOMAIN rest : Cardinality({j \in DOMAIN rest : ServedBefore(rest, j, i)}) < k}

LEMMA ServedOrders ==
    ASSUME NEW D \in SUBSET Int, NEW rest \in [D -> Int]
    PROVE  StrictOrder(Served(rest), D)
BY DEF StrictOrder, Served, ServedBefore

LEMMA LuckyOnes ==
    ASSUME NEW D \in SUBSET Int, IsFiniteSet(D), NEW rest \in [D -> Int], NEW k \in 0..Cardinality(D)
    PROVE  Cardinality(Lucky(rest, k)) = k
<1>1. Lucky(rest, k) = First(Served(rest), D, k)
  <2>1. \A i \in D : {j \in DOMAIN rest : ServedBefore(rest, j, i)} = Ahead(Served(rest), D, i)
    BY DEF Served, Ahead
  <2> QED
    BY <2>1 DEF Lucky, First
<1> QED
  BY <1>1, ServedOrders, FirstOnes

\* With no more dust than parts that have a rest, only those receive any.
LEMMA LuckyHaveRest ==
    ASSUME NEW D \in SUBSET Int, IsFiniteSet(D), NEW rest \in [D -> Nat],
           NEW k \in Nat, k <= Cardinality({i \in D : rest[i] > 0})
    PROVE  \A i \in Lucky(rest, k) : rest[i] > 0
<1> SUFFICES ASSUME NEW i \in Lucky(rest, k), ~(rest[i] > 0) PROVE FALSE
  OBVIOUS
<1> DEFINE before == {j \in DOMAIN rest : ServedBefore(rest, j, i)}
           with == {j \in D : rest[j] > 0}
<1>1. i \in D /\ Cardinality(before) < k
  BY DEF Lucky
<1>2. with \subseteq before
  BY <1>1 DEF ServedBefore
<1>3. IsFiniteSet(before)
  BY FS_Subset
<1>4. Cardinality(with) <= Cardinality(before) /\ Cardinality(with) \in Nat /\ Cardinality(before) \in Nat
  BY <1>2, <1>3, FS_Subset, FS_CardinalityType
<1> QED
  BY <1>1, <1>4

LEMMA DustGoesOut ==
    ASSUME NEW D \in SUBSET Int, IsFiniteSet(D), NEW shares \in [D -> Int],
           NEW rest \in [D -> Int], NEW dust \in 0..Cardinality(D)
    PROVE  /\ WithDust(shares, rest, dust) =
                [i \in D |-> shares[i] + IF i \in Lucky(rest, dust) THEN 1 ELSE 0]
           /\ Total(WithDust(shares, rest, dust)) = Total(shares) + dust
<1> DEFINE ones == [i \in D |-> IF i \in Lucky(rest, dust) THEN 1 ELSE 0]
           placed == WithDust(shares, rest, dust)
<1>1. placed = [i \in D |-> shares[i] + ones[i]]
  <2>1. \A i \in D : i \in Lucky(rest, dust) <=>
                       Cardinality({j \in DOMAIN rest : ServedBefore(rest, j, i)}) < dust
    BY DEF Lucky
  <2>2. \A i \in D : ones[i] = IF i \in Lucky(rest, dust) THEN 1 ELSE 0
    OBVIOUS
  <2> HIDE DEF ones
  <2>3. placed = [i \in D |-> shares[i] + IF i \in D /\ Cardinality({j \in DOMAIN rest : ServedBefore(rest, j, i)}) < dust
                                          THEN 1 ELSE 0]
    BY DEF WithDust
  <2> QED
    BY <2>1, <2>2, <2>3
<1>2. Lucky(rest, dust) \in SUBSET D
  BY DEF Lucky
<1>3. SumFunctionOnSet(ones, D) = dust
  <2>1. \A i \in D : ones[i] = IF i \in Lucky(rest, dust) THEN 1 ELSE 0
    OBVIOUS
  <2> HIDE DEF ones
  <2>2. SumFunctionOnSet(ones, D) = Cardinality(Lucky(rest, dust))
    BY <1>2, <2>1, SumOfOnes
  <2> QED
    BY <2>2, LuckyOnes
<1>4. \A i \in D : shares[i] \in Int /\ ones[i] \in Int /\ placed[i] = shares[i] + ones[i]
  BY <1>1
<1>5. DOMAIN placed = D /\ DOMAIN shares = D
  BY <1>1
<1> HIDE DEF placed, ones
<1>6. SumFunctionOnSet(placed, D) = SumFunctionOnSet(shares, D) + SumFunctionOnSet(ones, D)
  BY ZenonT(30), <1>4, SumOfSums DEF AddsOn
<1>7. Total(placed) = Total(shares) + dust
  BY <1>3, <1>5, <1>6, TotalIs
<1> QED
  BY <1>1, <1>7 DEF placed, ones

-------------------------------------------------------------------------------
(* allocateProportionally *)

\* Rounded down, the shares leave no more paise than there are parts with a rest.
LEMMA SharesLeaveDust ==
    ASSUME NEW D \in SUBSET Int, IsFiniteSet(D), NEW weight \in [D -> Nat], NEW size \in Nat,
           NEW all \in Nat \ {0}, all = SumFunctionOnSet(weight, D),
           NEW shares \in [D -> Nat], NEW rest \in [D -> Nat],
           \A i \in D : size * weight[i] = all * shares[i] + rest[i] /\ rest[i] < all
    PROVE  size - SumFunctionOnSet(shares, D) \in 0..Cardinality({i \in D : rest[i] > 0})
<1> DEFINE P == {i \in D : rest[i] > 0}
           scaled == [i \in D |-> size * weight[i]]
           whole == [i \in D |-> all * shares[i]]
           ones == [i \in D |-> IF i \in P THEN 1 ELSE 0]
           bound == [i \in D |-> all * ones[i]]
           sum == SumFunctionOnSet(shares, D)
           over == SumFunctionOnSet(rest, D)
<1>1. sum \in Nat /\ over \in Nat
  BY SumIsNat
<1>2. /\ ScalesOn(D, scaled, size, weight)
      /\ ScalesOn(D, whole, all, shares)
      /\ ScalesOn(D, bound, all, ones)
      /\ AddsOn(D, scaled, whole, rest)
      /\ \A i \in D : ones[i] = IF i \in P THEN 1 ELSE 0
      /\ \A i \in D : rest[i] \in Int /\ bound[i] \in Int /\ rest[i] <= bound[i]
  BY DEF ScalesOn, AddsOn
<1> HIDE DEF scaled, whole, ones, bound
<1>3. SumFunctionOnSet(scaled, D) = size * all
  <2>1. SumFunctionOnSet(scaled, D) = size * SumFunctionOnSet(weight, D)
    BY <1>2, SumScaled
  <2> QED
    BY <2>1
<1>4. SumFunctionOnSet(whole, D) = all * sum
  BY <1>2, SumScaled
<1>5. SumFunctionOnSet(scaled, D) = SumFunctionOnSet(whole, D) + over
  BY <1>2, SumOfSums
<1>6. over = all * (size - sum)
  <2>1. size * all = all * sum + over
    BY <1>3, <1>4, <1>5
  <2>2. all * (size - sum) = size * all - all * sum
    BY <1>1
  <2>3. size * all \in Int /\ all * sum \in Int
    BY <1>1
  <2> HIDE DEF sum, over
  <2> QED
    BY <1>1, <2>1, <2>2, <2>3
<1>7. over <= all * Cardinality(P) /\ Cardinality(P) \in Nat
  <2>1. SumFunctionOnSet(bound, D) = all * SumFunctionOnSet(ones, D)
    BY <1>2, SumScaled
  <2>2. SumFunctionOnSet(ones, D) = Cardinality(P)
    BY <1>2, SumOfOnes
  <2>3. over <= SumFunctionOnSet(bound, D)
    BY <1>2, SumAtMost
  <2>4. Cardinality(P) \in Nat
    BY FS_Subset, FS_CardinalityType
  <2> QED
    BY <2>1, <2>2, <2>3, <2>4
<1>8. size - sum <= Cardinality(P) /\ 0 <= size - sum
  <2> DEFINE dust == size - sum
  <2>1. dust \in Int
    BY <1>1
  <2>2. all * dust <= all * Cardinality(P) /\ all * 0 <= all * dust
    BY <1>1, <1>6, <1>7
  <2> HIDE DEF dust
  <2>3. dust <= Cardinality(P) /\ 0 <= dust
    BY <1>7, <2>1, <2>2, CancelFactor
  <2> QED
    BY <2>3 DEF dust
<1> HIDE DEF sum
<1> QED
  BY <1>1, <1>7, <1>8 DEF sum

\* A share and its rest, and the share with a paisa of dust.
LEMMA NearShare ==
    \A c, s, w, r \in Int : w = s + r /\ 0 <= r /\ r < c =>
        /\ s < w + c /\ s > w - c
        /\ r > 0 => s + c < w + c /\ s + c > w - c
OBVIOUS

\* The parts before the sign is put back: they make up the size, and each is within a
\* paisa of its exact share.
LEMMA PlacedFromShares ==
    ASSUME NEW D \in SUBSET Int, IsFiniteSet(D), NEW weight \in [D -> Nat], NEW size \in Nat,
           NEW all \in Nat \ {0}, all = SumFunctionOnSet(weight, D),
           NEW shares \in [D -> Nat], NEW rest \in [D -> Nat],
           \A i \in D : size * weight[i] = all * shares[i] + rest[i] /\ rest[i] < all,
           NEW placed, placed = WithDust(shares, rest, size - Total(shares))
    PROVE  /\ placed \in [D -> Nat]
           /\ Total(placed) = size
           /\ \A i \in D : all * placed[i] < size * weight[i] + all /\ all * placed[i] > size * weight[i] - all
<1> DEFINE P == {i \in D : rest[i] > 0}
           dust == size - Total(shares)
<1>5. Total(shares) = SumFunctionOnSet(shares, D) /\ Total(shares) \in Nat
  BY TotalIs, SumIsNat
<1>6. dust \in 0..Cardinality(P)
  BY <1>5, SharesLeaveDust
<1>7. Cardinality(P) \in Nat /\ Cardinality(P) <= Cardinality(D) /\ Cardinality(D) \in Nat
  BY FS_Subset, FS_CardinalityType
<1>8. dust \in 0..Cardinality(D) /\ dust \in Nat /\ dust <= Cardinality(P)
  BY <1>6, <1>7
<1> HIDE DEF dust
<1>9. /\ placed = [i \in D |-> shares[i] + IF i \in Lucky(rest, dust) THEN 1 ELSE 0]
      /\ Total(placed) = Total(shares) + dust
  <2>1. shares \in [D -> Int] /\ rest \in [D -> Int]
    OBVIOUS
  <2>2. placed = WithDust(shares, rest, dust)
    BY DEF dust
  <2>3. /\ WithDust(shares, rest, dust) =
                [i \in D |-> shares[i] + IF i \in Lucky(rest, dust) THEN 1 ELSE 0]
        /\ Total(WithDust(shares, rest, dust)) = Total(shares) + dust
    BY <1>8, <2>1, DustGoesOut, ZenonT(30)
  <2> QED
    BY <2>2, <2>3, Zenon
<1>10. \A i \in Lucky(rest, dust) : rest[i] > 0
  BY <1>8, LuckyHaveRest
<1>11. Total(placed) = size
  BY <1>5, <1>9 DEF dust
<1>12. placed \in [D -> Nat]
  BY <1>9
<1>13. ASSUME NEW i \in D
       PROVE  all * placed[i] < size * weight[i] + all /\ all * placed[i] > size * weight[i] - all
  <2>1. size * weight[i] = all * shares[i] + rest[i] /\ rest[i] < all
    OBVIOUS
  <2>2. shares[i] \in Nat /\ rest[i] \in Nat /\ all * shares[i] \in Nat /\ size * weight[i] \in Nat
    OBVIOUS
  <2> DEFINE s == all * shares[i]
             w == size * weight[i]
  <2>3. /\ s < w + all /\ s > w - all
        /\ rest[i] > 0 => s + all < w + all /\ s + all > w - all
    <3> HIDE DEF s, w
    <3>1. w = s + rest[i] /\ s \in Int /\ w \in Int
      BY <2>1, <2>2 DEF s, w
    <3> QED
      BY <2>1, <2>2, <3>1, NearShare
  <2>4. CASE i \in Lucky(rest, dust)
    <3>1. placed[i] = shares[i] + 1 /\ rest[i] > 0
      BY <1>9, <1>10, <2>4
    <3>2. all * placed[i] = s + all
      BY <2>2, <3>1
    <3> HIDE DEF s, w
    <3>3. all * placed[i] < w + all /\ all * placed[i] > w - all
      BY <2>3, <3>1, <3>2
    <3> QED
      BY <3>3 DEF w
  <2>5. CASE i \notin Lucky(rest, dust)
    <3>1. placed[i] = shares[i]
      BY <1>9, <2>2, <2>5
    <3> QED
      BY <2>3, <3>1
  <2> QED
    BY <2>4, <2>5
<1> QED
  BY <1>11, <1>12, <1>13

\* The magnitudes of the parts, before the sign is put back.
HandedOut(size, weight) ==
    LET all    == Total(weight)
        shares == [i \in DOMAIN weight |-> (size * weight[i]) \div all]
        rest   == [i \in DOMAIN weight |-> (size * weight[i]) % all]
    IN  WithDust(shares, rest, size - Total(shares))

LEMMA PlacedParts ==
    ASSUME NEW D \in SUBSET Int, IsFiniteSet(D), NEW weight \in [D -> Nat], NEW size \in Nat,
           NEW all, all = Total(weight), all # 0
    PROVE  /\ HandedOut(size, weight) \in [D -> Nat]
           /\ Total(HandedOut(size, weight)) = size
           /\ \A i \in D : /\ all * HandedOut(size, weight)[i] < size * weight[i] + all
                           /\ all * HandedOut(size, weight)[i] > size * weight[i] - all
<1> DEFINE shares == [i \in D |-> (size * weight[i]) \div all]
           rest == [i \in D |-> (size * weight[i]) % all]
<1>1. all \in Nat \ {0} /\ all = SumFunctionOnSet(weight, D)
  BY SumIsNat, TotalIs
<1>2. \A i \in D : size * weight[i] \in Nat
  OBVIOUS
<1>3. shares \in [D -> Nat] /\ rest \in [D -> Nat]
  BY <1>1, <1>2, Quotient
<1>4. \A i \in D : size * weight[i] = all * shares[i] + rest[i] /\ rest[i] < all
  BY <1>1, <1>2, Quotient
<1>5. HandedOut(size, weight) = WithDust(shares, rest, size - Total(shares))
  BY DEF HandedOut
<1> HIDE DEF shares, rest
<1> QED
  BY <1>1, <1>3, <1>4, <1>5, PlacedFromShares

Magnitude(total) == IF total < 0 THEN -total ELSE total
Sign(total) == IF total < 0 THEN -1 ELSE 1
Positive(weights) == [i \in DOMAIN weights |-> AtLeastZero(weights[i])]

LEMMA AllocateUnfolds ==
    \A total, weights : Allocate(total, weights) =
        IF Total(Positive(weights)) = 0 THEN [i \in DOMAIN weights |-> IF i = 1 THEN total ELSE 0]
        ELSE [i \in DOMAIN weights |-> Sign(total) * HandedOut(Magnitude(total), Positive(weights))[i]]
<1>1. \A weights : DOMAIN Positive(weights) = DOMAIN weights
  BY DEF Positive
<1> QED
  BY <1>1 DEF Allocate, HandedOut, Positive, Sign, Magnitude

\* money.ts allocateProportionally: the parts add up to the total, whatever its sign and
\* the weights; a bucket takes it all when no weight is positive.
THEOREM AllocateIsExact ==
    ASSUME NEW D \in SUBSET Int, IsFiniteSet(D), 1 \in D,
           NEW weights \in [D -> Int], NEW total \in Int
    PROVE  Total(Allocate(total, weights)) = total
<1> DEFINE size == Magnitude(total)
           sign == Sign(total)
           weight == Positive(weights)
           parts == Allocate(total, weights)
<1>1. size \in Nat /\ sign \in Int /\ sign * size = total
  BY DEF Magnitude, Sign
<1>2. weight \in [D -> Nat]
  BY DEF AtLeastZero, Positive
<1>3. parts = IF Total(weight) = 0 THEN [i \in D |-> IF i = 1 THEN total ELSE 0]
              ELSE [i \in D |-> sign * HandedOut(size, weight)[i]]
  <2>1. DOMAIN weights = D
    OBVIOUS
  <2> QED
    BY <2>1, AllocateUnfolds
<1> HIDE DEF size, sign, weight, parts
<1>4. CASE Total(weight) = 0
  <2>1. DOMAIN parts = D /\ \A i \in D : parts[i] = IF i = 1 THEN total ELSE 0
    BY <1>3, <1>4
  <2>2. IsFiniteSet(D \ {1}) /\ \A i \in D \ {1} : parts[i] = 0
    BY <2>1, FS_RemoveElement
  <2>3. SumFunctionOnSet(parts, D \ {1}) = 0
    BY <2>2, SumOfNothings
  <2>4. SumFunctionOnSet(parts, D) = parts[1] + SumFunctionOnSet(parts, D \ {1})
    <3>1. \A i \in D : parts[i] \in Int
      BY <2>1
    <3> QED
      BY <3>1, SumWithout
  <2>5. SumFunctionOnSet(parts, D) = total
    BY <2>1, <2>3, <2>4
  <2> QED
    BY <2>1, <2>5, TotalIs DEF parts
<1>5. CASE Total(weight) # 0
  <2> DEFINE placed == HandedOut(size, weight)
  <2>1. placed \in [D -> Nat] /\ Total(placed) = size
    BY <1>1, <1>2, <1>5, PlacedParts
  <2>2. DOMAIN parts = D /\ \A i \in D : parts[i] = sign * placed[i]
    BY <1>3, <1>5
  <2> HIDE DEF placed
  <2>3. ScalesOn(D, parts, sign, placed)
    BY <2>1, <2>2 DEF ScalesOn
  <2>4. SumFunctionOnSet(parts, D) = sign * SumFunctionOnSet(placed, D)
    BY <1>1, <2>3, SumScaled
  <2>5. SumFunctionOnSet(placed, D) = size
    BY <2>1, TotalIs
  <2> QED
    BY <1>1, <2>2, <2>4, <2>5, TotalIs DEF parts
<1> QED
  BY <1>4, <1>5

\* Every part of a non-negative total is within a paisa of its exact share.
THEOREM AllocateIsFair ==
    ASSUME NEW D \in SUBSET Int, IsFiniteSet(D), NEW weights \in [D -> Nat], NEW total \in Nat,
           NEW all, all = Total(weights), all # 0
    PROVE  /\ Allocate(total, weights) \in [D -> Nat]
           /\ Total(Allocate(total, weights)) = total
           /\ \A i \in D : /\ all * Allocate(total, weights)[i] < total * weights[i] + all
                           /\ all * Allocate(total, weights)[i] > total * weights[i] - all
<1>1. Positive(weights) = weights /\ Magnitude(total) = total /\ Sign(total) = 1 /\ DOMAIN weights = D
  BY DEF AtLeastZero, Positive, Magnitude, Sign
<1> DEFINE placed == HandedOut(total, weights)
<1>2. /\ placed \in [D -> Nat]
      /\ Total(placed) = total
      /\ \A i \in D : all * placed[i] < total * weights[i] + all /\ all * placed[i] > total * weights[i] - all
  BY PlacedParts
<1>3. Allocate(total, weights) = [i \in D |-> 1 * placed[i]]
  BY <1>1, AllocateUnfolds
<1> HIDE DEF placed
<1>4. Allocate(total, weights) = placed
  BY <1>2, <1>3
<1> QED
  BY <1>2, <1>4

-------------------------------------------------------------------------------
(* splitPaise *)

RuleModes == {"FIXED", "PERCENT", "REMAINDER"}
Percents(rules) == {i \in DOMAIN rules : rules[i].mode = "PERCENT"}
Remainder(rules) == {i \in DOMAIN rules : rules[i].mode = "REMAINDER"}
SplitShares(total, rules) ==
    [i \in DOMAIN rules |->
        CASE rules[i].mode = "FIXED"     -> rules[i].value
          [] rules[i].mode = "PERCENT"   -> (total * rules[i].value) \div 100
          [] rules[i].mode = "REMAINDER" -> 0]
SplitRest(total, rules) == [i \in Percents(rules) |-> (total * rules[i].value) % 100]
SplitLeft(total, rules) == total - Total(SplitShares(total, rules))

LEMMA SplitUnfolds ==
    ASSUME NEW total, NEW rules
    PROVE  SplitPaise(total, rules) =
        IF \/ Cardinality(Remainder(rules)) > 1
           \/ SplitLeft(total, rules) < 0
           \/ Remainder(rules) = {} /\ SplitLeft(total, rules) > 0 /\ Percents(rules) = {}
        THEN <<>>
        ELSE IF Remainder(rules) # {}
             THEN [i \in DOMAIN rules |-> IF i \in Remainder(rules) THEN SplitLeft(total, rules)
                                          ELSE SplitShares(total, rules)[i]]
             ELSE [i \in DOMAIN rules |->
                    IF i \in Percents(rules)
                    THEN SplitShares(total, rules)[i]
                         + SplitLeft(total, rules) \div Cardinality(Percents(rules))
                         + IF Cardinality({j \in Percents(rules) : ServedBefore(SplitRest(total, rules), j, i)})
                                < SplitLeft(total, rules) % Cardinality(Percents(rules))
                           THEN 1 ELSE 0
                    ELSE SplitShares(total, rules)[i]]
BY DEF SplitPaise, SplitLeft, SplitShares, SplitRest, Percents, Remainder

\* What is left goes out in equal parts and, paisa by paisa, to the first ones.
EvenParts(shares, P, rest, left) ==
    [i \in DOMAIN shares |->
        IF i \in P
        THEN shares[i] + left \div Cardinality(P)
             + IF i \in Lucky(rest, left % Cardinality(P)) THEN 1 ELSE 0
        ELSE shares[i]]

LEMMA EvenPartsGoOut ==
    ASSUME NEW D \in SUBSET Int, IsFiniteSet(D), NEW P \in SUBSET D, P # {}, NEW rest \in [P -> Int],
           NEW left \in Nat, NEW shares \in [D -> Int]
    PROVE  /\ DOMAIN EvenParts(shares, P, rest, left) = D
           /\ SumFunctionOnSet(EvenParts(shares, P, rest, left), D) = SumFunctionOnSet(shares, D) + left
<1> DEFINE p == Cardinality(P)
           lucky == Lucky(rest, left % p)
           parts == EvenParts(shares, P, rest, left)
<1>1. IsFiniteSet(P) /\ p \in Nat \ {0}
  BY FS_Subset, FS_CardinalityType, FS_EmptySet
<1>2. left \div p \in Nat /\ left % p \in 0..p /\ left = p * (left \div p) + (left % p)
  <2>1. left \div p \in Nat /\ left % p \in Nat /\ left % p < p /\ left = p * (left \div p) + (left % p)
    BY <1>1, Quotient, Zenon
  <2> QED
    BY <1>1, <2>1
<1> DEFINE k == left % p
           q == left \div p
           one == [i \in D |-> IF i \in P THEN 1 ELSE 0]
           even == [i \in D |-> q * one[i]]
           extra == [i \in D |-> IF i \in lucky THEN 1 ELSE 0]
           dust == [i \in D |-> even[i] + extra[i]]
<1>3. lucky \in SUBSET P /\ Cardinality(lucky) = k
  <2>1. P \in SUBSET Int /\ k \in 0..Cardinality(P)
    BY <1>2
  <2> QED
    BY <1>1, <2>1, LuckyOnes DEF Lucky
<1>4. q \in Nat /\ k \in Nat /\ left = p * q + k
  BY <1>1, <1>2
<1>5. parts = [i \in D |-> IF i \in P THEN shares[i] + q + IF i \in lucky THEN 1 ELSE 0 ELSE shares[i]]
  <2>1. DOMAIN shares = D
    OBVIOUS
  <2> QED
    BY <2>1 DEF EvenParts
<1> HIDE DEF k, q, p, lucky, parts
<1>6. AddsOn(D, parts, shares, dust) /\ AddsOn(D, dust, even, extra) /\ ScalesOn(D, even, q, one)
  BY <1>3, <1>4, <1>5 DEF AddsOn, ScalesOn
<1>7. /\ \A i \in D : one[i] = IF i \in P THEN 1 ELSE 0
      /\ \A i \in D : extra[i] = IF i \in lucky THEN 1 ELSE 0
  OBVIOUS
<1> HIDE DEF one, even, extra, dust
<1>8. SumFunctionOnSet(one, D) = p
  BY <1>7, SumOfOnes DEF p
<1>9. SumFunctionOnSet(extra, D) = k
  BY <1>3, <1>7, SumOfOnes
<1>10. SumFunctionOnSet(even, D) = q * p
  BY <1>4, <1>6, <1>8, SumScaled
<1>11. SumFunctionOnSet(dust, D) = left
  BY <1>1, <1>4, <1>6, <1>9, <1>10, SumOfSums
<1>12. SumFunctionOnSet(parts, D) = SumFunctionOnSet(shares, D) + left
  BY <1>6, <1>11, SumOfSums
<1> QED
  BY <1>5, <1>12 DEF parts

\* money.ts splitPaise: whatever rules fit, their parts add up to the amount that is split.
THEOREM SplitIsExact ==
    ASSUME NEW D \in SUBSET Int, IsFiniteSet(D),
           NEW rules \in [D -> [mode : RuleModes, value : Int]], NEW total \in Int,
           SplitPaise(total, rules) # <<>>
    PROVE  Total(SplitPaise(total, rules)) = total
<1> DEFINE parts == SplitPaise(total, rules)
           shares == SplitShares(total, rules)
           left == SplitLeft(total, rules)
           P == Percents(rules)
           R == Remainder(rules)
           rest == SplitRest(total, rules)
<1>1. DOMAIN rules = D /\ P \in SUBSET D /\ R \in SUBSET D
  BY DEF Percents, Remainder
<1>2. shares \in [D -> Int] /\ \A i \in R : shares[i] = 0
  <2>1. \A i \in D : shares[i] \in Int /\ (i \in R => shares[i] = 0)
    <3> SUFFICES ASSUME NEW i \in D PROVE shares[i] \in Int /\ (i \in R => shares[i] = 0)
      OBVIOUS
    <3>1. rules[i].value \in Int /\ rules[i].mode \in RuleModes /\ (total * rules[i].value) \div 100 \in Int
      OBVIOUS
    <3> QED
      BY <3>1 DEF SplitShares, Remainder, RuleModes
  <2> QED
    BY <1>1, <2>1 DEF SplitShares
<1>3. left \in Int /\ SumFunctionOnSet(shares, D) \in Int /\ left = total - SumFunctionOnSet(shares, D)
  BY <1>2, SumIsInt, TotalIs DEF SplitLeft
<1>4. IsFiniteSet(P) /\ IsFiniteSet(R) /\ Cardinality(R) \in Nat
  BY <1>1, FS_Subset, FS_CardinalityType
<1>5. /\ ~(Cardinality(R) > 1) /\ ~(left < 0) /\ ~(R = {} /\ left > 0 /\ P = {})
      /\ R # {} => parts = [i \in D |-> IF i \in R THEN left ELSE shares[i]]
      /\ R = {} => parts = [i \in D |->
             IF i \in P
             THEN shares[i] + left \div Cardinality(P)
                  + IF Cardinality({j \in P : ServedBefore(rest, j, i)}) < left % Cardinality(P)
                    THEN 1 ELSE 0
             ELSE shares[i]]
  BY <1>1, SplitUnfolds
<1> HIDE DEF parts, shares, left, P, R
<1>6. CASE R # {}
  <2>1. PICK m \in R : TRUE
    BY <1>6
  <2>2. R = {m}
    <3>1. IsFiniteSet(R \ {m}) /\ Cardinality(R \ {m}) = 0
      <4>1. IsFiniteSet(R \ {m}) /\ Cardinality(R \ {m}) = Cardinality(R) - 1
        BY <1>4, <2>1, FS_RemoveElement
      <4>2. Cardinality(R \ {m}) \in Nat
        BY <4>1, FS_CardinalityType
      <4> QED
        BY <1>4, <1>5, <4>1, <4>2
    <3> QED
      BY <2>1, <3>1, FS_EmptySet
  <2>3. /\ m \in D /\ parts[m] = left /\ shares[m] = 0
        /\ \A i \in D : shares[i] \in Int /\ parts[i] \in Int
        /\ \A i \in D \ {m} : shares[i] = parts[i]
    BY <1>1, <1>2, <1>3, <1>5, <1>6, <2>1, <2>2
  <2>4. SumFunctionOnSet(parts, D) = SumFunctionOnSet(shares, D) - shares[m] + parts[m]
    <3>1. ChangesAt(D, shares, parts, m)
      BY <2>3 DEF ChangesAt
    <3> QED
      BY <3>1, SumWithOneChanged
  <2>5. SumFunctionOnSet(parts, D) = total /\ DOMAIN parts = D
    BY <1>3, <1>5, <1>6, <2>3, <2>4
  <2> QED
    BY <2>5, TotalIs DEF parts
<1>7. CASE R = {} /\ P = {}
  <2>1. left = 0 /\ DOMAIN parts = D /\ \A i \in D : parts[i] = shares[i]
    BY <1>3, <1>5, <1>7
  <2>2. SumFunctionOnSet(parts, D) = SumFunctionOnSet(shares, D)
    BY <2>1, SumOfEqual
  <2> QED
    BY <1>3, <2>1, <2>2, TotalIs DEF parts
<1>8. CASE R = {} /\ P # {}
  <2>1. rest \in [P -> Int]
    <3>1. \A i \in P : total * rules[i].value \in Int
      BY <1>1
    <3> QED
      BY <1>1, <3>1 DEF SplitRest, P
  <2>2. parts = EvenParts(shares, P, rest, left)
    <3>1. \A i \in P : i \in Lucky(rest, left % Cardinality(P))
                         <=> Cardinality({j \in P : ServedBefore(rest, j, i)}) < left % Cardinality(P)
      BY <2>1 DEF Lucky
    <3>2. DOMAIN shares = D
      BY <1>2
    <3> HIDE DEF rest
    <3> QED
      BY <1>5, <1>8, <3>1, <3>2 DEF EvenParts
  <2>3. left \in Nat
    BY <1>3, <1>5
  <2> HIDE DEF rest
  <2>4. DOMAIN parts = D /\ SumFunctionOnSet(parts, D) = SumFunctionOnSet(shares, D) + left
    BY <1>1, <1>2, <1>8, <2>1, <2>2, <2>3, EvenPartsGoOut
  <2> QED
    BY <1>3, <2>4, TotalIs DEF parts
<1> QED
  BY <1>6, <1>7, <1>8
===============================================================================
