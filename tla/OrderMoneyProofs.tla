--------------------------- MODULE OrderMoneyProofs ---------------------------
(***************************************************************************)
(* The money of one order, for all baskets, refunds and amounts. First the *)
(* quote: the fold over a line's rules and offers, the sort that picks the *)
(* list price, the allocation of the coupon and of the delivery; no part   *)
(* is below nothing and the parts make up the whole. Then a refund of some *)
(* pieces: the next pieces at the value they have left. Last the inductive *)
(* invariant, which needs one refund at a time to be worked out.           *)
(***************************************************************************)
EXTENDS OrderMoney, SumTheorems, SequenceTheorems

-------------------------------------------------------------------------------
(* Folds over a sequence, as the community modules compute them. *)

\* The largest index of a set, which the fold takes out first.
LEMMA Largest ==
    ASSUME NEW n \in Nat, NEW s \in SUBSET (1..n), s # {}
    PROVE  Max(s) \in s
<1>1. \E x \in s : \A y \in s : x >= y
  <2> DEFINE T == {n - x : x \in s}
  <2>1. T \in SUBSET Nat /\ T # {}
    <3>1. \A x \in s : n - x \in Nat
      OBVIOUS
    <3> QED
      BY <3>1
  <2>2. PICK t \in T : \A u \in T : t <= u
    <3> HIDE DEF T
    <3> QED
      BY <2>1, LeastNumber
  <2>3. PICK x \in s : t = n - x
    OBVIOUS
  <2>4. \A y \in s : n - x <= n - y
    BY <2>2, <2>3
  <2> QED
    BY <2>4
<1> QED
  BY <1>1 DEF Max

\* Of the first k + 1 indices it is the last, and the first k remain.
LEMMA LargestOfPrefix ==
    ASSUME NEW k \in Nat \ {0}
    PROVE  Max(1..k) = k /\ (1..k) \ {k} = 1..(k - 1)
<1>1. \E x \in 1..k : \A y \in 1..k : x >= y
  BY k \in 1..k
<1>2. Max(1..k) \in 1..k /\ \A y \in 1..k : Max(1..k) >= y
  BY <1>1 DEF Max
<1> QED
  BY <1>2

LEMMA PrefixInside ==
    \A n \in Nat : \A k \in 1..n : k \in Nat \ {0} /\ 1..k \in SUBSET (1..n) /\ 1..k # {}
<1> SUFFICES ASSUME NEW n \in Nat, NEW k \in 1..n
             PROVE  k \in Nat \ {0} /\ 1..k \in SUBSET (1..n) /\ 1..k # {}
  OBVIOUS
<1>1. k \in Nat \ {0} /\ k <= n /\ k \in 1..k
  OBVIOUS
<1>2. \A i \in 1..k : i \in 1..n
  BY <1>1
<1> QED
  BY <1>1, <1>2

\* A fold computes a table over the sets of indices: the largest index of a set is the
\* last to be applied.
FoldStep(g, base, G, s) == IF s = {} THEN base ELSE G[<<g[s \ {Max(s)}], Max(s)>>]
IsFold(g, n, base, G) == g = [s \in SUBSET (1..n) |-> FoldStep(g, base, G, s)]

\* The table of a fold exists: no induction theorem is at hand, so a smallest set
\* without one is refuted.
LEMMA FoldExists ==
    ASSUME NEW n \in Nat, NEW D, NEW base \in D, NEW G,
           \A x \in D, i \in 1..n : G[<<x, i>>] \in D
    PROVE  \E g : /\ IsFold(g, n, base, G)
                  /\ \A s \in SUBSET (1..n) : g[s] \in D
<1> DEFINE S == 1..n
           UpTo(m) == {s \in SUBSET S : Cardinality(s) <= m}
           Defined(g, m) == /\ g = [s \in UpTo(m) |-> FoldStep(g, base, G, s)]
                            /\ \A s \in UpTo(m) : g[s] \in D
           Missing == {m \in Nat : ~ \E g : Defined(g, m)}
<1>0. IsFiniteSet(S) /\ Cardinality(S) = n
  BY FS_Interval
<1>1. \A s \in SUBSET S : IsFiniteSet(s) /\ Cardinality(s) \in Nat /\ Cardinality(s) <= Cardinality(S)
  BY <1>0, FS_Subset, FS_CardinalityType
<1>2. \A s \in SUBSET S : s # {} => /\ Max(s) \in s /\ Max(s) \in 1..n
                                    /\ s \ {Max(s)} \in SUBSET S
                                    /\ Cardinality(s \ {Max(s)}) = Cardinality(s) - 1
  <2> SUFFICES ASSUME NEW s \in SUBSET S, s # {}
               PROVE  /\ Max(s) \in s
                      /\ Cardinality(s \ {Max(s)}) = Cardinality(s) - 1
    OBVIOUS
  <2>1. Max(s) \in s
    BY Largest
  <2> QED
    BY <1>1, <2>1, FS_RemoveElement
<1>3. Missing = {}
  <2> SUFFICES ASSUME Missing # {} PROVE FALSE
    OBVIOUS
  <2>1. PICK m \in Missing : \A k \in Missing : m <= k
    BY LeastNumber
  <2>2. CASE m = 0
    <3> DEFINE h == [s \in UpTo(0) |-> base]
    <3>1. \A s \in UpTo(0) : s = {}
      <4> SUFFICES ASSUME NEW s \in UpTo(0) PROVE s = {}
        OBVIOUS
      <4>1. IsFiniteSet(s) /\ Cardinality(s) = 0
        BY <1>1
      <4> QED
        BY <4>1, FS_EmptySet
    <3>2. Defined(h, 0)
      BY <3>1 DEF FoldStep
    <3> HIDE DEF h, Defined
    <3> QED
      BY <2>1, <2>2, <3>2
  <2>3. CASE m # 0
    <3>1. m - 1 \in Nat /\ m - 1 \notin Missing
      <4>1. m \in Nat
        OBVIOUS
      <4>2. ~(m <= m - 1) /\ m - 1 \in Nat
        BY <2>3, <4>1
      <4> HIDE DEF Missing
      <4> QED
        BY <2>1, <4>2
    <3>2. PICK g : Defined(g, m - 1)
      BY <3>1
    <3> DEFINE h == [s \in UpTo(m) |-> IF Cardinality(s) <= m - 1 THEN g[s]
                                       ELSE FoldStep(g, base, G, s)]
    <3>3. \A s \in UpTo(m - 1) : g[s] = FoldStep(g, base, G, s) /\ g[s] \in D
      BY <3>2
    <3>4. \A s \in UpTo(m) : s # {} => s \ {Max(s)} \in UpTo(m - 1) /\ s \ {Max(s)} \in UpTo(m)
      <4> SUFFICES ASSUME NEW s \in UpTo(m), s # {}
                   PROVE  s \ {Max(s)} \in UpTo(m - 1) /\ s \ {Max(s)} \in UpTo(m)
        OBVIOUS
      <4> DEFINE t == s \ {Max(s)}
      <4>1. t \in SUBSET S /\ Cardinality(t) = Cardinality(s) - 1
        BY <1>2
      <4>2. Cardinality(s) \in Nat /\ Cardinality(s) <= m
        BY <1>1
      <4>3. Cardinality(t) <= m - 1 /\ Cardinality(t) <= m
        BY <4>1, <4>2
      <4> HIDE DEF t
      <4>4. t \in UpTo(m - 1) /\ t \in UpTo(m)
        BY <4>1, <4>3
      <4> HIDE DEF UpTo
      <4> QED
        BY <4>4 DEF t
    <3>5. \A s \in UpTo(m) : h[s] = FoldStep(g, base, G, s)
      BY <3>3
    <3>6. \A s \in UpTo(m - 1) : h[s] = g[s]
      BY <1>1, <3>1, <3>3
    <3>7. \A s \in UpTo(m) : h[s] = FoldStep(h, base, G, s)
      <4> SUFFICES ASSUME NEW s \in UpTo(m)
                   PROVE  FoldStep(h, base, G, s) = FoldStep(g, base, G, s)
        BY <3>5
      <4> HIDE DEF h
      <4> QED
        BY <3>4, <3>6 DEF FoldStep
    <3>8. h = [s \in UpTo(m) |-> FoldStep(h, base, G, s)]
      <4>1. h = [s \in UpTo(m) |-> h[s]]
        OBVIOUS
      <4> HIDE DEF h, UpTo
      <4> QED
        BY <3>7, <4>1
    <3>9. \A s \in UpTo(m) : h[s] \in D
      <4> SUFFICES ASSUME NEW s \in UpTo(m) PROVE FoldStep(g, base, G, s) \in D
        BY <3>5
      <4>1. CASE s = {}
        BY <4>1 DEF FoldStep
      <4>2. CASE s # {}
        <5>1. g[s \ {Max(s)}] \in D /\ Max(s) \in 1..n
          BY <1>2, <3>3, <3>4, <4>2
        <5> QED
          BY <4>2, <5>1 DEF FoldStep
      <4> QED
        BY <4>1, <4>2
    <3> HIDE DEF h
    <3> QED
      BY <2>1, <3>8, <3>9
  <2> QED
    BY <2>2, <2>3
<1>4. PICK g : Defined(g, n)
  BY <1>3
<1>5. UpTo(n) = SUBSET S
  BY <1>0, <1>1
<1> QED
  BY <1>4, <1>5 DEF IsFold

\* What a fold returns is what its step keeps: the table at the sets 1..k one after the other.
LEMMA FoldStays ==
    ASSUME NEW n \in Nat, NEW D, NEW g, g[{}] \in D,
           \A k \in 1..n : g[1..(k - 1)] \in D => g[1..k] \in D
    PROVE  g[1..n] \in D
<1> DEFINE Bad == {k \in Nat : k <= n /\ g[1..k] \notin D}
<1> SUFFICES ASSUME Bad # {} PROVE FALSE
  OBVIOUS
<1>1. PICK k \in Bad : \A m \in Bad : k <= m
  BY LeastNumber
<1>2. k \in Nat /\ k <= n /\ g[1..k] \notin D
  OBVIOUS
<1>3. CASE k = 0
  <2>1. 1..k = {}
    BY <1>3
  <2> QED
    BY <1>2, <2>1
<1>4. CASE k # 0
  <2>1. k - 1 \in Nat /\ k - 1 <= n /\ ~(k <= k - 1) /\ k \in 1..n
    BY <1>2, <1>4
  <2>2. g[1..(k - 1)] \in D
    BY <1>1, <2>1
  <2> QED
    BY <1>2, <2>1, <2>2
<1> QED
  BY <1>3, <1>4

-------------------------------------------------------------------------------
(* The winner of a sort: the engine's ranks are lists of equal length. *)

\* Outranking is a strict order on ranks of equal length.
LEMMA OutranksTransitive ==
    ASSUME NEW n \in Nat, NEW a \in [1..n -> Int], NEW b \in [1..n -> Int], NEW c \in [1..n -> Int],
           Outranks(a, b), Outranks(b, c)
    PROVE  Outranks(a, c)
<1>1. PICK k \in 1..n : a[k] > b[k] /\ \A i \in 1..(k - 1) : a[i] = b[i]
  BY DEF Outranks
<1>2. PICK l \in 1..n : b[l] > c[l] /\ \A i \in 1..(l - 1) : b[i] = c[i]
  BY DEF Outranks
<1>3. \A i \in 1..n : a[i] \in Int /\ b[i] \in Int /\ c[i] \in Int
  OBVIOUS
<1>4. CASE k < l
  <2>1. b[k] = c[k] /\ a[k] > c[k]
    BY <1>1, <1>2, <1>3, <1>4
  <2>2. \A i \in 1..(k - 1) : a[i] = c[i]
    BY <1>1, <1>2, <1>4
  <2> QED
    BY <2>1, <2>2 DEF Outranks
<1>5. CASE ~(k < l)
  <2>1. \A i \in 1..(l - 1) : i \in 1..(k - 1)
    BY <1>5
  <2>2. \A i \in 1..(l - 1) : a[i] = c[i]
    BY <1>1, <1>2, <2>1
  <2>3. a[l] >= b[l]
    BY <1>1, <1>3, <1>5
  <2>4. a[l] > c[l]
    BY <1>2, <1>3, <2>3
  <2> QED
    BY <2>2, <2>4 DEF Outranks
<1> QED
  BY <1>4, <1>5

LEMMA OutranksIrreflexive ==
    ASSUME NEW n \in Nat, NEW a \in [1..n -> Int]
    PROVE  ~Outranks(a, a)
BY DEF Outranks

Wins(items, rank, i) == i \in items /\ \A j \in items \ {i} : ~Outranks(rank[j], rank[i])

\* A finite set of candidates has one that nobody outranks: the CHOOSE of the engine
\* finds a price.
LEMMA SomeoneWins ==
    ASSUME NEW items, IsFiniteSet(items), items # {}, NEW n \in Nat, NEW rank \in [items -> [1..n -> Int]]
    PROVE  \E i \in items : \A j \in items \ {i} : ~Outranks(rank[j], rank[i])
<1> DEFINE Bad == {s \in SUBSET items : s # {} /\ ~ \E i \in s : Wins(s, rank, i)}
<1> SUFFICES Bad = {}
  BY DEF Wins
<1> SUFFICES ASSUME Bad # {} PROVE FALSE
  OBVIOUS
<1>1. PICK s \in Bad : \A x \in s : s \ {x} \notin Bad
  BY SmallestSubset
<1>2. PICK x \in s : TRUE
  OBVIOUS
<1>3. s \subseteq items /\ ~ \E i \in s : Wins(s, rank, i)
  OBVIOUS
<1>4. s # {x}
  BY <1>3 DEF Wins
<1>5. PICK m \in s \ {x} : Wins(s \ {x}, rank, m)
  <2>1. s \ {x} \in SUBSET items /\ s \ {x} # {} /\ s \ {x} \notin Bad
    BY <1>1, <1>2, <1>3, <1>4
  <2> QED
    BY <2>1
<1>6. CASE ~Outranks(rank[x], rank[m])
  BY <1>3, <1>5, <1>6 DEF Wins
<1>7. CASE Outranks(rank[x], rank[m])
  <2>1. PICK j \in s \ {x} : Outranks(rank[j], rank[x])
    BY <1>2, <1>3 DEF Wins
  <2>2. rank[j] \in [1..n -> Int] /\ rank[x] \in [1..n -> Int] /\ rank[m] \in [1..n -> Int]
    BY <1>3
  <2>3. Outranks(rank[j], rank[m])
    BY <1>7, <2>1, <2>2, OutranksTransitive
  <2>4. j # m
    BY <2>2, <2>3, OutranksIrreflexive
  <2> QED
    BY <1>5, <2>1, <2>3, <2>4 DEF Wins
<1> QED
  BY <1>6, <1>7

-------------------------------------------------------------------------------
(* The price of one piece. *)

\* Rounded ratios and basis points of whole amounts are whole.
LEMMA RatioIsInt ==
    ASSUME NEW n \in Int, NEW d \in Nat \ {0}
    PROVE  RoundedRatio(n, d) \in Int /\ (n >= 0 => RoundedRatio(n, d) \in Nat)
BY DEF RoundedRatio

LEMMA BasisPointsAreInt ==
    ASSUME NEW amount \in Int, NEW bp \in Int
    PROVE  /\ ApplyBasisPoints(amount, bp) \in Int
           /\ amount \in Nat /\ bp \in Nat => ApplyBasisPoints(amount, bp) \in Nat
<1>1. amount * bp \in Int /\ (amount \in Nat /\ bp \in Nat => amount * bp >= 0)
  OBVIOUS
<1> QED
  BY <1>1, RatioIsInt DEF ApplyBasisPoints

\* The price a list or a tier gives is an amount of paise.
LEMMA ListPriceIsNat ==
    ASSUME NEW line \in BasketLine, IsFiniteSet(line.listItems)
    PROVE  ListPrice(line) \in Nat
<1> DEFINE fitting == {i \in line.listItems : i.minQty <= line.qty}
           rank == [i \in fitting |-> <<i.priority, i.specific, i.minQty>>]
           w == Winner(fitting, LAMBDA i : <<i.priority, i.specific, i.minQty>>)
<1>1. CASE fitting = {}
  BY <1>1 DEF ListPrice, BasketLine
<1>2. CASE fitting # {}
  <2>1. IsFiniteSet(fitting) /\ fitting \subseteq PriceListItem
    BY FS_Subset DEF BasketLine
  <2>2. rank \in [fitting -> [1..3 -> Int]]
    <3> SUFFICES ASSUME NEW i \in PriceListItem PROVE <<i.priority, i.specific, i.minQty>> \in [1..3 -> Int]
      BY <2>1
    <3> QED
      BY DEF PriceListItem
  <2>3. \E i \in fitting : \A j \in fitting \ {i} : ~Outranks(rank[j], rank[i])
    <3> HIDE DEF fitting, rank
    <3> QED
      BY <1>2, <2>1, <2>2, SomeoneWins
  <2>4. w \in fitting
    BY <2>3 DEF Winner
  <2>5. w.price \in Nat
    BY <2>1, <2>4 DEF PriceListItem
  <2>6. ListPrice(line) = w.price
    BY <1>2 DEF ListPrice
  <2> QED
    BY <2>5, <2>6
<1> QED
  BY <1>1, <1>2

LEMMA TierPriceIsNat ==
    ASSUME NEW line \in BasketLine, IsFiniteSet(line.tiers), NEW listed \in Nat
    PROVE  TierPrice(line, listed) \in Nat
<1> DEFINE fitting == {t \in line.tiers : t.minQty <= line.qty}
           rank == [t \in fitting |-> <<t.minQty, t.targeted, t.specific>>]
           w == Winner(fitting, LAMBDA t : <<t.minQty, t.targeted, t.specific>>)
<1>1. CASE fitting = {}
  BY <1>1 DEF TierPrice
<1>2. CASE fitting # {}
  <2>1. IsFiniteSet(fitting) /\ fitting \subseteq TierRow
    BY FS_Subset DEF BasketLine
  <2>2. rank \in [fitting -> [1..3 -> Int]]
    <3> SUFFICES ASSUME NEW t \in TierRow PROVE <<t.minQty, t.targeted, t.specific>> \in [1..3 -> Int]
      BY <2>1
    <3> QED
      BY DEF TierRow
  <2>3. \E i \in fitting : \A j \in fitting \ {i} : ~Outranks(rank[j], rank[i])
    <3> HIDE DEF fitting, rank
    <3> QED
      BY <1>2, <2>1, <2>2, SomeoneWins
  <2>4. w \in fitting
    BY <2>3 DEF Winner
  <2>5. w.price \in Nat \cup {Absent} /\ w.bp \in Nat
    BY <2>1, <2>4 DEF TierRow, Optional
  <2>6. TierPrice(line, listed) = IF w.price # Absent THEN w.price
                                  ELSE AtLeastZero(listed - ApplyBasisPoints(listed, w.bp))
    BY <1>2 DEF TierPrice
  <2> HIDE DEF w
  <2>7. ApplyBasisPoints(listed, w.bp) \in Int
    <3>1. listed \in Int /\ w.bp \in Int
      BY <2>5
    <3> QED
      BY <3>1, BasisPointsAreInt
  <2>8. \A a \in Int : AtLeastZero(a) \in Nat
    BY DEF AtLeastZero
  <2>9. listed - ApplyBasisPoints(listed, w.bp) \in Int
    BY <2>7
  <2> QED
    BY <2>5, <2>6, <2>8, <2>9
<1> QED
  BY <1>1, <1>2

\* A price on its way: never below nothing.
Piece == [price : Nat, parts : Int]

\* An adjustment of a price on its way, and the rules and extras one after the other.
LEMMA AdjustedIsPiece ==
    ASSUME NEW piece \in Piece, NEW delta \in Int
    PROVE  Adjusted(piece, delta) \in Piece
BY DEF Adjusted, Piece, AtLeastZero

LEMMA DeltaIsInt ==
    ASSUME NEW rule \in PriceRule, NEW price \in Int, NEW before \in Int
    PROVE  AdjustmentDelta(rule, price, before) \in Int
<1>1. /\ ApplyBasisPoints(before, rule.bp) \in Int
      /\ ApplyBasisPoints(price, rule.bp) \in Int
      /\ rule.paise \in Int
  BY BasisPointsAreInt DEF PriceRule
<1>2. rule.kind \in {"FIXED_AMOUNT", "PER_UNIT", "PERCENT", "MULTIPLIER"}
  BY DEF PriceRule
<1> QED
  BY <1>1, <1>2 DEF AdjustmentDelta

RuleStep(before, p, r) == Adjusted(p, AdjustmentDelta(r, p.price, before))
IsRuleTable(g, before, base, rules) ==
    g = [s \in SUBSET (DOMAIN rules) |->
            IF s = {} THEN base ELSE RuleStep(before, g[s \ {Max(s)}], rules[Max(s)])]

LEMMA RuledUnfolds ==
    ASSUME NEW line, NEW before
    PROVE  Ruled(line, before) =
             (CHOOSE g : IsRuleTable(g, before, [price |-> before, parts |-> before], line.rules))[DOMAIN line.rules]
BY DEF Ruled, FoldLeft, MapThenFoldSet, IsRuleTable, RuleStep

LEMMA RuledIsPiece ==
    ASSUME NEW line \in BasketLine, NEW before \in Nat
    PROVE  Ruled(line, before) \in Piece
<1> DEFINE rules == line.rules
           base == [price |-> before, parts |-> before]
           n == Len(rules)
           G == [x \in Piece \X (1..n) |-> RuleStep(before, x[1], rules[x[2]])]
           g == CHOOSE g : IsRuleTable(g, before, base, rules)
<1>1. rules \in Seq(PriceRule)
  BY DEF BasketLine
<1>2. n \in Nat /\ DOMAIN rules = 1..n /\ \A i \in 1..n : rules[i] \in PriceRule
  BY <1>1
<1>3. base \in Piece
  BY DEF Piece
<1> HIDE DEF rules, base, n
<1>4. \A p \in Piece, r \in PriceRule : RuleStep(before, p, r) \in Piece
  <2> SUFFICES ASSUME NEW p \in Piece, NEW r \in PriceRule PROVE RuleStep(before, p, r) \in Piece
    OBVIOUS
  <2>1. p.price \in Int
    BY DEF Piece
  <2> QED
    BY <2>1, DeltaIsInt, AdjustedIsPiece DEF RuleStep
<1>5. \A x \in Piece, i \in 1..n : G[<<x, i>>] = RuleStep(before, x, rules[i])
  OBVIOUS
<1>6. \A x \in Piece, i \in 1..n : G[<<x, i>>] \in Piece
  BY <1>2, <1>4, <1>5
<1> HIDE DEF G
<1>7. PICK h : /\ IsFold(h, n, base, G)
               /\ \A s \in SUBSET (1..n) : h[s] \in Piece
  BY <1>2, <1>3, <1>6, FoldExists
<1>8. IsRuleTable(h, before, base, rules)
  <2>1. \A s \in SUBSET (1..n) : FoldStep(h, base, G, s) =
            IF s = {} THEN base ELSE RuleStep(before, h[s \ {Max(s)}], rules[Max(s)])
    <3> SUFFICES ASSUME NEW s \in SUBSET (1..n), s # {}
                 PROVE  G[<<h[s \ {Max(s)}], Max(s)>>] = RuleStep(before, h[s \ {Max(s)}], rules[Max(s)])
      BY DEF FoldStep
    <3>1. Max(s) \in 1..n
      BY <1>2, Largest
    <3>2. h[s \ {Max(s)}] \in Piece
      BY <1>7
    <3> QED
      BY <1>5, <3>1, <3>2
  <2> QED
    BY <1>2, <1>7, <2>1 DEF IsRuleTable, IsFold
<1>9. IsRuleTable(g, before, base, rules)
  BY <1>8
<1> HIDE DEF g
<1>10. g[{}] = base
  BY <1>9 DEF IsRuleTable
<1>11. ASSUME NEW k \in 1..n, g[1..(k - 1)] \in Piece PROVE g[1..k] \in Piece
  <2>1. k \in Nat \ {0} /\ 1..k \in SUBSET (1..n) /\ 1..k # {}
    BY <1>2, PrefixInside
  <2>2. Max(1..k) = k /\ (1..k) \ {k} = 1..(k - 1)
    BY <2>1, LargestOfPrefix
  <2>3. g[1..k] = RuleStep(before, g[1..(k - 1)], rules[k])
    BY <1>2, <1>9, <2>1, <2>2 DEF IsRuleTable
  <2> QED
    BY <1>2, <1>4, <1>11, <2>3
<1>12. g[1..n] \in Piece
  BY <1>2, <1>3, <1>10, <1>11, FoldStays
<1> QED
  BY <1>2, <1>12, RuledUnfolds DEF rules, base, g

IsExtraTable(g, base, extras) ==
    g = [s \in SUBSET (DOMAIN extras) |->
            IF s = {} THEN base ELSE Adjusted(g[s \ {Max(s)}], extras[Max(s)])]

LEMMA CustomisedUnfolds ==
    ASSUME NEW line, NEW piece
    PROVE  Customised(line, piece) = (CHOOSE g : IsExtraTable(g, piece, line.extras))[DOMAIN line.extras]
BY DEF Customised, FoldLeft, MapThenFoldSet, IsExtraTable

LEMMA CustomisedIsPiece ==
    ASSUME NEW line \in BasketLine, NEW base \in Piece
    PROVE  Customised(line, base) \in Piece
<1> DEFINE extras == line.extras
           n == Len(extras)
           G == [x \in Piece \X (1..n) |-> Adjusted(x[1], extras[x[2]])]
           g == CHOOSE g : IsExtraTable(g, base, extras)
<1>1. extras \in Seq(Int)
  BY DEF BasketLine
<1>2. n \in Nat /\ DOMAIN extras = 1..n /\ \A i \in 1..n : extras[i] \in Int
  BY <1>1
<1> HIDE DEF extras, n
<1>3. \A x \in Piece, i \in 1..n : G[<<x, i>>] = Adjusted(x, extras[i])
  OBVIOUS
<1>4. \A x \in Piece, i \in 1..n : G[<<x, i>>] \in Piece
  BY <1>2, <1>3, AdjustedIsPiece
<1> HIDE DEF G
<1>5. PICK h : IsFold(h, n, base, G) /\ \A s \in SUBSET (1..n) : h[s] \in Piece
  BY <1>2, <1>4, FoldExists
<1>6. IsExtraTable(h, base, extras)
  <2>1. \A s \in SUBSET (1..n) : FoldStep(h, base, G, s) =
            IF s = {} THEN base ELSE Adjusted(h[s \ {Max(s)}], extras[Max(s)])
    <3> SUFFICES ASSUME NEW s \in SUBSET (1..n), s # {}
                 PROVE  G[<<h[s \ {Max(s)}], Max(s)>>] = Adjusted(h[s \ {Max(s)}], extras[Max(s)])
      BY DEF FoldStep
    <3>1. Max(s) \in 1..n
      BY <1>2, Largest
    <3>2. h[s \ {Max(s)}] \in Piece
      BY <1>5
    <3> QED
      BY <1>3, <3>1, <3>2
  <2> QED
    BY <1>2, <1>5, <2>1 DEF IsExtraTable, IsFold
<1>7. IsExtraTable(g, base, extras)
  BY <1>6
<1> HIDE DEF g
<1>8. g[{}] = base
  BY <1>7 DEF IsExtraTable
<1>9. ASSUME NEW k \in 1..n, g[1..(k - 1)] \in Piece PROVE g[1..k] \in Piece
  <2>1. k \in Nat \ {0} /\ 1..k \in SUBSET (1..n) /\ 1..k # {}
    BY <1>2, PrefixInside
  <2>2. Max(1..k) = k /\ (1..k) \ {k} = 1..(k - 1)
    BY <2>1, LargestOfPrefix
  <2>3. g[1..k] = Adjusted(g[1..(k - 1)], extras[k])
    BY <1>2, <1>7, <2>1, <2>2 DEF IsExtraTable
  <2> QED
    BY <1>2, <1>9, <2>3, AdjustedIsPiece
<1>10. g[1..n] \in Piece
  BY <1>2, <1>8, <1>9, FoldStays
<1> QED
  BY <1>2, <1>10, CustomisedUnfolds DEF extras, g

\* The components of a price make up the price, and it is never below nothing.
LEMMA UnitPriceAddsUp ==
    ASSUME NEW line \in BasketLine, IsFiniteSet(line.listItems), IsFiniteSet(line.tiers),
           NEW groupBp \in Nat
    PROVE  UnitPrice(line, groupBp).price \in Nat /\ UnitPrice(line, groupBp).parts = UnitPrice(line, groupBp).price
<1> DEFINE before == TierPrice(line, ListPrice(line))
           ruled == Ruled(line, before)
           customised == Customised(line, ruled)
           piece == Grouped(customised, groupBp)
<1>1. before \in Nat
  BY ListPriceIsNat, TierPriceIsNat
<1>2. ruled \in Piece
  <2> HIDE DEF before
  <2> QED
    BY <1>1, RuledIsPiece
<1>3. customised \in Piece
  <2> HIDE DEF ruled
  <2> QED
    BY <1>2, CustomisedIsPiece
<1>4. piece \in Piece
  <2> HIDE DEF customised
  <2>1. customised.price \in Int /\ groupBp \in Int
    BY <1>3 DEF Piece
  <2>2. ApplyBasisPoints(customised.price, groupBp) \in Int
    BY <2>1, BasisPointsAreInt
  <2>3. -ApplyBasisPoints(customised.price, groupBp) \in Int
    BY <2>2
  <2> QED
    BY <1>3, <2>3, AdjustedIsPiece DEF Grouped
<1>5. UnitPrice(line, groupBp) = [price |-> piece.price, parts |-> piece.parts + FloorPart(piece)]
  BY DEF UnitPrice
<1> HIDE DEF piece
<1> QED
  BY <1>4, <1>5 DEF Piece, FloorPart

-------------------------------------------------------------------------------
(* A line of the quote. *)

\* A draft of a line that costs so much: what is taken off stays within it, and its parts
\* make up what is left.
DraftOf(subtotal) ==
    {d \in [subtotal : {subtotal}, discount : 0..subtotal, coupon : {0}, parts : Int] :
        d.parts = d.subtotal - d.discount}

\* An offer keeps a draft what it is, and so do all of them.
LEMMA OfferedIsDraft ==
    ASSUME NEW subtotal \in Nat, NEW draft \in DraftOf(subtotal), NEW offer \in LineOffer
    PROVE  Offered(draft, offer) \in DraftOf(subtotal)
<1> DEFINE wanted == IF offer.kind = "PERCENT" THEN ApplyBasisPoints(draft.subtotal, offer.bp) ELSE offer.paise
           room == draft.subtotal - draft.discount
           amount == AtLeastZero(Capped(wanted, offer.cap, room))
<1>1. /\ draft.subtotal = subtotal /\ draft.discount \in 0..subtotal
      /\ draft.coupon = 0 /\ draft.parts = subtotal - draft.discount
      /\ draft = [subtotal |-> subtotal, discount |-> draft.discount, coupon |-> 0, parts |-> draft.parts]
  BY DEF DraftOf
<1>2. wanted \in Int
  <2>1. draft.subtotal \in Int /\ offer.bp \in Int /\ offer.paise \in Int
    BY <1>1 DEF LineOffer
  <2> QED
    BY <2>1, BasisPointsAreInt
<1>3. offer.cap \in Int
  BY DEF LineOffer, Optional, Absent
<1>4. room \in Nat /\ room = subtotal - draft.discount
  BY <1>1
<1> HIDE DEF wanted, room
<1>5. amount \in 0..room
  BY <1>2, <1>3, <1>4 DEF Capped, Least, AtLeastZero
<1>6. Offered(draft, offer) = [draft EXCEPT !.discount = draft.discount + amount, !.parts = draft.parts - amount]
  BY DEF Offered, wanted, room
<1> HIDE DEF amount
<1>7. Offered(draft, offer) = [subtotal |-> subtotal, discount |-> draft.discount + amount, coupon |-> 0,
                               parts |-> draft.parts - amount]
  BY <1>1, <1>6
<1>8. draft.discount + amount \in 0..subtotal /\ draft.parts - amount = subtotal - (draft.discount + amount)
  BY <1>1, <1>4, <1>5
<1> QED
  BY <1>7, <1>8 DEF DraftOf

IsOfferTable(g, base, offers) ==
    g = [s \in SUBSET (DOMAIN offers) |->
            IF s = {} THEN base ELSE Offered(g[s \ {Max(s)}], offers[Max(s)])]
GrossOf(line, piece) ==
    [subtotal |-> piece.price * line.qty, discount |-> 0, coupon |-> 0, parts |-> piece.parts * line.qty]

LEMMA DraftUnfolds ==
    ASSUME NEW line, NEW groupBp
    PROVE  Draft(line, groupBp) =
             (CHOOSE g : IsOfferTable(g, GrossOf(line, UnitPrice(line, groupBp)), line.offers))[DOMAIN line.offers]
BY DEF Draft, FoldLeft, MapThenFoldSet, IsOfferTable, GrossOf

LEMMA OffersKeepDraft ==
    ASSUME NEW offers \in Seq(LineOffer), NEW subtotal \in Nat, NEW base \in DraftOf(subtotal)
    PROVE  (CHOOSE g : IsOfferTable(g, base, offers))[DOMAIN offers] \in DraftOf(subtotal)
<1> DEFINE n == Len(offers)
           D == DraftOf(subtotal)
           G == [x \in D \X (1..n) |-> Offered(x[1], offers[x[2]])]
           g == CHOOSE g : IsOfferTable(g, base, offers)
<1>1. n \in Nat /\ DOMAIN offers = 1..n /\ \A i \in 1..n : offers[i] \in LineOffer
  OBVIOUS
<1>2. base \in D
  OBVIOUS
<1>3. \A x \in D, o \in LineOffer : Offered(x, o) \in D
  BY OfferedIsDraft
<1> HIDE DEF n, D
<1>4. \A x \in D, i \in 1..n : G[<<x, i>>] = Offered(x, offers[i])
  OBVIOUS
<1>5. \A x \in D, i \in 1..n : G[<<x, i>>] \in D
  BY <1>1, <1>3, <1>4
<1> HIDE DEF G
<1>6. PICK h : IsFold(h, n, base, G) /\ \A s \in SUBSET (1..n) : h[s] \in D
  BY <1>1, <1>2, <1>5, FoldExists
<1>7. IsOfferTable(h, base, offers)
  <2>1. \A s \in SUBSET (1..n) : FoldStep(h, base, G, s) =
            IF s = {} THEN base ELSE Offered(h[s \ {Max(s)}], offers[Max(s)])
    <3> SUFFICES ASSUME NEW s \in SUBSET (1..n), s # {}
                 PROVE  G[<<h[s \ {Max(s)}], Max(s)>>] = Offered(h[s \ {Max(s)}], offers[Max(s)])
      BY DEF FoldStep
    <3>1. Max(s) \in 1..n
      BY <1>1, Largest
    <3>2. h[s \ {Max(s)}] \in D
      BY <1>6
    <3> QED
      BY <1>4, <3>1, <3>2
  <2> QED
    BY <1>1, <1>6, <2>1 DEF IsOfferTable, IsFold
<1>8. IsOfferTable(g, base, offers)
  BY <1>7
<1> HIDE DEF g
<1>9. g[{}] = base
  BY <1>8 DEF IsOfferTable
<1>10. ASSUME NEW k \in 1..n, g[1..(k - 1)] \in D PROVE g[1..k] \in D
  <2>1. k \in Nat \ {0} /\ 1..k \in SUBSET (1..n) /\ 1..k # {}
    BY <1>1, PrefixInside
  <2>2. Max(1..k) = k /\ (1..k) \ {k} = 1..(k - 1)
    BY <2>1, LargestOfPrefix
  <2>3. g[1..k] = Offered(g[1..(k - 1)], offers[k])
    BY <1>1, <1>8, <2>1, <2>2 DEF IsOfferTable
  <2> QED
    BY <1>1, <1>3, <1>10, <2>3
<1>11. g[1..n] \in D
  BY <1>1, <1>2, <1>9, <1>10, FoldStays
<1> QED
  BY <1>1, <1>11 DEF g, D

\* A line of a quote before its tax: no line costs less than nothing, and its parts are
\* what it costs.
DraftLine == {d \in [subtotal : Nat, discount : Nat, coupon : Nat, parts : Nat] :
                 d.discount <= d.subtotal /\ d.parts = d.subtotal - d.discount}

LEMMA DraftAddsUp ==
    ASSUME NEW line \in BasketLine, IsFiniteSet(line.listItems), IsFiniteSet(line.tiers),
           NEW groupBp \in Nat
    PROVE  Draft(line, groupBp) \in DraftLine /\ Draft(line, groupBp).coupon = 0
<1> DEFINE piece == UnitPrice(line, groupBp)
           subtotal == piece.price * line.qty
           base == GrossOf(line, piece)
           d == Draft(line, groupBp)
<1>1. piece.price \in Nat /\ piece.parts = piece.price
  BY UnitPriceAddsUp
<1>2. line.qty \in Nat /\ line.offers \in Seq(LineOffer)
  BY DEF BasketLine
<1> HIDE DEF piece
<1>3. subtotal \in Nat
  BY <1>1, <1>2
<1>4. base = [subtotal |-> subtotal, discount |-> 0, coupon |-> 0, parts |-> subtotal]
  BY <1>1 DEF GrossOf
<1> HIDE DEF subtotal
<1>5. base \in DraftOf(subtotal)
  BY <1>3, <1>4 DEF DraftOf
<1> HIDE DEF base
<1>6. d \in DraftOf(subtotal)
  <2>1. d = (CHOOSE g : IsOfferTable(g, base, line.offers))[DOMAIN line.offers]
    BY DraftUnfolds DEF base, piece
  <2> QED
    BY <1>2, <1>3, <1>5, <2>1, OffersKeepDraft
<1> HIDE DEF d
<1> SUFFICES d \in DraftLine /\ d.coupon = 0
  BY DEF d
<1> QED
  BY <1>3, <1>6 DEF DraftOf, DraftLine

-------------------------------------------------------------------------------
(* The coupon. *)

\* A coupon takes no more than the lines it applies to cost.
LEMMA CouponStaysWithin ==
    ASSUME NEW coupon \in CouponTerms, NEW eligible \in Nat
    PROVE  CouponDiscount(coupon, eligible) \in 0..eligible
<1> DEFINE amount == CASE coupon.kind \in {"PERCENT", "TIERED"} -> ApplyBasisPoints(eligible, coupon.bp)
                       [] coupon.kind = "FIXED"               -> coupon.paise
                       [] OTHER                               -> 0
<1>1. coupon.bp \in Nat /\ coupon.paise \in Nat /\ coupon.cap \in Nat \cup {Absent}
  BY DEF CouponTerms, Optional
<1>2. ApplyBasisPoints(eligible, coupon.bp) \in Nat
  <2>1. eligible \in Int /\ coupon.bp \in Int
    BY <1>1
  <2> QED
    BY <1>1, <2>1, BasisPointsAreInt
<1>3. amount \in Nat
  BY <1>1, <1>2
<1>4. CouponDiscount(coupon, eligible) = IF eligible <= 0 THEN 0 ELSE Capped(amount, coupon.cap, eligible)
  BY DEF CouponDiscount
<1> HIDE DEF amount
<1>5. coupon.cap \in Nat \/ coupon.cap = Absent
  BY <1>1
<1>6. Capped(amount, coupon.cap, eligible) \in 0..eligible
  BY <1>3, <1>5 DEF Capped, Least
<1> QED
  BY <1>4, <1>6

LEMMA ProductGrows == \A a, b, c \in Nat : a <= b => a * c <= b * c
<1> SUFFICES ASSUME NEW a \in Nat, NEW b \in Nat, NEW c \in Nat, a <= b PROVE a * c <= b * c
  OBVIOUS
<1>1. PICK d \in Nat : b = a + d
  BY b - a \in Nat
<1>2. (a + d) * c = a * c + d * c /\ d * c \in Nat /\ a * c \in Nat
  OBVIOUS
<1> QED
  BY <1>1, <1>2

\* No part of a division is more than its weight, when what is divided is not more than
\* the weights.
LEMMA ShareWithinWeight ==
    ASSUME NEW n \in Nat, NEW weights \in [1..n -> Nat], NEW total \in Nat,
           0 < total, total <= Total(weights)
    PROVE  /\ Allocate(total, weights) \in [1..n -> Nat]
           /\ Total(Allocate(total, weights)) = total
           /\ \A i \in 1..n : Allocate(total, weights)[i] <= weights[i]
<1> DEFINE parts == Allocate(total, weights)
<1>1. IsFiniteSet(1..n) /\ 1..n \in SUBSET Int
  BY FS_Interval
<1>2. PICK all \in Nat : all = Total(weights)
  BY <1>1, TotalIs, SumIsNat
<1>3. all # 0
  BY <1>2
<1>4. /\ parts \in [1..n -> Nat]
      /\ Total(parts) = total
      /\ \A i \in 1..n : all * parts[i] < total * weights[i] + all
  <2>1. /\ Allocate(total, weights) \in [1..n -> Nat]
        /\ Total(Allocate(total, weights)) = total
        /\ \A i \in 1..n : /\ all * Allocate(total, weights)[i] < total * weights[i] + all
                           /\ all * Allocate(total, weights)[i] > total * weights[i] - all
    BY <1>1, <1>2, <1>3, AllocateIsFair
  <2> QED
    BY <2>1
<1> HIDE DEF parts
<1>5. ASSUME NEW i \in 1..n PROVE parts[i] <= weights[i]
  <2>1. parts[i] \in Nat /\ weights[i] \in Nat /\ total <= all
    BY <1>2, <1>4
  <2>2. total * weights[i] <= all * weights[i]
    BY <1>2, <2>1, ProductGrows
  <2>3. all * (weights[i] + 1) = all * weights[i] + all
    BY <1>2, <2>1
  <2>4. all * parts[i] < all * (weights[i] + 1)
    <3> DEFINE x == all * parts[i]
               y == total * weights[i]
               z == all * weights[i]
               u == all * (weights[i] + 1)
    <3>1. x \in Int /\ y \in Int /\ z \in Int /\ u \in Int
      BY <1>2, <2>1
    <3>2. x < y + all /\ y <= z /\ u = z + all
      BY <1>4, <2>2, <2>3
    <3> HIDE DEF x, y, z, u
    <3>3. x < u
      BY <1>2, <3>1, <3>2
    <3> QED
      BY <3>3 DEF x, u
  <2>5. parts[i] < weights[i] + 1
    BY <1>2, <1>3, <2>1, <2>4, CancelFactor
  <2> QED
    BY <2>1, <2>5
<1> QED
  BY <1>4, <1>5 DEF parts

LEMMA AllocateIsNat ==
    ASSUME NEW n \in Nat \ {0}, NEW weights \in [1..n -> Nat], NEW total \in Nat
    PROVE  Allocate(total, weights) \in [1..n -> Nat] /\ Total(Allocate(total, weights)) = total
<1>1. IsFiniteSet(1..n) /\ 1..n \in SUBSET Int /\ 1 \in 1..n
  BY FS_Interval
<1>2. PICK all \in Nat : all = Total(weights)
  BY <1>1, TotalIs, SumIsNat
<1>3. CASE all # 0
  BY <1>1, <1>2, <1>3, AllocateIsFair
<1>4. CASE all = 0
  <2>1. Total(Allocate(total, weights)) = total
    <3>1. weights \in [1..n -> Int] /\ total \in Int
      OBVIOUS
    <3> QED
      BY <1>1, <3>1, AllocateIsExact
  <2>2. Positive(weights) = weights
    BY DEF Positive, AtLeastZero
  <2>3. Allocate(total, weights) = [i \in DOMAIN weights |-> IF i = 1 THEN total ELSE 0]
    BY <1>2, <1>4, <2>2, AllocateUnfolds
  <2> QED
    BY <2>1, <2>3
<1> QED
  BY <1>3, <1>4

CouponsOf(drafts) == [i \in DOMAIN drafts |-> drafts[i].coupon]

\* A coupon that is carried to the lines lands on them to the last paisa.
LEMMA CouponLands ==
    ASSUME NEW n \in Nat, NEW drafts \in [1..n -> DraftLine], \A i \in 1..n : drafts[i].coupon = 0,
           NEW weights \in [1..n -> Nat], \A i \in 1..n : weights[i] <= Net(drafts[i]),
           NEW discount \in Nat, discount <= Total(weights)
    PROVE  /\ CarryCoupon(drafts, discount, weights) \in [1..n -> DraftLine]
           /\ Total(CouponsOf(CarryCoupon(drafts, discount, weights))) = discount
<1> DEFINE carried == CarryCoupon(drafts, discount, weights)
           share == Allocate(discount, weights)
<1>1. IsFiniteSet(1..n)
  BY FS_Interval
<1>2. CASE discount = 0
  <2>1. carried = drafts
    BY <1>2 DEF CarryCoupon
  <2>2. DOMAIN CouponsOf(drafts) = 1..n /\ \A i \in 1..n : CouponsOf(drafts)[i] = 0
    BY DEF CouponsOf
  <2>3. Total(CouponsOf(drafts)) = 0
    BY <1>1, <2>2, TotalIs, SumOfNothings
  <2> QED
    BY <1>2, <2>1, <2>3
<1>3. CASE discount > 0
  <2>1. /\ share \in [1..n -> Nat]
        /\ Total(share) = discount
        /\ \A i \in 1..n : share[i] <= weights[i]
    BY <1>3, ShareWithinWeight
  <2>2. carried = [i \in 1..n |-> [drafts[i] EXCEPT !.coupon = share[i], !.discount = drafts[i].discount + share[i],
                                                    !.parts = drafts[i].parts - share[i]]]
    BY <1>3 DEF CarryCoupon
  <2> HIDE DEF share, carried
  <2>3. ASSUME NEW i \in 1..n PROVE carried[i] \in DraftLine /\ carried[i].coupon = share[i]
    <3>1. drafts[i] \in DraftLine /\ share[i] \in Nat /\ share[i] <= drafts[i].subtotal - drafts[i].discount
      <4>1. drafts[i] \in DraftLine /\ share[i] \in Nat /\ share[i] <= weights[i]
            /\ weights[i] \in Nat /\ weights[i] <= drafts[i].subtotal - drafts[i].discount
        BY <2>1 DEF Net
      <4>2. drafts[i].subtotal \in Nat /\ drafts[i].discount \in Nat
        BY <4>1 DEF DraftLine
      <4> QED
        BY <4>1, <4>2
    <3>2. carried[i] = [drafts[i] EXCEPT !.coupon = share[i], !.discount = drafts[i].discount + share[i],
                                         !.parts = drafts[i].parts - share[i]]
      BY <2>2
    <3>3. carried[i] = [subtotal |-> drafts[i].subtotal, discount |-> drafts[i].discount + share[i],
                        coupon |-> share[i], parts |-> drafts[i].parts - share[i]]
      BY <3>1, <3>2 DEF DraftLine
    <3>4. /\ drafts[i].subtotal \in Nat /\ drafts[i].discount + share[i] \in Nat
          /\ drafts[i].discount + share[i] <= drafts[i].subtotal
          /\ drafts[i].parts - share[i] = drafts[i].subtotal - (drafts[i].discount + share[i])
          /\ drafts[i].parts - share[i] \in Nat
      <4>1. /\ drafts[i].subtotal \in Nat /\ drafts[i].discount \in Nat
            /\ drafts[i].parts = drafts[i].subtotal - drafts[i].discount
        BY <3>1 DEF DraftLine
      <4> QED
        BY <3>1, <4>1
    <3> QED
      BY <3>1, <3>3, <3>4 DEF DraftLine
  <2>4. carried \in [1..n -> DraftLine]
    BY <2>2, <2>3
  <2>5. DOMAIN CouponsOf(carried) = 1..n /\ \A i \in 1..n : CouponsOf(carried)[i] = share[i]
    BY <2>3, <2>4 DEF CouponsOf
  <2>6. Total(CouponsOf(carried)) = Total(share)
    BY <1>1, <2>1, <2>5, TotalIs, SumOfEqual
  <2> QED
    BY <2>1, <2>4, <2>6 DEF carried
<1> QED
  BY <1>2, <1>3

-------------------------------------------------------------------------------
(* Delivery, tax and totals. *)

\* Totals, deliveries and taxes are amounts of paise.
LEMMA TotalIsNat ==
    ASSUME NEW n \in Nat, NEW f \in [1..n -> Nat]
    PROVE  Total(f) \in Nat
<1>1. IsFiniteSet(1..n)
  BY FS_Interval
<1> QED
  BY <1>1, TotalIs, SumIsNat

LEMMA ShippingIsNat ==
    ASSUME NEW basket \in Basket, IsFiniteSet(basket.rates), NEW net \in Nat, NEW pieces \in Nat \ {0}
    PROVE  ShippingFor(basket, net, pieces) \in Nat
<1> DEFINE measure(rate) == CASE rate.by = "WEIGHT"     -> basket.grams * pieces
                              [] rate.by = "ITEM_COUNT" -> pieces
                              [] OTHER                  -> net
           fitting == {r \in basket.rates : measure(r) >= r.from
                                            /\ (r.upTo = Absent \/ measure(r) <= r.upTo)}
           rank == [r \in fitting |-> <<-r.priority>>]
           w == Winner(fitting, LAMBDA r : <<-r.priority>>)
           free == IF w.freeAbove # Absent THEN w.freeAbove ELSE basket.freeAbove
<1>1. ShippingFor(basket, net, pieces) =
        IF fitting = {} \/ basket.coupon.kind = "FREE_SHIPPING" \/ (free > 0 /\ net >= free) THEN 0
        ELSE w.paise + w.perPiece * (pieces - 1)
  BY DEF ShippingFor
<1>2. CASE fitting # {}
  <2>1. IsFiniteSet(fitting) /\ fitting \subseteq ShippingRate
    BY FS_Subset DEF Basket
  <2>2. rank \in [fitting -> [1..1 -> Int]]
    <3> SUFFICES ASSUME NEW r \in ShippingRate PROVE <<-r.priority>> \in [1..1 -> Int]
      BY <2>1
    <3> QED
      BY DEF ShippingRate
  <2>3. \E i \in fitting : \A j \in fitting \ {i} : ~Outranks(rank[j], rank[i])
    <3> HIDE DEF fitting, rank
    <3> QED
      BY <1>2, <2>1, <2>2, SomeoneWins
  <2>4. w \in fitting
    BY <2>3 DEF Winner
  <2>5. w.paise \in Nat /\ w.perPiece \in Nat
    BY <2>1, <2>4 DEF ShippingRate
  <2> HIDE DEF w, free, fitting
  <2>6. w.perPiece * (pieces - 1) \in Nat
    BY <2>5
  <2>7. w.paise + w.perPiece * (pieces - 1) \in Nat
    BY <2>5, <2>6
  <2> QED
    BY <1>1, <2>7
<1>3. CASE fitting = {}
  <2> HIDE DEF w, free, fitting
  <2> QED
    BY <1>1, <1>3
<1> QED
  BY <1>2, <1>3

LEMMA TaxIsNat ==
    ASSUME NEW basket, NEW rateBp \in Nat, NEW taxable \in Nat
    PROVE  LineTax(basket, rateBp, taxable) \in Nat
<1>1. rateBp \in Int /\ taxable \in Int
  OBVIOUS
<1>2. ApplyBasisPoints(taxable, rateBp) \in Nat
  BY <1>1, BasisPointsAreInt
<1>3. TaxFromInclusive(taxable, rateBp) \in Nat
  <2>1. taxable * rateBp \in Nat /\ taxable * rateBp \in Int /\ 10000 + rateBp \in Nat \ {0}
    OBVIOUS
  <2>2. RoundedRatio(taxable * rateBp, 10000 + rateBp) \in Nat
    BY <2>1, RatioIsInt
  <2> QED
    BY <2>2 DEF TaxFromInclusive
<1> QED
  BY <1>2, <1>3 DEF LineTax

\* The halves of the GST make up the tax.
LEMMA GstAddsUp ==
    ASSUME NEW tax \in Nat, NEW intraState
    PROVE  /\ SplitGst(tax, intraState).cgst + SplitGst(tax, intraState).sgst
                + SplitGst(tax, intraState).igst = tax
           /\ SplitGst(tax, intraState) \in [cgst : Int, sgst : Int, igst : Int]
<1>1. tax \div 2 \in Nat
  OBVIOUS
<1> QED
  BY <1>1 DEF SplitGst

\* A line frozen in an order.
OrderLine ==
    {l \in [qty : Nat \ {0}, subtotal : Nat, discount : Nat, coupon : Nat, parts : Nat, tax : Nat,
            split : [cgst : Int, sgst : Int, igst : Int], total : Nat] :
        /\ l.discount <= l.subtotal /\ l.parts = l.total
        /\ l.split.cgst + l.split.sgst + l.split.igst = l.tax}

\* A line with its tax is a line of an order.
LEMMA TaxedLine ==
    ASSUME NEW basket \in Basket, NEW n \in Nat, basket.lines \in [1..n -> BasketLine],
           NEW drafts \in [1..n -> DraftLine], NEW delivery \in [1..n -> Nat]
    PROVE  /\ Taxed(basket, drafts, delivery) \in [1..n -> OrderLine]
           /\ \A i \in 1..n :
                /\ Taxed(basket, drafts, delivery)[i].total =
                     Net(drafts[i]) + OnTop(basket, Taxed(basket, drafts, delivery)[i].tax)
                /\ Taxed(basket, drafts, delivery)[i].coupon = drafts[i].coupon
                /\ Net(drafts[i]) \in Nat
                /\ OnTop(basket, Taxed(basket, drafts, delivery)[i].tax) \in Nat
<1> DEFINE lines == Taxed(basket, drafts, delivery)
           tax(i) == LineTax(basket, basket.lines[i].rateBp, Net(drafts[i]) + delivery[i])
           line(i) == [qty |-> basket.lines[i].qty, subtotal |-> drafts[i].subtotal,
                       discount |-> drafts[i].discount, coupon |-> drafts[i].coupon,
                       parts |-> drafts[i].parts + OnTop(basket, tax(i)), tax |-> tax(i),
                       split |-> SplitGst(tax(i), basket.intraState),
                       total |-> Net(drafts[i]) + OnTop(basket, tax(i))]
<1>1. lines = [i \in 1..n |-> line(i)]
  BY DEF Taxed
<1>2. ASSUME NEW i \in 1..n
      PROVE  /\ line(i) \in OrderLine /\ Net(drafts[i]) \in Nat /\ OnTop(basket, tax(i)) \in Nat
  <2>1. /\ drafts[i] \in DraftLine /\ delivery[i] \in Nat /\ basket.lines[i] \in BasketLine
    OBVIOUS
  <2>2. Net(drafts[i]) \in Nat /\ drafts[i].parts = Net(drafts[i])
    BY <2>1 DEF Net, DraftLine
  <2>3. tax(i) \in Nat
    <3>1. basket.lines[i].rateBp \in Nat /\ Net(drafts[i]) + delivery[i] \in Nat
      <4>1. basket.lines[i].rateBp \in Nat
        BY <2>1 DEF BasketLine
      <4>2. Net(drafts[i]) + delivery[i] \in Nat
        BY <2>1, <2>2
      <4> QED
        BY <4>1, <4>2
    <3> QED
      BY <3>1, TaxIsNat
  <2> HIDE DEF tax
  <2>4. OnTop(basket, tax(i)) \in Nat
    BY <2>3 DEF OnTop
  <2>6. SplitGst(tax(i), basket.intraState) \in [cgst : Int, sgst : Int, igst : Int]
    BY <2>3, GstAddsUp
  <2>7. SplitGst(tax(i), basket.intraState).cgst + SplitGst(tax(i), basket.intraState).sgst
          + SplitGst(tax(i), basket.intraState).igst = tax(i)
    BY <2>3, GstAddsUp
  <2>8. /\ basket.lines[i].qty \in Nat \ {0}
        /\ drafts[i].subtotal \in Nat /\ drafts[i].discount \in Nat /\ drafts[i].coupon \in Nat
        /\ drafts[i].discount <= drafts[i].subtotal
    BY <2>1 DEF BasketLine, DraftLine
  <2>9. Net(drafts[i]) + OnTop(basket, tax(i)) \in Nat
        /\ drafts[i].parts + OnTop(basket, tax(i)) = Net(drafts[i]) + OnTop(basket, tax(i))
    BY <2>2, <2>4
  <2> DEFINE total == Net(drafts[i]) + OnTop(basket, tax(i))
             split == SplitGst(tax(i), basket.intraState)
  <2>10. line(i) = [qty |-> basket.lines[i].qty, subtotal |-> drafts[i].subtotal,
                    discount |-> drafts[i].discount, coupon |-> drafts[i].coupon,
                    parts |-> total, tax |-> tax(i), split |-> split, total |-> total]
    BY <2>9
  <2>11. total \in Nat /\ split \in [cgst : Int, sgst : Int, igst : Int]
         /\ split.cgst + split.sgst + split.igst = tax(i)
    BY <2>6, <2>7, <2>9
  <2> HIDE DEF total, split, line
  <2>12. line(i) \in OrderLine
    BY <2>3, <2>8, <2>10, <2>11 DEF OrderLine
  <2> QED
    BY <2>2, <2>4, <2>12
<1>3. \A i \in 1..n : line(i).tax = tax(i) /\ line(i).total = Net(drafts[i]) + OnTop(basket, tax(i))
                      /\ line(i).coupon = drafts[i].coupon
  OBVIOUS
<1> HIDE DEF lines, line, tax
<1> SUFFICES /\ lines \in [1..n -> OrderLine]
             /\ \A i \in 1..n : /\ lines[i].total = Net(drafts[i]) + OnTop(basket, lines[i].tax)
                                /\ lines[i].coupon = drafts[i].coupon
                                /\ Net(drafts[i]) \in Nat
                                /\ OnTop(basket, lines[i].tax) \in Nat
  BY DEF lines
<1> QED
  BY <1>1, <1>2, <1>3

\* Rounding to the rupee never makes a total negative.
LEMMA RoundingIsSmall ==
    ASSUME NEW sum \in Nat
    PROVE  RupeeRounding(sum) \in Int /\ sum + RupeeRounding(sum) \in Nat
<1>1. sum % 100 \in Nat /\ sum % 100 <= sum
  OBVIOUS
<1> QED
  BY <1>1 DEF RupeeRounding

\* What an order is frozen as: the parts of its quote make up the whole.
Quote(n) ==
    [lines : [1..n -> OrderLine], couponDiscount : Nat, shipping : Nat, rounding : Int, grand : Nat]

\* The totals of a quote are those of its lines, its delivery and its rounding.
LEMMA ClosedAddsUp ==
    ASSUME NEW basket \in Basket, NEW n \in Nat,
           NEW drafts \in [1..n -> DraftLine], NEW lines \in [1..n -> OrderLine],
           \A i \in 1..n : /\ lines[i].total = Net(drafts[i]) + OnTop(basket, lines[i].tax)
                           /\ Net(drafts[i]) \in Nat
                           /\ OnTop(basket, lines[i].tax) \in Nat,
           NEW discount \in Nat, NEW shipping \in Nat
    PROVE  /\ Closed(basket, drafts, lines, discount, shipping) \in Quote(n)
           /\ Closed(basket, drafts, lines, discount, shipping).lines = lines
           /\ Closed(basket, drafts, lines, discount, shipping).couponDiscount = discount
           /\ AddsUp(Closed(basket, drafts, lines, discount, shipping))
<1> DEFINE nets == Nets(drafts)
           taxes == [i \in 1..n |-> OnTop(basket, lines[i].tax)]
           totals == [i \in 1..n |-> lines[i].total]
           sum == Total(nets) + shipping + Total(taxes)
           rounding == IF basket.roundToRupee THEN RupeeRounding(sum) ELSE 0
           quote == Closed(basket, drafts, lines, discount, shipping)
<1>1. /\ DOMAIN nets = 1..n /\ DOMAIN taxes = 1..n /\ DOMAIN totals = 1..n /\ DOMAIN lines = 1..n
      /\ nets \in [1..n -> Nat] /\ taxes \in [1..n -> Nat]
      /\ \A i \in 1..n : totals[i] = nets[i] + taxes[i]
  BY DEF Nets
<1>2. IsFiniteSet(1..n)
  BY FS_Interval
<1>3. quote = [lines |-> lines, couponDiscount |-> discount, shipping |-> shipping,
               rounding |-> rounding, grand |-> sum + rounding]
  BY <1>1 DEF Closed
<1> HIDE DEF nets, taxes, quote
<1>4. Total(nets) \in Nat /\ Total(taxes) \in Nat
  BY <1>1, TotalIsNat
<1>5. Total(totals) = Total(nets) + Total(taxes)
  <2>1. AddsOn(1..n, totals, nets, taxes)
    BY <1>1 DEF AddsOn
  <2> HIDE DEF totals
  <2> QED
    BY <1>1, <1>2, <2>1, SumOfSums, TotalIs
<1>6. sum \in Nat
  BY <1>4
<1>7. rounding \in Int /\ sum + rounding \in Nat
  <2>1. RupeeRounding(sum) \in Int /\ sum + RupeeRounding(sum) \in Nat
    <3> HIDE DEF sum
    <3> QED
      BY <1>6, RoundingIsSmall
  <2>2. rounding = RupeeRounding(sum) \/ rounding = 0
    OBVIOUS
  <2> HIDE DEF sum, rounding
  <2> QED
    BY <1>6, <2>1, <2>2
<1>8. sum + rounding = Total(totals) + shipping + rounding
  <2> HIDE DEF rounding, totals
  <2> QED
    BY <1>4, <1>5, <1>7
<1>9. \A i \in 1..n : lines[i].parts = lines[i].total
  BY DEF OrderLine
<1> HIDE DEF rounding, sum
<1>10. quote \in Quote(n) /\ quote.lines = lines /\ quote.couponDiscount = discount
  BY <1>3, <1>6, <1>7 DEF Quote
<1>11. AddsUp(quote)
  BY <1>1, <1>3, <1>8, <1>9 DEF AddsUp
<1> QED
  BY <1>10, <1>11 DEF quote

\* A delivery is spread over the lines for its tax only.
LEMMA DeliveredAddsUp ==
    ASSUME NEW basket \in Basket, FiniteChoices(basket), NEW n \in Nat \ {0},
           basket.lines \in [1..n -> BasketLine],
           NEW drafts \in [1..n -> DraftLine], NEW discount \in Nat
    PROVE  /\ Delivered(basket, drafts, discount) \in Quote(n)
           /\ AddsUp(Delivered(basket, drafts, discount))
           /\ Delivered(basket, drafts, discount).couponDiscount = discount
           /\ CouponsOf(Delivered(basket, drafts, discount).lines) = CouponsOf(drafts)
<1>1. IsFiniteSet(1..n) /\ 1..n \in SUBSET Int /\ n \in Nat
  <2>1. n \in Nat
    OBVIOUS
  <2>2. IsFiniteSet(1..n)
    BY <2>1, FS_Interval
  <2> QED
    BY <2>1, <2>2
<1> DEFINE qtys == [i \in 1..n |-> basket.lines[i].qty]
           nets == Nets(drafts)
           pieces == Total(qtys)
           shipping == ShippingFor(basket, Total(nets), pieces)
           carried == IF basket.shippingTaxable THEN shipping ELSE 0
           delivery == Allocate(carried, nets)
           lines == Taxed(basket, drafts, delivery)
           quote == Delivered(basket, drafts, discount)
<1>2. nets \in [1..n -> Nat]
  <2>1. \A i \in 1..n : drafts[i] \in DraftLine
    OBVIOUS
  <2>2. \A i \in 1..n : Net(drafts[i]) \in Nat
    BY <2>1 DEF Net, DraftLine
  <2> QED
    BY <2>2 DEF Nets
<1>3. pieces \in Nat \ {0}
  <2>1. qtys \in [1..n -> Nat] /\ 1 \in 1..n /\ qtys[1] >= 1
    <3>1. \A i \in 1..n : basket.lines[i].qty \in Nat \ {0}
      BY DEF BasketLine
    <3> QED
      BY <3>1
  <2> HIDE DEF qtys
  <2>2. \A i \in 1..n : qtys[i] \in Nat /\ qtys[i] \in Int
    BY <2>1
  <2>3. SumFunctionOnSet(qtys, 1..n) = qtys[1] + SumFunctionOnSet(qtys, (1..n) \ {1})
    BY <1>1, <2>1, <2>2, SumWithout
  <2>4. SumFunctionOnSet(qtys, (1..n) \ {1}) \in Nat
    <3>1. IsFiniteSet((1..n) \ {1})
      BY <1>1, FS_Subset
    <3> QED
      BY <2>2, <3>1, SumIsNat
  <2>5. DOMAIN qtys = 1..n
    BY <2>1
  <2> QED
    BY <2>1, <2>2, <2>3, <2>4, <2>5, TotalIs
<1>4. shipping \in Nat
  <2> HIDE DEF pieces, nets
  <2>1. Total(nets) \in Nat
    BY <1>1, <1>2, TotalIsNat
  <2> QED
    BY <1>3, <2>1, ShippingIsNat DEF FiniteChoices
<1>5. carried \in Nat
  <2> HIDE DEF shipping
  <2> QED
    BY <1>4
<1>6. delivery \in [1..n -> Nat]
  <2> HIDE DEF carried, nets
  <2> QED
    BY <1>1, <1>2, <1>5, AllocateIsNat
<1>7. /\ lines \in [1..n -> OrderLine]
      /\ \A i \in 1..n : /\ lines[i].total = Net(drafts[i]) + OnTop(basket, lines[i].tax)
                         /\ lines[i].coupon = drafts[i].coupon
                         /\ Net(drafts[i]) \in Nat
                         /\ OnTop(basket, lines[i].tax) \in Nat
  <2> HIDE DEF delivery
  <2> QED
    BY <1>1, <1>6, TaxedLine
<1>8. quote = Closed(basket, drafts, lines, discount, shipping)
  BY DEF Delivered
<1> HIDE DEF lines, shipping
<1>9. /\ quote \in Quote(n) /\ quote.lines = lines /\ quote.couponDiscount = discount
      /\ AddsUp(quote)
  <2> HIDE DEF quote
  <2>1. /\ Closed(basket, drafts, lines, discount, shipping) \in Quote(n)
        /\ Closed(basket, drafts, lines, discount, shipping).lines = lines
        /\ Closed(basket, drafts, lines, discount, shipping).couponDiscount = discount
        /\ AddsUp(Closed(basket, drafts, lines, discount, shipping))
    BY <1>1, <1>4, <1>7, ClosedAddsUp
  <2> QED
    BY <1>8, <2>1
<1>10. CouponsOf(lines) = CouponsOf(drafts)
  BY <1>7 DEF CouponsOf
<1> QED
  BY <1>9, <1>10

\* The quote of a basket adds up, whatever is in it.
THEOREM QuoteIsExact ==
    ASSUME NEW basket \in Basket, FiniteChoices(basket)
    PROVE  \E n \in Nat \ {0} :
              /\ DOMAIN basket.lines = 1..n
              /\ QuoteOf(basket) \in Quote(n)
              /\ AddsUp(QuoteOf(basket))
              /\ Total(CouponsOf(QuoteOf(basket).lines)) = QuoteOf(basket).couponDiscount
<1> DEFINE drafts == [i \in DOMAIN basket.lines |-> Draft(basket.lines[i], basket.groupBp)]
           weights == CouponWeights(basket, drafts)
           discount == CouponDiscount(basket.coupon, Total(weights))
           carried == CarryCoupon(drafts, discount, weights)
<1>1. basket.lines \in Seq(BasketLine) /\ basket.lines # <<>>
  BY DEF Basket
<1>2. PICK n \in Nat \ {0} : n = Len(basket.lines)
  BY <1>1, EmptySeq
<1>3. DOMAIN basket.lines = 1..n /\ basket.lines \in [1..n -> BasketLine]
  BY <1>1, <1>2
<1>4. \A i \in 1..n : drafts[i] \in DraftLine /\ drafts[i].coupon = 0
  <2> SUFFICES ASSUME NEW i \in 1..n
               PROVE  /\ Draft(basket.lines[i], basket.groupBp) \in DraftLine
                      /\ Draft(basket.lines[i], basket.groupBp).coupon = 0
    BY <1>3
  <2>1. basket.lines[i] \in BasketLine /\ basket.groupBp \in Nat
    BY <1>3 DEF Basket
  <2>2. IsFiniteSet(basket.lines[i].listItems) /\ IsFiniteSet(basket.lines[i].tiers)
    BY <1>3 DEF FiniteChoices
  <2> QED
    BY <2>1, <2>2, DraftAddsUp
<1>5. drafts \in [1..n -> DraftLine] /\ \A i \in 1..n : drafts[i].coupon = 0
  BY <1>3, <1>4
<1> HIDE DEF drafts
<1>6. weights \in [1..n -> Nat] /\ \A i \in 1..n : weights[i] <= Net(drafts[i])
  <2>1. \A i \in 1..n : drafts[i] \in DraftLine
    BY <1>5
  <2>2. \A i \in 1..n : Net(drafts[i]) \in Nat
    BY <2>1 DEF Net, DraftLine
  <2> QED
    BY <1>5, <2>2 DEF CouponWeights
<1> HIDE DEF weights
<1>7. Total(weights) \in Nat
  BY <1>6, TotalIsNat
<1>8. discount \in 0..Total(weights)
  <2>1. basket.coupon \in CouponTerms
    BY DEF Basket
  <2> QED
    BY <1>7, <2>1, CouponStaysWithin
<1> HIDE DEF discount
<1>9. carried \in [1..n -> DraftLine] /\ Total(CouponsOf(carried)) = discount
  <2>1. discount \in Nat /\ discount <= Total(weights)
    BY <1>7, <1>8
  <2> QED
    BY SMTT(30), <1>5, <1>6, <2>1, CouponLands
<1> HIDE DEF carried
<1>10. QuoteOf(basket) = Delivered(basket, carried, discount)
  BY DEF QuoteOf, carried, discount, weights, drafts
<1>11. /\ Delivered(basket, carried, discount) \in Quote(n)
       /\ AddsUp(Delivered(basket, carried, discount))
       /\ Delivered(basket, carried, discount).couponDiscount = discount
       /\ CouponsOf(Delivered(basket, carried, discount).lines) = CouponsOf(carried)
  <2>1. discount \in Nat
    BY <1>7, <1>8
  <2> QED
    BY <1>3, <1>9, <2>1, DeliveredAddsUp
<1> QED
  BY <1>3, <1>9, <1>10, <1>11

-------------------------------------------------------------------------------
(* The value of some pieces of a line. *)

LEMMA FunctionIsSequence ==
    ASSUME NEW S, NEW n \in Nat, NEW f \in [1..n -> S]
    PROVE  f \in Seq(S) /\ Len(f) = n /\ DOMAIN f = 1..n
OBVIOUS

\* The pieces of an amount divided evenly: the first ones are dearer by a paisa.
Pieces(amount, n) == [u \in 1..n |-> (amount \div n) + IF u <= amount % n THEN 1 ELSE 0]

\* An amount divided evenly: the dust goes to the first pieces.
LEMMA EvenDust ==
    ASSUME NEW n \in Nat, NEW q \in Int, NEW r \in Nat,
           NEW shares, shares = [u \in 1..n |-> q], NEW rest, rest = [u \in 1..n |-> r]
    PROVE  \A u \in 1..n : WithDust(shares, rest, r)[u] = q + IF u <= r THEN 1 ELSE 0
<1> DEFINE ahead(u) == {j \in DOMAIN rest : ServedBefore(rest, j, u)}
<1>1. ASSUME NEW u \in 1..n PROVE Cardinality(ahead(u)) < r <=> u <= r
  <2>1. ahead(u) = 1..(u - 1)
    BY DEF ServedBefore
  <2>2. Cardinality(1..(u - 1)) = u - 1
    BY FS_Interval
  <2> HIDE DEF ahead
  <2> QED
    BY <2>1, <2>2
<1> QED
  BY <1>1 DEF WithDust

\* perUnit gives the pieces of an amount divided evenly.
LEMMA PerUnitIs ==
    ASSUME NEW amount \in Nat, NEW n \in Nat \ {0}
    PROVE  PerUnit(amount, n) = Pieces(amount, n)
<1> DEFINE ones == [u \in 1..n |-> 1]
           q == amount \div n
           r == amount % n
           shares == [u \in 1..n |-> q]
           rest == [u \in 1..n |-> r]
<1>1. IsFiniteSet(1..n) /\ Cardinality(1..n) = n /\ 1..n \in SUBSET Int
  BY FS_Interval
<1>2. q \in Nat /\ r \in Nat /\ r < n /\ amount = n * q + r
  BY Quotient
<1>3. Positive(ones) = ones /\ Magnitude(amount) = amount /\ Sign(amount) = 1
  BY DEF Positive, AtLeastZero, Magnitude, Sign
<1>4. Total(ones) = n
  <2>1. DOMAIN ones = 1..n /\ \A u \in 1..n : ones[u] = 1
    OBVIOUS
  <2> HIDE DEF ones
  <2>2. SumFunctionOnSet(ones, 1..n) = 1 * Cardinality(1..n)
    BY <1>1, <2>1, SumOfConstant
  <2> QED
    BY <1>1, <2>1, <2>2, TotalIs
<1>5. HandedOut(amount, ones) = WithDust(shares, rest, amount - Total(shares))
  <2>1. [i \in DOMAIN ones |-> (amount * ones[i]) \div Total(ones)] = shares
    BY <1>4
  <2>2. [i \in DOMAIN ones |-> (amount * ones[i]) % Total(ones)] = rest
    BY <1>4
  <2> HIDE DEF ones, shares, rest
  <2> QED
    BY <2>1, <2>2 DEF HandedOut
<1>6. PerUnit(amount, n) = [u \in 1..n |-> 1 * HandedOut(amount, ones)[u]]
  <2>1. Allocate(amount, ones) = [u \in DOMAIN ones |-> 1 * HandedOut(amount, ones)[u]]
    <3> HIDE DEF ones
    <3> QED
      BY <1>3, <1>4, AllocateUnfolds
  <2>2. DOMAIN ones = 1..n
    OBVIOUS
  <2> QED
    BY <2>1, <2>2 DEF PerUnit
<1> HIDE DEF q, r
<1>7. amount - Total(shares) = r
  <2>1. DOMAIN shares = 1..n /\ \A u \in 1..n : shares[u] = q
    OBVIOUS
  <2> HIDE DEF shares
  <2>2. SumFunctionOnSet(shares, 1..n) = q * Cardinality(1..n)
    BY <1>1, <1>2, <2>1, SumOfConstant
  <2> QED
    BY <1>1, <1>2, <2>1, <2>2, TotalIs
<1>8. \A u \in 1..n : WithDust(shares, rest, r)[u] = q + IF u <= r THEN 1 ELSE 0
  BY SMTT(30), <1>2, EvenDust
<1>10. ASSUME NEW u \in 1..n PROVE 1 * HandedOut(amount, ones)[u] = Pieces(amount, n)[u]
  <2>1. HandedOut(amount, ones) = WithDust(shares, rest, r)
    BY <1>5, <1>7
  <2>2. HandedOut(amount, ones)[u] = q + IF u <= r THEN 1 ELSE 0
    BY <1>8, <2>1
  <2>3. Pieces(amount, n)[u] = q + IF u <= r THEN 1 ELSE 0
    BY DEF Pieces, q, r
  <2> QED
    BY <1>2, <2>2, <2>3
<1> QED
  BY <1>6, <1>10 DEF Pieces

\* What the first pieces of an amount are worth together.
LEMMA FirstPieces ==
    ASSUME NEW amount \in Nat, NEW n \in Nat \ {0}, NEW k \in 0..n
    PROVE  FirstOf(PerUnit(amount, n), k) = k * (amount \div n) + Least(k, amount % n)
<1> DEFINE q == amount \div n
           r == amount % n
           pieces == Pieces(amount, n)
           firsts == SubSeq(pieces, 1, k)
           m == Least(k, r)
<1>1. q \in Nat /\ r \in Nat /\ r < n /\ k \in Nat /\ k <= n /\ IsFiniteSet(1..k) /\ Cardinality(1..k) = k
  <2>1. q \in Nat /\ r \in Nat /\ r < n
    BY Quotient
  <2>2. k \in Nat /\ k <= n
    OBVIOUS
  <2>3. IsFiniteSet(1..k) /\ Cardinality(1..k) = k
    BY <2>2, FS_Interval
  <2> QED
    BY <2>1, <2>2, <2>3
<1>2. pieces = [u \in 1..n |-> q + IF u <= r THEN 1 ELSE 0]
  BY DEF Pieces
<1> HIDE DEF q, r, pieces
<1>3. pieces \in [1..n -> Int]
  BY <1>1, <1>2
<1>4. Len(pieces) = n
  BY <1>3, FunctionIsSequence
<1>5. FirstOf(pieces, k) = Total(firsts)
  BY <1>1, <1>4 DEF FirstOf, Least
<1>6. DOMAIN firsts = 1..k /\ \A u \in 1..k : firsts[u] = pieces[u]
  <2>1. \A u \in 1..k : pieces[u] \in Int
    BY <1>1, <1>3
  <2>2. /\ firsts \in Seq(Int) /\ Len(firsts) = IF 1 <= k THEN k - 1 + 1 ELSE 0
        /\ \A u \in 1..(k - 1 + 1) : firsts[u] = pieces[1 + u - 1]
    BY <1>1, <2>1, SubSeqProperties
  <2> HIDE DEF firsts
  <2>3. DOMAIN firsts = 1..k
    BY <1>1, <2>2
  <2>4. \A u \in 1..k : u \in 1..(k - 1 + 1) /\ 1 + u - 1 = u
    BY <1>1
  <2> QED
    BY <2>2, <2>3, <2>4
<1>7. m \in Nat /\ m <= k /\ m <= r /\ (m = k \/ m = r)
  BY <1>1 DEF Least
<1> DEFINE whole == [u \in 1..k |-> q]
           ones == [u \in 1..k |-> IF u \in 1..m THEN 1 ELSE 0]
<1> HIDE DEF firsts, m
<1>8. AddsOn(1..k, firsts, whole, ones)
  <2> SUFFICES ASSUME NEW u \in 1..k PROVE firsts[u] = q + IF u \in 1..m THEN 1 ELSE 0
    BY <1>1 DEF AddsOn
  <2>1. u \in 1..n /\ (u <= r <=> u \in 1..m)
    BY <1>1, <1>7
  <2> QED
    BY <1>2, <1>6, <2>1
<1>9. SumFunctionOnSet(whole, 1..k) = q * Cardinality(1..k)
  <2>1. \A u \in 1..k : whole[u] = q
    OBVIOUS
  <2> HIDE DEF whole
  <2> QED
    BY <1>1, <2>1, SumOfConstant
<1>10. SumFunctionOnSet(ones, 1..k) = Cardinality(1..m)
  <2>1. \A u \in 1..k : ones[u] = IF u \in 1..m THEN 1 ELSE 0
    OBVIOUS
  <2>2. 1..m \in SUBSET (1..k)
    BY <1>1, <1>7
  <2> HIDE DEF ones
  <2> QED
    BY <1>1, <2>1, <2>2, SumOfOnes
<1>11. Cardinality(1..m) = m
  BY <1>7, FS_Interval
<1> HIDE DEF whole, ones
<1>12. SumFunctionOnSet(firsts, 1..k) = SumFunctionOnSet(whole, 1..k) + SumFunctionOnSet(ones, 1..k)
  BY <1>1, <1>8, SumOfSums
<1>13. Total(firsts) = q * k + m
  BY <1>1, <1>6, <1>9, <1>10, <1>11, <1>12, TotalIs
<1>14. q * k = k * q
  BY <1>1
<1>15. PerUnit(amount, n) = pieces
  BY PerUnitIs DEF pieces
<1> QED
  BY <1>5, <1>13, <1>14, <1>15 DEF q, r, m

LEMMA Distributes ==
    /\ \A a, b, c, d \in Int : a * (b * c + d) = b * (a * c) + a * d
    /\ \A a, b, c, d \in Int : a * (b * c + d) = a * (b * c) + a * d
OBVIOUS

\* The first k of n pieces are worth their share of the amount, rounded up by less than a
\* paisa a piece; all of them are worth all of it.
LEMMA FirstPiecesBounds ==
    ASSUME NEW amount \in Nat, NEW n \in Nat \ {0}, NEW k \in 0..n,
           NEW part, part = FirstOf(PerUnit(amount, n), k)
    PROVE  /\ part \in 0..amount
           /\ k = n => part = amount
           /\ k * amount <= n * part
           /\ k > 0 => n * part < k * amount + n * k
<1>1. PICK q \in Nat, r \in Nat : q = amount \div n /\ r = amount % n /\ r < n /\ amount = n * q + r
  BY Quotient
<1>2. part = k * q + Least(k, r)
  BY <1>1, FirstPieces
<1>3. k \in Nat /\ k <= n
  OBVIOUS
<1>4. PICK m \in Nat : m = Least(k, r) /\ m <= k /\ m <= r /\ (m = k \/ m = r)
  BY <1>1, <1>3 DEF Least
<1>5. part = k * q + m
  BY <1>2, <1>4
<1>6. k * q <= n * q /\ k * q \in Nat /\ n * q \in Nat
  BY <1>1, <1>3, ProductGrows
<1>7. part \in 0..amount
  BY <1>1, <1>4, <1>5, <1>6
<1>8. ASSUME k = n PROVE part = amount
  BY <1>1, <1>3, <1>4, <1>5, <1>8
<1>9. n * part = k * (n * q) + n * m /\ k * amount = k * (n * q) + k * r
  <2>1. n * (k * q + m) = k * (n * q) + n * m
    BY <1>1, <1>3, <1>4, Distributes
  <2>2. k * (n * q + r) = k * (n * q) + k * r
    BY <1>1, <1>3, Distributes
  <2> QED
    BY <1>1, <1>5, <2>1, <2>2
<1>10. k * r <= n * m
  <2>1. CASE m = k
    <3>1. r * k <= n * k
      BY <1>1, <1>3, ProductGrows
    <3> QED
      BY <1>1, <1>3, <2>1, <3>1
  <2>2. CASE m = r
    <3>1. k * r <= n * r
      BY <1>1, <1>3, ProductGrows
    <3> QED
      BY <2>2, <3>1
  <2> QED
    BY <1>4, <2>1, <2>2
<1>11. k > 0 => n * m < k * r + n * k
  <2> SUFFICES ASSUME k > 0 PROVE n * m < k * r + n * k
    OBVIOUS
  <2>1. m * n <= k * n
    BY <1>3, <1>4, ProductGrows
  <2>2. CASE r = 0
    <3>1. m = 0 /\ n * k > 0
      BY <1>3, <1>4, <2>2
    <3> QED
      BY <1>3, <2>2, <3>1
  <2>3. CASE r > 0
    <3>1. k * r > 0
      BY <1>1, <1>3, <2>3
    <3> QED
      BY <1>3, <1>4, <2>1, <3>1
  <2> QED
    BY <1>1, <2>2, <2>3
<1>12. /\ k * amount <= n * part
       /\ k > 0 => n * part < k * amount + n * k
  <2>1. k * (n * q) \in Int /\ n * m \in Int /\ k * r \in Int /\ n * k \in Int /\ n * part \in Int /\ k * amount \in Int
    BY <1>1, <1>3, <1>4, <1>7
  <2> QED
    BY <1>9, <1>10, <1>11, <2>1
<1> QED
  BY <1>7, <1>8, <1>12

\* A proportion rounded half up is within half a paisa.
LEMMA ProportionNear ==
    ASSUME NEW tax \in Nat, NEW total \in Nat \ {0}, NEW amount \in Nat,
           NEW p, p = ProportionOf(tax, total, amount)
    PROVE  /\ p \in Nat
           /\ 2 * (total * p) <= 2 * (tax * amount) + total
           /\ 2 * (tax * amount) - total < 2 * (total * p)
<1>1. CASE amount = 0
  <2>1. p = 0 /\ tax * amount = 0 /\ total * p = 0
    BY <1>1 DEF ProportionOf
  <2> QED
    BY <2>1
<1>2. CASE amount # 0
  <2>1. PICK x \in Nat : x = tax * amount
    OBVIOUS
  <2>2. p = (2 * x + total) \div (2 * total)
    BY <1>2, <2>1 DEF ProportionOf, RoundedRatio
  <2>3. 2 * x + total \in Nat /\ 2 * total \in Nat \ {0}
    OBVIOUS
  <2>4. PICK r \in Nat : p \in Nat /\ r < 2 * total /\ 2 * x + total = (2 * total) * p + r
    <3>1. PICK y \in Nat, d \in Nat \ {0} : y = 2 * x + total /\ d = 2 * total
      BY <2>3
    <3>2. y \div d \in Nat /\ y % d \in Nat /\ y % d < d /\ y = d * (y \div d) + (y % d)
      BY Quotient
    <3> QED
      BY <2>2, <3>1, <3>2
  <2>5. (2 * total) * p = 2 * (total * p) /\ total * p \in Nat
    BY <2>4
  <2> QED
    BY <2>1, <2>4, <2>5
<1> QED
  BY <1>1, <1>2

\* Products grow with their factors.
LEMMA Times ==
    ASSUME NEW c \in Nat, NEW a \in Int, NEW b \in Int
    PROVE  /\ a <= b => c * a <= c * b
           /\ c > 0 /\ a < b => c * a < c * b
<1>1. ASSUME a <= b PROVE c * a <= c * b /\ (c > 0 /\ a < b => c * a < c * b)
  <2>1. PICK d \in Nat : b = a + d
    BY <1>1, b - a \in Nat
  <2>2. c * (a + d) = c * a + c * d /\ c * d \in Nat /\ c * a \in Int
    OBVIOUS
  <2>3. c > 0 /\ d > 0 => c * d > 0
    OBVIOUS
  <2> QED
    BY <2>1, <2>2, <2>3
<1> QED
  BY <1>1

\* The tax of w more pieces of a line against the tax of what they cost: with L pieces left,
\* A of the line's V and p of its T gone, they are off by at most a paisa a piece.
LEMMA DriftOfPieces ==
    ASSUME NEW T \in Nat, NEW V \in Nat \ {0}, T <= V, NEW A \in 0..V, NEW L \in Nat \ {0}, NEW w \in 1..L,
           NEW p \in Nat, 2 * (V * p) <= 2 * (T * A) + V, 2 * (T * A) - V < 2 * (V * p),
           NEW a \in Nat, w * (V - A) <= L * a, L * a < w * (V - A) + L * w,
           NEW q \in Nat, 2 * (V * q) <= 2 * (T * (A + a)) + V, 2 * (T * (A + a)) - V < 2 * (V * q),
           NEW t \in Nat, w * (T - p) <= L * t, L * t < w * (T - p) + L * w
    PROVE  t - (q - p) \in -w..w
<1> DEFINE e == t - q + p
           VLt == V * (L * t)
           VLq == V * (L * q)
           VLp == V * (L * p)
           VwT == V * (w * T)
           wVp == w * (V * p)
           VLw == V * (L * w)
           TLw == T * (L * w)
           LTA == L * (T * A)
           wTA == w * (T * A)
           TLa == T * (L * a)
           LV  == L * V
           wV  == w * V
<1>0. A \in Nat /\ A <= V /\ w \in Nat /\ w > 0 /\ w <= L /\ e \in Int
  OBVIOUS
<1>1. VwT - wVp <= VLt /\ VLt < VwT - wVp + VLw
  <2>1. V * (w * (T - p)) <= V * (L * t)
    BY <1>0, Times
  <2>2. V * (L * t) < V * (w * (T - p) + L * w)
    BY <1>0, Times
  <2>3. V * (w * (T - p)) = VwT - wVp
    BY <1>0
  <2>4. V * (w * (T - p) + L * w) = VwT - wVp + VLw
    BY <1>0
  <2> QED
    BY <2>1, <2>2, <2>3, <2>4
<1>2. 2 * VLq <= 2 * LTA + 2 * TLa + LV /\ 2 * LTA + 2 * TLa - LV < 2 * VLq
  <2>1. L * (2 * (V * q)) <= L * (2 * (T * (A + a)) + V)
    BY <1>0, Times
  <2>2. L * (2 * (T * (A + a)) - V) < L * (2 * (V * q))
    BY <1>0, Times
  <2>3. L * (2 * (V * q)) = 2 * VLq
    OBVIOUS
  <2>4. L * (2 * (T * (A + a)) + V) = 2 * LTA + 2 * TLa + LV
    BY <1>0
  <2>5. L * (2 * (T * (A + a)) - V) = 2 * LTA + 2 * TLa - LV
    BY <1>0
  <2> QED
    BY <2>1, <2>2, <2>3, <2>4, <2>5
<1>3. /\ 2 * VLp - 2 * wVp <= 2 * LTA - 2 * wTA + LV - wV
      /\ 2 * LTA - 2 * wTA - LV + wV <= 2 * VLp - 2 * wVp
  <2>1. (L - w) * (2 * (V * p)) <= (L - w) * (2 * (T * A) + V)
    BY <1>0, Times, L - w \in Nat
  <2>2. (L - w) * (2 * (T * A) - V) <= (L - w) * (2 * (V * p))
    BY <1>0, Times, L - w \in Nat
  <2>3. (L - w) * (2 * (V * p)) = 2 * VLp - 2 * wVp
    BY <1>0
  <2>4. (L - w) * (2 * (T * A) + V) = 2 * LTA - 2 * wTA + LV - wV
    BY <1>0
  <2>5. (L - w) * (2 * (T * A) - V) = 2 * LTA - 2 * wTA - LV + wV
    BY <1>0
  <2> QED
    BY <2>1, <2>2, <2>3, <2>4, <2>5
<1>4. VwT - wTA <= TLa /\ TLa <= VwT - wTA + TLw
  <2>1. T * (w * (V - A)) <= T * (L * a)
    BY <1>0, Times
  <2>2. T * (L * a) <= T * (w * (V - A) + L * w)
    BY <1>0, Times
  <2>3. T * (w * (V - A)) = VwT - wTA
    BY <1>0
  <2>4. T * (w * (V - A) + L * w) = VwT - wTA + TLw
    BY <1>0
  <2> QED
    BY <2>1, <2>2, <2>3, <2>4
<1>5. TLw <= VLw
  <2>1. L * w \in Nat
    BY <1>0
  <2> QED
    BY <2>1, ProductGrows
<1>6. wV > 0
  BY <1>0
<1>7. (V * L) * e = VLt - VLq + VLp /\ (V * L) * (w + 1) = VLw + LV /\ (V * L) * (-(w + 1)) = -(VLw + LV)
  BY <1>0
<1>8. /\ VLt \in Int /\ VLq \in Int /\ VLp \in Int /\ VwT \in Int /\ wVp \in Int /\ VLw \in Int /\ TLw \in Int
      /\ LTA \in Int /\ wTA \in Int /\ TLa \in Int /\ LV \in Int /\ wV \in Int
  BY <1>0
<1> HIDE DEF VLt, VLq, VLp, VwT, wVp, VLw, TLw, LTA, wTA, TLa, LV, wV, e
<1>9. VLt - VLq + VLp < VLw + LV
  BY <1>1, <1>2, <1>3, <1>4, <1>6, <1>8
<1>10. -(VLw + LV) < VLt - VLq + VLp
  BY <1>1, <1>2, <1>3, <1>4, <1>5, <1>6, <1>8
<1>11. V * L \in Nat \ {0}
  OBVIOUS
<1>12. e < w + 1 /\ -(w + 1) < e
  <2>1. (V * L) * e < (V * L) * (w + 1) /\ (V * L) * (-(w + 1)) < (V * L) * e
    BY <1>7, <1>9, <1>10
  <2>2. w + 1 \in Int /\ -(w + 1) \in Int
    BY <1>0
  <2> QED
    BY <1>0, <1>11, <2>1, <2>2, CancelFactor
<1>13. e \in -w..w
  BY <1>0, <1>12
<1> QED
  BY <1>13 DEF e

-------------------------------------------------------------------------------
(* A refund of some pieces. *)

\* What has gone back of a line stays within it, and of all its pieces is all it cost.
Within(line, b) ==
    b.qty <= line.qty /\ b.amount <= line.total /\ (b.qty = line.qty => b.amount = line.total)

\* A refund's part of a line: the next pieces at the value they have left.
PartOf(line, b, k) ==
    IF k > 0
    THEN [qty |-> k, amount |-> FirstOf(PerUnit(RemainingValue(line, b), RemainingQty(line, b)), k),
          tax |-> FirstOf(PerUnit(StillOf(line.tax, line, b.amount), RemainingQty(line, b)), k)]
    ELSE [qty |-> 0, amount |-> 0, tax |-> 0]

RefundPart == [qty : Nat, amount : Nat, tax : Nat]
Due(line, amount) == ProportionOf(line.tax, line.total, amount)

\* The tax due on a part of a line is part of its tax.
LEMMA DueIs ==
    ASSUME NEW line \in OrderLine, NEW amount \in 0..line.total
    PROVE  Due(line, amount) \in 0..line.tax /\ StillOf(line.tax, line, amount) = line.tax - Due(line, amount)
<1>1. line.tax \in Nat /\ line.total \in Nat /\ amount \in Nat /\ amount <= line.total
  BY DEF OrderLine
<1>2. Due(line, amount) \in 0..line.tax
  <2>1. CASE line.total = 0
    BY <1>1, <2>1 DEF Due, ProportionOf
  <2>2. CASE line.total # 0
    <3>1. PICK p : p = Due(line, amount)
      OBVIOUS
    <3>2. PICK T \in Nat, V \in Nat \ {0} : T = line.tax /\ V = line.total
      BY <1>1, <2>2
    <3>3. p \in Nat /\ 2 * (V * p) <= 2 * (T * amount) + V
      BY <1>1, <3>1, <3>2, ProportionNear DEF Due
    <3>4. T * amount <= T * V
      BY <1>1, <3>2, Times
    <3>6. p <= T
      <4> SUFFICES ASSUME p >= T + 1 PROVE FALSE
        BY <3>2, <3>3
      <4>1. V * (T + 1) <= V * p
        BY <3>2, <3>3, Times
      <4>2. V * (T + 1) = T * V + V
        BY <3>2
      <4>3. T * V \in Nat /\ V * p \in Nat /\ T * amount \in Nat
        BY <1>1, <3>2, <3>3
      <4> QED
        BY <3>2, <3>3, <3>4, <4>1, <4>2, <4>3
    <3> QED
      BY <3>1, <3>2, <3>3, <3>6
  <2> QED
    BY <2>1, <2>2
<1> QED
  BY <1>1, <1>2 DEF StillOf, Due, AtLeastZero

\* One refund keeps a line within what it cost, and its tax within a paisa a piece.
LEMMA PartFits ==
    ASSUME NEW line \in OrderLine, NEW b \in LineRefund, Within(line, b), NEW k \in Nat,
           k <= RemainingQty(line, b), NEW part, part = PartOf(line, b, k)
    PROVE  /\ part \in RefundPart
           /\ part.qty = k
           /\ b.qty + k <= line.qty
           /\ b.amount + part.amount <= line.total
           /\ b.qty + k = line.qty => b.amount + part.amount = line.total
           /\ line.tax <= line.total =>
                part.tax - (Due(line, b.amount + part.amount) - Due(line, b.amount)) \in -k..k
<1>1. PICK T \in Nat, V \in Nat, Q \in Nat \ {0} : T = line.tax /\ V = line.total /\ Q = line.qty
  BY DEF OrderLine
<1>2. PICK A \in 0..V, B \in 0..Q : A = b.amount /\ B = b.qty
  BY <1>1 DEF Within, LineRefund
<1>3. RemainingQty(line, b) = Q - B /\ RemainingValue(line, b) = V - A
  BY <1>1, <1>2 DEF RemainingQty, RemainingValue, AtLeastZero
<1>4. PICK p \in 0..T : p = Due(line, A) /\ StillOf(line.tax, line, A) = T - p
  BY <1>1, DueIs
<1>5. CASE k = 0
  <2>1. part = [qty |-> 0, amount |-> 0, tax |-> 0]
    BY <1>5 DEF PartOf
  <2>2. B = Q => A = V
    BY <1>1, <1>2 DEF Within
  <2>3. A + 0 = A /\ p - p = 0 /\ 0 \in -k..k
    BY <1>2, <1>4, <1>5
  <2> QED
    BY <1>1, <1>2, <1>4, <1>5, <2>1, <2>2, <2>3 DEF RefundPart
<1>6. CASE k > 0
  <2>1. PICK L \in Nat \ {0} : L = Q - B /\ k \in 1..L
    BY <1>2, <1>3, <1>6
  <2>2. PICK a : a = FirstOf(PerUnit(V - A, L), k)
    OBVIOUS
  <2>3. PICK t : t = FirstOf(PerUnit(T - p, L), k)
    OBVIOUS
  <2>4. part = [qty |-> k, amount |-> a, tax |-> t]
    BY <1>2, <1>3, <1>4, <1>6, <2>1, <2>2, <2>3 DEF PartOf
  <2>5. V - A \in Nat /\ T - p \in Nat /\ k \in 0..L
    BY <1>2, <1>4, <2>1
  <2>6. /\ a \in 0..(V - A) /\ (k = L => a = V - A)
        /\ k * (V - A) <= L * a /\ L * a < k * (V - A) + L * k
    BY <1>6, <2>2, <2>5, FirstPiecesBounds
  <2>7. /\ t \in 0..(T - p)
        /\ k * (T - p) <= L * t /\ L * t < k * (T - p) + L * k
    BY <1>6, <2>3, <2>5, FirstPiecesBounds
  <2>8. ASSUME T <= V PROVE t - (Due(line, A + a) - p) \in -k..k
    <3>1. PICK q \in 0..T : q = Due(line, A + a)
      <4>1. A + a \in 0..line.total
        BY <1>1, <1>2, <2>5, <2>6
      <4> QED
        BY <1>1, <4>1, DueIs
    <3>2. CASE V = 0
      <4>1. T = 0
        BY <2>8, <3>2
      <4>2. t = 0 /\ p = 0 /\ q = 0
        BY <1>4, <2>7, <3>1, <4>1
      <4> QED
        BY <1>6, <3>1, <4>2
    <3>3. CASE V # 0
      <4>1. V \in Nat \ {0} /\ a \in Nat /\ t \in Nat /\ p \in Nat /\ q \in Nat /\ A \in Nat /\ A + a \in Nat
        BY <1>2, <1>4, <2>6, <2>7, <3>1, <3>3
      <4>2. 2 * (V * p) <= 2 * (T * A) + V /\ 2 * (T * A) - V < 2 * (V * p)
        <5>1. p = ProportionOf(T, V, A)
          BY <1>1, <1>4 DEF Due
        <5> QED
          BY <4>1, <5>1, ProportionNear
      <4>3. 2 * (V * q) <= 2 * (T * (A + a)) + V /\ 2 * (T * (A + a)) - V < 2 * (V * q)
        <5>1. q = ProportionOf(T, V, A + a)
          BY <1>1, <3>1 DEF Due
        <5> QED
          BY <4>1, <5>1, ProportionNear
      <4>4. t - (q - p) \in -k..k
        BY <2>1, <2>6, <2>7, <2>8, <4>1, <4>2, <4>3, DriftOfPieces
      <4> QED
        BY <3>1, <4>4
    <3> QED
      BY <3>2, <3>3
  <2>9. /\ B + k <= Q /\ A + a <= V /\ (B + k = Q => A + a = V)
    BY <1>2, <2>1, <2>6
  <2>10. a \in Nat /\ t \in Nat
    BY <2>5, <2>6, <2>7
  <2> QED
    BY <1>1, <1>2, <1>4, <2>4, <2>8, <2>9, <2>10 DEF RefundPart
<1> QED
  BY <1>5, <1>6

\* A refund that was granted: its lines, what it is worth, and that the order bears it.
Worth(n) ==
    [granted : BOOLEAN, lines : [1..n -> RefundPart], shipping : Nat, rounding : Int, total : Nat,
     closes : BOOLEAN]

\* What a refund gives for the lines of an order.
LinesTotal(n, lines) == Total([i \in 1..n |-> lines[i].amount])

\* A refund that was granted to an order of n lines, for the pieces wanted.
Granted(n, quote, b, returned, wanted, shipping, worth) ==
    /\ n \in Nat \ {0} /\ quote \in Quote(n)
    /\ b \in [1..n -> LineRefund] /\ \A i \in 1..n : Within(quote.lines[i], b[i])
    /\ returned \in Nat /\ wanted \in [1..n -> Nat]
    /\ worth = RefundOf(quote, b, returned, 0, wanted, shipping) /\ worth.granted

\* A granted refund gives every line its next pieces, and no more than the order bears.
LEMMA RefundParts ==
    ASSUME NEW n, NEW quote, NEW b, NEW returned, NEW wanted, NEW shipping, NEW worth,
           Granted(n, quote, b, returned, wanted, shipping, worth)
    PROVE  /\ worth \in Worth(n)
           /\ \A i \in 1..n : /\ worth.lines[i] = PartOf(quote.lines[i], b[i], wanted[i])
                              /\ wanted[i] <= RemainingQty(quote.lines[i], b[i])
           /\ worth.total = LinesTotal(n, worth.lines) + worth.shipping + worth.rounding
           /\ worth.rounding = IF \A i \in 1..n : wanted[i] >= RemainingQty(quote.lines[i], b[i])
                               THEN quote.rounding ELSE 0
           /\ \E i \in 1..n : wanted[i] > 0
           /\ returned + worth.total <= quote.grand
<1>25. /\ n \in Nat \ {0} /\ quote \in Quote(n)
       /\ b \in [1..n -> LineRefund] /\ \A i \in 1..n : Within(quote.lines[i], b[i])
       /\ returned \in Nat /\ wanted \in [1..n -> Nat]
  BY DEF Granted
<1>26. worth.granted
  BY DEF Granted
<1>27. worth = RefundOf(quote, b, returned, 0, wanted, shipping)
  BY DEF Granted
<1> USE <1>25
<1> DEFINE named == {i \in DOMAIN wanted : wanted[i] > 0}
           left(i) == RemainingQty(quote.lines[i], b[i])
           closes == \A i \in DOMAIN wanted : wanted[i] >= left(i)
           lines == [i \in DOMAIN wanted |->
                      IF i \notin named THEN [qty |-> 0, amount |-> 0, tax |-> 0]
                      ELSE [qty    |-> wanted[i],
                            amount |-> FirstOf(PerUnit(RemainingValue(quote.lines[i], b[i]), left(i)), wanted[i]),
                            tax    |-> FirstOf(PerUnit(StillOf(quote.lines[i].tax, quote.lines[i], b[i].amount),
                                                       left(i)), wanted[i])]]
           amounts == [i \in DOMAIN wanted |-> lines[i].amount]
           deliver == IF shipping = "yes" \/ (shipping = "default" /\ closes) THEN AtLeastZero(quote.shipping) ELSE 0
           round == IF closes THEN quote.rounding ELSE 0
           total == Total(amounts) + deliver + round
           refused == \/ named = {}
                      \/ \E i \in named : wanted[i] > left(i)
                      \/ total <= 0
                      \/ total > AtLeastZero(quote.grand - returned - 0)
<1>1. worth = [granted |-> ~refused, lines |-> lines, shipping |-> deliver, rounding |-> round,
               total |-> total, closes |-> closes]
  BY <1>27, Zenon DEF RefundOf
<1> DEFINE granted == ~refused
<1>23. PICK g \in BOOLEAN, c \in BOOLEAN : g = granted /\ c = closes
  <2>1. granted \in BOOLEAN /\ closes \in BOOLEAN
    OBVIOUS
  <2> HIDE DEF granted, closes
  <2> QED
    BY <2>1, Zenon
<1>24. worth = [granted |-> g, lines |-> lines, shipping |-> deliver, rounding |-> round,
                total |-> total, closes |-> c]
  <2>1. worth = [granted |-> granted, lines |-> lines, shipping |-> deliver, rounding |-> round,
                 total |-> total, closes |-> closes]
    BY <1>1
  <2> HIDE DEF granted, lines, deliver, round, total, closes
  <2> QED
    BY <1>23, <2>1, Zenon
<1>2. ~refused
  <2> HIDE DEF granted, lines, deliver, round, total, closes
  <2>1. worth.granted = g
    BY <1>24
  <2>2. g
    BY <1>26, <2>1
  <2>3. granted
    BY <1>23, <2>2, Zenon
  <2> HIDE DEF refused
  <2> QED
    BY <2>3, Zenon DEF granted
<1>0. DOMAIN wanted = 1..n
  OBVIOUS
<1>21. \A i \in 1..n : lines[i] = PartOf(quote.lines[i], b[i], wanted[i])
  BY <1>0 DEF PartOf
<1>22. DOMAIN lines = 1..n
  BY <1>0
<1>3. \A i \in 1..n : left(i) \in Nat /\ wanted[i] <= left(i)
  <2> SUFFICES ASSUME NEW i \in 1..n PROVE left(i) \in Nat /\ wanted[i] <= left(i)
    OBVIOUS
  <2>1. left(i) \in Nat
    <3>1. quote.lines[i].qty \in Nat /\ b[i].qty \in Nat
      BY DEF Quote, OrderLine, LineRefund
    <3> QED
      BY <3>1 DEF RemainingQty, AtLeastZero
  <2>2. wanted[i] \in Nat
    OBVIOUS
  <2> HIDE DEF left, total
  <2>3. CASE wanted[i] > 0
    BY <1>0, <1>2, <2>1, <2>2, <2>3
  <2> QED
    BY <2>1, <2>2, <2>3
<1>4. \A i \in 1..n : lines[i] \in RefundPart
  <2> HIDE DEF lines
  <2> SUFFICES ASSUME NEW i \in 1..n PROVE PartOf(quote.lines[i], b[i], wanted[i]) \in RefundPart
    BY <1>21
  <2>1. quote.lines[i] \in OrderLine /\ b[i] \in LineRefund /\ wanted[i] \in Nat
    BY DEF Quote
  <2> QED
    BY <1>3, <2>1, PartFits
<1>5. total \notin Int \/ (named # {} /\ total > 0 /\ total <= AtLeastZero(quote.grand - returned - 0))
  <2> HIDE DEF total, left
  <2> QED
    BY <1>2 DEF AtLeastZero, Quote
<1> HIDE DEF lines, refused
<1>6. amounts \in [1..n -> Nat]
  BY <1>0, <1>4 DEF RefundPart
<1>7. Total(amounts) \in Nat
  <2> HIDE DEF amounts
  <2> QED
    BY <1>6, TotalIsNat
<1>8. deliver \in Nat /\ round \in Int /\ quote.grand \in Nat
  <2>1. quote.shipping \in Nat /\ quote.rounding \in Int /\ quote.grand \in Nat
    BY DEF Quote
  <2> HIDE DEF closes
  <2> QED
    BY <2>1 DEF AtLeastZero
<1>9. total \in Int
  <2> HIDE DEF amounts, deliver, round
  <2> QED
    BY <1>7, <1>8
<1>10. lines \in [1..n -> RefundPart]
  <2>1. lines = [i \in DOMAIN wanted |-> lines[i]]
    BY DEF lines
  <2> QED
    BY <1>0, <1>4, <2>1
<1> HIDE DEF amounts, deliver, round, total
<1>11. total \in Nat /\ returned + total <= quote.grand
  BY <1>5, <1>8, <1>9 DEF AtLeastZero
<1>12. worth \in Worth(n)
  <2> HIDE DEF granted, closes
  <2> QED
    BY <1>8, <1>10, <1>11, <1>23, <1>24 DEF Worth
<1>13. worth.lines = lines /\ worth.shipping = deliver /\ worth.rounding = round /\ worth.total = total
  <2> HIDE DEF granted, closes
  <2> QED
    BY <1>24
<1>14. \A i \in 1..n : worth.lines[i] = PartOf(quote.lines[i], b[i], wanted[i])
  BY <1>13, <1>21
<1>15. worth.total = LinesTotal(n, worth.lines) + worth.shipping + worth.rounding
  BY <1>0, <1>13 DEF total, amounts, LinesTotal
<1>16. worth.rounding = IF \A i \in 1..n : wanted[i] >= RemainingQty(quote.lines[i], b[i])
                        THEN quote.rounding ELSE 0
  BY <1>0, <1>13 DEF round
<1>17. \E i \in 1..n : wanted[i] > 0
  BY <1>0, <1>5, <1>9
<1> QED
  BY <1>3, <1>11, <1>12, <1>13, <1>14, <1>15, <1>16, <1>17

-------------------------------------------------------------------------------
(* The life of an order: the inductive invariant. *)

Deliveries == {"default", "yes", "no"}
Row(n) == [status : {"REQUESTED", "PROCESSED"}, worth : Worth(n)]
Done(rows) == {r \in DOMAIN rows : rows[r].status = "PROCESSED"}
Waiting(rows) == {r \in DOMAIN rows : rows[r].status = "REQUESTED"}

\* What the executed refunds gave: the delivery, the rounding, the tax of a line; what
\* the lines gave.
DeliveryBack(rows) == Total([r \in Done(rows) |-> rows[r].worth.shipping])
RoundingBack(rows) == Total([r \in Done(rows) |-> rows[r].worth.rounding])
TaxBack(rows, i) == Total([r \in Done(rows) |-> rows[r].worth.lines[i].tax])
AmountBack(b) == Total([i \in DOMAIN b |-> b[i].amount])
AllBack(quote, b) == \A i \in DOMAIN quote.lines : b[i].qty = quote.lines[i].qty

\* The refund was worked out for the order as it is.
Fresh(n, quote, b, returned, worth) ==
    /\ worth.granted
    /\ \E wanted \in [1..n -> PiecesAsked], shipping \in Deliveries :
         worth = RefundOf(quote, b, returned, 0, wanted, shipping)

Books(n, quote, b, rows, returned) ==
    /\ returned \in 0..quote.grand
    /\ returned = AmountBack(b) + DeliveryBack(rows) + RoundingBack(rows)
    /\ RoundingBack(rows) = IF AllBack(quote, b) THEN quote.rounding ELSE 0
    /\ \A i \in 1..n :
         quote.lines[i].tax <= quote.lines[i].total =>
            TaxBack(rows, i) - Due(quote.lines[i], b[i].amount) \in -b[i].qty..b[i].qty

OrderInv(n, quote, b, rows, returned) ==
    /\ quote \in Quote(n) /\ AddsUp(quote)
    /\ Total(CouponsOf(quote.lines)) = quote.couponDiscount
    /\ b \in [1..n -> LineRefund] /\ \A i \in 1..n : Within(quote.lines[i], b[i])
    /\ rows \in Seq(Row(n))
    /\ Books(n, quote, b, rows, returned)
    /\ \A r \in Waiting(rows) : Fresh(n, quote, b, returned, rows[r].worth)
    /\ \A r, s \in Waiting(rows) : r = s

MoneyInv ==
    IF Billed
    THEN Len(bill.lines) \in Nat \ {0} /\ OrderInv(Len(bill.lines), bill, back, requested, refunded)
    ELSE requested = <<>> /\ refunded = 0

\* g is f with one more value, at y.
OneMore(S, f, g, y) ==
    /\ IsFiniteSet(S) /\ y \notin S /\ DOMAIN f = S /\ DOMAIN g = S \cup {y}
    /\ \A x \in S : g[x] = f[x]
    /\ \A x \in S \cup {y} : g[x] \in Int

\* A sum with one more value.
LEMMA TotalWithOne ==
    ASSUME NEW S, NEW f, NEW g, NEW y, OneMore(S, f, g, y)
    PROVE  Total(g) = Total(f) + g[y]
<1> USE DEF OneMore
<1>1. SumFunctionOnSet(g, S \cup {y}) = g[y] + SumFunctionOnSet(g, S)
  BY SumWith
<1>2. SumFunctionOnSet(g, S) = SumFunctionOnSet(f, S)
  BY SumOfEqual
<1>3. SumFunctionOnSet(g, S) \in Int
  BY SumIsInt
<1> QED
  BY <1>1, <1>2, <1>3, TotalIs

\* What a row of the refunds holds.
LEMMA RowsHold ==
    ASSUME NEW n, NEW rows \in Seq(Row(n)), NEW r \in DOMAIN rows
    PROVE  /\ rows[r] \in Row(n)
           /\ rows[r].worth \in Worth(n)
           /\ rows[r].worth.shipping \in Nat /\ rows[r].worth.rounding \in Int
           /\ \A i \in 1..n : rows[r].worth.lines[i].tax \in Nat
<1>1. rows[r] \in Row(n)
  BY LenProperties, ElementOfSeq
<1>2. PICK worth \in Worth(n) : worth = rows[r].worth
  BY <1>1 DEF Row
<1>3. worth.shipping \in Nat /\ worth.rounding \in Int /\ worth.lines \in [1..n -> RefundPart]
  BY DEF Worth
<1>4. \A i \in 1..n : worth.lines[i].tax \in Nat
  BY <1>3 DEF RefundPart
<1> QED
  BY <1>1, <1>2, <1>3, <1>4

LEMMA DoneIsFinite ==
    ASSUME NEW n, NEW rows \in Seq(Row(n))
    PROVE  IsFiniteSet(Done(rows)) /\ Done(rows) \subseteq DOMAIN rows
<1>1. DOMAIN rows = 1..Len(rows) /\ Len(rows) \in Nat
  BY LenProperties
<1>2. IsFiniteSet(1..Len(rows))
  BY <1>1, FS_Interval
<1>3. Done(rows) \subseteq DOMAIN rows
  BY DEF Done
<1> QED
  BY <1>1, <1>2, <1>3, FS_Subset

\* What the executed refunds gave is a number.
LEMMA BackIsInt ==
    ASSUME NEW n, NEW rows \in Seq(Row(n))
    PROVE  /\ DeliveryBack(rows) \in Nat /\ RoundingBack(rows) \in Int
           /\ \A i \in 1..n : TaxBack(rows, i) \in Nat
<1>1. IsFiniteSet(Done(rows)) /\ Done(rows) \subseteq DOMAIN rows
  BY DoneIsFinite
<1>2. \A r \in Done(rows) : rows[r].worth.shipping \in Nat /\ rows[r].worth.rounding \in Int
                            /\ \A i \in 1..n : rows[r].worth.lines[i].tax \in Nat
  BY <1>1, RowsHold
<1>3. DeliveryBack(rows) \in Nat
  <2> DEFINE f == [r \in Done(rows) |-> rows[r].worth.shipping]
  <2>1. \A r \in Done(rows) : f[r] \in Nat
    BY <1>2
  <2>2. DOMAIN f = Done(rows)
    OBVIOUS
  <2> HIDE DEF f
  <2>3. Total(f) \in Nat
    BY <1>1, <2>1, <2>2, SumIsNat, TotalIs
  <2> QED
    BY <2>3 DEF f, DeliveryBack
<1>4. RoundingBack(rows) \in Int
  <2> DEFINE f == [r \in Done(rows) |-> rows[r].worth.rounding]
  <2>1. \A r \in Done(rows) : f[r] \in Int
    BY <1>2
  <2>2. DOMAIN f = Done(rows)
    OBVIOUS
  <2> HIDE DEF f
  <2>3. Total(f) \in Int
    BY <1>1, <2>1, <2>2, SumIsInt, TotalIs
  <2> QED
    BY <2>3 DEF f, RoundingBack
<1>5. ASSUME NEW i \in 1..n PROVE TaxBack(rows, i) \in Nat
  <2> DEFINE f == [r \in Done(rows) |-> rows[r].worth.lines[i].tax]
  <2>1. \A r \in Done(rows) : f[r] \in Nat
    BY <1>2
  <2>2. DOMAIN f = Done(rows)
    OBVIOUS
  <2> HIDE DEF f
  <2>3. Total(f) \in Nat
    BY <1>1, <2>1, <2>2, SumIsNat, TotalIs
  <2> QED
    BY <2>3 DEF f, TaxBack
<1> QED
  BY <1>3, <1>4, <1>5

\* A refund is executed.
Execution(rows, r, after) == after = [rows EXCEPT ![r].status = "PROCESSED"]

LEMMA RowIsExecuted ==
    ASSUME NEW n, NEW rows \in Seq(Row(n)), NEW r \in Waiting(rows), NEW worth, worth = rows[r].worth,
           NEW after, Execution(rows, r, after)
    PROVE  /\ after \in Seq(Row(n)) /\ Waiting(after) = Waiting(rows) \ {r}
           /\ \A s \in Waiting(after) : after[s].worth = rows[s].worth
           /\ DeliveryBack(after) = DeliveryBack(rows) + worth.shipping
           /\ RoundingBack(after) = RoundingBack(rows) + worth.rounding
           /\ \A i \in 1..n : TaxBack(after, i) = TaxBack(rows, i) + worth.lines[i].tax
<1> USE DEF Execution
<1>1. r \in DOMAIN rows /\ rows[r].status = "REQUESTED" /\ rows[r] \in Row(n)
  BY RowsHold DEF Waiting
<1>2. DOMAIN after = DOMAIN rows /\ \A s \in DOMAIN rows : after[s].worth = rows[s].worth /\ after[s] \in Row(n)
  <2>1. DOMAIN after = DOMAIN rows
    OBVIOUS
  <2>2. ASSUME NEW s \in DOMAIN rows PROVE after[s].worth = rows[s].worth /\ after[s] \in Row(n)
    <3>1. rows[s] \in Row(n)
      BY RowsHold
    <3>2. after[s] = IF s = r THEN [rows[s] EXCEPT !.status = "PROCESSED"] ELSE rows[s]
      BY <1>1
    <3> QED
      BY <3>1, <3>2 DEF Row
  <2> QED
    BY <2>1, <2>2
<1>3. after \in Seq(Row(n))
  <2>1. DOMAIN rows = 1..Len(rows) /\ Len(rows) \in Nat
    BY LenProperties
  <2>2. after \in [1..Len(rows) -> Row(n)]
    BY <1>2, <2>1
  <2> QED
    BY <2>1, <2>2, FunctionIsSequence
<1>4. /\ after[r].status = "PROCESSED" /\ \A s \in DOMAIN rows \ {r} : after[s].status = rows[s].status
  BY <1>1 DEF Row
<1>5. Done(after) = Done(rows) \cup {r} /\ r \notin Done(rows) /\ Waiting(after) = Waiting(rows) \ {r}
  BY <1>1, <1>2, <1>4 DEF Done, Waiting
<1>6. IsFiniteSet(Done(rows)) /\ Done(rows) \subseteq DOMAIN rows
  BY DoneIsFinite
<1>7. \A s \in Done(rows) \cup {r} :
         /\ s \in Done(after) /\ after[s].worth = rows[s].worth
         /\ rows[s].worth.shipping \in Int /\ rows[s].worth.rounding \in Int
         /\ \A i \in 1..n : rows[s].worth.lines[i].tax \in Int
  <2> SUFFICES ASSUME NEW s \in Done(rows) \cup {r}
               PROVE  /\ s \in Done(after) /\ after[s].worth = rows[s].worth
                      /\ rows[s].worth.shipping \in Int /\ rows[s].worth.rounding \in Int
                      /\ \A i \in 1..n : rows[s].worth.lines[i].tax \in Int
    OBVIOUS
  <2>1. rows[s].worth.shipping \in Nat /\ rows[s].worth.rounding \in Int
        /\ \A i \in 1..n : rows[s].worth.lines[i].tax \in Nat
    BY <1>1, <1>6, RowsHold
  <2>2. \A i \in 1..n : rows[s].worth.lines[i].tax \in Int
    BY <2>1
  <2>3. rows[s].worth.shipping \in Int
    BY <2>1
  <2>4. s \in Done(after) /\ after[s].worth = rows[s].worth
    BY <1>1, <1>2, <1>5, <1>6
  <2> QED
    BY <2>1, <2>2, <2>3, <2>4
<1>12. PICK before : before = Done(rows)
  OBVIOUS
<1>8. DeliveryBack(after) = DeliveryBack(rows) + worth.shipping
  <2>1. PICK f : f = [s \in Done(rows) |-> rows[s].worth.shipping]
    OBVIOUS
  <2>2. PICK g : g = [s \in Done(after) |-> after[s].worth.shipping]
    OBVIOUS
  <2>7. (\A s \in Done(rows) : f[s] = rows[s].worth.shipping) /\ \A s \in Done(after) : g[s] = after[s].worth.shipping
    BY <2>1, <2>2
  <2>3. DOMAIN f = Done(rows) /\ DOMAIN g = Done(rows) \cup {r}
    BY <1>5, <2>1, <2>2
  <2>4. (\A s \in before : g[s] = f[s]) /\ \A s \in before \cup {r} : g[s] \in Int
    BY <1>7, <1>12, <2>7
  <2>5. Total(g) = Total(f) + g[r]
    <3>1. OneMore(before, f, g, r)
      BY <1>5, <1>6, <1>12, <2>3, <2>4 DEF OneMore
    <3> QED
      BY <3>1, TotalWithOne
  <2>6. g[r] = worth.shipping
    BY <1>1, <1>2, <1>5, <2>2
  <2> QED
    BY <2>1, <2>2, <2>5, <2>6 DEF DeliveryBack
<1>9. RoundingBack(after) = RoundingBack(rows) + worth.rounding
  <2>1. PICK f : f = [s \in Done(rows) |-> rows[s].worth.rounding]
    OBVIOUS
  <2>2. PICK g : g = [s \in Done(after) |-> after[s].worth.rounding]
    OBVIOUS
  <2>7. (\A s \in Done(rows) : f[s] = rows[s].worth.rounding) /\ \A s \in Done(after) : g[s] = after[s].worth.rounding
    BY <2>1, <2>2
  <2>3. DOMAIN f = Done(rows) /\ DOMAIN g = Done(rows) \cup {r}
    BY <1>5, <2>1, <2>2
  <2>4. (\A s \in before : g[s] = f[s]) /\ \A s \in before \cup {r} : g[s] \in Int
    BY <1>7, <1>12, <2>7
  <2>5. Total(g) = Total(f) + g[r]
    <3>1. OneMore(before, f, g, r)
      BY <1>5, <1>6, <1>12, <2>3, <2>4 DEF OneMore
    <3> QED
      BY <3>1, TotalWithOne
  <2>6. g[r] = worth.rounding
    BY <1>1, <1>2, <1>5, <2>2
  <2> QED
    BY <2>1, <2>2, <2>5, <2>6 DEF RoundingBack
<1>10. ASSUME NEW i \in 1..n PROVE TaxBack(after, i) = TaxBack(rows, i) + worth.lines[i].tax
  <2>1. PICK f : f = [s \in Done(rows) |-> rows[s].worth.lines[i].tax]
    OBVIOUS
  <2>2. PICK g : g = [s \in Done(after) |-> after[s].worth.lines[i].tax]
    OBVIOUS
  <2>7. (\A s \in Done(rows) : f[s] = rows[s].worth.lines[i].tax) /\ \A s \in Done(after) : g[s] = after[s].worth.lines[i].tax
    BY <2>1, <2>2
  <2>3. DOMAIN f = Done(rows) /\ DOMAIN g = Done(rows) \cup {r}
    BY <1>5, <2>1, <2>2
  <2>4. (\A s \in before : g[s] = f[s]) /\ \A s \in before \cup {r} : g[s] \in Int
    BY ZenonT(30), <1>7, <1>12, <2>7
  <2>5. Total(g) = Total(f) + g[r]
    <3>1. OneMore(before, f, g, r)
      BY <1>5, <1>6, <1>12, <2>3, <2>4 DEF OneMore
    <3> QED
      BY <3>1, TotalWithOne
  <2>6. g[r] = worth.lines[i].tax
    BY <1>1, <1>2, <1>5, <2>2
  <2> QED
    BY <2>1, <2>2, <2>5, <2>6 DEF TaxBack
<1>11. \A s \in Waiting(after) : after[s].worth = rows[s].worth
  BY <1>2 DEF Waiting
<1> QED
  BY <1>3, <1>5, <1>8, <1>9, <1>10, <1>11

\* A refund is requested.
Request(rows, worth, after) == after = Append(rows, [status |-> "REQUESTED", worth |-> worth])

LEMMA RowIsAppended ==
    ASSUME NEW n, NEW rows \in Seq(Row(n)), NEW worth \in Worth(n), NEW after, Request(rows, worth, after)
    PROVE  /\ after \in Seq(Row(n))
           /\ Waiting(after) = Waiting(rows) \cup {Len(rows) + 1} /\ after[Len(rows) + 1].worth = worth
           /\ DeliveryBack(after) = DeliveryBack(rows) /\ RoundingBack(after) = RoundingBack(rows)
           /\ \A i \in 1..n : TaxBack(after, i) = TaxBack(rows, i)
<1> USE DEF Request
<1>1. PICK len \in Nat : len = Len(rows) /\ DOMAIN rows = 1..len
  BY LenProperties
<1>2. [status |-> "REQUESTED", worth |-> worth] \in Row(n)
  BY DEF Row
<1>3. /\ after \in Seq(Row(n)) /\ DOMAIN after = 1..(len + 1)
      /\ \A s \in 1..len : after[s] = rows[s]
      /\ after[len + 1] = [status |-> "REQUESTED", worth |-> worth]
  BY <1>1, <1>2, AppendProperties, LenProperties DEF Request
<1>4. DOMAIN after = DOMAIN rows \cup {len + 1}
  BY <1>1, <1>3
<1>5. Waiting(after) = Waiting(rows) \cup {len + 1}
  BY <1>1, <1>3, <1>4 DEF Waiting
<1>6. Done(after) = Done(rows) /\ \A s \in Done(rows) : after[s] = rows[s]
  BY <1>1, <1>3, <1>4 DEF Done
<1>7. DeliveryBack(after) = DeliveryBack(rows)
  <2>1. [r \in Done(after) |-> after[r].worth.shipping] = [r \in Done(rows) |-> rows[r].worth.shipping]
    BY <1>6
  <2> QED
    BY <2>1 DEF DeliveryBack
<1>8. RoundingBack(after) = RoundingBack(rows)
  <2>1. [r \in Done(after) |-> after[r].worth.rounding] = [r \in Done(rows) |-> rows[r].worth.rounding]
    BY <1>6
  <2> QED
    BY <2>1 DEF RoundingBack
<1>9. ASSUME NEW i \in 1..n PROVE TaxBack(after, i) = TaxBack(rows, i)
  <2>1. [r \in Done(after) |-> after[r].worth.lines[i].tax] = [r \in Done(rows) |-> rows[r].worth.lines[i].tax]
    BY <1>6
  <2> QED
    BY <2>1 DEF TaxBack
<1> QED
  BY <1>1, <1>3, <1>5, <1>7, <1>8, <1>9

\* What a refund does to a line of an order.
LineAfter(line, b, part) ==
    IF /\ b.qty + part.qty <= line.qty
       /\ b.amount + part.amount <= line.total
    THEN [qty |-> b.qty + part.qty, amount |-> b.amount + part.amount]
    ELSE b

\* A line that gives some pieces back: it stays within what it cost.
LEMMA LineIsTaken ==
    ASSUME NEW line \in OrderLine, NEW b \in LineRefund, Within(line, b), NEW k \in Nat,
           k <= RemainingQty(line, b), NEW part, part = PartOf(line, b, k),
           NEW back2, back2 = LineAfter(line, b, part)
    PROVE  /\ part \in RefundPart
           /\ back2 \in LineRefund /\ back2.qty = b.qty + k /\ back2.amount = b.amount + part.amount
           /\ Within(line, back2)
           /\ line.tax <= line.total =>
                part.tax - (Due(line, back2.amount) - Due(line, b.amount)) \in -k..k
           /\ back2.qty = line.qty <=> k >= RemainingQty(line, b)
           /\ k > 0 => b.qty # line.qty
<1>1. /\ part \in RefundPart /\ part.qty = k /\ b.qty + k <= line.qty
      /\ b.amount + part.amount <= line.total
      /\ b.qty + k = line.qty => b.amount + part.amount = line.total
      /\ line.tax <= line.total =>
           part.tax - (Due(line, b.amount + part.amount) - Due(line, b.amount)) \in -k..k
  BY PartFits
<1>2. back2 = [qty |-> b.qty + k, amount |-> b.amount + part.amount]
  BY <1>1 DEF LineAfter
<1>3. b.qty \in Nat /\ b.amount \in Nat /\ part.amount \in Nat /\ line.qty \in Nat /\ b.qty <= line.qty
  BY <1>1 DEF LineRefund, RefundPart, OrderLine, Within
<1>4. back2.qty = b.qty + k /\ back2.amount = b.amount + part.amount
  BY <1>2
<1>5. back2 \in LineRefund
  BY <1>2, <1>3 DEF LineRefund
<1>6. Within(line, back2)
  BY <1>1, <1>4 DEF Within
<1>7. (back2.qty = line.qty <=> k >= RemainingQty(line, b)) /\ (k > 0 => b.qty # line.qty)
  BY <1>1, <1>3, <1>4 DEF RemainingQty, AtLeastZero
<1> QED
  BY <1>1, <1>4, <1>5, <1>6, <1>7

\* What the lines gave grows by what the refund gives for them.
LEMMA AmountsAdd ==
    ASSUME NEW n \in Nat, NEW b \in [1..n -> LineRefund], NEW back2 \in [1..n -> LineRefund],
           NEW part \in [1..n -> RefundPart],
           \A i \in 1..n : back2[i].amount = b[i].amount + part[i].amount
    PROVE  /\ AmountBack(b) \in Nat
           /\ AmountBack(back2) = AmountBack(b) + LinesTotal(n, part)
<1>1. PICK f : f = [i \in DOMAIN b |-> b[i].amount]
  OBVIOUS
<1>2. PICK g : g = [i \in 1..n |-> part[i].amount] /\ LinesTotal(n, part) = Total(g)
  BY DEF LinesTotal
<1>3. PICK h : h = [i \in DOMAIN back2 |-> back2[i].amount]
  OBVIOUS
<1>4. PICK all : all = 1..n
  OBVIOUS
<1>5. IsFiniteSet(all) /\ DOMAIN f = all /\ DOMAIN g = all /\ DOMAIN h = all
  BY <1>1, <1>2, <1>3, <1>4, FS_Interval
<1>6. \A i \in all : f[i] \in Nat /\ g[i] \in Nat
  BY <1>1, <1>2, <1>4 DEF LineRefund, RefundPart
<1>7. \A i \in all : h[i] = f[i] + g[i]
  BY <1>1, <1>2, <1>3, <1>4
<1>8. AddsOn(all, h, f, g)
  BY <1>6, <1>7 DEF AddsOn
<1>9. SumFunctionOnSet(h, all) = SumFunctionOnSet(f, all) + SumFunctionOnSet(g, all)
  BY <1>5, <1>8, SumOfSums
<1>10. SumFunctionOnSet(f, all) \in Nat
  BY <1>5, <1>6, SumIsNat
<1>11. AmountBack(b) = Total(f) /\ AmountBack(back2) = Total(h)
  BY <1>1, <1>3 DEF AmountBack
<1> QED
  BY <1>2, <1>5, <1>9, <1>10, <1>11, TotalIs

LinesAfter(n, quote, b, worth, back2) ==
    back2 = [i \in 1..n |-> LineAfter(quote.lines[i], b[i], worth.lines[i])]

\* Two drifts add up.
LEMMA DriftAdds ==
    ASSUME NEW q \in Nat, NEW k \in Nat, NEW x \in Int, NEW y \in Int, NEW before \in Int, NEW now \in Int,
           x - before \in -q..q, y - (now - before) \in -k..k
    PROVE  (x + y) - now \in -(q + k)..(q + k)
OBVIOUS

LEMMA PartsAdd ==
    ASSUME NEW a \in Int, NEW d \in Int, NEW o \in Int, NEW x \in Int, NEW y \in Int, NEW z \in Int
    PROVE  (a + d + o) + (x + y + z) = (a + x) + (d + y) + (o + z)
OBVIOUS

\* A refund that was worked out for the order as it is keeps the books when it is executed.
LEMMA ExecutedKeepsBooks ==
    ASSUME NEW n \in Nat \ {0}, NEW quote, NEW b, NEW rows, NEW returned,
           OrderInv(n, quote, b, rows, returned),
           NEW r \in Waiting(rows), NEW worth, worth = rows[r].worth,
           NEW after, Execution(rows, r, after),
           NEW back2, LinesAfter(n, quote, b, worth, back2)
    PROVE  OrderInv(n, quote, back2, after, returned + worth.total)
<1>1. /\ quote \in Quote(n) /\ AddsUp(quote) /\ Total(CouponsOf(quote.lines)) = quote.couponDiscount
      /\ b \in [1..n -> LineRefund] /\ rows \in Seq(Row(n))
      /\ \A i \in 1..n : Within(quote.lines[i], b[i])
      /\ \A s, t \in Waiting(rows) : s = t
  BY DEF OrderInv
<1>2. Books(n, quote, b, rows, returned)
  BY DEF OrderInv
<1>3. PICK wanted \in [1..n -> Nat], shipping \in Deliveries :
        worth = RefundOf(quote, b, returned, 0, wanted, shipping) /\ worth.granted
  <2>1. Fresh(n, quote, b, returned, worth)
    BY DEF OrderInv
  <2>2. PICK wanted \in [1..n -> PiecesAsked], shipping \in Deliveries :
          worth = RefundOf(quote, b, returned, 0, wanted, shipping)
    BY <2>1 DEF Fresh
  <2>3. wanted \in [1..n -> Nat]
    BY DEF PiecesAsked
  <2> QED
    BY <2>1, <2>2, <2>3 DEF Fresh
<1>4. returned \in Nat
  BY <1>1, <1>2 DEF Books, Quote
<1>5. /\ worth \in Worth(n)
      /\ \A i \in 1..n : /\ worth.lines[i] = PartOf(quote.lines[i], b[i], wanted[i])
                         /\ wanted[i] <= RemainingQty(quote.lines[i], b[i])
      /\ worth.total = LinesTotal(n, worth.lines) + worth.shipping + worth.rounding
      /\ worth.rounding = IF \A i \in 1..n : wanted[i] >= RemainingQty(quote.lines[i], b[i])
                          THEN quote.rounding ELSE 0
      /\ \E i \in 1..n : wanted[i] > 0
      /\ returned + worth.total <= quote.grand
  <2>1. quote \in Quote(n) /\ b \in [1..n -> LineRefund] /\ \A i \in 1..n : Within(quote.lines[i], b[i])
    BY <1>1
  <2>2. worth = RefundOf(quote, b, returned, 0, wanted, shipping) /\ worth.granted
    BY <1>3
  <2>3. Granted(n, quote, b, returned, wanted, shipping, worth)
    BY <1>4, <2>1, <2>2 DEF Granted
  <2> QED
    BY SMTT(30), <2>3, RefundParts
<1>6. \A i \in 1..n :
        /\ worth.lines[i] \in RefundPart
        /\ back2[i] \in LineRefund /\ back2[i].qty = b[i].qty + wanted[i]
        /\ back2[i].amount = b[i].amount + worth.lines[i].amount
        /\ Within(quote.lines[i], back2[i])
        /\ quote.lines[i].tax <= quote.lines[i].total =>
             worth.lines[i].tax - (Due(quote.lines[i], back2[i].amount) - Due(quote.lines[i], b[i].amount))
                \in -wanted[i]..wanted[i]
        /\ back2[i].qty = quote.lines[i].qty <=> wanted[i] >= RemainingQty(quote.lines[i], b[i])
        /\ wanted[i] > 0 => b[i].qty # quote.lines[i].qty
  <2> SUFFICES ASSUME NEW i \in 1..n
               PROVE  /\ worth.lines[i] \in RefundPart
                      /\ back2[i] \in LineRefund /\ back2[i].qty = b[i].qty + wanted[i]
                      /\ back2[i].amount = b[i].amount + worth.lines[i].amount
                      /\ Within(quote.lines[i], back2[i])
                      /\ quote.lines[i].tax <= quote.lines[i].total =>
                           worth.lines[i].tax
                             - (Due(quote.lines[i], back2[i].amount) - Due(quote.lines[i], b[i].amount))
                              \in -wanted[i]..wanted[i]
                      /\ back2[i].qty = quote.lines[i].qty
                           <=> wanted[i] >= RemainingQty(quote.lines[i], b[i])
                      /\ wanted[i] > 0 => b[i].qty # quote.lines[i].qty
    OBVIOUS
  <2>1. PICK line \in OrderLine, was \in LineRefund, k \in Nat :
          line = quote.lines[i] /\ was = b[i] /\ k = wanted[i]
    BY <1>1 DEF Quote
  <2>2. PICK part, now : part = worth.lines[i] /\ now = back2[i]
    OBVIOUS
  <2>3. Within(line, was) /\ k <= RemainingQty(line, was) /\ part = PartOf(line, was, k)
        /\ now = LineAfter(line, was, part)
    BY <1>1, <1>5, <2>1, <2>2 DEF LinesAfter
  <2>4. /\ part \in RefundPart
        /\ now \in LineRefund /\ now.qty = was.qty + k /\ now.amount = was.amount + part.amount
        /\ Within(line, now)
        /\ line.tax <= line.total =>
             part.tax - (Due(line, now.amount) - Due(line, was.amount)) \in -k..k
        /\ now.qty = line.qty <=> k >= RemainingQty(line, was)
        /\ k > 0 => was.qty # line.qty
    BY <2>3, LineIsTaken
  <2> QED
    BY <2>1, <2>2, <2>4
<1>7. back2 \in [1..n -> LineRefund] /\ worth.lines \in [1..n -> RefundPart]
  <2>1. \A i \in 1..n : back2[i] \in LineRefund
    BY <1>6
  <2> QED
    BY <1>5, <2>1 DEF Worth, LinesAfter
<1>8. /\ AmountBack(b) \in Nat
      /\ AmountBack(back2) = AmountBack(b) + LinesTotal(n, worth.lines)
  <2>1. b \in [1..n -> LineRefund]
    BY <1>1
  <2>2. PICK part \in [1..n -> RefundPart] : part = worth.lines
    BY <1>7
  <2>3. \A i \in 1..n : back2[i].amount = b[i].amount + part[i].amount
    BY <1>6, <2>2
  <2> QED
    BY <1>7, <2>1, <2>2, <2>3, AmountsAdd
<1>9. /\ after \in Seq(Row(n)) /\ Waiting(after) = Waiting(rows) \ {r}
      /\ DeliveryBack(after) = DeliveryBack(rows) + worth.shipping
      /\ RoundingBack(after) = RoundingBack(rows) + worth.rounding
      /\ \A i \in 1..n : TaxBack(after, i) = TaxBack(rows, i) + worth.lines[i].tax
  <2>1. rows \in Seq(Row(n))
    BY <1>1
  <2> QED
    BY <2>1, RowIsExecuted
<1>10. Waiting(after) = {}
  BY <1>1, <1>9
<1>11. /\ DeliveryBack(rows) \in Nat /\ RoundingBack(rows) \in Int
       /\ \A i \in 1..n : TaxBack(rows, i) \in Nat
  BY <1>1, BackIsInt
<1>12. worth.shipping \in Nat /\ worth.rounding \in Int /\ worth.total \in Nat
  BY <1>5 DEF Worth
<1>13. DOMAIN quote.lines = 1..n
  BY <1>1 DEF Quote
<1>14. RoundingBack(rows) = 0
  <2>1. ~AllBack(quote, b)
    BY <1>5, <1>6, <1>13 DEF AllBack
  <2> QED
    BY <1>2, <2>1 DEF Books
<1>15. RoundingBack(after) = IF AllBack(quote, back2) THEN quote.rounding ELSE 0
  <2>2. RoundingBack(after) = worth.rounding
    BY <1>9, <1>12, <1>14
  <2>1. AllBack(quote, back2) <=> \A i \in 1..n : wanted[i] >= RemainingQty(quote.lines[i], b[i])
    BY <1>6, <1>13 DEF AllBack
  <2> QED
    BY <1>5, <2>1, <2>2
<1>16. returned + worth.total = AmountBack(back2) + DeliveryBack(after) + RoundingBack(after)
  <2>1. LinesTotal(n, worth.lines) \in Nat
    <3>1. PICK f : f = [i \in 1..n |-> worth.lines[i].amount]
      OBVIOUS
    <3>2. f \in [1..n -> Nat]
      BY <1>7, <3>1 DEF RefundPart
    <3> QED
      BY <3>1, <3>2, TotalIsNat DEF LinesTotal
  <2>2. returned = AmountBack(b) + DeliveryBack(rows) + RoundingBack(rows)
    BY <1>2 DEF Books
  <2>3. worth.total = LinesTotal(n, worth.lines) + worth.shipping + worth.rounding
    BY <1>5
  <2>4. AmountBack(b) \in Nat /\ AmountBack(back2) = AmountBack(b) + LinesTotal(n, worth.lines)
    BY <1>8
  <2>5. DeliveryBack(after) = DeliveryBack(rows) + worth.shipping
        /\ RoundingBack(after) = RoundingBack(rows) + worth.rounding
    BY <1>9
  <2>9. AmountBack(b) \in Int /\ DeliveryBack(rows) \in Int /\ RoundingBack(rows) \in Int
        /\ LinesTotal(n, worth.lines) \in Int /\ worth.shipping \in Int /\ worth.rounding \in Int
    BY <1>11, <1>12, <2>1, <2>4
  <2>6. PICK a \in Int, d \in Int, o \in Int, x \in Int, y \in Int, z \in Int :
          /\ a = AmountBack(b) /\ d = DeliveryBack(rows) /\ o = RoundingBack(rows)
          /\ x = LinesTotal(n, worth.lines) /\ y = worth.shipping /\ z = worth.rounding
    BY <2>9, Zenon
  <2>7. returned = a + d + o /\ worth.total = x + y + z /\ AmountBack(back2) = a + x
        /\ DeliveryBack(after) = d + y /\ RoundingBack(after) = o + z
    BY <2>2, <2>3, <2>4, <2>5, <2>6
  <2>8. (a + d + o) + (x + y + z) = (a + x) + (d + y) + (o + z)
    BY PartsAdd
  <2> QED
    BY <2>7, <2>8
<1>17. ASSUME NEW i \in 1..n, quote.lines[i].tax <= quote.lines[i].total
       PROVE  TaxBack(after, i) - Due(quote.lines[i], back2[i].amount) \in -back2[i].qty..back2[i].qty
  <2>1. TaxBack(rows, i) - Due(quote.lines[i], b[i].amount) \in -b[i].qty..b[i].qty
    BY <1>2, <1>17 DEF Books
  <2>2. worth.lines[i].tax - (Due(quote.lines[i], back2[i].amount) - Due(quote.lines[i], b[i].amount))
          \in -wanted[i]..wanted[i]
    BY <1>6, <1>17
  <2>3. PICK before \in Int, now \in Int :
          before = Due(quote.lines[i], b[i].amount) /\ now = Due(quote.lines[i], back2[i].amount)
    <3>1. PICK line \in OrderLine : line = quote.lines[i]
      BY <1>1 DEF Quote
    <3>2. b[i].amount \in 0..line.total /\ back2[i].amount \in 0..line.total
      <4>1. line.total \in Nat /\ b[i] \in LineRefund /\ back2[i] \in LineRefund
        BY <1>1, <1>7 DEF OrderLine
      <4>2. b[i].amount <= line.total /\ back2[i].amount <= line.total
        BY <1>1, <1>6, <3>1 DEF Within
      <4> QED
        BY <4>1, <4>2 DEF LineRefund
    <3>3. Due(line, b[i].amount) \in 0..line.tax /\ Due(line, back2[i].amount) \in 0..line.tax
      BY <3>2, DueIs
    <3> QED
      BY <3>1, <3>3
  <2>4. b[i].qty \in Nat /\ wanted[i] \in Nat /\ back2[i].qty = b[i].qty + wanted[i]
    BY <1>1, <1>6 DEF LineRefund
  <2>5. TaxBack(rows, i) \in Nat /\ worth.lines[i].tax \in Nat
        /\ TaxBack(after, i) = TaxBack(rows, i) + worth.lines[i].tax
    BY <1>7, <1>9, <1>11 DEF RefundPart
  <2>6. PICK q \in Nat, k \in Nat, x \in Int, y \in Int :
          q = b[i].qty /\ k = wanted[i] /\ x = TaxBack(rows, i) /\ y = worth.lines[i].tax
    <3>1. TaxBack(rows, i) \in Int /\ worth.lines[i].tax \in Int
      BY <2>5
    <3> QED
      BY <2>4, <3>1, Zenon
  <2>7. x - before \in -q..q /\ y - (now - before) \in -k..k
    BY <2>1, <2>2, <2>3, <2>6
  <2>8. (x + y) - now \in -(q + k)..(q + k)
    BY <2>7, DriftAdds
  <2> QED
    BY <2>3, <2>4, <2>5, <2>6, <2>8
<1>18. returned + worth.total \in 0..quote.grand
  BY <1>1, <1>4, <1>5, <1>12 DEF Quote
<1>19. Books(n, quote, back2, after, returned + worth.total)
  BY <1>15, <1>16, <1>17, <1>18 DEF Books
<1>20. \A i \in 1..n : Within(quote.lines[i], back2[i])
  BY <1>6
<1> QED
  BY <1>1, <1>7, <1>9, <1>10, <1>19, <1>20 DEF OrderInv

\* A refund that is requested when none waits is worked out for the order as it is.
LEMMA RequestedKeepsBooks ==
    ASSUME NEW n \in Nat \ {0}, NEW quote, NEW b, NEW rows, NEW returned,
           OrderInv(n, quote, b, rows, returned), Waiting(rows) = {},
           NEW worth, Fresh(n, quote, b, returned, worth), NEW after, Request(rows, worth, after)
    PROVE  OrderInv(n, quote, b, after, returned)
<1>1. /\ quote \in Quote(n) /\ AddsUp(quote) /\ Total(CouponsOf(quote.lines)) = quote.couponDiscount
      /\ b \in [1..n -> LineRefund] /\ rows \in Seq(Row(n))
      /\ \A i \in 1..n : Within(quote.lines[i], b[i])
  BY DEF OrderInv
<1>2. Books(n, quote, b, rows, returned)
  BY DEF OrderInv
<1>3. worth \in Worth(n)
  <2>1. PICK wanted \in [1..n -> Nat], shipping \in Deliveries :
          worth = RefundOf(quote, b, returned, 0, wanted, shipping) /\ worth.granted
    BY DEF Fresh, PiecesAsked
  <2>2. returned \in Nat
    BY <1>1, <1>2 DEF Books, Quote
  <2>3. Granted(n, quote, b, returned, wanted, shipping, worth)
    BY <1>1, <2>1, <2>2 DEF Granted
  <2> QED
    BY <2>3, RefundParts
<1>4. /\ after \in Seq(Row(n))
      /\ Waiting(after) = Waiting(rows) \cup {Len(rows) + 1} /\ after[Len(rows) + 1].worth = worth
      /\ DeliveryBack(after) = DeliveryBack(rows) /\ RoundingBack(after) = RoundingBack(rows)
      /\ \A i \in 1..n : TaxBack(after, i) = TaxBack(rows, i)
  <2>1. rows \in Seq(Row(n))
    BY <1>1
  <2> QED
    BY <1>3, <2>1, RowIsAppended
<1>5. Books(n, quote, b, after, returned)
  BY <1>2, <1>4 DEF Books
<1>7. /\ \A r \in Waiting(after) : Fresh(n, quote, b, returned, after[r].worth)
      /\ \A r, s \in Waiting(after) : r = s
  BY <1>4
<1> QED
  BY <1>1, <1>4, <1>5, <1>7 DEF OrderInv

\* Nothing has gone back of an order that has just been placed.
LEMMA PlacedKeepsBooks ==
    ASSUME NEW n \in Nat \ {0}, NEW quote \in Quote(n), AddsUp(quote),
           Total(CouponsOf(quote.lines)) = quote.couponDiscount,
           NEW b, b = [i \in 1..n |-> [qty |-> 0, amount |-> 0]]
    PROVE  OrderInv(n, quote, b, <<>>, 0)
<1>1. \A i \in 1..n : b[i].qty = 0 /\ b[i].amount = 0
  OBVIOUS
<1>2. b \in [1..n -> LineRefund]
  BY DEF LineRefund
<1>3. \A i \in 1..n : quote.lines[i].qty \in Nat \ {0} /\ quote.lines[i].total \in Nat
  BY DEF Quote, OrderLine
<1>4. \A i \in 1..n : Within(quote.lines[i], b[i])
  BY <1>1, <1>3 DEF Within
<1>5. Done(<<>>) = {} /\ Waiting(<<>>) = {} /\ <<>> \in Seq(Row(n))
  BY EmptySeq DEF Done, Waiting
<1>6. DeliveryBack(<<>>) = 0 /\ RoundingBack(<<>>) = 0 /\ \A i \in 1..n : TaxBack(<<>>, i) = 0
  <2>1. ASSUME NEW f, DOMAIN f = {} PROVE Total(f) = 0
    BY <2>1, TotalIs, SumOfNone
  <2>2. DeliveryBack(<<>>) = 0
    <3> DEFINE f == [r \in Done(<<>>) |-> <<>>[r].worth.shipping]
    <3>1. DOMAIN f = {}
      BY <1>5
    <3> HIDE DEF f
    <3>2. Total(f) = 0
      BY <2>1, <3>1
    <3> QED
      BY <3>2 DEF f, DeliveryBack
  <2>3. RoundingBack(<<>>) = 0
    <3> DEFINE f == [r \in Done(<<>>) |-> <<>>[r].worth.rounding]
    <3>1. DOMAIN f = {}
      BY <1>5
    <3> HIDE DEF f
    <3>2. Total(f) = 0
      BY <2>1, <3>1
    <3> QED
      BY <3>2 DEF f, RoundingBack
  <2>4. ASSUME NEW i \in 1..n PROVE TaxBack(<<>>, i) = 0
    <3> DEFINE f == [r \in Done(<<>>) |-> <<>>[r].worth.lines[i].tax]
    <3>1. DOMAIN f = {}
      BY <1>5
    <3> HIDE DEF f
    <3>2. Total(f) = 0
      BY <2>1, <3>1
    <3> QED
      BY <3>2 DEF f, TaxBack
  <2> QED
    BY <2>2, <2>3, <2>4
<1>7. AmountBack(b) = 0
  <2>1. PICK f : f = [i \in DOMAIN b |-> b[i].amount]
    OBVIOUS
  <2>2. PICK all : all = 1..n
    OBVIOUS
  <2>3. IsFiniteSet(all) /\ DOMAIN f = all /\ \A i \in all : f[i] = 0
    BY <1>1, <2>1, <2>2, FS_Interval
  <2>4. SumFunctionOnSet(f, all) = 0
    BY <2>3, SumOfNothings
  <2> QED
    BY <2>1, <2>3, <2>4, TotalIs DEF AmountBack
<1>8. ~AllBack(quote, b)
  <2>1. DOMAIN quote.lines = 1..n /\ 1 \in 1..n
    BY DEF Quote
  <2>2. b[1].qty # quote.lines[1].qty
    BY <1>1, <1>3, <2>1
  <2> QED
    BY <2>1, <2>2 DEF AllBack
<1>9. \A i \in 1..n : TaxBack(<<>>, i) - Due(quote.lines[i], b[i].amount) \in -b[i].qty..b[i].qty
  <2> SUFFICES ASSUME NEW i \in 1..n
               PROVE  TaxBack(<<>>, i) - Due(quote.lines[i], b[i].amount) \in -b[i].qty..b[i].qty
    OBVIOUS
  <2>1. Due(quote.lines[i], b[i].amount) = 0
    BY <1>1, <1>3 DEF Due, ProportionOf
  <2> QED
    BY <1>1, <1>6, <2>1
<1>10. 0 \in 0..quote.grand
  BY DEF Quote
<1>11. Books(n, quote, b, <<>>, 0)
  BY <1>6, <1>7, <1>8, <1>9, <1>10 DEF Books
<1> QED
  BY <1>2, <1>4, <1>5, <1>11 DEF OrderInv

\* With all its pieces back and its delivery given back once, an order is worth nothing more.
LEMMA AllIsReturned ==
    ASSUME NEW n \in Nat \ {0}, NEW quote, NEW b, NEW rows, NEW returned,
           OrderInv(n, quote, b, rows, returned), AllBack(quote, b), DeliveryBack(rows) = quote.shipping
    PROVE  returned = quote.grand
<1>1. quote \in Quote(n) /\ AddsUp(quote) /\ b \in [1..n -> LineRefund]
      /\ \A i \in 1..n : Within(quote.lines[i], b[i])
  BY DEF OrderInv
<1>2. returned = AmountBack(b) + DeliveryBack(rows) + RoundingBack(rows) /\ RoundingBack(rows) = quote.rounding
  BY DEF OrderInv, Books
<1>3. DOMAIN quote.lines = 1..n
  BY <1>1 DEF Quote
<1>4. \A i \in 1..n : b[i].amount = quote.lines[i].total
  BY <1>1, <1>3 DEF AllBack, Within
<1>5. [i \in DOMAIN b |-> b[i].amount] = [i \in DOMAIN quote.lines |-> quote.lines[i].total]
  BY <1>1, <1>3, <1>4
<1>6. AmountBack(b) = Total([i \in DOMAIN quote.lines |-> quote.lines[i].total])
  BY <1>5 DEF AmountBack
<1> QED
  BY <1>1, <1>2, <1>6 DEF AddsUp

-------------------------------------------------------------------------------
\* The steps of the specification keep the invariant.
LEMMA MoneyStarts == MoneyInit => MoneyInv
BY DEF MoneyInit, MoneyInv, Billed

LEMMA PlaceOrderKeeps ==
    ASSUME MoneyInv, PlaceOrder PROVE MoneyInv'
<1>1. requested = <<>> /\ refunded = 0 /\ requested' = <<>> /\ refunded' = 0
  BY DEF MoneyInv, PlaceOrder
<1>2. PICK basket \in Baskets : /\ bill' = QuoteOf(basket)
                                /\ back' = [i \in DOMAIN basket.lines |-> [qty |-> 0, amount |-> 0]]
  BY DEF PlaceOrder
<1>3. basket \in Basket /\ FiniteChoices(basket)
  BY BasketsAssumption
<1>4. PICK n \in Nat \ {0} : /\ DOMAIN basket.lines = 1..n /\ QuoteOf(basket) \in Quote(n)
                             /\ AddsUp(QuoteOf(basket))
                             /\ Total(CouponsOf(QuoteOf(basket).lines)) = QuoteOf(basket).couponDiscount
  BY <1>3, QuoteIsExact
<1>5. PICK quote \in Quote(n) : quote = QuoteOf(basket)
  BY <1>4
<1>6. PICK b : b = [i \in 1..n |-> [qty |-> 0, amount |-> 0]]
  OBVIOUS
<1>7. OrderInv(n, quote, b, <<>>, 0)
  BY <1>4, <1>5, <1>6, PlacedKeepsBooks
<1>8. Len(quote.lines) = n /\ quote # <<>>
  <2>1. quote.lines \in [1..n -> OrderLine]
    BY DEF Quote
  <2>2. DOMAIN quote # {}
    BY DEF Quote
  <2>3. quote # <<>>
    BY <2>2
  <2> QED
    BY <2>1, <2>3, FunctionIsSequence
<1>9. bill' = quote /\ back' = b
  BY <1>2, <1>4, <1>5, <1>6
<1> QED
  BY <1>1, <1>7, <1>8, <1>9 DEF MoneyInv, Billed

LEMMA FreezeRefundKeeps ==
    ASSUME MaxAwaiting = 1, MoneyInv, FreezeRefund PROVE MoneyInv'
<1>1. Billed /\ bill' = bill /\ back' = back /\ refunded' = refunded
  BY DEF FreezeRefund
<1>2. PICK n \in Nat \ {0} : n = Len(bill.lines)
  BY <1>1 DEF MoneyInv
<1>3. OrderInv(n, bill, back, requested, refunded)
  BY <1>1, <1>2 DEF MoneyInv
<1>4. DOMAIN bill.lines = 1..n /\ requested \in Seq(Row(n))
  BY <1>3 DEF OrderInv, Quote
<1>5. PICK wanted \in [1..n -> PiecesAsked], shipping \in Deliveries :
        LET worth == RefundOf(bill, back, refunded, 0, wanted, shipping)
        IN  /\ worth.granted
            /\ requested' = Append(requested, [status |-> "REQUESTED", worth |-> worth])
  BY <1>4 DEF FreezeRefund, Deliveries
<1>6. PICK worth : worth = RefundOf(bill, back, refunded, 0, wanted, shipping)
  OBVIOUS
<1>7. worth.granted /\ requested' = Append(requested, [status |-> "REQUESTED", worth |-> worth])
  BY <1>5, <1>6
<1>8. Waiting(requested) = {}
  <2>1. Cardinality(Waiting(requested)) < 1
    BY DEF FreezeRefund, Waiting
  <2>2. IsFiniteSet(Waiting(requested))
    <3>1. PICK len \in Nat : DOMAIN requested = 1..len
      BY <1>4, LenProperties
    <3>2. Waiting(requested) \subseteq 1..len
      BY <3>1 DEF Waiting
    <3> QED
      BY <3>1, <3>2, FS_Interval, FS_Subset
  <2>3. Cardinality(Waiting(requested)) = 0
    BY <2>1, <2>2, FS_CardinalityType
  <2> QED
    BY <2>2, <2>3, FS_EmptySet
<1>9. OrderInv(n, bill, back, requested', refunded)
  <2>1. PICK quote, b, rows, returned, after :
          quote = bill /\ b = back /\ rows = requested /\ returned = refunded /\ after = requested'
    OBVIOUS
  <2>2. OrderInv(n, quote, b, after, returned)
    <3>1. Fresh(n, quote, b, returned, worth)
      BY <1>6, <1>7, <2>1 DEF Fresh
    <3>2. OrderInv(n, quote, b, rows, returned) /\ Waiting(rows) = {} /\ Request(rows, worth, after)
      BY <1>3, <1>7, <1>8, <2>1 DEF Request
    <3> QED
      BY <3>1, <3>2, RequestedKeepsBooks
  <2> QED
    BY <2>1, <2>2
<1> QED
  BY <1>1, <1>2, <1>9 DEF MoneyInv, Billed

LEMMA ExecuteRefundKeeps ==
    ASSUME MoneyInv, NEW r \in DOMAIN requested, ExecuteRefund(r) PROVE MoneyInv'
<1>1. Billed
  BY DEF MoneyInv
<1>2. PICK n \in Nat \ {0} : n = Len(bill.lines)
  BY <1>1 DEF MoneyInv
<1>3. OrderInv(n, bill, back, requested, refunded)
  BY <1>1, <1>2 DEF MoneyInv
<1>4. PICK worth : worth = requested[r].worth
  OBVIOUS
<1>5. /\ r \in Waiting(requested) /\ Execution(requested, r, requested') /\ bill' = bill
      /\ refunded' = refunded + worth.total
  BY <1>4 DEF ExecuteRefund, Waiting, Execution
<1>6. LinesAfter(n, bill, back, worth, back')
  <2>1. DOMAIN back = 1..n
    BY <1>3 DEF OrderInv
  <2>2. back' = [i \in 1..n |-> BackAfter(i, worth.lines[i])]
    BY <1>4, <2>1 DEF ExecuteRefund
  <2>3. \A i \in 1..n : BackAfter(i, worth.lines[i]) = LineAfter(bill.lines[i], back[i], worth.lines[i])
    BY DEF BackAfter, LineAfter
  <2> QED
    BY <2>2, <2>3 DEF LinesAfter
<1>7. OrderInv(n, bill, back', requested', refunded + worth.total)
  <2>1. PICK quote, b, rows, returned, after, back2 :
          /\ quote = bill /\ b = back /\ rows = requested /\ returned = refunded
          /\ after = requested' /\ back2 = back'
    OBVIOUS
  <2>2. OrderInv(n, quote, b, rows, returned) /\ r \in Waiting(rows) /\ worth = rows[r].worth
        /\ Execution(rows, r, after) /\ LinesAfter(n, quote, b, worth, back2)
    BY <1>3, <1>4, <1>5, <1>6, <2>1
  <2>3. OrderInv(n, quote, back2, after, returned + worth.total)
    BY <2>2, ExecutedKeepsBooks
  <2> QED
    BY <2>1, <2>3
<1> QED
  BY <1>1, <1>2, <1>5, <1>7 DEF MoneyInv, Billed

LEMMA MoneyInvHolds == MaxAwaiting = 1 => (MoneySpec => []MoneyInv)
<1> SUFFICES ASSUME MaxAwaiting = 1 PROVE MoneySpec => []MoneyInv
  OBVIOUS
<1>1. MoneyInv /\ [MoneyNext]_moneyVars => MoneyInv'
  <2> SUFFICES ASSUME MoneyInv, [MoneyNext]_moneyVars PROVE MoneyInv'
    OBVIOUS
  <2>1. CASE PlaceOrder
    BY <2>1, PlaceOrderKeeps
  <2>2. CASE FreezeRefund
    BY <2>2, FreezeRefundKeeps
  <2>3. ASSUME NEW r \in DOMAIN requested, ExecuteRefund(r) PROVE MoneyInv'
    BY <2>3, ExecuteRefundKeeps
  <2>4. CASE UNCHANGED moneyVars
    BY <2>4 DEF moneyVars, MoneyInv, Billed
  <2> QED
    BY <2>1, <2>2, <2>3, <2>4 DEF MoneyNext
<1> QED
  BY <1>1, MoneyStarts, PTL DEF MoneySpec

\* The money of one order adds up, whatever is ordered and however often pieces of it go
\* back, as long as a refund is worked out only when none waits to be executed: what a
\* shopper, or an operator, does who waits for a refund before the next is asked for.
THEOREM OrderMoneyIsExact == MaxAwaiting = 1 => (MoneySpec => []OrderMoneyAddsUp)
<1>1. MoneyInv => OrderMoneyAddsUp
  <2> SUFFICES ASSUME MoneyInv PROVE OrderMoneyAddsUp
    OBVIOUS
  <2>1. CASE ~Billed
    <3>1. DOMAIN requested = {} /\ refunded = 0
      BY <2>1 DEF MoneyInv
    <3> QED
      BY <2>1, <3>1 DEF OrderMoneyAddsUp, MoneyTypeOK, QuoteAddsUp, RefundsReturnTheRest, TaxGoesBack
  <2>2. CASE Billed
    <3>1. PICK n \in Nat \ {0} : n = Len(bill.lines)
      BY <2>2 DEF MoneyInv
    <3>2. OrderInv(n, bill, back, requested, refunded)
      BY <2>2, <3>1 DEF MoneyInv
    <3>3. /\ bill \in Quote(n) /\ AddsUp(bill) /\ Total(CouponsOf(bill.lines)) = bill.couponDiscount
          /\ back \in [1..n -> LineRefund] /\ \A i \in 1..n : Within(bill.lines[i], back[i])
          /\ requested \in Seq(Row(n)) /\ Books(n, bill, back, requested, refunded)
      BY <3>2 DEF OrderInv
    <3>4. DOMAIN bill.lines = 1..n /\ DOMAIN back = 1..n /\ refunded \in Nat /\ refunded <= bill.grand
      BY <3>3 DEF Quote, Books
    <3>5. Executed = Done(requested)
      BY DEF Executed, Done
    <3>6. MoneyTypeOK
      <4>1. \A r \in DOMAIN requested : requested[r].status \in {"REQUESTED", "PROCESSED"}
        BY <3>3, RowsHold DEF Row
      <4> QED
        BY <3>3, <3>4, <4>1 DEF MoneyTypeOK
    <3>7. QuoteAddsUp
      <4>1. \A i \in 1..n : bill.lines[i] \in OrderLine
        BY <3>3 DEF Quote
      <4>2. ASSUME NEW i \in 1..n
            PROVE  /\ bill.lines[i].discount \in 0..bill.lines[i].subtotal
                   /\ bill.lines[i].split.cgst + bill.lines[i].split.sgst + bill.lines[i].split.igst
                        = bill.lines[i].tax
        BY <4>1 DEF OrderLine
      <4> QED
        BY <3>3, <3>4, <4>2 DEF QuoteAddsUp, CouponsOf
    <3>8. RefundsReturnTheRest
      <4>1. /\ SumOver(Executed, LAMBDA w : w.shipping) = DeliveryBack(requested)
            /\ SumOver(Executed, LAMBDA w : w.rounding) = RoundingBack(requested)
        BY <3>5 DEF SumOver, DeliveryBack, RoundingBack
      <4>2. refunded = AmountBack(back) + DeliveryBack(requested) + RoundingBack(requested)
        BY <3>3 DEF Books
      <4>3. AllBack(bill, back) /\ DeliveryBack(requested) = bill.shipping => refunded = bill.grand
        BY <3>2, AllIsReturned
      <4> QED
        BY <3>3, <3>4, <4>1, <4>2, <4>3 DEF RefundsReturnTheRest, AmountBack, AllBack, Within
    <3>9. TaxGoesBack
      <4>1. ASSUME NEW i \in 1..n PROVE SumOver(Executed, LAMBDA w : w.lines[i].tax) = TaxBack(requested, i)
        BY <3>5 DEF SumOver, TaxBack
      <4> QED
        BY <3>3, <3>4, <4>1 DEF TaxGoesBack, Books, Due
    <3> QED
      BY <3>6, <3>7, <3>8, <3>9 DEF OrderMoneyAddsUp
  <2> QED
    BY <2>1, <2>2
<1> QED
  BY <1>1, MoneyInvHolds, PTL
===============================================================================
