------------------------ MODULE ResultAggregationProofs ------------------------
(***************************************************************************)
(* Proofs about ResultAggregation, for any plans, bounds and numbers of    *)
(* results.                                                                *)
(*                                                                         *)
(* The state says little: the inductive invariant IInv is that the results *)
(* fit the plan, and that the RunResult is what aggregate() computes of    *)
(* them.  The rest is about what it computes, which is made of sums,       *)
(* products and a concatenation over lists of any length.  They are folds, *)
(* so the first part shows what a fold over a finite set satisfies: taking *)
(* any element out of the set takes its value out of the sum (TotalStep),  *)
(* or out of the product (ProductStep).  Induction is by a smallest        *)
(* counterexample, a set or a number (SmallestSubset, LeastNumber).        *)
(*                                                                         *)
(* Then, in this order: round() and sorted(); OrderIrrelevant; the types   *)
(* of the merges, with the weight of a concatenated bitstring as a product *)
(* (WeightsAreProducts), and TypeCorrect; the places of qubits in the      *)
(* bitstrings, and OnlyMeasured; results that are certain, and Faithful.   *)
(***************************************************************************)
EXTENDS ResultAggregation, FiniteSetTheorems, FunctionTheorems, WellFoundedInduction, TLAPS

-------------------------------------------------------------------------------
(* Induction, over sets and numbers: what holds of something holds of a        *)
(* smallest one.                                                               *)
Family(T, S) == T \subseteq SUBSET S /\ T # {}
Smallest(x, T) == x \in T /\ \A y \in T : y \subseteq x => y = x

LEMMA SmallestSubset ==
    ASSUME NEW S, IsFiniteSet(S), NEW T, Family(T, S)
    PROVE  \E x : Smallest(x, T)
<1>1. T \subseteq FiniteSubsetsOf(S)
  BY FS_Subset DEF FiniteSubsetsOf, Family
<1>2. \E x \in T : \A y \in T : <<y, x>> \notin StrictSubsetOrdering(S)
  BY <1>1, FS_StrictSubsetOrderingWellFounded, WFMin DEF Family
<1> QED BY <1>2 DEF StrictSubsetOrdering, Smallest, Family

LEMMA LeastNumber ==
    ASSUME NEW T, T \subseteq Nat, T # {}
    PROVE  \E x \in T : \A y \in T : x <= y
<1>1. PICK m \in T : TRUE
  OBVIOUS
<1> DEFINE Below == {0..x : x \in {y \in T : y <= m}}
<1>2. IsFiniteSet(0..m)
  BY FS_Interval, <1>1
<1>3. Family(Below, 0..m)
  BY <1>1 DEF Family
<1>4. PICK b : Smallest(b, Below)
  <2> HIDE DEF Below
  <2> QED BY <1>2, <1>3, SmallestSubset
<1>5. PICK x \in T : x <= m /\ b = 0..x
  BY <1>4 DEF Smallest
<1>6. ASSUME NEW y \in T, y < x
      PROVE  FALSE
  <2>1. 0..y \in Below /\ 0..y \subseteq 0..x /\ x \in 0..x /\ x \notin 0..y
    BY <1>5, <1>6
  <2> QED BY <2>1, <1>4, <1>5 DEF Smallest
<1> QED BY <1>5, <1>6

-------------------------------------------------------------------------------
(* Folds over finite sets                                                      *)
\* g folds op over the subsets of S, from base, one picked element after another
IsFold(g, S, V, pick, op, base) ==
    /\ g \in [SUBSET S -> V]
    /\ \A s \in SUBSET S :
          g[s] = IF s = {} THEN base ELSE op[pick[s]][g[s \ {pick[s]}]]

LEMMA FoldUnique ==
    ASSUME NEW S, IsFiniteSet(S), NEW V, NEW base, NEW pick, NEW op,
           \A s \in SUBSET S : s # {} => pick[s] \in s,
           NEW U \in SUBSET S, NEW W \in SUBSET S, NEW g, NEW h,
           IsFold(g, U, V, pick, op, base), IsFold(h, W, V, pick, op, base),
           NEW s \in SUBSET U, s \in SUBSET W
    PROVE  g[s] = h[s]
<1> DEFINE Bad == {t \in SUBSET s : g[t] # h[t]}
<1>1. SUFFICES ASSUME Bad # {} PROVE FALSE
  OBVIOUS
<1>2. IsFiniteSet(s)
  BY FS_Subset
<1>3. PICK t : Smallest(t, Bad)
  <2>1. Family(Bad, s)
    BY <1>1 DEF Family
  <2> HIDE DEF Bad
  <2> QED BY <2>1, <1>2, SmallestSubset
<1>4. t # {} /\ t \in Bad
  BY <1>3 DEF IsFold, Smallest
<1>5. pick[t] \in t
  BY <1>4
<1>6. t \ {pick[t]} \notin Bad
  BY <1>3, <1>5 DEF Smallest
<1>7. g[t \ {pick[t]}] = h[t \ {pick[t]}]
  BY <1>4, <1>6
<1> QED BY <1>4, <1>7 DEF IsFold

LEMMA FoldExists ==
    ASSUME NEW S, IsFiniteSet(S), NEW V, NEW base \in V, NEW pick, NEW op,
           \A s \in SUBSET S : s # {} => pick[s] \in s,
           \A x \in S, v \in V : op[x][v] \in V
    PROVE  \E g : IsFold(g, S, V, pick, op, base)
<1> DEFINE Bad == {U \in SUBSET S : \A g : ~IsFold(g, U, V, pick, op, base)}
           H(U) == (CHOOSE g : IsFold(g, U, V, pick, op, base))[U]
<1>1. SUFFICES ASSUME Bad # {} PROVE FALSE
  OBVIOUS
<1>2. PICK U : Smallest(U, Bad)
  <2>1. Family(Bad, S)
    BY <1>1 DEF Family
  <2> HIDE DEF Bad
  <2> QED BY <2>1, SmallestSubset
<1> U \in SUBSET S
  BY <1>2 DEF Smallest
<1> DEFINE g == [s \in SUBSET U |->
                    IF s = {} THEN base ELSE op[pick[s]][H(s \ {pick[s]})]]
<1>3. ASSUME NEW s \in SUBSET U, s # U
      PROVE  \E h : /\ IsFold(h, s, V, pick, op, base) /\ H(s) = h[s]
                    /\ H(s) \in V
  <2>1. s \notin Bad
    BY <1>2, <1>3 DEF Smallest
  <2>2. IsFold(CHOOSE h : IsFold(h, s, V, pick, op, base), s, V, pick, op, base)
    BY <2>1
  <2>3. (CHOOSE h : IsFold(h, s, V, pick, op, base))[s] \in V
    BY <2>2 DEF IsFold
  <2> QED BY <2>2, <2>3
<1>4. ASSUME NEW s \in SUBSET U, s # U
      PROVE  g[s] = H(s)
  <2>1. PICK h : IsFold(h, s, V, pick, op, base) /\ H(s) = h[s]
    BY <1>3, <1>4
  <2>2. CASE s = {}
    BY <2>1, <2>2 DEF IsFold
  <2>3. CASE s # {}
    <3> DEFINE r == s \ {pick[s]}
    <3>1. pick[s] \in s /\ r \in SUBSET U /\ r # U /\ r \in SUBSET S
      BY <2>3
    <3>2. PICK k : IsFold(k, r, V, pick, op, base) /\ H(r) = k[r]
      BY <3>1, <1>3
    <3>3. k[r] = h[r]
      <4>1. s \in SUBSET S /\ r \in SUBSET s /\ r \in SUBSET r
        OBVIOUS
      <4> QED BY <3>1, <3>2, <2>1, <4>1, FoldUnique
    <3>4. h[s] = op[pick[s]][h[r]]
      BY <2>1, <2>3 DEF IsFold
    <3> QED BY <3>2, <3>3, <3>4, <2>1, <2>3
  <2> QED BY <2>2, <2>3
<1>5. \A s \in SUBSET U : s # {} =>
          /\ pick[s] \in s /\ s \ {pick[s]} \in SUBSET U /\ s \ {pick[s]} # U
          /\ H(s \ {pick[s]}) \in V
  <2>1. \A s \in SUBSET U : s # {} =>
          pick[s] \in s /\ s \ {pick[s]} \in SUBSET U /\ s \ {pick[s]} # U
    OBVIOUS
  <2> QED BY <2>1, <1>3
<1>6. g \in [SUBSET U -> V]
  <2>1. \A s \in SUBSET U : g[s] \in V
    BY <1>5
  <2> QED BY <2>1
<1>7. \A s \in SUBSET U : g[s] = IF s = {} THEN base ELSE op[pick[s]][g[s \ {pick[s]}]]
  <2> TAKE s \in SUBSET U
  <2>1. CASE s = {}
    BY <2>1
  <2>2. CASE s # {}
    <3>1. g[s \ {pick[s]}] = H(s \ {pick[s]})
      BY <1>4, <1>5, <2>2
    <3>2. g[s] = op[pick[s]][H(s \ {pick[s]})]
      BY <2>2
    <3> HIDE DEF g, H
    <3> QED BY <3>1, <3>2, <2>2
  <2> QED BY <2>1, <2>2
<1>8. IsFold(g, U, V, pick, op, base)
  BY <1>6, <1>7 DEF IsFold
<1> QED BY <1>8, <1>2 DEF Smallest

Picks(pick, S) == \A s \in SUBSET S : s # {} => pick[s] \in s
Commutes(op, S, V) == \A x, y \in S, v \in V : op[x][op[y][v]] = op[y][op[x][v]]

\* where the order of elements does not matter to op, it does not matter to the fold
LEMMA FoldStep ==
    ASSUME NEW S, NEW V, NEW base, NEW pick, NEW op, NEW g, NEW U, NEW x,
           IsFiniteSet(S), U \in SUBSET S, x \in U,
           IsFold(g, S, V, pick, op, base), Picks(pick, S), Commutes(op, S, V)
    PROVE  g[U] = op[x][g[U \ {x}]]
<1> DEFINE Bad == {T \in SUBSET S : \E y \in T : g[T] # op[y][g[T \ {y}]]}
<1>1. SUFFICES ASSUME Bad # {} PROVE FALSE
  OBVIOUS
<1>2. PICK T : Smallest(T, Bad)
  <2>1. Family(Bad, S)
    BY <1>1 DEF Family
  <2> HIDE DEF Bad
  <2> QED BY <2>1, SmallestSubset
<1>3. T \in SUBSET S /\ \E y \in T : g[T] # op[y][g[T \ {y}]]
  BY <1>2 DEF Smallest
<1>4. PICK y \in T : g[T] # op[y][g[T \ {y}]]
  BY <1>3
<1> DEFINE c == pick[T]
<1>5. c \in T /\ g[T] = op[c][g[T \ {c}]]
  BY <1>3, <1>4 DEF IsFold, Picks
<1>6. c # y
  BY <1>4, <1>5
<1> DEFINE R == T \ {c, y}
<1>7. ASSUME NEW W, W \in SUBSET T, W # T, NEW z \in W
      PROVE  g[W] = op[z][g[W \ {z}]]
  <2>1. W \notin Bad
    BY <1>2, <1>7 DEF Smallest
  <2> QED BY <2>1, <1>3, <1>7
<1>8. g[T \ {c}] = op[y][g[R]]
  <2>1. T \ {c} \in SUBSET T /\ T \ {c} # T /\ y \in T \ {c} /\ (T \ {c}) \ {y} = R
    BY <1>5, <1>6
  <2> QED BY <2>1, <1>7
<1>9. g[T \ {y}] = op[c][g[R]]
  <2>1. T \ {y} \in SUBSET T /\ T \ {y} # T /\ c \in T \ {y} /\ (T \ {y}) \ {c} = R
    BY <1>5, <1>6
  <2> QED BY <2>1, <1>7
<1>10. g[R] \in V /\ c \in S /\ y \in S
  BY <1>3, <1>5 DEF IsFold
<1>11. op[c][op[y][g[R]]] = op[y][op[c][g[R]]]
  <2> HIDE DEF c, R
  <2> QED BY <1>10 DEF Commutes
<1> HIDE DEF c, R
<1> QED BY <1>4, <1>5, <1>8, <1>9, <1>11

-------------------------------------------------------------------------------
(* Totals and products                                                         *)
Adding(f) == [x \in DOMAIN f |-> [v \in Nat |-> f[x] + v]]
Times(f) == [x \in DOMAIN f |-> [v \in Nat |-> f[x] * v]]
Choice(S) == [s \in SUBSET S |-> CHOOSE x \in s : TRUE]

SumEquation(g, f) ==
    g = [s \in SUBSET (DOMAIN f) |->
            IF s = {} THEN 0
            ELSE f[CHOOSE x \in s : TRUE] + g[s \ {CHOOSE x \in s : TRUE}]]
ProductEquation(g, f) ==
    g = [s \in SUBSET (DOMAIN f) |->
            IF s = {} THEN 1
            ELSE f[CHOOSE x \in s : TRUE] * g[s \ {CHOOSE x \in s : TRUE}]]

LEMMA TotalEquation ==
    ASSUME NEW f
    PROVE  Total(f) = (CHOOSE g : SumEquation(g, f))[DOMAIN f]
BY DEF Total, MapThenSumSet, MapThenFoldSet, SumEquation

LEMMA ProductIsFolded ==
    ASSUME NEW f
    PROVE  Product(f) = (CHOOSE g : ProductEquation(g, f))[DOMAIN f]
BY DEF Product, FoldFunction, FoldFunctionOnSet, MapThenFoldSet, ProductEquation

LEMMA ChoiceOK ==
    ASSUME NEW S
    PROVE  Picks(Choice(S), S)
BY DEF Choice, Picks

LEMMA TotalIsFold ==
    ASSUME NEW S, IsFiniteSet(S), NEW f \in [S -> Nat]
    PROVE  \E g : IsFold(g, S, Nat, Choice(S), Adding(f), 0) /\ Total(f) = g[S]
<1>1. \A x \in S, v \in Nat : Adding(f)[x][v] = f[x] + v
  BY DEF Adding
<1>2. PICK h : IsFold(h, S, Nat, Choice(S), Adding(f), 0)
  <2>1. \A x \in S, v \in Nat : Adding(f)[x][v] \in Nat
    BY <1>1
  <2> QED BY <2>1, ChoiceOK, FoldExists DEF Picks
<1>3. ASSUME NEW s \in SUBSET S, s # {}
      PROVE  /\ (CHOOSE x \in s : TRUE) \in s
             /\ h[s] = f[CHOOSE x \in s : TRUE] + h[s \ {CHOOSE x \in s : TRUE}]
  <2> DEFINE c == CHOOSE x \in s : TRUE
  <2>1. c \in s /\ Choice(S)[s] = c
    BY <1>3 DEF Choice
  <2>2. h[s] = Adding(f)[c][h[s \ {c}]] /\ h[s \ {c}] \in Nat
    BY <2>1, <1>2, <1>3 DEF IsFold
  <2> QED BY <2>1, <2>2, <1>1
<1>4. SumEquation(h, f)
  <2>1. h \in [SUBSET S -> Nat] /\ h[{}] = 0
    BY <1>2 DEF IsFold
  <2> QED BY <2>1, <1>3 DEF SumEquation
<1> DEFINE c == CHOOSE g : SumEquation(g, f)
<1>5. SumEquation(c, f)
  BY <1>4
<1> HIDE DEF c
<1> DEFINE Bad == {s \in SUBSET S : c[s] # h[s]}
<1>6. Bad = {}
  <2>1. SUFFICES ASSUME Bad # {} PROVE FALSE
    OBVIOUS
  <2>2. PICK s : Smallest(s, Bad)
    <3>1. Family(Bad, S)
      BY <2>1 DEF Family
    <3> HIDE DEF Bad
    <3> QED BY <3>1, SmallestSubset
  <2>3. s \in SUBSET S /\ c[s] # h[s]
    BY <2>2 DEF Smallest
  <2>4. s # {}
    BY <2>3, <1>2, <1>5 DEF SumEquation, IsFold
  <2> DEFINE x == CHOOSE x \in s : TRUE
  <2>5. x \in s /\ h[s] = f[x] + h[s \ {x}]
    BY <2>3, <2>4, <1>3
  <2>6. c[s] = f[x] + c[s \ {x}]
    BY <2>3, <2>4, <1>5 DEF SumEquation
  <2>7. s \ {x} \notin Bad
    BY <2>2, <2>5 DEF Smallest
  <2> QED BY <2>3, <2>5, <2>6, <2>7
<1>7. Total(f) = c[S]
  BY TotalEquation DEF c
<1> QED BY <1>2, <1>6, <1>7

LEMMA ProductIsFold ==
    ASSUME NEW S, IsFiniteSet(S), NEW f \in [S -> Nat]
    PROVE  \E g : IsFold(g, S, Nat, Choice(S), Times(f), 1) /\ Product(f) = g[S]
<1>1. \A x \in S, v \in Nat : Times(f)[x][v] = f[x] * v
  BY DEF Times
<1>2. PICK h : IsFold(h, S, Nat, Choice(S), Times(f), 1)
  <2>1. \A x \in S, v \in Nat : f[x] * v \in Nat
    OBVIOUS
  <2>2. \A x \in S, v \in Nat : Times(f)[x][v] \in Nat
    BY <1>1, <2>1
  <2> QED BY <2>2, ChoiceOK, FoldExists DEF Picks
<1>3. ASSUME NEW s \in SUBSET S, s # {}
      PROVE  /\ (CHOOSE x \in s : TRUE) \in s
             /\ h[s] = f[CHOOSE x \in s : TRUE] * h[s \ {CHOOSE x \in s : TRUE}]
  <2> DEFINE c == CHOOSE x \in s : TRUE
  <2>1. c \in s /\ Choice(S)[s] = c
    BY <1>3 DEF Choice
  <2>2. h[s] = Times(f)[c][h[s \ {c}]] /\ h[s \ {c}] \in Nat
    BY <2>1, <1>2, <1>3 DEF IsFold
  <2> QED BY <2>1, <2>2, <1>1
<1>4. ProductEquation(h, f)
  <2>1. h \in [SUBSET S -> Nat] /\ h[{}] = 1
    BY <1>2 DEF IsFold
  <2> QED BY <2>1, <1>3 DEF ProductEquation
<1> DEFINE c == CHOOSE g : ProductEquation(g, f)
<1>5. ProductEquation(c, f)
  BY <1>4
<1> HIDE DEF c
<1> DEFINE Bad == {s \in SUBSET S : c[s] # h[s]}
<1>6. Bad = {}
  <2>1. SUFFICES ASSUME Bad # {} PROVE FALSE
    OBVIOUS
  <2>2. PICK s : Smallest(s, Bad)
    <3>1. Family(Bad, S)
      BY <2>1 DEF Family
    <3> HIDE DEF Bad
    <3> QED BY <3>1, SmallestSubset
  <2>3. s \in SUBSET S /\ c[s] # h[s]
    BY <2>2 DEF Smallest
  <2>4. s # {}
    BY <2>3, <1>2, <1>5 DEF ProductEquation, IsFold
  <2> DEFINE x == CHOOSE x \in s : TRUE
  <2>5. x \in s /\ h[s] = f[x] * h[s \ {x}]
    BY <2>3, <2>4, <1>3
  <2>6. c[s] = f[x] * c[s \ {x}]
    BY <2>3, <2>4, <1>5 DEF ProductEquation
  <2>7. s \ {x} \notin Bad
    BY <2>2, <2>5 DEF Smallest
  <2> QED BY <2>3, <2>5, <2>6, <2>7
<1>7. Product(f) = c[S]
  BY ProductIsFolded DEF c
<1> QED BY <1>2, <1>6, <1>7

\* a fold of part of a function is a fold of the part
LEMMA FoldOfPart ==
    ASSUME NEW S, NEW V, NEW base, NEW op, NEW part, NEW T, NEW g, NEW h,
           IsFiniteSet(S), T \in SUBSET S,
           IsFold(g, S, V, Choice(S), op, base), IsFold(h, T, V, Choice(T), part, base),
           \A x \in T : part[x] = op[x]
    PROVE  h[T] = g[T]
<1>1. IsFold(h, T, V, Choice(S), op, base)
  <2>1. \A s \in SUBSET T : Choice(S)[s] = Choice(T)[s]
    BY DEF Choice
  <2>2. \A s \in SUBSET T : s # {} => Choice(T)[s] \in T
    BY ChoiceOK DEF Picks
  <2>3. ASSUME NEW s \in SUBSET T, s # {}
        PROVE  h[s] = op[Choice(S)[s]][h[s \ {Choice(S)[s]}]]
    <3>1. h[s] = part[Choice(T)[s]][h[s \ {Choice(T)[s]}]]
      BY <2>3 DEF IsFold
    <3> QED BY <3>1, <2>1, <2>2, <2>3
  <2>4. h \in [SUBSET T -> V] /\ h[{}] = base
    BY DEF IsFold
  <2> QED BY <2>3, <2>4 DEF IsFold
<1>2. T \in SUBSET T /\ S \in SUBSET S
  OBVIOUS
<1> QED BY <1>1, <1>2, ChoiceOK, FoldUnique DEF Picks

\* One entry is taken from a total.
LEMMA TotalStep ==
    ASSUME NEW S, IsFiniteSet(S), NEW f \in [S -> Nat], NEW x \in S
    PROVE  /\ Total(f) \in Nat /\ Total(Restrict(f, S \ {x})) \in Nat
           /\ Total(f) = f[x] + Total(Restrict(f, S \ {x}))
<1> DEFINE T == S \ {x}
           r == Restrict(f, T)
<1>1. PICK g : IsFold(g, S, Nat, Choice(S), Adding(f), 0) /\ Total(f) = g[S]
  BY TotalIsFold
<1>2. r \in [T -> Nat] /\ IsFiniteSet(T) /\ T \in SUBSET S
  BY FS_Subset DEF Restrict
<1>3. PICK h : IsFold(h, T, Nat, Choice(T), Adding(r), 0) /\ Total(r) = h[T]
  BY <1>2, TotalIsFold
<1>4. \A y \in T : Adding(r)[y] = Adding(f)[y]
  BY <1>2 DEF Adding, Restrict
<1>5. h[T] = g[T]
  <2>1. 0 \in Nat
    OBVIOUS
  <2> HIDE DEF T, r
  <2> QED BY <2>1, <1>1, <1>2, <1>3, <1>4, FoldOfPart
<1>6. \A y \in S, v \in Nat : Adding(f)[y][v] = f[y] + v
  BY DEF Adding
<1>7. Commutes(Adding(f), S, Nat)
  BY <1>6 DEF Commutes
<1>8. g[S] = Adding(f)[x][g[T]]
  <2>1. S \in SUBSET S /\ 0 \in Nat
    OBVIOUS
  <2> QED BY <2>1, <1>1, <1>7, ChoiceOK, FoldStep
<1>9. g[T] \in Nat /\ h[T] \in Nat
  BY <1>1, <1>2, <1>3 DEF IsFold
<1> QED BY <1>1, <1>3, <1>5, <1>6, <1>8, <1>9

LEMMA ProductStep ==
    ASSUME NEW S, IsFiniteSet(S), NEW f \in [S -> Nat], NEW x \in S
    PROVE  /\ Product(f) \in Nat /\ Product(Restrict(f, S \ {x})) \in Nat
           /\ Product(f) = f[x] * Product(Restrict(f, S \ {x}))
<1> DEFINE T == S \ {x}
           r == Restrict(f, T)
<1>1. PICK g : IsFold(g, S, Nat, Choice(S), Times(f), 1) /\ Product(f) = g[S]
  BY ProductIsFold
<1>2. r \in [T -> Nat] /\ IsFiniteSet(T) /\ T \in SUBSET S
  BY FS_Subset DEF Restrict
<1>3. PICK h : IsFold(h, T, Nat, Choice(T), Times(r), 1) /\ Product(r) = h[T]
  BY <1>2, ProductIsFold
<1>4. \A y \in T : Times(r)[y] = Times(f)[y]
  BY <1>2 DEF Times, Restrict
<1>5. h[T] = g[T]
  <2>1. 1 \in Nat
    OBVIOUS
  <2> HIDE DEF T, r
  <2> QED BY <2>1, <1>1, <1>2, <1>3, <1>4, FoldOfPart
<1>6. \A y \in S, v \in Nat : Times(f)[y][v] = f[y] * v
  BY DEF Times
<1>7. Commutes(Times(f), S, Nat)
  <2>1. \A a, b, v \in Nat : a * v \in Nat /\ a * (b * v) = b * (a * v)
    OBVIOUS
  <2> QED BY <1>6, <2>1 DEF Commutes
<1>8. g[S] = Times(f)[x][g[T]]
  <2>1. S \in SUBSET S /\ 1 \in Nat
    OBVIOUS
  <2> QED BY <2>1, <1>1, <1>7, ChoiceOK, FoldStep
<1>9. g[T] \in Nat /\ h[T] \in Nat
  BY <1>1, <1>2, <1>3 DEF IsFold
<1>10. g[S] \in Nat
  BY <1>1 DEF IsFold
<1> QED BY <1>1, <1>3, <1>5, <1>6, <1>8, <1>9, <1>10

LEMMA NothingToFold ==
    ASSUME NEW f \in [{} -> Nat]
    PROVE  Total(f) = 0 /\ Product(f) = 1
<1>1. IsFiniteSet({}) /\ {} \in SUBSET {}
  BY FS_EmptySet
<1>2. PICK g : IsFold(g, {}, Nat, Choice({}), Adding(f), 0) /\ Total(f) = g[{}]
  BY <1>1, TotalIsFold
<1>3. PICK h : IsFold(h, {}, Nat, Choice({}), Times(f), 1) /\ Product(f) = h[{}]
  BY <1>1, ProductIsFold
<1> QED BY <1>1, <1>2, <1>3 DEF IsFold

\* One more element of a part.
LEMMA PartStep ==
    ASSUME NEW S, IsFiniteSet(S), NEW f \in [S -> Nat], NEW U \in SUBSET S, NEW x \in U
    PROVE  /\ Restrict(f, U) \in [U -> Nat] /\ IsFiniteSet(U) /\ U \ {x} \in SUBSET S
           /\ Total(Restrict(f, U)) \in Nat /\ Total(Restrict(f, U \ {x})) \in Nat
           /\ Total(Restrict(f, U)) = f[x] + Total(Restrict(f, U \ {x}))
           /\ Product(Restrict(f, U)) \in Nat /\ Product(Restrict(f, U \ {x})) \in Nat
           /\ Product(Restrict(f, U)) = f[x] * Product(Restrict(f, U \ {x}))
<1> DEFINE r == Restrict(f, U)
<1>1. r \in [U -> Nat] /\ IsFiniteSet(U) /\ r[x] = f[x]
  BY FS_Subset DEF Restrict
<1>2. Restrict(r, U \ {x}) = Restrict(f, U \ {x})
  BY DEF Restrict
<1>3. /\ Total(r) \in Nat /\ Total(Restrict(r, U \ {x})) \in Nat
      /\ Total(r) = r[x] + Total(Restrict(r, U \ {x}))
  <2> HIDE DEF r
  <2> QED BY <1>1, TotalStep
<1>4. /\ Product(r) \in Nat /\ Product(Restrict(r, U \ {x})) \in Nat
      /\ Product(r) = r[x] * Product(Restrict(r, U \ {x}))
  <2> HIDE DEF r
  <2> QED BY <1>1, ProductStep
<1> QED BY <1>1, <1>2, <1>3, <1>4

IsPart(S, f, U, W, x) ==
    IsFiniteSet(S) /\ f \in [S -> Nat] /\ U \in SUBSET S /\ x \in U /\ W = U \ {x}

LEMMA TotalOfPart ==
    ASSUME NEW S, NEW f, NEW U, NEW W, NEW x, IsPart(S, f, U, W, x)
    PROVE  Total(Restrict(f, U)) = f[x] + Total(Restrict(f, W))
BY PartStep DEF IsPart

LEMMA NoPart ==
    ASSUME NEW f
    PROVE  Total(Restrict(f, {})) = 0 /\ Product(Restrict(f, {})) = 1
<1>1. Restrict(f, {}) \in [{} -> Nat]
  BY DEF Restrict
<1> QED BY <1>1, NothingToFold

LEMMA WholePart ==
    ASSUME NEW S, NEW f \in [S -> Nat]
    PROVE  Restrict(f, S) = f /\ S \in SUBSET S
BY DEF Restrict

LEMMA FoldsAreNat ==
    ASSUME NEW S, IsFiniteSet(S), NEW f \in [S -> Nat]
    PROVE  Total(f) \in Nat /\ Product(f) \in Nat
<1>1. CASE S = {}
  <2>1. f \in [{} -> Nat]
    BY <1>1
  <2>2. Total(f) = 0 /\ Product(f) = 1
    BY ONLY <2>1, NothingToFold, Zenon
  <2> QED BY <2>2
<1>2. CASE S # {}
  <2>1. PICK x \in S : TRUE
    BY <1>2
  <2> QED BY <2>1, TotalStep, ProductStep
<1> QED BY <1>1, <1>2

LEMMA PartFoldsAreNat ==
    ASSUME NEW S, IsFiniteSet(S), NEW f \in [S -> Nat], NEW U \in SUBSET S
    PROVE  Total(Restrict(f, U)) \in Nat /\ Product(Restrict(f, U)) \in Nat
<1>1. Restrict(f, U) \in [U -> Nat] /\ IsFiniteSet(U)
  BY FS_Subset DEF Restrict
<1> QED BY <1>1, FoldsAreNat

LEMMA TotalOfZeros ==
    ASSUME NEW S, IsFiniteSet(S), NEW f \in [S -> Nat], \A x \in S : f[x] = 0
    PROVE  Total(f) = 0
<1> DEFINE Bad == {U \in SUBSET S : Total(Restrict(f, U)) # 0}
<1>1. Bad = {}
  <2>1. SUFFICES ASSUME Bad # {} PROVE FALSE
    OBVIOUS
  <2>2. PICK U : Smallest(U, Bad)
    <3>1. Family(Bad, S)
      BY <2>1 DEF Family
    <3> HIDE DEF Bad
    <3> QED BY <3>1, SmallestSubset
  <2>3. U \in SUBSET S /\ Total(Restrict(f, U)) # 0
    BY <2>2 DEF Smallest
  <2>4. PICK x \in U : TRUE
    BY <2>3, NoPart
  <2>5. U \ {x} \notin Bad
    BY <2>2, <2>4 DEF Smallest
  <2> QED BY <2>3, <2>4, <2>5, PartStep
<1> QED BY <1>1, WholePart

\* No part of a total is more than the total.
LEMMA PartBelowTotal ==
    ASSUME NEW S, IsFiniteSet(S), NEW f \in [S -> Nat], NEW T \in SUBSET S
    PROVE  Total(Restrict(f, T)) <= Total(f)
<1> DEFINE Of(U) == Total(Restrict(f, U))
           Bad == {U \in SUBSET S : ~(Of(U \cap T) <= Of(U))}
<1>1. Bad = {}
  <2>1. SUFFICES ASSUME Bad # {} PROVE FALSE
    OBVIOUS
  <2>2. PICK U : Smallest(U, Bad)
    <3>1. Family(Bad, S)
      BY <2>1 DEF Family
    <3> HIDE DEF Bad
    <3> QED BY <3>1, SmallestSubset
  <2>3. U \in SUBSET S /\ ~(Of(U \cap T) <= Of(U))
    BY <2>2 DEF Smallest
  <2>4. PICK x \in U : TRUE
    <3>1. U = {} => U \cap T = {}
      OBVIOUS
    <3> QED BY <2>3, <3>1, NoPart
  <2>5. Of((U \ {x}) \cap T) <= Of(U \ {x})
    BY <2>2, <2>3, <2>4 DEF Smallest
  <2>6. Of(U) = f[x] + Of(U \ {x}) /\ Of(U \ {x}) \in Nat /\ f[x] \in Nat
    BY <2>3, <2>4, PartStep
  <2>7. CASE x \in T
    <3>1. x \in U \cap T /\ U \cap T \in SUBSET S /\ (U \cap T) \ {x} = (U \ {x}) \cap T
      BY <2>3, <2>4, <2>7
    <3>2. Of(U \cap T) = f[x] + Of((U \cap T) \ {x}) /\ Of((U \cap T) \ {x}) \in Nat
      <4> DEFINE W == U \cap T
      <4>1. W \in SUBSET S /\ x \in W
        BY <3>1
      <4> HIDE DEF W
      <4>2. Of(W) = f[x] + Of(W \ {x}) /\ Of(W \ {x}) \in Nat
        BY <4>1, PartStep
      <4> QED BY <4>2 DEF W
    <3>3. Of((U \cap T) \ {x}) = Of((U \ {x}) \cap T)
      BY ONLY <3>1, Zenon
    <3> HIDE DEF Of
    <3> QED BY <2>3, <2>5, <2>6, <3>2, <3>3
  <2>8. CASE x \notin T
    <3>1. U \cap T = (U \ {x}) \cap T /\ U \cap T \in SUBSET S
      BY <2>3, <2>8
    <3>2. Of(U \cap T) \in Nat
      BY <3>1, PartFoldsAreNat
    <3>3. Of(U \cap T) = Of((U \ {x}) \cap T)
      BY ONLY <3>1, Zenon
    <3> HIDE DEF Of
    <3> QED BY <2>3, <2>5, <2>6, <3>2, <3>3
  <2> QED BY <2>7, <2>8
<1>2. S \cap T = T /\ S \in SUBSET S
  OBVIOUS
<1>3. Of(S \cap T) <= Of(S)
  BY <1>1, <1>2
<1> QED BY <1>2, <1>3, WholePart

LEMMA EntryBelowTotal ==
    ASSUME NEW S, IsFiniteSet(S), NEW f \in [S -> Nat], NEW x \in S
    PROVE  f[x] <= Total(f)
<1>1. /\ Total(Restrict(f, S \ {x})) \in Nat
      /\ Total(f) = f[x] + Total(Restrict(f, S \ {x}))
  BY TotalStep
<1>2. f[x] \in Nat
  OBVIOUS
<1> QED BY <1>1, <1>2

LEMMA TotalOfOne ==
    ASSUME NEW S, IsFiniteSet(S), NEW f \in [S -> Nat], NEW x \in S,
           \A y \in S \ {x} : f[y] = 0
    PROVE  Total(f) = f[x]
<1> DEFINE T == S \ {x}
           r == Restrict(f, T)
<1>1. r \in [T -> Nat] /\ IsFiniteSet(T) /\ \A y \in T : r[y] = 0
  BY FS_Subset DEF Restrict
<1>2. Total(r) = 0
  <2> HIDE DEF T, r
  <2> QED BY <1>1, TotalOfZeros
<1> QED BY <1>2, TotalStep

LEMMA SomeEntry ==
    ASSUME NEW S, IsFiniteSet(S), NEW f \in [S -> Nat], Total(f) > 0
    PROVE  \E x \in S : f[x] > 0
<1>1. SUFFICES ASSUME \A x \in S : f[x] = 0 PROVE FALSE
  OBVIOUS
<1> QED BY <1>1, TotalOfZeros

LEMMA ProductOfZero ==
    ASSUME NEW S, IsFiniteSet(S), NEW f \in [S -> Nat], NEW x \in S, f[x] = 0
    PROVE  Product(f) = 0
<1>1. /\ Product(Restrict(f, S \ {x})) \in Nat
      /\ Product(f) = f[x] * Product(Restrict(f, S \ {x}))
  BY ProductStep
<1> QED BY <1>1

\* Larger factors make no smaller product, and factors above zero none of zero.
LEMMA ProductsGrow ==
    ASSUME NEW S, IsFiniteSet(S), NEW f \in [S -> Nat], NEW g \in [S -> Nat],
           \A x \in S : f[x] <= g[x]
    PROVE  Product(f) <= Product(g)
<1> DEFINE Bad == {U \in SUBSET S : ~(Product(Restrict(f, U)) <= Product(Restrict(g, U)))}
<1>1. Bad = {}
  <2>1. SUFFICES ASSUME Bad # {} PROVE FALSE
    OBVIOUS
  <2>2. PICK U : Smallest(U, Bad)
    <3>1. Family(Bad, S)
      BY <2>1 DEF Family
    <3> HIDE DEF Bad
    <3> QED BY <3>1, SmallestSubset
  <2>3. U \in SUBSET S /\ ~(Product(Restrict(f, U)) <= Product(Restrict(g, U)))
    BY <2>2 DEF Smallest
  <2>4. PICK x \in U : TRUE
    <3>1. Product(Restrict(f, {})) <= Product(Restrict(g, {}))
      BY NoPart
    <3> QED BY <2>3, <3>1
  <2>5. Product(Restrict(f, U \ {x})) <= Product(Restrict(g, U \ {x}))
    BY <2>2, <2>3, <2>4 DEF Smallest
  <2>6. /\ Product(Restrict(f, U)) = f[x] * Product(Restrict(f, U \ {x}))
        /\ Product(Restrict(f, U \ {x})) \in Nat
    BY <2>3, <2>4, PartStep
  <2>7. /\ Product(Restrict(g, U)) = g[x] * Product(Restrict(g, U \ {x}))
        /\ Product(Restrict(g, U \ {x})) \in Nat
    BY <2>3, <2>4, PartStep
  <2>8. \A a, b, c, d \in Nat : a <= b /\ c <= d => a * c <= b * d
    OBVIOUS
  <2>9. f[x] \in Nat /\ g[x] \in Nat /\ f[x] <= g[x]
    BY <2>3, <2>4
  <2>10. f[x] * Product(Restrict(f, U \ {x})) <= g[x] * Product(Restrict(g, U \ {x}))
    BY <2>5, <2>6, <2>7, <2>8, <2>9
  <2> QED BY <2>3, <2>6, <2>7, <2>10
<1> QED BY <1>1, WholePart

LEMMA ProductOfPositive ==
    ASSUME NEW S, IsFiniteSet(S), NEW f \in [S -> Nat], \A x \in S : f[x] > 0
    PROVE  Product(f) > 0
<1> DEFINE Bad == {U \in SUBSET S : ~(Product(Restrict(f, U)) > 0)}
<1>1. Bad = {}
  <2>1. SUFFICES ASSUME Bad # {} PROVE FALSE
    OBVIOUS
  <2>2. PICK U : Smallest(U, Bad)
    <3>1. Family(Bad, S)
      BY <2>1 DEF Family
    <3> HIDE DEF Bad
    <3> QED BY <3>1, SmallestSubset
  <2>3. U \in SUBSET S /\ ~(Product(Restrict(f, U)) > 0)
    BY <2>2 DEF Smallest
  <2>4. PICK x \in U : TRUE
    BY <2>3, NoPart
  <2>5. Product(Restrict(f, U \ {x})) > 0
    BY <2>2, <2>3, <2>4 DEF Smallest
  <2>6. /\ Product(Restrict(f, U)) = f[x] * Product(Restrict(f, U \ {x}))
        /\ Product(Restrict(f, U \ {x})) \in Nat
    BY <2>3, <2>4, PartStep
  <2>7. \A a, b \in Nat : a > 0 /\ b > 0 => a * b > 0
    OBVIOUS
  <2>8. f[x] \in Nat /\ f[x] > 0
    BY <2>3, <2>4
  <2> QED BY <2>3, <2>5, <2>6, <2>7, <2>8
<1> QED BY <1>1, WholePart

-------------------------------------------------------------------------------
(* round()                                                                     *)
LEMMA Division ==
    ASSUME NEW b \in Nat, b > 0, NEW x \in Int
    PROVE  /\ x \div b \in Int /\ x % b \in 0..b - 1
           /\ x = (b * (x \div b)) + (x % b)
OBVIOUS

LEMMA Multiples ==
    ASSUME NEW b \in Nat, b > 0, NEW s \in Int, NEW t \in Int, s < t
    PROVE  b * s \in Int /\ b * t \in Int /\ b * s + b <= b * t
OBVIOUS

\* A share of c shots, rounded, is one of 0..c.
LEMMA RoundedShare ==
    ASSUME NEW a \in Nat, NEW b \in Nat, b > 0, NEW c \in Nat, a <= b * c
    PROVE  Round(a, b) \in 0..c
<1> DEFINE d == a \div b
           r == a % b
<1>1. d \in Int /\ r \in 0..b - 1 /\ a = b * d + r /\ b * d \in Int /\ b * c \in Int
  <2>1. b * d \in Int /\ b * c \in Int
    BY Division
  <2> QED BY <2>1, Division
<1>2. Round(a, b) = IF 2 * r > b \/ (2 * r = b /\ d % 2 = 1) THEN d + 1 ELSE d
  BY DEF Round
<1> HIDE DEF d, r
<1>3. d >= 0
  <2>1. SUFFICES ASSUME d < 0 PROVE FALSE
    BY <1>1
  <2>2. b * d + b <= b * 0 /\ b * 0 = 0
    BY <1>1, <2>1, Multiples
  <2> QED BY <1>1, <2>2
<1>4. d <= c
  <2>1. SUFFICES ASSUME c < d PROVE FALSE
    BY <1>1
  <2>2. b * c + b <= b * d
    BY <1>1, <2>1, Multiples
  <2> QED BY <1>1, <2>2
<1>5. d = c => r = 0
  BY <1>1
<1> QED BY <1>1, <1>2, <1>3, <1>4, <1>5

LEMMA RoundedExactly ==
    ASSUME NEW b \in Nat, b > 0, NEW c \in Nat
    PROVE  Round(b * c, b) = c
<1> DEFINE a == b * c
           d == a \div b
           r == a % b
<1>1. a \in Nat
  OBVIOUS
<1>2. d \in Int /\ r \in 0..b - 1 /\ a = b * d + r /\ b * d \in Int
  <2>1. a \in Int
    BY <1>1
  <2> HIDE DEF a
  <2>2. b * d \in Int
    BY <2>1, Division
  <2> QED BY <2>1, <2>2, Division
<1>3. Round(a, b) = IF 2 * r > b \/ (2 * r = b /\ d % 2 = 1) THEN d + 1 ELSE d
  BY DEF Round
<1> HIDE DEF d, r
<1>4. ~(d < c) /\ ~(c < d)
  <2>1. d < c => b * d + b <= b * c
    BY <1>2, Multiples
  <2>2. c < d => b * c + b <= b * d
    BY <1>2, Multiples
  <2> QED BY <1>1, <1>2, <2>1, <2>2
<1>5. d = c /\ r = 0
  BY <1>2, <1>4
<1> QED BY <1>3, <1>5

-------------------------------------------------------------------------------
(* sorted()                                                                    *)
List(rs) == DOMAIN rs = 1..Len(rs) /\ Len(rs) \in Nat /\ \A i \in DOMAIN rs : rs[i].index \in Nat
Rank(rs, i) == Cardinality(Before(rs, i)) + 1

\* No two results have the same rank, and every rank is taken.
LEMMA RanksAreThePlaces ==
    ASSUME NEW rs, List(rs)
    PROVE  /\ \A i \in DOMAIN rs : Rank(rs, i) \in DOMAIN rs
           /\ \A i, j \in DOMAIN rs : Rank(rs, i) = Rank(rs, j) => i = j
           /\ \A p \in DOMAIN rs : \E i \in DOMAIN rs : Rank(rs, i) = p
<1> DEFINE N == Len(rs)
<1>1. IsFiniteSet(1..N) /\ Cardinality(1..N) = N /\ DOMAIN rs = 1..N /\ N \in Nat
  <2>1. DOMAIN rs = 1..N /\ N \in Nat
    BY DEF List
  <2> HIDE DEF N
  <2>2. IsFiniteSet(1..N) /\ Cardinality(1..N) = IF 1 > N THEN 0 ELSE N - 1 + 1
    BY <2>1, FS_Interval
  <2> QED BY <2>1, <2>2
<1>2. ASSUME NEW i \in 1..N
      PROVE  /\ IsFiniteSet(Before(rs, i)) /\ Before(rs, i) \in SUBSET (1..N)
             /\ Cardinality(Before(rs, i)) \in 0..N - 1
  <2>1. Before(rs, i) \in SUBSET (1..N) /\ Before(rs, i) \subseteq (1..N) \ {i}
    BY <1>1 DEF Before, List
  <2>2. IsFiniteSet((1..N) \ {i}) /\ Cardinality((1..N) \ {i}) = N - 1
    BY <1>1, FS_RemoveElement
  <2>3. IsFiniteSet(Before(rs, i)) /\ Cardinality(Before(rs, i)) <= N - 1
    <3> DEFINE B == Before(rs, i)
               R == (1..N) \ {i}
    <3>1. IsFiniteSet(R) /\ Cardinality(R) = N - 1 /\ B \in SUBSET R
      BY <2>1, <2>2
    <3> HIDE DEF B, R
    <3>2. IsFiniteSet(B) /\ Cardinality(B) <= N - 1
      BY <3>1, FS_Subset
    <3> QED BY <3>2 DEF B
  <2>4. Cardinality(Before(rs, i)) \in Nat
    BY <2>3, FS_CardinalityType
  <2> QED BY <1>1, <2>1, <2>3, <2>4
<1>3. ASSUME NEW i \in 1..N, NEW j \in 1..N, i \in Before(rs, j)
      PROVE  Rank(rs, i) < Rank(rs, j)
  <2> DEFINE B == Before(rs, i)
             C == Before(rs, j)
  <2>1. B \in SUBSET C /\ B # C
    <3>1. i \notin B
      BY <1>1 DEF Before, List
    <3>2. ASSUME NEW m \in B PROVE m \in C
      BY <1>1, <1>3, <3>2 DEF Before, List
    <3> QED BY <1>3, <3>1, <3>2
  <2>2. IsFiniteSet(C) /\ Cardinality(B) \in Nat /\ Cardinality(C) \in Nat
    BY <1>2
  <2>3. Cardinality(B) <= Cardinality(C) /\ Cardinality(B) # Cardinality(C)
    <3> HIDE DEF B, C
    <3> QED BY <2>1, <2>2, FS_Subset
  <2> QED BY <2>2, <2>3 DEF Rank
<1>4. \A i, j \in 1..N : i # j => i \in Before(rs, j) \/ j \in Before(rs, i)
  BY <1>1 DEF Before, List
<1>5. \A i \in 1..N : Rank(rs, i) \in 1..N
  BY <1>1, <1>2 DEF Rank
<1>6. \A i, j \in 1..N : Rank(rs, i) = Rank(rs, j) => i = j
  <2> SUFFICES ASSUME NEW i \in 1..N, NEW j \in 1..N, i # j
               PROVE  Rank(rs, i) # Rank(rs, j)
    OBVIOUS
  <2>1. Rank(rs, i) < Rank(rs, j) \/ Rank(rs, j) < Rank(rs, i)
    BY <1>3, <1>4
  <2>2. Rank(rs, i) \in 1..N /\ Rank(rs, j) \in 1..N
    BY <1>5
  <2> QED BY <2>1, <2>2
<1>7. \A p \in 1..N : \E i \in 1..N : Rank(rs, i) = p
  <2> DEFINE f == [i \in 1..N |-> Rank(rs, i)]
  <2>1. f \in Injection(1..N, 1..N)
    BY <1>5, <1>6 DEF Injection, IsInjective
  <2>2. f \in Surjection(1..N, 1..N)
    <3> HIDE DEF f
    <3> QED BY <1>1, <2>1, FS_Injection
  <2> QED BY <2>2 DEF Surjection
<1> QED BY <1>1, <1>5, <1>6, <1>7

\* The results are the same ones, each at its rank.
LEMMA SortedByRank ==
    ASSUME NEW rs, List(rs)
    PROVE  /\ Sorted(rs) = [p \in DOMAIN rs |-> Sorted(rs)[p]]
           /\ \A p \in DOMAIN rs : \E i \in DOMAIN rs : Sorted(rs)[p] = rs[i] /\ Rank(rs, i) = p
           /\ \A i \in DOMAIN rs : Sorted(rs)[Rank(rs, i)] = rs[i]
<1> DEFINE rank == [i \in DOMAIN rs |-> Cardinality(Before(rs, i)) + 1]
           at(p) == CHOOSE i \in DOMAIN rs : rank[i] = p
<1>1. Sorted(rs) = [p \in DOMAIN rs |-> rs[at(p)]]
  BY DEF Sorted
<1>2. \A i \in DOMAIN rs : rank[i] = Rank(rs, i)
  BY DEF Rank
<1> HIDE DEF rank
<1>3. ASSUME NEW p \in DOMAIN rs
      PROVE  at(p) \in DOMAIN rs /\ Rank(rs, at(p)) = p
  <2>1. \E i \in DOMAIN rs : rank[i] = p
    BY <1>2, RanksAreThePlaces
  <2>2. at(p) \in DOMAIN rs /\ rank[at(p)] = p
    BY <2>1
  <2> QED BY <2>2, <1>2
<1> HIDE DEF at
<1>4. ASSUME NEW i \in DOMAIN rs
      PROVE  Sorted(rs)[Rank(rs, i)] = rs[i]
  <2>1. Rank(rs, i) \in DOMAIN rs
    BY RanksAreThePlaces
  <2>2. at(Rank(rs, i)) = i
    BY <2>1, <1>3, RanksAreThePlaces
  <2> QED BY <1>1, <2>1, <2>2
<1> QED BY <1>1, <1>3, <1>4

\* The results in another order.
Permuted(rs, f) == [i \in DOMAIN rs |-> rs[f[i]]]
Permutes(rs, f) == f \in [DOMAIN rs -> DOMAIN rs] /\ IsInjective(f)
Distinct(rs) == \A i, j \in DOMAIN rs : rs[i].index = rs[j].index => i = j

LEMMA PermutedList ==
    ASSUME NEW rs, NEW f, List(rs), Permutes(rs, f)
    PROVE  /\ List(Permuted(rs, f)) /\ Len(Permuted(rs, f)) = Len(rs)
           /\ \A i \in DOMAIN rs : \E j \in DOMAIN rs : f[j] = i
<1> DEFINE N == Len(rs)
<1>1. DOMAIN rs = 1..N /\ N \in Nat /\ f \in [1..N -> 1..N]
  BY DEF List, Permutes
<1>2. List(Permuted(rs, f)) /\ Len(Permuted(rs, f)) = N
  <2> HIDE DEF N
  <2>1. Permuted(rs, f) = [i \in 1..N |-> rs[f[i]]]
    BY <1>1 DEF Permuted
  <2>2. Len(Permuted(rs, f)) = N /\ DOMAIN Permuted(rs, f) = 1..N
    BY <1>1, <2>1
  <2> QED BY <1>1, <2>1, <2>2 DEF List
<1>3. f \in Surjection(1..N, 1..N)
  <2>1. f \in Injection(1..N, 1..N)
    BY <1>1 DEF Permutes, Injection
  <2>2. IsFiniteSet(1..N)
    BY <1>1, FS_Interval
  <2> QED BY <2>1, <2>2, FS_Injection
<1> QED BY <1>1, <1>2, <1>3 DEF Surjection

LEMMA RankPermuted ==
    ASSUME NEW rs, NEW f, List(rs), Permutes(rs, f), Distinct(rs), NEW i \in DOMAIN rs
    PROVE  Rank(Permuted(rs, f), i) = Rank(rs, f[i])
<1> DEFINE qs == Permuted(rs, f)
           B == Before(qs, i)
           C == Before(rs, f[i])
           g == [j \in B |-> f[j]]
<1>1. /\ f \in [DOMAIN rs -> DOMAIN rs] /\ DOMAIN qs = DOMAIN rs
      /\ \A j \in DOMAIN rs : qs[j].index = rs[f[j]].index
      /\ \A j, k \in DOMAIN rs : f[j] = f[k] => j = k
      /\ \A j \in DOMAIN rs : rs[j].index \in Nat
  BY DEF Permutes, Permuted, IsInjective, List
<1>2. /\ \A j \in DOMAIN rs : ~(j < j) /\ (rs[f[j]].index = rs[f[i]].index => j = i)
      /\ \A j \in DOMAIN rs : rs[j].index = rs[f[i]].index => j = f[i]
  <2>1. \A j \in DOMAIN rs : ~(j < j)
    BY DEF List
  <2> QED BY <1>1, <2>1 DEF Distinct
<1> HIDE DEF qs
<1>3. B = {j \in DOMAIN rs : rs[f[j]].index < rs[f[i]].index}
  BY <1>1, <1>2 DEF Before
<1>4. C = {j \in DOMAIN rs : rs[j].index < rs[f[i]].index}
  BY <1>1, <1>2 DEF Before
<1> HIDE DEF B, C
<1>5. g \in [B -> C] /\ \A j, k \in B : g[j] = g[k] => j = k
  BY <1>1, <1>3, <1>4
<1>6. \A k \in C : \E j \in B : g[j] = k
  BY <1>1, <1>3, <1>4, PermutedList
<1>7. IsFiniteSet(B)
  <2>1. IsFiniteSet(DOMAIN rs)
    BY FS_Interval DEF List
  <2>2. B \in SUBSET (DOMAIN rs)
    BY <1>3
  <2> QED BY <2>1, <2>2, FS_Subset
<1>8. ExistsBijection(B, C)
  BY <1>5, <1>6 DEF ExistsBijection, Bijection, Injection, Surjection, IsInjective
<1>9. Cardinality(B) = Cardinality(C)
  BY <1>7, <1>8, FS_Bijection
<1> QED BY <1>9 DEF Rank, B, C, qs

\* Sorting forgets the order in which results of distinct partitions came.
LEMMA SortedPermuted ==
    ASSUME NEW rs, NEW f, List(rs), Permutes(rs, f), Distinct(rs)
    PROVE  Sorted(Permuted(rs, f)) = Sorted(rs)
<1> DEFINE qs == Permuted(rs, f)
<1>1. List(qs) /\ DOMAIN qs = DOMAIN rs /\ \A i \in DOMAIN rs : qs[i] = rs[f[i]] /\ f[i] \in DOMAIN rs
  BY PermutedList DEF Permuted, Permutes
<1>2. \A i \in DOMAIN rs : Rank(qs, i) = Rank(rs, f[i])
  BY RankPermuted
<1> HIDE DEF qs
<1>3. ASSUME NEW p \in DOMAIN rs
      PROVE  Sorted(qs)[p] = Sorted(rs)[p]
  <2>1. PICK i \in DOMAIN rs : Sorted(qs)[p] = qs[i] /\ Rank(qs, i) = p
    BY <1>1, SortedByRank
  <2>2. f[i] \in DOMAIN rs /\ Sorted(rs)[Rank(rs, f[i])] = rs[f[i]]
    BY <1>1, SortedByRank
  <2> QED BY <1>1, <1>2, <2>1, <2>2
<1>4. Sorted(qs) = [p \in DOMAIN rs |-> Sorted(qs)[p]]
  BY <1>1, SortedByRank
<1>5. Sorted(rs) = [p \in DOMAIN rs |-> Sorted(rs)[p]]
  BY SortedByRank
<1>6. [p \in DOMAIN rs |-> Sorted(qs)[p]] = [p \in DOMAIN rs |-> Sorted(rs)[p]]
  BY <1>3
<1> QED BY ONLY <1>4, <1>5, <1>6 DEF qs

\* Nor does the RunResult show it.
LEMMA AggregatedPermuted ==
    ASSUME NEW rs, NEW f, NEW p, List(rs), Permutes(rs, f), Distinct(rs)
    PROVE  Aggregated(p, Permuted(rs, f)) = Aggregated(p, rs)
<1> DEFINE qs == Permuted(rs, f)
<1>1. List(qs) /\ Len(qs) = Len(rs) /\ Sorted(qs) = Sorted(rs)
  BY PermutedList, SortedPermuted
<1>2. DOMAIN qs = DOMAIN rs /\ \A i \in DOMAIN rs : qs[i] = rs[f[i]] /\ f[i] \in DOMAIN rs
  BY DEF Permuted, Permutes
<1>3. \A i \in DOMAIN rs : \E j \in DOMAIN rs : f[j] = i
  BY PermutedList
<1> HIDE DEF qs
<1>4. MinShots(qs) = MinShots(rs)
  <2>1. ASSUME NEW i \in DOMAIN qs
        PROVE  \E j \in DOMAIN rs : Total(qs[i].counts) = Total(rs[j].counts)
    BY <1>2, <2>1
  <2>2. ASSUME NEW i \in DOMAIN rs
        PROVE  \E j \in DOMAIN qs : Total(rs[i].counts) = Total(qs[j].counts)
    <3>1. PICK j \in DOMAIN rs : f[j] = i
      BY <1>3
    <3> QED BY <1>2, <3>1
  <2>3. Totals(qs) = Totals(rs)
    BY <2>1, <2>2 DEF Totals
  <2> QED BY ONLY <2>3, Zenon DEF MinShots
<1>5. qs = <<>> <=> rs = <<>>
  <2>1. List(rs)
    OBVIOUS
  <2> QED BY <1>1, <1>2, <2>1 DEF List
<1>6. Len(rs) = 1 => qs[1] = rs[1]
  <2>1. Len(rs) = 1 => DOMAIN rs = {1}
    BY DEF List
  <2> QED BY <1>2, <2>1
<1>7. Aggregated(p, qs) = Aggregated(p, rs)
  BY ONLY <1>1, <1>4, <1>5, <1>6, Zenon DEF Aggregated
<1> QED BY <1>7 DEF qs

-------------------------------------------------------------------------------
(* The inductive invariant: the inbox holds results of the plan's partitions,  *)
(* and a finished run is what aggregate() makes of that inbox.  What the       *)
(* properties say of the run is then a matter of Aggregated alone.             *)
Results(p) ==
    {r \in [index : DOMAIN p.parts, counts : UNION {[Strings(w) -> Nat] : w \in Nat}] :
        /\ r.counts \in [Strings(Cardinality(p.parts[r.index])) -> Nat]
        /\ Total(r.counts) <= MaxShots}
RunIs == Done => run = Aggregated(IF withPlan THEN plan ELSE NoPlan, inbox)

IInv == /\ plan \in Plans /\ withPlan \in BOOLEAN
        /\ inbox \in Seq(Results(plan)) /\ Len(inbox) <= MaxDelivered
        /\ RunIs

\* Every partition of a plan is a finite set of qubits.
LEMMA PartsAreFinite ==
    ASSUME NEW p \in Plans, NEW i \in DOMAIN p.parts
    PROVE  /\ p.parts[i] \in SUBSET (0..p.n - 1) /\ IsFiniteSet(p.parts[i])
           /\ Cardinality(p.parts[i]) \in Nat /\ i \in Nat /\ i >= 1
<1>1. p.n \in Nat /\ p.parts \in Seq(SUBSET Nat) /\ p.parts[i] \in SUBSET (0..p.n - 1)
  BY PlansOK
<1>2. IsFiniteSet(p.parts[i])
  <2>1. p.n - 1 \in Int /\ 0 \in Int
    BY <1>1
  <2>2. IsFiniteSet(0..p.n - 1)
    BY <2>1, FS_Interval
  <2> QED BY <1>1, <2>2, FS_Subset
<1> QED BY <1>1, <1>2, FS_CardinalityType

LEMMA ResultsAreLists ==
    ASSUME NEW p \in Plans, NEW rs \in Seq(Results(p))
    PROVE  /\ List(rs)
           /\ \A i \in DOMAIN rs : rs[i] \in Results(p) /\ rs[i].index \in DOMAIN p.parts
<1>1. DOMAIN rs = 1..Len(rs) /\ Len(rs) \in Nat /\ \A i \in DOMAIN rs : rs[i] \in Results(p)
  OBVIOUS
<1>2. \A i \in DOMAIN rs : rs[i].index \in DOMAIN p.parts
  BY <1>1 DEF Results
<1> QED BY <1>1, <1>2, PartsAreFinite DEF List

LEMMA InductiveInit ==
    ASSUME Init PROVE IInv
<1>1. \A S : <<>> \in Seq(S)
  OBVIOUS
<1>2. Len(<<>>) <= MaxDelivered
  BY BoundsNat
<1>3. inbox = <<>> /\ run = NotRun /\ plan \in Plans /\ withPlan \in BOOLEAN
  BY DEF Init
<1>4. inbox \in Seq(Results(plan)) /\ Len(inbox) <= MaxDelivered
  BY ONLY <1>1, <1>2, <1>3, Zenon
<1> QED BY <1>3, <1>4 DEF IInv, RunIs, Done

LEMMA InductiveNext ==
    ASSUME IInv, [Next]_vars PROVE IInv'
<1> USE DEF IInv
<1>1. ASSUME NEW i \in DOMAIN plan.parts, Deliver(i)
      PROVE  IInv'
  <2>1. PICK counts \in Counts(Width(i)) :
            inbox' = Append(inbox, [index |-> i, counts |-> counts])
    BY <1>1 DEF Deliver
  <2>2. /\ run = NotRun /\ Len(inbox) < MaxDelivered
        /\ UNCHANGED <<plan, withPlan, run>>
    BY <1>1 DEF Deliver
  <2>3. counts \in [Strings(Width(i)) -> 0..MaxShots] /\ Total(counts) <= MaxShots
    BY <2>1 DEF Counts
  <2>4. [index |-> i, counts |-> counts] \in Results(plan)
    <3>1. Width(i) \in Nat /\ Width(i) = Cardinality(plan.parts[i])
      BY PartsAreFinite DEF Width
    <3>2. counts \in [Strings(Width(i)) -> Nat]
      BY <2>3
    <3> QED BY <2>3, <3>1, <3>2 DEF Results
  <2>5. inbox' \in Seq(Results(plan)) /\ Len(inbox') = Len(inbox) + 1
    BY <2>1, <2>4
  <2> QED BY <2>2, <2>5, BoundsNat DEF RunIs, Done
<1>2. ASSUME NEW given \in BOOLEAN, Aggregate(given)
      PROVE  IInv'
  BY <1>2 DEF Aggregate, RunIs, Done
<1>3. CASE UNCHANGED vars
  BY <1>3 DEF vars, RunIs, Done
<1> QED BY <1>1, <1>2, <1>3 DEF Next

LEMMA Inductive ==
    Spec => []IInv
<1>1. Init => IInv
  BY InductiveInit
<1>2. IInv /\ [Next]_vars => IInv'
  BY InductiveNext
<1> QED BY <1>1, <1>2, PTL DEF Spec

\* As many indices as results: they are distinct.
LEMMA DistinctResults ==
    ASSUME NEW rs, List(rs), Cardinality(Indices(rs)) = Len(rs)
    PROVE  Distinct(rs)
<1> DEFINE f == [i \in DOMAIN rs |-> rs[i].index]
           N == Len(rs)
<1>1. f \in Surjection(1..N, Indices(rs)) /\ DOMAIN rs = 1..N /\ N \in Nat
  BY DEF List, Surjection, Indices
<1>2. IsFiniteSet(1..N) /\ Cardinality(1..N) = N
  <2> HIDE DEF N
  <2>1. IsFiniteSet(1..N) /\ Cardinality(1..N) = IF 1 > N THEN 0 ELSE N - 1 + 1
    BY <1>1, FS_Interval
  <2> QED BY <1>1, <2>1
<1>3. f \in Injection(1..N, Indices(rs))
  <2> HIDE DEF f
  <2> QED BY <1>1, <1>2, FS_Surjection
<1> QED BY <1>1, <1>3 DEF Injection, IsInjective, Distinct

\* The order in which the results of distinct partitions reach aggregate() never
\* shows in the RunResult, whatever the plan, the results and their number.
THEOREM OrderIrrelevant ==
    Spec => []ArrivalOrderIrrelevant
<1>1. IInv => ArrivalOrderIrrelevant
  <2> SUFFICES ASSUME IInv, Done, Cardinality(Indices(inbox)) = Len(inbox),
                      NEW f \in [DOMAIN inbox -> DOMAIN inbox], IsInjective(f)
               PROVE  Aggregated(IF withPlan THEN plan ELSE NoPlan,
                                 [i \in DOMAIN inbox |-> inbox[f[i]]]) = run
    BY DEF ArrivalOrderIrrelevant
  <2>1. List(inbox)
    BY ResultsAreLists DEF IInv
  <2>2. Distinct(inbox) /\ Permutes(inbox, f)
    BY <2>1, DistinctResults DEF Permutes
  <2>3. ASSUME NEW p
        PROVE  Aggregated(p, [i \in DOMAIN inbox |-> inbox[f[i]]]) = Aggregated(p, inbox)
    BY <2>1, <2>2, AggregatedPermuted DEF Permuted
  <2> QED BY <2>3 DEF IInv, RunIs
<1> QED BY <1>1, Inductive, PTL

-------------------------------------------------------------------------------
(* The types of what aggregate() computes                                      *)
LEMMA StringsAreFinite ==
    ASSUME NEW w \in Nat
    PROVE  IsFiniteSet(Strings(w)) /\ Strings(w) \subseteq Seq(Bits)
<1> DEFINE f == [s \in SUBSET (1..w) |-> [i \in 1..w |-> IF i \in s THEN 1 ELSE 0]]
<1>1. ASSUME NEW t \in Strings(w)
      PROVE  \E s \in SUBSET (1..w) : f[s] = t
  <2>1. {i \in 1..w : t[i] = 1} \in SUBSET (1..w)
    OBVIOUS
  <2>2. f[{i \in 1..w : t[i] = 1}] = t
    BY DEF Strings, Bits
  <2> QED BY <2>1, <2>2
<1>2. f \in Surjection(SUBSET (1..w), Strings(w))
  <2>1. f \in [SUBSET (1..w) -> Strings(w)]
    BY DEF Strings, Bits
  <2> QED BY <1>1, <2>1 DEF Surjection
<1>3. IsFiniteSet(SUBSET (1..w))
  <2>1. 1 \in Int /\ w \in Int
    OBVIOUS
  <2>2. IsFiniteSet(1..w)
    BY <2>1, FS_Interval
  <2> QED BY <2>2, FS_SUBSET
<1>4. IsFiniteSet(Strings(w))
  <2> HIDE DEF f
  <2> QED BY <1>2, <1>3, FS_Surjection
<1> QED BY <1>4 DEF Strings

LEMMA ResultsTyped ==
    ASSUME NEW p \in Plans, NEW r \in Results(p)
    PROVE  /\ r.index \in DOMAIN p.parts /\ Cardinality(p.parts[r.index]) \in Nat
           /\ r.counts \in [Strings(Cardinality(p.parts[r.index])) -> Nat]
           /\ IsFiniteSet(Strings(Cardinality(p.parts[r.index])))
           /\ Total(r.counts) \in 0..MaxShots
<1>1. /\ r.index \in DOMAIN p.parts
      /\ r.counts \in [Strings(Cardinality(p.parts[r.index])) -> Nat]
      /\ Total(r.counts) <= MaxShots
  BY DEF Results
<1>2. Cardinality(p.parts[r.index]) \in Nat
  BY <1>1, PartsAreFinite
<1>3. IsFiniteSet(Strings(Cardinality(p.parts[r.index])))
  BY <1>2, StringsAreFinite
<1>4. Total(r.counts) \in Nat
  BY <1>1, <1>3, FoldsAreNat
<1> QED BY <1>1, <1>2, <1>3, <1>4, BoundsNat

\* The fewest shots of any result.
LEMMA MinShotsTyped ==
    ASSUME NEW p \in Plans, NEW rs \in Seq(Results(p)), rs # <<>>
    PROVE  /\ MinShots(rs) \in 0..MaxShots
           /\ \A i \in DOMAIN rs : MinShots(rs) <= Total(rs[i].counts)
           /\ \E i \in DOMAIN rs : MinShots(rs) = Total(rs[i].counts)
<1>1. \A i \in DOMAIN rs : Total(rs[i].counts) \in 0..MaxShots
  BY ResultsAreLists, ResultsTyped
<1>2. Totals(rs) \subseteq Nat /\ Totals(rs) # {}
  <2>1. 1 \in DOMAIN rs
    OBVIOUS
  <2> QED BY <1>1, <2>1, BoundsNat DEF Totals
<1>3. MinShots(rs) \in Totals(rs) /\ \A t \in Totals(rs) : MinShots(rs) <= t
  <2> DEFINE T == Totals(rs)
  <2>1. \E x \in T : \A y \in T : x <= y
    <3> HIDE DEF T
    <3> QED BY <1>2, LeastNumber DEF T
  <2> QED BY <2>1 DEF MinShots, Min
<1> QED BY <1>1, <1>3 DEF Totals

LEMMA SortedResults ==
    ASSUME NEW p \in Plans, NEW rs \in Seq(Results(p))
    PROVE  /\ Sorted(rs) \in Seq(Results(p)) /\ Len(Sorted(rs)) = Len(rs)
           /\ DOMAIN Sorted(rs) = DOMAIN rs
           /\ MinShots(Sorted(rs)) = MinShots(rs)
<1> DEFINE q == Sorted(rs)
<1>1. List(rs) /\ \A i \in DOMAIN rs : rs[i] \in Results(p)
  BY ResultsAreLists
<1>2. /\ q = [i \in DOMAIN rs |-> q[i]]
      /\ \A i \in DOMAIN rs : \E j \in DOMAIN rs : q[i] = rs[j] /\ Rank(rs, j) = i
      /\ \A i \in DOMAIN rs : q[Rank(rs, i)] = rs[i]
  BY <1>1, SortedByRank
<1>3. \A i \in DOMAIN rs : Rank(rs, i) \in DOMAIN rs
  BY <1>1, RanksAreThePlaces
<1> HIDE DEF q
<1>4. q \in Seq(Results(p)) /\ Len(q) = Len(rs) /\ DOMAIN q = DOMAIN rs
  <2>1. DOMAIN rs = 1..Len(rs) /\ Len(rs) \in Nat
    BY <1>1 DEF List
  <2>2. \A i \in 1..Len(rs) : q[i] \in Results(p)
    BY <1>1, <1>2, <2>1
  <2>3. q \in [1..Len(rs) -> Results(p)]
    BY <1>2, <2>1, <2>2
  <2> QED BY <2>1, <2>3
<1>5. Totals(q) = Totals(rs)
  <2>1. ASSUME NEW i \in DOMAIN q
        PROVE  \E j \in DOMAIN rs : Total(q[i].counts) = Total(rs[j].counts)
    BY <1>2, <1>4
  <2>2. ASSUME NEW i \in DOMAIN rs
        PROVE  \E j \in DOMAIN q : Total(rs[i].counts) = Total(q[j].counts)
    BY <1>2, <1>3, <1>4
  <2> QED BY <2>1, <2>2 DEF Totals
<1>6. MinShots(q) = MinShots(rs)
  BY ONLY <1>5, Zenon DEF MinShots
<1> QED BY <1>4, <1>6 DEF q

\* Only counts above zero are kept.
LEMMA KeptOnly ==
    ASSUME NEW c
    PROVE  /\ \A s \in DOMAIN Kept(c) : s \in DOMAIN c /\ c[s] > 0 /\ Kept(c)[s] = c[s]
           /\ \A s \in DOMAIN c : c[s] > 0 => s \in DOMAIN Kept(c)
BY DEF Kept, Restrict

\* A marginal is a share of some shots, and of at least one.
IsMarginal(m) == /\ m.bit \in [Bits -> Nat] /\ m.of \in Nat /\ m.of > 0
                 /\ \A b \in Bits : m.bit[b] <= m.of

LEMMA SeenTyped ==
    ASSUME NEW w \in Nat, NEW counts \in [Strings(w) -> Nat], NEW place, NEW bit
    PROVE  Seen(counts, place, bit) \in Nat /\ Seen(counts, place, bit) <= Total(counts)
<1> DEFINE T == {s \in DOMAIN counts : place <= Len(s) /\ s[place] = bit}
<1>1. T \in SUBSET Strings(w) /\ IsFiniteSet(Strings(w))
  BY StringsAreFinite
<1>2. Seen(counts, place, bit) = Total(Restrict(counts, T))
  BY DEF Seen
<1> HIDE DEF T
<1> QED BY <1>1, <1>2, PartBelowTotal, PartFoldsAreNat

LEMMA MarginalTyped ==
    ASSUME NEW p \in Plans, NEW rs \in Seq(Results(p)), NEW q
    PROVE  IsMarginal(Marginal(p, rs, q))
<1>1. CASE Covering(p, rs, q) = {}
  <2>1. Marginal(p, rs, q) = [bit |-> [b \in Bits |-> 1], of |-> 2]
    BY <1>1 DEF Marginal
  <2> QED BY <2>1 DEF IsMarginal
<1>2. CASE Covering(p, rs, q) # {}
  <2> DEFINE i == CHOOSE j \in Covering(p, rs, q) : TRUE
             seen(b) == Seen(rs[i].counts, Place(q, p.parts[i]), b)
  <2>1. i \in Covering(p, rs, q)
    BY <1>2
  <2>2. i \in DOMAIN rs /\ Total(rs[i].counts) > 0
    <3>1. \A k \in {Len(p.parts), Len(rs)} : k \in Nat
      BY PlansOK
    <3>2. Min({Len(p.parts), Len(rs)}) \in Nat /\ Min({Len(p.parts), Len(rs)}) <= Len(rs)
      BY <3>1 DEF Min
    <3> HIDE DEF i
    <3> QED BY <2>1, <3>2 DEF Covering, Paired
  <2>3. Marginal(p, rs, q) = [bit |-> [b \in Bits |-> seen(b)], of |-> Total(rs[i].counts)]
    BY <1>2 DEF Marginal
  <2> HIDE DEF i
  <2>4. rs[i] \in Results(p)
    BY <2>2
  <2>5. Total(rs[i].counts) \in Nat
    BY <2>4, ResultsTyped, BoundsNat
  <2>6. \A b \in Bits : seen(b) \in Nat /\ seen(b) <= Total(rs[i].counts)
    BY <2>4, ResultsTyped, SeenTyped
  <2> HIDE DEF seen
  <2> QED BY <2>2, <2>3, <2>5, <2>6 DEF IsMarginal
<1> QED BY <1>1, <1>2

AreMarginals(m, n) == DOMAIN m = 0..n - 1 /\ \A q \in DOMAIN m : IsMarginal(m[q])

LEMMA MarginalsTyped ==
    ASSUME NEW p \in Plans, NEW rs \in Seq(Results(p))
    PROVE  p.n \in Nat /\ AreMarginals(Marginals(p, rs), p.n)
BY PlansOK, MarginalTyped DEF Marginals, AreMarginals

\* No string has more than the whole.
LEMMA ScoreBelowScale ==
    ASSUME NEW n \in Nat, NEW m, AreMarginals(m, n), NEW s \in Strings(n)
    PROVE  /\ Score(m, s) \in Nat /\ Scale(m) \in Nat /\ Scale(m) > 0
           /\ Score(m, s) <= Scale(m)
<1> DEFINE f == [q \in DOMAIN m |-> m[q].bit[s[q + 1]]]
           g == [q \in DOMAIN m |-> m[q].of]
           D == 0..n - 1
<1>1. \A q \in D : s[q + 1] \in Bits
  BY DEF Strings
<1>2. \A q \in D : IsMarginal(m[q]) /\ DOMAIN m = D
  BY DEF AreMarginals
<1>3. f \in [D -> Nat] /\ g \in [D -> Nat] /\ \A q \in D : f[q] <= g[q] /\ g[q] > 0
  BY <1>1, <1>2 DEF IsMarginal, AreMarginals
<1>4. IsFiniteSet(D)
  <2>1. 0 \in Int /\ n - 1 \in Int
    OBVIOUS
  <2> QED BY <2>1, FS_Interval
<1>5. Score(m, s) = Product(f) /\ Scale(m) = Product(g)
  BY DEF Score, Scale
<1> HIDE DEF f, g, D
<1> QED BY <1>3, <1>4, <1>5, FoldsAreNat, ProductsGrow, ProductOfPositive

LEMMA SharesOf ==
    ASSUME NEW a \in Nat, NEW b \in Nat, NEW c \in Nat, a <= b
    PROVE  a * c \in Nat /\ a * c <= b * c
OBVIOUS

\* Counts that a RunResult may hold: of some strings, each at least once and at
\* most as often as there were shots.
AreCounts(c, shots) == \A s \in DOMAIN c : s \in Seq(Bits) /\ c[s] \in 1..shots

LEMMA ExactTyped ==
    ASSUME NEW n \in Nat, NEW m, AreMarginals(m, n), NEW shots \in Nat
    PROVE  AreCounts(Exact(m, n, shots), shots)
<1> DEFINE c == [s \in Strings(n) |-> Round(Score(m, s) * shots, Scale(m))]
<1>1. ASSUME NEW s \in Strings(n)
      PROVE  c[s] \in 0..shots
  <2>1. Score(m, s) * shots \in Nat /\ Score(m, s) * shots <= Scale(m) * shots
    BY ScoreBelowScale, SharesOf
  <2>2. Round(Score(m, s) * shots, Scale(m)) \in 0..shots
    BY <2>1, ScoreBelowScale, RoundedShare
  <2> QED BY <2>2
<1>2. Exact(m, n, shots) = Kept(c) /\ DOMAIN c = Strings(n)
  BY DEF Exact
<1>3. Strings(n) \subseteq Seq(Bits)
  BY StringsAreFinite
<1> HIDE DEF c
<1> QED BY <1>1, <1>2, <1>3, KeptOnly DEF AreCounts

Candidates(m, n) == {Mode(m, n)} \cup {Flip(Mode(m, n), i) : i \in 1..n}

LEMMA CandidatesAreStrings ==
    ASSUME NEW n \in Nat, NEW m
    PROVE  Candidates(m, n) \in SUBSET Strings(n) /\ IsFiniteSet(Candidates(m, n))
<1>1. Mode(m, n) \in Strings(n)
  BY DEF Mode, Strings, Bits
<1>2. \A i \in 1..n : Flip(Mode(m, n), i) \in Strings(n)
  <2> DEFINE s == Mode(m, n)
  <2> HIDE DEF s
  <2>1. ASSUME NEW i \in 1..n PROVE Flip(s, i) \in Strings(n)
    <3>1. s \in [1..n -> {0, 1}]
      BY <1>1 DEF s, Strings, Bits
    <3>2. [s EXCEPT ![i] = 1 - s[i]] \in [1..n -> {0, 1}]
      BY <3>1
    <3> QED BY <3>2 DEF Flip, Strings, Bits
  <2> QED BY <2>1 DEF s
<1>3. Candidates(m, n) \in SUBSET Strings(n)
  BY <1>1, <1>2 DEF Candidates
<1> QED BY <1>3, StringsAreFinite, FS_Subset

LEMMA SampledTyped ==
    ASSUME NEW n \in Nat, NEW m, AreMarginals(m, n), NEW shots \in Nat
    PROVE  AreCounts(Sampled(m, n, shots), shots)
<1> DEFINE C == Candidates(m, n)
           f == [s \in C |-> Score(m, s)]
           all == Total(f)
           c == [s \in C |-> Round(Score(m, s) * shots, all)]
<1>1. Sampled(m, n, shots) = IF all = 0 THEN <<>> ELSE Kept(c)
  BY DEF Sampled, Candidates
<1>2. C \in SUBSET Strings(n) /\ IsFiniteSet(C) /\ Strings(n) \subseteq Seq(Bits)
  BY CandidatesAreStrings, StringsAreFinite
<1>3. f \in [C -> Nat] /\ \A s \in C : Score(m, s) \in Nat
  <2> HIDE DEF C
  <2> QED BY <1>2, ScoreBelowScale
<1>4. all \in Nat /\ \A s \in C : f[s] <= all
  <2> HIDE DEF C, f
  <2> QED BY <1>2, <1>3, FoldsAreNat, EntryBelowTotal
<1>5. CASE all = 0
  BY <1>1, <1>5 DEF AreCounts
<1>6. CASE all # 0
  <2>1. ASSUME NEW s \in C
        PROVE  c[s] \in 0..shots
    <3>1. f[s] = Score(m, s)
      OBVIOUS
    <3> HIDE DEF f, C
    <3>2. Score(m, s) * shots \in Nat /\ Score(m, s) * shots <= all * shots
      BY <1>3, <1>4, <3>1, SharesOf
    <3>3. all > 0
      BY <1>4, <1>6
    <3> HIDE DEF all
    <3>4. Round(Score(m, s) * shots, all) \in 0..shots
      BY <1>4, <3>2, <3>3, RoundedShare
    <3> QED BY <3>4
  <2>2. DOMAIN c = C
    OBVIOUS
  <2>3. Sampled(m, n, shots) = Kept(c)
    BY <1>1, <1>6
  <2> HIDE DEF c, C, all
  <2> QED BY <2>1, <2>2, <2>3, <1>2, KeptOnly DEF AreCounts
<1> QED BY <1>5, <1>6

LEMMA ReconstructTyped ==
    ASSUME NEW p \in Plans, NEW rs \in Seq(Results(p)), rs # <<>>
    PROVE  AreCounts(Reconstruct(p, rs), MinShots(rs))
<1>1. MinShots(rs) \in Nat
  BY MinShotsTyped, BoundsNat
<1> QED BY <1>1, MarginalsTyped, ExactTyped, SampledTyped DEF Reconstruct

-------------------------------------------------------------------------------
(* The tensor product                                                          *)
\* the string's bits from the one after offset on
Segment(s, offset, w) == [j \in 1..w |-> s[offset + j]]

LEMMA SegmentIsString ==
    ASSUME NEW n \in Nat, NEW s \in Strings(n), NEW offset \in Nat, NEW w \in Nat,
           offset + w <= n
    PROVE  Segment(s, offset, w) \in Strings(w)
BY DEF Segment, Strings

\* A string of a + b bits is one of a bits and one of b bits, one after the other.
LEMMA Concatenation ==
    ASSUME NEW a \in Nat, NEW b \in Nat
    PROVE  /\ \A x \in Strings(a), y \in Strings(b) : x \o y \in Strings(a + b)
           /\ \A s \in Strings(a + b) :
                /\ s = Segment(s, 0, a) \o Segment(s, a, b)
                /\ SubSeq(s, 1, a) = Segment(s, 0, a)
                /\ SubSeq(s, a + 1, Len(s)) = Segment(s, a, b)
<1>1. ASSUME NEW x \in Strings(a), NEW y \in Strings(b)
      PROVE  x \o y \in Strings(a + b)
  <2>1. x \in Seq(Bits) /\ y \in Seq(Bits) /\ Len(x) = a /\ Len(y) = b
    BY DEF Strings
  <2> DEFINE z == x \o y
  <2>2. z \in Seq(Bits) /\ Len(z) = a + b
    BY <2>1
  <2> HIDE DEF z
  <2>3. z \in [1..a + b -> Bits]
    BY <2>2
  <2> QED BY <2>3 DEF Strings, z
<1>2. ASSUME NEW s \in Strings(a + b)
      PROVE  /\ s = Segment(s, 0, a) \o Segment(s, a, b)
             /\ SubSeq(s, 1, a) = Segment(s, 0, a)
             /\ SubSeq(s, a + 1, Len(s)) = Segment(s, a, b)
  <2>1. s \in Seq(Bits) /\ Len(s) = a + b /\ DOMAIN s = 1..a + b
    BY DEF Strings
  <2> DEFINE x == Segment(s, 0, a)
             y == Segment(s, a, b)
  <2>2. x \in Seq(Bits) /\ y \in Seq(Bits) /\ Len(x) = a /\ Len(y) = b
    BY <2>1 DEF Segment
  <2>3. /\ \A j \in 1..a : x[j] = s[j]
        /\ \A j \in 1..b : y[j] = s[a + j]
    BY DEF Segment
  <2> HIDE DEF x, y
  <2> DEFINE z == x \o y
  <2>4. z = s
    <3>1. z \in Seq(Bits) /\ Len(z) = a + b
      BY <2>2
    <3>2. /\ \A j \in 1..a : z[j] = x[j]
          /\ \A j \in a + 1..a + b : z[j] = y[j - a]
      BY <2>2
    <3> HIDE DEF z
    <3>3. \A j \in a + 1..a + b : j - a \in 1..b /\ a + (j - a) = j
      OBVIOUS
    <3>4. \A j \in 1..a + b : j \in 1..a \/ j \in a + 1..a + b
      OBVIOUS
    <3>5. \A j \in 1..a + b : z[j] = s[j]
      BY <2>3, <3>2, <3>3, <3>4
    <3>6. z = [j \in 1..a + b |-> z[j]] /\ s = [j \in 1..a + b |-> s[j]]
      BY <2>1, <3>1 DEF Strings
    <3> QED BY <3>5, <3>6
  <2>5. SubSeq(s, 1, a) = x
    BY <2>1, <2>2, <2>3
  <2>6. SubSeq(s, a + 1, Len(s)) = y
    BY <2>1, <2>2, <2>3
  <2> QED BY <2>4, <2>5, <2>6 DEF x, y
<1> QED BY <1>1, <1>2

Pairs(A, B) == {x \o y : x \in A, y \in B}

LEMMA InPairs ==
    ASSUME NEW A, NEW B, NEW z
    PROVE  z \in Pairs(A, B) <=> \E x \in A, y \in B : z = x \o y
BY DEF Pairs

LEMMA PairsOfStrings ==
    ASSUME NEW l \in Nat, NEW w \in Nat
    PROVE  Pairs(Strings(l), Strings(w)) = Strings(l + w)
<1>1. ASSUME NEW z \in Pairs(Strings(l), Strings(w))
      PROVE  z \in Strings(l + w)
  <2>1. PICK x \in Strings(l), y \in Strings(w) : z = x \o y
    BY InPairs
  <2> QED BY <2>1, Concatenation
<1>2. ASSUME NEW s \in Strings(l + w)
      PROVE  s \in Pairs(Strings(l), Strings(w))
  <2>1. Segment(s, 0, l) \in Strings(l) /\ Segment(s, l, w) \in Strings(w)
    BY SegmentIsString
  <2>2. s = Segment(s, 0, l) \o Segment(s, l, w)
    BY Concatenation
  <2> QED BY <2>1, <2>2, InPairs
<1> QED BY <1>1, <1>2

LEMMA JoinedTyped ==
    ASSUME NEW l \in Nat, NEW w \in Nat,
           NEW a \in [Strings(l) -> Nat], NEW b \in [Strings(w) -> Nat]
    PROVE  /\ Joined(a, b) \in [Strings(l + w) -> Nat]
           /\ \A s \in Strings(l + w) :
                 Joined(a, b)[s] = a[Segment(s, 0, l)] * b[Segment(s, l, w)]
<1> DEFINE width == Len(CHOOSE x \in DOMAIN a : TRUE)
           S == Pairs(DOMAIN a, DOMAIN b)
<1>1. width = l
  <2>1. [i \in 1..l |-> 0] \in Strings(l)
    BY DEF Strings, Bits
  <2>2. (CHOOSE x \in DOMAIN a : TRUE) \in Strings(l)
    BY <2>1
  <2>3. \A x \in Strings(l) : Len(x) = l
    BY DEF Strings
  <2> QED BY <2>2, <2>3
<1>2. S = Strings(l + w)
  <2>1. DOMAIN a = Strings(l) /\ DOMAIN b = Strings(w)
    OBVIOUS
  <2> QED BY <2>1, PairsOfStrings
<1>3. Joined(a, b) = [s \in S |-> a[SubSeq(s, 1, width)] * b[SubSeq(s, width + 1, Len(s))]]
  BY DEF Joined, Pairs
<1> HIDE DEF width, S
<1>4. ASSUME NEW s \in Strings(l + w)
      PROVE  /\ Joined(a, b)[s] = a[Segment(s, 0, l)] * b[Segment(s, l, w)]
             /\ Joined(a, b)[s] \in Nat
  <2>1. SubSeq(s, 1, l) = Segment(s, 0, l) /\ SubSeq(s, l + 1, Len(s)) = Segment(s, l, w)
    BY Concatenation
  <2>2. Segment(s, 0, l) \in Strings(l) /\ Segment(s, l, w) \in Strings(w)
    BY SegmentIsString
  <2>3. a[Segment(s, 0, l)] \in Nat /\ b[Segment(s, l, w)] \in Nat
    BY <2>2
  <2>4. Joined(a, b)[s] = a[SubSeq(s, 1, l)] * b[SubSeq(s, l + 1, Len(s))]
    BY <1>1, <1>2, <1>3
  <2>5. Joined(a, b)[s] = a[Segment(s, 0, l)] * b[Segment(s, l, w)]
    BY ONLY <2>1, <2>4, Zenon
  <2>6. \A x, y \in Nat : x * y \in Nat
    OBVIOUS
  <2> QED BY <2>3, <2>5, <2>6
<1> QED BY <1>2, <1>3, <1>4

\* FoldLeft joins the distributions cs, of ws[i] bits each, from the first to the last.
Nothing == [s \in {<<>>} |-> 1]
AreDistributions(cs, ws, N) ==
    /\ DOMAIN cs = 1..N /\ ws \in [1..N -> Nat]
    /\ \A i \in 1..N : cs[i] \in [Strings(ws[i]) -> Nat]
Distributions == UNION {[Strings(l) -> Nat] : l \in Nat}
Joining(cs) == [i \in DOMAIN cs |-> [v \in Distributions |-> Joined(v, cs[i])]]
Highest(D) == [S \in SUBSET D |-> Max(S)]

JoinEquation(g, cs) ==
    g = [S \in SUBSET (DOMAIN cs) |->
            IF S = {} THEN Nothing ELSE Joined(g[S \ {Max(S)}], cs[Max(S)])]

LEMMA WeightsFolded ==
    ASSUME NEW cs
    PROVE  FoldLeft(Joined, Nothing, cs) = (CHOOSE g : JoinEquation(g, cs))[DOMAIN cs]
BY DEF FoldLeft, MapThenFoldSet, JoinEquation

LEMMA HighestPicks ==
    ASSUME NEW N \in Nat
    PROVE  Picks(Highest(1..N), 1..N)
<1> SUFFICES ASSUME NEW S \in SUBSET (1..N), S # {}
             PROVE  Highest(1..N)[S] \in S
  BY DEF Picks
<1> DEFINE T == {N - x : x \in S}
<1>1. T \subseteq Nat /\ T # {}
  <2>1. \A x \in S : N - x \in Nat
    OBVIOUS
  <2>2. PICK x \in S : TRUE
    OBVIOUS
  <2> QED BY <2>1, <2>2
<1>2. \E t \in T : \A u \in T : t <= u
  <2> HIDE DEF T
  <2> QED BY <1>1, LeastNumber
<1>3. PICK x \in S : \A y \in S : N - x <= N - y
  BY <1>2
<1>4. \A y \in S : x >= y
  BY <1>3
<1> QED BY <1>4 DEF Highest, Max

LEMMA NothingIsDistribution ==
    Nothing \in [Strings(0) -> Nat] /\ Nothing[<<>>] = 1 /\ Strings(0) = {<<>>}
<1>1. Strings(0) = {<<>>}
  <2>1. \A s \in [1..0 -> Bits] : s = <<>>
    <3>1. 1..0 = {}
      OBVIOUS
    <3>2. \A s \in [1..0 -> Bits] : DOMAIN s = 1..0
      OBVIOUS
    <3> QED BY <3>1, <3>2
  <2>2. <<>> \in [1..0 -> Bits]
    OBVIOUS
  <2> QED BY <2>1, <2>2 DEF Strings
<1> QED BY <1>1 DEF Nothing

LEMMA WeightsStepwise ==
    ASSUME NEW N \in Nat, NEW cs, NEW ws, AreDistributions(cs, ws, N)
    PROVE  \E c : /\ c[0] = Nothing
                  /\ \A k \in 1..N : c[k] = Joined(c[k - 1], cs[k])
                  /\ FoldLeft(Joined, Nothing, cs) = c[N]
<1> DEFINE D == 1..N
           V == Distributions
<1>1. \A i \in D, v \in V : Joining(cs)[i][v] \in V /\ Joining(cs)[i][v] = Joined(v, cs[i])
  <2> SUFFICES ASSUME NEW i \in D, NEW v \in V
               PROVE  Joining(cs)[i][v] \in V /\ Joining(cs)[i][v] = Joined(v, cs[i])
    OBVIOUS
  <2>1. PICK l \in Nat : v \in [Strings(l) -> Nat]
    BY DEF Distributions
  <2>2. ws[i] \in Nat /\ cs[i] \in [Strings(ws[i]) -> Nat] /\ DOMAIN cs = D
    BY DEF AreDistributions
  <2>3. Joined(v, cs[i]) \in [Strings(l + ws[i]) -> Nat] /\ l + ws[i] \in Nat
    BY <2>1, <2>2, JoinedTyped
  <2>4. Joined(v, cs[i]) \in V
    BY <2>3 DEF Distributions
  <2> QED BY <2>2, <2>4 DEF Joining
<1>2. Picks(Highest(D), D) /\ IsFiniteSet(D) /\ Nothing \in V
  <2>1. 1 \in Int /\ N \in Int /\ 0 \in Nat
    OBVIOUS
  <2>2. Nothing \in V
    BY <2>1, NothingIsDistribution DEF Distributions
  <2> QED BY <2>1, <2>2, HighestPicks, FS_Interval
<1>3. PICK h : IsFold(h, D, V, Highest(D), Joining(cs), Nothing)
  <2>1. \A S \in SUBSET D : S # {} => Highest(D)[S] \in S
    BY <1>2 DEF Picks
  <2> HIDE DEF D, V
  <2> QED BY <1>1, <1>2, <2>1, FoldExists
<1>4. JoinEquation(h, cs)
  <2>1. DOMAIN cs = D
    BY DEF AreDistributions
  <2>2. ASSUME NEW S \in SUBSET D, S # {}
        PROVE  h[S] = Joined(h[S \ {Max(S)}], cs[Max(S)])
    <3>1. Highest(D)[S] = Max(S) /\ Max(S) \in D
      BY <1>2, <2>2 DEF Highest, Picks
    <3>2. h[S] = Joining(cs)[Max(S)][h[S \ {Max(S)}]] /\ h[S \ {Max(S)}] \in V
      BY <1>3, <2>2, <3>1 DEF IsFold
    <3> QED BY <1>1, <3>1, <3>2
  <2>3. h \in [SUBSET D -> V] /\ h[{}] = Nothing
    BY <1>3 DEF IsFold
  <2> HIDE DEF D, V
  <2> QED BY <2>1, <2>2, <2>3 DEF JoinEquation
<1> DEFINE g == CHOOSE g : JoinEquation(g, cs)
           c == [k \in 0..N |-> g[1..k]]
<1>5. JoinEquation(g, cs)
  BY <1>4
<1>6. FoldLeft(Joined, Nothing, cs) = g[1..N] /\ DOMAIN cs = 1..N
  BY WeightsFolded DEF AreDistributions
<1> HIDE DEF g
<1>7. g[{}] = Nothing
  BY <1>5, <1>6 DEF JoinEquation
<1>8. ASSUME NEW k \in 1..N
      PROVE  g[1..k] = Joined(g[1..k - 1], cs[k])
  <2>1. 1..k \in SUBSET (1..N) /\ 1..k # {} /\ (1..k) \ {k} = 1..k - 1
    OBVIOUS
  <2>2. Max(1..k) = k
    <3>1. k \in 1..k /\ \A y \in 1..k : k >= y
      OBVIOUS
    <3>2. \A x \in 1..k : (\A y \in 1..k : x >= y) => x = k
      BY <3>1
    <3> QED BY <3>1, <3>2 DEF Max
  <2> DEFINE S == 1..k
  <2>3. S \in SUBSET (DOMAIN cs) /\ S # {}
    BY <2>1, <1>6
  <2> HIDE DEF S
  <2>4. g[S] = Joined(g[S \ {Max(S)}], cs[Max(S)])
    BY <1>5, <2>3 DEF JoinEquation
  <2>5. Max(S) = k /\ S \ {k} = 1..k - 1
    BY <2>1, <2>2 DEF S
  <2>6. g[S] = Joined(g[1..k - 1], cs[k])
    BY ONLY <2>4, <2>5, Zenon
  <2> QED BY <2>6 DEF S
<1>9. c[0] = Nothing
  <2>1. 1..0 = {}
    OBVIOUS
  <2>2. g[1..0] = Nothing
    BY ONLY <1>7, <2>1, Zenon
  <2> QED BY <2>2
<1>10. ASSUME NEW k \in 1..N
       PROVE  c[k] = Joined(c[k - 1], cs[k])
  <2>1. k \in 0..N /\ k - 1 \in 0..N
    OBVIOUS
  <2>2. c[k] = g[1..k] /\ c[k - 1] = g[1..k - 1]
    BY <2>1
  <2> QED BY ONLY <2>2, <1>8, <1>10, Zenon
<1>11. FoldLeft(Joined, Nothing, cs) = c[N]
  BY <1>6
<1> HIDE DEF c
<1> QED BY <1>9, <1>10, <1>11

\* The bits before those of the i-th distribution: the widths of 1..i-1 together.
Offset(ws, k) == Total(Restrict(ws, 1..k))

LEMMA OffsetStep ==
    ASSUME NEW N \in Nat, NEW ws \in [1..N -> Nat]
    PROVE  /\ Offset(ws, 0) = 0
           /\ \A k \in 0..N : Offset(ws, k) \in Nat
           /\ \A k \in 1..N : Offset(ws, k) = Offset(ws, k - 1) + ws[k]
<1>1. IsFiniteSet(1..N)
  <2>1. 1 \in Int /\ N \in Int
    OBVIOUS
  <2> QED BY <2>1, FS_Interval
<1>2. Offset(ws, 0) = 0
  <2>1. 1..0 = {}
    OBVIOUS
  <2>2. Total(Restrict(ws, 1..0)) = 0
    BY ONLY <2>1, NoPart, Zenon
  <2> QED BY <2>2 DEF Offset
<1>3. \A k \in 0..N : Offset(ws, k) \in Nat
  <2> SUFFICES ASSUME NEW k \in 0..N PROVE Offset(ws, k) \in Nat
    OBVIOUS
  <2>1. 1..k \in SUBSET (1..N)
    OBVIOUS
  <2> QED BY <1>1, <2>1, PartFoldsAreNat DEF Offset
<1>4. ASSUME NEW k \in 1..N
      PROVE  Offset(ws, k) = Offset(ws, k - 1) + ws[k]
  <2>1. 1..k \in SUBSET (1..N) /\ k \in 1..k /\ (1..k) \ {k} = 1..k - 1
    OBVIOUS
  <2> DEFINE U == 1..k
             D == 1..N
             W == 1..k - 1
  <2>2. U \in SUBSET D /\ k \in U /\ ws \in [D -> Nat] /\ IsFiniteSet(D)
    BY <1>1, <2>1
  <2>3. W = U \ {k}
    BY <2>1
  <2> HIDE DEF U, D, W
  <2>4. IsPart(D, ws, U, W, k)
    BY <2>2, <2>3 DEF IsPart
  <2>5. Total(Restrict(ws, U)) = ws[k] + Total(Restrict(ws, W))
    BY ONLY <2>4, TotalOfPart
  <2>6. Offset(ws, k) = ws[k] + Offset(ws, k - 1)
    BY <2>5 DEF Offset, U, W
  <2>7. ws[k] \in Nat /\ k - 1 \in 0..N
    OBVIOUS
  <2> QED BY <1>3, <2>6, <2>7
<1> QED BY <1>2, <1>3, <1>4

LEMMA OffsetsGrow ==
    ASSUME NEW N \in Nat, NEW ws \in [1..N -> Nat], NEW i \in 0..N, NEW j \in 0..N, i <= j
    PROVE  Offset(ws, i) <= Offset(ws, j)
<1> DEFINE Bad == {k \in i..N : ~(Offset(ws, i) <= Offset(ws, k))}
<1>1. SUFFICES ASSUME Bad # {} PROVE FALSE
  BY <1>1
<1>2. PICK k \in Bad : \A m \in Bad : k <= m
  <2>1. Bad \subseteq Nat
    OBVIOUS
  <2> HIDE DEF Bad
  <2> QED BY <1>1, <2>1, LeastNumber
<1>3. k # i
  BY <1>2, OffsetStep
<1>4. k - 1 \in i..N /\ k \in 1..N /\ k - 1 \notin Bad
  BY <1>2, <1>3
<1>5. Offset(ws, i) <= Offset(ws, k - 1)
  BY <1>4
<1>6. /\ Offset(ws, k) = Offset(ws, k - 1) + ws[k] /\ ws[k] \in Nat
      /\ Offset(ws, k - 1) \in Nat /\ Offset(ws, i) \in Nat
  <2>1. k - 1 \in 0..N /\ k \in 1..N /\ ws[k] \in Nat
    BY <1>4
  <2> HIDE DEF Bad
  <2> QED BY <2>1, OffsetStep
<1> QED BY <1>2, <1>5, <1>6

\* What the first k distributions give to a string: each to its segment of it.
Given(cs, ws, s, k) == [i \in 1..k |-> cs[i][Segment(s, Offset(ws, i - 1), ws[i])]]

LEMMA GivenTyped ==
    ASSUME NEW N \in Nat, NEW cs, NEW ws, AreDistributions(cs, ws, N), NEW k \in 0..N,
           NEW s \in Strings(Offset(ws, k))
    PROVE  Given(cs, ws, s, k) \in [1..k -> Nat]
<1> SUFFICES ASSUME NEW i \in 1..k
             PROVE  cs[i][Segment(s, Offset(ws, i - 1), ws[i])] \in Nat
  BY DEF Given
<1>1. ws \in [1..N -> Nat] /\ i \in 1..N /\ i \in 0..N /\ i - 1 \in 0..N
  BY DEF AreDistributions
<1>2. /\ Offset(ws, i) = Offset(ws, i - 1) + ws[i] /\ ws[i] \in Nat
      /\ Offset(ws, i - 1) \in Nat /\ Offset(ws, k) \in Nat
  BY <1>1, OffsetStep
<1>3. Offset(ws, i) <= Offset(ws, k)
  BY <1>1, OffsetsGrow
<1>4. Segment(s, Offset(ws, i - 1), ws[i]) \in Strings(ws[i])
  BY <1>2, <1>3, SegmentIsString
<1> QED BY <1>1, <1>4 DEF AreDistributions

LEMMA GivenStep ==
    ASSUME NEW N \in Nat, NEW cs, NEW ws, AreDistributions(cs, ws, N), NEW k \in 1..N,
           NEW s \in Strings(Offset(ws, k))
    PROVE  /\ Segment(s, 0, Offset(ws, k - 1)) \in Strings(Offset(ws, k - 1))
           /\ Product(Given(cs, ws, s, k)) =
                Product(Given(cs, ws, Segment(s, 0, Offset(ws, k - 1)), k - 1))
                    * cs[k][Segment(s, Offset(ws, k - 1), ws[k])]
<1> DEFINE l == Offset(ws, k - 1)
           x == Segment(s, 0, l)
           f == Given(cs, ws, s, k)
           h == Given(cs, ws, x, k - 1)
<1>1. ws \in [1..N -> Nat] /\ k \in 0..N /\ k - 1 \in 0..N /\ 1..k - 1 \subseteq 1..N
  BY DEF AreDistributions
<1>2. Offset(ws, k) = l + ws[k] /\ l \in Nat /\ ws[k] \in Nat
  BY <1>1, OffsetStep
<1>3. x \in Strings(l)
  <2> HIDE DEF l
  <2> QED BY <1>2, SegmentIsString
<1>4. f \in [1..k -> Nat] /\ IsFiniteSet(1..k) /\ k \in 1..k
  <2>1. 1 \in Int /\ k \in Int
    OBVIOUS
  <2>2. IsFiniteSet(1..k)
    BY <2>1, FS_Interval
  <2> QED BY <1>1, <2>2, GivenTyped
<1>5. h \in [1..k - 1 -> Nat]
  <2> HIDE DEF x
  <2> QED BY <1>1, <1>3, GivenTyped
<1>6. ASSUME NEW i \in 1..k - 1
      PROVE  f[i] = h[i]
  <2>1. i \in 1..N /\ i \in 0..N /\ i - 1 \in 0..N /\ i \in 1..k
    BY <1>1
  <2>2. /\ Offset(ws, i) = Offset(ws, i - 1) + ws[i] /\ ws[i] \in Nat
        /\ Offset(ws, i - 1) \in Nat
    BY <1>1, <2>1, OffsetStep
  <2>3. Offset(ws, i) <= l
    BY <1>1, <2>1, OffsetsGrow
  <2> DEFINE o == Offset(ws, i - 1)
  <2>4. Segment(s, o, ws[i]) = Segment(x, o, ws[i])
    <3> HIDE DEF l, o
    <3>1. \A j \in 1..ws[i] : o + j \in 1..l /\ 0 + (o + j) = o + j
      BY <1>2, <2>2, <2>3 DEF o
    <3>2. \A j \in 1..l : x[j] = s[0 + j]
      BY DEF Segment
    <3> HIDE DEF x
    <3>3. \A j \in 1..ws[i] : x[o + j] = s[o + j]
      BY <3>1, <3>2
    <3> QED BY <3>3 DEF Segment
  <2>5. f[i] = cs[i][Segment(s, o, ws[i])] /\ h[i] = cs[i][Segment(x, o, ws[i])]
    BY <2>1 DEF Given
  <2> QED BY ONLY <2>4, <2>5, Zenon
<1>7. Restrict(f, (1..k) \ {k}) = h
  <2>1. (1..k) \ {k} = 1..k - 1
    OBVIOUS
  <2> HIDE DEF f, h
  <2>2. Restrict(f, (1..k) \ {k}) = [i \in 1..k - 1 |-> f[i]]
    BY <2>1 DEF Restrict
  <2>3. h = [i \in 1..k - 1 |-> h[i]]
    BY <1>5
  <2>4. [i \in 1..k - 1 |-> f[i]] = [i \in 1..k - 1 |-> h[i]]
    BY <1>6
  <2> QED BY ONLY <2>2, <2>3, <2>4
<1>8. f[k] = cs[k][Segment(s, l, ws[k])]
  BY <1>4 DEF Given
<1> HIDE DEF f, h, x, l
<1>9. Product(f) = f[k] * Product(Restrict(f, (1..k) \ {k})) /\ Product(Restrict(f, (1..k) \ {k})) \in Nat
  <2> DEFINE D == 1..k
  <2>1. f \in [D -> Nat] /\ IsFiniteSet(D) /\ k \in D
    BY <1>4
  <2> HIDE DEF D
  <2>2. /\ Product(f) = f[k] * Product(Restrict(f, D \ {k}))
        /\ Product(Restrict(f, D \ {k})) \in Nat
    BY <2>1, ProductStep
  <2> QED BY <2>2 DEF D
<1>10. Product(f) = f[k] * Product(h) /\ Product(h) \in Nat
  BY ONLY <1>7, <1>9, Zenon
<1>11. f[k] \in Nat
  BY <1>4
<1>12. Product(f) = Product(h) * f[k]
  BY ONLY <1>10, <1>11
<1>13. Product(f) = Product(h) * cs[k][Segment(s, l, ws[k])]
  BY ONLY <1>12, <1>8, Zenon
<1> QED BY <1>3, <1>13 DEF f, h, x, l

\* The weight of a string is the product of what each distribution gives to it.
LEMMA WeightsAreProducts ==
    ASSUME NEW N \in Nat, NEW cs, NEW ws, AreDistributions(cs, ws, N)
    PROVE  /\ FoldLeft(Joined, Nothing, cs) \in [Strings(Offset(ws, N)) -> Nat]
           /\ \A s \in Strings(Offset(ws, N)) :
                 FoldLeft(Joined, Nothing, cs)[s] = Product(Given(cs, ws, s, N))
<1>1. PICK c : /\ c[0] = Nothing
               /\ \A k \in 1..N : c[k] = Joined(c[k - 1], cs[k])
               /\ FoldLeft(Joined, Nothing, cs) = c[N]
  BY WeightsStepwise
<1> DEFINE Good(k) == /\ c[k] \in [Strings(Offset(ws, k)) -> Nat]
                      /\ \A s \in Strings(Offset(ws, k)) :
                            c[k][s] = Product(Given(cs, ws, s, k))
           Bad == {k \in 0..N : ~Good(k)}
<1>2. Bad = {}
  <2>1. SUFFICES ASSUME Bad # {} PROVE FALSE
    OBVIOUS
  <2>2. PICK k \in Bad : \A m \in Bad : k <= m
    <3>1. Bad \subseteq Nat
      OBVIOUS
    <3> HIDE DEF Bad
    <3> QED BY <2>1, <3>1, LeastNumber
  <2>3. ws \in [1..N -> Nat] /\ k \in 0..N /\ ~Good(k)
    BY <2>2 DEF AreDistributions
  <2>4. CASE k = 0
    <3>1. Offset(ws, 0) = 0
      BY <2>3, OffsetStep
    <3>2. ASSUME NEW s
          PROVE  Product(Given(cs, ws, s, 0)) = 1
      <4>1. Given(cs, ws, s, 0) \in [{} -> Nat]
        BY DEF Given
      <4> QED BY <4>1, NothingToFold
    <3>3. Good(0)
      <4>1. c[0] \in [Strings(0) -> Nat] /\ \A s \in Strings(0) : c[0][s] = 1
        BY <1>1, NothingIsDistribution
      <4> HIDE DEF Bad
      <4> QED BY <3>1, <3>2, <4>1
    <3> QED BY <2>3, <2>4, <3>3
  <2>5. CASE k # 0
    <3> DEFINE l == Offset(ws, k - 1)
    <3>1. k \in 1..N /\ k - 1 \in 0..N /\ k - 1 \notin Bad
      BY <2>2, <2>3, <2>5
    <3>2. Good(k - 1)
      BY <3>1
    <3>3. Offset(ws, k) = l + ws[k] /\ l \in Nat /\ ws[k] \in Nat
      BY <2>3, <3>1, OffsetStep
    <3>4. cs[k] \in [Strings(ws[k]) -> Nat] /\ c[k] = Joined(c[k - 1], cs[k])
      BY <1>1, <3>1 DEF AreDistributions
    <3>5. /\ Joined(c[k - 1], cs[k]) \in [Strings(l + ws[k]) -> Nat]
          /\ \A s \in Strings(l + ws[k]) :
                Joined(c[k - 1], cs[k])[s] = c[k - 1][Segment(s, 0, l)] * cs[k][Segment(s, l, ws[k])]
      <4>1. c[k - 1] \in [Strings(l) -> Nat]
        BY <3>2
      <4> HIDE DEF l, Good, Bad
      <4> QED BY <3>3, <3>4, <4>1, JoinedTyped
    <3>6. ASSUME NEW s \in Strings(Offset(ws, k))
          PROVE  c[k][s] = Product(Given(cs, ws, s, k))
      <4> HIDE DEF Bad
      <4>1. /\ Segment(s, 0, l) \in Strings(l)
            /\ Product(Given(cs, ws, s, k)) =
                 Product(Given(cs, ws, Segment(s, 0, l), k - 1)) * cs[k][Segment(s, l, ws[k])]
        BY <3>1, GivenStep
      <4>2. c[k - 1][Segment(s, 0, l)] = Product(Given(cs, ws, Segment(s, 0, l), k - 1))
        BY <3>2, <4>1
      <4>3. c[k][s] = c[k - 1][Segment(s, 0, l)] * cs[k][Segment(s, l, ws[k])]
        BY <3>3, <3>4, <3>5
      <4> QED BY ONLY <4>1, <4>2, <4>3, Zenon
    <3>7. c[k] \in [Strings(Offset(ws, k)) -> Nat]
      BY <3>3, <3>4, <3>5
    <3> QED BY <2>3, <3>6, <3>7
  <2> QED BY <2>4, <2>5
<1>3. N \in 0..N
  OBVIOUS
<1>4. Good(N)
  BY <1>2, <1>3
<1> QED BY <1>1, <1>4

\* The distributions and widths of results, in their order.
CountsIn(rs) == [i \in DOMAIN rs |-> rs[i].counts]
TotalsIn(rs) == [i \in DOMAIN rs |-> Total(rs[i].counts)]
Widths(p, rs) == [i \in DOMAIN rs |-> Cardinality(p.parts[rs[i].index])]
Weights(rs) == FoldLeft(Joined, Nothing, CountsIn(rs))

LEMMA TensorWeights ==
    ASSUME NEW p \in Plans, NEW rs \in Seq(Results(p)), NEW N, N = Len(rs),
           NEW ws, ws = Widths(p, rs)
    PROVE  /\ N \in Nat /\ DOMAIN rs = 1..N /\ ws \in [1..N -> Nat] /\ Offset(ws, N) \in Nat
           /\ TotalsIn(rs) \in [1..N -> Nat] /\ IsFiniteSet(1..N)
           /\ Weights(rs) \in [Strings(Offset(ws, N)) -> Nat]
           /\ \A s \in Strings(Offset(ws, N)) :
                /\ Given(CountsIn(rs), ws, s, N) \in [1..N -> Nat]
                /\ \A i \in 1..N :
                     /\ Segment(s, Offset(ws, i - 1), ws[i]) \in Strings(ws[i])
                     /\ Given(CountsIn(rs), ws, s, N)[i] =
                          rs[i].counts[Segment(s, Offset(ws, i - 1), ws[i])]
                     /\ Given(CountsIn(rs), ws, s, N)[i] <= TotalsIn(rs)[i]
                /\ Weights(rs)[s] = Product(Given(CountsIn(rs), ws, s, N))
<1> DEFINE cs == CountsIn(rs)
<1>1. N \in Nat /\ DOMAIN rs = 1..N /\ \A i \in 1..N : rs[i] \in Results(p)
  OBVIOUS
<1>2. \A i \in 1..N : /\ cs[i] = rs[i].counts /\ ws[i] = Cardinality(p.parts[rs[i].index])
                      /\ TotalsIn(rs)[i] = Total(rs[i].counts)
  BY <1>1 DEF CountsIn, Widths, TotalsIn
<1>3. \A i \in 1..N : /\ ws[i] \in Nat /\ cs[i] \in [Strings(ws[i]) -> Nat]
                      /\ IsFiniteSet(Strings(ws[i]))
                      /\ Total(cs[i]) \in Nat
  <2> SUFFICES ASSUME NEW i \in 1..N
               PROVE  /\ ws[i] \in Nat /\ cs[i] \in [Strings(ws[i]) -> Nat]
                      /\ IsFiniteSet(Strings(ws[i]))
                      /\ Total(cs[i]) \in Nat
    OBVIOUS
  <2> DEFINE r == rs[i]
  <2>1. r \in Results(p) /\ cs[i] = r.counts /\ ws[i] = Cardinality(p.parts[r.index])
    BY <1>1, <1>2
  <2> HIDE DEF r, cs
  <2>2. /\ Cardinality(p.parts[r.index]) \in Nat
        /\ r.counts \in [Strings(Cardinality(p.parts[r.index])) -> Nat]
        /\ IsFiniteSet(Strings(Cardinality(p.parts[r.index])))
        /\ Total(r.counts) \in Nat
    BY <2>1, ResultsTyped, BoundsNat
  <2> QED BY <2>1, <2>2
<1>4. ws \in [1..N -> Nat] /\ TotalsIn(rs) \in [1..N -> Nat] /\ DOMAIN cs = 1..N
  BY <1>1, <1>2, <1>3 DEF Widths, TotalsIn, CountsIn
<1>5. AreDistributions(cs, ws, N)
  BY <1>3, <1>4 DEF AreDistributions
<1>6. IsFiniteSet(1..N) /\ N \in 0..N
  <2>1. 1 \in Int /\ N \in Int
    BY <1>1
  <2> QED BY <1>1, <2>1, FS_Interval
<1>7. Offset(ws, N) \in Nat
  BY <1>1, <1>4, <1>6, OffsetStep
<1> HIDE DEF cs
<1>8. /\ FoldLeft(Joined, Nothing, cs) \in [Strings(Offset(ws, N)) -> Nat]
      /\ \A s \in Strings(Offset(ws, N)) :
            FoldLeft(Joined, Nothing, cs)[s] = Product(Given(cs, ws, s, N))
  BY <1>1, <1>5, WeightsAreProducts
<1>9. Weights(rs) = FoldLeft(Joined, Nothing, cs)
  BY DEF Weights, cs
<1>10. ASSUME NEW s \in Strings(Offset(ws, N))
       PROVE  Given(cs, ws, s, N) \in [1..N -> Nat]
  BY <1>1, <1>5, <1>6, GivenTyped
<1>11. ASSUME NEW s \in Strings(Offset(ws, N)), NEW i \in 1..N
       PROVE  /\ Segment(s, Offset(ws, i - 1), ws[i]) \in Strings(ws[i])
              /\ Given(cs, ws, s, N)[i] = rs[i].counts[Segment(s, Offset(ws, i - 1), ws[i])]
              /\ Given(cs, ws, s, N)[i] <= TotalsIn(rs)[i]
  <2>1. i \in 0..N /\ i - 1 \in 0..N
    BY <1>1
  <2>2. /\ Offset(ws, i) = Offset(ws, i - 1) + ws[i] /\ ws[i] \in Nat
        /\ Offset(ws, i - 1) \in Nat
    BY <1>1, <1>4, <2>1, OffsetStep
  <2>3. Offset(ws, i) <= Offset(ws, N)
    <3>1. i <= N
      BY <1>1
    <3> QED BY <1>1, <1>4, <1>6, <2>1, <3>1, OffsetsGrow
  <2> DEFINE t == Segment(s, Offset(ws, i - 1), ws[i])
  <2>4. t \in Strings(ws[i])
    BY <1>7, <2>2, <2>3, SegmentIsString
  <2>5. Given(cs, ws, s, N)[i] = cs[i][t]
    BY DEF Given
  <2> HIDE DEF t
  <2>6. cs[i][t] <= Total(cs[i])
    BY <1>3, <2>4, EntryBelowTotal
  <2>7. cs[i] = rs[i].counts /\ TotalsIn(rs)[i] = Total(rs[i].counts)
    BY <1>2
  <2>8. Total(cs[i]) = TotalsIn(rs)[i]
    BY ONLY <2>7, Zenon
  <2> QED BY <2>4, <2>5, <2>6, <2>7, <2>8 DEF t
<1> QED BY <1>1, <1>4, <1>6, <1>7, <1>8, <1>9, <1>10, <1>11 DEF cs

LEMMA TensorTyped ==
    ASSUME NEW p \in Plans, NEW rs \in Seq(Results(p)), rs # <<>>
    PROVE  AreCounts(TensorProduct(rs), MinShots(rs))
<1> DEFINE N == Len(rs)
           ws == Widths(p, rs)
           S == Strings(Offset(ws, N))
           all == Product(TotalsIn(rs))
           shots == MinShots(rs)
           c == [s \in DOMAIN Weights(rs) |-> Round(Weights(rs)[s] * shots, all)]
<1>1. TensorProduct(rs) = IF all = 0 THEN <<>> ELSE Kept(c)
  BY DEF TensorProduct, Weights, Nothing, CountsIn, TotalsIn
<1>2. /\ N \in Nat /\ Offset(ws, N) \in Nat
      /\ TotalsIn(rs) \in [1..N -> Nat] /\ IsFiniteSet(1..N)
      /\ Weights(rs) \in [S -> Nat]
  BY TensorWeights
<1>3. ASSUME NEW s \in S
      PROVE  /\ Given(CountsIn(rs), ws, s, N) \in [1..N -> Nat]
             /\ \A i \in 1..N : Given(CountsIn(rs), ws, s, N)[i] <= TotalsIn(rs)[i]
             /\ Weights(rs)[s] = Product(Given(CountsIn(rs), ws, s, N))
  BY <1>3, TensorWeights
<1>4. shots \in Nat
  BY MinShotsTyped, BoundsNat
<1>5. all \in Nat
  BY <1>2, FoldsAreNat
<1>6. CASE all = 0
  BY <1>1, <1>6 DEF AreCounts
<1>7. CASE all # 0
  <2>1. ASSUME NEW s \in S
        PROVE  c[s] \in 0..shots
    <3>1. Weights(rs)[s] <= all /\ Weights(rs)[s] \in Nat
      <4> DEFINE f == Given(CountsIn(rs), ws, s, N)
                 g == TotalsIn(rs)
      <4>1. f \in [1..N -> Nat] /\ g \in [1..N -> Nat] /\ \A i \in 1..N : f[i] <= g[i]
        BY <1>2, <1>3
      <4>2. Weights(rs)[s] = Product(f)
        BY <1>3
      <4> HIDE DEF f, g, N
      <4>3. Product(f) <= Product(g) /\ Product(f) \in Nat
        BY <1>2, <4>1, ProductsGrow, FoldsAreNat
      <4> QED BY <4>2, <4>3 DEF g
    <3>2. c[s] = Round(Weights(rs)[s] * shots, all)
      BY <1>2
    <3> HIDE DEF all, shots
    <3>3. Weights(rs)[s] * shots \in Nat /\ Weights(rs)[s] * shots <= all * shots
      BY <1>4, <1>5, <3>1, SharesOf
    <3>4. all > 0
      BY <1>5, <1>7
    <3>5. Round(Weights(rs)[s] * shots, all) \in 0..shots
      BY <1>4, <1>5, <3>3, <3>4, RoundedShare
    <3> QED BY <3>2, <3>5
  <2>2. DOMAIN c = S /\ S \subseteq Seq(Bits)
    BY <1>2, StringsAreFinite
  <2>3. TensorProduct(rs) = Kept(c)
    BY <1>1, <1>7
  <2> HIDE DEF c, S, shots
  <2>4. AreCounts(Kept(c), shots)
    BY <2>1, <2>2, KeptOnly DEF AreCounts
  <2> QED BY <2>3, <2>4 DEF shots
<1> QED BY <1>6, <1>7

\* What aggregate() returns, with the plan or without it.
LEMMA AggregatedTyped ==
    ASSUME NEW p \in Plans, NEW rs \in Seq(Results(p)), NEW given, given \in {p, NoPlan}
    PROVE  /\ Aggregated(given, rs).method \in RunMethods
           /\ Aggregated(given, rs).shots \in 0..MaxShots
           /\ AreCounts(Aggregated(given, rs).counts, Aggregated(given, rs).shots)
<1> DEFINE r == Aggregated(given, rs)
<1>1. CASE rs = <<>>
  BY <1>1, BoundsNat DEF Aggregated, Failed, RunMethods, AreCounts
<1>2. CASE rs # <<>> /\ Len(rs) = 1
  <2> DEFINE c == rs[1].counts
             w == Cardinality(p.parts[rs[1].index])
  <2>1. r = Completed(Kept(c), Total(c), "passthrough")
    BY <1>2 DEF Aggregated
  <2>2. rs[1] \in Results(p)
    BY <1>2
  <2>3. w \in Nat /\ c \in [Strings(w) -> Nat] /\ IsFiniteSet(Strings(w)) /\ Total(c) \in 0..MaxShots
    BY <2>2, ResultsTyped
  <2> HIDE DEF c, w
  <2>4. AreCounts(Kept(c), Total(c))
    <3> SUFFICES ASSUME NEW s \in DOMAIN Kept(c)
                 PROVE  s \in Seq(Bits) /\ Kept(c)[s] \in 1..Total(c)
      BY DEF AreCounts
    <3>1. s \in Strings(w) /\ c[s] > 0 /\ Kept(c)[s] = c[s] /\ c[s] \in Nat
      BY <2>3, KeptOnly
    <3>2. c[s] <= Total(c)
      BY <2>3, <3>1, EntryBelowTotal
    <3> QED BY <2>3, <3>1, <3>2, StringsAreFinite, BoundsNat
  <2> QED BY <2>1, <2>3, <2>4 DEF Completed, RunMethods
<1>3. CASE rs # <<>> /\ Len(rs) # 1
  <2> DEFINE q == Sorted(rs)
  <2>1. q \in Seq(Results(p)) /\ q # <<>> /\ MinShots(q) = MinShots(rs)
    BY <1>3, SortedResults
  <2>2. MinShots(rs) \in 0..MaxShots
    BY <1>3, MinShotsTyped
  <2> HIDE DEF q
  <2>3. AreCounts(TensorProduct(q), MinShots(rs)) /\ AreCounts(Reconstruct(p, q), MinShots(rs))
    BY <2>1, TensorTyped, ReconstructTyped
  <2>4. \/ r = Completed(TensorProduct(q), MinShots(rs), "marginal_reconstruction_fallback")
        \/ r = Completed(Reconstruct(p, q), MinShots(rs), "marginal_reconstruction")
        \/ r = Completed(TensorProduct(q), MinShots(rs), "tensor_product")
    BY <1>3 DEF Aggregated, q
  <2> HIDE DEF r
  <2>5. r.method \in RunMethods /\ r.shots \in 0..MaxShots /\ AreCounts(r.counts, r.shots)
    BY <2>2, <2>3, <2>4 DEF Completed, RunMethods
  <2> QED BY <2>5 DEF r
<1> QED BY <1>1, <1>2, <1>3

\* Type correctness: whatever arrived, the RunResult names one of the four methods,
\* reports no more shots than a partition ran, and every bitstring in it is one of
\* bits, counted at least once and at most as often as there were shots: no rounded
\* share is more than the shots it is a share of.
THEOREM TypeCorrect ==
    Spec => []TypeOK
<1>1. IInv => TypeOK
  <2> SUFFICES ASSUME IInv PROVE TypeOK
    OBVIOUS
  <2>1. \A i \in DOMAIN inbox : /\ inbox[i].index \in DOMAIN plan.parts
                                /\ inbox[i].counts \in [Strings(Width(inbox[i].index)) -> Nat]
                                /\ Total(inbox[i].counts) <= MaxShots
    BY ResultsAreLists, ResultsTyped, BoundsNat DEF IInv, Width
  <2>2. Done => /\ run.method \in RunMethods /\ run.shots \in 0..MaxShots
                /\ AreCounts(run.counts, run.shots)
    BY AggregatedTyped DEF IInv, RunIs
  <2> QED BY <2>1, <2>2 DEF IInv, TypeOK, AreCounts
<1> QED BY <1>1, Inductive, PTL

-------------------------------------------------------------------------------
(* The places of qubits                                                        *)
\* Qubits of S take the places 1..Cardinality(S), in ascending order.
LEMMA PlacesAreTaken ==
    ASSUME NEW S, S \in SUBSET Nat, IsFiniteSet(S)
    PROVE  /\ Cardinality(S) \in Nat
           /\ \A q \in S : Place(q, S) \in 1..Cardinality(S)
           /\ \A q, r \in S : q < r => Place(q, S) < Place(r, S)
           /\ \A i \in 1..Cardinality(S) : \E q \in S : Place(q, S) = i
<1> DEFINE N == Cardinality(S)
           Lower(q) == {r \in S : r < q}
<1>1. N \in Nat
  BY FS_CardinalityType
<1>2. IsFiniteSet(1..N) /\ Cardinality(1..N) = N
  <2> HIDE DEF N
  <2>1. IsFiniteSet(1..N) /\ Cardinality(1..N) = IF 1 > N THEN 0 ELSE N - 1 + 1
    BY <1>1, FS_Interval
  <2> QED BY <1>1, <2>1
<1>3. \A q \in S : Place(q, S) = Cardinality(Lower(q)) + 1
  BY DEF Place
<1>4. ASSUME NEW q \in S
      PROVE  IsFiniteSet(Lower(q)) /\ Cardinality(Lower(q)) \in Nat /\ Place(q, S) \in 1..N
  <2> DEFINE L == Lower(q)
             R == S \ {q}
  <2>1. IsFiniteSet(R) /\ Cardinality(R) = N - 1
    BY FS_RemoveElement
  <2>2. L \in SUBSET R
    BY <1>4
  <2> HIDE DEF L, R
  <2>3. IsFiniteSet(L) /\ Cardinality(L) <= Cardinality(R)
    BY <2>1, <2>2, FS_Subset
  <2>4. Cardinality(L) \in Nat
    BY <2>3, FS_CardinalityType
  <2>5. Place(q, S) = Cardinality(L) + 1
    BY <1>3 DEF L
  <2>6. Place(q, S) \in 1..N
    BY <1>1, <2>1, <2>3, <2>4, <2>5
  <2> QED BY <2>3, <2>4, <2>6 DEF L
<1>5. ASSUME NEW q \in S, NEW r \in S, q < r
      PROVE  Place(q, S) < Place(r, S)
  <2> DEFINE L == Lower(q)
             M == Lower(r)
  <2>1. L \in SUBSET M /\ q \in M /\ q \notin L
    <3>1. \A x \in S : x \in Nat
      OBVIOUS
    <3>2. \A x, y, z \in Nat : (x < y /\ y < z => x < z) /\ ~(x < x)
      OBVIOUS
    <3>3. q < r
      BY <1>5
    <3> QED BY <3>1, <3>2, <3>3
  <2>2. IsFiniteSet(M) /\ Cardinality(L) \in Nat /\ Cardinality(M) \in Nat
    BY <1>4
  <2>3. Place(q, S) = Cardinality(L) + 1 /\ Place(r, S) = Cardinality(M) + 1
    BY <1>3
  <2> HIDE DEF L, M
  <2>4. Cardinality(L) <= Cardinality(M) /\ Cardinality(L) # Cardinality(M)
    BY <2>1, <2>2, FS_Subset
  <2> QED BY <2>2, <2>3, <2>4
<1>6. ASSUME NEW i \in 1..N
      PROVE  \E q \in S : Place(q, S) = i
  <2> DEFINE f == [q \in S |-> Place(q, S)]
  <2>1. f \in [S -> 1..N]
    BY <1>4
  <2>2. ASSUME NEW q \in S, NEW r \in S, f[q] = f[r]
        PROVE  q = r
    <3>1. Place(q, S) = Place(r, S) /\ ~(Place(q, S) < Place(r, S))
          /\ ~(Place(r, S) < Place(q, S))
      <4>1. Place(q, S) = Place(r, S)
        BY <2>2
      <4>2. Place(q, S) \in 1..N /\ Place(r, S) \in 1..N
        BY <1>4
      <4> HIDE DEF N
      <4> QED BY <1>1, <4>1, <4>2
    <3>2. q \in Nat /\ r \in Nat
      OBVIOUS
    <3>3. ~(q < r) /\ ~(r < q)
      BY <1>5, <3>1
    <3> QED BY <3>2, <3>3
  <2>3. f \in Injection(S, 1..N)
    BY <2>1, <2>2 DEF Injection, IsInjective
  <2>4. f \in Surjection(S, 1..N)
    <3> HIDE DEF f
    <3> QED BY <1>2, <2>3, FS_Injection
  <2> QED BY <2>4 DEF Surjection
<1> QED BY <1>1, <1>4, <1>5, <1>6

\* The ascending list of S has each qubit at its place, and nowhere else.
LEMMA AscendingPlaces ==
    ASSUME NEW S, S \in SUBSET Nat, IsFiniteSet(S)
    PROVE  /\ DOMAIN Ascending(S) = 1..Cardinality(S)
           /\ \A q \in S, i \in 1..Cardinality(S) : Ascending(S)[i] = q <=> i = Place(q, S)
<1> DEFINE N == Cardinality(S)
           Rising(l) == \A i, j \in DOMAIN l : i < j => l[i] < l[j]
           l == CHOOSE l \in [1..N -> S] : Rising(l)
           k == [i \in 1..N |-> CHOOSE q \in S : Place(q, S) = i]
<1>1. N \in Nat /\ IsFiniteSet(1..N) /\ Cardinality(1..N) = N
  <2>1. N \in Nat
    BY FS_CardinalityType
  <2> HIDE DEF N
  <2>2. IsFiniteSet(1..N) /\ Cardinality(1..N) = IF 1 > N THEN 0 ELSE N - 1 + 1
    BY <2>1, FS_Interval
  <2> QED BY <2>1, <2>2
<1>2. k \in [1..N -> S] /\ \A i \in 1..N : Place(k[i], S) = i
  BY PlacesAreTaken
<1>3. Rising(k)
  <2> SUFFICES ASSUME NEW i \in 1..N, NEW j \in 1..N, i < j
               PROVE  k[i] < k[j]
    OBVIOUS
  <2>1. k[i] \in S /\ k[j] \in S /\ Place(k[i], S) = i /\ Place(k[j], S) = j
    BY <1>2
  <2> HIDE DEF k
  <2>2. k[i] # k[j] /\ ~(k[j] < k[i])
    <3>1. k[j] < k[i] => Place(k[j], S) < Place(k[i], S)
      BY <2>1, PlacesAreTaken
    <3>2. i < j /\ i \in Nat /\ j \in Nat
      BY <1>1
    <3>3. k[j] < k[i] => j < i
      BY ONLY <2>1, <3>1, Zenon
    <3>4. k[i] = k[j] => i = j
      BY ONLY <2>1, Zenon
    <3> QED BY ONLY <3>2, <3>3, <3>4
  <2>3. k[i] \in Nat /\ k[j] \in Nat
    BY <2>1
  <2> QED BY <2>2, <2>3
<1> HIDE DEF k
<1>4. l \in [1..N -> S] /\ Rising(l)
  <2>1. \E x \in [1..N -> S] : Rising(x)
    BY <1>2, <1>3
  <2> HIDE DEF Rising
  <2> QED BY <2>1
<1>5. Ascending(S) = l
  BY DEF Ascending
<1> HIDE DEF l
<1>6. ASSUME NEW i \in 1..N, NEW j \in 1..N
      PROVE  /\ l[i] \in S /\ l[i] \in Nat /\ l[j] \in Nat
             /\ i < j <=> l[i] < l[j]
             /\ l[i] = l[j] => i = j
  <2>1. l[i] \in S /\ l[j] \in S
    BY <1>4
  <2>2. l[i] \in Nat /\ l[j] \in Nat
    BY <2>1
  <2>3. (i < j => l[i] < l[j]) /\ (j < i => l[j] < l[i])
    BY <1>4
  <2> QED BY <2>1, <2>2, <2>3
<1>7. ASSUME NEW i \in 1..N
      PROVE  Place(l[i], S) = i
  <2> DEFINE L == {r \in S : r < l[i]}
             g == [j \in 1..i - 1 |-> l[j]]
  <2>1. l \in Surjection(1..N, S)
    <3>1. l \in Injection(1..N, S)
      BY <1>4, <1>6 DEF Injection, IsInjective
    <3> HIDE DEF N
    <3> QED BY <1>1, <3>1, FS_Injection DEF N
  <2>2. \A j \in 1..i - 1 : j \in 1..N /\ j < i
    BY <1>1
  <2>3. g \in [1..i - 1 -> L]
    BY <1>6, <2>2
  <2>4. \A j, m \in 1..i - 1 : g[j] = g[m] => j = m
    BY <1>6, <2>2
  <2>5. ASSUME NEW r \in L
        PROVE  \E j \in 1..i - 1 : g[j] = r
    <3>1. PICK j \in 1..N : l[j] = r
      BY <2>1 DEF Surjection
    <3>2. j < i
      BY <1>6, <3>1
    <3>3. j \in 1..i - 1
      BY <3>2
    <3> QED BY <3>1, <3>3
  <2>6. ExistsBijection(1..i - 1, L)
    BY <2>3, <2>4, <2>5 DEF ExistsBijection, Bijection, Injection, Surjection, IsInjective
  <2>7. IsFiniteSet(1..i - 1) /\ Cardinality(1..i - 1) = i - 1
    <3>1. 1 \in Int /\ i - 1 \in Int /\ i \in Nat /\ i >= 1
      BY <1>1
    <3>2. /\ IsFiniteSet(1..i - 1)
          /\ Cardinality(1..i - 1) = IF 1 > i - 1 THEN 0 ELSE (i - 1) - 1 + 1
      BY <3>1, FS_Interval
    <3> QED BY <3>1, <3>2
  <2>8. Cardinality(L) = i - 1
    <3> HIDE DEF L
    <3> QED BY <2>6, <2>7, FS_Bijection
  <2>9. Place(l[i], S) = Cardinality(L) + 1
    BY DEF Place
  <2> HIDE DEF L
  <2> QED BY <1>1, <2>8, <2>9
<1>8. ASSUME NEW q \in S, NEW i \in 1..N
      PROVE  l[i] = q <=> i = Place(q, S)
  <2>1. l[i] = q => i = Place(q, S)
    BY <1>7
  <2>2. ASSUME i = Place(q, S) PROVE l[i] = q
    <3>1. l[i] \in S /\ Place(l[i], S) = i /\ l[i] \in Nat /\ q \in Nat
      BY <1>6, <1>7
    <3>2. ~(l[i] < q) /\ ~(q < l[i])
      <4>1. i \in Nat
        BY <1>1
      <4>2. /\ l[i] < q => Place(l[i], S) < Place(q, S)
            /\ q < l[i] => Place(q, S) < Place(l[i], S)
        BY <3>1, PlacesAreTaken
      <4>3. (l[i] < q => i < i) /\ (q < l[i] => i < i)
        BY ONLY <2>2, <3>1, <4>2, Zenon
      <4> QED BY ONLY <4>1, <4>3
    <3> QED BY <3>1, <3>2
  <2> QED BY <2>1, <2>2
<1> QED BY <1>4, <1>5, <1>8

-------------------------------------------------------------------------------
(* One result of every partition                                               *)
\* Sorted, they are in the order of the partitions.
Whole(p, rs) == /\ p \in Plans /\ rs \in Seq(Results(p)) /\ Len(rs) = Len(p.parts)
                /\ \A i \in DOMAIN rs : rs[i].index = i

LEMMA SortedWhole ==
    ASSUME NEW p \in Plans, NEW rs \in Seq(Results(p)),
           Indices(rs) = DOMAIN p.parts, Len(rs) = Len(p.parts)
    PROVE  /\ Whole(p, Sorted(rs)) /\ DOMAIN Sorted(rs) = DOMAIN p.parts
           /\ \A i \in DOMAIN p.parts :
                Sorted(rs)[i] = rs[CHOOSE j \in DOMAIN rs : rs[j].index = i]
<1> DEFINE N == Len(rs)
           at(i) == CHOOSE j \in DOMAIN rs : rs[j].index = i
<1>1. /\ DOMAIN rs = 1..N /\ N \in Nat /\ DOMAIN p.parts = 1..N
      /\ \A i \in 1..N : rs[i].index \in 1..N
      /\ List(rs)
  <2>1. List(rs) /\ \A i \in DOMAIN rs : rs[i].index \in DOMAIN p.parts
    BY ResultsAreLists
  <2>2. p.parts \in Seq(SUBSET Nat)
    BY PlansOK
  <2>3. DOMAIN p.parts = 1..Len(p.parts)
    BY <2>2
  <2> QED BY <2>1, <2>3 DEF List
<1>2. IsFiniteSet(1..N) /\ Cardinality(1..N) = N
  <2> HIDE DEF N
  <2>1. IsFiniteSet(1..N) /\ Cardinality(1..N) = IF 1 > N THEN 0 ELSE N - 1 + 1
    BY <1>1, FS_Interval
  <2> QED BY <1>1, <2>1
<1>3. Distinct(rs)
  <2>1. Cardinality(Indices(rs)) = Len(rs)
    BY <1>1, <1>2
  <2> QED BY <1>1, <2>1, DistinctResults
<1>4. ASSUME NEW i \in 1..N
      PROVE  at(i) \in 1..N /\ rs[at(i)].index = i
  <2>1. \E j \in DOMAIN rs : rs[j].index = i
    BY <1>1 DEF Indices
  <2> QED BY <1>1, <2>1
<1> HIDE DEF at
<1>5. ASSUME NEW i \in 1..N
      PROVE  Rank(rs, i) = rs[i].index
  <2> DEFINE B == Before(rs, i)
             k == rs[i].index
             g == [j \in B |-> rs[j].index]
  <2>1. k \in 1..N
    BY <1>1
  <2>2. B = {j \in 1..N : rs[j].index < k}
    <3>1. \A j \in 1..N : rs[j].index = rs[i].index => ~(j < i)
      BY <1>1, <1>3 DEF Distinct
    <3> QED BY <1>1, <3>1 DEF Before
  <2> HIDE DEF B, k
  <2>3. \A j \in B : j \in 1..N /\ rs[j].index \in 1..k - 1
    BY <1>1, <2>1, <2>2
  <2>4. g \in [B -> 1..k - 1]
    BY <2>3
  <2>5. \A j, m \in B : g[j] = g[m] => j = m
    BY <1>1, <1>3, <2>3 DEF Distinct
  <2>6. ASSUME NEW m \in 1..k - 1
        PROVE  \E j \in B : g[j] = m
    <3>1. m \in 1..N /\ m < k
      BY <1>1, <2>1
    <3>2. at(m) \in B
      BY <1>4, <2>2, <3>1
    <3> QED BY <1>4, <3>1, <3>2
  <2>7. ExistsBijection(B, 1..k - 1)
    BY <2>4, <2>5, <2>6 DEF ExistsBijection, Bijection, Injection, Surjection, IsInjective
  <2>8. IsFiniteSet(B)
    <3>1. B \in SUBSET (1..N)
      BY <2>2
    <3> QED BY <1>2, <3>1, FS_Subset
  <2>9. Cardinality(1..k - 1) = Cardinality(B)
    BY <2>7, <2>8, FS_Bijection
  <2>10. Cardinality(1..k - 1) = k - 1
    <3>1. 1 \in Int /\ k - 1 \in Int /\ k \in Nat /\ k >= 1
      BY <1>1, <2>1
    <3>2. Cardinality(1..k - 1) = IF 1 > k - 1 THEN 0 ELSE (k - 1) - 1 + 1
      BY <3>1, FS_Interval
    <3> QED BY <3>1, <3>2
  <2>11. k \in Nat
    BY <1>1, <2>1
  <2> QED BY <2>9, <2>10, <2>11 DEF Rank, B, k
<1>6. ASSUME NEW i \in 1..N
      PROVE  Sorted(rs)[i] = rs[at(i)]
  <2>1. Rank(rs, at(i)) = i
    BY <1>4, <1>5
  <2>2. at(i) \in DOMAIN rs
    BY <1>1, <1>4
  <2>3. Sorted(rs)[Rank(rs, at(i))] = rs[at(i)]
    BY <1>1, <2>2, SortedByRank
  <2> QED BY ONLY <2>1, <2>3, Zenon
<1>7. Whole(p, Sorted(rs))
  <2>1. Sorted(rs) \in Seq(Results(p)) /\ Len(Sorted(rs)) = N /\ DOMAIN Sorted(rs) = 1..N
    BY <1>1, SortedResults
  <2>2. \A i \in 1..N : Sorted(rs)[i].index = i
    BY <1>4, <1>6
  <2> QED BY <2>1, <2>2 DEF Whole
<1>8. DOMAIN Sorted(rs) = DOMAIN p.parts
  BY <1>1, SortedResults
<1> QED BY <1>1, <1>6, <1>7, <1>8 DEF at

\* the result of partition i has a string with the bit b at the place of qubit q
Measured(p, rs, i, q, b) ==
    \E s \in DOMAIN rs[i].counts :
        rs[i].counts[s] > 0 /\ s[Place(q, p.parts[i])] = b

LEMMA WholeTyped ==
    ASSUME NEW p, NEW rs, Whole(p, rs), NEW i \in DOMAIN p.parts
    PROVE  /\ DOMAIN rs = DOMAIN p.parts /\ rs # <<>> /\ rs[i] \in Results(p)
           /\ DOMAIN p.parts = 1..Len(rs) /\ Len(rs) \in Nat
           /\ Cardinality(p.parts[i]) \in Nat
           /\ rs[i].counts \in [Strings(Cardinality(p.parts[i])) -> Nat]
           /\ IsFiniteSet(Strings(Cardinality(p.parts[i])))
           /\ Total(rs[i].counts) \in Nat
           /\ p.parts[i] \in SUBSET Nat /\ IsFiniteSet(p.parts[i])
<1>1. p \in Plans /\ rs \in Seq(Results(p)) /\ Len(rs) = Len(p.parts) /\ p.parts \in Seq(SUBSET Nat)
  BY PlansOK DEF Whole
<1>2. DOMAIN rs = 1..Len(rs) /\ DOMAIN p.parts = 1..Len(rs) /\ Len(rs) \in Nat
  BY <1>1
<1>3. rs[i] \in Results(p) /\ rs[i].index = i
  BY <1>1, <1>2 DEF Whole
<1>4. /\ Cardinality(p.parts[rs[i].index]) \in Nat
      /\ rs[i].counts \in [Strings(Cardinality(p.parts[rs[i].index])) -> Nat]
      /\ IsFiniteSet(Strings(Cardinality(p.parts[rs[i].index])))
      /\ Total(rs[i].counts) \in Nat
  <2> DEFINE r == rs[i]
  <2> HIDE DEF r
  <2>1. r \in Results(p)
    BY <1>3 DEF r
  <2>2. /\ Cardinality(p.parts[r.index]) \in Nat
        /\ r.counts \in [Strings(Cardinality(p.parts[r.index])) -> Nat]
        /\ IsFiniteSet(Strings(Cardinality(p.parts[r.index])))
        /\ Total(r.counts) \in Nat
    <3>1. p \in Plans
      BY <1>1
    <3> QED BY ONLY <3>1, <2>1, ResultsTyped, BoundsNat
  <2> QED BY <2>2 DEF r
<1>5. rs # <<>>
  BY <1>2
<1>6. p.parts[i] \in SUBSET Nat /\ IsFiniteSet(p.parts[i])
  BY <1>1, PartsAreFinite
<1> QED BY <1>2, <1>3, <1>4, <1>5, <1>6

\* A marginal is read from the one partition that holds the qubit.
LEMMA MarginalOfPart ==
    ASSUME NEW p, NEW rs, Whole(p, rs), NEW i \in DOMAIN p.parts, NEW q \in p.parts[i],
           Total(rs[i].counts) > 0
    PROVE  /\ Place(q, p.parts[i]) \in 1..Cardinality(p.parts[i])
           /\ \A b \in Bits : Marginal(p, rs, q).bit[b] =
                                 Seen(rs[i].counts, Place(q, p.parts[i]), b)
           /\ Marginal(p, rs, q).of = Total(rs[i].counts)
<1>1. Place(q, p.parts[i]) \in 1..Cardinality(p.parts[i])
  BY WholeTyped, PlacesAreTaken
<1>2. Paired(p, rs) = DOMAIN p.parts
  <2> DEFINE N == Len(rs)
  <2>1. Len(p.parts) = N /\ N \in Nat /\ DOMAIN p.parts = 1..N
    BY WholeTyped DEF Whole
  <2> HIDE DEF N
  <2>2. Min({N, N}) = N
    BY <2>1 DEF Min
  <2>3. Paired(p, rs) = 1..Min({N, N})
    BY <2>1 DEF Paired, N
  <2> QED BY <2>1, <2>2, <2>3
<1>3. Covering(p, rs, q) = {i}
  <2>1. \A j \in DOMAIN p.parts : q \in p.parts[j] => j = i
    <3>1. p \in Plans
      BY DEF Whole
    <3> QED BY <3>1, PlansOK
  <2> QED BY <1>2, <2>1 DEF Covering
<1>4. (CHOOSE j \in Covering(p, rs, q) : TRUE) = i /\ Covering(p, rs, q) # {}
  BY <1>3
<1>5. Marginal(p, rs, q) =
        [bit |-> [b \in Bits |-> Seen(rs[i].counts, Place(q, p.parts[i]), b)],
         of  |-> Total(rs[i].counts)]
  BY ONLY <1>4 DEF Marginal
<1> QED BY <1>1, <1>5

LEMMA SeenInAString ==
    ASSUME NEW w \in Nat, NEW counts \in [Strings(w) -> Nat], NEW place, NEW b,
           Seen(counts, place, b) > 0
    PROVE  \E s \in Strings(w) : counts[s] > 0 /\ s[place] = b
<1> DEFINE T == {s \in DOMAIN counts : place <= Len(s) /\ s[place] = b}
<1>1. Seen(counts, place, b) = Total(Restrict(counts, T))
  BY DEF Seen
<1>2. T \in SUBSET Strings(w) /\ IsFiniteSet(T)
  BY StringsAreFinite, FS_Subset
<1>3. Restrict(counts, T) \in [T -> Nat] /\ \A s \in T : Restrict(counts, T)[s] = counts[s]
  BY <1>2 DEF Restrict
<1>4. \A s \in T : s \in Strings(w) /\ s[place] = b
  OBVIOUS
<1> HIDE DEF T
<1>5. \E s \in T : Restrict(counts, T)[s] > 0
  BY <1>1, <1>2, <1>3, SomeEntry
<1> QED BY <1>3, <1>4, <1>5

\* A string scores above zero only if each of its bits does.
LEMMA PositiveFactors ==
    ASSUME NEW n \in Nat, NEW m, AreMarginals(m, n), NEW s \in Strings(n), Score(m, s) > 0,
           NEW q \in 0..n - 1
    PROVE  s[q + 1] \in Bits /\ m[q].bit[s[q + 1]] > 0
<1> DEFINE D == 0..n - 1
           f == [x \in DOMAIN m |-> m[x].bit[s[x + 1]]]
<1>1. \A x \in D : s[x + 1] \in Bits
  BY DEF Strings
<1>2. f \in [D -> Nat]
  BY <1>1 DEF AreMarginals, IsMarginal
<1>3. IsFiniteSet(D)
  <2>1. 0 \in Int /\ n - 1 \in Int
    OBVIOUS
  <2> QED BY <2>1, FS_Interval
<1>4. Score(m, s) = Product(f) /\ f[q] = m[q].bit[s[q + 1]]
  BY DEF Score, AreMarginals
<1>5. q \in D
  OBVIOUS
<1> HIDE DEF f, D
<1>6. f[q] # 0
  <2>1. ASSUME f[q] = 0 PROVE Product(f) = 0
    BY ONLY <1>2, <1>3, <1>5, <2>1, ProductOfZero
  <2>2. Product(f) > 0
    BY <1>4
  <2> QED BY ONLY <2>1, <2>2
<1>7. f[q] \in Nat
  BY <1>2, <1>5
<1> QED BY <1>1, <1>4, <1>5, <1>6, <1>7

\* A share of nothing is rounded to nothing.
LEMMA RoundedNothing ==
    ASSUME NEW a \in Nat, NEW b \in Nat, b > 0, NEW c \in Nat, Round(a * c, b) > 0
    PROVE  a > 0
<1>1. SUFFICES ASSUME a = 0 PROVE FALSE
  OBVIOUS
<1>2. a * c = b * 0
  BY <1>1
<1>3. Round(b * 0, b) = 0
  BY RoundedExactly
<1>4. Round(a * c, b) = 0
  BY ONLY <1>2, <1>3, Zenon
<1> QED BY <1>4

LEMMA ReconstructedScores ==
    ASSUME NEW p \in Plans, NEW rs \in Seq(Results(p)), rs # <<>>,
           NEW s \in DOMAIN Reconstruct(p, rs)
    PROVE  s \in Strings(p.n) /\ Score(Marginals(p, rs), s) > 0
<1> DEFINE m == Marginals(p, rs)
           n == p.n
           shots == MinShots(rs)
<1>1. n \in Nat /\ AreMarginals(m, n) /\ shots \in Nat
  BY MarginalsTyped, MinShotsTyped, BoundsNat
<1> HIDE DEF m, n, shots
<1>2. ASSUME NEW t \in DOMAIN Exact(m, n, shots)
      PROVE  t \in Strings(n) /\ Score(m, t) > 0
  <2> DEFINE c == [x \in Strings(n) |-> Round(Score(m, x) * shots, Scale(m))]
  <2>1. Exact(m, n, shots) = Kept(c) /\ DOMAIN c = Strings(n)
    BY DEF Exact
  <2>2. t \in DOMAIN c /\ c[t] > 0
    <3> HIDE DEF c
    <3> QED BY <1>2, <2>1, KeptOnly
  <2>3. t \in Strings(n) /\ Round(Score(m, t) * shots, Scale(m)) > 0
    BY <2>2
  <2>4. Score(m, t) \in Nat /\ Scale(m) \in Nat /\ Scale(m) > 0
    BY <1>1, <2>3, ScoreBelowScale
  <2> QED BY <1>1, <2>3, <2>4, RoundedNothing
<1>3. ASSUME NEW t \in DOMAIN Sampled(m, n, shots)
      PROVE  t \in Strings(n) /\ Score(m, t) > 0
  <2> DEFINE C == Candidates(m, n)
             f == [x \in C |-> Score(m, x)]
             all == Total(f)
             c == [x \in C |-> Round(Score(m, x) * shots, all)]
  <2>1. Sampled(m, n, shots) = IF all = 0 THEN <<>> ELSE Kept(c)
    BY DEF Sampled, Candidates
  <2>2. C \in SUBSET Strings(n) /\ IsFiniteSet(C)
    BY <1>1, CandidatesAreStrings
  <2>3. f \in [C -> Nat] /\ \A x \in C : Score(m, x) \in Nat
    <3> HIDE DEF C
    <3> QED BY <1>1, <2>2, ScoreBelowScale
  <2>4. all \in Nat
    <3> HIDE DEF C, f
    <3> QED BY <2>2, <2>3, FoldsAreNat
  <2>5. DOMAIN c = C /\ \A x \in C : c[x] = Round(Score(m, x) * shots, all)
    OBVIOUS
  <2> HIDE DEF C, f, all, c
  <2>6. all # 0 /\ Sampled(m, n, shots) = Kept(c)
    BY <1>3, <2>1
  <2>7. t \in C /\ c[t] > 0
    BY <1>3, <2>5, <2>6, KeptOnly
  <2>8. Round(Score(m, t) * shots, all) > 0 /\ Score(m, t) \in Nat /\ all > 0
    BY <2>3, <2>4, <2>5, <2>6, <2>7
  <2> QED BY <1>1, <2>2, <2>4, <2>7, <2>8, RoundedNothing
<1> QED BY <1>2, <1>3 DEF Reconstruct, m, n, shots

\* Each bit of a reconstructed string was measured on its qubit.
LEMMA ReconstructedMeasured ==
    ASSUME NEW p, NEW rs, Whole(p, rs), NEW s \in DOMAIN Reconstruct(p, rs),
           NEW i \in DOMAIN p.parts, NEW q \in p.parts[i]
    PROVE  Measured(p, rs, i, q, s[q + 1])
<1>1. p \in Plans /\ rs \in Seq(Results(p)) /\ rs # <<>>
  BY WholeTyped DEF Whole
<1>2. s \in Strings(p.n) /\ Score(Marginals(p, rs), s) > 0
  BY <1>1, ReconstructedScores
<1>3. p.n \in Nat /\ AreMarginals(Marginals(p, rs), p.n) /\ q \in 0..p.n - 1
  BY <1>1, MarginalsTyped, PartsAreFinite
<1>4. Total(rs[i].counts) > 0
  <2>1. Reconstruct(p, rs)[s] \in 1..MinShots(rs)
    BY <1>1, ReconstructTyped DEF AreCounts
  <2>2. i \in DOMAIN rs /\ Total(rs[i].counts) \in Nat
    BY WholeTyped
  <2>3. MinShots(rs) \in Nat /\ MinShots(rs) <= Total(rs[i].counts)
    BY <1>1, <2>2, MinShotsTyped, BoundsNat
  <2> QED BY <2>1, <2>2, <2>3
<1>5. s[q + 1] \in Bits /\ Marginal(p, rs, q).bit[s[q + 1]] > 0
  <2>1. s[q + 1] \in Bits /\ Marginals(p, rs)[q].bit[s[q + 1]] > 0
    BY <1>2, <1>3, PositiveFactors
  <2> QED BY <1>3, <2>1 DEF Marginals
<1>6. Seen(rs[i].counts, Place(q, p.parts[i]), s[q + 1]) > 0
  BY <1>4, <1>5, MarginalOfPart
<1>7. PICK t \in Strings(Cardinality(p.parts[i])) :
          rs[i].counts[t] > 0 /\ t[Place(q, p.parts[i])] = s[q + 1]
  <2> DEFINE w == Cardinality(p.parts[i])
             c == rs[i].counts
  <2>1. w \in Nat /\ c \in [Strings(w) -> Nat]
    BY WholeTyped
  <2> HIDE DEF w, c
  <2>2. \E t \in Strings(w) : c[t] > 0 /\ t[Place(q, p.parts[i])] = s[q + 1]
    BY <1>6, <2>1, SeenInAString DEF c
  <2> QED BY <2>2 DEF w, c
<1>8. DOMAIN rs[i].counts = Strings(Cardinality(p.parts[i]))
  BY WholeTyped
<1> QED BY <1>7, <1>8 DEF Measured

-------------------------------------------------------------------------------
(* Partitions that are intervals: concatenating their strings in order keeps   *)
(* each qubit at its place.                                                    *)
IsContiguous(p) == \A i, j \in DOMAIN p.parts :
                      i < j => \A q \in p.parts[i], r \in p.parts[j] : q < r
Below(p, k) == UNION {p.parts[j] : j \in 1..k}

LEMMA DisjointUnion ==
    ASSUME NEW A, NEW B, IsFiniteSet(A), IsFiniteSet(B), A \cap B = {}
    PROVE  /\ IsFiniteSet(A \cup B) /\ Cardinality(A) \in Nat /\ Cardinality(B) \in Nat
           /\ Cardinality(A \cup B) = Cardinality(A) + Cardinality(B)
<1>1. Cardinality(A \cap B) = 0
  BY FS_EmptySet
<1>2. /\ IsFiniteSet(A \cup B)
      /\ Cardinality(A \cup B) = Cardinality(A) + Cardinality(B) - Cardinality(A \cap B)
  BY FS_Union
<1>3. Cardinality(A) \in Nat /\ Cardinality(B) \in Nat
  BY FS_CardinalityType
<1> QED BY <1>1, <1>2, <1>3

LEMMA PartsAreDisjoint ==
    ASSUME NEW p \in Plans, NEW i \in DOMAIN p.parts, NEW j \in DOMAIN p.parts, i # j
    PROVE  p.parts[i] \cap p.parts[j] = {}
BY PlansOK

LEMMA WidthsOfParts ==
    ASSUME NEW p, NEW rs, Whole(p, rs), NEW N, N = Len(rs), NEW ws, ws = Widths(p, rs)
    PROVE  /\ N \in Nat /\ DOMAIN p.parts = 1..N /\ ws \in [1..N -> Nat]
           /\ \A i \in 1..N : ws[i] = Cardinality(p.parts[i])
<1>1. /\ p \in Plans /\ rs \in Seq(Results(p)) /\ Len(p.parts) = N
      /\ p.parts \in Seq(SUBSET Nat)
  BY PlansOK DEF Whole
<1>2. DOMAIN rs = 1..N /\ DOMAIN p.parts = 1..N /\ N \in Nat
  BY <1>1
<1>3. \A i \in 1..N : ws[i] = Cardinality(p.parts[rs[i].index]) /\ rs[i].index = i
  BY <1>2 DEF Whole, Widths
<1>4. \A i \in 1..N : ws[i] = Cardinality(p.parts[i])
  BY <1>3
<1>5. \A i \in 1..N : Cardinality(p.parts[i]) \in Nat
  BY <1>1, <1>2, PartsAreFinite
<1>6. ws = [i \in 1..N |-> ws[i]]
  BY <1>2 DEF Widths
<1> QED BY <1>2, <1>4, <1>5, <1>6

LEMMA BelowCounted ==
    ASSUME NEW p, NEW rs, Whole(p, rs), NEW N, N = Len(rs), NEW ws, ws = Widths(p, rs),
           NEW k \in 0..N
    PROVE  IsFiniteSet(Below(p, k)) /\ Cardinality(Below(p, k)) = Offset(ws, k)
<1> DEFINE Bad == {j \in 0..N : ~(/\ IsFiniteSet(Below(p, j))
                                  /\ Cardinality(Below(p, j)) = Offset(ws, j))}
<1>1. N \in Nat /\ DOMAIN p.parts = 1..N /\ ws \in [1..N -> Nat] /\ p \in Plans
  BY WidthsOfParts DEF Whole
<1>2. SUFFICES ASSUME Bad # {} PROVE FALSE
  BY <1>2
<1>3. PICK j \in Bad : \A m \in Bad : j <= m
  <2>1. Bad \subseteq Nat
    BY <1>1
  <2> HIDE DEF Bad
  <2> QED BY <1>2, <2>1, LeastNumber
<1>4. CASE j = 0
  <2>1. Below(p, 0) = {}
    BY DEF Below
  <2>2. Cardinality({}) = 0 /\ IsFiniteSet({})
    BY FS_EmptySet
  <2>3. Offset(ws, 0) = 0
    BY <1>1, OffsetStep
  <2>4. IsFiniteSet(Below(p, 0)) /\ Cardinality(Below(p, 0)) = Offset(ws, 0)
    BY ONLY <2>1, <2>2, <2>3, Zenon
  <2> QED BY <1>3, <1>4, <2>4
<1>5. CASE j # 0
  <2> DEFINE A == Below(p, j - 1)
             B == p.parts[j]
  <2>1. j \in 1..N /\ j - 1 \in 0..N /\ j - 1 \notin Bad
    BY <1>1, <1>3, <1>5
  <2>2. IsFiniteSet(A) /\ Cardinality(A) = Offset(ws, j - 1)
    BY <2>1
  <2>3. IsFiniteSet(B) /\ Cardinality(B) = ws[j]
    BY <1>1, <2>1, PartsAreFinite, WidthsOfParts
  <2>4. A \cap B = {}
    <3>1. \A i \in 1..j - 1 : i \in 1..N /\ i # j
      BY <1>1, <2>1
    <3>2. \A i \in 1..j - 1 : p.parts[i] \cap p.parts[j] = {}
      BY <1>1, <2>1, <3>1, PartsAreDisjoint
    <3> QED BY <3>2 DEF Below
  <2>5. Below(p, j) = A \cup B
    <3>1. \A i : i \in 1..j <=> i \in 1..j - 1 \/ i = j
      BY <2>1
    <3> QED BY <3>1 DEF Below
  <2> HIDE DEF A, B, Bad
  <2>6. IsFiniteSet(A \cup B) /\ Cardinality(A \cup B) = Cardinality(A) + Cardinality(B)
    BY <2>2, <2>3, <2>4, DisjointUnion
  <2>7. Offset(ws, j) = Offset(ws, j - 1) + ws[j]
    BY <1>1, <2>1, OffsetStep
  <2>8. IsFiniteSet(Below(p, j)) /\ Cardinality(Below(p, j)) = Offset(ws, j)
    <3>1. Cardinality(A \cup B) = Offset(ws, j)
      BY ONLY <2>2, <2>3, <2>6, <2>7
    <3> QED BY ONLY <2>5, <2>6, <3>1, Zenon
  <2> QED BY <1>3, <2>8 DEF Bad
<1> QED BY <1>4, <1>5

LEMMA ContiguousPlaces ==
    ASSUME NEW p, NEW rs, Whole(p, rs), IsContiguous(p), NEW N, N = Len(rs),
           NEW ws, ws = Widths(p, rs)
    PROVE  /\ Offset(ws, N) = p.n
           /\ \A i \in 1..N : \A q \in p.parts[i] :
                 /\ Place(q, p.parts[i]) \in 1..ws[i]
                 /\ Offset(ws, i - 1) + Place(q, p.parts[i]) = q + 1
<1>1. N \in Nat /\ DOMAIN p.parts = 1..N /\ ws \in [1..N -> Nat] /\ p \in Plans
  BY WidthsOfParts DEF Whole
<1>2. p.n \in Nat /\ UNION {p.parts[i] : i \in 1..N} = 0..p.n - 1
  BY <1>1, PlansOK
<1>3. ASSUME NEW n \in Nat
      PROVE  IsFiniteSet(0..n - 1) /\ Cardinality(0..n - 1) = n
  <2>1. 0 \in Int /\ n - 1 \in Int
    OBVIOUS
  <2>2. /\ IsFiniteSet(0..n - 1)
        /\ Cardinality(0..n - 1) = IF 0 > n - 1 THEN 0 ELSE (n - 1) - 0 + 1
    BY <2>1, FS_Interval
  <2> QED BY <2>2
<1>4. Offset(ws, N) = p.n
  <2>1. Below(p, N) = 0..p.n - 1
    BY <1>2 DEF Below
  <2>2. Cardinality(Below(p, N)) = Offset(ws, N)
    <3>1. N \in 0..N
      BY <1>1
    <3> QED BY <3>1, BelowCounted
  <2>3. Cardinality(0..p.n - 1) = p.n
    BY <1>2, <1>3
  <2> QED BY ONLY <2>1, <2>2, <2>3, Zenon
<1>5. ASSUME NEW i \in 1..N, NEW q \in p.parts[i]
      PROVE  /\ Place(q, p.parts[i]) \in 1..ws[i]
             /\ Offset(ws, i - 1) + Place(q, p.parts[i]) = q + 1
  <2> DEFINE A == Below(p, i - 1)
             B == {r \in p.parts[i] : r < q}
  <2>1. p.parts[i] \in SUBSET (0..p.n - 1) /\ IsFiniteSet(p.parts[i]) /\ q \in Nat
    <3>1. p.parts[i] \in SUBSET (0..p.n - 1) /\ IsFiniteSet(p.parts[i])
      BY <1>1, PartsAreFinite
    <3> QED BY <1>2, <3>1
  <2>2. Place(q, p.parts[i]) \in 1..ws[i]
    <3>1. p.parts[i] \in SUBSET Nat /\ ws[i] = Cardinality(p.parts[i])
      BY <1>2, <2>1, WidthsOfParts
    <3> QED BY <2>1, <3>1, PlacesAreTaken
  <2>3. i - 1 \in 0..N
    BY <1>1
  <2>4. IsFiniteSet(A) /\ Cardinality(A) = Offset(ws, i - 1)
    BY <2>3, BelowCounted
  <2>5. IsFiniteSet(B)
    <3>1. B \in SUBSET p.parts[i]
      OBVIOUS
    <3> QED BY <2>1, <3>1, FS_Subset
  <2>6. A \cap B = {}
    <3>1. \A j \in 1..i - 1 : j \in 1..N /\ j # i
      BY <1>1
    <3>2. \A j \in 1..i - 1 : p.parts[j] \cap p.parts[i] = {}
      BY <1>1, <3>1, PartsAreDisjoint
    <3> QED BY <3>2 DEF Below
  <2>7. A \cup B = 0..q - 1
    <3>1. ASSUME NEW r \in A
          PROVE  r \in 0..q - 1
      <4>1. PICK j \in 1..i - 1 : r \in p.parts[j]
        BY DEF Below
      <4>2. j \in 1..N /\ j < i
        BY <1>1
      <4>3. r < q
        BY <1>1, <4>1, <4>2 DEF IsContiguous
      <4>4. r \in Nat
        BY <1>2, <4>1, <4>2
      <4> QED BY <2>1, <4>3, <4>4
    <3>2. ASSUME NEW r \in B
          PROVE  r \in 0..q - 1
      BY <2>1, <1>2
    <3>3. ASSUME NEW r \in 0..q - 1
          PROVE  r \in A \cup B
      <4>1. r \in 0..p.n - 1 /\ r < q /\ r \in Nat
        BY <1>2, <2>1
      <4>2. PICK j \in 1..N : r \in p.parts[j]
        BY <1>2, <4>1
      <4>3. ~(i < j)
        <5>1. i < j => q < r
          BY <1>1, <4>2 DEF IsContiguous
        <5> QED BY <2>1, <4>1, <5>1
      <4>4. CASE j = i
        BY <4>1, <4>2, <4>4
      <4>5. CASE j # i
        <5>1. j \in 1..i - 1
          BY <1>1, <4>3, <4>5
        <5> QED BY <4>2, <5>1 DEF Below
      <4> QED BY <4>4, <4>5
    <3> HIDE DEF A, B
    <3> QED BY <3>1, <3>2, <3>3
  <2> HIDE DEF A
  <2>8. Cardinality(A \cup B) = Cardinality(A) + Cardinality(B) /\ Cardinality(B) \in Nat
    <3> HIDE DEF B
    <3> QED BY <2>4, <2>5, <2>6, DisjointUnion
  <2>9. Cardinality(0..q - 1) = q
    BY <1>3, <2>1
  <2>10. Cardinality(A \cup B) = q
    BY ONLY <2>7, <2>9, Zenon
  <2>11. Place(q, p.parts[i]) = Cardinality(B) + 1
    BY DEF Place
  <2>12. Offset(ws, i - 1) \in Nat
    BY <1>1, <2>3, OffsetStep
  <2> HIDE DEF B
  <2>13. Offset(ws, i - 1) + Place(q, p.parts[i]) = q + 1
    BY ONLY <2>1, <2>4, <2>8, <2>10, <2>11, <2>12
  <2> QED BY <2>2, <2>13
<1> QED BY <1>4, <1>5

\* A string of the tensor product has a weight.
LEMMA JoinedWeighs ==
    ASSUME NEW p \in Plans, NEW rs \in Seq(Results(p)), rs # <<>>,
           NEW s \in DOMAIN TensorProduct(rs), NEW l, l = Offset(Widths(p, rs), Len(rs))
    PROVE  s \in Strings(l) /\ Weights(rs)[s] > 0
<1> DEFINE N == Len(rs)
           S == Strings(l)
           all == Product(TotalsIn(rs))
           shots == MinShots(rs)
           c == [x \in DOMAIN Weights(rs) |-> Round(Weights(rs)[x] * shots, all)]
<1>1. TensorProduct(rs) = IF all = 0 THEN <<>> ELSE Kept(c)
  BY DEF TensorProduct, Weights, Nothing, CountsIn, TotalsIn
<1>2. /\ N \in Nat /\ IsFiniteSet(1..N) /\ TotalsIn(rs) \in [1..N -> Nat]
      /\ Weights(rs) \in [S -> Nat]
  BY TensorWeights
<1>3. all \in Nat
  BY <1>2, FoldsAreNat
<1>4. shots \in Nat
  BY MinShotsTyped, BoundsNat
<1>5. DOMAIN c = S /\ \A x \in S : c[x] = Round(Weights(rs)[x] * shots, all)
  BY <1>2
<1> HIDE DEF c, S, all, shots
<1>6. all # 0 /\ TensorProduct(rs) = Kept(c)
  BY <1>1
<1>7. s \in S /\ c[s] > 0
  BY <1>5, <1>6, KeptOnly
<1>8. Round(Weights(rs)[s] * shots, all) > 0 /\ Weights(rs)[s] \in Nat /\ all > 0
  BY <1>2, <1>3, <1>5, <1>6, <1>7
<1>9. Weights(rs)[s] > 0
  BY <1>3, <1>4, <1>8, RoundedNothing
<1> QED BY <1>7, <1>9 DEF S

LEMMA JoinedLength ==
    ASSUME NEW p, NEW rs, Whole(p, rs), IsContiguous(p), NEW s \in DOMAIN TensorProduct(rs)
    PROVE  s \in Strings(p.n)
<1> DEFINE l == Offset(Widths(p, rs), Len(rs))
<1>1. l = p.n
  BY ContiguousPlaces
<1>2. p \in Plans /\ rs \in Seq(Results(p)) /\ rs # <<>>
  <2>1. p \in Plans /\ rs \in Seq(Results(p)) /\ Len(rs) = Len(p.parts)
    BY DEF Whole
  <2>2. p.parts \in Seq(SUBSET Nat) /\ p.parts # <<>>
    BY <2>1, PlansOK
  <2> QED BY <2>1, <2>2
<1>3. s \in Strings(l)
  BY <1>2, JoinedWeighs
<1> HIDE DEF l
<1> QED BY ONLY <1>1, <1>3, Zenon

\* Each bit of a concatenated string was measured on its qubit.
LEMMA JoinedMeasured ==
    ASSUME NEW p, NEW rs, Whole(p, rs), IsContiguous(p), NEW s \in DOMAIN TensorProduct(rs),
           NEW i \in DOMAIN p.parts, NEW q \in p.parts[i]
    PROVE  Measured(p, rs, i, q, s[q + 1])
<1> DEFINE N == Len(rs)
           ws == Widths(p, rs)
           S == Strings(Offset(ws, N))
           f == Given(CountsIn(rs), ws, s, N)
           t == Segment(s, Offset(ws, i - 1), ws[i])
<1>1. p \in Plans /\ rs \in Seq(Results(p)) /\ rs # <<>> /\ i \in 1..N
  BY WholeTyped DEF Whole
<1>2. N \in Nat /\ IsFiniteSet(1..N)
  BY <1>1, TensorWeights
<1>3. s \in S /\ Weights(rs)[s] > 0
  BY <1>1, JoinedWeighs
<1>4. /\ f \in [1..N -> Nat] /\ t \in Strings(ws[i]) /\ f[i] = rs[i].counts[t]
      /\ Weights(rs)[s] = Product(f)
  BY <1>1, <1>3, TensorWeights
<1>5. f[i] > 0
  <2> HIDE DEF f
  <2>1. ASSUME f[i] = 0 PROVE Product(f) = 0
    <3> DEFINE D == 1..N
    <3>1. f \in [D -> Nat] /\ IsFiniteSet(D) /\ i \in D
      BY <1>1, <1>2, <1>4
    <3> HIDE DEF D
    <3> QED BY ONLY <2>1, <3>1, ProductOfZero
  <2>2. Product(f) > 0
    BY <1>3, <1>4
  <2>3. f[i] # 0
    BY ONLY <2>1, <2>2
  <2>4. f[i] \in Nat
    BY <1>1, <1>4
  <2> QED BY ONLY <2>3, <2>4
<1>6. t[Place(q, p.parts[i])] = s[q + 1]
  <2>1. Place(q, p.parts[i]) \in 1..ws[i] /\ Offset(ws, i - 1) + Place(q, p.parts[i]) = q + 1
    BY <1>1, ContiguousPlaces
  <2>2. t[Place(q, p.parts[i])] = s[Offset(ws, i - 1) + Place(q, p.parts[i])]
    BY <2>1 DEF Segment
  <2> QED BY ONLY <2>1, <2>2, Zenon
<1>7. t \in DOMAIN rs[i].counts
  <2>1. ws[i] = Cardinality(p.parts[i])
    BY <1>1, WidthsOfParts
  <2>2. DOMAIN rs[i].counts = Strings(Cardinality(p.parts[i]))
    BY WholeTyped
  <2> QED BY ONLY <1>4, <2>1, <2>2, Zenon
<1> HIDE DEF t, f
<1> QED BY <1>4, <1>5, <1>6, <1>7 DEF Measured

\* The only partition holds every qubit, at its own place.
LEMMA OnlyPartition ==
    ASSUME NEW p, NEW rs, Whole(p, rs), Len(rs) = 1
    PROVE  /\ DOMAIN p.parts = {1} /\ IsContiguous(p)
           /\ Cardinality(p.parts[1]) = p.n
           /\ \A q \in p.parts[1] : Place(q, p.parts[1]) = q + 1
<1> DEFINE ws == Widths(p, rs)
           N == Len(rs)
<1>1. DOMAIN p.parts = 1..1 /\ ws \in [1..1 -> Nat] /\ ws[1] = Cardinality(p.parts[1])
  <2>1. /\ DOMAIN p.parts = 1..N /\ ws \in [1..N -> Nat]
        /\ \A i \in 1..N : ws[i] = Cardinality(p.parts[i])
    BY WidthsOfParts
  <2> QED BY <2>1
<1>2. IsContiguous(p)
  BY <1>1 DEF IsContiguous
<1>3. /\ Offset(ws, 1) = p.n
      /\ \A q \in p.parts[1] : /\ Place(q, p.parts[1]) \in 1..ws[1]
                               /\ Offset(ws, 1 - 1) + Place(q, p.parts[1]) = q + 1
  <2>1. Whole(p, rs) /\ IsContiguous(p) /\ N = Len(rs) /\ ws = Widths(p, rs)
    BY <1>2
  <2>2. N = 1 /\ 1 \in 1..N
    OBVIOUS
  <2> HIDE DEF N, ws
  <2>3. /\ Offset(ws, N) = p.n
        /\ \A i \in 1..N : \A q \in p.parts[i] :
              /\ Place(q, p.parts[i]) \in 1..ws[i]
              /\ Offset(ws, i - 1) + Place(q, p.parts[i]) = q + 1
    BY ONLY <2>1, ContiguousPlaces
  <2> QED BY <2>2, <2>3
<1>4. Offset(ws, 0) = 0 /\ Offset(ws, 1) = Offset(ws, 0) + ws[1] /\ ws[1] \in Nat
  <2>1. 1 \in 1..1 /\ 1 - 1 = 0 /\ 1 \in Nat
    OBVIOUS
  <2>2. Offset(ws, 0) = 0 /\ Offset(ws, 1) = Offset(ws, 1 - 1) + ws[1]
    BY <1>1, <2>1, OffsetStep
  <2> QED BY <1>1, <2>1, <2>2
<1> HIDE DEF ws
<1>5. ASSUME NEW q \in p.parts[1]
      PROVE  Place(q, p.parts[1]) = q + 1
  <2>1. Place(q, p.parts[1]) \in Nat /\ 1 - 1 = 0
    BY <1>3, <1>4
  <2>2. Offset(ws, 0) + Place(q, p.parts[1]) = q + 1
    BY <1>3, <2>1
  <2> QED BY <1>4, <2>1, <2>2
<1> QED BY <1>1, <1>2, <1>3, <1>4, <1>5

LEMMA PassedThroughLength ==
    ASSUME NEW p, NEW rs, Whole(p, rs), Len(rs) = 1, NEW s \in DOMAIN Kept(rs[1].counts)
    PROVE  s \in Strings(p.n) /\ s \in DOMAIN rs[1].counts /\ rs[1].counts[s] > 0
<1>1. 1 \in DOMAIN p.parts /\ Cardinality(p.parts[1]) = p.n
  BY OnlyPartition
<1>2. s \in DOMAIN rs[1].counts /\ rs[1].counts[s] > 0
  BY KeptOnly
<1>3. DOMAIN rs[1].counts = Strings(Cardinality(p.parts[1]))
  BY <1>1, WholeTyped
<1>4. s \in Strings(p.n)
  BY ONLY <1>1, <1>2, <1>3, Zenon
<1> QED BY <1>2, <1>4

LEMMA PassedThroughMeasured ==
    ASSUME NEW p, NEW rs, Whole(p, rs), Len(rs) = 1, NEW s \in DOMAIN Kept(rs[1].counts),
           NEW i \in DOMAIN p.parts, NEW q \in p.parts[i]
    PROVE  Measured(p, rs, i, q, s[q + 1])
<1>1. i = 1 /\ Place(q, p.parts[1]) = q + 1
  BY OnlyPartition
<1>2. s[Place(q, p.parts[1])] = s[q + 1]
  BY ONLY <1>1, Zenon
<1> QED BY <1>1, <1>2, PassedThroughLength DEF Measured

\* What a complete run returned.
LEMMA CompleteRun ==
    ASSUME IInv, Complete, NEW rs, rs = Sorted(inbox)
    PROVE  /\ Whole(plan, rs)
           /\ \A i \in DOMAIN plan.parts : CountsOf(i) = rs[i].counts
           /\ \/ /\ Len(rs) = 1 /\ run.counts = Kept(rs[1].counts)
                 /\ run.shots = Total(rs[1].counts)
              \/ /\ plan.cuts > 0 /\ run.counts = Reconstruct(plan, rs)
                 /\ run.shots = MinShots(rs)
              \/ /\ plan.cuts = 0 /\ run.counts = TensorProduct(rs)
                 /\ run.shots = MinShots(rs)
<1>1. /\ plan \in Plans /\ inbox \in Seq(Results(plan)) /\ plan.cuts \in Nat /\ plan # NoPlan
      /\ run = Aggregated(plan, inbox) /\ run.status = "completed"
      /\ Indices(inbox) = DOMAIN plan.parts /\ Len(inbox) = Len(plan.parts)
  BY PlansOK, NoPlanOK DEF IInv, Complete, Merged, RunIs
<1>2. Whole(plan, rs) /\ DOMAIN rs = DOMAIN plan.parts
  BY <1>1, SortedWhole
<1>3. ASSUME NEW i \in DOMAIN plan.parts
      PROVE  CountsOf(i) = rs[i].counts
  <2>1. rs[i] = inbox[CHOOSE j \in DOMAIN inbox : inbox[j].index = i]
    BY <1>1, SortedWhole
  <2> QED BY <2>1 DEF CountsOf
<1>4. Len(rs) = Len(inbox) /\ MinShots(rs) = MinShots(inbox)
  BY <1>1, SortedResults
<1>5. inbox # <<>>
  BY <1>1 DEF Aggregated, Failed
<1>6. CASE Len(inbox) = 1
  <2>1. rs[1] = inbox[1]
    <3>1. DOMAIN inbox = {1} /\ DOMAIN plan.parts = {1}
      <4>1. DOMAIN inbox = 1..1
        BY <1>1, <1>6
      <4>2. DOMAIN plan.parts = 1..1
        BY <1>2, <1>4, <1>6, WidthsOfParts
      <4> QED BY <4>1, <4>2
    <3>2. \E j \in DOMAIN inbox : inbox[j].index = 1
      BY <1>1, <3>1 DEF Indices
    <3>3. rs[1] = inbox[CHOOSE j \in DOMAIN inbox : inbox[j].index = 1]
      <4>1. \A i \in DOMAIN plan.parts :
                rs[i] = inbox[CHOOSE j \in DOMAIN inbox : inbox[j].index = i]
        BY <1>1, SortedWhole
      <4>2. 1 \in DOMAIN plan.parts
        BY <3>1
      <4> QED BY ONLY <4>1, <4>2
    <3>4. (CHOOSE j \in DOMAIN inbox : inbox[j].index = 1) = 1
      BY <3>1, <3>2
    <3> QED BY ONLY <3>3, <3>4, Zenon
  <2>2. run = Completed(Kept(inbox[1].counts), Total(inbox[1].counts), "passthrough")
    BY <1>1, <1>5, <1>6 DEF Aggregated
  <2>3. run = Completed(Kept(rs[1].counts), Total(rs[1].counts), "passthrough")
    BY ONLY <2>1, <2>2, Zenon
  <2>4. run.counts = Kept(rs[1].counts) /\ run.shots = Total(rs[1].counts)
    BY <2>3 DEF Completed
  <2> QED BY <1>2, <1>3, <1>4, <1>6, <2>4
<1>7. CASE Len(inbox) # 1
  <2>1. run = IF plan.cuts > 0
              THEN Completed(Reconstruct(plan, rs), MinShots(inbox), "marginal_reconstruction")
              ELSE Completed(TensorProduct(rs), MinShots(inbox), "tensor_product")
    BY <1>1, <1>5, <1>7 DEF Aggregated
  <2>2. plan.cuts > 0 \/ plan.cuts = 0
    BY <1>1
  <2>3. CASE plan.cuts > 0
    BY <1>2, <1>3, <1>4, <2>1, <2>3 DEF Completed
  <2>4. CASE plan.cuts = 0
    BY <1>2, <1>3, <1>4, <2>1, <2>4 DEF Completed
  <2> QED BY <2>2, <2>3, <2>4
<1> QED BY <1>6, <1>7

\* BitSeen reads the partition's ascending list of qubits; Measured its places.
LEMMA BitSeenMeasured ==
    ASSUME IInv, Complete, NEW rs, rs = Sorted(inbox), NEW q \in 0..plan.n - 1, NEW b
    PROVE  /\ PartOf(q) \in DOMAIN plan.parts /\ q \in plan.parts[PartOf(q)]
           /\ BitSeen(q, b) <=> Measured(plan, rs, PartOf(q), q, b)
<1> DEFINE i == PartOf(q)
           S == plan.parts[i]
           l == Ascending(S)
           N == Cardinality(S)
           counts == rs[i].counts
<1>1. Whole(plan, rs) /\ plan \in Plans /\ \A j \in DOMAIN plan.parts : CountsOf(j) = rs[j].counts
  BY CompleteRun DEF IInv
<1>2. i \in DOMAIN plan.parts /\ q \in S
  <2>1. \E j \in DOMAIN plan.parts : q \in plan.parts[j]
    <3>1. UNION {plan.parts[j] : j \in DOMAIN plan.parts} = 0..plan.n - 1
      BY <1>1, PlansOK
    <3> QED BY <3>1
  <2> QED BY <2>1 DEF PartOf
<1>3. S \in SUBSET Nat /\ IsFiniteSet(S) /\ N \in Nat /\ counts \in [Strings(N) -> Nat]
  BY <1>1, <1>2, WholeTyped
<1>4. CountsOf(i) = counts
  BY <1>1, <1>2
<1>5. BitSeen(q, b) <=> \E s \in DOMAIN counts, j \in DOMAIN l :
                           counts[s] > 0 /\ l[j] = q /\ s[j] = b
  BY <1>4 DEF BitSeen, BitIn
<1> HIDE DEF i
<1>6. /\ DOMAIN l = 1..N /\ \A j \in 1..N : l[j] = q <=> j = Place(q, S)
      /\ Place(q, S) \in 1..N
  <2> HIDE DEF S
  <2> QED BY <1>2, <1>3, AscendingPlaces, PlacesAreTaken
<1> HIDE DEF l, S, N, counts
<1>7. BitSeen(q, b) <=> \E s \in DOMAIN counts : counts[s] > 0 /\ s[Place(q, S)] = b
  BY <1>5, <1>6
<1>8. Measured(plan, rs, i, q, b) <=> \E s \in DOMAIN counts : counts[s] > 0 /\ s[Place(q, S)] = b
  BY DEF Measured, counts, S
<1> QED BY <1>2, <1>7, <1>8 DEF i, S

\* Every string of a complete run was measured, bit by bit.
LEMMA RunMeasured ==
    ASSUME IInv, Complete, plan.cuts > 0 \/ Contiguous, NEW rs, rs = Sorted(inbox),
           NEW s \in DOMAIN run.counts
    PROVE  /\ s \in Strings(plan.n)
           /\ \A i \in DOMAIN plan.parts :
                 \A q \in plan.parts[i] : Measured(plan, rs, i, q, s[q + 1])
<1>1. Whole(plan, rs)
  BY CompleteRun
<1>2. \/ Len(rs) = 1 /\ run.counts = Kept(rs[1].counts)
      \/ plan.cuts > 0 /\ run.counts = Reconstruct(plan, rs)
      \/ plan.cuts = 0 /\ run.counts = TensorProduct(rs)
  BY CompleteRun
<1>3. plan.cuts = 0 => IsContiguous(plan)
  BY DEF Contiguous, IsContiguous
<1>4. plan \in Plans /\ rs \in Seq(Results(plan)) /\ rs # <<>>
  <2>1. plan \in Plans /\ rs \in Seq(Results(plan)) /\ Len(rs) = Len(plan.parts)
    BY <1>1 DEF Whole
  <2>2. plan.parts \in Seq(SUBSET Nat) /\ plan.parts # <<>>
    BY <2>1, PlansOK
  <2> QED BY <2>1, <2>2
<1>5. s \in Strings(plan.n)
  BY <1>1, <1>2, <1>3, <1>4, PassedThroughLength, ReconstructedScores, JoinedLength
<1>6. ASSUME NEW i \in DOMAIN plan.parts, NEW q \in plan.parts[i]
      PROVE  Measured(plan, rs, i, q, s[q + 1])
  BY <1>1, <1>2, <1>3, <1>6, PassedThroughMeasured, ReconstructedMeasured, JoinedMeasured
<1> QED BY <1>5, <1>6

\* No bit is made up, strings read lowest qubit first on both ends: once every partition delivered once, each bitstring of the
\* merged counts is as long as the circuit is wide and each of its bits was measured
\* on that very qubit, by reconstruction from marginals over any partition, and by
\* concatenation over partitions that are intervals of qubits.
THEOREM OnlyMeasured ==
    Spec => []MeasuredLowestFirst
<1>1. IInv => MeasuredLowestFirst
  <2> SUFFICES ASSUME IInv, Complete, plan.cuts > 0 \/ Contiguous, NEW s \in DOMAIN run.counts
               PROVE  s \in Strings(plan.n) /\ \A q \in 0..plan.n - 1 : BitSeen(q, s[q + 1])
    BY DEF MeasuredLowestFirst
  <2> DEFINE rs == Sorted(inbox)
  <2>1. /\ s \in Strings(plan.n)
        /\ \A i \in DOMAIN plan.parts :
              \A q \in plan.parts[i] : Measured(plan, rs, i, q, s[q + 1])
    BY RunMeasured
  <2>2. ASSUME NEW q \in 0..plan.n - 1
        PROVE  BitSeen(q, s[q + 1])
    <3>1. PartOf(q) \in DOMAIN plan.parts /\ q \in plan.parts[PartOf(q)]
      BY BitSeenMeasured
    <3> HIDE DEF rs
    <3>2. Measured(plan, rs, PartOf(q), q, s[q + 1])
      BY <2>1, <3>1
    <3> QED BY <3>2, BitSeenMeasured DEF rs
  <2> QED BY <2>1, <2>2
<1> QED BY <1>1, Inductive, PTL

-------------------------------------------------------------------------------
(* Results that are certain: each holds one string, so the joint distribution  *)
(* is one string as well.                                                      *)
IsOne(c, w, t) == /\ w \in Nat /\ c \in [Strings(w) -> Nat] /\ t \in Strings(w)
                  /\ c[t] > 0 /\ \A s \in Strings(w) \ {t} : c[s] = 0

LEMMA OneString ==
    ASSUME NEW w \in Nat, NEW c \in [Strings(w) -> Nat], Cardinality(DOMAIN Kept(c)) = 1
    PROVE  \E t \in Strings(w) : IsOne(c, w, t)
<1> DEFINE K == DOMAIN Kept(c)
<1>1. K \in SUBSET Strings(w)
  BY KeptOnly
<1>2. IsFiniteSet(K)
  BY <1>1, StringsAreFinite, FS_Subset
<1>3. PICK t : K = {t}
  <2> HIDE DEF K
  <2>1. Cardinality(K) = 1
    BY DEF K
  <2> QED BY <1>2, <2>1, FS_Singleton
<1>4. t \in Strings(w) /\ c[t] > 0
  BY <1>3, KeptOnly
<1>5. \A s \in Strings(w) \ {t} : c[s] = 0
  <2>1. \A s \in Strings(w) : c[s] > 0 => s \in K
    BY KeptOnly
  <2> HIDE DEF K
  <2> QED BY <1>3, <2>1
<1> QED BY <1>4, <1>5 DEF IsOne

LEMMA OneTotal ==
    ASSUME NEW c, NEW w, NEW t, IsOne(c, w, t)
    PROVE  Total(c) = c[t] /\ Total(c) \in Nat /\ Total(c) > 0
<1>1. w \in Nat /\ c \in [Strings(w) -> Nat] /\ t \in Strings(w) /\ c[t] > 0
  BY DEF IsOne
<1>2. \A s \in Strings(w) \ {t} : c[s] = 0
  BY DEF IsOne
<1>3. IsFiniteSet(Strings(w))
  BY <1>1, StringsAreFinite
<1>4. Total(c) = c[t]
  BY ONLY <1>1, <1>2, <1>3, TotalOfOne
<1> QED BY <1>1, <1>4

\* Every shot has the string's bit at a place, and none the other.
LEMMA OneSeen ==
    ASSUME NEW c, NEW w, NEW t, IsOne(c, w, t), NEW place \in 1..w
    PROVE  /\ Seen(c, place, t[place]) = Total(c)
           /\ \A b \in Bits : b # t[place] => Seen(c, place, b) = 0
<1>1. /\ w \in Nat /\ c \in [Strings(w) -> Nat] /\ t \in Strings(w) /\ c[t] > 0
      /\ \A s \in Strings(w) \ {t} : c[s] = 0
  BY DEF IsOne
<1>2. Seen(c, place, t[place]) = Total(c)
  <2> DEFINE T == {s \in DOMAIN c : place <= Len(s) /\ s[place] = t[place]}
             r == Restrict(c, T)
  <2>1. t \in T /\ T \in SUBSET Strings(w)
    <3>1. Len(t) = w
      BY <1>1 DEF Strings
    <3> QED BY <1>1, <3>1
  <2>2. IsFiniteSet(T)
    BY <1>1, <2>1, StringsAreFinite, FS_Subset
  <2>3. r \in [T -> Nat] /\ r[t] = c[t] /\ \A s \in T \ {t} : r[s] = 0
    <3> HIDE DEF T
    <3> QED BY <1>1, <2>1 DEF Restrict
  <2>4. Seen(c, place, t[place]) = Total(r)
    BY DEF Seen
  <2> HIDE DEF T, r
  <2>5. Total(r) = r[t]
    BY ONLY <2>1, <2>2, <2>3, TotalOfOne
  <2> QED BY <2>3, <2>4, <2>5, OneTotal
<1>3. ASSUME NEW b \in Bits, b # t[place]
      PROVE  Seen(c, place, b) = 0
  <2>1. Seen(c, place, b) \in Nat
    BY <1>1, SeenTyped
  <2>2. ~(Seen(c, place, b) > 0)
    <3>1. ASSUME Seen(c, place, b) > 0
          PROVE  \E s \in Strings(w) : c[s] > 0 /\ s[place] = b
      BY <1>1, <3>1, SeenInAString
    <3>2. \A s \in Strings(w) : c[s] > 0 => s = t
      BY <1>1
    <3> QED BY <1>3, <3>1, <3>2
  <2> QED BY <2>1, <2>2
<1> QED BY <1>2, <1>3

\* ts are the partitions' strings and g the global one they make up
Certain(p, rs, ts, g) ==
    /\ Whole(p, rs) /\ g \in Strings(p.n)
    /\ \A i \in DOMAIN p.parts :
         /\ IsOne(rs[i].counts, Cardinality(p.parts[i]), ts[i])
         /\ \A q \in p.parts[i] : g[q + 1] = ts[i][Place(q, p.parts[i])]

LEMMA CertainTyped ==
    ASSUME NEW p, NEW rs, NEW ts, NEW g, Certain(p, rs, ts, g)
    PROVE  /\ Whole(p, rs) /\ p \in Plans /\ rs \in Seq(Results(p)) /\ rs # <<>>
           /\ p.n \in Nat /\ g \in Strings(p.n)
           /\ \A q \in 0..p.n - 1 : \E i \in DOMAIN p.parts : q \in p.parts[i]
           /\ MinShots(rs) \in Nat /\ MinShots(rs) > 0
<1>1. Whole(p, rs) /\ p \in Plans /\ rs \in Seq(Results(p)) /\ g \in Strings(p.n)
  BY DEF Certain, Whole
<1>2. /\ p.n \in Nat /\ p.parts \in Seq(SUBSET Nat) /\ p.parts # <<>>
      /\ UNION {p.parts[i] : i \in DOMAIN p.parts} = 0..p.n - 1
  BY <1>1, PlansOK
<1>3. \A q \in 0..p.n - 1 : \E i \in DOMAIN p.parts : q \in p.parts[i]
  BY <1>2
<1>4. 1 \in DOMAIN p.parts
  BY <1>2
<1>5. rs # <<>> /\ DOMAIN rs = DOMAIN p.parts
  BY <1>1, <1>4, WholeTyped
<1>6. PICK i \in DOMAIN p.parts : MinShots(rs) = Total(rs[i].counts)
  BY <1>1, <1>5, MinShotsTyped
<1>7. Total(rs[i].counts) \in Nat /\ Total(rs[i].counts) > 0
  BY OneTotal DEF Certain
<1> QED BY <1>1, <1>2, <1>3, <1>5, <1>6, <1>7

\* A string whose bits were all measured is the one string.
LEMMA CertainBits ==
    ASSUME NEW p, NEW rs, NEW ts, NEW g, Certain(p, rs, ts, g), NEW s \in Strings(p.n),
           \A i \in DOMAIN p.parts : \A q \in p.parts[i] : Measured(p, rs, i, q, s[q + 1])
    PROVE  s = g
<1>1. p.n \in Nat /\ g \in Strings(p.n)
  BY CertainTyped
<1>2. ASSUME NEW i \in DOMAIN p.parts, NEW q \in p.parts[i]
      PROVE  s[q + 1] = g[q + 1]
  <2> DEFINE w == Cardinality(p.parts[i])
             c == rs[i].counts
  <2>1. IsOne(c, w, ts[i]) /\ g[q + 1] = ts[i][Place(q, p.parts[i])]
    BY DEF Certain
  <2>2. PICK t \in DOMAIN c : c[t] > 0 /\ t[Place(q, p.parts[i])] = s[q + 1]
    BY DEF Measured
  <2> HIDE DEF c, w
  <2>3. t = ts[i]
    BY <2>1, <2>2 DEF IsOne
  <2> QED BY <2>1, <2>2, <2>3
<1>3. \A j \in 1..p.n : s[j] = g[j]
  <2> SUFFICES ASSUME NEW j \in 1..p.n PROVE s[j] = g[j]
    OBVIOUS
  <2>1. j - 1 \in 0..p.n - 1 /\ (j - 1) + 1 = j
    BY <1>1
  <2>2. PICK i \in DOMAIN p.parts : j - 1 \in p.parts[i]
    BY <2>1, CertainTyped
  <2>3. s[(j - 1) + 1] = g[(j - 1) + 1]
    BY <1>2, <2>2
  <2> QED BY ONLY <2>1, <2>3, Zenon
<1> QED BY <1>1, <1>3 DEF Strings

LEMMA CertainMarginal ==
    ASSUME NEW p, NEW rs, NEW ts, NEW g, Certain(p, rs, ts, g), NEW q \in 0..p.n - 1
    PROVE  /\ Marginals(p, rs)[q].bit[g[q + 1]] = Marginals(p, rs)[q].of
           /\ Marginals(p, rs)[q].of > 0 /\ Marginals(p, rs)[q].of \in Nat
           /\ \A b \in Bits : b # g[q + 1] => Marginals(p, rs)[q].bit[b] = 0
<1>1. PICK i \in DOMAIN p.parts : q \in p.parts[i]
  BY CertainTyped
<1> DEFINE w == Cardinality(p.parts[i])
           c == rs[i].counts
           place == Place(q, p.parts[i])
<1>2. IsOne(c, w, ts[i]) /\ g[q + 1] = ts[i][place] /\ Whole(p, rs)
  BY <1>1 DEF Certain
<1>3. Total(c) \in Nat /\ Total(c) > 0
  <2> HIDE DEF c, w
  <2> QED BY <1>2, OneTotal
<1>4. /\ place \in 1..w
      /\ \A b \in Bits : Marginal(p, rs, q).bit[b] = Seen(c, place, b)
      /\ Marginal(p, rs, q).of = Total(c)
  BY <1>1, <1>2, <1>3, MarginalOfPart
<1>5. Marginals(p, rs)[q] = Marginal(p, rs, q)
  BY DEF Marginals
<1>6. g[q + 1] \in Bits
  <2>1. g \in [1..p.n -> Bits] /\ p.n \in Nat
    BY CertainTyped DEF Strings
  <2> QED BY <2>1
<1> HIDE DEF c, w, place
<1>7. /\ Seen(c, place, ts[i][place]) = Total(c)
      /\ \A b \in Bits : b # ts[i][place] => Seen(c, place, b) = 0
  BY <1>2, <1>4, OneSeen
<1> QED BY <1>2, <1>3, <1>4, <1>5, <1>6, <1>7

LEMMA CertainScore ==
    ASSUME NEW p, NEW rs, NEW ts, NEW g, Certain(p, rs, ts, g)
    PROVE  /\ AreMarginals(Marginals(p, rs), p.n)
           /\ Score(Marginals(p, rs), g) = Scale(Marginals(p, rs))
           /\ \A s \in Strings(p.n) \ {g} : Score(Marginals(p, rs), s) = 0
           /\ Mode(Marginals(p, rs), p.n) = g
<1> DEFINE m == Marginals(p, rs)
           n == p.n
<1>1. n \in Nat /\ AreMarginals(m, n) /\ g \in Strings(n)
  BY CertainTyped, MarginalsTyped
<1>2. \A q \in 0..n - 1 : /\ m[q].bit[g[q + 1]] = m[q].of
                          /\ m[q].of > 0 /\ m[q].of \in Nat
                          /\ \A b \in Bits : b # g[q + 1] => m[q].bit[b] = 0
  BY CertainMarginal
<1> HIDE DEF m, n
<1>3. DOMAIN m = 0..n - 1
  BY <1>1 DEF AreMarginals
<1>4. Score(m, g) = Scale(m)
  <2>1. [q \in DOMAIN m |-> m[q].bit[g[q + 1]]] = [q \in DOMAIN m |-> m[q].of]
    BY <1>2, <1>3
  <2> QED BY ONLY <2>1, Zenon DEF Score, Scale
<1>5. \A q \in 0..n - 1 : q + 1 \in 1..n
  BY <1>1
<1>6. ASSUME NEW s \in Strings(n), s # g
      PROVE  Score(m, s) = 0
  <2>1. Score(m, s) \in Nat
    BY <1>1, ScoreBelowScale
  <2>2. ASSUME Score(m, s) > 0 PROVE FALSE
    <3>1. \A q \in 0..n - 1 : s[q + 1] \in Bits /\ m[q].bit[s[q + 1]] > 0
      BY <1>1, <2>2, PositiveFactors
    <3>2. \A q \in 0..n - 1 : s[q + 1] = g[q + 1]
      BY <1>2, <3>1
    <3>3. \A j \in 1..n : s[j] = g[j]
      <4> SUFFICES ASSUME NEW j \in 1..n PROVE s[j] = g[j]
        OBVIOUS
      <4>1. j - 1 \in 0..n - 1 /\ (j - 1) + 1 = j
        BY <1>1
      <4>2. s[(j - 1) + 1] = g[(j - 1) + 1]
        BY <3>2, <4>1
      <4> QED BY ONLY <4>1, <4>2, Zenon
    <3> QED BY <1>1, <1>6, <3>3 DEF Strings
  <2> QED BY <2>1, <2>2
<1>7. Mode(m, n) = g
  <2>1. g \in [1..n -> Bits]
    BY <1>1 DEF Strings
  <2>2. ASSUME NEW j \in 1..n
        PROVE  (IF m[j - 1].bit[0] >= m[j - 1].bit[1] THEN 0 ELSE 1) = g[j]
    <3>1. j - 1 \in 0..n - 1 /\ (j - 1) + 1 = j
      BY <1>1
    <3>2. /\ m[j - 1].bit[g[(j - 1) + 1]] = m[j - 1].of
          /\ m[j - 1].of > 0 /\ m[j - 1].of \in Nat
          /\ \A b \in Bits : b # g[(j - 1) + 1] => m[j - 1].bit[b] = 0
      BY <1>2, <3>1
    <3>3. g[j] \in Bits /\ g[(j - 1) + 1] = g[j]
      <4>1. g[(j - 1) + 1] = g[j]
        BY ONLY <3>1, Zenon
      <4> QED BY <2>1, <4>1
    <3> DEFINE r == m[j - 1]
    <3>4. /\ r.bit[g[j]] = r.of /\ r.of > 0 /\ r.of \in Nat
          /\ \A b \in Bits : b # g[j] => r.bit[b] = 0
      BY ONLY <3>2, <3>3, Zenon
    <3> HIDE DEF r
    <3>5. (IF r.bit[0] >= r.bit[1] THEN 0 ELSE 1) = g[j]
      <4>1. CASE g[j] = 0
        BY <3>4, <4>1 DEF Bits
      <4>2. CASE g[j] = 1
        BY <3>4, <4>2 DEF Bits
      <4> QED BY <3>3, <4>1, <4>2 DEF Bits
    <3> QED BY <3>5 DEF r
  <2>3. Mode(m, n) = [j \in 1..n |-> g[j]]
    BY <2>2 DEF Mode
  <2> QED BY <2>1, <2>3
<1> QED BY <1>1, <1>4, <1>6, <1>7 DEF m, n

\* A count that rounds to all shots is kept.
LEMMA AllShots ==
    ASSUME NEW c, NEW g \in DOMAIN c, NEW b \in Nat, b > 0, NEW shots \in Nat, shots > 0,
           c[g] = Round(b * shots, b)
    PROVE  g \in DOMAIN Kept(c) /\ Kept(c)[g] = shots
<1>1. c[g] = shots
  BY RoundedExactly
<1> QED BY <1>1, KeptOnly

LEMMA CertainReconstruct ==
    ASSUME NEW p, NEW rs, NEW ts, NEW g, Certain(p, rs, ts, g)
    PROVE  g \in DOMAIN Reconstruct(p, rs) /\ Reconstruct(p, rs)[g] = MinShots(rs)
<1> DEFINE m == Marginals(p, rs)
           n == p.n
           shots == MinShots(rs)
<1>1. n \in Nat /\ g \in Strings(n) /\ shots \in Nat /\ shots > 0
  BY CertainTyped
<1>2. /\ AreMarginals(m, n) /\ Score(m, g) = Scale(m) /\ Mode(m, n) = g
      /\ \A s \in Strings(n) \ {g} : Score(m, s) = 0
  BY CertainScore
<1> HIDE DEF m, n, shots
<1>3. Scale(m) \in Nat /\ Scale(m) > 0
  BY <1>1, <1>2, ScoreBelowScale
<1>4. g \in DOMAIN Exact(m, n, shots) /\ Exact(m, n, shots)[g] = shots
  <2> DEFINE c == [s \in Strings(n) |-> Round(Score(m, s) * shots, Scale(m))]
  <2>1. Exact(m, n, shots) = Kept(c)
    BY DEF Exact
  <2>2. g \in DOMAIN c /\ c[g] = Round(Scale(m) * shots, Scale(m))
    BY <1>1, <1>2
  <2> HIDE DEF c
  <2> QED BY <1>1, <1>3, <2>1, <2>2, AllShots
<1>5. g \in DOMAIN Sampled(m, n, shots) /\ Sampled(m, n, shots)[g] = shots
  <2> DEFINE C == Candidates(m, n)
             f == [s \in C |-> Score(m, s)]
             all == Total(f)
             c == [s \in C |-> Round(Score(m, s) * shots, all)]
  <2>1. Sampled(m, n, shots) = IF all = 0 THEN <<>> ELSE Kept(c)
    BY DEF Sampled, Candidates
  <2>2. C \in SUBSET Strings(n) /\ IsFiniteSet(C) /\ g \in C
    <3>1. g \in C
      BY <1>2 DEF Candidates
    <3> HIDE DEF C
    <3> QED BY <1>1, <3>1, CandidatesAreStrings DEF C
  <2>3. f \in [C -> Nat] /\ f[g] = Scale(m) /\ \A s \in C \ {g} : f[s] = 0
    <3> HIDE DEF C
    <3>1. \A s \in C : Score(m, s) \in Nat
      BY <1>1, <1>2, <2>2, ScoreBelowScale
    <3> QED BY <1>2, <2>2, <3>1
  <2>4. all = Scale(m)
    <3>1. Total(f) = f[g]
      <4> HIDE DEF C, f
      <4> QED BY ONLY <2>2, <2>3, TotalOfOne
    <3> QED BY <2>3, <3>1
  <2>5. g \in DOMAIN c /\ c[g] = Round(Scale(m) * shots, Scale(m))
    <3> HIDE DEF all, C
    <3>1. c[g] = Round(Score(m, g) * shots, all)
      BY <2>2
    <3> HIDE DEF c
    <3>2. c[g] = Round(Scale(m) * shots, Scale(m))
      BY ONLY <1>2, <2>4, <3>1, Zenon
    <3> QED BY <2>2, <3>2 DEF c
  <2> HIDE DEF c, all
  <2>6. Sampled(m, n, shots) = Kept(c)
    BY <1>3, <2>1, <2>4
  <2> QED BY <1>1, <1>3, <2>5, <2>6, AllShots
<1> QED BY <1>4, <1>5 DEF Reconstruct, m, n, shots

LEMMA CertainTensor ==
    ASSUME NEW p, NEW rs, NEW ts, NEW g, Certain(p, rs, ts, g), IsContiguous(p)
    PROVE  g \in DOMAIN TensorProduct(rs) /\ TensorProduct(rs)[g] = MinShots(rs)
<1> DEFINE N == Len(rs)
           ws == Widths(p, rs)
           S == Strings(Offset(ws, N))
           f == Given(CountsIn(rs), ws, g, N)
           W == Weights(rs)
           all == Product(TotalsIn(rs))
           shots == MinShots(rs)
           c == [s \in DOMAIN W |-> Round(W[s] * shots, all)]
<1>1. /\ Whole(p, rs) /\ p \in Plans /\ rs \in Seq(Results(p)) /\ g \in Strings(p.n)
      /\ shots \in Nat /\ shots > 0
  BY CertainTyped
<1>2. /\ N \in Nat /\ DOMAIN p.parts = 1..N /\ DOMAIN rs = 1..N
      /\ \A i \in 1..N : ws[i] = Cardinality(p.parts[i]) /\ ws[i] \in Nat
  <2>1. /\ N \in Nat /\ DOMAIN p.parts = 1..N /\ ws \in [1..N -> Nat]
        /\ \A i \in 1..N : ws[i] = Cardinality(p.parts[i])
    BY <1>1, WidthsOfParts
  <2>2. DOMAIN rs = 1..N
    BY <1>1
  <2> QED BY <2>1, <2>2
<1>3. Offset(ws, N) = p.n
  BY <1>1, ContiguousPlaces
<1>4. g \in S
  BY ONLY <1>1, <1>3, Zenon
<1>5. /\ IsFiniteSet(1..N) /\ TotalsIn(rs) \in [1..N -> Nat] /\ W \in [S -> Nat]
      /\ f \in [1..N -> Nat] /\ W[g] = Product(f)
      /\ \A i \in 1..N : f[i] = rs[i].counts[Segment(g, Offset(ws, i - 1), ws[i])]
  BY <1>1, <1>4, TensorWeights
<1>6. ASSUME NEW i \in 1..N
      PROVE  f[i] = Total(rs[i].counts) /\ Total(rs[i].counts) > 0
  <2> DEFINE P == p.parts[i]
             d == rs[i].counts
             w == Cardinality(P)
             t == Segment(g, Offset(ws, i - 1), ws[i])
  <2>1. /\ IsOne(d, w, ts[i]) /\ \A q \in P : g[q + 1] = ts[i][Place(q, P)]
    BY <1>2 DEF Certain
  <2>2. \A q \in P : Offset(ws, i - 1) + Place(q, P) = q + 1
    BY <1>1, ContiguousPlaces
  <2>3. P \in SUBSET Nat /\ IsFiniteSet(P)
    BY <1>1, <1>2, WholeTyped
  <2>4. ws[i] = w
    BY <1>2
  <2>5. \A j \in 1..w : t[j] = g[Offset(ws, i - 1) + j]
    BY <2>4 DEF Segment
  <2>6. t = [j \in 1..w |-> t[j]]
    BY <2>4 DEF Segment
  <2> HIDE DEF t, d, P
  <2>7. ASSUME NEW j \in 1..w
        PROVE  t[j] = ts[i][j]
    <3>1. PICK q \in P : Place(q, P) = j
      BY <2>3, PlacesAreTaken
    <3>2. t[j] = g[Offset(ws, i - 1) + j]
      BY <2>5
    <3>3. g[Offset(ws, i - 1) + Place(q, P)] = g[q + 1]
      <4>1. Offset(ws, i - 1) + Place(q, P) = q + 1
        BY <2>2
      <4> QED BY ONLY <4>1, Zenon
    <3>4. g[Offset(ws, i - 1) + j] = g[q + 1]
      BY ONLY <3>1, <3>3, Zenon
    <3>5. g[q + 1] = ts[i][Place(q, P)]
      BY <2>1
    <3> QED BY ONLY <3>1, <3>2, <3>4, <3>5, Zenon
  <2>8. t = ts[i]
    <3> HIDE DEF w
    <3>1. ts[i] = [j \in 1..w |-> ts[i][j]]
      BY <2>1 DEF IsOne, Strings
    <3> QED BY <2>6, <2>7, <3>1
  <2>9. Total(d) = d[ts[i]] /\ Total(d) > 0
    BY <2>1, OneTotal
  <2>10. f[i] = d[t]
    BY <1>5 DEF d, t
  <2>11. f[i] = Total(d)
    BY ONLY <2>8, <2>9, <2>10, Zenon
  <2> QED BY <2>9, <2>11 DEF d
<1>7. f = TotalsIn(rs) /\ \A i \in 1..N : TotalsIn(rs)[i] > 0
  <2>1. \A i \in 1..N : TotalsIn(rs)[i] = Total(rs[i].counts)
    BY <1>2 DEF TotalsIn
  <2>2. \A i \in 1..N : f[i] = TotalsIn(rs)[i]
    BY <1>6, <2>1
  <2> HIDE DEF f
  <2> QED BY <1>5, <1>6, <2>1, <2>2
<1>8. all \in Nat /\ all > 0
  <2> DEFINE D == 1..N
             g1 == TotalsIn(rs)
  <2>1. IsFiniteSet(D) /\ g1 \in [D -> Nat] /\ \A i \in D : g1[i] > 0
    BY <1>5, <1>7
  <2> HIDE DEF D, g1
  <2>2. Product(g1) \in Nat /\ Product(g1) > 0
    BY <2>1, FoldsAreNat, ProductOfPositive
  <2> QED BY <2>2 DEF g1
<1>9. W[g] = all
  BY ONLY <1>5, <1>7, Zenon
<1>10. TensorProduct(rs) = IF all = 0 THEN <<>> ELSE Kept(c)
  BY DEF TensorProduct, Weights, Nothing, CountsIn, TotalsIn
<1>11. g \in DOMAIN c /\ c[g] = Round(all * shots, all)
  <2>1. DOMAIN W = S
    BY <1>5
  <2> HIDE DEF W, all, S
  <2>2. g \in DOMAIN c /\ c[g] = Round(W[g] * shots, all)
    BY <1>4, <2>1
  <2> HIDE DEF c
  <2>3. c[g] = Round(all * shots, all)
    BY ONLY <1>9, <2>2, Zenon
  <2> QED BY <2>2, <2>3
<1> HIDE DEF c, all, shots
<1>12. TensorProduct(rs) = Kept(c)
  BY <1>8, <1>10
<1> QED BY <1>1, <1>8, <1>11, <1>12, AllShots DEF shots

LEMMA CertainPassedThrough ==
    ASSUME NEW p, NEW rs, NEW ts, NEW g, Certain(p, rs, ts, g), Len(rs) = 1
    PROVE  /\ g \in DOMAIN Kept(rs[1].counts)
           /\ Kept(rs[1].counts)[g] = Total(rs[1].counts)
<1>1. 1 \in DOMAIN p.parts /\ Cardinality(p.parts[1]) = p.n
      /\ \A q \in p.parts[1] : Place(q, p.parts[1]) = q + 1
  BY OnlyPartition DEF Certain
<1> DEFINE P == p.parts[1]
           c == rs[1].counts
           w == Cardinality(P)
           t == ts[1]
<1>2. IsOne(c, w, t) /\ \A q \in P : g[q + 1] = t[Place(q, P)]
  BY <1>1 DEF Certain
<1>3. P \in SUBSET Nat /\ IsFiniteSet(P)
  BY <1>1, WholeTyped DEF Certain
<1>4. w = p.n
  BY <1>1
<1>5. \A q \in P : Place(q, P) = q + 1
  BY <1>1
<1> HIDE DEF c, P, t
<1>6. ASSUME NEW j \in 1..w
      PROVE  g[j] = t[j]
  <2>1. PICK q \in P : Place(q, P) = j
    BY <1>3, PlacesAreTaken
  <2>2. g[q + 1] = t[Place(q, P)] /\ Place(q, P) = q + 1
    BY <1>2, <1>5
  <2> QED BY ONLY <2>1, <2>2, Zenon
<1>7. g = t
  <2>1. t \in Strings(w) /\ g \in Strings(p.n)
    BY <1>2 DEF IsOne, Certain
  <2>2. g \in Strings(w)
    BY ONLY <1>4, <2>1, Zenon
  <2> HIDE DEF w
  <2>3. g = [j \in 1..w |-> g[j]] /\ t = [j \in 1..w |-> t[j]]
    BY ONLY <2>1, <2>2 DEF Strings
  <2>4. [j \in 1..w |-> g[j]] = [j \in 1..w |-> t[j]]
    BY <1>6
  <2> QED BY ONLY <2>3, <2>4, Zenon
<1>8. t \in DOMAIN c /\ c[t] > 0 /\ Total(c) = c[t]
  BY <1>2, OneTotal DEF IsOne
<1>9. t \in DOMAIN Kept(c) /\ Kept(c)[t] = c[t]
  BY <1>8, KeptOnly
<1> QED BY <1>7, <1>8, <1>9 DEF c

\* The global string of certain results has the bit each qubit was measured with.
LEMMA CertainRun ==
    ASSUME IInv, Complete, NEW rs, rs = Sorted(inbox),
           \A i \in DOMAIN plan.parts : Cardinality(DOMAIN Kept(CountsOf(i))) = 1,
           NEW g, g = [q \in 1..plan.n |-> IF BitSeen(q - 1, 1) THEN 1 ELSE 0]
    PROVE  \E ts : Certain(plan, rs, ts, g)
<1> DEFINE Is(i, t) == IsOne(rs[i].counts, Cardinality(plan.parts[i]), t)
           ts == [i \in DOMAIN plan.parts |-> CHOOSE t : Is(i, t)]
<1>1. Whole(plan, rs) /\ plan \in Plans /\ \A i \in DOMAIN plan.parts : CountsOf(i) = rs[i].counts
  BY CompleteRun DEF IInv
<1>2. plan.n \in Nat /\ g \in Strings(plan.n)
  <2>1. plan.n \in Nat
    BY <1>1, PlansOK
  <2> QED BY <2>1 DEF Strings, Bits
<1>3. ASSUME NEW i \in DOMAIN plan.parts
      PROVE  Is(i, ts[i])
  <2> DEFINE c == rs[i].counts
             w == Cardinality(plan.parts[i])
  <2>1. w \in Nat /\ c \in [Strings(w) -> Nat]
    BY <1>1, WholeTyped
  <2>2. Cardinality(DOMAIN Kept(c)) = 1
    <3>1. CountsOf(i) = c /\ Cardinality(DOMAIN Kept(CountsOf(i))) = 1
      BY <1>1
    <3> QED BY ONLY <3>1, Zenon
  <2> HIDE DEF c, w
  <2>3. \E t : IsOne(c, w, t)
    BY <2>1, <2>2, OneString
  <2>4. \E t : Is(i, t)
    BY <2>3 DEF c, w
  <2> HIDE DEF Is
  <2> QED BY <2>4
<1>4. ASSUME NEW i \in DOMAIN plan.parts, NEW q \in plan.parts[i]
      PROVE  g[q + 1] = ts[i][Place(q, plan.parts[i])]
  <2> DEFINE c == rs[i].counts
             w == Cardinality(plan.parts[i])
             place == Place(q, plan.parts[i])
             t == ts[i]
  <2>1. IsOne(c, w, t)
    BY <1>3
  <2>2. q \in 0..plan.n - 1
    BY <1>1, PartsAreFinite
  <2>3. PartOf(q) = i
    <3>1. PartOf(q) \in DOMAIN plan.parts /\ q \in plan.parts[PartOf(q)]
      BY <2>2, BitSeenMeasured
    <3> QED BY <1>1, <3>1, PartsAreDisjoint
  <2>4. BitSeen(q, 1) <=> Measured(plan, rs, i, q, 1)
    <3>1. BitSeen(q, 1) <=> Measured(plan, rs, PartOf(q), q, 1)
      BY <2>2, BitSeenMeasured
    <3> QED BY ONLY <2>3, <3>1, Zenon
  <2>5. Measured(plan, rs, i, q, 1) <=> \E s \in DOMAIN c : c[s] > 0 /\ s[place] = 1
    BY DEF Measured
  <2>6. place \in 1..w
    BY <1>1, WholeTyped, PlacesAreTaken
  <2>7. g[q + 1] = IF BitSeen(q, 1) THEN 1 ELSE 0
    <3>1. q + 1 \in 1..plan.n /\ (q + 1) - 1 = q
      BY <1>2, <2>2
    <3>2. g[q + 1] = IF BitSeen((q + 1) - 1, 1) THEN 1 ELSE 0
      BY <3>1
    <3> QED BY ONLY <3>1, <3>2, Zenon
  <2> HIDE DEF c, w, place, t
  <2>8. (\E s \in DOMAIN c : c[s] > 0 /\ s[place] = 1) <=> t[place] = 1
    BY <2>1 DEF IsOne
  <2>9. t[place] \in {0, 1}
    BY <2>1, <2>6 DEF IsOne, Strings, Bits
  <2>10. g[q + 1] = t[place]
    BY <2>4, <2>5, <2>7, <2>8, <2>9
  <2> QED BY <2>10 DEF t, place
<1> HIDE DEF ts
<1> QED BY <1>1, <1>2, <1>3, <1>4 DEF Certain

\* When every partition gave one certain bitstring, read lowest qubit first, the
\* merged counts are the one global bitstring, read the same way, that has each qubit's bit at that qubit's place, with the fewest
\* shots of any partition: rounding loses no shot and no other string gets one, by
\* the exact and the sampled reconstruction and by concatenation.
THEOREM Faithful ==
    Spec => []FaithfulLowestFirst
<1>1. IInv => FaithfulLowestFirst
  <2> DEFINE g == [q \in 1..plan.n |-> IF BitSeen(q - 1, 1) THEN 1 ELSE 0]
             rs == Sorted(inbox)
  <2> SUFFICES ASSUME IInv, Complete, plan.cuts > 0 \/ Contiguous,
                      \A i \in DOMAIN plan.parts : Cardinality(DOMAIN Kept(CountsOf(i))) = 1
               PROVE  run.counts = [s \in {g} |-> run.shots]
    BY DEF FaithfulLowestFirst, JointIsExact, OneOutcomeEach
  <2>1. PICK ts : Certain(plan, rs, ts, g)
    BY CertainRun
  <2>2. \/ /\ Len(rs) = 1 /\ run.counts = Kept(rs[1].counts)
           /\ run.shots = Total(rs[1].counts)
        \/ /\ plan.cuts > 0 /\ run.counts = Reconstruct(plan, rs)
           /\ run.shots = MinShots(rs)
        \/ /\ plan.cuts = 0 /\ run.counts = TensorProduct(rs)
           /\ run.shots = MinShots(rs)
    BY CompleteRun
  <2>3. plan.cuts = 0 => IsContiguous(plan)
    BY DEF Contiguous, IsContiguous
  <2>4. ASSUME NEW s \in DOMAIN run.counts
        PROVE  s = g
    <3>1. /\ s \in Strings(plan.n)
          /\ \A i \in DOMAIN plan.parts :
                \A q \in plan.parts[i] : Measured(plan, rs, i, q, s[q + 1])
      BY RunMeasured
    <3> HIDE DEF g, rs
    <3> QED BY <2>1, <3>1, CertainBits
  <2> HIDE DEF g, rs
  <2>5. g \in DOMAIN run.counts /\ run.counts[g] = run.shots
    BY <2>1, <2>2, <2>3, CertainPassedThrough, CertainReconstruct, CertainTensor
  <2>6. run.counts = [s \in DOMAIN run.counts |-> run.counts[s]]
    <3>1. \A c : Kept(c) = [s \in DOMAIN Kept(c) |-> Kept(c)[s]]
      BY DEF Kept, Restrict
    <3>2. \E c : run.counts = Kept(c)
      BY <2>2, <2>5 DEF Reconstruct, Exact, Sampled, TensorProduct
    <3> QED BY <3>1, <3>2
  <2>7. DOMAIN run.counts = {g}
    BY <2>4, <2>5
  <2> QED BY <2>5, <2>6, <2>7
<1> QED BY <1>1, Inductive, PTL
===============================================================================
