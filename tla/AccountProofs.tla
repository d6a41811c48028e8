---------------------------- MODULE AccountProofs ----------------------------
(***************************************************************************)
(* Facts about the arithmetic of Accounts, about lists of metas, about the *)
(* lamports of a list and about what one or two changed copies make of     *)
(* them, for the proofs about every program that works on accounts.        *)
(* Induction is over sets, which the provers can instantiate, and not over *)
(* predicates.                                                             *)
(***************************************************************************)
EXTENDS Invocation, FiniteSetTheorems, SequenceTheorems, WellFoundedInduction, TLAPS

-----------------------------------------------------------------------------
(* Arithmetic.                                                             *)

\* saturating_add of two u64 is a u64 and no less than either.
LEMMA SatAddType ==
    ASSUME NEW m \in Nat, NEW n \in Nat
    PROVE  /\ SatAdd(m, n) \in U64
           /\ m \in U64 => SatAdd(m, n) >= m
  BY AccountsAssumption DEF SatAdd, U64

\* A product of naturals is a natural.
LEMMA ProductType ==
    ASSUME NEW m \in Nat, NEW n \in Nat
    PROVE  m * n \in Nat
  BY SMT

\* saturating_mul of two naturals is a u64.
LEMMA SatMulType ==
    ASSUME NEW m \in Nat, NEW n \in Nat
    PROVE  SatMul(m, n) \in U64
<1>1. m * n \in Nat
  BY ProductType
<1> QED
  BY <1>1, AccountsAssumption DEF SatMul, U64

-----------------------------------------------------------------------------
(* Metas.                                                                  *)

\* A bounded set of positions that is not empty has a largest one.
LEMMA MaxExists ==
    ASSUME NEW n \in Nat, NEW I, I \subseteq 1..n, I # {}
    PROVE  \E i \in I : \A j \in I : j <= i
<1> DEFINE T == {n - i : i \in I}
<1>1. \A i \in I : i \in Nat /\ n - i \in Nat
  OBVIOUS
<1>2. T \subseteq Nat /\ T # {}
  BY <1>1
<1>3. PICK t \in T : \A u \in T : ~(<<u, t>> \in OpToRel(<, Nat))
  BY <1>2, WFMin, NatLessThanWellFounded
<1>4. PICK i \in I : t = n - i
  BY <1>3
<1>5. \A j \in I : ~(n - j < n - i)
  BY <1>1, <1>3, <1>4 DEF OpToRel
<1>6. ASSUME NEW j \in I PROVE j <= i
  <2>1. i \in Nat /\ j \in Nat /\ ~(n - j < n - i)
    BY <1>1, <1>5
  <2> HIDE DEF T
  <2> QED
    BY <2>1
<1> QED
  BY <1>6

\* A list of metas is numbered from 1, and its keys are addresses.
LEMMA MetaList ==
    ASSUME NEW ms \in Seq(Meta)
    PROVE  /\ DOMAIN ms = 1..Len(ms)
           /\ Len(ms) \in Nat
           /\ \A i \in DOMAIN ms : ms[i] \in Meta
           /\ Keys(ms) \subseteq Addr
<1>1. /\ DOMAIN ms = 1..Len(ms)
      /\ Len(ms) \in Nat
      /\ \A i \in DOMAIN ms : ms[i] \in Meta
  BY LenProperties, ElementOfSeq
<1> QED
  BY <1>1 DEF Keys, Meta

\* The last meta of a key is a meta of that key.
LEMMA LastMetaOfKey ==
    ASSUME NEW ms \in Seq(Meta), NEW a \in Keys(ms)
    PROVE  LastMeta(ms, a) \in DOMAIN ms /\ ms[LastMeta(ms, a)].key = a
<1> DEFINE I == {i \in DOMAIN ms : ms[i].key = a}
<1>1. I \subseteq 1..Len(ms) /\ Len(ms) \in Nat
  BY MetaList
<1>2. I # {}
  BY DEF Keys
<1>3. \E i \in I : \A j \in I : j <= i
  BY <1>1, <1>2, MaxExists
<1>4. \E i \in DOMAIN ms :
        ms[i].key = a /\ \A j \in DOMAIN ms : ms[j].key = a => j <= i
  BY <1>3
<1> QED
  BY <1>4 DEF LastMeta

-----------------------------------------------------------------------------
(* Induction, stated with sets instead of predicates.                      *)

\* A set of naturals with 0 and every successor has them all.
LEMMA NaturalInduction ==
    ASSUME NEW N \in SUBSET Nat, 0 \in N, \A n \in N : n + 1 \in N
    PROVE  N = Nat
<1>1. SUFFICES ASSUME Nat \ N # {} PROVE FALSE
  OBVIOUS
<1>2. PICK m \in Nat \ N : \A n \in Nat \ N : ~(<<n, m>> \in OpToRel(<, Nat))
  BY <1>1, WFMin, NatLessThanWellFounded
<1>3. \A n \in Nat \ N : ~(n < m)
  BY <1>2 DEF OpToRel
<1>4. m # 0 /\ m - 1 \in Nat /\ m = (m - 1) + 1
  OBVIOUS
<1>5. m - 1 \in N
  BY <1>3, <1>4
<1> QED
  BY <1>4, <1>5

\* Sets of n elements in turn.
LEMMA CardinalInduction ==
    ASSUME NEW S, IsFiniteSet(S), NEW C,
           \A T \in SUBSET S : (\A U \in SUBSET T : U # T => U \in C) => T \in C
    PROVE  S \in C
<1> DEFINE N == {n \in Nat : \A T \in SUBSET S : Cardinality(T) <= n => T \in C}
<1>1. \A T \in SUBSET S : IsFiniteSet(T) /\ Cardinality(T) \in Nat
  BY FS_Subset, FS_CardinalityType
<1>2. \A T \in SUBSET S : \A U \in SUBSET T : U # T => Cardinality(U) < Cardinality(T)
  <2>1. SUFFICES ASSUME NEW T \in SUBSET S, NEW U \in SUBSET T
                 PROVE  U # T => Cardinality(U) < Cardinality(T)
    OBVIOUS
  <2>2. IsFiniteSet(T) /\ U \in SUBSET S
    BY <1>1
  <2>3. Cardinality(U) <= Cardinality(T) /\ (Cardinality(T) = Cardinality(U) => T = U)
    BY <2>2, FS_Subset
  <2>4. Cardinality(U) \in Nat /\ Cardinality(T) \in Nat
    BY <1>1, <2>2
  <2> QED
    BY <2>3, <2>4
<1>3. 0 \in N
  <2>1. ASSUME NEW T \in SUBSET S, Cardinality(T) <= 0 PROVE T \in C
    <3>1. \A U \in SUBSET T : ~(U # T)
      BY <1>1, <1>2, <2>1
    <3> QED
      BY <3>1
  <2> QED
    BY <2>1
<1>4. ASSUME NEW n \in N PROVE n + 1 \in N
  <2>1. ASSUME NEW T \in SUBSET S, Cardinality(T) <= n + 1 PROVE T \in C
    <3>1. ASSUME NEW U \in SUBSET T, U # T PROVE U \in C
      <4>1. U \in SUBSET S /\ Cardinality(U) < Cardinality(T)
        BY <1>2, <3>1
      <4>2. Cardinality(U) <= n
        BY <1>1, <2>1, <4>1
      <4> QED
        BY <4>1, <4>2
    <3> QED
      BY <3>1
  <2> QED
    BY <2>1
<1>5. N = Nat
  <2> HIDE DEF N
  <2>1. N \in SUBSET Nat
    BY DEF N
  <2> QED
    BY <1>3, <1>4, <2>1, NaturalInduction
<1>6. Cardinality(S) \in N
  BY <1>1, <1>5
<1> QED
  BY <1>1, <1>6

-----------------------------------------------------------------------------
(* Sums.                                                                   *)

\* F gives every subset of S the sum of g over it.
Adds(F, g, S) ==
    /\ F \in [SUBSET S -> Nat]
    /\ F[{}] = 0
    /\ \A T \in SUBSET S : \A x \in S \ T : F[T \cup {x}] = F[T] + g[x]

\* Such a function exists, whatever the order in which one adds.
LEMMA AddsExists ==
    ASSUME NEW S, IsFiniteSet(S), NEW g, \A x \in S : g[x] \in Nat
    PROVE  \E F : Adds(F, g, S)
<1> DEFINE C == {T \in SUBSET S : \E F : Adds(F, g, T)}
<1>1. ASSUME NEW T \in SUBSET S, \A U \in SUBSET T : U # T => U \in C
      PROVE  T \in C
  <2>1. CASE T = {}
    <3> DEFINE F == [U \in SUBSET T |-> 0]
    <3>1. Adds(F, g, T)
      BY <2>1 DEF Adds
    <3> QED
      BY <3>1
  <2>2. CASE T # {}
    <3>1. PICK y \in T : TRUE
      BY <2>2
    <3>2. T \ {y} \in C
      BY <1>1, <3>1
    <3>3. PICK E : Adds(E, g, T \ {y})
      BY <3>2
    <3> DEFINE F == [U \in SUBSET T |-> IF y \in U THEN E[U \ {y}] + g[y] ELSE E[U]]
    <3>4. \A U \in SUBSET T : U \ {y} \in SUBSET (T \ {y}) /\ (y \notin U => U \in SUBSET (T \ {y}))
      OBVIOUS
    <3>5. F \in [SUBSET T -> Nat]
      <4>1. g[y] \in Nat /\ \A U \in SUBSET (T \ {y}) : E[U] \in Nat
        BY <3>1, <3>3 DEF Adds
      <4> QED
        BY <3>4, <4>1
    <3>6. F[{}] = 0
      BY <3>3 DEF Adds
    <3>7. ASSUME NEW U \in SUBSET T, NEW x \in T \ U PROVE F[U \cup {x}] = F[U] + g[x]
      <4>1. CASE x = y
        <5>1. U \cup {x} \in SUBSET T /\ y \in U \cup {x} /\ y \notin U /\ (U \cup {x}) \ {y} = U
          BY <4>1
        <5> QED
          BY <4>1, <5>1
      <4>2. CASE x # y /\ y \in U
        <5>1. /\ U \cup {x} \in SUBSET T /\ y \in U \cup {x}
              /\ (U \cup {x}) \ {y} = (U \ {y}) \cup {x}
              /\ U \ {y} \in SUBSET (T \ {y}) /\ x \in (T \ {y}) \ (U \ {y})
          BY <4>2
        <5>2. E[(U \ {y}) \cup {x}] = E[U \ {y}] + g[x]
          BY <5>1, <3>3 DEF Adds
        <5>3. E[U \ {y}] \in Nat /\ g[x] \in Nat /\ g[y] \in Nat
          BY <5>1, <3>3 DEF Adds
        <5>4. F[U \cup {x}] = E[(U \ {y}) \cup {x}] + g[y] /\ F[U] = E[U \ {y}] + g[y]
          BY <4>2, <5>1
        <5> HIDE DEF F
        <5> QED
          BY <5>2, <5>3, <5>4
      <4>3. CASE x # y /\ y \notin U
        <5>1. /\ U \cup {x} \in SUBSET T /\ y \notin U \cup {x}
              /\ U \in SUBSET (T \ {y}) /\ x \in (T \ {y}) \ U
          BY <4>3
        <5>2. E[U \cup {x}] = E[U] + g[x]
          BY <5>1, <3>3 DEF Adds
        <5> QED
          BY <4>3, <5>1, <5>2
      <4> QED
        BY <4>1, <4>2, <4>3
    <3>8. Adds(F, g, T)
      <4> HIDE DEF F
      <4> QED
        BY <3>5, <3>6, <3>7 DEF Adds
    <3> QED
      BY <3>8
  <2> QED
    BY <2>1, <2>2
<1>2. S \in C
  <2> HIDE DEF C
  <2> QED
    BY <1>1, CardinalInduction
<1> QED
  BY <1>2

\* The recursion of MapThenSumSet, an element chosen at each step.
Unfolds(F, g, S) ==
    F = [T \in SUBSET S |->
            IF T = {} THEN 0
            ELSE g[CHOOSE x \in T : TRUE] + F[T \ {CHOOSE x \in T : TRUE}]]

\* What adds up, unfolds as that recursion does, whichever element is chosen.
LEMMA AddsUnfolds ==
    ASSUME NEW S, NEW g, \A x \in S : g[x] \in Nat, NEW F, Adds(F, g, S)
    PROVE  Unfolds(F, g, S)
<1>1. ASSUME NEW T \in SUBSET S, NEW x \in T PROVE F[T] = g[x] + F[T \ {x}]
  <2>1. PICK U \in SUBSET S : U = T \ {x}
    OBVIOUS
  <2>2. x \in S \ U /\ T = U \cup {x}
    BY <2>1
  <2>3. F[T] = F[U] + g[x] /\ F[U] \in Nat /\ g[x] \in Nat
    BY <2>1, <2>2 DEF Adds
  <2> QED
    BY <2>1, <2>3
<1>2. \A T \in SUBSET S : T # {} => (CHOOSE x \in T : TRUE) \in T
  OBVIOUS
<1>3. \A T \in SUBSET S :
        F[T] = IF T = {} THEN 0
               ELSE g[CHOOSE x \in T : TRUE] + F[T \ {CHOOSE x \in T : TRUE}]
  BY <1>1, <1>2 DEF Adds
<1> QED
  BY <1>3 DEF Adds, Unfolds

\* And whatever unfolds so gives the sum: there is only one.
LEMMA UnfoldsAdds ==
    ASSUME NEW S, IsFiniteSet(S), NEW g, \A x \in S : g[x] \in Nat,
           NEW F, Adds(F, g, S), NEW G, Unfolds(G, g, S)
    PROVE  G[S] = F[S]
<1> DEFINE C == {T \in SUBSET S : G[T] = F[T]}
<1>1. ASSUME NEW T \in SUBSET S, \A U \in SUBSET T : U # T => U \in C PROVE T \in C
  <2>1. Unfolds(F, g, S)
    BY AddsUnfolds
  <2>2. CASE T = {}
    BY <2>1, <2>2 DEF Unfolds
  <2>3. CASE T # {}
    <3>1. PICK y \in T : y = CHOOSE x \in T : TRUE
      BY <2>3
    <3>2. T \ {y} \in C
      BY <1>1, <3>1
    <3>3. G[T] = g[y] + G[T \ {y}] /\ F[T] = g[y] + F[T \ {y}]
      BY <2>1, <2>3, <3>1 DEF Unfolds
    <3> QED
      BY <3>2, <3>3
  <2> QED
    BY <2>2, <2>3
<1>2. S \in C
  <2> HIDE DEF C
  <2> QED
    BY <1>1, CardinalInduction
<1> QED
  BY <1>2

\* What the elements of S weigh together.
Total(g, S) == (CHOOSE F : Adds(F, g, S))[S]

\* Any function that adds up gives the total of every subset.
LEMMA TotalIs ==
    ASSUME NEW S, IsFiniteSet(S), NEW g, \A x \in S : g[x] \in Nat,
           NEW F, Adds(F, g, S), NEW T \in SUBSET S
    PROVE  F[T] = Total(g, T)
<1>1. IsFiniteSet(T) /\ \A x \in T : g[x] \in Nat
  BY FS_Subset
<1> DEFINE E == [U \in SUBSET T |-> F[U]]
<1>2. Adds(E, g, T)
  BY DEF Adds
<1>3. Adds(CHOOSE G : Adds(G, g, T), g, T)
  BY <1>2
<1>4. PICK G : G = CHOOSE G0 : Adds(G0, g, T)
  OBVIOUS
<1>5. Unfolds(G, g, T)
  BY <1>1, <1>3, <1>4, AddsUnfolds
<1>6. G[T] = E[T]
  <2> HIDE DEF E
  <2> QED
    BY <1>1, <1>2, <1>5, UnfoldsAdds
<1> QED
  BY <1>4, <1>6 DEF Total

\* A total of naturals is a natural.
LEMMA TotalType ==
    ASSUME NEW S, IsFiniteSet(S), NEW g, \A x \in S : g[x] \in Nat
    PROVE  Total(g, S) \in Nat
<1>1. PICK F : Adds(F, g, S)
  BY AddsExists
<1>2. S \in SUBSET S
  OBVIOUS
<1>3. F[S] = Total(g, S)
  BY <1>1, <1>2, TotalIs
<1> QED
  BY <1>1, <1>3 DEF Adds

\* Nothing weighs nothing.
LEMMA TotalEmpty == ASSUME NEW g PROVE Total(g, {}) = 0
<1>1. IsFiniteSet({}) /\ \A x \in {} : g[x] \in Nat
  BY FS_EmptySet
<1>2. PICK F : Adds(F, g, {})
  BY <1>1, AddsExists
<1>3. {} \in SUBSET {}
  OBVIOUS
<1>4. F[{}] = Total(g, {})
  BY <1>1, <1>2, <1>3, TotalIs
<1> QED
  BY <1>2, <1>4 DEF Adds

\* The total of a set is that of a part and that of the rest.
LEMMA TotalSplit ==
    ASSUME NEW S, IsFiniteSet(S), NEW g, \A x \in S : g[x] \in Nat, NEW T \in SUBSET S
    PROVE  /\ Total(g, S) = Total(g, T) + Total(g, S \ T)
           /\ Total(g, T) \in Nat /\ Total(g, S \ T) \in Nat
<1>1. PICK F : Adds(F, g, S)
  BY AddsExists
<1>2. T \in SUBSET S /\ S \in SUBSET S /\ S \ T \in SUBSET S
  OBVIOUS
<1>3. F[T] = Total(g, T) /\ F[S] = Total(g, S) /\ F[S \ T] = Total(g, S \ T)
  BY <1>1, <1>2, TotalIs
<1> DEFINE R == S \ T
<1> DEFINE C == {U \in SUBSET R : F[T \cup U] = F[T] + F[U]}
<1>4. ASSUME NEW U \in SUBSET R, \A V \in SUBSET U : V # U => V \in C PROVE U \in C
  <2>1. CASE U = {}
    <3>1. T \cup U = T /\ F[U] = 0 /\ F[T] \in Nat
      BY <1>1, <2>1 DEF Adds
    <3> QED
      BY <3>1
  <2>2. CASE U # {}
    <3>1. PICK y \in U : TRUE
      BY <2>2
    <3>2. PICK V \in SUBSET U : V = U \ {y}
      OBVIOUS
    <3>3. /\ V \in C /\ V \in SUBSET S /\ y \in S \ V /\ U = V \cup {y}
      BY <1>4, <3>1, <3>2
    <3>4. PICK W \in SUBSET S, X \in SUBSET S : W = T \cup V /\ X = T \cup U
      BY <3>3
    <3>5. y \in S \ W /\ X = W \cup {y}
      BY <3>3, <3>4
    <3>6. F[U] = F[V] + g[y] /\ F[X] = F[W] + g[y]
      BY <1>1, <3>3, <3>4, <3>5 DEF Adds
    <3>7. F[W] = F[T] + F[V]
      BY <3>3, <3>4
    <3>8. F[T] \in Nat /\ F[V] \in Nat /\ g[y] \in Nat
      BY <1>1, <3>3 DEF Adds
    <3>9. F[X] = F[T] + F[U]
      BY <3>6, <3>7, <3>8
    <3> QED
      BY <3>4, <3>9
  <2> QED
    BY <2>1, <2>2
<1>5. R \in C
  <2>1. IsFiniteSet(R)
    BY FS_Difference
  <2> HIDE DEF C
  <2> QED
    BY <1>4, <2>1, CardinalInduction
<1>6. T \cup R = S
  OBVIOUS
<1>7. F[S] = F[T] + F[R]
  BY <1>5, <1>6
<1> QED
  BY <1>1, <1>3, <1>7 DEF Adds

\* One element weighs what it adds to the others.
LEMMA TotalRemove ==
    ASSUME NEW S, IsFiniteSet(S), NEW g, \A x \in S : g[x] \in Nat, NEW x \in S
    PROVE  /\ Total(g, S) = Total(g, S \ {x}) + g[x]
           /\ Total(g, S \ {x}) \in Nat
<1>1. PICK F : Adds(F, g, S)
  BY AddsExists
<1>2. PICK U \in SUBSET S : U = S \ {x}
  OBVIOUS
<1>3. x \in S \ U /\ S = U \cup {x} /\ S \in SUBSET S
  BY <1>2
<1>4. F[U] = Total(g, U) /\ F[S] = Total(g, S)
  BY <1>1, <1>3, TotalIs
<1>5. F[S] = F[U] + g[x] /\ F[U] \in Nat
  BY <1>1, <1>3 DEF Adds
<1> QED
  BY <1>2, <1>4, <1>5

\* What weighs the same adds up to the same.
LEMMA TotalSame ==
    ASSUME NEW S, IsFiniteSet(S), NEW g, \A x \in S : g[x] \in Nat,
           NEW h, \A x \in S : h[x] = g[x]
    PROVE  Total(h, S) = Total(g, S)
<1>1. PICK F : Adds(F, g, S)
  BY AddsExists
<1>2. Adds(F, h, S)
  BY <1>1 DEF Adds
<1>3. S \in SUBSET S /\ \A x \in S : h[x] \in Nat
  OBVIOUS
<1>4. F[S] = Total(g, S)
  BY <1>1, <1>3, TotalIs
<1>5. F[S] = Total(h, S)
  BY <1>2, <1>3, TotalIs
<1> QED
  BY <1>4, <1>5

\* Elements that weigh nothing do not count.
LEMMA TotalZero ==
    ASSUME NEW S, IsFiniteSet(S), NEW g, \A x \in S : g[x] = 0
    PROVE  Total(g, S) = 0
<1>1. PICK F : Adds(F, g, S)
  BY AddsExists
<1> DEFINE C == {T \in SUBSET S : F[T] = 0}
<1>2. ASSUME NEW T \in SUBSET S, \A U \in SUBSET T : U # T => U \in C PROVE T \in C
  <2>1. CASE T = {}
    BY <1>1, <2>1 DEF Adds
  <2>2. CASE T # {}
    <3>1. PICK y \in T : TRUE
      BY <2>2
    <3>2. PICK V \in SUBSET T : V = T \ {y}
      OBVIOUS
    <3>3. V \in C /\ y \in S \ V /\ T = V \cup {y}
      BY <1>2, <3>1, <3>2
    <3>4. F[T] = F[V] + g[y]
      BY <1>1, <3>3 DEF Adds
    <3> QED
      BY <3>3, <3>4
  <2> QED
    BY <2>1, <2>2
<1>3. S \in C
  <2> HIDE DEF C
  <2> QED
    BY <1>2, CardinalInduction
<1>4. F[S] = Total(g, S)
  <2>1. S \in SUBSET S /\ \A x \in S : g[x] \in Nat
    OBVIOUS
  <2> QED
    BY <1>1, <2>1, TotalIs
<1> QED
  BY <1>3, <1>4

\* Of weights that differ on two elements only, the totals differ by what the
\* two do.
LEMMA TotalOfPair ==
    ASSUME NEW S, IsFiniteSet(S), NEW g, \A x \in S : g[x] \in Nat,
           NEW h, \A x \in S : h[x] \in Nat,
           NEW a \in S, NEW b \in S, a # b,
           \A c \in S \ {a, b} : h[c] = g[c]
    PROVE  /\ Total(h, S) + (g[a] + g[b]) = Total(g, S) + (h[a] + h[b])
           /\ Total(h, S) \in Nat /\ Total(g, S) \in Nat
           /\ Total(g, S) >= g[a]
<1> DEFINE A == S \ {a}
           B == A \ {b}
<1>1. IsFiniteSet(A) /\ IsFiniteSet(B) /\ b \in A
  BY FS_RemoveElement
<1>2. /\ \A x \in A : g[x] \in Nat /\ h[x] \in Nat
      /\ \A x \in B : g[x] \in Nat /\ h[x] = g[x]
  OBVIOUS
<1>3. /\ Total(g, S) = Total(g, A) + g[a] /\ Total(g, A) \in Nat
      /\ Total(h, S) = Total(h, A) + h[a] /\ Total(h, A) \in Nat
  BY TotalRemove
<1> HIDE DEF A
<1>4. /\ Total(g, A) = Total(g, B) + g[b] /\ Total(g, B) \in Nat
      /\ Total(h, A) = Total(h, B) + h[b] /\ Total(h, B) \in Nat
  BY <1>1, <1>2, TotalRemove
<1> HIDE DEF B
<1>5. Total(h, B) = Total(g, B)
  BY <1>1, <1>2, TotalSame
<1> QED
  BY <1>3, <1>4, <1>5

\* And of weights that differ on one.
LEMMA TotalOfOne ==
    ASSUME NEW S, IsFiniteSet(S), NEW g, \A x \in S : g[x] \in Nat,
           NEW h, \A x \in S : h[x] \in Nat,
           NEW a \in S, \A c \in S \ {a} : h[c] = g[c]
    PROVE  /\ Total(h, S) + g[a] = Total(g, S) + h[a]
           /\ Total(h, S) \in Nat /\ Total(g, S) \in Nat
           /\ Total(g, S) >= g[a]
<1> DEFINE A == S \ {a}
<1>1. IsFiniteSet(A) /\ \A x \in A : g[x] \in Nat /\ h[x] = g[x]
  BY FS_RemoveElement
<1>2. /\ Total(g, S) = Total(g, A) + g[a] /\ Total(g, A) \in Nat
      /\ Total(h, S) = Total(h, A) + h[a]
  BY TotalRemove
<1> HIDE DEF A
<1>3. Total(h, A) = Total(g, A)
  BY <1>1, TotalSame
<1> QED
  BY <1>2, <1>3

\* The sum of the community modules, over the lamports of an account list.
Purse(s) == [a \in DOMAIN s |-> s[a].lamports]

\* Lamports, which chooses an order to add in, is the total.
LEMMA LamportsTotal ==
    ASSUME NEW s, NEW S \in SUBSET DOMAIN s, IsFiniteSet(S),
           \A a \in S : s[a].lamports \in Nat
    PROVE  Lamports(s, S) = Total(Purse(s), S)
<1> DEFINE g == Purse(s)
<1> DEFINE P(F) == F = [t \in SUBSET S |->
                          IF t = {} THEN 0
                          ELSE s[CHOOSE x \in t : TRUE].lamports
                               + F[t \ {CHOOSE x \in t : TRUE}]]
<1>1. \A x \in S : g[x] = s[x].lamports
  BY DEF Purse
<1> HIDE DEF g
<1>2. \A F : P(F) <=> Unfolds(F, g, S)
  <2>1. \A t \in SUBSET S :
          t # {} => g[CHOOSE x \in t : TRUE] = s[CHOOSE x \in t : TRUE].lamports
    BY <1>1
  <2> QED
    BY <2>1 DEF Unfolds
<1>3. Lamports(s, S) = (CHOOSE F : P(F))[S]
  BY DEF Lamports, MapThenSumSet, MapThenFoldSet
<1> HIDE DEF P
<1>4. PICK F : Adds(F, g, S)
  BY <1>1, AddsExists
<1>5. Unfolds(F, g, S)
  BY <1>1, <1>4, AddsUnfolds
<1>6. P(CHOOSE G : P(G))
  BY <1>2, <1>5
<1>7. PICK G : G = CHOOSE G0 : P(G0)
  OBVIOUS
<1>8. G[S] = F[S]
  BY <1>1, <1>2, <1>4, <1>6, <1>7, UnfoldsAdds
<1>9. F[S] = Total(g, S)
  BY <1>1, <1>4, TotalIs
<1> QED
  BY <1>3, <1>7, <1>8, <1>9 DEF g

-----------------------------------------------------------------------------
(* The lamports of a list.                                                 *)

\* A list of finitely many accounts whose lamports are naturals.
Ledger(s) ==
    IsFiniteSet(DOMAIN s) /\ \A a \in DOMAIN s : s[a].lamports \in Nat

\* The lamports of some of the accounts and of the others add up.
LEMMA LamportsSplit ==
    ASSUME NEW s, Ledger(s), NEW S \in SUBSET DOMAIN s
    PROVE  /\ Lamports(s, DOMAIN s) = Lamports(s, S) + Lamports(s, DOMAIN s \ S)
           /\ Lamports(s, S) \in Nat /\ Lamports(s, DOMAIN s \ S) \in Nat
<1> DEFINE D == DOMAIN s
<1> DEFINE g == Purse(s)
<1>1. \A x \in D : g[x] \in Nat /\ g[x] = s[x].lamports
  BY DEF Ledger, Purse
<1>2. IsFiniteSet(D) /\ IsFiniteSet(S) /\ IsFiniteSet(D \ S)
  BY FS_Subset, FS_Difference DEF Ledger
<1>3. \A T \in SUBSET D : IsFiniteSet(T) => Lamports(s, T) = Total(g, T)
  BY <1>1, LamportsTotal
<1> HIDE DEF g
<1>4. /\ Total(g, D) = Total(g, S) + Total(g, D \ S)
      /\ Total(g, S) \in Nat /\ Total(g, D \ S) \in Nat
  BY <1>1, <1>2, TotalSplit
<1> QED
  BY <1>2, <1>3, <1>4

\* No accounts hold no lamports, one holds its own.
LEMMA LamportsFew ==
    ASSUME NEW s, Ledger(s)
    PROVE  /\ Lamports(s, {}) = 0
           /\ \A a \in DOMAIN s : Lamports(s, {a}) = s[a].lamports
           /\ \A a, b \in DOMAIN s :
                 a # b => Lamports(s, {a, b}) = s[a].lamports + s[b].lamports
<1> DEFINE g == Purse(s)
<1>1. \A x \in DOMAIN s : g[x] \in Nat /\ g[x] = s[x].lamports
  BY DEF Ledger, Purse
<1>2. \A T \in SUBSET DOMAIN s : IsFiniteSet(T) => Lamports(s, T) = Total(g, T)
  BY <1>1, LamportsTotal
<1> HIDE DEF g
<1>3. IsFiniteSet({}) /\ \A a : IsFiniteSet({a})
  BY FS_EmptySet, FS_Singleton
<1>4. Lamports(s, {}) = 0
  BY <1>2, <1>3, TotalEmpty
<1>5. ASSUME NEW a \in DOMAIN s PROVE Lamports(s, {a}) = s[a].lamports
  <2>1. {a} \ {a} = {}
    OBVIOUS
  <2>2. Total(g, {a}) = Total(g, {}) + g[a]
    BY <1>1, <1>3, <2>1, TotalRemove
  <2>3. Total(g, {}) = 0
    BY TotalEmpty
  <2>4. {a} \in SUBSET DOMAIN s /\ IsFiniteSet({a}) /\ g[a] \in Nat
    BY <1>1, <1>3
  <2>5. Lamports(s, {a}) = Total(g, {a})
    BY <1>2, <2>4
  <2> QED
    BY <1>1, <2>2, <2>3, <2>4, <2>5
<1>6. ASSUME NEW a \in DOMAIN s, NEW b \in DOMAIN s, a # b
      PROVE  Lamports(s, {a, b}) = s[a].lamports + s[b].lamports
  <2>1. {a, b} \ {b} = {a} /\ {a, b} = {a} \cup {b}
    BY <1>6
  <2>2. IsFiniteSet({a} \cup {b})
    BY <1>3, FS_AddElement
  <2>3. IsFiniteSet({a, b})
    BY <2>1, <2>2
  <2>4. Total(g, {a, b}) = Total(g, {a}) + g[b]
    BY <1>1, <2>1, <2>3, TotalRemove
  <2>5. Total(g, {a}) = g[a]
    BY <1>1, <1>2, <1>3, <1>5
  <2> QED
    BY <1>1, <1>2, <2>3, <2>4, <2>5
<1> QED
  BY <1>4, <1>5, <1>6

\* Accounts with the same lamports hold the same together.
LEMMA LamportsSame ==
    ASSUME NEW s, NEW t, Ledger(s), DOMAIN t = DOMAIN s, NEW S \in SUBSET DOMAIN s,
           \A a \in S : t[a].lamports = s[a].lamports
    PROVE  Lamports(t, S) = Lamports(s, S)
<1>1. /\ IsFiniteSet(S)
      /\ \A a \in S : Purse(s)[a] \in Nat /\ Purse(t)[a] = Purse(s)[a]
      /\ \A a \in S : s[a].lamports \in Nat /\ t[a].lamports \in Nat
  BY FS_Subset DEF Ledger, Purse
<1>2. Total(Purse(t), S) = Total(Purse(s), S)
  BY <1>1, TotalSame
<1> QED
  BY <1>1, <1>2, LamportsTotal

\* Accounts without lamports hold none together.
LEMMA LamportsZero ==
    ASSUME NEW s, Ledger(s), NEW S \in SUBSET DOMAIN s, \A a \in S : s[a].lamports = 0
    PROVE  Lamports(s, S) = 0
<1>1. /\ IsFiniteSet(S)
      /\ \A a \in S : Purse(s)[a] = 0 /\ s[a].lamports \in Nat
  BY FS_Subset DEF Ledger, Purse
<1> QED
  BY <1>1, TotalZero, LamportsTotal

\* What a step adds to a list it adds to the accounts it works on.
LEMMA LamportsElsewhere ==
    ASSUME NEW s, NEW t, Ledger(s), Ledger(t), DOMAIN t = DOMAIN s,
           NEW S \in SUBSET DOMAIN s,
           \A a \in DOMAIN s \ S : t[a].lamports = s[a].lamports
    PROVE  /\ Lamports(t, DOMAIN t) + Lamports(s, S) = Lamports(s, DOMAIN s) + Lamports(t, S)
           /\ Lamports(t, DOMAIN t) \in Nat /\ Lamports(s, DOMAIN s) \in Nat
           /\ Lamports(t, S) \in Nat /\ Lamports(s, S) \in Nat
<1>1. PICK R \in SUBSET DOMAIN s : R = DOMAIN s \ S
  OBVIOUS
<1>2. Lamports(t, R) = Lamports(s, R)
  BY <1>1, LamportsSame
<1>3. /\ Lamports(s, DOMAIN s) = Lamports(s, S) + Lamports(s, R)
      /\ Lamports(t, DOMAIN s) = Lamports(t, S) + Lamports(t, R)
      /\ Lamports(s, S) \in Nat /\ Lamports(t, S) \in Nat /\ Lamports(s, R) \in Nat
  BY <1>1, LamportsSplit
<1> QED
  BY <1>2, <1>3

\* Two accounts that share what they had share it still.
LEMMA LamportsOfPair ==
    ASSUME NEW s, NEW t, Ledger(s), Ledger(t), DOMAIN t = DOMAIN s,
           NEW a \in DOMAIN s, NEW b \in DOMAIN s, a # b,
           \A c \in DOMAIN s \ {a, b} : t[c].lamports = s[c].lamports
    PROVE  /\ Lamports(t, DOMAIN t) + (s[a].lamports + s[b].lamports)
                = Lamports(s, DOMAIN s) + (t[a].lamports + t[b].lamports)
           /\ Lamports(t, DOMAIN t) \in Nat /\ Lamports(s, DOMAIN s) \in Nat
<1>1. {a, b} \in SUBSET DOMAIN s
  OBVIOUS
<1>2. /\ Lamports(s, {a, b}) = s[a].lamports + s[b].lamports
      /\ Lamports(t, {a, b}) = t[a].lamports + t[b].lamports
  BY LamportsFew
<1> QED
  BY <1>1, <1>2, LamportsElsewhere

\* Rule 2 over the whole list: what is more than before is what the accounts
\* just created hold.
LEMMA StrictTotal ==
    ASSUME NEW ms, NEW s, NEW t, Ledger(s), Ledger(t), DOMAIN t = DOMAIN s,
           Keys(ms) \subseteq DOMAIN s,
           \A a \in DOMAIN s \ Keys(ms) : t[a] = s[a],
           NEW prog, ValidPostState(prog, ms, s, t, "Strict")
    PROVE  /\ Lamports(t, DOMAIN t) = Lamports(s, DOMAIN s) + Lamports(t, Created(s, t))
           /\ Lamports(t, Created(s, t)) \in Nat
           /\ Lamports(s, DOMAIN s) \in Nat
<1>1. Created(s, t) \in SUBSET DOMAIN t
  BY DEF Created
<1>2. Lamports(t, Created(s, t)) \in Nat
  BY <1>1, LamportsSplit
<1>3. Lamports(s, Keys(ms)) + Lamports(t, Created(s, t)) = Lamports(t, Keys(ms))
  BY DEF ValidPostState, Conserved
<1>4. /\ Lamports(t, DOMAIN t) + Lamports(s, Keys(ms))
             = Lamports(s, DOMAIN s) + Lamports(t, Keys(ms))
      /\ Lamports(t, DOMAIN t) \in Nat /\ Lamports(s, DOMAIN s) \in Nat
      /\ Lamports(t, Keys(ms)) \in Nat /\ Lamports(s, Keys(ms)) \in Nat
  BY LamportsElsewhere
<1> QED
  BY <1>2, <1>3, <1>4

-----------------------------------------------------------------------------
(* What a program leaves in its copies and what that makes of the list.    *)

\* Where no key is passed twice, an account comes back as its only copy.
LEMMA MergeOnce ==
    ASSUME NEW ms \in Seq(Meta), NEW s, Keys(ms) \subseteq DOMAIN s, NEW v,
           \A i, j \in DOMAIN ms : ms[i].key = ms[j].key => i = j
    PROVE  /\ DOMAIN Merge(ms, s, v) = DOMAIN s
           /\ \A i \in DOMAIN ms : /\ ms[i].key \in DOMAIN s
                                   /\ Merge(ms, s, v)[ms[i].key] = v[i]
           /\ \A a \in DOMAIN s \ Keys(ms) : Merge(ms, s, v)[a] = s[a]
<1>1. ASSUME NEW i \in DOMAIN ms
      PROVE  ms[i].key \in DOMAIN s /\ Merge(ms, s, v)[ms[i].key] = v[i]
  <2>1. ms[i].key \in Keys(ms)
    BY DEF Keys
  <2>2. LastMeta(ms, ms[i].key) = i
    BY <2>1, LastMetaOfKey
  <2> QED
    BY <2>1, <2>2 DEF Merge
<1> QED
  BY <1>1 DEF Merge

\* Copies with the lamports they had make a list with the lamports it had,
\* keys repeated or not.
LEMMA CopiesAlike ==
    ASSUME NEW ms \in Seq(Meta), NEW s, Ledger(s), Keys(ms) \subseteq DOMAIN s, NEW v,
           \A i \in DOMAIN ms : v[i].lamports = Resolve(ms, s)[i].lamports
    PROVE  LET t == Merge(ms, s, v)
           IN  Lamports(t, DOMAIN t) = Lamports(s, DOMAIN s)
<1> DEFINE t == Merge(ms, s, v)
<1>1. DOMAIN t = DOMAIN s
  BY DEF Merge
<1>2. ASSUME NEW a \in DOMAIN s PROVE t[a].lamports = s[a].lamports
  <2>1. CASE a \notin Keys(ms)
    BY <2>1 DEF Merge
  <2>2. CASE a \in Keys(ms)
    <3>1. LastMeta(ms, a) \in DOMAIN ms /\ ms[LastMeta(ms, a)].key = a
      BY <2>2, LastMetaOfKey
    <3>2. t[a] = v[LastMeta(ms, a)]
      BY <2>2 DEF Merge
    <3> QED
      BY <3>1, <3>2 DEF Resolve
  <2> QED
    BY <2>1, <2>2
<1> HIDE DEF t
<1>3. Lamports(t, DOMAIN s) = Lamports(s, DOMAIN s)
  BY <1>1, <1>2, LamportsSame
<1> QED
  BY <1>1, <1>3 DEF t

\* An instruction with metas ms makes the list t of s, passes each key once
\* and leaves copies v, of which i and j alone have other lamports.
PairChanged(ms, s, v, t, i, j) ==
    /\ ms \in Seq(Meta) /\ Ledger(s) /\ Ledger(t)
    /\ Keys(ms) \subseteq DOMAIN s /\ t = Merge(ms, s, v)
    /\ \A k, l \in DOMAIN ms : ms[k].key = ms[l].key => k = l
    /\ i \in DOMAIN ms /\ j \in DOMAIN ms /\ i # j
    /\ \A k \in DOMAIN ms \ {i, j} : v[k].lamports = Resolve(ms, s)[k].lamports

\* It adds to the list what it adds to the two.
LEMMA TwoCopies ==
    ASSUME NEW ms, NEW s, NEW v, NEW t, NEW i, NEW j, PairChanged(ms, s, v, t, i, j)
    PROVE  LET w == Resolve(ms, s)
           IN  /\ Lamports(t, DOMAIN t) + (w[i].lamports + w[j].lamports)
                    = Lamports(s, DOMAIN s) + (v[i].lamports + v[j].lamports)
               /\ Lamports(t, DOMAIN t) \in Nat /\ Lamports(s, DOMAIN s) \in Nat
               /\ w[i].lamports \in Nat /\ w[j].lamports \in Nat
               /\ v[i].lamports \in Nat /\ v[j].lamports \in Nat
               /\ \E a \in DOMAIN s : t[a] = v[j]
<1> USE DEF PairChanged
<1> DEFINE w == Resolve(ms, s)
<1>1. PICK a \in DOMAIN s, b \in DOMAIN s : a = ms[i].key /\ b = ms[j].key
  BY MergeOnce
<1>2. a # b
  BY <1>1
<1>3. w[i] = s[a] /\ w[j] = s[b]
  BY <1>1 DEF Resolve
<1>4. t[a] = v[i] /\ t[b] = v[j] /\ DOMAIN t = DOMAIN s
  BY <1>1, MergeOnce
<1>5. ASSUME NEW c \in DOMAIN s \ {a, b} PROVE t[c].lamports = s[c].lamports
  <2>1. CASE c \notin Keys(ms)
    BY <2>1, MergeOnce
  <2>2. CASE c \in Keys(ms)
    <3>1. PICK k \in DOMAIN ms : c = ms[k].key
      BY <2>2 DEF Keys
    <3>2. k \in DOMAIN ms \ {i, j} /\ w[k] = s[c]
      BY <1>1, <3>1 DEF Resolve
    <3>3. t[c] = v[k]
      BY <3>1, MergeOnce
    <3> QED
      BY <3>2, <3>3
  <2> QED
    BY <2>1, <2>2
<1>6. /\ Lamports(t, DOMAIN t) + (s[a].lamports + s[b].lamports)
           = Lamports(s, DOMAIN s) + (t[a].lamports + t[b].lamports)
      /\ Lamports(t, DOMAIN t) \in Nat /\ Lamports(s, DOMAIN s) \in Nat
  BY <1>2, <1>4, <1>5, LamportsOfPair
<1>7. /\ s[a].lamports \in Nat /\ s[b].lamports \in Nat
      /\ t[a].lamports \in Nat /\ t[b].lamports \in Nat
  BY <1>4 DEF Ledger
<1> QED
  BY <1>3, <1>4, <1>6, <1>7

\* Where a copy pays another, each key passed once, the sum stays, unless the
\* payment is more than the other has room for.
LEMMA OnePays ==
    ASSUME NEW ms, NEW s, NEW v, NEW t, NEW i, NEW j, PairChanged(ms, s, v, t, i, j),
           NEW n \in Nat,
           v[i].lamports = Resolve(ms, s)[i].lamports - n,
           v[j].lamports = SatAdd(Resolve(ms, s)[j].lamports, n)
    PROVE  LET before == Lamports(s, DOMAIN s)
               after == Lamports(t, DOMAIN t)
           IN  \/ after = before
               \/ after < before /\ \E a \in DOMAIN s : t[a].lamports = U64Max
<1> DEFINE before == Lamports(s, DOMAIN s)
           after == Lamports(t, DOMAIN t)
           wi == Resolve(ms, s)[i].lamports
           wj == Resolve(ms, s)[j].lamports
           vi == v[i].lamports
           vj == v[j].lamports
<1>1. /\ after + (wi + wj) = before + (vi + vj)
      /\ after \in Nat /\ before \in Nat
      /\ wi \in Nat /\ wj \in Nat /\ vi \in Nat /\ vj \in Nat
      /\ \E a \in DOMAIN s : t[a] = v[j]
  BY TwoCopies
<1>2. vi = wi - n /\ vj = SatAdd(wj, n) /\ U64Max \in Nat
  BY AccountsAssumption
<1> HIDE DEF before, after, wi, wj, vi
<1>3. CASE wj + n <= U64Max
  <2>1. vj = wj + n
    BY <1>1, <1>2, <1>3 DEF SatAdd
  <2> HIDE DEF vj
  <2>2. after = before
    BY ONLY n \in Nat, <1>1, <1>2, <2>1
  <2> QED
    BY <2>2 DEF before, after
<1>4. CASE wj + n > U64Max
  <2>1. vj = U64Max
    BY <1>1, <1>2, <1>4 DEF SatAdd
  <2>2. \E a \in DOMAIN s : t[a].lamports = U64Max
    BY <1>1, <2>1
  <2> HIDE DEF vj
  <2>3. after < before
    BY ONLY n \in Nat, <1>1, <1>2, <1>4, <2>1
  <2> QED
    BY <2>2, <2>3 DEF before, after
<1> QED
  BY <1>1, <1>2, <1>3, <1>4
=============================================================================
