-------------------------------- MODULE Sums --------------------------------
(***************************************************************************)
(* What SumFunctionOnSet of the community modules yields for the functions *)
(* of a finite set into the naturals. The sum is defined by a recursion    *)
(* over the subsets of the set, in the order in which CHOOSE takes its     *)
(* members: that the recursion has a solution, and what holds of its last  *)
(* value, follow by taking a smallest subset for which it does not hold.   *)
(***************************************************************************)
EXTENDS Functions, FiniteSetTheorems, TLAPS

\* The member that the sum of s takes first.
OneOf(s) == CHOOSE x \in s : TRUE

\* g gives the sums of f over the members of F, by the equation of the recursion.
SumsBy(g, f, F) ==
    g = [s \in F |-> IF s = {} THEN 0 ELSE f[OneOf(s)] + g[s \ {OneOf(s)}]]

\* The definition, with its LETs expanded.
LEMMA SumIs == ASSUME NEW f, NEW S
  PROVE SumFunctionOnSet(f, S) = (CHOOSE g : SumsBy(g, f, SUBSET S))[S]
  BY DEF SumFunctionOnSet, FoldFunctionOnSet, MapThenFoldSet, SumsBy, OneOf

\* Some member of a set of subsets of S contains no other.
LEMMA MinimalSet ==
    ASSUME NEW S, IsFiniteSet(S), NEW T, T \subseteq SUBSET S, T # {}
    PROVE  \E x \in T : \A y \in T : y \subseteq x => y = x
<1>1. IsWellFoundedOn(StrictSubsetOrdering(S), SUBSET S)
  BY FS_StrictSubsetOrderingWellFounded, FS_FiniteSubsetsOfFinite
<1>2. PICK x \in T : \A y \in T : <<y, x>> \notin StrictSubsetOrdering(S)
  BY <1>1, WFMin
<1> QED BY <1>2 DEF StrictSubsetOrdering

\* The subsets over which the recursion is built, one layer at a time.
Small(S, n) == {s \in SUBSET S : Cardinality(s) <= n}

LEMMA OneOfIsIn == ASSUME NEW s, s # {} PROVE OneOf(s) \in s
BY DEF OneOf

\* Sums over the sets of at most n members extend to those of n + 1.
LEMMA SumLayer ==
    ASSUME NEW S, IsFiniteSet(S), NEW f, NEW n \in Nat, NEW g, SumsBy(g, f, Small(S, n))
    PROVE  \E h : SumsBy(h, f, Small(S, n + 1))
<1> DEFINE F == Small(S, n)
           G == Small(S, n + 1)
           h == [s \in G |-> IF s = {} THEN 0 ELSE f[OneOf(s)] + g[s \ {OneOf(s)}]]
<1>1. \A s \in F : s \in G /\ h[s] = g[s]
  <2>1. \A s \in SUBSET S : Cardinality(s) \in Nat
    BY FS_Subset, FS_CardinalityType
  <2>2. F \subseteq G
    BY <2>1 DEF Small
  <2>3. \A s \in F : g[s] = IF s = {} THEN 0 ELSE f[OneOf(s)] + g[s \ {OneOf(s)}]
    BY DEF SumsBy
  <2> QED BY <2>2, <2>3
<1>2. ASSUME NEW s \in G, s # {} PROVE s \ {OneOf(s)} \in F
  <2>1. IsFiniteSet(s) /\ s \subseteq S /\ Cardinality(s) \in Nat
    BY FS_Subset, FS_CardinalityType DEF Small
  <2>2. Cardinality(s \ {OneOf(s)}) = Cardinality(s) - 1
    BY <1>2, <2>1, OneOfIsIn, FS_RemoveElement
  <2> QED BY <2>1, <2>2 DEF Small
<1>3. \A s \in G : h[s] = IF s = {} THEN 0 ELSE f[OneOf(s)] + h[s \ {OneOf(s)}]
  BY <1>1, <1>2
<1> HIDE DEF G
<1>4. h = [s \in G |-> IF s = {} THEN 0 ELSE f[OneOf(s)] + h[s \ {OneOf(s)}]]
  BY <1>3
<1> QED BY <1>4 DEF SumsBy, G

\* The recursion has a solution.
LEMMA SumExists ==
    ASSUME NEW S, IsFiniteSet(S), NEW f
    PROVE  \E g : SumsBy(g, f, SUBSET S)
<1> DEFINE Bad == {U \in SUBSET S : ~\E g : SumsBy(g, f, Small(S, Cardinality(U)))}
<1>c. \A s \in SUBSET S : IsFiniteSet(s) /\ Cardinality(s) \in Nat /\ Cardinality(s) <= Cardinality(S)
  BY FS_Subset, FS_CardinalityType
<1>1. Bad = {}
  <2> SUFFICES ASSUME Bad # {} PROVE FALSE
    OBVIOUS
  <2>1. PICK U \in Bad : \A y \in Bad : y \subseteq U => y = U
    <3>1. Bad \subseteq SUBSET S
      OBVIOUS
    <3> HIDE DEF Bad
    <3> QED BY <3>1, MinimalSet
  <2>2. CASE U = {}
    <3>1. Small(S, Cardinality(U)) = {{}}
      <4>1. Cardinality(U) = 0
        BY <2>2, FS_EmptySet
      <4>2. \A s \in SUBSET S : Cardinality(s) = 0 <=> s = {}
        BY <1>c, FS_EmptySet
      <4>3. \A s \in SUBSET S : Cardinality(s) <= 0 <=> s = {}
        BY <1>c, <4>2
      <4> QED BY <4>1, <4>3 DEF Small
    <3> DEFINE g == [s \in {{}} |-> 0]
    <3>2. g = [s \in {{}} |-> IF s = {} THEN 0 ELSE f[OneOf(s)] + g[s \ {OneOf(s)}]]
      OBVIOUS
    <3>3. SumsBy(g, f, {{}})
      BY <3>2 DEF SumsBy
    <3> QED BY <2>1, <3>1, <3>3
  <2>3. CASE U # {}
    <3> DEFINE V == U \ {OneOf(U)}
    <3>1. OneOf(U) \in U /\ V \in SUBSET S /\ V \subseteq U /\ V # U
      BY <2>3, OneOfIsIn
    <3>2. \E g : SumsBy(g, f, Small(S, Cardinality(V)))
      BY <2>1, <3>1
    <3>3. Cardinality(U) = Cardinality(V) + 1 /\ Cardinality(V) \in Nat
      BY <1>c, <3>1, FS_RemoveElement
    <3> QED BY <2>1, <3>2, <3>3, SumLayer
  <2> QED BY <2>2, <2>3
<1>2. \E g : SumsBy(g, f, Small(S, Cardinality(S)))
  BY <1>1
<1>3. Small(S, Cardinality(S)) = SUBSET S
  BY <1>c DEF Small
<1> QED BY <1>2, <1>3

\* The sum over S is the last value of a function that obeys the equation.
LEMMA SumDef ==
    ASSUME NEW S, IsFiniteSet(S), NEW f
    PROVE  \E g : /\ SumsBy(g, f, SUBSET S) /\ SumFunctionOnSet(f, S) = g[S]
  BY SumIs, SumExists

\* If each value of f is bounded by a combination of those of g and h, so is
\* its sum.
LEMMA SumBounded ==
    ASSUME NEW S, IsFiniteSet(S), NEW f \in [S -> Nat], NEW g \in [S -> Nat], NEW h \in [S -> Nat],
           NEW c \in Nat, NEW d \in Nat, \A x \in S : f[x] <= c * g[x] + d * h[x]
    PROVE  /\ SumFunctionOnSet(f, S) \in Nat
           /\ SumFunctionOnSet(f, S) <= c * SumFunctionOnSet(g, S) + d * SumFunctionOnSet(h, S)
<1>1. PICK sf : SumsBy(sf, f, SUBSET S) /\ SumFunctionOnSet(f, S) = sf[S]
  BY SumDef
<1>2. PICK sg : SumsBy(sg, g, SUBSET S) /\ SumFunctionOnSet(g, S) = sg[S]
  BY SumDef
<1>3. PICK sh : SumsBy(sh, h, SUBSET S) /\ SumFunctionOnSet(h, S) = sh[S]
  BY SumDef
<1> DEFINE OK(T) == /\ sf[T] \in Nat /\ sg[T] \in Nat /\ sh[T] \in Nat
                    /\ sf[T] <= c * sg[T] + d * sh[T]
           Bad == {T \in SUBSET S : ~OK(T)}
<1>4. ASSUME NEW a \in Nat, NEW b \in Nat, NEW e \in Nat, NEW a1 \in Nat, NEW b1 \in Nat, NEW e1 \in Nat,
             a <= c * b + d * e, a1 <= c * b1 + d * e1
      PROVE  a + a1 <= c * (b + b1) + d * (e + e1)
  BY <1>4
<1>5. ASSUME NEW T \in SUBSET S, T # {}, OK(T \ {OneOf(T)}) PROVE OK(T)
  <2> DEFINE x == OneOf(T)
             V == T \ {x}
  <2>1. x \in S /\ V \in SUBSET S
    BY <1>5, OneOfIsIn
  <2>2. /\ sf[T] = f[x] + sf[V] /\ sg[T] = g[x] + sg[V] /\ sh[T] = h[x] + sh[V]
    BY <1>1, <1>2, <1>3, <1>5 DEF SumsBy
  <2>3. /\ f[x] \in Nat /\ g[x] \in Nat /\ h[x] \in Nat /\ f[x] <= c * g[x] + d * h[x]
    BY <2>1
  <2> HIDE DEF x, V
  <2>4. f[x] + sf[V] <= c * (g[x] + sg[V]) + d * (h[x] + sh[V])
    BY <2>3, <1>4, <1>5 DEF V, x
  <2> QED BY <2>2, <2>3, <2>4, <1>5 DEF V, x
<1>6. OK({})
  BY <1>1, <1>2, <1>3 DEF SumsBy
<1>7. Bad = {}
  <2> SUFFICES ASSUME Bad # {} PROVE FALSE
    OBVIOUS
  <2>1. PICK T \in Bad : \A U \in Bad : U \subseteq T => U = T
    <3>1. Bad \subseteq SUBSET S
      OBVIOUS
    <3> HIDE DEF Bad
    <3> QED BY <3>1, MinimalSet
  <2>2. T # {}
    BY <1>6
  <2>3. T \ {OneOf(T)} \in SUBSET S /\ T \ {OneOf(T)} # T /\ T \ {OneOf(T)} \subseteq T
    BY <2>2, OneOfIsIn
  <2>4. OK(T \ {OneOf(T)})
    BY <2>1, <2>3
  <2> QED BY <2>1, <2>2, <2>4, <1>5
<1> QED BY <1>1, <1>2, <1>3, <1>7
=============================================================================
