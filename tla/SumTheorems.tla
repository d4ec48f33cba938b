---------------------------- MODULE SumTheorems ----------------------------
(***************************************************************************)
(* What the proofs need to know of a sum over a finite set (MapThenSumSet  *)
(* of the community modules) and of the extremes of one.                   *)
(*                                                                         *)
(* A fold is defined by recursion over the subsets of the set, so each     *)
(* fact is an induction.  It is put as the choice of a least               *)
(* counterexample: strict inclusion is well founded on the subsets of a    *)
(* finite set.                                                             *)
(***************************************************************************)
EXTENDS FiniteSetsExt, FiniteSetTheorems, TLAPS

\* The sum of a function over a set.
SumOver(f, S) == MapThenSumSet(LAMBDA x : f[x], S)

\* The element a fold takes next.
Pick(s) == CHOOSE x \in s : TRUE

\* g adds up f over every subset of S, taking one element at a time.
Adds(g, f, S) ==
    g = [s \in SUBSET S |-> IF s = {} THEN 0 ELSE f[Pick(s)] + g[s \ {Pick(s)}]]

-----------------------------------------------------------------------------

\* The library's fold is the function that adds up, at the whole set.
LEMMA SumIsFold ==
    ASSUME NEW f, NEW S
    PROVE  SumOver(f, S) = (CHOOSE g : Adds(g, f, S))[S]
  BY DEF SumOver, MapThenSumSet, MapThenFoldSet, Adds, Pick

\* A set of finite sets that is not empty has a least one.
LEMMA LeastSet ==
    ASSUME NEW S, IsFiniteSet(S), NEW B, B \subseteq SUBSET S, B # {}
    PROVE  \E T \in B : \A U \in B : U \subseteq T => U = T
  <1>1. FiniteSubsetsOf(S) = SUBSET S
    BY FS_FiniteSubsetsOfFinite
  <1>2. IsWellFoundedOn(StrictSubsetOrdering(S), SUBSET S)
    BY <1>1, FS_StrictSubsetOrderingWellFounded
  <1>3. PICK T \in B : \A U \in B : <<U, T>> \notin StrictSubsetOrdering(S)
    BY <1>2, WFMin
  <1> QED
    BY <1>3 DEF StrictSubsetOrdering

\* Two functions that add up f agree where both are defined.
LEMMA AddsAgree ==
    ASSUME NEW f, NEW S, IsFiniteSet(S), NEW T, NEW g, Adds(g, f, S), NEW h, Adds(h, f, T),
           NEW u \in SUBSET S, u \in SUBSET T
    PROVE  g[u] = h[u]
  <1> DEFINE B == {v \in SUBSET S : v \in SUBSET T /\ g[v] # h[v]}
  <1> SUFFICES ASSUME B # {}
               PROVE  FALSE
    OBVIOUS
  <1>0. B \subseteq SUBSET S
    OBVIOUS
  <1>1. PICK v \in B : \A w \in B : w \subseteq v => w = v
    <2> HIDE DEF B
    <2> QED
      BY <1>0, LeastSet
  <1>2. v # {}
    BY DEF Adds
  <1>3. Pick(v) \in v
    BY <1>2 DEF Pick
  <1> DEFINE w == v \ {Pick(v)}
  <1>4. g[w] = h[w]
    BY <1>1, <1>3
  <1> HIDE DEF w
  <1>5. g[v] = f[Pick(v)] + g[w] /\ h[v] = f[Pick(v)] + h[w]
    BY <1>2 DEF Adds, w
  <1> QED
    BY <1>4, <1>5

\* There is a function that adds up f.  On a least set without one it would be
\* put together from those of the strict subsets, which agree.
LEMMA AddsExists ==
    ASSUME NEW f, NEW S, IsFiniteSet(S)
    PROVE  \E g : Adds(g, f, S)
  <1> DEFINE B == {T \in SUBSET S : ~ \E g : Adds(g, f, T)}
  <1> SUFFICES ASSUME B # {}
               PROVE  FALSE
    OBVIOUS
  <1>0. B \subseteq SUBSET S
    OBVIOUS
  <1>1. PICK T \in B : \A U \in B : U \subseteq T => U = T
    <2> HIDE DEF B
    <2> QED
      BY <1>0, LeastSet
  <1>2. T \in SUBSET S /\ ~ \E g : Adds(g, f, T)
    OBVIOUS
  <1>3. \A U \in SUBSET T : U # T => \E g : Adds(g, f, U)
    BY <1>1, <1>2
  <1> DEFINE Sub(U) == CHOOSE g : Adds(g, f, U)
             At(U) == IF U = {} THEN 0 ELSE f[Pick(U)] + Sub(U \ {Pick(U)})[U \ {Pick(U)}]
             h == [U \in SUBSET T |-> At(U)]
  <1>4. \A U \in SUBSET T : U # T => Adds(Sub(U), f, U)
    BY <1>3
  <1>5. ASSUME NEW U \in SUBSET T, U # {}
        PROVE  /\ U \ {Pick(U)} \in SUBSET T
               /\ U \ {Pick(U)} # T
               /\ U \ {Pick(U)} # U
    <2>1. Pick(U) \in U
      BY <1>5 DEF Pick
    <2> QED
      BY <2>1
  <1>6. ASSUME NEW U \in SUBSET T, U # T
        PROVE  At(U) = Sub(U)[U]
    <2> HIDE DEF Sub
    <2>1. Adds(Sub(U), f, U)
      BY <1>4, <1>6
    <2>2. CASE U = {}
      BY <2>1, <2>2 DEF Adds
    <2>3. CASE U # {}
      <3> DEFINE V == U \ {Pick(U)}
      <3>1. V \in SUBSET T /\ V # T /\ V \in SUBSET U /\ V \in SUBSET V
        BY <1>5, <2>3
      <3>2. Adds(Sub(V), f, V) /\ IsFiniteSet(U)
        BY <1>4, <3>1, <1>2, FS_Subset
      <3>3. Sub(U)[V] = Sub(V)[V]
        <4> HIDE DEF V
        <4> QED
          BY <2>1, <3>1, <3>2, AddsAgree
      <3>4. Sub(U)[U] = f[Pick(U)] + Sub(U)[V]
        BY <2>1, <2>3 DEF Adds
      <3> QED
        BY <2>3, <3>3, <3>4
    <2> QED
      BY <2>2, <2>3
  <1>7. ASSUME NEW U \in SUBSET T
        PROVE  h[U] = IF U = {} THEN 0 ELSE f[Pick(U)] + h[U \ {Pick(U)}]
    <2>1. CASE U = {}
      BY <2>1
    <2>2. CASE U # {}
      <3> DEFINE V == U \ {Pick(U)}
      <3>1. V \in SUBSET T /\ V # T
        BY <1>5, <2>2
      <3>2. At(V) = Sub(V)[V]
        <4> HIDE DEF V, At
        <4> QED
          BY <1>6, <3>1
      <3>3. h[V] = At(V)
        <4> HIDE DEF V, At
        <4> QED
          BY <3>1
      <3>4. h[U] = At(U)
        <4> HIDE DEF At
        <4> QED
          OBVIOUS
      <3>5. At(U) = f[Pick(U)] + Sub(V)[V]
        BY <2>2
      <3> HIDE DEF V, At, Sub, h
      <3> QED
        BY <2>2, <3>2, <3>3, <3>4, <3>5 DEF V
    <2> QED
      BY <2>1, <2>2
  <1>8. Adds(h, f, T)
    <2>1. h = [U \in SUBSET T |-> h[U]]
      OBVIOUS
    <2> HIDE DEF h
    <2> QED
      BY <1>7, <2>1 DEF Adds
  <1> QED
    BY <1>2, <1>8

\* So the fold does add up.
LEMMA SumAdds ==
    ASSUME NEW f, NEW S, IsFiniteSet(S)
    PROVE  \E g : Adds(g, f, S) /\ SumOver(f, S) = g[S]
  <1> DEFINE g == CHOOSE g : Adds(g, f, S)
  <1>1. Adds(g, f, S)
    BY AddsExists
  <1>2. SumOver(f, S) = g[S]
    BY SumIsFold
  <1> QED
    BY <1>1, <1>2

\* The empty sum.
LEMMA SumEmpty == \A f : SumOver(f, {}) = 0
  <1> SUFFICES ASSUME NEW f
               PROVE  SumOver(f, {}) = 0
    OBVIOUS
  <1>1. PICK g : Adds(g, f, {}) /\ SumOver(f, {}) = g[{}]
    BY SumAdds, FS_EmptySet
  <1> QED
    BY <1>1 DEF Adds

\* A sum is the element the fold takes plus the sum of the rest.
LEMMA SumPick ==
    ASSUME NEW f, NEW S, IsFiniteSet(S), S # {}
    PROVE  /\ Pick(S) \in S
           /\ SumOver(f, S) = f[Pick(S)] + SumOver(f, S \ {Pick(S)})
  <1> DEFINE R == S \ {Pick(S)}
  <1>1. Pick(S) \in S
    BY DEF Pick
  <1>2. PICK g : Adds(g, f, S) /\ SumOver(f, S) = g[S]
    BY SumAdds
  <1>3. R \in SUBSET S /\ R \in SUBSET R /\ IsFiniteSet(R)
    BY FS_Subset
  <1>4. PICK h : Adds(h, f, R) /\ SumOver(f, R) = h[R]
    BY <1>3, SumAdds
  <1>5. g[R] = h[R]
    BY <1>2, <1>3, <1>4, AddsAgree
  <1>6. g[S] = f[Pick(S)] + g[R]
    BY <1>2 DEF Adds
  <1> QED
    BY <1>1, <1>2, <1>4, <1>5, <1>6

\* A sum of integers is one.
LEMMA SumInt ==
    ASSUME NEW f, NEW S, IsFiniteSet(S), \A x \in S : f[x] \in Int
    PROVE  SumOver(f, S) \in Int
  <1> DEFINE B == {T \in SUBSET S : SumOver(f, T) \notin Int}
  <1> SUFFICES ASSUME B # {}
               PROVE  FALSE
    OBVIOUS
  <1>1. PICK T \in B : \A U \in B : U \subseteq T => U = T
    <2>1. B \subseteq SUBSET S
      OBVIOUS
    <2> HIDE DEF B
    <2> QED
      BY <2>1, LeastSet
  <1>2. IsFiniteSet(T) /\ T # {}
    <2>1. SumOver(f, {}) \in Int
      BY SumEmpty
    <2> QED
      BY <2>1, FS_Subset
  <1>3. Pick(T) \in T /\ SumOver(f, T) = f[Pick(T)] + SumOver(f, T \ {Pick(T)})
    BY <1>2, SumPick
  <1>4. SumOver(f, T \ {Pick(T)}) \in Int
    BY <1>1, <1>3
  <1> QED
    BY <1>3, <1>4

\* A sum of natural numbers is one.
LEMMA SumNat ==
    ASSUME NEW f, NEW S, IsFiniteSet(S), \A x \in S : f[x] \in Nat
    PROVE  SumOver(f, S) \in Nat
  <1> DEFINE B == {T \in SUBSET S : SumOver(f, T) \notin Nat}
  <1> SUFFICES ASSUME B # {}
               PROVE  FALSE
    OBVIOUS
  <1>1. PICK T \in B : \A U \in B : U \subseteq T => U = T
    <2>1. B \subseteq SUBSET S
      OBVIOUS
    <2> HIDE DEF B
    <2> QED
      BY <2>1, LeastSet
  <1>2. IsFiniteSet(T) /\ T # {}
    <2>1. SumOver(f, {}) \in Nat
      BY SumEmpty
    <2> QED
      BY <2>1, FS_Subset
  <1>3. Pick(T) \in T /\ SumOver(f, T) = f[Pick(T)] + SumOver(f, T \ {Pick(T)})
    BY <1>2, SumPick
  <1>4. SumOver(f, T \ {Pick(T)}) \in Nat
    BY <1>1, <1>3
  <1> QED
    BY <1>3, <1>4

\* A sum is any of its elements plus the sum of the rest: the order does not matter.
LEMMA SumRemove ==
    ASSUME NEW f, NEW S, IsFiniteSet(S), \A x \in S : f[x] \in Int, NEW x \in S
    PROVE  SumOver(f, S) = f[x] + SumOver(f, S \ {x})
  <1> DEFINE B == {T \in SUBSET S : \E y \in T : SumOver(f, T) # f[y] + SumOver(f, T \ {y})}
  <1> SUFFICES ASSUME B # {}
               PROVE  FALSE
    OBVIOUS
  <1>1. PICK T \in B : \A U \in B : U \subseteq T => U = T
    <2>1. B \subseteq SUBSET S
      OBVIOUS
    <2> HIDE DEF B
    <2> QED
      BY <2>1, LeastSet
  <1>2. PICK y \in T : SumOver(f, T) # f[y] + SumOver(f, T \ {y})
    OBVIOUS
  <1> DEFINE p == Pick(T)
             U == T \ {p}
             V == T \ {y}
             W == T \ {p, y}
  <1>3. IsFiniteSet(T) /\ T # {} /\ T \subseteq S
    BY FS_Subset
  <1>4. p \in T /\ SumOver(f, T) = f[p] + SumOver(f, U)
    BY <1>3, SumPick
  <1>5. p # y
    BY <1>2, <1>4
  <1>6. SumOver(f, U) = f[y] + SumOver(f, W)
    <2>1. U \notin B /\ U \in SUBSET S /\ y \in U /\ U \ {y} = W
      <3>1. U \subseteq T /\ U # T
        BY <1>4
      <3>2. U \notin B
        <4> HIDE DEF B, U
        <4> QED
          BY <1>1, <3>1
      <3> QED
        BY <1>3, <1>5, <3>2
    <2> HIDE DEF U, W
    <2> QED
      BY <2>1
  <1>7. SumOver(f, V) = f[p] + SumOver(f, W)
    <2>1. V \notin B /\ V \in SUBSET S /\ p \in V /\ V \ {p} = W
      <3>1. V \subseteq T /\ V # T
        BY <1>2
      <3>2. V \notin B
        <4> HIDE DEF B, V
        <4> QED
          BY <1>1, <3>1
      <3> QED
        BY <1>3, <1>4, <1>5, <3>2
    <2> HIDE DEF V, W, p
    <2> QED
      BY <2>1
  <1>8. SumOver(f, W) \in Int /\ f[p] \in Int /\ f[y] \in Int
    <2>1. IsFiniteSet(W) /\ W \subseteq S
      BY <1>3, FS_Subset
    <2> HIDE DEF W
    <2> QED
      BY <1>2, <1>3, <1>4, <2>1, SumInt
  <1> HIDE DEF p, U, V, W
  <1> QED
    BY <1>2, <1>4, <1>6, <1>7, <1>8 DEF V

\* The sum over a set with one element more.
LEMMA SumInsert ==
    ASSUME NEW f, NEW S, IsFiniteSet(S), NEW x, x \notin S, \A y \in S \cup {x} : f[y] \in Int
    PROVE  SumOver(f, S \cup {x}) = f[x] + SumOver(f, S)
  <1> DEFINE T == S \cup {x}
  <1>1. IsFiniteSet(T) /\ x \in T /\ T \ {x} = S
    BY FS_AddElement
  <1>2. \A y \in T : f[y] \in Int
    OBVIOUS
  <1> HIDE DEF T
  <1>3. SumOver(f, T) = f[x] + SumOver(f, T \ {x})
    BY <1>1, <1>2, SumRemove
  <1> QED
    BY <1>1, <1>3 DEF T

\* Functions that agree on a set have the same sum over it.
LEMMA SumSame ==
    ASSUME NEW f, NEW g, NEW S, IsFiniteSet(S), \A x \in S : f[x] = g[x]
    PROVE  SumOver(f, S) = SumOver(g, S)
  <1> DEFINE B == {T \in SUBSET S : SumOver(f, T) # SumOver(g, T)}
  <1> SUFFICES ASSUME B # {}
               PROVE  FALSE
    OBVIOUS
  <1>1. PICK T \in B : \A U \in B : U \subseteq T => U = T
    <2>1. B \subseteq SUBSET S
      OBVIOUS
    <2> HIDE DEF B
    <2> QED
      BY <2>1, LeastSet
  <1>2. IsFiniteSet(T) /\ T # {}
    BY FS_Subset, SumEmpty
  <1>3. /\ Pick(T) \in T
        /\ SumOver(f, T) = f[Pick(T)] + SumOver(f, T \ {Pick(T)})
        /\ SumOver(g, T) = g[Pick(T)] + SumOver(g, T \ {Pick(T)})
    BY <1>2, SumPick
  <1>4. SumOver(f, T \ {Pick(T)}) = SumOver(g, T \ {Pick(T)})
    BY <1>1, <1>3
  <1> QED
    BY <1>3, <1>4

\* A finite set of integers has a greatest element.
LEMMA HasMax ==
    ASSUME NEW S, IsFiniteSet(S), S # {}, \A x \in S : x \in Int
    PROVE  \E m \in S : \A x \in S : m >= x
  <1> DEFINE B == {T \in SUBSET S : T # {} /\ ~ \E m \in T : \A x \in T : m >= x}
  <1> SUFFICES ASSUME B # {}
               PROVE  FALSE
    OBVIOUS
  <1>1. PICK T \in B : \A U \in B : U \subseteq T => U = T
    <2>1. B \subseteq SUBSET S
      OBVIOUS
    <2> HIDE DEF B
    <2> QED
      BY <2>1, LeastSet
  <1>2. PICK p \in T : TRUE
    OBVIOUS
  <1>3. T \ {p} # {}
    OBVIOUS
  <1>4. PICK m \in T \ {p} : \A x \in T \ {p} : m >= x
    <2>1. T \ {p} \notin B
      <3> HIDE DEF B
      <3> QED
        BY <1>1, <1>2
    <2> QED
      BY <1>3, <2>1
  <1>5. m \in T /\ m \in Int /\ p \in Int
    OBVIOUS
  <1>6. CASE m >= p
    BY <1>4, <1>6
  <1>7. CASE p >= m
    BY <1>4, <1>5, <1>7
  <1> QED
    BY <1>5, <1>6, <1>7

\* Max finds it.
LEMMA MaxIsMax ==
    ASSUME NEW S, IsFiniteSet(S), S # {}, S \subseteq Int
    PROVE  /\ Max(S) \in S
           /\ \A x \in S : x <= Max(S)
  <1>1. Max(S) \in S /\ \A x \in S : Max(S) >= x
    BY HasMax DEF Max
  <1> QED
    BY <1>1

\* A finite set of integers has a least element.
LEMMA HasMin ==
    ASSUME NEW S, IsFiniteSet(S), S # {}, \A x \in S : x \in Int
    PROVE  \E m \in S : \A x \in S : m <= x
  <1> DEFINE B == {T \in SUBSET S : T # {} /\ ~ \E m \in T : \A x \in T : m <= x}
  <1> SUFFICES ASSUME B # {}
               PROVE  FALSE
    OBVIOUS
  <1>1. PICK T \in B : \A U \in B : U \subseteq T => U = T
    <2>1. B \subseteq SUBSET S
      OBVIOUS
    <2> HIDE DEF B
    <2> QED
      BY <2>1, LeastSet
  <1>2. PICK p \in T : TRUE
    OBVIOUS
  <1>3. T \ {p} # {}
    OBVIOUS
  <1>4. PICK m \in T \ {p} : \A x \in T \ {p} : m <= x
    <2>1. T \ {p} \notin B
      <3> HIDE DEF B
      <3> QED
        BY <1>1, <1>2
    <2> QED
      BY <1>3, <2>1
  <1>5. m \in T /\ m \in Int /\ p \in Int
    OBVIOUS
  <1>6. CASE m <= p
    BY <1>4, <1>6
  <1>7. CASE p <= m
    BY <1>4, <1>5, <1>7
  <1> QED
    BY <1>5, <1>6, <1>7

\* Min finds it.
LEMMA MinIsMin ==
    ASSUME NEW S, IsFiniteSet(S), S # {}, S \subseteq Int
    PROVE  /\ Min(S) \in S
           /\ \A x \in S : Min(S) <= x
  <1>1. Min(S) \in S /\ \A x \in S : Min(S) <= x
    BY HasMin DEF Min
  <1> QED
    BY <1>1

\* The extremes of two integers.
LEMMA MaxOfTwo ==
    ASSUME NEW x \in Int, NEW y \in Int
    PROVE  /\ Max({x, y}) = IF x >= y THEN x ELSE y
           /\ Min({x, y}) = IF x <= y THEN x ELSE y
  <1>1. IsFiniteSet({x, y}) /\ {x, y} \subseteq Int /\ {x, y} # {}
    <2>1. {x, y} = {x} \cup {y} /\ IsFiniteSet({x})
      BY FS_Singleton
    <2>2. IsFiniteSet({x} \cup {y})
      BY <2>1, FS_AddElement
    <2> QED
      BY <2>1, <2>2
  <1>2. Max({x, y}) \in {x, y} /\ \A z \in {x, y} : z <= Max({x, y})
    BY <1>1, MaxIsMax
  <1>3. Min({x, y}) \in {x, y} /\ \A z \in {x, y} : Min({x, y}) <= z
    BY <1>1, MinIsMin
  <1> QED
    BY <1>2, <1>3

-----------------------------------------------------------------------------

\* A sum over two disjoint sets is the sum over each.
LEMMA SumSplit ==
    ASSUME NEW f, NEW S, NEW T, IsFiniteSet(S), IsFiniteSet(T), S \cap T = {},
           \A x \in S \cup T : f[x] \in Int
    PROVE  SumOver(f, S \cup T) = SumOver(f, S) + SumOver(f, T)
  <1> DEFINE B == {U \in SUBSET T : SumOver(f, S \cup U) # SumOver(f, S) + SumOver(f, U)}
  <1> SUFFICES ASSUME B # {}
               PROVE  FALSE
    OBVIOUS
  <1>0. B \subseteq SUBSET T
    OBVIOUS
  <1>1. PICK U \in B : \A V \in B : V \subseteq U => V = U
    <2> HIDE DEF B
    <2> QED
      BY <1>0, LeastSet
  <1>2. U \subseteq T /\ SumOver(f, S \cup U) # SumOver(f, S) + SumOver(f, U)
    OBVIOUS
  <1>3. IsFiniteSet(U) /\ IsFiniteSet(S \cup U)
    BY <1>2, FS_Subset, FS_Union
  <1>4. U # {}
    <2>1. SumOver(f, S) \in Int /\ S \cup {} = S
      BY SumInt
    <2>2. CASE U = {}
      BY <1>2, <2>1, <2>2, SumEmpty
    <2> QED
      BY <2>2
  <1>5. PICK x : x \in U
    BY <1>4
  <1> DEFINE V == U \ {x}
  <1>6. V \notin B /\ V \subseteq T
    BY <1>1, <1>2, <1>5
  <1>7. SumOver(f, S \cup V) = SumOver(f, S) + SumOver(f, V)
    BY <1>6
  <1>8. SumOver(f, U) = f[x] + SumOver(f, V)
    BY <1>2, <1>3, <1>5, SumRemove
  <1>9. SumOver(f, S \cup U) = f[x] + SumOver(f, S \cup V)
    <2>1. (S \cup U) \ {x} = S \cup V /\ x \in S \cup U
      BY <1>2, <1>5
    <2>2. SumOver(f, S \cup U) = f[x] + SumOver(f, (S \cup U) \ {x})
      BY <1>2, <1>3, <2>1, SumRemove
    <2> QED
      BY <2>1, <2>2
  <1>10. f[x] \in Int /\ SumOver(f, S) \in Int /\ SumOver(f, V) \in Int
    <2>1. IsFiniteSet(V)
      BY <1>3, FS_Subset
    <2> QED
      BY <1>2, <1>5, <1>6, <2>1, SumInt
  <1> HIDE DEF V, B
  <1> QED
    BY <1>2, <1>7, <1>8, <1>9, <1>10

\* The sums of two functions, the one nowhere greater than the other.
LEMMA SumLeq ==
    ASSUME NEW f, NEW g, NEW S, IsFiniteSet(S),
           \A x \in S : f[x] \in Int /\ g[x] \in Int /\ f[x] <= g[x]
    PROVE  SumOver(f, S) <= SumOver(g, S)
  <1> DEFINE B == {T \in SUBSET S : ~(SumOver(f, T) <= SumOver(g, T))}
  <1> SUFFICES ASSUME B # {}
               PROVE  FALSE
    OBVIOUS
  <1>0. B \subseteq SUBSET S
    OBVIOUS
  <1>1. PICK T \in B : \A U \in B : U \subseteq T => U = T
    <2> HIDE DEF B
    <2> QED
      BY <1>0, LeastSet
  <1>2. T \subseteq S /\ ~(SumOver(f, T) <= SumOver(g, T)) /\ IsFiniteSet(T)
    BY FS_Subset
  <1>3. T # {}
    BY <1>2, SumEmpty
  <1>4. PICK x : x \in T
    BY <1>3
  <1> DEFINE U == T \ {x}
  <1>5. U \notin B /\ U \subseteq S
    BY <1>1, <1>2, <1>4
  <1>6. SumOver(f, U) <= SumOver(g, U)
    BY <1>5
  <1>7. SumOver(f, T) = f[x] + SumOver(f, U) /\ SumOver(g, T) = g[x] + SumOver(g, U)
    BY <1>2, <1>4, SumRemove
  <1>8. /\ f[x] \in Int /\ g[x] \in Int /\ f[x] <= g[x]
        /\ SumOver(f, U) \in Int /\ SumOver(g, U) \in Int
    <2>1. IsFiniteSet(U)
      BY <1>2, FS_Subset
    <2> QED
      BY <1>2, <1>4, <1>5, <2>1, SumInt
  <1> HIDE DEF U, B
  <1> QED
    BY <1>2, <1>6, <1>7, <1>8

\* The sum of the sum of two functions.
LEMMA SumPlus ==
    ASSUME NEW f, NEW g, NEW h, NEW S, IsFiniteSet(S),
           \A x \in S : f[x] \in Int /\ g[x] \in Int /\ h[x] = f[x] + g[x]
    PROVE  SumOver(h, S) = SumOver(f, S) + SumOver(g, S)
  <1> DEFINE B == {T \in SUBSET S : SumOver(h, T) # SumOver(f, T) + SumOver(g, T)}
  <1> SUFFICES ASSUME B # {}
               PROVE  FALSE
    OBVIOUS
  <1>0. B \subseteq SUBSET S
    OBVIOUS
  <1>1. PICK T \in B : \A U \in B : U \subseteq T => U = T
    <2> HIDE DEF B
    <2> QED
      BY <1>0, LeastSet
  <1>2. T \subseteq S /\ SumOver(h, T) # SumOver(f, T) + SumOver(g, T) /\ IsFiniteSet(T)
    BY FS_Subset
  <1>3. T # {}
    <2>1. SumOver(f, {}) = 0 /\ SumOver(g, {}) = 0 /\ SumOver(h, {}) = 0
      BY SumEmpty
    <2>2. CASE T = {}
      BY <1>2, <2>1, <2>2
    <2> QED
      BY <2>2
  <1>4. PICK x : x \in T
    BY <1>3
  <1> DEFINE U == T \ {x}
  <1>5. U \notin B /\ U \subseteq S
    BY <1>1, <1>2, <1>4
  <1>6. SumOver(h, U) = SumOver(f, U) + SumOver(g, U)
    BY <1>5
  <1>7. \A y \in S : h[y] \in Int
    OBVIOUS
  <1>8. /\ SumOver(f, T) = f[x] + SumOver(f, U)
        /\ SumOver(g, T) = g[x] + SumOver(g, U)
        /\ SumOver(h, T) = h[x] + SumOver(h, U)
    BY <1>2, <1>4, <1>7, SumRemove
  <1>9. /\ f[x] \in Int /\ g[x] \in Int /\ h[x] = f[x] + g[x]
        /\ SumOver(f, U) \in Int /\ SumOver(g, U) \in Int
    <2>1. IsFiniteSet(U)
      BY <1>2, FS_Subset
    <2> QED
      BY <1>2, <1>4, <1>5, <2>1, SumInt
  <1> HIDE DEF U, B
  <1> QED
    BY <1>2, <1>6, <1>8, <1>9

\* A sum can be taken part by part: g[t] is the sum of f over part[t], which is
\* what k puts at t.
LEMMA SumParts ==
    ASSUME NEW f, NEW S, IsFiniteSet(S), \A x \in S : f[x] \in Int,
           NEW k, NEW T, IsFiniteSet(T), \A x \in S : k[x] \in T,
           NEW part, \A t \in T : \A x : x \in part[t] <=> x \in S /\ k[x] = t,
           NEW g, \A t \in T : g[t] = SumOver(f, part[t])
    PROVE  SumOver(f, S) = SumOver(g, T)
  <1> DEFINE In(U) == {x \in S : k[x] \in U}
             B == {U \in SUBSET T : SumOver(f, In(U)) # SumOver(g, U)}
  <1>0. B \subseteq SUBSET T
    OBVIOUS
  <1>1. ASSUME B # {}
        PROVE  FALSE
    <2>1. PICK U \in B : \A V \in B : V \subseteq U => V = U
      <3> HIDE DEF B
      <3> QED
        BY <1>0, <1>1, LeastSet
    <2>2. U \subseteq T /\ SumOver(f, In(U)) # SumOver(g, U) /\ IsFiniteSet(U)
      BY FS_Subset
    <2>3. U # {}
      <3>1. In({}) = {}
        OBVIOUS
      <3> HIDE DEF In
      <3> QED
        BY <2>2, <3>1, SumEmpty
    <2>4. PICK t : t \in U
      BY <2>3
    <2> DEFINE V == U \ {t}
               W == part[t]
    <2>5. V \notin B /\ V \subseteq T
      BY <2>1, <2>2, <2>4
    <2>6. SumOver(f, In(V)) = SumOver(g, V)
      BY <2>5
    <2>7. In(U) = In(V) \cup W /\ In(V) \cap W = {} /\ In(V) \subseteq S /\ W \subseteq S
      <3>1. \A x : x \in W <=> x \in S /\ k[x] = t
        BY <2>2, <2>4
      <3> QED
        BY <2>4, <3>1
    <2>8. IsFiniteSet(In(V)) /\ IsFiniteSet(W) /\ \A x \in In(V) \cup W : f[x] \in Int
      BY <2>7, FS_Subset
    <2>9. g[t] = SumOver(f, W)
      BY <2>2, <2>4
    <2>10. \A u \in T : g[u] \in Int
      <3> TAKE u \in T
      <3>1. part[u] \subseteq S /\ IsFiniteSet(part[u]) /\ \A x \in part[u] : f[x] \in Int
        BY FS_Subset
      <3> QED
        BY <3>1, SumInt
    <2> HIDE DEF V, W, In, B
    <2>11. SumOver(f, In(U)) = SumOver(f, In(V)) + SumOver(f, W)
      BY <2>7, <2>8, SumSplit
    <2>12. SumOver(g, U) = g[t] + SumOver(g, V)
      BY <2>2, <2>4, <2>10, SumRemove DEF V
    <2>13. SumOver(f, In(V)) \in Int /\ SumOver(f, W) \in Int
      BY <2>8, SumInt
    <2> QED
      BY <2>2, <2>6, <2>9, <2>11, <2>12, <2>13
  <1>2. T \notin B
    BY <1>1
  <1>3. In(T) = S
    OBVIOUS
  <1> HIDE DEF In
  <1> QED
    BY <1>2, <1>3

\* A sum of naturals none of which is above m.
LEMMA SumBound ==
    ASSUME NEW f, NEW S, IsFiniteSet(S), NEW m \in Nat, \A x \in S : f[x] \in Nat /\ f[x] <= m
    PROVE  SumOver(f, S) <= m * Cardinality(S)
  <1> DEFINE B == {T \in SUBSET S : ~(SumOver(f, T) <= m * Cardinality(T))}
  <1> SUFFICES ASSUME B # {}
               PROVE  FALSE
    OBVIOUS
  <1>0. B \subseteq SUBSET S
    OBVIOUS
  <1>1. PICK T \in B : \A U \in B : U \subseteq T => U = T
    <2> HIDE DEF B
    <2> QED
      BY <1>0, LeastSet
  <1>2. T \subseteq S /\ ~(SumOver(f, T) <= m * Cardinality(T)) /\ IsFiniteSet(T)
    BY FS_Subset
  <1>3. T # {}
    <2>1. Cardinality({}) = 0 /\ SumOver(f, {}) = 0 /\ m * 0 = 0
      BY FS_EmptySet, SumEmpty
    <2> QED
      BY <1>2, <2>1
  <1>4. PICK x : x \in T
    BY <1>3
  <1> DEFINE U == T \ {x}
  <1>5. U \notin B /\ U \subseteq S
    BY <1>1, <1>2, <1>4
  <1>6. SumOver(f, U) <= m * Cardinality(U)
    BY <1>5
  <1>7. SumOver(f, T) = f[x] + SumOver(f, U)
    BY <1>2, <1>4, SumRemove
  <1>8. IsFiniteSet(U) /\ Cardinality(U) = Cardinality(T) - 1
        /\ Cardinality(T) \in Nat /\ Cardinality(U) \in Nat
    BY <1>2, <1>4, FS_RemoveElement, FS_CardinalityType
  <1>9. f[x] \in Nat /\ f[x] <= m /\ SumOver(f, U) \in Nat
    BY <1>2, <1>4, <1>5, <1>8, SumNat
  <1> HIDE DEF U, B
  <1>10. m * Cardinality(T) = m * Cardinality(U) + m /\ m * Cardinality(U) \in Nat
    <2>1. Cardinality(T) = Cardinality(U) + 1
      BY <1>8
    <2> QED
      BY <1>8, <2>1
  <1> QED
    BY <1>2, <1>6, <1>7, <1>9, <1>10

\* A sum of nothing but zeros.
LEMMA SumZero ==
    ASSUME NEW f, NEW S, IsFiniteSet(S), \A x \in S : f[x] = 0
    PROVE  SumOver(f, S) = 0
  <1>1. \A x \in S : f[x] \in Nat /\ f[x] <= 0
    OBVIOUS
  <1>2. SumOver(f, S) \in Nat
    BY <1>1, SumNat
  <1>3. SumOver(f, S) <= 0 * Cardinality(S)
    BY <1>1, SumBound
  <1>4. Cardinality(S) \in Nat
    BY FS_CardinalityType
  <1> QED
    BY <1>2, <1>3, <1>4

\* What is nothing outside of a part of a set sums to what it sums to there.
LEMMA SumWhere ==
    ASSUME NEW f, NEW g, NEW S, IsFiniteSet(S), NEW A, A \subseteq S,
           \A x \in A : f[x] \in Int /\ g[x] = f[x],
           \A x \in S \ A : g[x] = 0
    PROVE  SumOver(g, S) = SumOver(f, A)
  <1> DEFINE R == S \ A
  <1>1. IsFiniteSet(A) /\ IsFiniteSet(R) /\ A \cap R = {} /\ A \cup R = S
    BY FS_Subset
  <1>2. \A x \in A \cup R : g[x] \in Int
    OBVIOUS
  <1>3. \A x \in R : g[x] = 0
    OBVIOUS
  <1> HIDE DEF R
  <1>4. SumOver(g, A \cup R) = SumOver(g, A) + SumOver(g, R)
    BY <1>1, <1>2, SumSplit
  <1>5. SumOver(g, A) = SumOver(f, A)
    BY <1>1, SumSame
  <1>6. SumOver(g, R) = 0
    BY <1>1, <1>3, SumZero
  <1>7. SumOver(f, A) \in Int
    BY <1>1, SumInt
  <1>8. SumOver(g, S) = SumOver(g, A) + SumOver(g, R)
    <2>1. A \cup R = S
      BY <1>1
    <2> QED
      BY <1>4, <2>1, Zenon
  <1> QED
    BY <1>5, <1>6, <1>7, <1>8

\* A sum of multiples is the multiple of the sum.
LEMMA SumScale ==
    ASSUME NEW f, NEW g, NEW S, IsFiniteSet(S), NEW k \in Int,
           \A x \in S : f[x] \in Int /\ g[x] = k * f[x]
    PROVE  SumOver(g, S) = k * SumOver(f, S)
  <1> DEFINE B == {T \in SUBSET S : SumOver(g, T) # k * SumOver(f, T)}
  <1> SUFFICES ASSUME B # {}
               PROVE  FALSE
    OBVIOUS
  <1>0. B \subseteq SUBSET S
    OBVIOUS
  <1>1. PICK T \in B : \A U \in B : U \subseteq T => U = T
    <2> HIDE DEF B
    <2> QED
      BY <1>0, LeastSet
  <1>2. T \subseteq S /\ SumOver(g, T) # k * SumOver(f, T) /\ IsFiniteSet(T)
    BY FS_Subset
  <1>3. T # {}
    <2>1. SumOver(f, {}) = 0 /\ SumOver(g, {}) = 0 /\ k * 0 = 0
      BY SumEmpty
    <2> QED
      BY <1>2, <2>1
  <1>4. PICK x : x \in T
    BY <1>3
  <1> DEFINE U == T \ {x}
  <1>5. U \notin B /\ U \subseteq S
    BY <1>1, <1>2, <1>4
  <1>6. SumOver(g, U) = k * SumOver(f, U)
    BY <1>5
  <1>7. \A y \in S : g[y] \in Int
    <2>1. \A a \in Int : k * a \in Int
      OBVIOUS
    <2> QED
      BY <2>1
  <1>8. /\ SumOver(f, T) = f[x] + SumOver(f, U)
        /\ SumOver(g, T) = g[x] + SumOver(g, U)
    BY <1>2, <1>4, <1>7, SumRemove
  <1>9. f[x] \in Int /\ g[x] = k * f[x] /\ SumOver(f, U) \in Int
    <2>1. IsFiniteSet(U)
      BY <1>2, FS_Subset
    <2> QED
      BY <1>2, <1>4, <1>5, <2>1, SumInt
  <1>10. \A a, b \in Int : k * (a + b) = k * a + k * b
    OBVIOUS
  <1> HIDE DEF U, B
  <1> QED
    BY <1>2, <1>6, <1>8, <1>9, <1>10

\* A sum does not pass another by more than its terms pass those of the other.
LEMMA SumWithin ==
    ASSUME NEW f, NEW g, NEW d, NEW S, IsFiniteSet(S),
           \A x \in S : f[x] \in Int /\ g[x] \in Int /\ d[x] \in Int /\ g[x] <= f[x] + d[x]
    PROVE  SumOver(g, S) <= SumOver(f, S) + SumOver(d, S)
  <1> DEFINE h == [x \in S |-> f[x] + d[x]]
  <1>1. \A x \in S : h[x] = f[x] + d[x] /\ h[x] \in Int /\ g[x] <= h[x]
    OBVIOUS
  <1> HIDE DEF h
  <1>2. SumOver(h, S) = SumOver(f, S) + SumOver(d, S)
    BY <1>1, SumPlus
  <1>3. SumOver(g, S) <= SumOver(h, S)
    BY <1>1, SumLeq
  <1> QED
    BY <1>2, <1>3

\* A part of a set sums to no more than the set, where nothing is negative.
LEMMA SumPart ==
    ASSUME NEW f, NEW S, IsFiniteSet(S), NEW A, A \subseteq S, \A x \in S : f[x] \in Nat
    PROVE  SumOver(f, A) <= SumOver(f, S)
  <1> DEFINE R == S \ A
  <1>1. IsFiniteSet(A) /\ IsFiniteSet(R) /\ A \cap R = {} /\ A \cup R = S
    BY FS_Subset
  <1>2. /\ \A x \in A \cup R : f[x] \in Int
        /\ \A x \in A : f[x] \in Nat
        /\ \A x \in R : f[x] \in Nat
    OBVIOUS
  <1> HIDE DEF R
  <1>3. SumOver(f, A \cup R) = SumOver(f, A) + SumOver(f, R)
    BY <1>1, <1>2, SumSplit
  <1>4. SumOver(f, A) \in Nat /\ SumOver(f, R) \in Nat
    BY <1>1, <1>2, SumNat
  <1>5. A \cup R = S
    BY <1>1
  <1>6. SumOver(f, S) = SumOver(f, A) + SumOver(f, R)
    BY <1>3, <1>5, Zenon
  <1> QED
    BY <1>4, <1>6

=============================================================================
