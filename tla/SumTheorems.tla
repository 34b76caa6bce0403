---------------------------- MODULE SumTheorems ----------------------------
(***************************************************************************)
(* What the sum of a function over a finite set is, whatever the order in  *)
(* which the community modules fold it.                                    *)
(***************************************************************************)
EXTENDS Integers, FiniteSets, Functions, FiniteSetTheorems, WellFoundedInduction, TLAPS

Some(s) == CHOOSE x \in s : TRUE

Recurs(g, f, S) ==
    g = [s \in SUBSET S |-> IF s = {} THEN 0 ELSE f[Some(s)] + g[s \ {Some(s)}]]

-----------------------------------------------------------------------------
\* Induction over finite sets, without a predicate to instantiate: what fails
\* for some subset of S fails for a smallest one.
LEMMA Smallest ==
  ASSUME NEW S, IsFiniteSet(S), NEW F \in SUBSET SUBSET S, F # {}
  PROVE  \E T \in F : \A U \in F : U \subseteq T => U = T
<1>1. F \subseteq FiniteSubsetsOf(S)
  BY FS_FiniteSubsetsOfFinite
<1>2. IsWellFoundedOn(StrictSubsetOrdering(S), FiniteSubsetsOf(S))
  BY FS_StrictSubsetOrderingWellFounded
<1>3. PICK T \in F : \A U \in F : <<U, T>> \notin StrictSubsetOrdering(S)
  BY <1>1, <1>2, WFMin
<1>. QED BY <1>3 DEF StrictSubsetOrdering

LEMMA SomeIn == ASSUME NEW s, s # {} PROVE Some(s) \in s
BY DEF Some

LEMMA ByDefinition ==
  ASSUME NEW f, NEW S
  PROVE  SumFunctionOnSet(f, S) = (CHOOSE g : Recurs(g, f, S))[S]
BY DEF SumFunctionOnSet, FoldFunctionOnSet, MapThenFoldSet, Recurs, Some

LEMMA RecursAgree ==
  ASSUME NEW f, NEW S, NEW T, IsFiniteSet(S), NEW g, NEW h,
         Recurs(g, f, S), Recurs(h, f, T), NEW s, s \subseteq S, s \subseteq T
  PROVE  g[s] = h[s]
<1>. DEFINE F == {t \in SUBSET S : t \subseteq T /\ g[t] # h[t]}
<1>. SUFFICES ASSUME F # {} PROVE FALSE
  OBVIOUS
<1>0. F \in SUBSET SUBSET S
  OBVIOUS
<1>1. PICK t \in F : \A u \in F : u \subseteq t => u = t
  <2>. HIDE DEF F
  <2>. QED BY <1>0, Smallest
<1>2. CASE t = {}
  BY <1>2 DEF Recurs
<1>3. CASE t # {}
  <2>. DEFINE u == t \ {Some(t)}
  <2>1. u \subseteq t /\ u # t
    BY <1>3, SomeIn
  <2>2. g[u] = h[u]
    BY <2>1, <1>1
  <2>. QED BY <2>2, <1>3, <1>1 DEF Recurs
<1>. QED BY <1>2, <1>3

LEMMA SumEmpty == ASSUME NEW f PROVE SumFunctionOnSet(f, {}) = 0
<1>. DEFINE h == [s \in SUBSET {} |-> 0]
<1>1. Recurs(h, f, {})
  BY DEF Recurs
<1>2. Recurs(CHOOSE g : Recurs(g, f, {}), f, {})
  BY <1>1
<1>3. (CHOOSE g : Recurs(g, f, {}))[{}] = 0
  BY <1>2 DEF Recurs
<1>. QED BY <1>3, ByDefinition

\* The fold satisfies the recursion it is defined by.
LEMMA SumUnfolds ==
  ASSUME NEW f, NEW S, IsFiniteSet(S), S # {}
  PROVE  SumFunctionOnSet(f, S) = f[Some(S)] + SumFunctionOnSet(f, S \ {Some(S)})
<1>. DEFINE Step(t) == f[Some(t)] + SumFunctionOnSet(f, t \ {Some(t)})
            F == {t \in SUBSET S : t # {} /\ SumFunctionOnSet(f, t) # Step(t)}
<1>. SUFFICES ASSUME F # {} PROVE FALSE
  OBVIOUS
<1>0. F \in SUBSET SUBSET S
  OBVIOUS
<1>1. PICK T \in F : \A u \in F : u \subseteq T => u = T
  <2>. HIDE DEF F
  <2>. QED BY <1>0, Smallest
<1>. DEFINE h == [t \in SUBSET T |-> IF t = {} THEN 0 ELSE Step(t)]
<1>2. ASSUME NEW t \in SUBSET T, t # T
      PROVE  h[t] = SumFunctionOnSet(f, t)
  BY <1>1, <1>2, SumEmpty
<1>3. Recurs(h, f, T)
  <2>1. ASSUME NEW t \in SUBSET T, t # {}
        PROVE  h[t] = f[Some(t)] + h[t \ {Some(t)}]
    <3>1. t \ {Some(t)} \in SUBSET T /\ t \ {Some(t)} # T
      BY <2>1, SomeIn
    <3>2. h[t \ {Some(t)}] = SumFunctionOnSet(f, t \ {Some(t)})
      BY <3>1, <1>2
    <3>. QED BY <3>2, <2>1
  <2>2. h = [t \in SUBSET T |-> IF t = {} THEN 0 ELSE f[Some(t)] + h[t \ {Some(t)}]]
    <3>. HIDE DEF Step
    <3>. QED BY <2>1
  <2>. QED BY <2>2 DEF Recurs
<1>4. Recurs(CHOOSE g : Recurs(g, f, T), f, T)
  <2>. HIDE DEF h
  <2>. QED BY <1>3
<1>5. IsFiniteSet(T)
  BY FS_Subset
<1>6. SumFunctionOnSet(f, T) = h[T]
  <2>. HIDE DEF h
  <2>. QED BY <1>3, <1>4, <1>5, RecursAgree, ByDefinition
<1>. QED BY <1>6, <1>1

-----------------------------------------------------------------------------
\* A sum of integers is one.
LEMMA SumInt ==
  ASSUME NEW f, NEW S, IsFiniteSet(S), \A x \in S : f[x] \in Int
  PROVE  SumFunctionOnSet(f, S) \in Int
<1>. DEFINE F == {t \in SUBSET S : SumFunctionOnSet(f, t) \notin Int}
<1>. SUFFICES ASSUME F # {} PROVE FALSE
  OBVIOUS
<1>0. F \in SUBSET SUBSET S
  OBVIOUS
<1>1. PICK T \in F : \A u \in F : u \subseteq T => u = T
  <2>. HIDE DEF F
  <2>. QED BY <1>0, Smallest
<1>2. T # {}
  BY SumEmpty
<1>3. Some(T) \in T /\ SumFunctionOnSet(f, T \ {Some(T)}) \in Int
  BY <1>1, <1>2, SomeIn
<1>4. IsFiniteSet(T)
  BY FS_Subset
<1>. QED BY <1>1, <1>2, <1>3, <1>4, SumUnfolds

\* Any element may be taken out first.
LEMMA SumRemove ==
  ASSUME NEW f, NEW S, IsFiniteSet(S), \A x \in S : f[x] \in Int, NEW e \in S
  PROVE  SumFunctionOnSet(f, S) = f[e] + SumFunctionOnSet(f, S \ {e})
<1>. DEFINE Taken(t, x) == SumFunctionOnSet(f, t) = f[x] + SumFunctionOnSet(f, t \ {x})
            F == {t \in SUBSET S : \E x \in t : ~Taken(t, x)}
<1>. SUFFICES ASSUME F # {} PROVE FALSE
  OBVIOUS
<1>0. F \in SUBSET SUBSET S
  OBVIOUS
<1>1. PICK T \in F : \A u \in F : u \subseteq T => u = T
  <2>. HIDE DEF F
  <2>. QED BY <1>0, Smallest
<1>2. PICK x \in T : ~Taken(T, x)
  BY <1>1
<1>. DEFINE y == Some(T)
<1>3. IsFiniteSet(T) /\ y \in T /\ Taken(T, y)
  BY FS_Subset, SomeIn, SumUnfolds
<1>4. x # y
  BY <1>2, <1>3
<1>5. Taken(T \ {y}, x) /\ Taken(T \ {x}, y)
  <2>1. T \ {y} \in SUBSET S /\ T \ {x} \in SUBSET S /\ T \ {y} # T /\ T \ {x} # T
    BY <1>3
  <2>2. T \ {y} \notin F /\ T \ {x} \notin F
    <3>. HIDE DEF F
    <3>. QED BY <2>1, <1>1
  <2>3. x \in T \ {y} /\ y \in T \ {x}
    BY <1>3, <1>4
  <2>. QED BY <2>1, <2>2, <2>3
<1>6. (T \ {y}) \ {x} = (T \ {x}) \ {y}
  OBVIOUS
<1>7. SumFunctionOnSet(f, (T \ {x}) \ {y}) \in Int
  <2>1. IsFiniteSet((T \ {x}) \ {y})
    BY <1>3, FS_Subset
  <2>. QED BY <2>1, SumInt
<1>8. f[x] \in Int /\ f[y] \in Int
  BY <1>3
<1>. DEFINE U == (T \ {x}) \ {y}
<1>9. /\ SumFunctionOnSet(f, T) = f[y] + SumFunctionOnSet(f, T \ {y})
      /\ SumFunctionOnSet(f, T \ {y}) = f[x] + SumFunctionOnSet(f, U)
      /\ SumFunctionOnSet(f, T \ {x}) = f[y] + SumFunctionOnSet(f, U)
  BY <1>3, <1>5, <1>6
<1>10. SumFunctionOnSet(f, T) = f[x] + SumFunctionOnSet(f, T \ {x})
  <2>. HIDE DEF U, y, Taken, F
  <2>1. SumFunctionOnSet(f, U) \in Int
    BY <1>7 DEF U
  <2>. QED BY <1>8, <1>9, <2>1
<1>. QED BY <1>2, <1>10

LEMMA SumAdd ==
  ASSUME NEW f, NEW S, IsFiniteSet(S), \A x \in S : f[x] \in Int,
         NEW e, e \notin S, f[e] \in Int
  PROVE  SumFunctionOnSet(f, S \cup {e}) = f[e] + SumFunctionOnSet(f, S)
<1>1. IsFiniteSet(S \cup {e}) /\ (S \cup {e}) \ {e} = S
  BY FS_AddElement
<1>2. \A x \in S \cup {e} : f[x] \in Int
  OBVIOUS
<1>. QED BY <1>1, <1>2, SumRemove

\* Only the values on the set count.
LEMMA SumSame ==
  ASSUME NEW f, NEW g, NEW S, IsFiniteSet(S), \A x \in S : f[x] = g[x]
  PROVE  SumFunctionOnSet(f, S) = SumFunctionOnSet(g, S)
<1>. DEFINE F == {t \in SUBSET S : SumFunctionOnSet(f, t) # SumFunctionOnSet(g, t)}
<1>. SUFFICES ASSUME F # {} PROVE FALSE
  OBVIOUS
<1>0. F \in SUBSET SUBSET S
  OBVIOUS
<1>1. PICK T \in F : \A u \in F : u \subseteq T => u = T
  <2>. HIDE DEF F
  <2>. QED BY <1>0, Smallest
<1>2. T # {}
  BY SumEmpty
<1>3. /\ Some(T) \in T
      /\ SumFunctionOnSet(f, T \ {Some(T)}) = SumFunctionOnSet(g, T \ {Some(T)})
  BY <1>1, <1>2, SomeIn
<1>4. IsFiniteSet(T)
  BY FS_Subset
<1>. QED BY <1>1, <1>2, <1>3, <1>4, SumUnfolds

\* Summands may be compared one by one.
LEMMA SumMonotone ==
  ASSUME NEW f, NEW g, NEW S, IsFiniteSet(S),
         \A x \in S : f[x] \in Int /\ g[x] \in Int /\ f[x] <= g[x]
  PROVE  SumFunctionOnSet(f, S) <= SumFunctionOnSet(g, S)
<1>. DEFINE F == {t \in SUBSET S : ~(SumFunctionOnSet(f, t) <= SumFunctionOnSet(g, t))}
<1>. SUFFICES ASSUME F # {} PROVE FALSE
  OBVIOUS
<1>0. F \in SUBSET SUBSET S
  OBVIOUS
<1>1. PICK T \in F : \A u \in F : u \subseteq T => u = T
  <2>. HIDE DEF F
  <2>. QED BY <1>0, Smallest
<1>2. T # {}
  BY SumEmpty
<1>. DEFINE y == Some(T)
<1>3. y \in T /\ SumFunctionOnSet(f, T \ {y}) <= SumFunctionOnSet(g, T \ {y})
  BY <1>1, <1>2, SomeIn
<1>4. IsFiniteSet(T) /\ IsFiniteSet(T \ {y})
  BY FS_Subset, FS_RemoveElement
<1>5. SumFunctionOnSet(f, T \ {y}) \in Int /\ SumFunctionOnSet(g, T \ {y}) \in Int
  BY <1>4, SumInt
<1>6. /\ SumFunctionOnSet(f, T) = f[y] + SumFunctionOnSet(f, T \ {y})
      /\ SumFunctionOnSet(g, T) = g[y] + SumFunctionOnSet(g, T \ {y})
  BY <1>2, <1>4, SumUnfolds
<1>7. f[y] \in Int /\ g[y] \in Int /\ f[y] <= g[y]
  BY <1>3
<1>8. ~(SumFunctionOnSet(f, T) <= SumFunctionOnSet(g, T))
  OBVIOUS
<1>. HIDE DEF y, F
<1>. QED BY <1>3, <1>5, <1>6, <1>7, <1>8

\* What is bounded one by one is bounded together.
LEMMA SumAtMost ==
  ASSUME NEW f, NEW S, IsFiniteSet(S), NEW max \in Int,
         \A x \in S : f[x] \in Int /\ f[x] <= max
  PROVE  SumFunctionOnSet(f, S) <= Cardinality(S) * max
<1>. DEFINE F == {t \in SUBSET S : ~(SumFunctionOnSet(f, t) <= Cardinality(t) * max)}
<1>. SUFFICES ASSUME F # {} PROVE FALSE
  OBVIOUS
<1>0. F \in SUBSET SUBSET S
  OBVIOUS
<1>1. PICK T \in F : \A u \in F : u \subseteq T => u = T
  <2>. HIDE DEF F
  <2>. QED BY <1>0, Smallest
<1>2. T # {}
  <2>1. SumFunctionOnSet(f, {}) = 0 /\ Cardinality({}) = 0
    BY SumEmpty, FS_EmptySet
  <2>2. {} \notin F
    BY <2>1
  <2>. QED BY <2>2
<1>. DEFINE y == Some(T)
            n == Cardinality(T \ {y})
<1>3. y \in T /\ SumFunctionOnSet(f, T \ {y}) <= n * max
  BY <1>1, <1>2, SomeIn
<1>4. IsFiniteSet(T) /\ IsFiniteSet(T \ {y})
  BY FS_Subset, FS_RemoveElement
<1>5. SumFunctionOnSet(f, T \ {y}) \in Int
  BY <1>4, SumInt
<1>6. SumFunctionOnSet(f, T) = f[y] + SumFunctionOnSet(f, T \ {y})
  BY <1>2, <1>4, SumUnfolds
<1>7. n \in Nat /\ Cardinality(T) = n + 1
  <2>1. n \in Nat
    BY <1>4, FS_CardinalityType
  <2>2. n = Cardinality(T) - 1 /\ Cardinality(T) \in Nat
    BY <1>3, <1>4, FS_RemoveElement, FS_CardinalityType
  <2>. HIDE DEF n
  <2>. QED BY <2>1, <2>2
<1>8. (n + 1) * max = n * max + max
  <2>. HIDE DEF n
  <2>. QED BY <1>7
<1>9. f[y] \in Int /\ f[y] <= max /\ n * max \in Int
  BY <1>3, <1>7
<1>10. ~(SumFunctionOnSet(f, T) <= Cardinality(T) * max)
  OBVIOUS
<1>. HIDE DEF y, F, n
<1>. QED BY <1>3, <1>5, <1>6, <1>7, <1>8, <1>9, <1>10

LEMMA SumZero ==
  ASSUME NEW f, NEW S, IsFiniteSet(S), \A x \in S : f[x] = 0
  PROVE  SumFunctionOnSet(f, S) = 0
<1>. DEFINE F == {t \in SUBSET S : SumFunctionOnSet(f, t) # 0}
<1>. SUFFICES ASSUME F # {} PROVE FALSE
  OBVIOUS
<1>0. F \in SUBSET SUBSET S
  OBVIOUS
<1>3. PICK T \in F : \A u \in F : u \subseteq T => u = T
  <2>. HIDE DEF F
  <2>. QED BY <1>0, Smallest
<1>4. T # {}
  BY SumEmpty
<1>5. Some(T) \in T /\ SumFunctionOnSet(f, T \ {Some(T)}) = 0
  BY <1>3, <1>4, SomeIn
<1>6. IsFiniteSet(T)
  BY FS_Subset
<1>. QED BY <1>3, <1>4, <1>5, <1>6, SumUnfolds

\* Two disjoint parts.
LEMMA SumSplit ==
  ASSUME NEW f, NEW S, IsFiniteSet(S), \A x \in S : f[x] \in Int, NEW P \in SUBSET S
  PROVE  SumFunctionOnSet(f, S) = SumFunctionOnSet(f, P) + SumFunctionOnSet(f, S \ P)
<1>. DEFINE F == {t \in SUBSET S : SumFunctionOnSet(f, S) #
                                   SumFunctionOnSet(f, t) + SumFunctionOnSet(f, S \ t)}
<1>. SUFFICES ASSUME F # {} PROVE FALSE
  OBVIOUS
<1>0. F \in SUBSET SUBSET S
  OBVIOUS
<1>1. PICK T \in F : \A u \in F : u \subseteq T => u = T
  <2>. HIDE DEF F
  <2>. QED BY <1>0, Smallest
<1>2. T # {}
  <2>1. S \ {} = S /\ SumFunctionOnSet(f, S) \in Int
    BY SumInt
  <2>. QED BY <2>1, SumEmpty
<1>. DEFINE y == Some(T)
            U == T \ {y}
<1>3. /\ y \in T
      /\ SumFunctionOnSet(f, S) = SumFunctionOnSet(f, U) + SumFunctionOnSet(f, S \ U)
  BY <1>1, <1>2, SomeIn
<1>4. IsFiniteSet(T) /\ IsFiniteSet(S \ U) /\ IsFiniteSet(S \ T) /\ IsFiniteSet(U)
  BY FS_Subset
<1>5. SumFunctionOnSet(f, T) = f[y] + SumFunctionOnSet(f, U)
  BY <1>2, <1>4, SumUnfolds
<1>6. SumFunctionOnSet(f, S \ U) = f[y] + SumFunctionOnSet(f, S \ T)
  <2>1. y \in S \ U /\ (S \ U) \ {y} = S \ T
    BY <1>3
  <2>. QED BY <2>1, <1>4, SumRemove
<1>7. /\ SumFunctionOnSet(f, U) \in Int /\ SumFunctionOnSet(f, S \ T) \in Int
      /\ f[y] \in Int
  BY <1>3, <1>4, SumInt
<1>8. SumFunctionOnSet(f, S) # SumFunctionOnSet(f, T) + SumFunctionOnSet(f, S \ T)
  OBVIOUS
<1>. HIDE DEF y, F, U
<1>. QED BY <1>3, <1>5, <1>6, <1>7, <1>8

\* One summand at most differs from zero.
LEMMA SumSingle ==
  ASSUME NEW f, NEW S, IsFiniteSet(S), NEW e \in S, f[e] \in Int,
         \A x \in S \ {e} : f[x] = 0
  PROVE  SumFunctionOnSet(f, S) = f[e]
<1>1. \A x \in S : f[x] \in Int
  OBVIOUS
<1>2. IsFiniteSet(S \ {e})
  BY FS_RemoveElement
<1>3. SumFunctionOnSet(f, S \ {e}) = 0
  BY <1>2, SumZero
<1>. QED BY <1>1, <1>3, SumRemove

LEMMA SumNat ==
  ASSUME NEW f, NEW S, IsFiniteSet(S), \A x \in S : f[x] \in Nat
  PROVE  SumFunctionOnSet(f, S) \in Nat
<1>. DEFINE g == [x \in S |-> 0]
<1>1. SumFunctionOnSet(g, S) = 0
  BY SumZero
<1>2. SumFunctionOnSet(g, S) <= SumFunctionOnSet(f, S)
  BY SumMonotone
<1>3. SumFunctionOnSet(f, S) \in Int
  BY SumInt
<1>. QED BY <1>1, <1>2, <1>3

\* A sum of what is not negative is zero when each summand is.
LEMMA SumPositive ==
  ASSUME NEW f, NEW S, IsFiniteSet(S), \A x \in S : f[x] \in Nat, NEW e \in S, f[e] # 0
  PROVE  SumFunctionOnSet(f, S) > 0
<1>1. IsFiniteSet(S \ {e})
  BY FS_RemoveElement
<1>2. SumFunctionOnSet(f, S \ {e}) \in Nat
  BY <1>1, SumNat
<1>3. SumFunctionOnSet(f, S) = f[e] + SumFunctionOnSet(f, S \ {e})
  BY SumRemove
<1>. QED BY <1>2, <1>3

\* A part of what is not negative is not more.
LEMMA SumPart ==
  ASSUME NEW f, NEW S, IsFiniteSet(S), \A x \in S : f[x] \in Nat, NEW P \in SUBSET S
  PROVE  SumFunctionOnSet(f, P) <= SumFunctionOnSet(f, S)
<1>1. IsFiniteSet(S \ P) /\ IsFiniteSet(P)
  BY FS_Subset
<1>2. SumFunctionOnSet(f, S \ P) \in Nat /\ SumFunctionOnSet(f, P) \in Nat
  BY <1>1, SumNat
<1>3. SumFunctionOnSet(f, S) = SumFunctionOnSet(f, P) + SumFunctionOnSet(f, S \ P)
  BY SumSplit
<1>. QED BY <1>2, <1>3

\* What one summand gains the sum gains.
LEMMA SumUpdate ==
  ASSUME NEW f, NEW g, NEW S, IsFiniteSet(S), NEW e \in S,
         \A x \in S : f[x] \in Int /\ g[x] \in Int,
         \A x \in S \ {e} : g[x] = f[x]
  PROVE  SumFunctionOnSet(g, S) = SumFunctionOnSet(f, S) + g[e] - f[e]
<1>1. IsFiniteSet(S \ {e})
  BY FS_RemoveElement
<1>2. SumFunctionOnSet(g, S \ {e}) = SumFunctionOnSet(f, S \ {e})
  BY <1>1, SumSame
<1>3. SumFunctionOnSet(f, S \ {e}) \in Int
  BY <1>1, SumInt
<1>4. /\ SumFunctionOnSet(f, S) = f[e] + SumFunctionOnSet(f, S \ {e})
      /\ SumFunctionOnSet(g, S) = g[e] + SumFunctionOnSet(g, S \ {e})
  BY SumRemove
<1>. QED BY <1>2, <1>3, <1>4

\* The sum over an interval is that over the interval moved to 1.
LEMMA SumShift ==
  ASSUME NEW f, NEW g, NEW a \in Int, NEW n \in Nat,
         \A i \in 1..n : g[i] \in Int /\ f[a + i] = g[i]
  PROVE  SumFunctionOnSet(f, a + 1 .. a + n) = SumFunctionOnSet(g, 1..n)
<1>. DEFINE S == 1..n
            M(t) == {a + i : i \in t}
            F == {t \in SUBSET S : SumFunctionOnSet(f, M(t)) # SumFunctionOnSet(g, t)}
<1>1. IsFiniteSet(S) /\ IsFiniteSet(a + 1 .. a + n) /\ S \subseteq Int
  BY FS_Interval
<1>2. M(S) = a + 1 .. a + n
  <2>1. ASSUME NEW x \in a + 1 .. a + n PROVE x \in M(S)
    <3>1. x - a \in S /\ x = a + (x - a)
      OBVIOUS
    <3>. QED BY <3>1
  <2>2. M(S) \subseteq a + 1 .. a + n
    OBVIOUS
  <2>. QED BY <2>1, <2>2
<1>. SUFFICES ASSUME F # {} PROVE FALSE
  BY <1>2
<1>0. F \in SUBSET SUBSET S
  OBVIOUS
<1>3. PICK T \in F : \A u \in F : u \subseteq T => u = T
  <2>. HIDE DEF F, S, M
  <2>1. IsFiniteSet(S) /\ F # {}
    BY <1>1
  <2>. QED BY <1>0, <2>1, Smallest
<1>4. CASE T = {}
  <2>1. M(T) = {}
    BY <1>4
  <2>. QED BY <1>4, <2>1, SumEmpty
<1>5. CASE T # {}
  <2>1. PICK e \in T : TRUE
    BY <1>5
  <2>2. T \ {e} \notin F /\ T \in SUBSET S /\ T \ {e} \in SUBSET S /\ e \in S
    <3>1. T \ {e} # T /\ T \in SUBSET S
      OBVIOUS
    <3>. HIDE DEF F
    <3>. QED BY <1>3, <3>1
  <2>3. SumFunctionOnSet(f, M(T \ {e})) = SumFunctionOnSet(g, T \ {e})
    BY <2>2
  <2>4. IsFiniteSet(T) /\ IsFiniteSet(M(T))
    <3>1. M(T) \in SUBSET (a + 1 .. a + n)
      BY <2>2
    <3>. HIDE DEF M, S
    <3>. QED BY <1>1, <2>2, <3>1, FS_Subset
  <2>5. M(T) \ {a + e} = M(T \ {e}) /\ a + e \in M(T)
    <3>1. \A i \in T : i \in Int
      BY <2>2
    <3>. QED BY <3>1
  <2>6. (\A x \in M(T) : f[x] \in Int) /\ (\A x \in T : g[x] \in Int) /\ f[a + e] = g[e]
    BY <2>2
  <2>7. SumFunctionOnSet(g, T) = g[e] + SumFunctionOnSet(g, T \ {e})
    <3>1. \A x \in T : g[x] \in Int
      BY <2>6
    <3>. HIDE DEF M, S, F
    <3>. QED BY <2>4, <3>1, SumRemove
  <2>8. SumFunctionOnSet(f, M(T)) = f[a + e] + SumFunctionOnSet(f, M(T) \ {a + e})
    <3>. HIDE DEF M
    <3>. QED BY <2>4, <2>5, <2>6, SumRemove
  <2>9. SumFunctionOnSet(f, M(T)) = SumFunctionOnSet(g, T)
    <3>. HIDE DEF M, S, F
    <3>. QED BY <2>3, <2>5, <2>6, <2>7, <2>8
  <2>. QED BY <2>9
<1>. QED BY <1>4, <1>5

-----------------------------------------------------------------------------
LEMMA ImageFinite ==
  ASSUME NEW m, NEW S, IsFiniteSet(S)
  PROVE  IsFiniteSet({m[x] : x \in S})
<1>. DEFINE T == {m[x] : x \in S}
            h == [x \in S |-> m[x]]
<1>1. h \in Surjection(S, T)
  BY DEF Surjection
<1>. HIDE DEF T, h
<1>2. IsFiniteSet(T)
  BY <1>1, FS_Surjection
<1>. QED BY <1>2 DEF T

\* A sum over an image is one over what is mapped, when no two elements of
\* that are mapped to the same.
LEMMA SumImage ==
  ASSUME NEW f, NEW g, NEW m, NEW S, IsFiniteSet(S),
         \A x \in S : g[x] \in Int /\ f[m[x]] = g[x],
         \A x, y \in S : m[x] = m[y] => x = y
  PROVE  SumFunctionOnSet(f, {m[x] : x \in S}) = SumFunctionOnSet(g, S)
<1>. DEFINE M(t) == {m[x] : x \in t}
            F == {t \in SUBSET S : SumFunctionOnSet(f, M(t)) # SumFunctionOnSet(g, t)}
<1>. SUFFICES ASSUME F # {} PROVE FALSE
  OBVIOUS
<1>0. F \in SUBSET SUBSET S
  OBVIOUS
<1>1. PICK T \in F : \A u \in F : u \subseteq T => u = T
  <2>. HIDE DEF F
  <2>. QED BY <1>0, Smallest
<1>2. CASE T = {}
  BY <1>2, SumEmpty
<1>3. CASE T # {}
  <2>1. PICK e \in T : TRUE
    BY <1>3
  <2>2. T \ {e} \notin F /\ T \in SUBSET S /\ T \ {e} \in SUBSET S /\ e \in S
    <3>1. T \ {e} # T /\ T \in SUBSET S
      OBVIOUS
    <3>. HIDE DEF F
    <3>. QED BY <1>1, <3>1
  <2>3. SumFunctionOnSet(f, M(T \ {e})) = SumFunctionOnSet(g, T \ {e})
    BY <2>2
  <2>4. IsFiniteSet(T) /\ IsFiniteSet(M(T))
    BY <2>2, FS_Subset, ImageFinite
  <2>5. M(T) \ {m[e]} = M(T \ {e}) /\ m[e] \in M(T)
    BY <2>2
  <2>6. (\A x \in M(T) : f[x] \in Int) /\ (\A x \in T : g[x] \in Int) /\ f[m[e]] = g[e]
    BY <2>2
  <2>7. SumFunctionOnSet(g, T) = g[e] + SumFunctionOnSet(g, T \ {e})
    <3>1. \A x \in T : g[x] \in Int
      BY <2>6
    <3>. HIDE DEF M, F
    <3>. QED BY <2>4, <3>1, SumRemove
  <2>8. SumFunctionOnSet(f, M(T)) = f[m[e]] + SumFunctionOnSet(f, M(T) \ {m[e]})
    <3>. HIDE DEF M
    <3>. QED BY <2>4, <2>5, <2>6, SumRemove
  <2>9. SumFunctionOnSet(f, M(T)) = SumFunctionOnSet(g, T)
    <3>. HIDE DEF M, F
    <3>. QED BY <2>3, <2>5, <2>6, <2>7, <2>8
  <2>. QED BY <2>9
<1>. QED BY <1>2, <1>3

\* The sum of the same over and over.
LEMMA SumConstant ==
  ASSUME NEW f, NEW S, IsFiniteSet(S), NEW c \in Int, \A x \in S : f[x] = c
  PROVE  SumFunctionOnSet(f, S) = c * Cardinality(S)
<1>. DEFINE F == {t \in SUBSET S : SumFunctionOnSet(f, t) # c * Cardinality(t)}
<1>. SUFFICES ASSUME F # {} PROVE FALSE
  OBVIOUS
<1>0. F \in SUBSET SUBSET S
  OBVIOUS
<1>1. PICK T \in F : \A u \in F : u \subseteq T => u = T
  <2>. HIDE DEF F
  <2>. QED BY <1>0, Smallest
<1>2. T # {}
  <2>1. SumFunctionOnSet(f, {}) = 0 /\ Cardinality({}) = 0 /\ c * 0 = 0
    BY SumEmpty, FS_EmptySet
  <2>2. {} \notin F
    BY <2>1
  <2>. QED BY <2>2
<1>. DEFINE y == Some(T)
            n == Cardinality(T \ {y})
<1>3. y \in T /\ SumFunctionOnSet(f, T \ {y}) = c * n
  BY <1>1, <1>2, SomeIn
<1>4. IsFiniteSet(T) /\ IsFiniteSet(T \ {y})
  BY FS_Subset, FS_RemoveElement
<1>5. SumFunctionOnSet(f, T) = c + SumFunctionOnSet(f, T \ {y})
  BY <1>2, <1>3, <1>4, SumUnfolds
<1>6. n \in Nat /\ Cardinality(T) = n + 1
  <2>1. n \in Nat
    BY <1>4, FS_CardinalityType
  <2>2. n = Cardinality(T) - 1 /\ Cardinality(T) \in Nat
    BY <1>3, <1>4, FS_RemoveElement, FS_CardinalityType
  <2>. HIDE DEF n
  <2>. QED BY <2>1, <2>2
<1>7. c * (n + 1) = c + c * n
  <2>. HIDE DEF n
  <2>. QED BY <1>6
<1>8. SumFunctionOnSet(f, T) = c * Cardinality(T)
  <2>. HIDE DEF n, y, F
  <2>. QED BY <1>3, <1>5, <1>6, <1>7
<1>. QED BY <1>8

-----------------------------------------------------------------------------
\* A finite set has an element where an integer function is greatest.
LEMMA Greatest ==
  ASSUME NEW f, NEW S, IsFiniteSet(S), S # {}, \A x \in S : f[x] \in Int
  PROVE  \E x \in S : \A y \in S : f[y] <= f[x]
<1>. DEFINE F == {t \in SUBSET S : t # {} /\ ~\E x \in t : \A y \in t : f[y] <= f[x]}
<1>. SUFFICES ASSUME F # {} PROVE FALSE
  OBVIOUS
<1>0. F \in SUBSET SUBSET S
  OBVIOUS
<1>1. PICK T \in F : \A u \in F : u \subseteq T => u = T
  <2>. HIDE DEF F
  <2>. QED BY <1>0, Smallest
<1>2. PICK e \in T : TRUE
  OBVIOUS
<1>3. T \ {e} \notin F /\ T \ {e} \in SUBSET S
  <2>1. T \ {e} # T /\ T \in SUBSET S
    OBVIOUS
  <2>. HIDE DEF F
  <2>. QED BY <1>1, <2>1
<1>4. CASE T = {e}
  BY <1>4
<1>5. CASE T # {e}
  <2>1. T \ {e} # {}
    BY <1>5
  <2>2. PICK x \in T \ {e} : \A y \in T \ {e} : f[y] <= f[x]
    BY <1>3, <2>1
  <2>3. f[e] \in Int /\ f[x] \in Int
    OBVIOUS
  <2>4. CASE f[e] <= f[x]
    BY <2>2, <2>4
  <2>5. CASE f[x] <= f[e]
    BY <2>2, <2>5
  <2>. QED BY <2>3, <2>4, <2>5
<1>. QED BY <1>4, <1>5
LEMMA LeastOf ==
  ASSUME NEW S \in SUBSET Int, IsFiniteSet(S), S # {}
  PROVE  \E x \in S : \A y \in S : x <= y
<1>. DEFINE f == [x \in S |-> -x]
<1>1. \A x \in S : f[x] \in Int
  OBVIOUS
<1>2. PICK x \in S : \A y \in S : f[y] <= f[x]
  <2>. HIDE DEF f
  <2>. QED BY <1>1, Greatest
<1>3. \A y \in S : x <= y
  <2>1. \A a, b \in Int : -a <= -b => b <= a
    OBVIOUS
  <2>. QED BY <1>2, <2>1
<1>. QED BY <1>3

\* What holds at 0 and is handed on from each number below n to the next holds
\* up to n: a set of numbers takes the place of the predicate.
LEMMA UpFromZero ==
  ASSUME NEW n \in Nat, NEW H, 0 \in H, \A k \in 0..n : k < n /\ k \in H => k + 1 \in H
  PROVE  0..n \subseteq H
<1>. DEFINE B == {k \in 0..n : k \notin H}
<1>. SUFFICES ASSUME B # {} PROVE FALSE
  OBVIOUS
<1>1. IsFiniteSet(B) /\ B \in SUBSET Int
  <2>1. IsFiniteSet(0..n) /\ B \subseteq 0..n /\ 0..n \subseteq Int
    BY FS_Interval
  <2>. HIDE DEF B
  <2>. QED BY <2>1, FS_Subset
<1>2. PICK k \in B : \A y \in B : k <= y
  <2>. HIDE DEF B
  <2>. QED BY <1>1, LeastOf
<1>3. k \in 0..n /\ k # 0
  OBVIOUS
<1>4. k - 1 \in 0..n /\ k - 1 < n /\ (k - 1) + 1 = k /\ ~(k <= k - 1)
  BY <1>3
<1>5. k - 1 \in H
  BY <1>2, <1>4
<1>. QED BY <1>4, <1>5

\* f holds the iterates of H from first, up to the n-th.
Iterates(f, n, first, H) == f = [k \in 0..n |-> IF k = 0 THEN first ELSE H[f[k - 1]]]

\* A function on 0..n may be defined by its first value and a step.
LEMMA Recursion ==
  ASSUME NEW n \in Nat, NEW first, NEW H
  PROVE  \E f : Iterates(f, n, first, H)
<1>. DEFINE Runs(f, m) == f = [k \in 0..m |-> IF k = 0 THEN first ELSE H[f[k - 1]]]
            Good == {m \in Nat : \E f : Runs(f, m)}
<1>1. 0 \in Good
  <2>. DEFINE f == [k \in 0..0 |-> first]
  <2>1. \A k \in 0..0 : k = 0
    OBVIOUS
  <2>2. Runs(f, 0)
    BY <2>1
  <2>. QED BY <2>2
<1>2. ASSUME NEW m \in 0..n, m \in Good PROVE m + 1 \in Good
  <2>1. PICK f : Runs(f, m)
    BY <1>2
  <2>. DEFINE g == [k \in 0..m + 1 |-> IF k = m + 1 THEN H[f[m]] ELSE f[k]]
  <2>2. m \in Nat /\ m + 1 \in Nat
    OBVIOUS
  <2>3. ASSUME NEW k \in 0..m + 1
        PROVE  g[k] = IF k = 0 THEN first ELSE H[g[k - 1]]
    <3>1. CASE k = m + 1
      <4>1. k # 0 /\ k - 1 = m /\ m # m + 1 /\ m \in 0..m + 1
        BY <3>1, <2>2
      <4>. QED BY <3>1, <4>1
    <3>2. CASE k # m + 1
      <4>1. k \in 0..m
        BY <3>2, <2>2
      <4>2. g[k] = f[k] /\ f[k] = IF k = 0 THEN first ELSE H[f[k - 1]]
        BY <3>2, <4>1, <2>1
      <4>3. k # 0 => k - 1 \in 0..m + 1 /\ k - 1 # m + 1
        BY <4>1
      <4>4. k # 0 => g[k - 1] = f[k - 1]
        BY <4>3
      <4>. QED BY <4>2, <4>4
    <3>. QED BY <3>1, <3>2
  <2>4. g = [k \in 0..m + 1 |-> IF k = 0 THEN first ELSE H[g[k - 1]]]
    <3>1. g = [k \in 0..m + 1 |-> g[k]]
      OBVIOUS
    <3>. HIDE DEF g
    <3>. QED BY <2>3, <3>1
  <2>. HIDE DEF g
  <2>. QED BY <2>2, <2>4
<1>3. 0..n \subseteq Good
  <2>. HIDE DEF Good
  <2>. QED BY <1>1, <1>2, UpFromZero
<1>4. n \in Good
  <2>1. n \in 0..n
    OBVIOUS
  <2>. QED BY <1>3, <2>1
<1>. QED BY <1>4 DEF Iterates

\* Sums add up.
LEMMA SumPlus ==
  ASSUME NEW f, NEW g, NEW h, NEW S, IsFiniteSet(S),
         \A x \in S : f[x] \in Int /\ g[x] \in Int /\ h[x] = f[x] + g[x]
  PROVE  SumFunctionOnSet(h, S) = SumFunctionOnSet(f, S) + SumFunctionOnSet(g, S)
<1>. DEFINE Bad == {t \in SUBSET S : SumFunctionOnSet(h, t) # SumFunctionOnSet(f, t) + SumFunctionOnSet(g, t)}
<1>. SUFFICES ASSUME Bad # {} PROVE FALSE
  <2>1. S \in SUBSET S
    OBVIOUS
  <2>. QED BY <2>1
<1>1. Bad \in SUBSET SUBSET S
  OBVIOUS
<1>2. PICK t \in Bad : \A U \in Bad : U \subseteq t => U = t
  <2>. HIDE DEF Bad
  <2>. QED BY <1>1, Smallest
<1>3. IsFiniteSet(t) /\ t \subseteq S
  BY <1>2, FS_Subset
<1>4. t # {}
  <2>1. /\ SumFunctionOnSet(f, {}) = 0 /\ SumFunctionOnSet(g, {}) = 0 /\ SumFunctionOnSet(h, {}) = 0
    BY SumEmpty
  <2>2. SumFunctionOnSet(h, {}) = SumFunctionOnSet(f, {}) + SumFunctionOnSet(g, {})
    BY ONLY <2>1
  <2>. QED BY <1>2, <2>2
<1>5. PICK e \in t : TRUE
  BY <1>4
<1>6. t \ {e} \notin Bad /\ t \ {e} \subseteq S /\ IsFiniteSet(t \ {e})
  <2>. HIDE DEF Bad
  <2>. QED BY <1>2, <1>3, <1>5, FS_Subset
<1>7. SumFunctionOnSet(h, t \ {e}) = SumFunctionOnSet(f, t \ {e}) + SumFunctionOnSet(g, t \ {e})
  BY <1>6
<1>8. /\ SumFunctionOnSet(f, t) = f[e] + SumFunctionOnSet(f, t \ {e})
      /\ SumFunctionOnSet(g, t) = g[e] + SumFunctionOnSet(g, t \ {e})
      /\ SumFunctionOnSet(h, t) = h[e] + SumFunctionOnSet(h, t \ {e})
  BY <1>3, SumRemove
<1>9. SumFunctionOnSet(f, t \ {e}) \in Int /\ SumFunctionOnSet(g, t \ {e}) \in Int
  BY <1>3, <1>6, SumInt
<1>10. f[e] \in Int /\ g[e] \in Int /\ h[e] = f[e] + g[e]
  BY <1>3
<1>11. SumFunctionOnSet(h, t) = SumFunctionOnSet(f, t) + SumFunctionOnSet(g, t)
  BY ONLY <1>7, <1>8, <1>9, <1>10
<1>. QED BY <1>2, <1>11

LEMMA SumNegative ==
  ASSUME NEW f, NEW g, NEW S, IsFiniteSet(S), \A x \in S : f[x] \in Int /\ g[x] = -f[x]
  PROVE  SumFunctionOnSet(g, S) = -SumFunctionOnSet(f, S)
<1>. DEFINE z == [x \in S |-> 0]
<1>1. \A x \in S : f[x] \in Int /\ g[x] \in Int /\ z[x] = f[x] + g[x]
  OBVIOUS
<1>2. \A x \in S : z[x] = 0
  OBVIOUS
<1>. HIDE DEF z
<1>3. SumFunctionOnSet(z, S) = 0
  BY <1>2, SumZero
<1>4. SumFunctionOnSet(z, S) = SumFunctionOnSet(f, S) + SumFunctionOnSet(g, S)
  BY <1>1, SumPlus
<1>5. SumFunctionOnSet(f, S) \in Int /\ SumFunctionOnSet(g, S) \in Int
  BY <1>1, SumInt
<1>. QED BY <1>3, <1>4, <1>5

\* A common factor.
LEMMA SumTimes ==
  ASSUME NEW f, NEW g, NEW S, IsFiniteSet(S), NEW c \in Int, \A x \in S : f[x] \in Int /\ g[x] = c * f[x]
  PROVE  SumFunctionOnSet(g, S) = c * SumFunctionOnSet(f, S)
<1>. DEFINE F == {t \in SUBSET S : SumFunctionOnSet(g, t) # c * SumFunctionOnSet(f, t)}
<1>. SUFFICES ASSUME F # {} PROVE FALSE
  OBVIOUS
<1>0. F \in SUBSET SUBSET S
  OBVIOUS
<1>1. PICK T \in F : \A u \in F : u \subseteq T => u = T
  <2>. HIDE DEF F
  <2>. QED BY <1>0, Smallest
<1>2. T # {}
  <2>1. SumFunctionOnSet(g, {}) = 0 /\ SumFunctionOnSet(f, {}) = 0 /\ c * 0 = 0
    BY SumEmpty
  <2>2. {} \notin F
    BY <2>1
  <2>. QED BY <2>2
<1>. DEFINE y == Some(T)
            a == SumFunctionOnSet(f, T \ {y})
<1>3. y \in T /\ SumFunctionOnSet(g, T \ {y}) = c * a
  BY <1>1, <1>2, SomeIn
<1>4. IsFiniteSet(T) /\ IsFiniteSet(T \ {y})
  BY FS_Subset, FS_RemoveElement
<1>5. SumFunctionOnSet(g, T) = g[y] + SumFunctionOnSet(g, T \ {y}) /\ SumFunctionOnSet(f, T) = f[y] + a
  BY <1>2, <1>4, SumUnfolds
<1>6. a \in Int /\ f[y] \in Int /\ g[y] = c * f[y]
  <2>1. \A x \in T \ {y} : f[x] \in Int
    OBVIOUS
  <2>2. a \in Int
    BY <1>4, <2>1, SumInt
  <2>. QED BY <1>3, <2>2
<1>7. c * (f[y] + a) = c * f[y] + c * a
  <2>. HIDE DEF a, y
  <2>. QED BY <1>6
<1>8. SumFunctionOnSet(g, T) = c * SumFunctionOnSet(f, T)
  <2>. HIDE DEF a, y, F
  <2>. QED BY <1>3, <1>5, <1>6, <1>7
<1>. QED BY <1>8

\* The part of S that bears the key k.
Bearing(S, key, k) == {x \in S : key[x] = k}

\* A sum is the sum of the sums over what has the same key.
LEMMA SumByKey ==
  ASSUME NEW f, NEW S, IsFiniteSet(S), \A x \in S : f[x] \in Int,
         NEW K, IsFiniteSet(K), NEW key, \A x \in S : key[x] \in K,
         NEW g, \A k \in K : g[k] = SumFunctionOnSet(f, Bearing(S, key, k))
  PROVE  SumFunctionOnSet(g, K) = SumFunctionOnSet(f, S)
<1>. DEFINE Having(t) == {x \in S : key[x] \in t}
            Bad == {t \in SUBSET K : SumFunctionOnSet(g, t) # SumFunctionOnSet(f, Having(t))}
<1>. SUFFICES ASSUME Bad # {} PROVE FALSE
  <2>1. K \in SUBSET K /\ Having(K) = S
    OBVIOUS
  <2>. QED BY <2>1
<1>1. Bad \in SUBSET SUBSET K
  OBVIOUS
<1>2. PICK t \in Bad : \A U \in Bad : U \subseteq t => U = t
  <2>. HIDE DEF Bad
  <2>. QED BY <1>1, Smallest
<1>3. IsFiniteSet(t) /\ t \subseteq K
  BY <1>2, FS_Subset
<1>4. t # {}
  <2>1. Having({}) = {}
    OBVIOUS
  <2>. QED BY <1>2, <2>1, SumEmpty
<1>5. PICK e \in t : TRUE
  BY <1>4
<1>. DEFINE r == t \ {e}
            P == Bearing(S, key, e)
<1>6. r \notin Bad /\ r \subseteq K /\ IsFiniteSet(r)
  <2>. HIDE DEF Bad
  <2>. QED BY <1>2, <1>3, <1>5, FS_Subset
<1>7. SumFunctionOnSet(g, r) = SumFunctionOnSet(f, Having(r))
  BY <1>6
<1>8. P \in SUBSET Having(t) /\ Having(t) \ P = Having(r)
  BY <1>5 DEF Bearing
<1>9. IsFiniteSet(Having(t)) /\ (\A x \in Having(t) : f[x] \in Int)
  BY FS_Subset
<1>10. SumFunctionOnSet(f, Having(t)) = SumFunctionOnSet(f, P) + SumFunctionOnSet(f, Having(r))
  <2>. HIDE DEF Having, P, r
  <2>. QED BY <1>8, <1>9, SumSplit
<1>11. \A k \in K : g[k] \in Int
  <2>. SUFFICES ASSUME NEW k \in K PROVE g[k] \in Int
    OBVIOUS
  <2>1. IsFiniteSet(Bearing(S, key, k)) /\ Bearing(S, key, k) \subseteq S
    BY FS_Subset DEF Bearing
  <2>. QED BY <2>1, SumInt
<1>12. SumFunctionOnSet(g, t) = g[e] + SumFunctionOnSet(g, r)
  BY <1>3, <1>11, SumRemove
<1>13. g[e] = SumFunctionOnSet(f, P)
  BY <1>3
<1>14. SumFunctionOnSet(g, t) = SumFunctionOnSet(f, Having(t))
  BY ONLY <1>7, <1>10, <1>12, <1>13
<1>. QED BY <1>2, <1>14

=============================================================================
