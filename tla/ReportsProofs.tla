--------------------------- MODULE ReportsProofs ----------------------------
(***************************************************************************)
(* Proofs about Chart and Reports, for any users, companies, charts,       *)
(* entries, budgets, bills and years:                                      *)
(*                                                                         *)
(*   NothingDangles     the foreign keys                                   *)
(*   ChartsStayForests  how a chart of accounts becomes circular           *)
(*   Agreement          the statements agree with each other               *)
(*   NothingIsLost      the grouped trial balance shows all, and once      *)
(*                                                                         *)
(* ChartIInv is the inductive invariant: the tables are as their keys say  *)
(* (Keyed) and a request that waits has checked what it will write.  The   *)
(* statements are functions of the tables, so the rest is about sets of    *)
(* journal lines that are Told: told apart by their ids, each on an        *)
(* account that exists, and balanced by entry.  The grouped trial balance  *)
(* needs the way up the tree of accounts: it is the least set of codes     *)
(* that is closed under parents.                                           *)
(***************************************************************************)
EXTENDS Reports, SumTheorems, TLAPS

-----------------------------------------------------------------------------
(* The way up the tree of accounts is the smallest set of codes that holds *)
(* its first code and, with each code, its parent.                         *)

Charted(tab) == \A x \in Codes : tab[x].parent \in Codes \cup {NoCode}
Closed(tab, S) == \A x \in S \cap Codes : tab[x].parent # NoCode => tab[x].parent \in S
WaySet(w) == {w[n] : n \in 0..Cardinality(Codes)} \ {NoCode}
Way(tab, cur, w) ==
    w = [n \in 0..Cardinality(Codes) |->
           IF n = 0 THEN cur ELSE IF w[n - 1] = NoCode THEN NoCode ELSE tab[w[n - 1]].parent]

LEMMA ClimbWay ==
  ASSUME NEW tab, Charted(tab), NEW cur \in Codes \cup {NoCode}
  PROVE  \E w : /\ Way(tab, cur, w) /\ Climb(tab, cur) = WaySet(w)
                /\ \A n \in 0..Cardinality(Codes) : w[n] \in Codes \cup {NoCode}
<1>. DEFINE N == Cardinality(Codes)
            H == [x \in Codes \cup {NoCode} |-> IF x = NoCode THEN NoCode ELSE tab[x].parent]
<1>0. N \in Nat
  BY CodeAssumption, FS_CardinalityType
<1>1. PICK f : Iterates(f, N, cur, H)
  <2>. HIDE DEF N, H
  <2>. QED BY <1>0, Recursion
<1>2. f = [k \in 0..N |-> IF k = 0 THEN cur ELSE H[f[k - 1]]]
  <2>. HIDE DEF N, H
  <2>. QED BY ONLY <1>1 DEF Iterates
<1>3. \A x \in Codes \cup {NoCode} : H[x] \in Codes \cup {NoCode}
  BY DEF Charted
<1>4. \A k \in 0..N : f[k] \in Codes \cup {NoCode}
  <2>. DEFINE G == {k \in 0..N : f[k] \in Codes \cup {NoCode}}
  <2>. HIDE DEF N, H
  <2>1. 0 \in G
    BY <1>0, <1>2
  <2>2. \A k \in 0..N : k < N /\ k \in G => k + 1 \in G
    <3>. SUFFICES ASSUME NEW k \in 0..N, k < N, k \in G PROVE k + 1 \in G
      OBVIOUS
    <3>1. k + 1 \in 0..N /\ k + 1 # 0 /\ (k + 1) - 1 = k
      BY <1>0
    <3>2. f[k + 1] = H[f[k]] /\ f[k] \in Codes \cup {NoCode}
      BY <1>2, <3>1
    <3>. QED BY <3>1, <3>2, <1>3
  <2>3. 0..N \subseteq G
    <3>. HIDE DEF G
    <3>. QED BY <1>0, <2>1, <2>2, UpFromZero
  <2>. QED BY <2>3
<1>5. Way(tab, cur, f)
  <2>1. \A k \in 0..N : k # 0 => k - 1 \in 0..N
    <3>. HIDE DEF N
    <3>. QED BY <1>0
  <2>2. \A k \in 0..N : k # 0 => H[f[k - 1]] = IF f[k - 1] = NoCode THEN NoCode ELSE tab[f[k - 1]].parent
    BY <2>1, <1>4
  <2>3. f = [k \in 0..N |-> IF k = 0 THEN cur ELSE IF f[k - 1] = NoCode THEN NoCode ELSE tab[f[k - 1]].parent]
    <3>. HIDE DEF N, H
    <3>. QED BY <1>2, <2>2
  <2>. QED BY <2>3 DEF Way
<1>. DEFINE w == CHOOSE v : Way(tab, cur, v)
<1>6. Way(tab, cur, w)
  BY <1>5
<1>7. Climb(tab, cur) = WaySet(w)
  BY DEF Climb, WaySet, Way
<1>8. w = f
  <2>. DEFINE G == {k \in 0..N : w[k] = f[k]}
  <2>a. w = [n \in 0..N |-> IF n = 0 THEN cur ELSE IF w[n - 1] = NoCode THEN NoCode ELSE tab[w[n - 1]].parent]
    BY <1>6 DEF Way
  <2>b. f = [n \in 0..N |-> IF n = 0 THEN cur ELSE IF f[n - 1] = NoCode THEN NoCode ELSE tab[f[n - 1]].parent]
    BY <1>5 DEF Way
  <2>. HIDE DEF N, H, w
  <2>1. 0 \in G
    BY <1>0, <2>a, <2>b
  <2>2. \A k \in 0..N : k < N /\ k \in G => k + 1 \in G
    <3>. SUFFICES ASSUME NEW k \in 0..N, k < N, k \in G PROVE k + 1 \in G
      OBVIOUS
    <3>1. k + 1 \in 0..N /\ k + 1 # 0 /\ (k + 1) - 1 = k
      BY <1>0
    <3>2. w[k + 1] = (IF w[k] = NoCode THEN NoCode ELSE tab[w[k]].parent)
      BY <2>a, <3>1
    <3>3. f[k + 1] = (IF f[k] = NoCode THEN NoCode ELSE tab[f[k]].parent)
      BY <2>b, <3>1
    <3>. QED BY <3>1, <3>2, <3>3
  <2>3. 0..N \subseteq G
    <3>. HIDE DEF G
    <3>. QED BY <1>0, <2>1, <2>2, UpFromZero
  <2>4. \A k \in 0..N : w[k] = f[k]
    BY <2>3
  <2>5. DOMAIN w = 0..N /\ DOMAIN f = 0..N
    BY <2>a, <2>b
  <2>. QED BY <2>a, <2>b, <2>4, <2>5
<1>. HIDE DEF w, H
<1>. QED BY <1>4, <1>6, <1>7, <1>8

\* A step of the way.
LEMMA WayStep ==
  ASSUME NEW tab, NEW cur, NEW w, Way(tab, cur, w)
  PROVE  /\ 0 \in 0..Cardinality(Codes) /\ w[0] = cur
         /\ \A n \in 0..Cardinality(Codes) : n < Cardinality(Codes) =>
              n + 1 \in 0..Cardinality(Codes) /\ w[n + 1] = IF w[n] = NoCode THEN NoCode ELSE tab[w[n]].parent
<1>. DEFINE N == Cardinality(Codes)
<1>0. N \in Nat
  BY CodeAssumption, FS_CardinalityType
<1>1. w = [n \in 0..N |-> IF n = 0 THEN cur ELSE IF w[n - 1] = NoCode THEN NoCode ELSE tab[w[n - 1]].parent]
  BY DEF Way
<1>. HIDE DEF N
<1>2. 0 \in 0..N /\ w[0] = cur
  BY <1>0, <1>1
<1>3. ASSUME NEW n \in 0..N, n < N
      PROVE  n + 1 \in 0..N /\ w[n + 1] = IF w[n] = NoCode THEN NoCode ELSE tab[w[n]].parent
  <2>1. n + 1 \in 0..N /\ n + 1 # 0 /\ (n + 1) - 1 = n
    BY <1>0, <1>3
  <2>. QED BY <1>1, <2>1
<1>. QED BY <1>2, <1>3 DEF N

\* Whatever is closed under parents and holds the first code holds the way.
LEMMA ClimbWithin ==
  ASSUME NEW tab, Charted(tab), NEW cur \in Codes \cup {NoCode}, NEW S,
         Closed(tab, S), cur = NoCode \/ cur \in S
  PROVE  Climb(tab, cur) \subseteq S
<1>. DEFINE N == Cardinality(Codes)
<1>0. N \in Nat
  BY CodeAssumption, FS_CardinalityType
<1>1. PICK w : /\ Way(tab, cur, w) /\ Climb(tab, cur) = WaySet(w)
               /\ \A n \in 0..N : w[n] \in Codes \cup {NoCode}
  BY ClimbWay
<1>. DEFINE G == {n \in 0..N : w[n] = NoCode \/ w[n] \in S}
<1>2. 0 \in G
  BY <1>1, WayStep
<1>3. \A n \in 0..N : n < N /\ n \in G => n + 1 \in G
  <2>. SUFFICES ASSUME NEW n \in 0..N, n < N, n \in G PROVE n + 1 \in G
    OBVIOUS
  <2>1. n + 1 \in 0..N /\ w[n + 1] = IF w[n] = NoCode THEN NoCode ELSE tab[w[n]].parent
    BY <1>1, WayStep
  <2>2. CASE w[n] = NoCode
    BY <2>1, <2>2
  <2>3. CASE w[n] # NoCode
    <3>1. w[n] \in S \cap Codes
      BY <2>3, <1>1
    <3>. QED BY <2>1, <2>3, <3>1 DEF Closed
  <2>. QED BY <2>2, <2>3
<1>4. 0..N \subseteq G
  <2>. HIDE DEF G, N
  <2>. QED BY <1>0, <1>2, <1>3, UpFromZero
<1>. QED BY <1>1, <1>4 DEF WaySet

\* Where the way comes back to a code it goes on as before.
LEMMA WayRepeats ==
  ASSUME NEW tab, NEW cur, NEW w, Way(tab, cur, w),
         NEW i \in 0..Cardinality(Codes), NEW j \in 0..Cardinality(Codes), i <= j, w[i] = w[j],
         NEW t \in 0..Cardinality(Codes) - j
  PROVE  i + t \in 0..Cardinality(Codes) /\ j + t \in 0..Cardinality(Codes) /\ w[i + t] = w[j + t]
<1>. DEFINE N == Cardinality(Codes)
            G == {s \in 0..N - j : w[i + s] = w[j + s]}
<1>0. N \in Nat /\ i \in Nat /\ j \in Nat /\ j <= N /\ N - j \in Nat
  BY CodeAssumption, FS_CardinalityType
<1>1. \A s \in 0..N - j : i + s \in 0..N /\ j + s \in 0..N
  <2>. HIDE DEF N
  <2>. QED BY <1>0
<1>2. 0 \in G
  <2>1. i + 0 = i /\ j + 0 = j /\ 0 \in 0..N - j
    BY <1>0
  <2>. QED BY <2>1
<1>3. \A s \in 0..N - j : s < N - j /\ s \in G => s + 1 \in G
  <2>. SUFFICES ASSUME NEW s \in 0..N - j, s < N - j, s \in G PROVE s + 1 \in G
    OBVIOUS
  <2>. HIDE DEF N
  <2>1. /\ i + s < N /\ j + s < N /\ s + 1 \in 0..N - j
        /\ i + (s + 1) = (i + s) + 1 /\ j + (s + 1) = (j + s) + 1
    BY <1>0
  <2>2. /\ w[(i + s) + 1] = IF w[i + s] = NoCode THEN NoCode ELSE tab[w[i + s]].parent
        /\ w[(j + s) + 1] = IF w[j + s] = NoCode THEN NoCode ELSE tab[w[j + s]].parent
    BY <1>1, <2>1, WayStep DEF N
  <2>. QED BY <2>1, <2>2
<1>4. 0..N - j \subseteq G
  <2>. HIDE DEF G, N
  <2>. QED BY <1>0, <1>2, <1>3, UpFromZero
<1>. QED BY <1>1, <1>4

LEMMA ClimbHolds ==
  ASSUME NEW tab, Charted(tab), NEW cur \in Codes \cup {NoCode}
  PROVE  /\ Climb(tab, cur) \subseteq Codes
         /\ cur # NoCode => cur \in Climb(tab, cur)
         /\ Closed(tab, Climb(tab, cur))
<1>. DEFINE N == Cardinality(Codes)
<1>0. N \in Nat
  BY CodeAssumption, FS_CardinalityType
<1>1. PICK w : /\ Way(tab, cur, w) /\ Climb(tab, cur) = WaySet(w)
               /\ \A n \in 0..N : w[n] \in Codes \cup {NoCode}
  BY ClimbWay
<1>2. Climb(tab, cur) \subseteq Codes /\ (cur # NoCode => cur \in Climb(tab, cur))
  BY <1>1, WayStep DEF WaySet
<1>3. ASSUME NEW x \in Climb(tab, cur), tab[x].parent # NoCode
      PROVE  tab[x].parent \in Climb(tab, cur)
  <2>. DEFINE B == {n \in 0..N : w[n] = x}
  <2>1. x # NoCode /\ x \in Codes /\ B # {}
    BY <1>1, <1>2, <1>3 DEF WaySet
  <2>2. IsFiniteSet(B) /\ B \in SUBSET Int
    <3>1. IsFiniteSet(0..N) /\ B \subseteq 0..N /\ 0..N \subseteq Int
      BY <1>0, FS_Interval
    <3>. HIDE DEF B
    <3>. QED BY <3>1, FS_Subset
  <2>3. PICK n \in B : \A k \in B : n <= k
    <3>. HIDE DEF B
    <3>. QED BY <2>1, <2>2, LeastOf
  <2>4. n \in 0..N /\ w[n] = x
    BY <2>3
  <2>5. CASE n < N
    <3>1. n + 1 \in 0..N /\ w[n + 1] = tab[x].parent
      BY <1>1, <2>1, <2>4, <2>5, WayStep
    <3>. QED BY <1>1, <1>3, <3>1 DEF WaySet
  <2>6. CASE ~(n < N)
    <3>1. n = N /\ n \in Nat
      <4>. HIDE DEF N
      <4>. QED BY <1>0, <2>4, <2>6
    <3>2. \A k \in 0..N : w[k] \in Codes
      <4>1. SUFFICES ASSUME NEW k \in 0..N, w[k] = NoCode PROVE FALSE
        BY <1>1
      <4>. DEFINE G == {s \in 0..N - k : w[k + s] = NoCode}
      <4>2. k \in Nat /\ N - k \in Nat /\ k + (N - k) = N /\ k + 0 = k /\ N - k \in 0..N - k /\ 0 \in 0..N - k
        <5>. HIDE DEF N
        <5>. QED BY <1>0
      <4>3. 0 \in G
        BY <4>1, <4>2
      <4>4. \A s \in 0..N - k : s < N - k /\ s \in G => s + 1 \in G
        <5>. SUFFICES ASSUME NEW s \in 0..N - k, s < N - k, s \in G PROVE s + 1 \in G
          OBVIOUS
        <5>. HIDE DEF N
        <5>1. k + s \in 0..N /\ k + s < N /\ k + (s + 1) = (k + s) + 1 /\ s + 1 \in 0..N - k
          BY <1>0, <4>2
        <5>2. w[(k + s) + 1] = NoCode
          BY <1>1, <5>1, WayStep DEF N
        <5>. QED BY <5>1, <5>2
      <4>5. 0..N - k \subseteq G
        <5>. HIDE DEF G, N
        <5>. QED BY <4>2, <4>3, <4>4, UpFromZero
      <4>6. w[N] = NoCode
        BY <4>2, <4>5
      <4>. QED BY <4>6, <2>4, <2>1, <3>1
    <3>3. PICK a, b \in 0..N : a # b /\ w[a] = w[b]
      <4>. DEFINE h == [k \in 0..N |-> w[k]]
      <4>1. IsFiniteSet(0..N) /\ Cardinality(0..N) = N + 1 /\ IsFiniteSet(Codes)
        <5>. HIDE DEF N
        <5>1. 0 <= N /\ N - 0 + 1 = N + 1
          BY <1>0
        <5>. QED BY <1>0, <5>1, FS_Interval, CodeAssumption
      <4>2. h \in [0..N -> Codes]
        BY <3>2
      <4>3. Cardinality(Codes) < Cardinality(0..N)
        BY <1>0, <4>1
      <4>4. \E a, b \in 0..N : a # b /\ h[a] = h[b]
        <5>. HIDE DEF h
        <5>. QED BY <4>1, <4>2, <4>3, FS_PigeonHole
      <4>. QED BY <4>4
    <3>4. PICK i, j \in 0..N : i < j /\ w[i] = w[j]
      <4>1. a < b \/ b < a
        BY <1>0, <3>3
      <4>. QED BY <3>3, <4>1
    <3>5. /\ i \in Nat /\ j \in Nat /\ i <= j /\ N - j \in 0..N - j /\ j + (N - j) = N
          /\ i + (N - j) < N
      <4>. HIDE DEF N
      <4>. QED BY <1>0, <3>4
    <3>6. i + (N - j) \in 0..N /\ w[i + (N - j)] = w[j + (N - j)]
      BY <1>1, <3>4, <3>5, WayRepeats
    <3>7. i + (N - j) \in B
      BY <3>5, <3>6, <2>4, <3>1
    <3>8. N <= i + (N - j)
      BY <2>3, <3>7, <3>1
    <3>. QED
      <4>. HIDE DEF N, B
      <4>. QED BY <1>0, <3>5, <3>6, <3>8
  <2>. QED BY <2>5, <2>6
<1>. QED BY <1>2, <1>3 DEF Closed

\* No way up leads back to where it began.
Acyclic(tab) == \A x \in Codes : x \notin Climb(tab, tab[x].parent)

LEMMA ClimbNone ==
  ASSUME NEW tab, Charted(tab)
  PROVE  Climb(tab, NoCode) = {}
<1>1. Closed(tab, {})
  BY DEF Closed
<1>. QED BY <1>1, ClimbWithin

LEMMA ClimbStep ==
  ASSUME NEW tab, Charted(tab), NEW p \in Codes
  PROVE  Climb(tab, p) = {p} \cup Climb(tab, tab[p].parent)
<1>. DEFINE q == tab[p].parent
            S == {p} \cup Climb(tab, q)
<1>1. p \in Codes \cup {NoCode} /\ q \in Codes \cup {NoCode} /\ p # NoCode
  BY CodeAssumption DEF Charted
<1>2. Climb(tab, q) \subseteq Codes /\ (q # NoCode => q \in Climb(tab, q)) /\ Closed(tab, Climb(tab, q))
  BY <1>1, ClimbHolds
<1>3. Climb(tab, p) \subseteq Codes /\ p \in Climb(tab, p) /\ Closed(tab, Climb(tab, p))
  BY <1>1, ClimbHolds
<1>4. Closed(tab, S)
  BY <1>2 DEF Closed
<1>5. Climb(tab, p) \subseteq S
  BY <1>1, <1>4, ClimbWithin
<1>6. q = NoCode \/ q \in Climb(tab, p)
  BY <1>3 DEF Closed
<1>7. Climb(tab, q) \subseteq Climb(tab, p)
  BY <1>1, <1>3, <1>6, ClimbWithin
<1>. QED BY <1>3, <1>5, <1>7

LEMMA ClimbOn ==
  ASSUME NEW tab, Charted(tab), NEW p \in Codes \cup {NoCode}, NEW x \in Climb(tab, p)
  PROVE  /\ x \in Codes /\ Climb(tab, x) \subseteq Climb(tab, p)
         /\ Climb(tab, tab[x].parent) \subseteq Climb(tab, p)
<1>1. Climb(tab, p) \subseteq Codes /\ Closed(tab, Climb(tab, p))
  BY ClimbHolds
<1>2. Climb(tab, x) \subseteq Climb(tab, p)
  BY <1>1, ClimbWithin
<1>. QED BY <1>1, <1>2, ClimbStep

\* Of two codes on a way one is above the other.
LEMMA ClimbChain ==
  ASSUME NEW tab, Charted(tab), NEW p \in Codes \cup {NoCode}, NEW a \in Climb(tab, p), NEW b \in Climb(tab, p)
  PROVE  a \in Climb(tab, b) \/ b \in Climb(tab, a)
<1>. DEFINE T == {x \in Climb(tab, p) : x \in Climb(tab, b) \/ b \in Climb(tab, x)}
<1>1. /\ Climb(tab, p) \subseteq Codes /\ (p # NoCode => p \in Climb(tab, p)) /\ Closed(tab, Climb(tab, p))
      /\ b \in Codes /\ b \in Climb(tab, b) /\ Closed(tab, Climb(tab, b))
  BY ClimbHolds, CodeAssumption
<1>2. p # NoCode => p \in T
  BY <1>1
<1>3. Closed(tab, T)
  <2>. SUFFICES ASSUME NEW x \in T, tab[x].parent # NoCode PROVE tab[x].parent \in T
    BY DEF Closed
  <2>1. x \in Codes /\ tab[x].parent \in Climb(tab, p)
    BY <1>1 DEF Closed
  <2>2. CASE x \in Climb(tab, b)
    BY <1>1, <2>1, <2>2 DEF Closed
  <2>3. CASE b \in Climb(tab, x)
    <3>1. b = x \/ b \in Climb(tab, tab[x].parent)
      BY <2>1, <2>3, ClimbStep
    <3>2. CASE b = x
      BY <1>1, <2>1, <3>2 DEF Closed
    <3>. QED BY <2>1, <3>1, <3>2
  <2>. QED BY <2>2, <2>3
<1>4. Climb(tab, p) \subseteq T
  <2>. HIDE DEF T
  <2>. QED BY <1>2, <1>3, ClimbWithin
<1>. QED BY <1>4

\* A way off which nothing changed is no longer than before.
LEMMA ClimbSame ==
  ASSUME NEW tab, Charted(tab), NEW new, Charted(new), NEW p \in Codes \cup {NoCode},
         \A x \in Climb(tab, p) : new[x].parent = tab[x].parent
  PROVE  Climb(new, p) = Climb(tab, p)
<1>1. /\ Climb(tab, p) \subseteq Codes /\ (p # NoCode => p \in Climb(tab, p)) /\ Closed(tab, Climb(tab, p))
      /\ Climb(new, p) \subseteq Codes /\ (p # NoCode => p \in Climb(new, p)) /\ Closed(new, Climb(new, p))
  BY ClimbHolds
<1>2. Closed(new, Climb(tab, p))
  BY <1>1 DEF Closed
<1>3. Climb(new, p) \subseteq Climb(tab, p)
  BY <1>1, <1>2, ClimbWithin
<1>4. Closed(tab, Climb(new, p))
  BY <1>1, <1>3 DEF Closed
<1>5. Climb(tab, p) \subseteq Climb(new, p)
  BY <1>1, <1>4, ClimbWithin
<1>. QED BY <1>3, <1>5

\* On a circle every code leads to every other.
LEMMA CircleConnects ==
  ASSUME NEW tab, Charted(tab), NEW y \in Codes, y \in Climb(tab, tab[y].parent),
         NEW k \in Climb(tab, tab[y].parent)
  PROVE  y \in Climb(tab, tab[k].parent)
<1>. DEFINE q == tab[y].parent
            D == Climb(tab, q)
            T == {x \in D : y \in Climb(tab, tab[x].parent)}
<1>1. q \in Codes \cup {NoCode}
  BY DEF Charted
<1>2. D \subseteq Codes /\ (q # NoCode => q \in D) /\ Closed(tab, D)
  BY <1>1, ClimbHolds
<1>3. \A x \in D : tab[x].parent \in Codes \cup {NoCode}
  BY <1>2 DEF Charted
<1>4. \A x \in Codes : y \in Climb(tab, x) => x = y \/ y \in Climb(tab, tab[x].parent)
  BY ClimbStep
<1>5. q # NoCode => q \in T
  BY <1>1, <1>2, <1>4
<1>6. Closed(tab, T)
  <2>. SUFFICES ASSUME NEW x \in T, tab[x].parent # NoCode PROVE tab[x].parent \in T
    BY DEF Closed
  <2>1. tab[x].parent \in D /\ tab[x].parent \in Codes
    BY <1>2 DEF Closed
  <2>. QED BY <2>1, <1>4
<1>7. D \subseteq T
  <2>. HIDE DEF T, D, q
  <2>. QED BY <1>1, <1>5, <1>6, ClimbWithin DEF D
<1>. QED BY <1>7

\* An account that is put below p makes no circle unless p is below it.
LEMMA PutKeepsForest ==
  ASSUME NEW tab, Charted(tab), NEW new, Charted(new), NEW k \in Codes, Acyclic(tab),
         \A x \in Codes \ {k} : new[x].parent = tab[x].parent,
         k \notin Climb(tab, new[k].parent)
  PROVE  Acyclic(new)
<1>. DEFINE p == new[k].parent
<1>1. p \in Codes \cup {NoCode} /\ Climb(tab, p) \subseteq Codes
  BY ClimbHolds DEF Charted
<1>2. Climb(new, p) = Climb(tab, p)
  BY <1>1, ClimbSame
<1>. SUFFICES ASSUME NEW y \in Codes, y \in Climb(new, new[y].parent) PROVE FALSE
  BY DEF Acyclic
<1>3. new[y].parent \in Codes \cup {NoCode} /\ tab[y].parent \in Codes \cup {NoCode}
  BY DEF Charted
<1>4. CASE k \in Climb(new, new[y].parent)
  <2>1. y \in Climb(new, p)
    BY <1>4, CircleConnects
  <2>2. Climb(new, new[y].parent) \subseteq Climb(new, p)
    BY <1>1, <2>1, ClimbOn
  <2>. QED BY <1>2, <1>4, <2>2
<1>5. CASE k \notin Climb(new, new[y].parent)
  <2>1. y # k
    BY <1>5
  <2>2. new[y].parent = tab[y].parent
    BY <2>1
  <2>3. Climb(new, new[y].parent) \subseteq Codes
    BY <1>3, ClimbHolds
  <2>4. Climb(tab, new[y].parent) = Climb(new, new[y].parent)
    BY <1>3, <1>5, <2>3, ClimbSame
  <2>. QED BY <2>2, <2>4 DEF Acyclic
<1>. QED BY <1>4, <1>5

ChartTable == [Codes -> AccountRow \cup {NoAccount}]

LEMMA TableIsCharted ==
  ASSUME NEW tab \in ChartTable
  PROVE  Charted(tab)
BY DEF ChartTable, Charted, AccountRow, NoAccount

\* account_integrity() of any table.
Issues(tab) ==
    LET Odd(code) == tab[code] # NoAccount /\ tab[code].parent # NoCode
    IN  {Issue("self_parent", x) : x \in {y \in Codes : Odd(y) /\ tab[y].parent = y}}
        \cup {Issue("orphan_parent", x) : x \in {y \in Codes : Odd(y) /\ tab[y].parent # y /\ ~(tab[tab[y].parent] # NoAccount)}}
        \cup {Issue("cycle", x) : x \in {y \in Codes : Odd(y) /\ tab[y].parent # y /\ tab[tab[y].parent] # NoAccount
                                                       /\ y \in Climb(tab, tab[y].parent)}}
OrphansIn(tab) == {i \in Issues(tab) : i.kind = "orphan_parent"}

\* account_integrity() finds nothing but orphans where no way leads back.
LEMMA ForestIsAcyclic ==
  ASSUME NEW tab \in ChartTable
  PROVE  (Issues(tab) = OrphansIn(tab)) <=> Acyclic(tab)
<1>. DEFINE Odd(x) == tab[x] # NoAccount /\ tab[x].parent # NoCode
<1>1. Charted(tab)
  BY TableIsCharted
<1>2. \A x \in Codes : tab[x].parent \in Codes \cup {NoCode}
  BY <1>1 DEF Charted
<1>3. \A x \in Codes : tab[x] = NoAccount => tab[x].parent = NoCode
  BY DEF NoAccount
<1>4. ASSUME Acyclic(tab) PROVE Issues(tab) = OrphansIn(tab)
  <2>1. \A x \in Codes : ~(Odd(x) /\ tab[x].parent = x)
    <3>. SUFFICES ASSUME NEW x \in Codes, Odd(x), tab[x].parent = x PROVE FALSE
      OBVIOUS
    <3>1. x \in Climb(tab, tab[x].parent)
      BY <1>1, <1>2, ClimbHolds
    <3>. QED BY <1>4, <3>1 DEF Acyclic
  <2>2. \A i \in Issues(tab) : i.kind = "orphan_parent"
    BY <1>4, <2>1 DEF Issues, Acyclic, Issue
  <2>. QED BY <2>2 DEF OrphansIn
<1>5. ASSUME Issues(tab) = OrphansIn(tab) PROVE Acyclic(tab)
  <2>. SUFFICES ASSUME NEW x \in Codes, x \in Climb(tab, tab[x].parent) PROVE FALSE
    BY DEF Acyclic
  <2>1. tab[x].parent # NoCode
    BY <1>1, ClimbNone
  <2>2. Odd(x)
    BY <1>3, <2>1
  <2>3. \A i \in Issues(tab) : i.kind = "orphan_parent"
    BY <1>5 DEF OrphansIn
  <2>4. CASE tab[x].parent = x
    <3>1. Issue("self_parent", x) \in Issues(tab)
      BY <2>2, <2>4 DEF Issues
    <3>. QED BY <2>3, <3>1 DEF Issue
  <2>5. CASE tab[x].parent # x /\ tab[tab[x].parent] # NoAccount
    <3>1. Issue("cycle", x) \in Issues(tab)
      BY <2>2, <2>5 DEF Issues
    <3>. QED BY <2>3, <3>1 DEF Issue
  <2>6. CASE tab[x].parent # x /\ tab[tab[x].parent] = NoAccount
    <3>1. tab[x].parent \in Codes /\ tab[tab[x].parent].parent = NoCode
      BY <1>2, <1>3, <2>1, <2>6
    <3>2. Climb(tab, tab[x].parent) = {tab[x].parent}
      BY <1>1, <3>1, ClimbStep, ClimbNone
    <3>. QED BY <2>6, <3>2
  <2>. QED BY <2>4, <2>5, <2>6
<1>. QED BY <1>4, <1>5

\* The standard chart makes no circle of its own, nor through accounts whose
\* parents are there.
LEMMA StandardKeepsForest ==
  ASSUME NEW tab \in ChartTable, Acyclic(tab),
         \A x \in Codes : tab[x] # NoAccount /\ tab[x].parent # NoCode => tab[tab[x].parent] # NoAccount
  PROVE  WithStandard(tab) \in ChartTable /\ Acyclic(WithStandard(tab))
<1>. DEFINE new == WithStandard(tab)
            Old == {x \in Codes : tab[x] # NoAccount}
<1>1. ASSUME NEW x \in Codes
      PROVE  /\ new[x] \in AccountRow \cup {NoAccount}
             /\ tab[x] # NoAccount => new[x] = tab[x]
             /\ tab[x] = NoAccount => new[x].parent = NoCode \/ new[x].parent < x
  <2>1. CASE tab[x] = NoAccount /\ \E f \in Standard : f.code = x
    <3>. DEFINE f == CHOOSE f \in Standard : f.code = x
    <3>1. f \in Standard /\ f.code = x
      BY <2>1
    <3>2. new[x] = Row(f)
      BY <2>1 DEF WithStandard
    <3>. HIDE DEF f
    <3>3. Row(f) \in AccountRow /\ Row(f).parent < x
      BY <3>1, StandardAssumption DEF Row
    <3>. QED BY <2>1, <3>2, <3>3
  <2>2. CASE ~(tab[x] = NoAccount /\ \E f \in Standard : f.code = x)
    <3>1. new[x] = tab[x]
      BY <2>2 DEF WithStandard
    <3>2. tab[x] \in AccountRow \cup {NoAccount}
      BY DEF ChartTable
    <3>. QED BY <3>1, <3>2 DEF NoAccount
  <2>. QED BY <2>1, <2>2
<1>2. new \in ChartTable
  <2>1. new = [x \in Codes |-> new[x]]
    BY DEF WithStandard
  <2>. QED BY <1>1, <2>1 DEF ChartTable
<1>3. Charted(tab) /\ Charted(new)
  BY <1>2, TableIsCharted
<1>. HIDE DEF new
<1>4. Closed(new, Old)
  <2>. SUFFICES ASSUME NEW x \in Old, new[x].parent # NoCode PROVE new[x].parent \in Old
    BY DEF Closed
  <2>1. new[x] = tab[x]
    BY <1>1
  <2>2. tab[x].parent \in Codes
    BY <1>3, <2>1 DEF Charted
  <2>. QED BY <2>1, <2>2
<1>5. Acyclic(new)
  <2>. SUFFICES ASSUME NEW y \in Codes, y \in Climb(new, new[y].parent) PROVE FALSE
    BY DEF Acyclic
  <2>. DEFINE q == new[y].parent
              D == Climb(new, q)
  <2>1. q \in Codes \cup {NoCode}
    BY <1>3 DEF Charted
  <2>2. D \subseteq Codes /\ (q # NoCode => q \in D) /\ Closed(new, D)
    BY <1>3, <2>1, ClimbHolds
  <2>3. CASE \E x \in D : x \in Old
    <3>1. PICK x \in D : x \in Old
      BY <2>3
    <3>2. y \in Climb(new, new[x].parent)
      BY <1>3, CircleConnects
    <3>3. new[x].parent \in Codes \cup {NoCode} /\ (new[x].parent = NoCode \/ new[x].parent \in Old)
      BY <1>3, <1>4, <3>1 DEF Charted, Closed
    <3>4. y \in Old
      <4>. HIDE DEF Old
      <4>. QED BY <1>3, <1>4, <3>2, <3>3, ClimbWithin
    <3>5. q = NoCode \/ q \in Old
      BY <1>4, <3>4 DEF Closed
    <3>6. D \subseteq Old
      <4>. HIDE DEF Old
      <4>. QED BY <1>3, <1>4, <2>1, <3>5, ClimbWithin
    <3>7. Climb(tab, q) = D
      <4>1. \A z \in D : tab[z].parent = new[z].parent
        BY <1>1, <3>6
      <4>. QED BY <1>3, <2>1, <4>1, ClimbSame
    <3>8. tab[y].parent = q
      BY <1>1, <3>4
    <3>. QED BY <3>7, <3>8 DEF Acyclic
  <2>4. CASE \A x \in D : x \notin Old
    <3>. DEFINE S == {x \in D : x < y}
    <3>1. \A x \in D : x \in Nat /\ (new[x].parent = NoCode \/ new[x].parent < x)
      BY <1>1, <2>2, <2>4, CodeAssumption
    <3>2. \A x \in D : new[x].parent # NoCode => new[x].parent \in D /\ new[x].parent \in Nat
      BY <2>2, CodeAssumption DEF Closed
    <3>3. y \in Nat /\ (q = NoCode \/ q \in S)
      BY <2>2, <3>1, <3>2
    <3>4. Closed(new, S)
      <4>. SUFFICES ASSUME NEW x \in S, new[x].parent # NoCode PROVE new[x].parent \in S
        BY DEF Closed
      <4>1. new[x].parent \in D /\ new[x].parent \in Nat /\ new[x].parent < x /\ x < y /\ x \in Nat
        BY <3>1, <3>2
      <4>. QED BY <3>3, <4>1
    <3>5. D \subseteq S
      <4>. HIDE DEF S
      <4>. QED BY <1>3, <2>1, <3>3, <3>4, ClimbWithin
    <3>6. y < y
      BY <3>5
    <3>. QED BY <3>3, <3>6
  <2>. QED BY <2>3, <2>4
<1>. QED BY <1>2, <1>5 DEF new

-----------------------------------------------------------------------------
(* The foreign keys.                                                       *)

LEMMA MaxIsIn ==
  ASSUME NEW S \in SUBSET Int, IsFiniteSet(S), S # {}
  PROVE  Max(S) \in S /\ \A y \in S : y <= Max(S)
<1>. DEFINE f == [x \in S |-> x]
<1>1. \A x \in S : f[x] \in Int
  OBVIOUS
<1>2. \E x \in S : \A y \in S : f[y] <= f[x]
  <2>. HIDE DEF f
  <2>. QED BY <1>1, Greatest
<1>3. \E x \in S : \A y \in S : x >= y
  BY <1>2
<1>. QED BY <1>3 DEF Max

LEMMA MinIsIn ==
  ASSUME NEW S \in SUBSET Int, IsFiniteSet(S), S # {}
  PROVE  Min(S) \in S /\ \A y \in S : Min(S) <= y
<1>1. \E x \in S : \A y \in S : x <= y
  BY LeastOf
<1>. QED BY <1>1 DEF Min

\* Sound() of the tables.
Keyed(co, ac, pr, en, bu) ==
    /\ co \subseteq Companies /\ ac \in [Companies -> ChartTable]
    /\ pr \in [Projects -> co \cup {NoCompany}]
    /\ \A c \in Companies, code \in Codes : ac[c][code] # NoAccount => c \in co
    /\ DOMAIN en \subseteq Nat /\ IsFiniteSet(DOMAIN en)
    /\ \A i \in DOMAIN en : en[i] \in EntryRow /\ en[i].company \in co /\ Fits(en[i], ac[en[i].company], pr)
    /\ IsFiniteSet(bu) /\ bu \subseteq BudgetRow
    /\ \A b \in bu : ac[b.company][b.code] # NoAccount /\ (b.project # NoProject => pr[b.project] # NoCompany)

LEMMA SoundIsKeyed ==
  ASSUME NEW db
  PROVE  Sound(db) <=> Keyed(db.company, db.account, db.project, db.entry, db.budget)
BY DEF Sound, Keyed, ChartTable

LEMMA EntryTypes ==
  ASSUME NEW e \in EntryRow, NEW k \in DOMAIN e.lines
  PROVE  /\ e.company \in Companies /\ e.date \in Nat /\ e.posted \in BOOLEAN
         /\ k \in Nat /\ e.lines[k].code \in Codes /\ e.lines[k].project \in Projects \cup {NoProject}
         /\ e.lines[k].debit \in Nat /\ e.lines[k].credit \in Nat
<1>1. e.company \in Companies /\ e.date \in Nat /\ e.posted \in BOOLEAN /\ e.lines \in Seq(LineRow)
  BY DEF EntryRow
<1>2. e.lines[k] \in LineRow /\ k \in Nat
  BY <1>1
<1>. QED BY <1>1, <1>2 DEF LineRow

\* More accounts and companies break nothing.
LEMMA KeyedMore ==
  ASSUME NEW co, NEW ac, NEW pr, NEW en, NEW bu, Keyed(co, ac, pr, en, bu),
         NEW co2 \in SUBSET Companies, co \subseteq co2, NEW ac2 \in [Companies -> ChartTable],
         \A c \in Companies, x \in Codes : /\ ac[c][x] # NoAccount => ac2[c][x] # NoAccount
                                           /\ ac2[c][x] # NoAccount => c \in co2
  PROVE  Keyed(co2, ac2, pr, en, bu)
<1>1. pr \in [Projects -> co2 \cup {NoCompany}]
  BY DEF Keyed
<1>2. ASSUME NEW i \in DOMAIN en
      PROVE  en[i] \in EntryRow /\ en[i].company \in co2 /\ Fits(en[i], ac2[en[i].company], pr)
  <2>1. en[i] \in EntryRow /\ en[i].company \in co /\ Fits(en[i], ac[en[i].company], pr)
    BY DEF Keyed
  <2>2. \A k \in DOMAIN en[i].lines : en[i].lines[k].code \in Codes
    BY <2>1, EntryTypes
  <2>3. en[i].company \in Companies
    BY <2>1 DEF Keyed
  <2>. QED BY <2>1, <2>2, <2>3 DEF Fits
<1>3. ASSUME NEW b \in bu
      PROVE  ac2[b.company][b.code] # NoAccount /\ (b.project # NoProject => pr[b.project] # NoCompany)
  <2>1. b.company \in Companies /\ b.code \in Codes
    BY DEF Keyed, BudgetRow
  <2>. QED BY <2>1 DEF Keyed
<1>. QED BY <1>1, <1>2, <1>3 DEF Keyed

\* An account goes that no line and no budget is on.
LEMMA KeyedLess ==
  ASSUME NEW co, NEW ac, NEW pr, NEW en, NEW bu, Keyed(co, ac, pr, en, bu),
         NEW d \in Companies, NEW x \in Codes,
         \A i \in DOMAIN en : \A k \in DOMAIN en[i].lines : ~(en[i].company = d /\ en[i].lines[k].code = x),
         \A b \in bu : ~(b.company = d /\ b.code = x)
  PROVE  Keyed(co, [ac EXCEPT ![d][x] = NoAccount], pr, en, bu)
<1>. DEFINE ac2 == [ac EXCEPT ![d][x] = NoAccount]
<1>1. ac2 \in [Companies -> ChartTable] /\ \A c \in Companies, z \in Codes :
        ac2[c][z] = IF c = d /\ z = x THEN NoAccount ELSE ac[c][z]
  BY DEF Keyed, ChartTable
<1>. HIDE DEF ac2
<1>2. ASSUME NEW i \in DOMAIN en
      PROVE  en[i] \in EntryRow /\ en[i].company \in co /\ Fits(en[i], ac2[en[i].company], pr)
  <2>1. en[i] \in EntryRow /\ en[i].company \in co /\ Fits(en[i], ac[en[i].company], pr)
    BY DEF Keyed
  <2>2. \A k \in DOMAIN en[i].lines : en[i].lines[k].code \in Codes
    BY <2>1, EntryTypes
  <2>3. en[i].company \in Companies
    BY <2>1 DEF Keyed
  <2>. QED BY <1>1, <2>1, <2>2, <2>3 DEF Fits
<1>3. ASSUME NEW b \in bu
      PROVE  ac2[b.company][b.code] # NoAccount /\ (b.project # NoProject => pr[b.project] # NoCompany)
  <2>1. b.company \in Companies /\ b.code \in Codes
    BY DEF Keyed, BudgetRow
  <2>. QED BY <1>1, <2>1 DEF Keyed
<1>4. \A c \in Companies, z \in Codes : ac2[c][z] # NoAccount => c \in co
  BY <1>1 DEF Keyed
<1>. QED BY <1>1, <1>2, <1>3, <1>4 DEF Keyed, ac2

ChartsWithout(ac, d) == [ac EXCEPT ![d] = [x \in Codes |-> NoAccount]]
ProjectsWithout(pr, d) == [p \in Projects |-> IF pr[p] = d THEN NoCompany ELSE pr[p]]
EntriesWithout(en, d) == Restrict(en, {i \in DOMAIN en : en[i].company # d})
BudgetsWithout(bu, d) == {b \in bu : b.company # d}
NextId(en) == Max(DOMAIN en \cup {0}) + 1
WithEntry(en, e) == [i \in DOMAIN en \cup {NextId(en)} |-> IF i = NextId(en) THEN e ELSE en[i]]

\* A company goes with its charts, entries, budgets and projects when nobody
\* else's rows are on its projects.
LEMMA KeyedWithout ==
  ASSUME NEW co, NEW ac, NEW pr, NEW en, NEW bu, Keyed(co, ac, pr, en, bu), NEW d \in Companies,
         \A i \in DOMAIN en : \A k \in DOMAIN en[i].lines :
            en[i].company # d /\ en[i].lines[k].project # NoProject => pr[en[i].lines[k].project] # d,
         \A b \in bu : b.company # d /\ b.project # NoProject => pr[b.project] # d
  PROVE  Keyed(co \ {d}, ChartsWithout(ac, d), ProjectsWithout(pr, d), EntriesWithout(en, d), BudgetsWithout(bu, d))
<1>. DEFINE ac2 == [ac EXCEPT ![d] = [x \in Codes |-> NoAccount]]
            pr2 == [p \in Projects |-> IF pr[p] = d THEN NoCompany ELSE pr[p]]
            I == {i \in DOMAIN en : en[i].company # d}
            en2 == Restrict(en, I)
            bu2 == {b \in bu : b.company # d}
            co2 == co \ {d}
<1>1. ac2 \in [Companies -> ChartTable] /\ \A c \in Companies, z \in Codes :
        ac2[c][z] = IF c = d THEN NoAccount ELSE ac[c][z]
  BY DEF Keyed, ChartTable
<1>2. pr2 \in [Projects -> co2 \cup {NoCompany}]
  BY DEF Keyed
<1>3. DOMAIN en2 = I /\ \A i \in I : en2[i] = en[i]
  BY DEF Restrict
<1>4. I \subseteq Nat /\ IsFiniteSet(I)
  BY FS_Subset DEF Keyed
<1>5. IsFiniteSet(bu2) /\ bu2 \subseteq BudgetRow
  BY FS_Subset DEF Keyed
<1>6. ASSUME NEW i \in I
      PROVE  en[i] \in EntryRow /\ en[i].company \in co2 /\ Fits(en[i], ac2[en[i].company], pr2)
  <2>1. en[i] \in EntryRow /\ en[i].company \in co /\ Fits(en[i], ac[en[i].company], pr)
    BY DEF Keyed
  <2>2. \A k \in DOMAIN en[i].lines : en[i].lines[k].code \in Codes /\ en[i].lines[k].project \in Projects \cup {NoProject}
    BY <2>1, EntryTypes
  <2>3. en[i].company \in Companies /\ en[i].company # d
    BY <2>1 DEF Keyed
  <2>4. \A k \in DOMAIN en[i].lines :
           en[i].lines[k].project # NoProject => pr2[en[i].lines[k].project] = pr[en[i].lines[k].project]
    BY <2>2, <2>3
  <2>. HIDE DEF ac2, pr2
  <2>5. Fits(en[i], ac2[en[i].company], pr2)
    BY <1>1, <2>1, <2>2, <2>3, <2>4 DEF Fits
  <2>. QED BY <2>1, <2>3, <2>5
<1>7. ASSUME NEW b \in bu2
      PROVE  ac2[b.company][b.code] # NoAccount /\ (b.project # NoProject => pr2[b.project] # NoCompany)
  <2>1. b.company \in Companies /\ b.code \in Codes /\ b.project \in Projects \cup {NoProject} /\ b.company # d
    BY <1>5 DEF BudgetRow
  <2>2. ac[b.company][b.code] # NoAccount /\ (b.project # NoProject => pr[b.project] # NoCompany)
    BY DEF Keyed
  <2>. QED BY <1>1, <2>1, <2>2
<1>8. \A c \in Companies, z \in Codes : ac2[c][z] # NoAccount => c \in co2
  BY <1>1 DEF Keyed
<1>9. co2 \subseteq Companies
  BY DEF Keyed
<1>. HIDE DEF ac2, pr2, I, en2, bu2, co2
<1>10. Keyed(co2, ac2, pr2, en2, bu2)
  BY <1>1, <1>2, <1>3, <1>4, <1>5, <1>6, <1>7, <1>8, <1>9 DEF Keyed
<1>. QED BY <1>10 DEF ac2, pr2, I, en2, bu2, co2, ChartsWithout, ProjectsWithout, EntriesWithout, BudgetsWithout

\* A project of one of the companies, or one no line is on and its budgets.
LEMMA KeyedProject ==
  ASSUME NEW co, NEW ac, NEW pr, NEW en, NEW bu, Keyed(co, ac, pr, en, bu),
         NEW p \in Projects, NEW c \in co \cup {NoCompany}, NEW bu2 \in SUBSET bu,
         c = NoCompany =>
           /\ \A i \in DOMAIN en : \A k \in DOMAIN en[i].lines : en[i].lines[k].project # p
           /\ \A b \in bu2 : b.project # p
  PROVE  Keyed(co, ac, [pr EXCEPT ![p] = c], en, bu2)
<1>. DEFINE pr2 == [pr EXCEPT ![p] = c]
<1>1. pr2 \in [Projects -> co \cup {NoCompany}] /\ \A q \in Projects : pr2[q] = IF q = p THEN c ELSE pr[q]
  BY DEF Keyed
<1>2. IsFiniteSet(bu2) /\ bu2 \subseteq BudgetRow
  BY FS_Subset DEF Keyed
<1>. HIDE DEF pr2
<1>3. ASSUME NEW i \in DOMAIN en
      PROVE  Fits(en[i], ac[en[i].company], pr2)
  <2>1. en[i] \in EntryRow /\ Fits(en[i], ac[en[i].company], pr)
    BY DEF Keyed
  <2>2. \A k \in DOMAIN en[i].lines : en[i].lines[k].project \in Projects \cup {NoProject}
    BY <2>1, EntryTypes
  <2>. QED BY <1>1, <2>1, <2>2 DEF Fits
<1>4. ASSUME NEW b \in bu2
      PROVE  ac[b.company][b.code] # NoAccount /\ (b.project # NoProject => pr2[b.project] # NoCompany)
  <2>1. b.project \in Projects \cup {NoProject}
    BY <1>2 DEF BudgetRow
  <2>. QED BY <1>1, <2>1 DEF Keyed
<1>. QED BY <1>1, <1>2, <1>3, <1>4 DEF Keyed, pr2

LEMMA KeyedEntry ==
  ASSUME NEW co, NEW ac, NEW pr, NEW en, NEW bu, Keyed(co, ac, pr, en, bu),
         NEW e \in EntryRow, e.company \in co, Fits(e, ac[e.company], pr)
  PROVE  Keyed(co, ac, pr, WithEntry(en, e), bu)
<1>. DEFINE id == Max(DOMAIN en \cup {0}) + 1
            en2 == [i \in DOMAIN en \cup {id} |-> IF i = id THEN e ELSE en[i]]
<1>1. DOMAIN en \subseteq Nat /\ IsFiniteSet(DOMAIN en)
  BY DEF Keyed
<1>2. DOMAIN en \cup {0} \in SUBSET Int /\ IsFiniteSet(DOMAIN en \cup {0}) /\ DOMAIN en \cup {0} # {}
  BY <1>1, FS_AddElement
<1>3. id \in Nat
  <2>1. Max(DOMAIN en \cup {0}) \in DOMAIN en \cup {0}
    BY <1>2, MaxIsIn
  <2>. QED BY <1>1, <2>1
<1>. HIDE DEF id
<1>4. DOMAIN en2 = DOMAIN en \cup {id}
  OBVIOUS
<1>5. DOMAIN en2 \subseteq Nat /\ IsFiniteSet(DOMAIN en2)
  BY <1>1, <1>3, <1>4, FS_AddElement
<1>6. \A i \in DOMAIN en2 : en2[i] = e \/ (i \in DOMAIN en /\ en2[i] = en[i])
  OBVIOUS
<1>. HIDE DEF en2
<1>7. \A i \in DOMAIN en2 : en2[i] \in EntryRow /\ en2[i].company \in co /\ Fits(en2[i], ac[en2[i].company], pr)
  BY <1>6 DEF Keyed
<1>8. Keyed(co, ac, pr, en2, bu)
  BY <1>5, <1>7 DEF Keyed
<1>. QED BY <1>8 DEF en2, id, WithEntry, NextId

-----------------------------------------------------------------------------
(* What is true of the tables and of the requests that wait to write.      *)

Pcs == {"idle", "create", "update", "delete", "delete company", "delete project"}
FormRow == [company : Companies \cup {NoCompany}, code : Codes \cup {NoCode}, type : Types \cup {"none"},
            parent : Codes \cup {NoCode}, ic : BOOLEAN]
TaskRow == [pc : Pcs, form : FormRow, project : Projects \cup {NoProject}, gone : BOOLEAN]

\* A request that is not overtaken still has a form that would be let through.
Waits(u) ==
    LET t == task[u]
        f == t.form
    IN  /\ t.pc \in {"create", "update"} => f \in AccountForm
        /\ t.pc = "delete" => f.company \in Companies /\ f.code \in Codes
        /\ t.pc = "delete company" => f.company \in Companies
        /\ t.pc = "delete project" => t.project \in Projects
        /\ t.pc = "update" /\ ~t.gone => Exists(f.company, f.code)
        /\ u \notin stale /\ t.pc \in {"create", "update"} => Validated(f.company, f.code, f.parent)

ChartIInv ==
    /\ Keyed(company, account, project, entry, budget)
    /\ task \in [Users -> TaskRow]
    /\ \A u \in Users : Waits(u)

LEMMA ChartStart == Init => ChartIInv
<1>. SUFFICES ASSUME Init PROVE ChartIInv
  OBVIOUS
<1>1. Keyed(company, account, project, entry, budget)
  <2>1. PICK db \in Databases : /\ company = db.company /\ account = db.account /\ project = db.project
                                /\ entry = db.entry /\ budget = db.budget
    BY DEF Init
  <2>2. Sound(db)
    BY DatabaseAssumption
  <2>. QED BY <2>1, <2>2, SoundIsKeyed
<1>2. Idle \in TaskRow /\ Idle.pc = "idle"
  BY DEF Idle, TaskRow, NoForm, FormRow, Pcs
<1>3. task = [u \in Users |-> Idle]
  BY DEF Init
<1>. QED BY <1>1, <1>2, <1>3 DEF ChartIInv, Waits

\* A request begins with what it has read.
LEMMA BeginWaits ==
  ASSUME ChartIInv, NEW u \in Users, NEW t \in TaskRow, Begin(u, t),
         t.pc \in {"create", "update"} => t.form \in AccountForm /\ Validated(t.form.company, t.form.code, t.form.parent),
         t.pc = "delete" => t.form.company \in Companies /\ t.form.code \in Codes,
         t.pc = "delete company" => t.form.company \in Companies,
         t.pc = "delete project" => t.project \in Projects,
         t.pc = "update" /\ ~t.gone => Exists(t.form.company, t.form.code)
  PROVE  ChartIInv' /\ UNCHANGED tables
<1>1. task' = [task EXCEPT ![u] = t] /\ UNCHANGED <<tables, stale>>
  BY DEF Begin
<1>2. UNCHANGED <<company, account, project, entry, budget>>
  BY <1>1 DEF tables
<1>3. task' \in [Users -> TaskRow]
  BY <1>1 DEF ChartIInv
<1>4. ASSUME NEW w \in Users PROVE Waits(w)'
  <2>1. CASE w = u
    <3>1. task'[w] = t
      BY <1>1, <2>1 DEF ChartIInv
    <3>. QED BY <1>1, <1>2, <3>1 DEF Waits, Exists, Validated
  <2>2. CASE w # u
    <3>1. task'[w] = task[w] /\ Waits(w)
      BY <1>1, <2>2 DEF ChartIInv
    <3>. QED BY <1>1, <1>2, <3>1 DEF Waits, Exists, Validated
  <2>. QED BY <2>1, <2>2
<1>. QED BY <1>1, <1>2, <1>3, <1>4 DEF ChartIInv

\* A commit makes the others' reads stale when it changes a table.
LEMMA CommitWaits ==
  ASSUME ChartIInv, NEW u \in Users, Commit(u),
         Keyed(company, account, project, entry, budget)'
  PROVE  ChartIInv'
<1>1. task' = [w \in Users |-> IF w = u THEN Idle ELSE [task[w] EXCEPT !.gone = @ \/ Lost(task[w])]]
  BY DEF Commit
<1>2. Idle \in TaskRow /\ Idle.pc = "idle"
  BY DEF Idle, TaskRow, NoForm, FormRow, Pcs
<1>3. ASSUME NEW w \in Users, w # u
      PROVE  /\ task'[w] \in TaskRow /\ task'[w].pc = task[w].pc /\ task'[w].form = task[w].form
             /\ task'[w].project = task[w].project /\ (task'[w].gone <=> task[w].gone \/ Lost(task[w]))
  <2>1. task'[w] = [task[w] EXCEPT !.gone = @ \/ Lost(task[w])] /\ task[w] \in TaskRow
    BY <1>1, <1>3 DEF ChartIInv
  <2>2. Lost(task[w]) \in BOOLEAN
    BY DEF Lost
  <2>3. task[w].gone \/ Lost(task[w]) \in BOOLEAN
    BY <2>2
  <2>. DEFINE g == task[w].gone \/ Lost(task[w])
  <2>4. task'[w] = [task[w] EXCEPT !.gone = g]
    BY <2>1
  <2>. HIDE DEF g
  <2>5. /\ task'[w] \in TaskRow /\ task'[w].pc = task[w].pc /\ task'[w].form = task[w].form
        /\ task'[w].project = task[w].project /\ task'[w].gone = g
    BY <2>1, <2>3, <2>4 DEF TaskRow, g
  <2>. QED BY <2>5 DEF g
<1>4. task'[u] = Idle
  BY <1>1
<1>5. task' \in [Users -> TaskRow]
  BY <1>1, <1>2, <1>3, <1>4
<1>6. ASSUME NEW w \in Users PROVE Waits(w)'
  <2>1. CASE w = u
    BY <1>2, <1>4, <2>1 DEF Waits
  <2>2. CASE w # u
    <3>1. Waits(w) /\ task[w] \in TaskRow
      BY DEF ChartIInv
    <3>2. /\ task'[w].pc = task[w].pc /\ task'[w].form = task[w].form
          /\ task'[w].project = task[w].project /\ (task'[w].gone <=> task[w].gone \/ Lost(task[w]))
      BY <1>3, <2>2
    <3>3. task[w].pc = "update" /\ ~task'[w].gone => Exists(task[w].form.company, task[w].form.code)'
      BY <3>1, <3>2 DEF Waits, Lost, Exists
    <3>4. w \notin stale' /\ task[w].pc \in {"create", "update"} => w \notin stale /\ account' = account
      <4>1. SUFFICES ASSUME w \notin stale', task[w].pc \in {"create", "update"} PROVE w \notin stale /\ account' = account
        OBVIOUS
      <4>2. stale' = IF tables' = tables THEN stale \ {u} ELSE {x \in Users \ {u} : ~At(x, "idle")}
        BY DEF Commit
      <4>3. ~At(w, "idle")
        BY <4>1 DEF At
      <4>4. tables' = tables
        BY <2>2, <4>1, <4>2, <4>3
      <4>. QED BY <2>2, <4>1, <4>2, <4>4 DEF tables
    <3>5. w \notin stale' /\ task[w].pc \in {"create", "update"}
             => Validated(task[w].form.company, task[w].form.code, task[w].form.parent)'
      BY <3>1, <3>2, <3>4 DEF Waits, Validated, Exists
    <3>. QED BY <3>1, <3>2, <3>3, <3>5 DEF Waits
  <2>. QED BY <2>1, <2>2
<1>. QED BY <1>5, <1>6 DEF ChartIInv

-----------------------------------------------------------------------------
(* Each action.                                                            *)

\* No chart gets a circle.
StaysForest == \A c \in Companies : Acyclic(account[c]) => Acyclic(account'[c])

LEMMA PutRow ==
  ASSUME ChartIInv, NEW f \in AccountForm
  PROVE  /\ Put(account, f) \in [Companies -> ChartTable]
         /\ \A c \in Companies, x \in Codes :
              Put(account, f)[c][x] = IF c = f.company /\ x = f.code THEN Row(f) ELSE account[c][x]
         /\ Row(f) # NoAccount /\ Row(f).parent = f.parent
<1>1. account \in [Companies -> ChartTable]
  BY DEF ChartIInv, Keyed
<1>2. /\ f.company \in Companies /\ f.code \in Codes /\ f.type \in Types
      /\ Row(f) = [type |-> f.type, parent |-> f.parent, ic |-> f.ic] /\ Row(f) \in AccountRow
  BY DEF AccountForm, Row, AccountRow
<1>3. f.type # "none"
  BY <1>2 DEF Types, Range, ACCOUNT_TYPES
<1>4. Row(f) # NoAccount
  BY <1>2, <1>3 DEF NoAccount
<1>. HIDE DEF Row
<1>5. Put(account, f) = [account EXCEPT ![f.company][f.code] = Row(f)]
  BY DEF Put
<1>6. Row(f).parent = f.parent
  BY <1>2
<1>. QED BY <1>1, <1>2, <1>4, <1>5, <1>6 DEF ChartTable

LEMMA PutForest ==
  ASSUME ChartIInv, NEW f \in AccountForm, Validated(f.company, f.code, f.parent), account' = Put(account, f)
  PROVE  StaysForest
<1>. SUFFICES ASSUME NEW c \in Companies, Acyclic(account[c]) PROVE Acyclic(account'[c])
  BY DEF StaysForest
<1>1. account[c] \in ChartTable /\ account'[c] \in ChartTable
  BY PutRow DEF ChartIInv, Keyed
<1>2. Charted(account[c]) /\ Charted(account'[c])
  BY <1>1, TableIsCharted
<1>3. f.code \in Codes /\ f.company \in Companies /\ f.parent \in Codes \cup {NoCode}
  BY DEF AccountForm
<1>4. CASE c = f.company
  <2>1. account'[c][f.code].parent = f.parent /\ \A x \in Codes \ {f.code} : account'[c][x].parent = account[c][x].parent
    BY <1>3, <1>4, PutRow
  <2>2. f.code \notin Climb(account[c], f.parent)
    <3>1. CASE f.parent = NoCode
      BY <1>2, <3>1, ClimbNone
    <3>2. CASE f.parent # NoCode
      BY <1>4, <3>2 DEF Validated
    <3>. QED BY <3>1, <3>2
  <2>. QED BY <1>2, <1>3, <2>1, <2>2, PutKeepsForest
<1>5. CASE c # f.company
  <2>1. \A x \in Codes : account'[c][x] = account[c][x]
    BY <1>5, PutRow
  <2>2. account'[c] = account[c]
    BY <1>1, <2>1 DEF ChartTable
  <2>. QED BY <2>2
<1>. QED BY <1>4, <1>5

LEMMA IdleIs == Idle \in TaskRow /\ Idle.form \in FormRow /\ Idle.pc = "idle" /\ Idle.gone = FALSE
BY DEF Idle, TaskRow, NoForm, FormRow, Pcs

LEMMA ReadCreateStep ==
  ASSUME ChartIInv, NEW u \in Users, NEW f \in AccountForms, ReadCreate(u, f)
  PROVE  ChartIInv' /\ UNCHANGED account
<1>. DEFINE parent == IF f.parent = NoCode THEN Stem(f.code) ELSE f.parent
            g == [f EXCEPT !.parent = parent]
            t == [Idle EXCEPT !.pc = "create", !.form = g]
<1>1. f \in AccountForm
  BY FormAssumption
<1>2. parent \in Codes \cup {NoCode}
  BY <1>1, CodeAssumption DEF AccountForm
<1>3. Validated(f.company, f.code, parent) /\ Begin(u, t)
  BY DEF ReadCreate
<1>. HIDE DEF parent
<1>4. g \in AccountForm /\ g.company = f.company /\ g.code = f.code /\ g.parent = parent
  BY <1>1, <1>2 DEF AccountForm
<1>. HIDE DEF g
<1>5. t \in TaskRow /\ t.pc = "create" /\ t.form = g
  <2>1. g \in FormRow
    BY <1>4 DEF AccountForm, FormRow
  <2>. QED BY <2>1, IdleIs DEF TaskRow, Pcs
<1>. HIDE DEF t
<1>6. ChartIInv' /\ UNCHANGED tables
  BY <1>3, <1>4, <1>5, BeginWaits
<1>. QED BY <1>6 DEF tables

LEMMA ReadUpdateStep ==
  ASSUME ChartIInv, NEW u \in Users, NEW f \in AccountForms, ReadUpdate(u, f)
  PROVE  ChartIInv' /\ UNCHANGED account
<1>. DEFINE t == [Idle EXCEPT !.pc = "update", !.form = f]
<1>1. f \in AccountForm
  BY FormAssumption
<1>2. Validated(f.company, f.code, f.parent) /\ Begin(u, t) /\ Exists(f.company, f.code)
  BY DEF ReadUpdate
<1>3. t \in TaskRow /\ t.pc = "update" /\ t.form = f
  <2>1. f \in FormRow
    BY <1>1 DEF AccountForm, FormRow
  <2>. QED BY <2>1, IdleIs DEF TaskRow, Pcs
<1>. HIDE DEF t
<1>4. ChartIInv' /\ UNCHANGED tables
  BY <1>1, <1>2, <1>3, BeginWaits
<1>. QED BY <1>4 DEF tables

LEMMA ReadDeleteStep ==
  ASSUME ChartIInv, NEW u \in Users, NEW c \in Companies, NEW code \in Codes, ReadDelete(u, c, code)
  PROVE  ChartIInv' /\ UNCHANGED account
<1>. DEFINE t == [Idle EXCEPT !.pc = "delete", !.form.company = c, !.form.code = code]
<1>1. Begin(u, t)
  BY DEF ReadDelete
<1>2. t \in TaskRow /\ t.pc = "delete" /\ t.form.company = c /\ t.form.code = code
  BY IdleIs DEF TaskRow, FormRow, Pcs
<1>. HIDE DEF t
<1>3. ChartIInv' /\ UNCHANGED tables
  BY <1>1, <1>2, BeginWaits
<1>. QED BY <1>3 DEF tables

LEMMA ReadDeleteCompanyStep ==
  ASSUME ChartIInv, NEW u \in Users, NEW c \in Companies, ReadDeleteCompany(u, c)
  PROVE  ChartIInv' /\ UNCHANGED account
<1>. DEFINE t == [Idle EXCEPT !.pc = "delete company", !.form.company = c]
<1>1. Begin(u, t)
  BY DEF ReadDeleteCompany
<1>2. t \in TaskRow /\ t.pc = "delete company" /\ t.form.company = c
  BY IdleIs DEF TaskRow, FormRow, Pcs
<1>. HIDE DEF t
<1>3. ChartIInv' /\ UNCHANGED tables
  BY <1>1, <1>2, BeginWaits
<1>. QED BY <1>3 DEF tables

LEMMA ReadDeleteProjectStep ==
  ASSUME ChartIInv, NEW u \in Users, NEW p \in Projects, ReadDeleteProject(u, p)
  PROVE  ChartIInv' /\ UNCHANGED account
<1>. DEFINE t == [Idle EXCEPT !.pc = "delete project", !.project = p]
<1>1. Begin(u, t)
  BY DEF ReadDeleteProject
<1>2. t \in TaskRow /\ t.pc = "delete project" /\ t.project = p
  BY IdleIs DEF TaskRow, Pcs
<1>. HIDE DEF t
<1>3. ChartIInv' /\ UNCHANGED tables
  BY <1>1, <1>2, BeginWaits
<1>. QED BY <1>3 DEF tables

LEMMA WriteCreateStep ==
  ASSUME ChartIInv, NEW u \in Users, WriteCreate(u)
  PROVE  ChartIInv' /\ (u \notin stale => StaysForest)
<1>. DEFINE f == task[u].form
<1>1. /\ task[u].pc = "create" /\ f.company \in company /\ ~Exists(f.company, f.code)
      /\ account' = Put(account, f) /\ UNCHANGED <<company, project, entry, budget>> /\ Commit(u)
  BY DEF WriteCreate, At
<1>2. f \in AccountForm /\ (u \notin stale => Validated(f.company, f.code, f.parent))
  BY <1>1 DEF ChartIInv, Waits
<1>. HIDE DEF f
<1>3. /\ Keyed(company, account, project, entry, budget) /\ company \in SUBSET Companies
      /\ \A c \in Companies, x \in Codes : account[c][x] # NoAccount => c \in company
  BY DEF ChartIInv, Keyed
<1>4. Keyed(company, account', project, entry, budget)
  <2>1. \A c \in Companies, x \in Codes : account'[c][x] # NoAccount => c \in company
    BY <1>1, <1>2, <1>3, PutRow
  <2>2. \A c \in Companies, x \in Codes : account[c][x] # NoAccount => account'[c][x] # NoAccount
    BY <1>1, <1>2, PutRow
  <2>3. account' \in [Companies -> ChartTable]
    BY <1>1, <1>2, PutRow
  <2>. QED BY <1>3, <2>1, <2>2, <2>3, KeyedMore
<1>5. Keyed(company, account, project, entry, budget)'
  BY <1>1, <1>4
<1>. QED BY <1>1, <1>2, <1>5, CommitWaits, PutForest

LEMMA WriteUpdateStep ==
  ASSUME ChartIInv, NEW u \in Users, WriteUpdate(u)
  PROVE  ChartIInv' /\ (u \notin stale => StaysForest)
<1>. DEFINE f == task[u].form
<1>1. /\ task[u].pc = "update"
      /\ account' = (IF task[u].gone THEN account ELSE Put(account, f))
      /\ UNCHANGED <<company, project, entry, budget>> /\ Commit(u)
  BY DEF WriteUpdate, At
<1>2. /\ f \in AccountForm /\ (u \notin stale => Validated(f.company, f.code, f.parent))
      /\ ~task[u].gone => Exists(f.company, f.code)
  BY <1>1 DEF ChartIInv, Waits
<1>. HIDE DEF f
<1>3. /\ Keyed(company, account, project, entry, budget) /\ company \in SUBSET Companies
      /\ \A c \in Companies, x \in Codes : account[c][x] # NoAccount => c \in company
  BY DEF ChartIInv, Keyed
<1>4. CASE task[u].gone
  <2>1. account' = account
    BY <1>1, <1>4
  <2>2. Keyed(company, account, project, entry, budget)'
    BY <1>1, <1>3, <2>1
  <2>. QED BY <1>1, <2>1, <2>2, CommitWaits DEF StaysForest
<1>5. CASE ~task[u].gone
  <2>0. account' = Put(account, f) /\ f.company \in Companies /\ f.code \in Codes
    BY <1>1, <1>2, <1>5 DEF AccountForm
  <2>1. \A c \in Companies, x \in Codes : account'[c][x] # NoAccount => c \in company
    BY <2>0, <1>2, <1>3, <1>5, PutRow DEF Exists
  <2>2. \A c \in Companies, x \in Codes : account[c][x] # NoAccount => account'[c][x] # NoAccount
    BY <2>0, <1>2, PutRow
  <2>3. account' \in [Companies -> ChartTable]
    BY <2>0, <1>2, PutRow
  <2>4. Keyed(company, account', project, entry, budget)
    BY <1>3, <2>1, <2>2, <2>3, KeyedMore
  <2>5. Keyed(company, account, project, entry, budget)'
    BY <1>1, <2>4
  <2>. QED BY <1>1, <1>2, <2>0, <2>5, CommitWaits, PutForest
<1>. QED BY <1>4, <1>5

\* The lines as the handlers look them up.
LEMMA LineLooksUp ==
  ASSUME NEW i \in DOMAIN entry, NEW k \in DOMAIN entry[i].lines
  PROVE  <<i, k>> \in Lines /\ LineOf(<<i, k>>) = entry[i].lines[k]
BY DEF Lines, LineOf

LEMMA WriteDeleteStep ==
  ASSUME ChartIInv, NEW u \in Users, WriteDelete(u)
  PROVE  ChartIInv' /\ StaysForest
<1>. DEFINE f == task[u].form
<1>1. /\ task[u].pc = "delete"
      /\ task[u].gone \/ (OnAccount(f.company, f.code) = {} /\ BudgetsOf(f.company, f.code) = {})
      /\ account' = (IF task[u].gone THEN account ELSE [account EXCEPT ![f.company][f.code] = NoAccount])
      /\ UNCHANGED <<company, project, entry, budget>> /\ Commit(u)
  BY DEF WriteDelete, At
<1>2. f.company \in Companies /\ f.code \in Codes
  BY <1>1 DEF ChartIInv, Waits
<1>. HIDE DEF f
<1>3. Keyed(company, account, project, entry, budget) /\ account \in [Companies -> ChartTable]
  BY DEF ChartIInv, Keyed
<1>4. CASE task[u].gone
  <2>1. account' = account
    BY <1>1, <1>4
  <2>2. Keyed(company, account, project, entry, budget)'
    BY <1>1, <1>3, <2>1
  <2>. QED BY <1>1, <2>1, <2>2, CommitWaits DEF StaysForest
<1>5. CASE ~task[u].gone
  <2>1. account' = [account EXCEPT ![f.company][f.code] = NoAccount]
    BY <1>1, <1>5
  <2>2. ASSUME NEW i \in DOMAIN entry, NEW k \in DOMAIN entry[i].lines
        PROVE  ~(entry[i].company = f.company /\ entry[i].lines[k].code = f.code)
    BY <1>1, <1>5, LineLooksUp DEF OnAccount
  <2>3. \A b \in budget : ~(b.company = f.company /\ b.code = f.code)
    BY <1>1, <1>5 DEF BudgetsOf
  <2>4. Keyed(company, account', project, entry, budget)
    BY <1>2, <1>3, <2>1, <2>2, <2>3, KeyedLess
  <2>5. Keyed(company, account, project, entry, budget)'
    BY <1>1, <2>4
  <2>6. StaysForest
    <3>. SUFFICES ASSUME NEW c \in Companies, Acyclic(account[c]) PROVE Acyclic(account'[c])
      BY DEF StaysForest
    <3>1. account[c] \in ChartTable /\ account'[c] \in ChartTable
      BY <1>3, <2>4 DEF Keyed
    <3>2. Charted(account[c]) /\ Charted(account'[c])
      BY <3>1, TableIsCharted
    <3>3. \A x \in Codes \ {f.code} : account'[c][x].parent = account[c][x].parent
      BY <1>2, <1>3, <2>1 DEF ChartTable
    <3>4. CASE c = f.company
      <4>1. account'[c][f.code].parent = NoCode
        BY <1>2, <1>3, <2>1, <3>4 DEF ChartTable, NoAccount
      <4>2. f.code \notin Climb(account[c], account'[c][f.code].parent)
        BY <3>2, <4>1, ClimbNone
      <4>. QED BY <1>2, <3>2, <3>3, <4>2, PutKeepsForest
    <3>5. CASE c # f.company
      <4>1. account'[c] = account[c]
        BY <1>2, <1>3, <2>1, <3>5
      <4>. QED BY <4>1
    <3>. QED BY <3>4, <3>5
  <2>. QED BY <1>1, <2>5, <2>6, CommitWaits
<1>. QED BY <1>4, <1>5

LEMMA ImportChartStep ==
  ASSUME ChartIInv, NEW u \in Users, NEW c \in Companies, NEW rows \in Charts, ImportChart(u, c, rows)
  PROVE  ChartIInv'
<1>. DEFINE RowsOf(x) == {i \in DOMAIN rows : rows[i].code = x}
            Derived(f) == [f EXCEPT !.parent = IF @ = NoCode THEN Stem(f.code) ELSE @]
            new == [x \in Codes |-> IF RowsOf(x) = {} THEN account[c][x] ELSE Row(Derived(rows[Max(RowsOf(x))]))]
<1>1. c \in company /\ account' = [account EXCEPT ![c] = new] /\ UNCHANGED <<company, project, entry, budget>> /\ Commit(u)
  BY DEF ImportChart
<1>2. rows \in Seq(AccountForm)
  BY FormAssumption
<1>3. /\ Keyed(company, account, project, entry, budget) /\ account \in [Companies -> ChartTable]
      /\ company \in SUBSET Companies /\ \A d \in Companies, x \in Codes : account[d][x] # NoAccount => d \in company
  BY DEF ChartIInv, Keyed
<1>4. ASSUME NEW f \in AccountForm
      PROVE  Row(Derived(f)) \in AccountRow /\ Row(Derived(f)) # NoAccount
  <2>. DEFINE p == IF f.parent = NoCode THEN Stem(f.code) ELSE f.parent
  <2>1. p \in Codes \cup {NoCode}
    BY CodeAssumption DEF AccountForm
  <2>2. Derived(f) = [f EXCEPT !.parent = p]
    OBVIOUS
  <2>. HIDE DEF p, Derived
  <2>3. Derived(f) \in AccountForm
    BY <2>1, <2>2 DEF AccountForm
  <2>. QED BY <2>3, PutRow DEF AccountForm, Row, AccountRow
<1>5. ASSUME NEW x \in Codes
      PROVE  new[x] \in AccountRow \cup {NoAccount} /\ (account[c][x] # NoAccount => new[x] # NoAccount)
  <2>1. CASE RowsOf(x) = {}
    <3>1. new[x] = account[c][x]
      BY <2>1
    <3>. QED BY <1>3, <3>1 DEF ChartTable
  <2>2. CASE RowsOf(x) # {}
    <3>1. IsFiniteSet(RowsOf(x)) /\ RowsOf(x) \in SUBSET Int
      <4>1. DOMAIN rows = 1..Len(rows) /\ Len(rows) \in Nat
        BY <1>2
      <4>2. IsFiniteSet(DOMAIN rows) /\ RowsOf(x) \subseteq DOMAIN rows /\ DOMAIN rows \subseteq Int
        BY <4>1, FS_Interval
      <4>. HIDE DEF RowsOf
      <4>. QED BY <4>2, FS_Subset
    <3>2. Max(RowsOf(x)) \in RowsOf(x)
      <4>. HIDE DEF RowsOf
      <4>. QED BY <2>2, <3>1, MaxIsIn
    <3>3. rows[Max(RowsOf(x))] \in AccountForm
      BY <1>2, <3>2
    <3>4. new[x] = Row(Derived(rows[Max(RowsOf(x))]))
      BY <2>2
    <3>. HIDE DEF RowsOf, Derived, new
    <3>. QED BY <1>4, <3>3, <3>4
  <2>. QED BY <2>1, <2>2
<1>6. new \in ChartTable
  <2>1. new = [x \in Codes |-> new[x]]
    OBVIOUS
  <2>. HIDE DEF new
  <2>. QED BY <1>5, <2>1 DEF ChartTable
<1>. HIDE DEF new
<1>7. Keyed(company, account', project, entry, budget)
  <2>1. account' \in [Companies -> ChartTable]
    BY <1>1, <1>3, <1>6
  <2>2. \A d \in Companies, x \in Codes : /\ account[d][x] # NoAccount => account'[d][x] # NoAccount
                                          /\ account'[d][x] # NoAccount => d \in company
    BY <1>1, <1>3, <1>5
  <2>. QED BY <1>3, <2>1, <2>2, KeyedMore
<1>8. Keyed(company, account, project, entry, budget)'
  BY <1>1, <1>7
<1>. QED BY <1>1, <1>8, CommitWaits

\* The standard accounts of a company, and what account_integrity() must find
\* before they can close a circle.
LEMMA StandardTable ==
  ASSUME NEW tab \in ChartTable
  PROVE  /\ WithStandard(tab) \in ChartTable
         /\ \A x \in Codes : tab[x] # NoAccount => WithStandard(tab)[x] # NoAccount
         /\ Acyclic(tab) /\ OrphansIn(tab) = {} => Acyclic(WithStandard(tab))
<1>1. ASSUME NEW x \in Codes
      PROVE  /\ WithStandard(tab)[x] \in AccountRow \cup {NoAccount}
             /\ tab[x] # NoAccount => WithStandard(tab)[x] = tab[x]
  <2>1. CASE tab[x] = NoAccount /\ \E f \in Standard : f.code = x
    <3>. DEFINE f == CHOOSE f \in Standard : f.code = x
    <3>1. f \in Standard
      BY <2>1
    <3>2. WithStandard(tab)[x] = Row(f)
      BY <2>1 DEF WithStandard
    <3>. HIDE DEF f
    <3>. QED BY <2>1, <3>1, <3>2, StandardAssumption DEF Row
  <2>2. CASE ~(tab[x] = NoAccount /\ \E f \in Standard : f.code = x)
    <3>1. WithStandard(tab)[x] = tab[x]
      BY <2>2 DEF WithStandard
    <3>. QED BY <3>1 DEF ChartTable
  <2>. QED BY <2>1, <2>2
<1>2. WithStandard(tab) \in ChartTable
  <2>1. WithStandard(tab) = [x \in Codes |-> WithStandard(tab)[x]]
    BY DEF WithStandard
  <2>. QED BY <1>1, <2>1 DEF ChartTable
<1>3. ASSUME Acyclic(tab), OrphansIn(tab) = {}
      PROVE  Acyclic(WithStandard(tab))
  <2>1. ASSUME NEW x \in Codes, tab[x] # NoAccount, tab[x].parent # NoCode, tab[tab[x].parent] = NoAccount
        PROVE  FALSE
    <3>1. CASE tab[x].parent = x
      BY <2>1, <3>1
    <3>2. CASE tab[x].parent # x
      <4>1. Issue("orphan_parent", x) \in Issues(tab)
        BY <2>1, <3>2 DEF Issues
      <4>. QED BY <1>3, <4>1 DEF OrphansIn, Issue
    <3>. QED BY <3>1, <3>2
  <2>. QED BY <1>3, <2>1, StandardKeepsForest
<1>. QED BY <1>1, <1>2, <1>3

LEMMA ApplyStandardStep ==
  ASSUME ChartIInv, NEW u \in Users, NEW chosen \in SUBSET company, ApplyStandard(u, chosen)
  PROVE  /\ ChartIInv'
         /\ \A c \in Companies : Acyclic(account[c]) /\ OrphansIn(account[c]) = {} => Acyclic(account'[c])
<1>1. /\ account' = [c \in Companies |-> IF c \in chosen THEN WithStandard(account[c]) ELSE account[c]]
      /\ UNCHANGED <<company, project, entry, budget>> /\ Commit(u)
  BY DEF ApplyStandard
<1>2. /\ Keyed(company, account, project, entry, budget) /\ account \in [Companies -> ChartTable]
      /\ company \in SUBSET Companies /\ \A d \in Companies, x \in Codes : account[d][x] # NoAccount => d \in company
  BY DEF ChartIInv, Keyed
<1>3. ASSUME NEW c \in Companies
      PROVE  /\ account'[c] \in ChartTable
             /\ \A x \in Codes : account[c][x] # NoAccount => account'[c][x] # NoAccount
             /\ \A x \in Codes : account'[c][x] # NoAccount => c \in company
             /\ Acyclic(account[c]) /\ OrphansIn(account[c]) = {} => Acyclic(account'[c])
  <2>1. account[c] \in ChartTable
    BY <1>2
  <2>2. CASE c \in chosen
    <3>1. account'[c] = WithStandard(account[c])
      BY <1>1, <2>2
    <3>. QED BY <2>1, <2>2, <3>1, StandardTable
  <2>3. CASE c \notin chosen
    <3>1. account'[c] = account[c]
      BY <1>1, <2>3
    <3>. QED BY <1>2, <2>1, <3>1
  <2>. QED BY <2>2, <2>3
<1>4. account' \in [Companies -> ChartTable]
  BY <1>1, <1>3
<1>5. Keyed(company, account', project, entry, budget)
  BY <1>2, <1>3, <1>4, KeyedMore
<1>6. Keyed(company, account, project, entry, budget)'
  BY <1>1, <1>5
<1>. QED BY <1>1, <1>3, <1>6, CommitWaits

LEMMA CreateCompanyStep ==
  ASSUME ChartIInv, NEW u \in Users, NEW c \in Companies, NEW standard \in BOOLEAN, CreateCompany(u, c, standard)
  PROVE  ChartIInv' /\ StaysForest
<1>1. /\ c \notin company /\ company' = company \cup {c}
      /\ account' = (IF standard THEN [account EXCEPT ![c] = WithStandard(account[c])] ELSE account)
      /\ UNCHANGED <<project, entry, budget>> /\ Commit(u)
  BY DEF CreateCompany
<1>2. /\ Keyed(company, account, project, entry, budget) /\ account \in [Companies -> ChartTable]
      /\ company \in SUBSET Companies /\ \A d \in Companies, x \in Codes : account[d][x] # NoAccount => d \in company
  BY DEF ChartIInv, Keyed
<1>3. account[c] \in ChartTable /\ \A x \in Codes : account[c][x] = NoAccount
  BY <1>1, <1>2
<1>4. OrphansIn(account[c]) = {}
  BY <1>3 DEF OrphansIn, Issues
<1>5. /\ account' \in [Companies -> ChartTable]
      /\ \A d \in Companies : d # c => account'[d] = account[d]
      /\ account'[c] = account[c] \/ account'[c] = WithStandard(account[c])
  <2>1. WithStandard(account[c]) \in ChartTable
    BY <1>3, StandardTable
  <2>. QED BY <1>1, <1>2, <2>1
<1>6. \A d \in Companies, x \in Codes : /\ account[d][x] # NoAccount => account'[d][x] # NoAccount
                                        /\ account'[d][x] # NoAccount => d \in company'
  BY <1>1, <1>2, <1>3, <1>5
<1>7. company' \in SUBSET Companies /\ company \subseteq company'
  BY <1>1, <1>2
<1>8. Keyed(company', account', project, entry, budget)
  BY <1>2, <1>5, <1>6, <1>7, KeyedMore
<1>9. Keyed(company, account, project, entry, budget)'
  BY <1>1, <1>8
<1>10. ASSUME NEW d \in Companies, Acyclic(account[d]) PROVE Acyclic(account'[d])
  <2>1. CASE d # c
    BY <1>5, <1>10, <2>1
  <2>2. CASE d = c
    BY <1>3, <1>4, <1>5, <1>10, <2>2, StandardTable
  <2>. QED BY <2>1, <2>2
<1>. QED BY <1>1, <1>9, <1>10, CommitWaits DEF StaysForest

LEMMA WriteDeleteCompanyStep ==
  ASSUME ChartIInv, NEW u \in Users, WriteDeleteCompany(u)
  PROVE  ChartIInv' /\ StaysForest
<1>. DEFINE c == task[u].form.company
<1>1. /\ task[u].pc = "delete company" /\ ~HeldBack(c) /\ company' = company \ {c}
      /\ account' = [account EXCEPT ![c] = [code \in Codes |-> NoAccount]]
      /\ project' = [p \in Projects |-> IF project[p] = c THEN NoCompany ELSE project[p]]
      /\ entry' = Restrict(entry, {i \in DOMAIN entry : entry[i].company # c})
      /\ budget' = {b \in budget : b.company # c} /\ Commit(u)
  BY DEF WriteDeleteCompany, At
<1>2. c \in Companies
  BY <1>1 DEF ChartIInv, Waits
<1>. HIDE DEF c
<1>3. Keyed(company, account, project, entry, budget) /\ account \in [Companies -> ChartTable]
  BY DEF ChartIInv, Keyed
<1>4. ASSUME NEW i \in DOMAIN entry, NEW k \in DOMAIN entry[i].lines,
             entry[i].company # c, entry[i].lines[k].project # NoProject
      PROVE  project[entry[i].lines[k].project] # c
  <2>1. <<i, k>> \in Lines /\ LineOf(<<i, k>>) = entry[i].lines[k] /\ <<i, k>>[1] = i
    BY LineLooksUp
  <2>. QED BY <1>1, <1>4, <2>1 DEF HeldBack
<1>5. \A b \in budget : b.company # c /\ b.project # NoProject => project[b.project] # c
  BY <1>1 DEF HeldBack
<1>6. Keyed(company, account, project, entry, budget)'
  <2>1. Keyed(company \ {c}, ChartsWithout(account, c), ProjectsWithout(project, c), EntriesWithout(entry, c),
              BudgetsWithout(budget, c))
    BY <1>2, <1>3, <1>4, <1>5, KeyedWithout
  <2>. QED BY <1>1, <2>1 DEF ChartsWithout, ProjectsWithout, EntriesWithout, BudgetsWithout
<1>7. ASSUME NEW d \in Companies, Acyclic(account[d]) PROVE Acyclic(account'[d])
  <2>1. CASE d # c
    BY <1>1, <1>3, <1>7, <2>1
  <2>2. CASE d = c
    <3>1. account'[d] \in ChartTable /\ \A x \in Codes : account'[d][x].parent = NoCode
      BY <1>1, <1>2, <1>3, <2>2 DEF ChartTable, NoAccount
    <3>. QED BY <3>1, ClimbNone, TableIsCharted DEF Acyclic
  <2>. QED BY <2>1, <2>2
<1>. QED BY <1>1, <1>6, <1>7, CommitWaits DEF StaysForest

LEMMA CreateProjectStep ==
  ASSUME ChartIInv, NEW u \in Users, NEW p \in Projects, NEW c \in Companies, CreateProject(u, p, c)
  PROVE  ChartIInv' /\ UNCHANGED account
<1>1. /\ c \in company /\ project' = [project EXCEPT ![p] = c]
      /\ UNCHANGED <<company, account, entry, budget>> /\ Commit(u)
  BY DEF CreateProject
<1>2. c # NoCompany
  BY NameAssumption
<1>3. Keyed(company, account, project, entry, budget)
  BY DEF ChartIInv
<1>4. Keyed(company, account, project', entry, budget)
  BY <1>1, <1>2, <1>3, KeyedProject
<1>5. Keyed(company, account, project, entry, budget)'
  BY <1>1, <1>4
<1>. QED BY <1>1, <1>5, CommitWaits

LEMMA WriteDeleteProjectStep ==
  ASSUME ChartIInv, NEW u \in Users, WriteDeleteProject(u)
  PROVE  ChartIInv' /\ UNCHANGED account
<1>. DEFINE p == task[u].project
            bu2 == {b \in budget : b.project # p}
<1>1. /\ task[u].pc = "delete project" /\ OnProject(p) = {} /\ budget' = bu2
      /\ project' = [project EXCEPT ![p] = NoCompany] /\ UNCHANGED <<company, account, entry>> /\ Commit(u)
  BY DEF WriteDeleteProject, At
<1>2. p \in Projects
  BY <1>1 DEF ChartIInv, Waits
<1>. HIDE DEF p
<1>3. Keyed(company, account, project, entry, budget)
  BY DEF ChartIInv
<1>4. ASSUME NEW i \in DOMAIN entry, NEW k \in DOMAIN entry[i].lines
      PROVE  entry[i].lines[k].project # p
  BY <1>1, LineLooksUp DEF OnProject
<1>5. bu2 \in SUBSET budget /\ \A b \in bu2 : b.project # p
  OBVIOUS
<1>. HIDE DEF bu2
<1>6. Keyed(company, account, [project EXCEPT ![p] = NoCompany], entry, bu2)
  BY <1>2, <1>3, <1>4, <1>5, KeyedProject
<1>7. Keyed(company, account, project, entry, budget)'
  BY <1>1, <1>6
<1>. QED BY <1>1, <1>7, CommitWaits

LEMMA PostEntryStep ==
  ASSUME ChartIInv, NEW u \in Users, NEW e \in EntryForms, PostEntry(u, e)
  PROVE  ChartIInv' /\ UNCHANGED account
<1>1. /\ e.company \in company /\ Fits(e, account[e.company], project) /\ entry' = WithEntry(entry, e)
      /\ UNCHANGED <<company, account, project, budget>> /\ Commit(u)
  BY DEF PostEntry, WithEntry, NextId
<1>2. e \in EntryRow
  BY FormAssumption
<1>3. Keyed(company, account, project, entry, budget)
  BY DEF ChartIInv
<1>4. Keyed(company, account, project, WithEntry(entry, e), budget)
  BY <1>1, <1>2, <1>3, KeyedEntry
<1>5. Keyed(company, account, project, entry, budget)'
  BY <1>1, <1>4
<1>. QED BY <1>1, <1>5, CommitWaits

LEMMA SetCashStep ==
  ASSUME ChartIInv, NEW u \in Users, NEW choice, SetCash(u, choice)
  PROVE  ChartIInv' /\ UNCHANGED account
<1>1. UNCHANGED <<company, account, project, entry, budget>> /\ Commit(u)
  BY DEF SetCash
<1>2. Keyed(company, account, project, entry, budget)'
  BY <1>1 DEF ChartIInv
<1>. QED BY <1>1, <1>2, CommitWaits

LEMMA AbortStep ==
  ASSUME ChartIInv, NEW u \in Users, Abort(u)
  PROVE  ChartIInv' /\ UNCHANGED account
<1>1. UNCHANGED <<company, account, project, entry, budget>> /\ Commit(u)
  BY DEF Abort, tables
<1>2. Keyed(company, account, project, entry, budget)'
  BY <1>1 DEF ChartIInv
<1>. QED BY <1>1, <1>2, CommitWaits

-----------------------------------------------------------------------------
(* The theorems about the charts.                                          *)

\* How a chart may get a circle: an overtaken request, an imported sheet, or
\* standard accounts above orphans.
Explained(c) ==
    \/ \E u \in stale : ~At(u, "idle") /\ task'[u] = Idle
    \/ \E u \in Users : Import(u)
    \/ OrphansIn(account[c]) # {} /\ \E u \in Users : Standardize(u)
StepKeepsForest == \A c \in Companies : Acyclic(account[c]) /\ ~Acyclic(account'[c]) => Explained(c)

LEMMA OwnWrite ==
  ASSUME NEW u \in Users, u \in stale => ~At(u, "idle"), Commit(u), u \notin stale => StaysForest
  PROVE  StepKeepsForest
<1>1. task'[u] = Idle
  BY DEF Commit
<1>. QED BY <1>1 DEF StepKeepsForest, Explained, StaysForest

LEMMA ChartStep ==
  ASSUME ChartIInv, Next
  PROVE  ChartIInv' /\ StepKeepsForest
<1>1. ASSUME UNCHANGED account PROVE StepKeepsForest
  BY <1>1 DEF StepKeepsForest
<1>2. ASSUME StaysForest PROVE StepKeepsForest
  BY <1>2 DEF StepKeepsForest, StaysForest
<1>. SUFFICES ASSUME NEW u \in Users,
        \/ \E f \in AccountForms : ReadCreate(u, f) \/ ReadUpdate(u, f)
        \/ \E c \in Companies, code \in Codes : ReadDelete(u, c, code)
        \/ WriteCreate(u) \/ WriteUpdate(u) \/ WriteDelete(u)
        \/ Import(u) \/ Standardize(u)
        \/ \E c \in Companies : \/ \E standard \in BOOLEAN : CreateCompany(u, c, standard)
                                \/ ReadDeleteCompany(u, c)
                                \/ \E p \in Projects : CreateProject(u, p, c)
        \/ WriteDeleteCompany(u)
        \/ \E p \in Projects : ReadDeleteProject(u, p)
        \/ WriteDeleteProject(u)
        \/ \E e \in EntryForms : PostEntry(u, e)
        \/ \E choice \in CashChoices : SetCash(u, choice)
        \/ Abort(u)
      PROVE  ChartIInv' /\ StepKeepsForest
  BY DEF Next
<1>3. CASE \E f \in AccountForms : ReadCreate(u, f) \/ ReadUpdate(u, f)
  BY <1>1, <1>3, ReadCreateStep, ReadUpdateStep
<1>4. CASE \E c \in Companies, code \in Codes : ReadDelete(u, c, code)
  BY <1>1, <1>4, ReadDeleteStep
<1>5. CASE WriteCreate(u)
  <2>1. ~At(u, "idle") /\ Commit(u)
    BY <1>5 DEF WriteCreate, At
  <2>. QED BY <1>5, <2>1, OwnWrite, WriteCreateStep
<1>6. CASE WriteUpdate(u)
  <2>1. ~At(u, "idle") /\ Commit(u)
    BY <1>6 DEF WriteUpdate, At
  <2>. QED BY <1>6, <2>1, OwnWrite, WriteUpdateStep
<1>7. CASE WriteDelete(u)
  BY <1>2, <1>7, WriteDeleteStep
<1>8. CASE Import(u)
  <2>1. ChartIInv'
    BY <1>8, ImportChartStep DEF Import
  <2>2. StepKeepsForest
    BY <1>8 DEF StepKeepsForest, Explained
  <2>. QED BY <2>1, <2>2
<1>9. CASE Standardize(u)
  <2>1. PICK chosen \in SUBSET company : ApplyStandard(u, chosen)
    BY <1>9 DEF Standardize
  <2>2. /\ ChartIInv'
        /\ \A c \in Companies : Acyclic(account[c]) /\ OrphansIn(account[c]) = {} => Acyclic(account'[c])
    BY <2>1, ApplyStandardStep
  <2>3. StepKeepsForest
    BY <1>9, <2>2 DEF StepKeepsForest, Explained
  <2>. QED BY <2>2, <2>3
<1>10. CASE \E c \in Companies : \/ \E standard \in BOOLEAN : CreateCompany(u, c, standard)
                                 \/ ReadDeleteCompany(u, c)
                                 \/ \E p \in Projects : CreateProject(u, p, c)
  BY <1>1, <1>2, <1>10, CreateCompanyStep, ReadDeleteCompanyStep, CreateProjectStep
<1>11. CASE WriteDeleteCompany(u)
  BY <1>2, <1>11, WriteDeleteCompanyStep
<1>12. CASE \E p \in Projects : ReadDeleteProject(u, p)
  BY <1>1, <1>12, ReadDeleteProjectStep
<1>13. CASE WriteDeleteProject(u)
  BY <1>1, <1>13, WriteDeleteProjectStep
<1>14. CASE \E e \in EntryForms : PostEntry(u, e)
  BY <1>1, <1>14, PostEntryStep
<1>15. CASE \E choice \in CashChoices : SetCash(u, choice)
  BY <1>1, <1>15, SetCashStep
<1>16. CASE Abort(u)
  BY <1>1, <1>16, AbortStep
<1>. QED BY <1>3, <1>4, <1>5, <1>6, <1>7, <1>8, <1>9, <1>10, <1>11, <1>12, <1>13, <1>14, <1>15, <1>16

LEMMA ChartStutter ==
  ASSUME ChartIInv, UNCHANGED vars
  PROVE  ChartIInv'
<1>1. UNCHANGED <<company, account, project, entry, budget, task, stale>>
  BY DEF vars
<1>2. Keyed(company, account, project, entry, budget)'
  BY <1>1 DEF ChartIInv
<1>3. \A u \in Users : Waits(u)'
  BY <1>1 DEF ChartIInv, Waits, Exists, Validated
<1>4. (task \in [Users -> TaskRow])'
  BY <1>1 DEF ChartIInv
<1>. QED BY <1>2, <1>3, <1>4 DEF ChartIInv

\* The invariant of the charts: keys hold, and who is not overtaken would be
\* let through again.
LEMMA ChartInvariance == Spec => []ChartIInv
<1>1. Init => ChartIInv
  BY ChartStart
<1>2. ChartIInv /\ [Next]_vars => ChartIInv'
  BY ChartStep, ChartStutter
<1>. QED BY <1>1, <1>2, PTL DEF Spec

\* No line, budget or project of apps/erp is left without the account,
\* company or project it refers to, and every entry balances.
THEOREM NothingDangles == Spec => []TypeOK
<1>1. ChartIInv => TypeOK
  <2>. DEFINE db == [company |-> company, account |-> account, project |-> project, entry |-> entry, budget |-> budget]
  <2>1. /\ db.company = company /\ db.account = account /\ db.project = project
        /\ db.entry = entry /\ db.budget = budget
    OBVIOUS
  <2>2. TypeOK <=> Sound(db)
    BY DEF TypeOK
  <2>. HIDE DEF db
  <2>. QED BY <2>1, <2>2, SoundIsKeyed DEF ChartIInv
<1>. QED BY <1>1, ChartInvariance, PTL

\* A chart of accounts becomes circular only through a request another one has
\* overtaken, an imported sheet, or the standard chart above orphans.
THEOREM ChartsStayForests == Spec => ChartKeepsForest
<1>1. ASSUME ChartIInv, [Next]_vars
      PROVE  [\A c \in Companies : Forest(c) /\ ~Forest(c)' =>
                \/ \E u \in stale : ~At(u, "idle") /\ task'[u] = Idle
                \/ \E u \in Users : Import(u)
                \/ Orphans(c) # {} /\ \E u \in Users : Standardize(u)]_vars
  <2>. SUFFICES ASSUME ~(UNCHANGED vars)
                PROVE  \A c \in Companies : Forest(c) /\ ~Forest(c)' =>
                          \/ \E u \in stale : ~At(u, "idle") /\ task'[u] = Idle
                          \/ \E u \in Users : Import(u)
                          \/ Orphans(c) # {} /\ \E u \in Users : Standardize(u)
    OBVIOUS
  <2>1. ChartIInv' /\ StepKeepsForest
    BY <1>1, ChartStep
  <2>. SUFFICES ASSUME NEW c \in Companies, Forest(c), ~Forest(c)'
                PROVE  \/ \E u \in stale : ~At(u, "idle") /\ task'[u] = Idle
                       \/ \E u \in Users : Import(u)
                       \/ Orphans(c) # {} /\ \E u \in Users : Standardize(u)
    OBVIOUS
  <2>2. account[c] \in ChartTable /\ account'[c] \in ChartTable
    BY <1>1, <2>1 DEF ChartIInv, Keyed
  <2>3. account_integrity(c) = Issues(account[c]) /\ Orphans(c) = OrphansIn(account[c])
    BY DEF account_integrity, Issues, Orphans, OrphansIn, Exists
  <2>4. account_integrity(c)' = Issues(account'[c]) /\ Orphans(c)' = OrphansIn(account'[c])
    BY DEF account_integrity, Issues, Orphans, OrphansIn, Exists
  <2>5. Acyclic(account[c])
    BY <2>2, <2>3, ForestIsAcyclic DEF Forest
  <2>6. ~Acyclic(account'[c])
    BY <2>2, <2>4, ForestIsAcyclic DEF Forest
  <2>. QED BY <2>1, <2>3, <2>5, <2>6 DEF StepKeepsForest, Explained
<1>. QED BY <1>1, ChartInvariance, PTL DEF Spec, ChartKeepsForest

-----------------------------------------------------------------------------
(* Sums of debits and credits.                                             *)

\* Lines, finitely many, with amounts.
Money(S) == IsFiniteSet(S) /\ \A l \in S : l.debit \in Nat /\ l.credit \in Nat
Moved(S) == [l \in S |-> l.debit - l.credit]

LEMMA MoneyPart == ASSUME NEW S, Money(S), NEW P \in SUBSET S PROVE Money(P)
BY FS_Subset DEF Money

LEMMA DebitsCredits ==
  ASSUME NEW S, Money(S), NEW P \in SUBSET S
  PROVE  /\ Debits(P) = SumFunctionOnSet([l \in S |-> l.debit], P)
         /\ Credits(P) = SumFunctionOnSet([l \in S |-> l.credit], P)
         /\ Debits(P) \in Nat /\ Credits(P) \in Nat
<1>1. Money(P) /\ IsFiniteSet(P)
  BY MoneyPart DEF Money
<1>2. \A l \in P : l.debit \in Nat /\ l.credit \in Nat
  BY <1>1 DEF Money
<1>. DEFINE d == [l \in P |-> l.debit]
            c == [l \in P |-> l.credit]
            dd == [l \in S |-> l.debit]
            cc == [l \in S |-> l.credit]
<1>3. Debits(P) = SumFunctionOnSet(d, P) /\ Credits(P) = SumFunctionOnSet(c, P)
  BY DEF Debits, Credits, SumFunction
<1>4. \A l \in P : d[l] = dd[l] /\ c[l] = cc[l] /\ d[l] \in Nat /\ c[l] \in Nat
  BY <1>2
<1>5. SumFunctionOnSet(d, P) = SumFunctionOnSet(dd, P) /\ SumFunctionOnSet(c, P) = SumFunctionOnSet(cc, P)
  <2>. HIDE DEF d, c, dd, cc
  <2>. QED BY <1>1, <1>4, SumSame
<1>6. SumFunctionOnSet(d, P) \in Nat /\ SumFunctionOnSet(c, P) \in Nat
  <2>. HIDE DEF d, c, dd, cc
  <2>. QED BY <1>1, <1>4, SumNat
<1>. QED BY <1>3, <1>5, <1>6

\* A net sum is a sum of what each line moves.
LEMMA NetIsMoved ==
  ASSUME NEW S, Money(S), NEW P \in SUBSET S
  PROVE  /\ Net(P) = SumFunctionOnSet(Moved(S), P)
         /\ Net(P) \in Int
         /\ \A l \in S : Moved(S)[l] = l.debit - l.credit /\ Moved(S)[l] \in Int
<1>. DEFINE d == [l \in S |-> l.debit]
            c == [l \in S |-> l.credit]
            n == [l \in S |-> 0 - l.credit]
            m == Moved(S)
<1>1. IsFiniteSet(P) /\ IsFiniteSet(S)
  BY FS_Subset DEF Money
<1>2. \A l \in S : l.debit \in Nat /\ l.credit \in Nat
  BY DEF Money
<1>3. \A l \in S : /\ d[l] \in Int /\ c[l] \in Int /\ n[l] \in Int /\ m[l] \in Int
                   /\ n[l] = -c[l] /\ m[l] = d[l] + n[l] /\ m[l] = l.debit - l.credit
  BY <1>2 DEF Moved
<1>4. /\ Debits(P) = SumFunctionOnSet(d, P) /\ Credits(P) = SumFunctionOnSet(c, P)
      /\ Debits(P) \in Nat /\ Credits(P) \in Nat
  BY DebitsCredits
<1>. HIDE DEF d, c, n, m
<1>5. SumFunctionOnSet(n, P) = -SumFunctionOnSet(c, P)
  BY <1>1, <1>3, SumNegative
<1>6. SumFunctionOnSet(m, P) = SumFunctionOnSet(d, P) + SumFunctionOnSet(n, P)
  BY <1>1, <1>3, SumPlus
<1>7. Net(P) = Debits(P) - Credits(P)
  BY DEF Net
<1>8. Net(P) = SumFunctionOnSet(m, P) /\ Net(P) \in Int
  BY <1>4, <1>5, <1>6, <1>7
<1>. QED BY <1>3, <1>8 DEF m

LEMMA NetEmpty == Net({}) = 0 /\ Debits({}) = 0 /\ Credits({}) = 0
<1>1. Money({})
  BY FS_EmptySet DEF Money
<1>. DEFINE d == [l \in {} |-> l.debit]
            c == [l \in {} |-> l.credit]
<1>2. Debits({}) = SumFunctionOnSet(d, {}) /\ Credits({}) = SumFunctionOnSet(c, {})
  BY <1>1, DebitsCredits
<1>3. SumFunctionOnSet(d, {}) = 0 /\ SumFunctionOnSet(c, {}) = 0
  BY SumEmpty
<1>. QED BY <1>2, <1>3 DEF Net

LEMMA NetInt == ASSUME NEW S, Money(S) PROVE Net(S) \in Int /\ Debits(S) \in Nat /\ Credits(S) \in Nat
BY NetIsMoved, DebitsCredits

\* Two parts.
LEMMA NetSplit ==
  ASSUME NEW S, Money(S), NEW P \in SUBSET S, NEW R, R = S \ P
  PROVE  /\ Net(S) = Net(P) + Net(R) /\ Net(P) \in Int /\ Net(R) \in Int
         /\ Debits(S) = Debits(P) + Debits(R) /\ Credits(S) = Credits(P) + Credits(R)
<1>. DEFINE d == [l \in S |-> l.debit]
            c == [l \in S |-> l.credit]
<1>1. IsFiniteSet(S) /\ S \in SUBSET S /\ R \in SUBSET S /\ S \ P = R
  BY DEF Money
<1>2. \A l \in S : d[l] \in Int /\ c[l] \in Int /\ Moved(S)[l] \in Int
  BY DEF Money, Moved
<1>3. \A T \in SUBSET S : /\ Net(T) = SumFunctionOnSet(Moved(S), T) /\ Net(T) \in Int
                          /\ Debits(T) = SumFunctionOnSet(d, T) /\ Credits(T) = SumFunctionOnSet(c, T)
  BY NetIsMoved, DebitsCredits
<1>. HIDE DEF d, c
<1>4. /\ SumFunctionOnSet(Moved(S), S) = SumFunctionOnSet(Moved(S), P) + SumFunctionOnSet(Moved(S), R)
      /\ SumFunctionOnSet(d, S) = SumFunctionOnSet(d, P) + SumFunctionOnSet(d, R)
      /\ SumFunctionOnSet(c, S) = SumFunctionOnSet(c, P) + SumFunctionOnSet(c, R)
  BY <1>1, <1>2, SumSplit
<1>. QED BY <1>1, <1>3, <1>4

\* Parts by a key.
LEMMA NetByKey ==
  ASSUME NEW S, Money(S), NEW K, IsFiniteSet(K), NEW key, \A l \in S : key[l] \in K,
         NEW g, \A k \in K : g[k] = Net(Bearing(S, key, k))
  PROVE  SumFunctionOnSet(g, K) = Net(S)
<1>1. IsFiniteSet(S) /\ S \in SUBSET S
  BY DEF Money
<1>2. \A k \in K : Bearing(S, key, k) \in SUBSET S
  BY DEF Bearing
<1>3. \A k \in K : g[k] = SumFunctionOnSet(Moved(S), Bearing(S, key, k))
  BY <1>2, NetIsMoved
<1>4. \A l \in S : Moved(S)[l] \in Int
  BY <1>1, NetIsMoved
<1>5. SumFunctionOnSet(g, K) = SumFunctionOnSet(Moved(S), S)
  BY <1>1, <1>3, <1>4, SumByKey
<1>. QED BY <1>1, <1>5, NetIsMoved

LEMMA DebitsByKey ==
  ASSUME NEW S, Money(S), NEW K, IsFiniteSet(K), NEW key, \A l \in S : key[l] \in K,
         NEW g, \A k \in K : g[k] = Debits(Bearing(S, key, k)),
         NEW h, \A k \in K : h[k] = Credits(Bearing(S, key, k))
  PROVE  SumFunctionOnSet(g, K) = Debits(S) /\ SumFunctionOnSet(h, K) = Credits(S)
<1>. DEFINE d == [l \in S |-> l.debit]
            c == [l \in S |-> l.credit]
<1>1. IsFiniteSet(S) /\ S \in SUBSET S
  BY DEF Money
<1>2. \A k \in K : Bearing(S, key, k) \in SUBSET S
  BY DEF Bearing
<1>3. \A T \in SUBSET S : Debits(T) = SumFunctionOnSet(d, T) /\ Credits(T) = SumFunctionOnSet(c, T)
  BY DebitsCredits
<1>4. \A l \in S : d[l] \in Int /\ c[l] \in Int
  BY DEF Money
<1>. HIDE DEF d, c
<1>5. \A k \in K : /\ g[k] = SumFunctionOnSet(d, Bearing(S, key, k))
                   /\ h[k] = SumFunctionOnSet(c, Bearing(S, key, k))
  BY <1>2, <1>3
<1>6. SumFunctionOnSet(g, K) = SumFunctionOnSet(d, S) /\ SumFunctionOnSet(h, K) = SumFunctionOnSet(c, S)
  BY <1>1, <1>4, <1>5, SumByKey
<1>. QED BY <1>1, <1>3, <1>6

-----------------------------------------------------------------------------
(* The journal.                                                            *)

OfEntry(J, i) == {l \in J : l.id[1] = i}

\* A line of the journal is on an account and a project that are there.
LineIs(l) ==
    /\ l.company \in company /\ l.company \in Companies /\ l.date \in Nat /\ l.code \in Codes
    /\ l.type \in Types /\ l.ic \in BOOLEAN /\ l.project \in Projects \cup {NoProject}
    /\ l.debit \in Nat /\ l.credit \in Nat
    /\ account[l.company][l.code] # NoAccount /\ l.type = account[l.company][l.code].type
    /\ l.project # NoProject => project[l.project] \in company
    /\ l.home = IF l.project # NoProject /\ l.type \in Earned THEN project[l.project] ELSE l.company

\* Lines are told apart by their id, lines of one entry have one company and
\* date, and entries balance.
Told(J) ==
    /\ Money(J)
    /\ \A l \in J : LineIs(l)
    /\ \A k, l \in J : k.id = l.id => k = l
    /\ \A k, l \in J : k.id[1] = l.id[1] => k.company = l.company /\ k.date = l.date
    /\ \A l \in J : Net(OfEntry(J, l.id[1])) = 0

JournalRow(l) ==
    LET e == entry[l[1]]
        x == e.lines[l[2]]
        a == account[e.company][x.code]
    IN  [id |-> l, company |-> e.company, date |-> e.date, code |-> x.code, type |-> a.type, ic |-> a.ic,
         project |-> x.project, debit |-> x.debit, credit |-> x.credit,
         home |-> IF x.project # NoProject /\ a.type \in Earned THEN project[x.project] ELSE e.company]
Posted == {k \in Lines : entry[k[1]].posted}

LEMMA JournalRows == Journal = {JournalRow(l) : l \in Posted}
BY DEF Journal, JournalRow, Posted

LEMMA RowId ==
  ASSUME NEW i, NEW k
  PROVE  JournalRow(<<i, k>>).id = <<i, k>> /\ JournalRow(<<i, k>>).id[1] = i /\ JournalRow(<<i, k>>).id[2] = k
BY DEF JournalRow

LEMMA RowEntry ==
  ASSUME NEW i, NEW k
  PROVE  JournalRow(<<i, k>>).company = entry[i].company /\ JournalRow(<<i, k>>).date = entry[i].date
BY DEF JournalRow

LEMMA RowMoney ==
  ASSUME NEW i, NEW k
  PROVE  /\ JournalRow(<<i, k>>).debit = entry[i].lines[k].debit
         /\ JournalRow(<<i, k>>).credit = entry[i].lines[k].credit
BY DEF JournalRow

LEMMA RowPlace ==
  ASSUME NEW i, NEW k
  PROVE  /\ JournalRow(<<i, k>>).code = entry[i].lines[k].code
         /\ JournalRow(<<i, k>>).project = entry[i].lines[k].project
BY DEF JournalRow

LEMMA RowAccount ==
  ASSUME NEW i, NEW k
  PROVE  LET e == entry[i]
             x == e.lines[k]
             a == account[e.company][x.code]
         IN  /\ JournalRow(<<i, k>>).type = a.type
             /\ JournalRow(<<i, k>>).ic = a.ic
BY DEF JournalRow

LEMMA RowHome ==
  ASSUME NEW i, NEW k
  PROVE  LET e == entry[i]
             x == e.lines[k]
             a == account[e.company][x.code]
         IN  JournalRow(<<i, k>>).home
               = IF x.project # NoProject /\ a.type \in Earned THEN project[x.project] ELSE e.company
BY DEF JournalRow

LEMMA LinesFinite ==
  ASSUME ChartIInv
  PROVE  /\ IsFiniteSet(Lines)
         /\ \A i, k : <<i, k>> \in Lines <=> i \in DOMAIN entry /\ k \in DOMAIN entry[i].lines
         /\ \A l \in Lines : l = <<l[1], l[2]>> /\ l[1] \in DOMAIN entry /\ l[2] \in DOMAIN entry[l[1]].lines
<1>. DEFINE Of1(i) == {<<i, k>> : k \in DOMAIN entry[i].lines}
            part == [i \in DOMAIN entry |-> Of1(i)]
<1>1. IsFiniteSet(DOMAIN entry) /\ \A i \in DOMAIN entry : entry[i] \in EntryRow
  BY DEF ChartIInv, Keyed
<1>2. ASSUME NEW i \in DOMAIN entry PROVE IsFiniteSet(part[i])
  <2>. DEFINE D == DOMAIN entry[i].lines
              m == [k \in D |-> <<i, k>>]
  <2>1. entry[i].lines \in Seq(LineRow)
    BY <1>1 DEF EntryRow
  <2>2. D = 1..Len(entry[i].lines) /\ Len(entry[i].lines) \in Nat
    BY <2>1
  <2>3. IsFiniteSet(D)
    BY <2>2, FS_Interval
  <2>4. IsFiniteSet({m[k] : k \in D})
    <3>. HIDE DEF m, D
    <3>. QED BY <2>3, ImageFinite
  <2>5. part[i] = {m[k] : k \in D}
    OBVIOUS
  <2>. QED BY <2>4, <2>5
<1>. DEFINE U == {part[i] : i \in DOMAIN entry}
<1>3. IsFiniteSet(U)
  <2>. HIDE DEF part
  <2>. QED BY <1>1, ImageFinite
<1>4. \A s \in U : IsFiniteSet(s)
  BY <1>2
<1>5. Lines = UNION U
  BY DEF Lines
<1>6. IsFiniteSet(UNION U)
  <2>. HIDE DEF U
  <2>. QED BY <1>3, <1>4, FS_UNION
<1>7. \A l : l \in Lines <=> \E i \in DOMAIN entry : \E k \in DOMAIN entry[i].lines : l = <<i, k>>
  BY DEF Lines
<1>. QED BY <1>5, <1>6, <1>7

LEMMA JournalFinite ==
  ASSUME ChartIInv
  PROVE  IsFiniteSet(Journal)
<1>. DEFINE m == [l \in Posted |-> JournalRow(l)]
<1>1. IsFiniteSet(Posted)
  BY LinesFinite, FS_Subset DEF Posted
<1>2. IsFiniteSet({m[l] : l \in Posted})
  <2>. HIDE DEF m
  <2>. QED BY <1>1, ImageFinite
<1>3. Journal = {m[l] : l \in Posted}
  BY JournalRows
<1>. QED BY <1>2, <1>3

LEMMA JournalLine ==
  ASSUME ChartIInv, NEW r \in Journal
  PROVE  \E i \in DOMAIN entry : \E k \in DOMAIN entry[i].lines :
            r = JournalRow(<<i, k>>) /\ entry[i].posted /\ LineIs(r)
<1>1. PICK l \in Posted : r = JournalRow(l)
  BY JournalRows
<1>2. PICK i \in DOMAIN entry : \E k \in DOMAIN entry[i].lines : l = <<i, k>>
  BY LinesFinite DEF Posted
<1>3. PICK k \in DOMAIN entry[i].lines : l = <<i, k>>
  BY <1>2
<1>4. entry[i].posted
  BY <1>2, <1>3 DEF Posted
<1>. DEFINE e == entry[i]
            x == e.lines[k]
            a == account[e.company][x.code]
<1>5. e \in EntryRow /\ e.company \in company /\ Fits(e, account[e.company], project) /\ company \subseteq Companies
  BY DEF ChartIInv, Keyed
<1>6. /\ e.company \in Companies /\ e.date \in Nat
      /\ x.code \in Codes /\ x.project \in Projects \cup {NoProject} /\ x.debit \in Nat /\ x.credit \in Nat
  BY <1>5, EntryTypes
<1>7. a # NoAccount /\ (x.project # NoProject => project[x.project] # NoCompany)
  BY <1>5 DEF Fits
<1>8. a.type \in Types /\ a.ic \in BOOLEAN
  <2>1. a \in AccountRow \cup {NoAccount}
    BY <1>6 DEF ChartIInv, Keyed, ChartTable
  <2>. HIDE DEF a
  <2>. QED BY <2>1, <1>7 DEF AccountRow
<1>9. x.project # NoProject => project[x.project] \in company
  <2>1. project \in [Projects -> company \cup {NoCompany}]
    BY DEF ChartIInv, Keyed
  <2>. QED BY <2>1, <1>6, <1>7
<1>10. /\ r.company = e.company /\ r.date = e.date /\ r.code = x.code
       /\ r.type = a.type /\ r.ic = a.ic /\ r.project = x.project /\ r.debit = x.debit /\ r.credit = x.credit
       /\ r.home = IF x.project # NoProject /\ a.type \in Earned THEN project[x.project] ELSE e.company
  <2>1. r.company = e.company /\ r.date = e.date
    BY <1>1, <1>3, RowEntry
  <2>2. r.code = x.code /\ r.project = x.project
    BY <1>1, <1>3, RowPlace
  <2>3. r.debit = x.debit /\ r.credit = x.credit
    BY <1>1, <1>3, RowMoney
  <2>4. r.type = a.type /\ r.ic = a.ic
    BY <1>1, <1>3, RowAccount
  <2>5. r.home = IF x.project # NoProject /\ a.type \in Earned THEN project[x.project] ELSE e.company
    BY <1>1, <1>3, RowHome
  <2>. QED BY <2>1, <2>2, <2>3, <2>4, <2>5
<1>11. LineIs(r)
  <2>1. account[r.company][r.code] = a
    BY <1>10
  <2>. HIDE DEF e, x, a
  <2>. QED BY <1>5, <1>6, <1>7, <1>8, <1>9, <1>10, <2>1 DEF LineIs
<1>. QED BY <1>1, <1>3, <1>4, <1>11

LEMMA JournalTold ==
  ASSUME ChartIInv
  PROVE  Told(Journal)
<1>. DEFINE J == Journal
<1>1. Money(J) /\ \A l \in J : LineIs(l)
  <2>1. IsFiniteSet(J)
    BY JournalFinite
  <2>2. ASSUME NEW l \in J PROVE LineIs(l)
    BY JournalLine
  <2>3. ASSUME NEW l \in J PROVE l.debit \in Nat /\ l.credit \in Nat
    BY <2>2 DEF LineIs
  <2>. HIDE DEF J
  <2>4. Money(J)
    BY <2>1, <2>3 DEF Money
  <2>. QED BY <2>2, <2>4
<1>2. ASSUME NEW k \in J, NEW l \in J
      PROVE  /\ k.id = l.id => k = l
             /\ k.id[1] = l.id[1] => k.company = l.company /\ k.date = l.date
  <2>1. PICK i1 \in DOMAIN entry : \E j1 \in DOMAIN entry[i1].lines : k = JournalRow(<<i1, j1>>)
    BY JournalLine
  <2>2. PICK j1 \in DOMAIN entry[i1].lines : k = JournalRow(<<i1, j1>>)
    BY <2>1
  <2>3. PICK i2 \in DOMAIN entry : \E j2 \in DOMAIN entry[i2].lines : l = JournalRow(<<i2, j2>>)
    BY JournalLine
  <2>4. PICK j2 \in DOMAIN entry[i2].lines : l = JournalRow(<<i2, j2>>)
    BY <2>3
  <2>5. /\ k.id = <<i1, j1>> /\ k.id[1] = i1 /\ k.company = entry[i1].company /\ k.date = entry[i1].date
        /\ l.id = <<i2, j2>> /\ l.id[1] = i2 /\ l.company = entry[i2].company /\ l.date = entry[i2].date
    <3>1. k.id = <<i1, j1>> /\ k.id[1] = i1 /\ l.id = <<i2, j2>> /\ l.id[1] = i2
      BY <2>2, <2>4, RowId
    <3>2. k.company = entry[i1].company /\ k.date = entry[i1].date /\ l.company = entry[i2].company /\ l.date = entry[i2].date
      BY <2>2, <2>4, RowEntry
    <3>. QED BY <3>1, <3>2
  <2>. QED BY <2>2, <2>4, <2>5
<1>3. ASSUME NEW l \in J PROVE Net(OfEntry(J, l.id[1])) = 0
  <2>1. PICK i \in DOMAIN entry : \E j \in DOMAIN entry[i].lines : l = JournalRow(<<i, j>>) /\ entry[i].posted
    BY JournalLine
  <2>2. l.id[1] = i
    BY <2>1, RowId
  <2>. DEFINE D == DOMAIN entry[i].lines
              m == [k \in D |-> JournalRow(<<i, k>>)]
              g == [k \in D |-> entry[i].lines[k].debit - entry[i].lines[k].credit]
              P == OfEntry(J, i)
  <2>3. entry[i] \in EntryRow /\ Balanced(entry[i])
    BY DEF ChartIInv, Keyed, Fits
  <2>4. IsFiniteSet(D)
    <3>1. D = 1..Len(entry[i].lines) /\ Len(entry[i].lines) \in Nat
      BY <2>3 DEF EntryRow
    <3>. QED BY <3>1, FS_Interval
  <2>5. \A k \in D : m[k] = JournalRow(<<i, k>>) /\ m[k].id = <<i, k>> /\ m[k].id[1] = i /\ m[k] \in J
    <3>. SUFFICES ASSUME NEW k \in D
                  PROVE  JournalRow(<<i, k>>).id = <<i, k>> /\ JournalRow(<<i, k>>).id[1] = i /\ JournalRow(<<i, k>>) \in J
      OBVIOUS
    <3>1. <<i, k>> \in Posted
      BY <2>1, LinesFinite DEF Posted
    <3>2. JournalRow(<<i, k>>) \in J
      BY <3>1, JournalRows
    <3>3. JournalRow(<<i, k>>).id = <<i, k>> /\ JournalRow(<<i, k>>).id[1] = i
      BY RowId
    <3>. QED BY <3>2, <3>3
  <2>6. P = {m[k] : k \in D}
    <3>1. {m[k] : k \in D} \subseteq P
      BY <2>5 DEF OfEntry
    <3>2. ASSUME NEW r \in P PROVE r \in {m[k] : k \in D}
      <4>1. r \in J /\ r.id[1] = i
        BY DEF OfEntry
      <4>2. PICK i2 \in DOMAIN entry : \E j2 \in DOMAIN entry[i2].lines : r = JournalRow(<<i2, j2>>)
        BY <4>1, JournalLine
      <4>3. i2 = i
        BY <4>1, <4>2, RowId
      <4>. QED BY <4>2, <4>3
    <3>. QED BY <3>1, <3>2
  <2>7. SumFunctionOnSet(g, D) = 0
    BY <2>3 DEF Balanced, SumFunction
  <2>8. ASSUME NEW k \in D PROVE g[k] \in Int /\ Moved(J)[m[k]] = g[k]
    <3>1. entry[i].lines[k].debit \in Nat /\ entry[i].lines[k].credit \in Nat
      BY <2>3, EntryTypes
    <3>2. m[k].debit = entry[i].lines[k].debit /\ m[k].credit = entry[i].lines[k].credit
      BY RowMoney
    <3>3. Moved(J)[m[k]] = m[k].debit - m[k].credit
      BY <1>1, <2>5, NetIsMoved
    <3>. QED BY <3>1, <3>2, <3>3
  <2>9. \A x, y \in D : m[x] = m[y] => x = y
    <3>1. \A x \in D : m[x].id[2] = x
      BY <2>5
    <3>. HIDE DEF m, D
    <3>. QED BY <3>1
  <2>10. SumFunctionOnSet(Moved(J), {m[k] : k \in D}) = SumFunctionOnSet(g, D)
    <3>. HIDE DEF m, g, D, J
    <3>. QED BY <2>4, <2>8, <2>9, SumImage
  <2>11. P \in SUBSET J
    BY DEF OfEntry
  <2>12. Net(P) = SumFunctionOnSet(Moved(J), P)
    <3>. HIDE DEF P, J
    <3>. QED BY <1>1, <2>11, NetIsMoved
  <2>. QED BY <2>2, <2>6, <2>7, <2>10, <2>12
<1>. QED BY <1>1, <1>2, <1>3 DEF Told

\* Lines that hold whole entries move nothing.
LEMMA WholeEntries ==
  ASSUME NEW J, Told(J), NEW T \in SUBSET J,
         \A k \in T, l \in J : k.id[1] = l.id[1] => l \in T
  PROVE  Net(T) = 0
<1>. DEFINE key == [l \in T |-> l.id[1]]
            K == {key[l] : l \in T}
            g == [k \in K |-> 0]
<1>1. Money(T) /\ IsFiniteSet(T)
  BY MoneyPart DEF Told, Money
<1>2. IsFiniteSet(K)
  <2>. HIDE DEF key
  <2>. QED BY <1>1, ImageFinite
<1>3. \A l \in T : key[l] \in K
  OBVIOUS
<1>4. ASSUME NEW k \in K PROVE g[k] = Net(Bearing(T, key, k))
  <2>1. PICK l \in T : k = l.id[1]
    OBVIOUS
  <2>2. Bearing(T, key, k) = OfEntry(J, k)
    BY <2>1 DEF Bearing, OfEntry
  <2>3. Net(OfEntry(J, k)) = 0
    BY <2>1 DEF Told
  <2>. QED BY <2>2, <2>3
<1>5. SumFunctionOnSet(g, K) = Net(T)
  <2>. HIDE DEF key, K, g
  <2>. QED BY <1>1, <1>2, <1>3, <1>4, NetByKey
<1>6. SumFunctionOnSet(g, K) = 0
  <2>1. \A k \in K : g[k] = 0
    OBVIOUS
  <2>. HIDE DEF K, g
  <2>. QED BY <1>2, <2>1, SumZero
<1>. QED BY <1>5, <1>6

-----------------------------------------------------------------------------
(* Account types.                                                          *)

LEMMA FirstFinite ==
  ASSUME NEW n \in Nat
  PROVE  IsFiniteSet(1..n)
<1>1. 1 \in Int /\ n \in Int
  OBVIOUS
<1>. QED BY <1>1, FS_Interval

LEMMA TypeNames ==
  /\ Types = {"asset", "equity", "expense", "liability", "revenue"} /\ IsFiniteSet(Types)
  /\ \A t \in Types : SIGN(t) \in {1, -1}
  /\ SIGN("asset") = 1 /\ SIGN("expense") = 1 /\ SIGN("equity") = -1 /\ SIGN("liability") = -1 /\ SIGN("revenue") = -1
<1>1. Types = {"asset", "equity", "expense", "liability", "revenue"}
  <2>1. DOMAIN ACCOUNT_TYPES = 1..5 /\ Types = {ACCOUNT_TYPES[i] : i \in DOMAIN ACCOUNT_TYPES}
    BY DEF Types, Range, ACCOUNT_TYPES
  <2>2. Types = {ACCOUNT_TYPES[i] : i \in {1, 2, 3, 4, 5}}
    <3>1. 1..5 = {1, 2, 3, 4, 5}
      OBVIOUS
    <3>. QED BY <2>1, <3>1
  <2>3. /\ ACCOUNT_TYPES[1] = "asset" /\ ACCOUNT_TYPES[2] = "equity" /\ ACCOUNT_TYPES[3] = "expense"
        /\ ACCOUNT_TYPES[4] = "liability" /\ ACCOUNT_TYPES[5] = "revenue"
    BY DEF ACCOUNT_TYPES
  <2>. QED BY <2>2, <2>3
<1>2. IsFiniteSet(Types)
  <2>1. DOMAIN ACCOUNT_TYPES = 1..5 /\ Types = {ACCOUNT_TYPES[i] : i \in DOMAIN ACCOUNT_TYPES}
    BY DEF Types, Range, ACCOUNT_TYPES
  <2>2. 5 \in Nat
    OBVIOUS
  <2>3. IsFiniteSet(1..5)
    BY <2>2, FirstFinite
  <2>. QED BY <2>1, <2>3, ImageFinite
<1>. QED BY <1>1, <1>2 DEF SIGN

Typed(S) == Money(S) /\ \A l \in S : l.type \in Types

LEMMA ToldIsTyped ==
  ASSUME NEW J, Told(J), NEW S \in SUBSET J
  PROVE  Typed(S) /\ \A l \in S : LineIs(l) /\ l.date \in Nat
BY MoneyPart DEF Told, Typed, LineIs

\* The five totals of a set of lines.
LEMMA NetOfTypes ==
  ASSUME NEW S, Typed(S)
  PROVE  /\ Net(S) = Net(Of(S, "asset")) + Net(Of(S, "equity")) + Net(Of(S, "expense"))
                     + Net(Of(S, "liability")) + Net(Of(S, "revenue"))
         /\ \A t \in Types : Net(Of(S, t)) \in Int
<1>. DEFINE R1 == S \ Of(S, "asset")
            R2 == R1 \ Of(S, "equity")
            R3 == R2 \ Of(S, "expense")
            R4 == Of(S, "revenue")
<1>1. /\ Of(S, "asset") \in SUBSET S /\ Of(S, "equity") \in SUBSET R1 /\ Of(S, "expense") \in SUBSET R2
      /\ Of(S, "liability") \in SUBSET R3
  BY DEF Of
<1>2. R4 = R3 \ Of(S, "liability")
  BY TypeNames DEF Of, Typed
<1>3. Money(S) /\ Money(R1) /\ Money(R2) /\ Money(R3)
  BY MoneyPart DEF Typed
<1>. HIDE DEF R1, R2, R3, R4
<1>4. /\ Net(S) = Net(Of(S, "asset")) + Net(R1) /\ Net(R1) = Net(Of(S, "equity")) + Net(R2)
      /\ Net(R2) = Net(Of(S, "expense")) + Net(R3) /\ Net(R3) = Net(Of(S, "liability")) + Net(R4)
  <2>1. Net(S) = Net(Of(S, "asset")) + Net(R1)
    BY <1>1, <1>3, NetSplit DEF R1
  <2>2. Net(R1) = Net(Of(S, "equity")) + Net(R2)
    BY <1>1, <1>3, NetSplit DEF R2
  <2>3. Net(R2) = Net(Of(S, "expense")) + Net(R3)
    BY <1>1, <1>3, NetSplit DEF R3
  <2>4. Net(R3) = Net(Of(S, "liability")) + Net(R4)
    BY <1>1, <1>2, <1>3, NetSplit
  <2>. QED BY <2>1, <2>2, <2>3, <2>4
<1>5. \A t \in Types : Net(Of(S, t)) \in Int
  <2>1. \A t \in Types : Of(S, t) \in SUBSET S
    BY DEF Of
  <2>. QED BY <1>3, <2>1, NetIsMoved
<1>. QED BY <1>4, <1>5, TypeNames DEF R4

EarnedOf(S) == {l \in S : l.type \in Earned}

\* A profit is what revenue and expense lines move, with the other sign.
LEMMA ProfitIsNet ==
  ASSUME NEW S, Typed(S)
  PROVE  /\ profit_and_loss(S).net = -Net(EarnedOf(S)) /\ profit_and_loss(S).net \in Int
         /\ profit_and_loss(S).net = Total(S, "revenue") - Total(S, "expense")
         /\ Total(S, "revenue") - Total(S, "expense") = -Net(EarnedOf(S))
<1>. DEFINE R == Of(S, "revenue")
            E == Of(S, "expense")
<1>1. Typed(S) /\ Money(EarnedOf(S))
  BY MoneyPart DEF Typed, EarnedOf
<1>2. R \in SUBSET EarnedOf(S) /\ E = EarnedOf(S) \ R
  BY DEF Of, EarnedOf, Earned
<1>3. Net(EarnedOf(S)) = Net(R) + Net(E) /\ Net(R) \in Int /\ Net(E) \in Int
  <2>. HIDE DEF R, E
  <2>. QED BY <1>1, <1>2, NetSplit
<1>4. Total(S, "revenue") = -Net(R) /\ Total(S, "expense") = Net(E)
  BY <1>3, TypeNames DEF Total
<1>5. profit_and_loss(S).net = Total(S, "revenue") - Total(S, "expense")
  BY DEF profit_and_loss
<1>. HIDE DEF R, E
<1>. QED BY <1>3, <1>4, <1>5

-----------------------------------------------------------------------------
(* The calendar.                                                           *)

LEMMA YearBounds ==
  ASSUME NEW d \in Nat
  PROVE  YearOf(d) \in Nat /\ d = 366 * YearOf(d) + (d % 366) /\ d % 366 \in 0..365
<1>1. d = 366 * (d \div 366) + (d % 366) /\ d % 366 \in 0..365 /\ d \div 366 \in Nat
  OBVIOUS
<1>2. YearOf(d) = d \div 366
  BY DEF YearOf
<1>. QED BY <1>1, <1>2

LEMMA YearEdges ==
  ASSUME NEW d \in Nat, NEW y \in Nat
  PROVE  /\ (Jan1(y) <= d /\ d <= Dec31(y)) <=> YearOf(d) = y
         /\ d <= Dec31(y) <=> d < Jan1(y + 1)
         /\ d < Jan1(y + 1) <=> d < Jan1(y) \/ YearOf(d) = y
         /\ ~(d < Jan1(y) /\ YearOf(d) = y)
<1>1. d = 366 * (d \div 366) + (d % 366) /\ d % 366 \in 0..365 /\ d \div 366 \in Nat
  OBVIOUS
<1>. DEFINE q == d \div 366
            r == d % 366
<1>2. YearOf(d) = q
  BY DEF YearOf
<1>3. Jan1(y) = 366 * y /\ Dec31(y) = 366 * y + 365 /\ Jan1(y + 1) = 366 * y + 366
  BY DEF Jan1, Dec31
<1>. HIDE DEF q, r
<1>4. d = 366 * q + r /\ r \in 0..365 /\ q \in Nat
  BY <1>1 DEF q, r
<1>5. q = y \/ q <= y - 1 \/ q >= y + 1
  BY <1>4
<1>. QED BY ONLY <1>2, <1>3, <1>4, <1>5, y \in Nat

LEMMA MonthBounds ==
  ASSUME NEW d \in Nat
  PROVE  /\ MonthOf(d) \in 1..12
         /\ \A m \in 1..12 : MonthStart[m] <= (d % 366) + 1 <=> m <= MonthOf(d)
<1>. DEFINE x == (d % 366) + 1
            M == {m \in 1..12 : MonthStart[m] <= x}
<1>1. x \in Nat /\ x >= 1
  OBVIOUS
<1>2. \A m \in 1..12 : MonthStart[m] \in Nat
  <2>1. MonthStart \in [1..12 -> 1..366]
    BY CalendarAssumption
  <2>. SUFFICES ASSUME NEW m \in 1..12 PROVE MonthStart[m] \in Nat
    OBVIOUS
  <2>2. MonthStart[m] \in 1..366
    BY <2>1
  <2>. QED BY <2>2
<1>3. 1 \in M
  BY <1>1, CalendarAssumption
<1>4. M \in SUBSET Int /\ IsFiniteSet(M)
  <2>1. M \subseteq 1..12 /\ IsFiniteSet(1..12)
    <3>1. 12 \in Nat
      OBVIOUS
    <3>. QED BY <3>1, FirstFinite
  <2>2. 1..12 \subseteq Int
    OBVIOUS
  <2>3. M \subseteq Int
    BY <2>1, <2>2
  <2>. HIDE DEF M
  <2>. QED BY <2>1, <2>3, FS_Subset
<1>. DEFINE n == Max(M)
<1>5. n \in M /\ \A m \in M : m <= n
  <2>. HIDE DEF M
  <2>. QED BY <1>3, <1>4, MaxIsIn
<1>. HIDE DEF n
<1>6. ASSUME NEW m \in 1..12, m <= n PROVE m \in M
  <2>1. n \in 1..12 /\ MonthStart[n] <= x /\ MonthStart[m] \in Nat /\ MonthStart[n] \in Nat
    BY <1>2, <1>5
  <2>2. m = n \/ MonthStart[m] < MonthStart[n]
    BY <1>6, <2>1, CalendarAssumption
  <2>. HIDE DEF x
  <2>. QED BY <1>1, <2>1, <2>2
<1>7. M = 1..n /\ n \in 1..12
  <2>1. n \in 1..12
    BY <1>5
  <2>2. M \subseteq 1..n
    BY <1>5, <2>1
  <2>3. 1..n \subseteq M
    BY <1>6, <2>1
  <2>. QED BY <2>1, <2>2, <2>3
<1>8. Cardinality(1..n) = n
  <2>1. 1 \in Int /\ n \in Int /\ 1 <= n /\ n - 1 + 1 = n
    BY <1>7
  <2>. QED BY <2>1, FS_Interval
<1>9. MonthOf(d) = n
  BY <1>7, <1>8 DEF MonthOf
<1>. HIDE DEF x
<1>10. \A m \in 1..12 : MonthStart[m] <= x <=> m \in M
  OBVIOUS
<1>. HIDE DEF M
<1>. QED BY <1>7, <1>9, <1>10 DEF x

\* The day after a month.
LEMMA MonthEnds ==
  ASSUME NEW d \in Nat, NEW y \in Nat, NEW m \in 1..12
  PROVE  d < NextFirst(y, m) <=> d < Jan1(y) \/ (YearOf(d) = y /\ MonthOf(d) <= m)
<1>. DEFINE q == YearOf(d)
            r == d % 366
            n == MonthOf(d)
<1>1. /\ n \in 1..12 /\ \A k \in 1..12 : MonthStart[k] <= r + 1 <=> k <= n
  BY MonthBounds
<1>2. /\ q \in Nat /\ r \in 0..365 /\ d = 366 * q + r
      /\ d < Jan1(y + 1) <=> d < Jan1(y) \/ q = y
  <2>1. q \in Nat /\ d = 366 * q + r /\ r \in 0..365
    BY YearBounds
  <2>2. d < Jan1(y + 1) <=> d < Jan1(y) \/ q = y
    BY YearEdges
  <2>. QED BY <2>1, <2>2
<1>3. Jan1(y) = 366 * y
  BY DEF Jan1
<1>. HIDE DEF q, r, n
<1>4. CASE m = 12
  <2>1. NextFirst(y, m) = Jan1(y + 1)
    BY <1>4 DEF NextFirst
  <2>2. n <= m
    BY <1>1, <1>4
  <2>. QED BY <1>2, <2>1, <2>2 DEF q, n
<1>5. CASE m # 12
  <2>. DEFINE s == MonthStart[m + 1]
  <2>1. m + 1 \in 1..12
    BY <1>5
  <2>2. s \in 1..366
    BY <2>1, CalendarAssumption
  <2>3. s <= r + 1 <=> m + 1 <= n
    BY <1>1, <2>1
  <2>4. NextFirst(y, m) = 366 * y + s - 1
    BY <1>3, <1>5 DEF NextFirst
  <2>. HIDE DEF s
  <2>5. q = y \/ q <= y - 1 \/ q >= y + 1
    BY <1>2
  <2>6. d < NextFirst(y, m) <=> d < Jan1(y) \/ (q = y /\ n <= m)
    BY ONLY <1>1, <1>2, <1>3, <2>2, <2>3, <2>4, <2>5, m \in 1..12, y \in Nat, d \in Nat
  <2>. QED BY <2>6 DEF q, n
<1>. QED BY <1>4, <1>5

\* The profits of the months are the profit of the year.
LEMMA MonthlyProfits ==
  ASSUME NEW S, Typed(S), \A l \in S : l.date \in Nat,
         NEW g, g = [m \in 1..12 |-> profit_and_loss({l \in S : MonthOf(l.date) = m}).net]
  PROVE  SumFunction(g) = profit_and_loss(S).net
<1>. DEFINE E == EarnedOf(S)
            key == [l \in E |-> MonthOf(l.date)]
            K == 1..12
            h == [m \in K |-> Net(Bearing(E, key, m))]
<1>1. Money(E) /\ E \subseteq S
  BY MoneyPart DEF EarnedOf, Typed
<1>2. \A l \in E : key[l] \in K
  BY <1>1, MonthBounds
<1>3. IsFiniteSet(K)
  <2>1. 12 \in Nat
    OBVIOUS
  <2>. QED BY <2>1, FirstFinite
<1>4. \A m \in K : h[m] = Net(Bearing(E, key, m)) /\ h[m] \in Int
  <2>1. \A m \in K : Bearing(E, key, m) \in SUBSET E
    BY DEF Bearing
  <2>. HIDE DEF E, key, K
  <2>. QED BY <1>1, <2>1, NetIsMoved
<1>5. SumFunctionOnSet(h, K) = Net(E)
  <2>. HIDE DEF E, key, K, h
  <2>. QED BY <1>1, <1>2, <1>3, <1>4, NetByKey
<1>6. ASSUME NEW m \in K PROVE g[m] = -h[m]
  <2>. DEFINE T == {l \in S : MonthOf(l.date) = m}
  <2>1. Typed(T)
    <3>1. T \in SUBSET S
      OBVIOUS
    <3>. HIDE DEF T
    <3>. QED BY <3>1, MoneyPart DEF Typed
  <2>2. EarnedOf(T) = Bearing(E, key, m)
    BY DEF EarnedOf, Bearing
  <2>3. profit_and_loss(T).net = -Net(EarnedOf(T))
    <3>. HIDE DEF T
    <3>. QED BY <2>1, ProfitIsNet
  <2>4. g[m] = profit_and_loss(T).net
    OBVIOUS
  <2>. QED BY <2>2, <2>3, <2>4
<1>7. SumFunctionOnSet(g, K) = -SumFunctionOnSet(h, K)
  <2>. HIDE DEF h, K
  <2>. QED BY <1>3, <1>4, <1>6, SumNegative
<1>8. SumFunction(g) = SumFunctionOnSet(g, K)
  BY DEF SumFunction
<1>9. profit_and_loss(S).net = -Net(E)
  BY ProfitIsNet
<1>. QED BY <1>5, <1>7, <1>8, <1>9

-----------------------------------------------------------------------------
(* The balance sheet.                                                      *)

LEMMA SheetHolds ==
  ASSUME NEW J, Told(J), NEW ids, NEW y \in Nat
  PROVE  SheetBalances(J, ids, y)
<1>. DEFINE end == Dec31(y)
            S == Booked(J, ids, 0, end)
            L == {l \in J : l.company \in ids /\ l.date <= end}
            X == {l \in J : l.company \in ids /\ l.ic /\ l.date <= end}
<1>1. Net(L) = 0
  <2>1. L \in SUBSET J /\ \A k \in L, l \in J : k.id[1] = l.id[1] => l \in L
    BY DEF Told
  <2>. HIDE DEF L
  <2>. QED BY <2>1, WholeEntries
<1>2. S \in SUBSET J /\ Typed(S) /\ Money(L)
  <2>1. S \in SUBSET J /\ L \in SUBSET J
    BY DEF Booked
  <2>. HIDE DEF S, L
  <2>. QED BY <2>1, ToldIsTyped DEF Typed
<1>3. ASSUME Cardinality(ids) = 1 \/ Net(X) = 0 PROVE Net(S) = 0
  <2>0. \A l \in J : 0 <= l.date
    <3>1. \A l \in J : l.date \in Nat
      BY ToldIsTyped
    <3>. QED BY <3>1
  <2>1. CASE Cardinality(ids) > 1
    <3>1. S = L \ X /\ X \in SUBSET L
      BY <2>0, <2>1 DEF Booked
    <3>2. Net(X) = 0
      BY <1>3, <2>1
    <3>3. Net(L) = Net(X) + Net(S) /\ Net(S) \in Int
      <4>. HIDE DEF S, L, X
      <4>. QED BY <1>2, <3>1, NetSplit
    <3>. QED BY <1>1, <3>2, <3>3
  <2>2. CASE ~(Cardinality(ids) > 1)
    <3>1. S = L
      BY <2>0, <2>2 DEF Booked
    <3>. QED BY <1>1, <3>1
  <2>. QED BY <2>1, <2>2
<1>4. /\ Net(S) = Net(Of(S, "asset")) + Net(Of(S, "equity")) + Net(Of(S, "expense"))
                  + Net(Of(S, "liability")) + Net(Of(S, "revenue"))
      /\ Net(Of(S, "asset")) \in Int /\ Net(Of(S, "equity")) \in Int /\ Net(Of(S, "expense")) \in Int
      /\ Net(Of(S, "liability")) \in Int /\ Net(Of(S, "revenue")) \in Int
  <2>. HIDE DEF S
  <2>. QED BY <1>2, NetOfTypes, TypeNames
<1>5. /\ balance_sheet(J, ids, end).assets = Total(S, "asset")
      /\ balance_sheet(J, ids, end).liabilities = Total(S, "liability")
      /\ balance_sheet(J, ids, end).equity = Total(S, "equity") + (Total(S, "revenue") - Total(S, "expense"))
  BY DEF balance_sheet
<1>6. /\ Total(S, "asset") = Net(Of(S, "asset")) /\ Total(S, "expense") = Net(Of(S, "expense"))
      /\ Total(S, "equity") = -Net(Of(S, "equity")) /\ Total(S, "liability") = -Net(Of(S, "liability"))
      /\ Total(S, "revenue") = -Net(Of(S, "revenue"))
  <2>. HIDE DEF S
  <2>. QED BY <1>4, TypeNames DEF Total
<1>7. Cardinality(ids) = 1 \/ Net(X) = 0 =>
        balance_sheet(J, ids, end).assets = balance_sheet(J, ids, end).liabilities + balance_sheet(J, ids, end).equity
  <2>. HIDE DEF S, X, L, end
  <2>. QED BY <1>3, <1>4, <1>5, <1>6
<1>. QED BY <1>7 DEF SheetBalances

-----------------------------------------------------------------------------
(* Accounts of one type.                                                   *)

SignedMoved(S) == [l \in S |-> SIGN(l.type) * (l.debit - l.credit)]

LEMMA SignedSum ==
  ASSUME NEW S, Typed(S), NEW P \in SUBSET S
  PROVE  /\ Signed(P) = SumFunctionOnSet(SignedMoved(S), P) /\ Signed(P) \in Int
         /\ \A l \in S : SignedMoved(S)[l] = SIGN(l.type) * (l.debit - l.credit) /\ SignedMoved(S)[l] \in Int
<1>. DEFINE f == [l \in P |-> SIGN(l.type) * (l.debit - l.credit)]
            g == SignedMoved(S)
<1>1. IsFiniteSet(P)
  BY FS_Subset DEF Typed, Money
<1>2. ASSUME NEW l \in S PROVE g[l] = SIGN(l.type) * (l.debit - l.credit) /\ g[l] \in Int
  <2>1. l.debit \in Nat /\ l.credit \in Nat /\ l.type \in Types
    BY DEF Typed, Money
  <2>2. SIGN(l.type) = 1 \/ SIGN(l.type) = -1
    BY <2>1, TypeNames
  <2>3. g[l] = SIGN(l.type) * (l.debit - l.credit)
    BY DEF SignedMoved
  <2>4. l.debit - l.credit \in Int
    BY <2>1
  <2>5. g[l] \in Int
    <3>. DEFINE x == l.debit - l.credit
                s == SIGN(l.type)
    <3>1. x \in Int /\ (s = 1 \/ s = -1) /\ g[l] = s * x
      BY <2>2, <2>3, <2>4
    <3>. HIDE DEF x, s, g
    <3>. QED BY <3>1
  <2>. QED BY <2>3, <2>5
<1>3. \A l \in P : f[l] = g[l] /\ f[l] \in Int
  BY <1>2
<1>4. Signed(P) = SumFunctionOnSet(f, P)
  BY DEF Signed, SumFunction
<1>. HIDE DEF f, g
<1>5. SumFunctionOnSet(f, P) = SumFunctionOnSet(g, P) /\ SumFunctionOnSet(f, P) \in Int
  BY <1>1, <1>3, SumSame, SumInt
<1>. QED BY <1>2, <1>4, <1>5 DEF g

LEMMA SignedByKey ==
  ASSUME NEW S, Typed(S), NEW K, IsFiniteSet(K), NEW key, \A l \in S : key[l] \in K,
         NEW g, \A k \in K : g[k] = Signed(Bearing(S, key, k))
  PROVE  SumFunctionOnSet(g, K) = Signed(S)
<1>1. IsFiniteSet(S) /\ S \in SUBSET S
  BY DEF Typed, Money
<1>2. \A k \in K : Bearing(S, key, k) \in SUBSET S
  BY DEF Bearing
<1>3. \A k \in K : g[k] = SumFunctionOnSet(SignedMoved(S), Bearing(S, key, k))
  BY <1>2, SignedSum
<1>4. \A l \in S : SignedMoved(S)[l] \in Int
  BY <1>1, SignedSum
<1>5. SumFunctionOnSet(g, K) = SumFunctionOnSet(SignedMoved(S), S)
  BY <1>1, <1>3, <1>4, SumByKey
<1>. QED BY <1>1, <1>5, SignedSum

LEMMA SignedOfType ==
  ASSUME NEW S, Typed(S), NEW t \in Types, \A l \in S : l.type = t
  PROVE  Signed(S) = SIGN(t) * Net(S) /\ Signed(S) \in Int /\ Net(S) \in Int
<1>. DEFINE f == Moved(S)
            g == SignedMoved(S)
<1>1. IsFiniteSet(S) /\ S \in SUBSET S /\ Money(S)
  BY DEF Typed, Money
<1>2. \A l \in S : f[l] \in Int /\ f[l] = l.debit - l.credit /\ g[l] = SIGN(t) * f[l]
  BY <1>1, NetIsMoved, SignedSum
<1>3. /\ Net(S) = SumFunctionOnSet(f, S) /\ Signed(S) = SumFunctionOnSet(g, S)
      /\ Net(S) \in Int /\ Signed(S) \in Int
  BY <1>1, NetIsMoved, SignedSum
<1>. HIDE DEF f, g
<1>4. CASE SIGN(t) = 1
  <2>1. \A l \in S : g[l] = f[l]
    BY <1>2, <1>4
  <2>2. SumFunctionOnSet(g, S) = SumFunctionOnSet(f, S)
    BY <1>1, <2>1, SumSame
  <2>. QED BY <1>3, <1>4, <2>2
<1>5. CASE SIGN(t) = -1
  <2>1. \A l \in S : f[l] \in Int /\ g[l] = -f[l]
    BY <1>2, <1>5
  <2>2. SumFunctionOnSet(g, S) = -SumFunctionOnSet(f, S)
    BY <1>1, <2>1, SumNegative
  <2>. QED BY <1>3, <1>5, <2>2
<1>. QED BY <1>4, <1>5, TypeNames

LEMMA RankOfType ==
  ASSUME NEW t \in Types
  PROVE  Rank(t) \in 1..5 /\ ACCOUNT_TYPES[Rank(t)] = t
<1>1. DOMAIN ACCOUNT_TYPES = 1..5
  BY DEF ACCOUNT_TYPES
<1>2. \E i \in DOMAIN ACCOUNT_TYPES : ACCOUNT_TYPES[i] = t
  BY DEF Types, Range
<1>. QED BY <1>1, <1>2 DEF Rank

LEMMA FirstOfOne ==
  ASSUME NEW t \in Types
  PROVE  ACCOUNT_TYPES[Min({Rank(x) : x \in {t}})] = t
<1>. DEFINE M == {Rank(x) : x \in {t}}
<1>1. M = {Rank(t)} /\ Rank(t) \in Int
  BY RankOfType
<1>2. M \in SUBSET Int /\ IsFiniteSet(M) /\ M # {}
  BY <1>1, FS_Singleton
<1>3. Min(M) \in M
  <2>. HIDE DEF M
  <2>. QED BY <1>2, MinIsIn
<1>. QED BY <1>1, <1>3, RankOfType

\* Rows of one type overwrite nothing.
LEMMA AllSurvive ==
  ASSUME NEW S, NEW t \in Types, \A l \in S : l.type = t
  PROVE  Surviving(S) = S
<1>1. Rank(t) <= Rank(t)
  BY RankOfType
<1>. QED BY <1>1 DEF Surviving

\* The months of one account.
LEMMA AccountMonths ==
  ASSUME NEW S, Typed(S), \A l \in S : l.date \in Nat, NEW t \in Types, \A l \in S : l.type = t,
         NEW g, DOMAIN g = 1..12, \A m \in 1..12 : g[m] = Signed(Surviving({l \in S : MonthOf(l.date) = m}))
  PROVE  SumFunction(g) = Signed(S)
<1>. DEFINE key == [l \in S |-> MonthOf(l.date)]
            K == 1..12
<1>1. \A l \in S : key[l] \in K
  BY MonthBounds
<1>2. IsFiniteSet(K)
  <2>1. 12 \in Nat
    OBVIOUS
  <2>. QED BY <2>1, FirstFinite
<1>3. ASSUME NEW m \in K PROVE g[m] = Signed(Bearing(S, key, m))
  <2>. DEFINE T == {l \in S : MonthOf(l.date) = m}
  <2>1. T = Bearing(S, key, m) /\ \A l \in T : l.type = t
    BY DEF Bearing
  <2>2. g[m] = Signed(Surviving(T))
    OBVIOUS
  <2>3. Surviving(T) = T
    <3>. HIDE DEF T
    <3>. QED BY <2>1, AllSurvive
  <2>. QED BY <2>1, <2>2, <2>3
<1>4. SumFunctionOnSet(g, K) = Signed(S)
  <2>. HIDE DEF key, K
  <2>. QED BY <1>1, <1>2, <1>3, SignedByKey
<1>. QED BY <1>4 DEF SumFunction

\* Budgets and actuals compared, where each account has one type.
LEMMA ComparedRow ==
  ASSUME NEW B, NEW S, Typed(S), \A l \in S : l.date \in Nat, NEW typ,
         \A l \in S : l.type = typ[l.code], \A b \in B : b.type \in Types /\ b.type = typ[b.code],
         NEW code \in {b.code : b \in B} \cup {l.code : l \in S}
  PROVE  /\ code \in DOMAIN Compared(B, S) /\ typ[code] \in Types
         /\ Compared(B, S)[code].type = typ[code]
         /\ Compared(B, S)[code].actual = Signed(On(S, code))
<1>. DEFINE types == IF On(B, code) # {} THEN {b.type : b \in On(B, code)} ELSE {l.type : l \in On(S, code)}
            t == typ[code]
            C == On(S, code)
            g == [m \in 1..12 |-> Signed(Surviving(C \cap {l \in S : MonthOf(l.date) = m}))]
            row == Compared(B, S)[code]
<1>1. t \in Types
  BY DEF Typed
<1>2. types = {t}
  <2>1. CASE On(B, code) # {}
    BY <2>1 DEF On
  <2>2. CASE On(B, code) = {}
    <3>1. \E l \in S : l.code = code
      BY <2>2 DEF On
    <3>. QED BY <2>2, <3>1 DEF On
  <2>. QED BY <2>1, <2>2
<1>3. code \in DOMAIN Compared(B, S) /\ row.type = ACCOUNT_TYPES[Min({Rank(x) : x \in types})]
  BY DEF Compared
<1>4. row.actual = SumFunction(g)
  BY DEF Compared
<1>5. row.type = t
  <2>. HIDE DEF types, row
  <2>. QED BY <1>1, <1>2, <1>3, FirstOfOne
<1>6. Typed(C) /\ C \subseteq S /\ \A l \in C : l.type = t /\ l.date \in Nat
  <2>1. C \in SUBSET S /\ \A l \in C : l.type = t
    BY DEF On
  <2>. HIDE DEF C
  <2>. QED BY <2>1, MoneyPart DEF Typed
<1>7. \A m \in 1..12 : C \cap {l \in S : MonthOf(l.date) = m} = {l \in C : MonthOf(l.date) = m}
  BY <1>6
<1>8. DOMAIN g = 1..12 /\ \A m \in 1..12 : g[m] = Signed(Surviving({l \in C : MonthOf(l.date) = m}))
  BY <1>7
<1>9. SumFunction(g) = Signed(C)
  <2>. HIDE DEF C, g, t
  <2>. QED BY <1>1, <1>6, <1>8, AccountMonths
<1>. QED BY <1>1, <1>3, <1>4, <1>5, <1>9

LEMMA ComparedTotal ==
  ASSUME NEW B, IsFiniteSet(B), NEW S, Typed(S), \A l \in S : l.date \in Nat, NEW typ,
         \A l \in S : l.type = typ[l.code], \A b \in B : b.type \in Types /\ b.type = typ[b.code],
         NEW t \in Types
  PROVE  TotalActual(Compared(B, S), t) = Total(S, t)
<1>. DEFINE rows == Compared(B, S)
            D == {b.code : b \in B} \cup {l.code : l \in S}
            K == {c \in DOMAIN rows : rows[c].type = t}
            T == Of(S, t)
            key == [l \in T |-> l.code]
            g == [c \in K |-> rows[c].actual]
<1>1. DOMAIN rows = D
  BY DEF Compared
<1>2. \A c \in D : rows[c].type = typ[c] /\ rows[c].actual = Signed(On(S, c))
  BY ComparedRow
<1>3. Typed(T) /\ T \subseteq S /\ \A l \in T : l.type = t
  <2>1. T \in SUBSET S /\ \A l \in T : l.type = t
    BY DEF Of
  <2>. HIDE DEF T
  <2>. QED BY <2>1, MoneyPart DEF Typed
<1>4. IsFiniteSet(K)
  <2>. DEFINE mb == [b \in B |-> b.code]
              ms == [l \in S |-> l.code]
  <2>1. IsFiniteSet(S)
    BY DEF Typed, Money
  <2>2. IsFiniteSet({mb[b] : b \in B}) /\ IsFiniteSet({ms[l] : l \in S})
    <3>. HIDE DEF mb, ms
    <3>. QED BY <2>1, ImageFinite
  <2>3. {mb[b] : b \in B} = {b.code : b \in B} /\ {ms[l] : l \in S} = {l.code : l \in S}
    OBVIOUS
  <2>4. IsFiniteSet(D)
    BY <2>2, <2>3, FS_Union
  <2>5. K \subseteq D
    BY <1>1
  <2>. HIDE DEF K, D
  <2>. QED BY <2>4, <2>5, FS_Subset
<1>5. \A l \in T : key[l] \in K
  <2>. SUFFICES ASSUME NEW l \in T PROVE l.code \in K
    OBVIOUS
  <2>1. l \in S /\ l.type = t /\ l.type = typ[l.code]
    BY <1>3
  <2>. QED BY <1>1, <1>2, <2>1
<1>6. ASSUME NEW c \in K PROVE g[c] = Signed(Bearing(T, key, c))
  <2>1. typ[c] = t /\ rows[c].actual = Signed(On(S, c))
    BY <1>1, <1>2
  <2>2. Bearing(T, key, c) = On(S, c)
    BY <2>1 DEF Bearing, On, Of
  <2>. QED BY <2>1, <2>2
<1>7. SumFunctionOnSet(g, K) = Signed(T)
  <2>. HIDE DEF g, K, T, key
  <2>. QED BY <1>3, <1>4, <1>5, <1>6, SignedByKey
<1>8. Signed(T) = Total(S, t)
  <2>1. Signed(T) = SIGN(t) * Net(T)
    <3>. HIDE DEF T
    <3>. QED BY <1>3, SignedOfType
  <2>. QED BY <2>1 DEF Total
<1>9. TotalActual(rows, t) = SumFunctionOnSet(g, K)
  BY DEF TotalActual, SumFunction
<1>. QED BY <1>7, <1>8, <1>9

\* Where companies agree on the type of an account, its type.
AccountType(ids) == [code \in Codes |-> account[CHOOSE c \in ids : Exists(c, code)][code].type]

LEMMA OneType ==
  ASSUME NEW ids, Uniform(ids), NEW c \in ids, NEW code \in Codes, Exists(c, code)
  PROVE  AccountType(ids)[code] = account[c][code].type
<1>. DEFINE d == CHOOSE d \in ids : Exists(d, code)
<1>1. d \in ids /\ Exists(d, code)
  OBVIOUS
<1>. QED BY <1>1 DEF AccountType, Uniform

LEMMA LineType ==
  ASSUME NEW J, Told(J), NEW ids, Uniform(ids), NEW l \in J, l.company \in ids
  PROVE  l.type = AccountType(ids)[l.code] /\ l.type \in Types /\ l.code \in Codes
<1>1. LineIs(l)
  BY DEF Told
<1>2. l.code \in Codes /\ Exists(l.company, l.code) /\ l.type = account[l.company][l.code].type /\ l.type \in Types
  BY <1>1 DEF LineIs, Exists
<1>. QED BY <1>2, OneType

BudgetRows == {InBudget(r) : r \in budget}

LEMMA BudgetType ==
  ASSUME ChartIInv
  PROVE  /\ IsFiniteSet(BudgetRows)
         /\ \A b \in BudgetRows : /\ b.type \in Types /\ b.code \in Codes /\ b.company \in company /\ b.amount \in Int
                                  /\ Exists(b.company, b.code) /\ b.type = account[b.company][b.code].type
         /\ \A ids : Uniform(ids) => \A b \in BudgetRows : b.company \in ids => b.type = AccountType(ids)[b.code]
<1>. DEFINE m == [r \in budget |-> InBudget(r)]
<1>1. IsFiniteSet({m[r] : r \in budget})
  <2>1. IsFiniteSet(budget)
    BY DEF ChartIInv, Keyed
  <2>. HIDE DEF m
  <2>. QED BY <2>1, ImageFinite
<1>2. BudgetRows = {m[r] : r \in budget}
  BY DEF BudgetRows
<1>3. ASSUME NEW b \in BudgetRows
      PROVE  /\ b.type \in Types /\ b.code \in Codes /\ b.company \in company /\ b.amount \in Int
             /\ Exists(b.company, b.code) /\ b.type = account[b.company][b.code].type
  <2>1. PICK r \in budget : b = InBudget(r)
    BY DEF BudgetRows
  <2>2. b.code = r.code /\ b.company = r.company /\ b.amount = r.amount /\ b.type = account[r.company][r.code].type
    BY <2>1 DEF InBudget
  <2>3. r \in BudgetRow /\ account[r.company][r.code] # NoAccount
    BY DEF ChartIInv, Keyed
  <2>4. r.company \in Companies /\ r.code \in Codes /\ r.amount \in Int
    BY <2>3 DEF BudgetRow
  <2>. DEFINE a == account[r.company][r.code]
  <2>5. a \in AccountRow \cup {NoAccount} /\ r.company \in company
    BY <2>3, <2>4 DEF ChartIInv, Keyed, ChartTable
  <2>6. a.type \in Types
    <3>1. a # NoAccount
      BY <2>3
    <3>. HIDE DEF a
    <3>. QED BY <2>5, <3>1 DEF AccountRow
  <2>. QED BY <2>2, <2>3, <2>4, <2>5, <2>6 DEF Exists
<1>. QED BY <1>1, <1>2, <1>3, OneType

-----------------------------------------------------------------------------
(* Profit and loss.                                                        *)

LEMMA ProfitHolds ==
  ASSUME ChartIInv, NEW J, Told(J), NEW ids, NEW y \in Nat
  PROVE  ProfitIsTold(J, ids, y)
<1>. DEFINE S == Booked(J, ids, Jan1(y), Dec31(y))
            E == {l \in S : l.type \in Earned}
            B == {b \in BudgetRows : b.company \in ids /\ b.year = y /\ b.project = NoProject}
            A == audit_ledger(J, ids, Jan1(y), Dec31(y))
            months == monthly_pnl_series(S)
            bva == budget_vs_actual(J, ids, y)
<1>1. S \in SUBSET J /\ \A l \in S : l.company \in ids
  BY DEF Booked
<1>2. Typed(S) /\ \A l \in S : l.date \in Nat
  <2>. HIDE DEF S
  <2>. QED BY <1>1, ToldIsTyped
<1>3. profit_and_loss(S).net = SumFunction([m \in 1..12 |-> months[m].net])
  <2>. DEFINE g == [m \in 1..12 |-> months[m].net]
  <2>1. g = [m \in 1..12 |-> profit_and_loss({l \in S : MonthOf(l.date) = m}).net]
    BY DEF monthly_pnl_series
  <2>2. SumFunction(g) = profit_and_loss(S).net
    <3>. HIDE DEF g, S
    <3>. QED BY <1>2, <2>1, MonthlyProfits
  <2>. QED BY <2>2
<1>4. Net(A) = 0
  <2>1. A \in SUBSET J /\ \A k \in A, l \in J : k.id[1] = l.id[1] => l \in A
    BY DEF Told, audit_ledger
  <2>. HIDE DEF A
  <2>. QED BY <2>1, WholeEntries
<1>5. ASSUME Uniform(ids), NEW t \in Earned PROVE TotalActual(bva, t) = Total(S, t)
  <2>. DEFINE typ == AccountType(ids)
  <2>1. bva = Compared(B, E)
    BY DEF budget_vs_actual, BudgetRows
  <2>2. IsFiniteSet(B) /\ \A b \in B : b.type \in Types /\ b.type = typ[b.code]
    <3>1. B \subseteq BudgetRows /\ \A b \in B : b.company \in ids
      OBVIOUS
    <3>. HIDE DEF B
    <3>. QED BY <1>5, <3>1, BudgetType, FS_Subset
  <2>3. E \in SUBSET S
    OBVIOUS
  <2>4. Typed(E) /\ \A l \in E : l.date \in Nat /\ l.type = typ[l.code]
    <3>. HIDE DEF E, S
    <3>. QED BY <1>1, <1>2, <1>5, <2>3, MoneyPart, LineType DEF Typed
  <2>5. t \in Types
    BY TypeNames DEF Earned
  <2>6. TotalActual(Compared(B, E), t) = Total(E, t)
    <3>. HIDE DEF B, E, typ
    <3>. QED BY <2>2, <2>4, <2>5, ComparedTotal
  <2>7. Of(E, t) = Of(S, t)
    BY DEF Of
  <2>. QED BY <2>1, <2>6, <2>7 DEF Total
<1>6. ASSUME Uniform(ids), NEW code \in Codes
      PROVE  SumFunction(account_monthly(S, code)) = Signed(account_ledger(J, ids, code, Jan1(y), Dec31(y)))
  <2>. DEFINE C == On(S, code)
              t == AccountType(ids)[code]
              g == account_monthly(S, code)
  <2>1. account_ledger(J, ids, code, Jan1(y), Dec31(y)) = C
    BY DEF account_ledger
  <2>2. C \in SUBSET S /\ \A l \in C : l.code = code
    BY DEF On
  <2>3. Typed(C) /\ \A l \in C : l.date \in Nat /\ l.type = t
    <3>. HIDE DEF C, S
    <3>. QED BY <1>1, <1>2, <1>6, <2>2, MoneyPart, LineType DEF Typed
  <2>4. DOMAIN g = 1..12 /\ \A m \in 1..12 : g[m] = Signed(Surviving({l \in C : MonthOf(l.date) = m}))
    BY DEF account_monthly
  <2>5. CASE C = {}
    <3>1. "asset" \in Types /\ \A l \in C : l.type = "asset"
      BY <2>5, TypeNames
    <3>2. SumFunction(g) = Signed(C)
      <4>. HIDE DEF C, g
      <4>. QED BY <2>3, <2>4, <3>1, AccountMonths
    <3>. QED BY <2>1, <3>2
  <2>6. CASE C # {}
    <3>1. t \in Types
      <4>. HIDE DEF C, t
      <4>. QED BY <2>3, <2>6 DEF Typed
    <3>2. SumFunction(g) = Signed(C)
      <4>. HIDE DEF C, g, t
      <4>. QED BY <2>3, <2>4, <3>1, AccountMonths
    <3>. QED BY <2>1, <3>2
  <2>. QED BY <2>5, <2>6
<1>. HIDE DEF S, A
<1>. QED BY <1>3, <1>4, <1>5, <1>6 DEF ProfitIsTold, S, A

-----------------------------------------------------------------------------
(* Projects.                                                               *)

ProjectYear(J, p, y) == OfProject(J, p, Jan1(y), Dec31(y))
ProjectsOf(J, ids, y) == {q \in Projects : project[q] \in ids /\ ProjectYear(J, q, y) # {}}
CogsPart(S, cogs) == {l \in S : IsCogs(l) = cogs}
HomeYear(J, c, y) == {l \in J : l.home = c /\ YearOf(l.date) = y}

LEMMA Performance ==
  ASSUME NEW J, NEW ids, NEW y
  PROVE  DOMAIN project_performance(J, ids, y) = ProjectsOf(J, ids, y)
BY DEF project_performance, ProjectYear, ProjectsOf

LEMMA RevenueIs ==
  ASSUME NEW J, NEW ids, NEW y, NEW p \in ProjectsOf(J, ids, y)
  PROVE  project_performance(J, ids, y)[p].revenue = Total(ProjectYear(J, p, y), "revenue")
BY DEF project_performance, ProjectYear, ProjectsOf, CogsPart

LEMMA ExpenseIs ==
  ASSUME NEW J, NEW ids, NEW y, NEW p \in ProjectsOf(J, ids, y)
  PROVE  project_performance(J, ids, y)[p].expense = Total(ProjectYear(J, p, y), "expense")
BY DEF project_performance, ProjectYear, ProjectsOf, CogsPart

LEMMA CogsIs ==
  ASSUME NEW J, NEW ids, NEW y, NEW p \in ProjectsOf(J, ids, y)
  PROVE  project_performance(J, ids, y)[p].cogs = Total(CogsPart(ProjectYear(J, p, y), TRUE), "expense")
BY DEF project_performance, ProjectYear, ProjectsOf, CogsPart

LEMMA OpexIs ==
  ASSUME NEW J, NEW ids, NEW y, NEW p \in ProjectsOf(J, ids, y)
  PROVE  project_performance(J, ids, y)[p].opex = Total(CogsPart(ProjectYear(J, p, y), FALSE), "expense")
BY DEF project_performance, ProjectYear, ProjectsOf, CogsPart

\* The lines of a set of told lines, by their years.
LEMMA LineYears ==
  ASSUME NEW J, Told(J), NEW l \in J, NEW y \in Nat
  PROVE  /\ l.date \in Nat /\ 0 <= l.date
         /\ (Jan1(y) <= l.date /\ l.date <= Dec31(y)) <=> YearOf(l.date) = y
         /\ l.date <= Dec31(y) <=> l.date < Jan1(y + 1)
         /\ l.date < Jan1(y + 1) <=> l.date < Jan1(y) \/ YearOf(l.date) = y
         /\ ~(l.date < Jan1(y) /\ YearOf(l.date) = y)
<1>1. l.date \in Nat
  BY DEF Told, LineIs
<1>. DEFINE d == l.date
<1>2. d \in Nat
  BY <1>1
<1>3. /\ 0 <= d
      /\ (Jan1(y) <= d /\ d <= Dec31(y)) <=> YearOf(d) = y
      /\ d <= Dec31(y) <=> d < Jan1(y + 1)
      /\ d < Jan1(y + 1) <=> d < Jan1(y) \/ YearOf(d) = y
      /\ ~(d < Jan1(y) /\ YearOf(d) = y)
  <2>. HIDE DEF d
  <2>0. 0 <= d
    BY ONLY <1>2
  <2>1. (Jan1(y) <= d /\ d <= Dec31(y)) <=> YearOf(d) = y
    BY ONLY <1>2, y \in Nat, YearEdges
  <2>2. d <= Dec31(y) <=> d < Jan1(y + 1)
    BY ONLY <1>2, y \in Nat, YearEdges
  <2>3. d < Jan1(y + 1) <=> d < Jan1(y) \/ YearOf(d) = y
    BY ONLY <1>2, y \in Nat, YearEdges
  <2>4. ~(d < Jan1(y) /\ YearOf(d) = y)
    BY ONLY <1>2, y \in Nat, YearEdges
  <2>. QED BY <2>0, <2>1, <2>2, <2>3, <2>4
<1>. QED BY <1>2, <1>3

LEMMA ProjectYearLines ==
  ASSUME NEW J, Told(J), NEW p, NEW y \in Nat
  PROVE  /\ ProjectYear(J, p, y) = {l \in J : l.project = p /\ l.type \in Earned /\ YearOf(l.date) = y}
         /\ Typed(ProjectYear(J, p, y)) /\ \A l \in ProjectYear(J, p, y) : l.date \in Nat
<1>1. \A l \in J : (Jan1(y) <= l.date /\ l.date <= Dec31(y)) <=> YearOf(l.date) = y
  BY LineYears
<1>2. ProjectYear(J, p, y) = {l \in J : l.project = p /\ l.type \in Earned /\ YearOf(l.date) = y}
  BY <1>1 DEF ProjectYear, OfProject
<1>3. ProjectYear(J, p, y) \in SUBSET J
  BY <1>2
<1>. QED BY <1>2, <1>3, ToldIsTyped

LEMMA OwnLines ==
  ASSUME NEW J, Told(J), NEW c, NEW y \in Nat
  PROVE  /\ Attributed(J, {c}, Jan1(y), Dec31(y)) = HomeYear(J, c, y)
         /\ Typed(HomeYear(J, c, y))
<1>1. \A l \in J : (Jan1(y) <= l.date /\ l.date <= Dec31(y)) <=> YearOf(l.date) = y
  BY LineYears
<1>2. ~(Cardinality({c}) > 1)
  <2>1. Cardinality({c}) = 1
    BY FS_Singleton
  <2>. QED BY <2>1
<1>3. Attributed(J, {c}, Jan1(y), Dec31(y)) = HomeYear(J, c, y)
  BY <1>1, <1>2 DEF Attributed, HomeYear
<1>4. HomeYear(J, c, y) \in SUBSET J
  BY DEF HomeYear
<1>. QED BY <1>3, <1>4, ToldIsTyped

LEMMA CompaniesFinite == ASSUME ChartIInv PROVE IsFiniteSet(company) /\ company \subseteq Companies
BY NameAssumption, FS_Subset DEF ChartIInv, Keyed

\* Every company's own profit.
LEMMA AttributionAddsUp ==
  ASSUME ChartIInv, NEW J, Told(J), NEW y \in Nat
  PROVE  SumFunction([c \in company |-> profit_and_loss(Attributed(J, {c}, Jan1(y), Dec31(y))).net])
           = -Net({l \in J : YearOf(l.date) = y /\ l.type \in Earned})
<1>. DEFINE E == {l \in J : YearOf(l.date) = y /\ l.type \in Earned}
            Own(c) == Attributed(J, {c}, Jan1(y), Dec31(y))
            key == [l \in E |-> l.home]
            g == [c \in company |-> profit_and_loss(Own(c)).net]
            h == [c \in company |-> Net(Bearing(E, key, c))]
<1>1. E \in SUBSET J
  OBVIOUS
<1>2. Money(E) /\ \A l \in E : LineIs(l)
  <2>. HIDE DEF E
  <2>. QED BY <1>1, ToldIsTyped DEF Typed
<1>3. \A l \in E : key[l] \in company
  BY <1>2 DEF LineIs
<1>4. \A c \in company : h[c] = Net(Bearing(E, key, c)) /\ h[c] \in Int
  <2>1. \A c \in company : Bearing(E, key, c) \in SUBSET E
    BY DEF Bearing
  <2>. HIDE DEF E, key
  <2>. QED BY <1>2, <2>1, NetIsMoved
<1>5. SumFunctionOnSet(h, company) = Net(E)
  <2>. HIDE DEF E, key, h
  <2>. QED BY <1>2, <1>3, <1>4, CompaniesFinite, NetByKey
<1>6. ASSUME NEW c \in company PROVE g[c] = -h[c]
  <2>1. EarnedOf(Own(c)) = Bearing(E, key, c)
    <3>1. Own(c) = HomeYear(J, c, y)
      BY OwnLines
    <3>. HIDE DEF Own
    <3>. QED BY <3>1 DEF EarnedOf, Bearing, HomeYear
  <2>2. profit_and_loss(Own(c)).net = -Net(EarnedOf(Own(c)))
    <3>1. Typed(Own(c))
      BY OwnLines
    <3>. HIDE DEF Own
    <3>. QED BY <3>1, ProfitIsNet
  <2>. QED BY <2>1, <2>2
<1>7. SumFunctionOnSet(g, company) = -SumFunctionOnSet(h, company)
  <2>. HIDE DEF h, g
  <2>. QED BY <1>4, <1>6, CompaniesFinite, SumNegative
<1>8. SumFunction(g) = SumFunctionOnSet(g, company)
  BY DEF SumFunction
<1>. QED BY <1>5, <1>7, <1>8

\* The revenue of a company's projects and of its lines without one.
LEMMA OwnRevenue ==
  ASSUME ChartIInv, NEW J, Told(J), NEW y \in Nat, NEW c \in company
  PROVE  LET pp == project_performance(J, {c}, y)
             Own == Attributed(J, {c}, Jan1(y), Dec31(y))
         IN  Total(Own, "revenue") = SumFunction([p \in DOMAIN pp |-> pp[p].revenue])
                                     + Total({l \in Own : l.project = NoProject}, "revenue")
<1>. DEFINE pp == project_performance(J, {c}, y)
            Own == Attributed(J, {c}, Jan1(y), Dec31(y))
            N == {l \in Own : l.project = NoProject}
            T == Of(Own, "revenue")
            TN == Of(N, "revenue")
            W == T \ TN
            D == DOMAIN pp
            key == [l \in W |-> l.project]
            g == [p \in D |-> pp[p].revenue]
            h == [p \in D |-> Net(Bearing(W, key, p))]
<1>0. Own = {l \in J : l.home = c /\ YearOf(l.date) = y} /\ Own \subseteq J
  <2>1. Own = HomeYear(J, c, y)
    BY OwnLines
  <2>. HIDE DEF Own
  <2>. QED BY <2>1 DEF HomeYear
<1>1. T \in SUBSET J /\ TN \in SUBSET T /\ W \in SUBSET J
  <2>. HIDE DEF Own
  <2>. QED BY <1>0 DEF Of
<1>2. Money(T) /\ Money(W) /\ \A l \in W : LineIs(l)
  <2>. HIDE DEF T, W
  <2>. QED BY <1>1, ToldIsTyped DEF Typed
<1>3. Net(T) = Net(TN) + Net(W) /\ Net(TN) \in Int /\ Net(W) \in Int
  <2>. HIDE DEF T, TN
  <2>. QED BY <1>1, <1>2, NetSplit
<1>4. D = {q \in Projects : project[q] = c /\ ProjectYear(J, q, y) # {}} /\ IsFiniteSet(D)
  <2>1. D = {q \in Projects : project[q] = c /\ ProjectYear(J, q, y) # {}}
    <3>1. D = ProjectsOf(J, {c}, y)
      BY Performance
    <3>. HIDE DEF D
    <3>. QED BY <3>1 DEF ProjectsOf
  <2>2. D \subseteq Projects
    BY <2>1
  <2>. HIDE DEF D
  <2>. QED BY <2>1, <2>2, NameAssumption, FS_Subset
<1>5. ASSUME NEW l \in W
      PROVE  l \in J /\ l.type = "revenue" /\ l.project # NoProject /\ l.project \in D /\ YearOf(l.date) = y /\ l.home = c
  <2>1. l \in J /\ l.home = c /\ YearOf(l.date) = y /\ l.type = "revenue" /\ l.project # NoProject
    BY <1>0 DEF Of
  <2>2. l.project \in Projects /\ project[l.project] = c
    BY <1>2, <2>1 DEF LineIs, Earned
  <2>3. l \in ProjectYear(J, l.project, y)
    BY <2>1, ProjectYearLines DEF Earned
  <2>. QED BY <1>4, <2>1, <2>2, <2>3
<1>6. \A l \in W : key[l] \in D
  BY <1>5
<1>7. \A p \in D : h[p] = Net(Bearing(W, key, p)) /\ h[p] \in Int
  <2>1. \A p \in D : Bearing(W, key, p) \in SUBSET W
    BY DEF Bearing
  <2>. HIDE DEF W, key, D
  <2>. QED BY <1>2, <2>1, NetIsMoved
<1>8. SumFunctionOnSet(h, D) = Net(W)
  <2>. HIDE DEF W, key, D, h
  <2>. QED BY <1>2, <1>4, <1>6, <1>7, NetByKey
<1>9. ASSUME NEW p \in D PROVE g[p] = -h[p]
  <2>. DEFINE P == ProjectYear(J, p, y)
  <2>1. pp[p].revenue = Total(P, "revenue")
    <3>1. p \in ProjectsOf(J, {c}, y)
      BY Performance
    <3>. QED BY <3>1, RevenueIs
  <2>2. P = {l \in J : l.project = p /\ l.type \in Earned /\ YearOf(l.date) = y}
    BY ProjectYearLines
  <2>3. p \in Projects /\ project[p] = c /\ p # NoProject
    BY <1>4, NameAssumption
  <2>4. \A l \in J : l.project = p /\ l.type = "revenue" => l.home = c
    BY <2>3 DEF Told, LineIs, Earned
  <2>5. Of(P, "revenue") = Bearing(W, key, p)
    <3>1. ASSUME NEW l \in Of(P, "revenue") PROVE l \in W /\ key[l] = p
      <4>1. l \in J /\ l.project = p /\ l.type = "revenue" /\ YearOf(l.date) = y
        BY <2>2 DEF Of
      <4>2. l \in Own /\ l.project # NoProject
        BY <1>0, <2>3, <2>4, <4>1
      <4>. QED BY <4>1, <4>2 DEF Of
    <3>2. ASSUME NEW l \in Bearing(W, key, p) PROVE l \in Of(P, "revenue")
      <4>1. l \in W /\ l.project = p
        BY DEF Bearing
      <4>2. l \in J /\ l.type = "revenue" /\ YearOf(l.date) = y /\ "revenue" \in Earned
        BY <1>5, <4>1 DEF Earned
      <4>. QED BY <2>2, <4>1, <4>2 DEF Of
    <3>. QED BY <3>1, <3>2 DEF Bearing
  <2>6. Total(P, "revenue") = -Net(Of(P, "revenue"))
    <3>1. Net(Of(P, "revenue")) \in Int
      BY <1>7, <2>5
    <3>. QED BY <3>1, TypeNames DEF Total
  <2>. QED BY <2>1, <2>5, <2>6
<1>10. SumFunctionOnSet(g, D) = -SumFunctionOnSet(h, D)
  <2>1. IsFiniteSet(D) /\ \A p \in D : h[p] \in Int /\ g[p] = -h[p]
    BY <1>4, <1>7, <1>9
  <2>. HIDE DEF g, h, D
  <2>. QED BY <2>1, SumNegative
<1>11. SumFunction(g) = SumFunctionOnSet(g, D)
  BY DEF SumFunction
<1>12. Total(Own, "revenue") = -Net(T) /\ Total(N, "revenue") = -Net(TN)
  <2>1. Net(T) \in Int
    BY <1>3
  <2>. QED BY <1>3, <2>1, TypeNames DEF Total
<1>13. Total(Own, "revenue") = SumFunction(g) + Total(N, "revenue")
  <2>. HIDE DEF Own, N, T, TN, g, h, W, D
  <2>. QED BY <1>3, <1>8, <1>10, <1>11, <1>12
<1>. QED BY <1>13

\* A project's months, its costs, and its accounts.
LEMMA ProjectHolds ==
  ASSUME ChartIInv, NEW J, Told(J), NEW y \in Nat, NEW p \in Projects
  PROVE  LET bva == project_budget_vs_actual(J, p, y)
             pp == project_performance(J, company, y)
             months == project_monthly(J, p, y)
         IN  p \in DOMAIN pp =>
               /\ pp[p].revenue - pp[p].expense = SumFunction([m \in 1..12 |-> months[m].net])
               /\ pp[p].expense = pp[p].cogs + pp[p].opex
               /\ Uniform(company) => \A code \in DOMAIN bva : bva[code].type \in Earned =>
                    bva[code].actual = SIGN(bva[code].type) * Net(project_account_ledger(J, p, code, y))
<1>. DEFINE bva == project_budget_vs_actual(J, p, y)
            pp == project_performance(J, company, y)
            months == project_monthly(J, p, y)
            P == ProjectYear(J, p, y)
<1>. SUFFICES ASSUME p \in DOMAIN pp
              PROVE  /\ pp[p].revenue - pp[p].expense = SumFunction([m \in 1..12 |-> months[m].net])
                     /\ pp[p].expense = pp[p].cogs + pp[p].opex
                     /\ Uniform(company) => \A code \in DOMAIN bva : bva[code].type \in Earned =>
                          bva[code].actual = SIGN(bva[code].type) * Net(project_account_ledger(J, p, code, y))
  OBVIOUS
<1>1. /\ P = {l \in J : l.project = p /\ l.type \in Earned /\ YearOf(l.date) = y}
      /\ Typed(P) /\ \A l \in P : l.date \in Nat
  BY ProjectYearLines
<1>2. /\ pp[p].revenue = Total(P, "revenue") /\ pp[p].expense = Total(P, "expense")
      /\ pp[p].cogs = Total(CogsPart(P, TRUE), "expense")
      /\ pp[p].opex = Total(CogsPart(P, FALSE), "expense")
  <2>1. p \in ProjectsOf(J, company, y)
    BY Performance
  <2>2. pp[p].revenue = Total(P, "revenue")
    BY <2>1, RevenueIs
  <2>3. pp[p].expense = Total(P, "expense")
    BY <2>1, ExpenseIs
  <2>4. pp[p].cogs = Total(CogsPart(P, TRUE), "expense")
    BY <2>1, CogsIs
  <2>5. pp[p].opex = Total(CogsPart(P, FALSE), "expense")
    BY <2>1, OpexIs
  <2>. QED BY <2>2, <2>3, <2>4, <2>5
<1>3. pp[p].revenue - pp[p].expense = SumFunction([m \in 1..12 |-> months[m].net])
  <2>. DEFINE g == [m \in 1..12 |-> months[m].net]
  <2>1. g = [m \in 1..12 |-> profit_and_loss({l \in P : MonthOf(l.date) = m}).net]
    BY DEF project_monthly, ProjectYear
  <2>2. SumFunction(g) = profit_and_loss(P).net
    <3>. HIDE DEF g, P
    <3>. QED BY <1>1, <2>1, MonthlyProfits
  <2>3. profit_and_loss(P).net = Total(P, "revenue") - Total(P, "expense")
    BY <1>1, ProfitIsNet
  <2>. QED BY <1>2, <2>2, <2>3
<1>4. pp[p].expense = pp[p].cogs + pp[p].opex
  <2>. DEFINE A == CogsPart(P, TRUE)
              R == CogsPart(P, FALSE)
              E == Of(P, "expense")
              EA == Of(A, "expense")
              ER == Of(R, "expense")
  <2>1. EA \in SUBSET E /\ ER = E \ EA
    BY DEF Of, CogsPart, IsCogs
  <2>2. Money(E)
    <3>1. E \in SUBSET P
      BY DEF Of
    <3>. HIDE DEF E, P
    <3>. QED BY <1>1, <3>1, MoneyPart DEF Typed
  <2>3. Net(E) = Net(EA) + Net(ER) /\ Net(EA) \in Int /\ Net(ER) \in Int
    <3>. HIDE DEF E, EA, ER
    <3>. QED BY <2>1, <2>2, NetSplit
  <2>4. Total(P, "expense") = Net(E) /\ Total(A, "expense") = Net(EA) /\ Total(R, "expense") = Net(ER)
    <3>. HIDE DEF A, R, P
    <3>. QED BY <2>3, TypeNames DEF Total
  <2>. HIDE DEF A, R, E, EA, ER, P, pp
  <2>. QED BY <1>2, <2>3, <2>4 DEF A, R
<1>5. ASSUME Uniform(company), NEW code \in DOMAIN bva, bva[code].type \in Earned
      PROVE  bva[code].actual = SIGN(bva[code].type) * Net(project_account_ledger(J, p, code, y))
  <2>. DEFINE B == {b \in BudgetRows : b.year = y /\ b.project = p}
              typ == AccountType(company)
              L == project_account_ledger(J, p, code, y)
              C == On(P, code)
              t == typ[code]
  <2>1. bva = Compared(B, P)
    BY DEF project_budget_vs_actual, BudgetRows, ProjectYear
  <2>2. \A b \in B : b.type \in Types /\ b.type = typ[b.code]
    BY <1>5, BudgetType
  <2>3. \A l \in J : l.type = typ[l.code] /\ l.type \in Types
    <3>1. \A l \in J : l.company \in company
      BY DEF Told, LineIs
    <3>. QED BY <1>5, <3>1, LineType
  <2>4. code \in {b.code : b \in B} \cup {l.code : l \in P}
    BY <2>1 DEF Compared
  <2>5. t \in Types /\ bva[code].type = t /\ bva[code].actual = Signed(C)
    <3>1. \A l \in P : l.type = typ[l.code]
      BY <1>1, <2>3
    <3>. HIDE DEF B, P, typ
    <3>. QED BY <1>1, <2>1, <2>2, <2>4, <3>1, ComparedRow
  <2>6. t \in Earned
    BY <1>5, <2>5
  <2>7. L = C
    <3>1. ASSUME NEW l \in L PROVE l \in C
      <4>1. l \in J /\ l.project = p /\ l.code = code /\ YearOf(l.date) = y
        BY DEF project_account_ledger
      <4>2. l.type = t
        BY <2>3, <4>1
      <4>. QED BY <1>1, <2>6, <4>1, <4>2 DEF On
    <3>2. ASSUME NEW l \in C PROVE l \in L
      BY <1>1 DEF On, project_account_ledger
    <3>. QED BY <3>1, <3>2
  <2>8. Typed(C) /\ \A l \in C : l.type = t
    <3>1. C \in SUBSET P /\ \A l \in C : l.code = code /\ l \in J
      BY <1>1 DEF On
    <3>. HIDE DEF C, P, typ
    <3>. QED BY <1>1, <2>3, <3>1, MoneyPart DEF Typed
  <2>9. Signed(C) = SIGN(t) * Net(C)
    <3>. HIDE DEF C, t
    <3>. QED BY <2>5, <2>8, SignedOfType
  <2>. QED BY <2>5, <2>7, <2>9
<1>. QED BY <1>3, <1>4, <1>5

LEMMA ProjectsHold ==
  ASSUME ChartIInv, NEW J, Told(J), NEW y \in Nat
  PROVE  ProjectsAddUp(J, y)
<1>1. SumFunction([c \in company |-> profit_and_loss(Attributed(J, {c}, Jan1(y), Dec31(y))).net])
        = -Net({l \in J : YearOf(l.date) = y /\ l.type \in Earned})
  BY AttributionAddsUp
<1>2. \A c \in company :
        LET pp == project_performance(J, {c}, y)
            Own == Attributed(J, {c}, Jan1(y), Dec31(y))
        IN  Total(Own, "revenue") = SumFunction([p \in DOMAIN pp |-> pp[p].revenue])
                                    + Total({l \in Own : l.project = NoProject}, "revenue")
  BY OwnRevenue
<1>3. \A p \in Projects :
        LET bva == project_budget_vs_actual(J, p, y)
            pp == project_performance(J, company, y)
            months == project_monthly(J, p, y)
        IN  p \in DOMAIN pp =>
              /\ pp[p].revenue - pp[p].expense = SumFunction([m \in 1..12 |-> months[m].net])
              /\ pp[p].expense = pp[p].cogs + pp[p].opex
              /\ Uniform(company) => \A code \in DOMAIN bva : bva[code].type \in Earned =>
                   bva[code].actual = SIGN(bva[code].type) * Net(project_account_ledger(J, p, code, y))
  BY ProjectHolds
<1>. QED BY <1>1, <1>2, <1>3 DEF ProjectsAddUp

\* The years of a project's life.
LEMMA ClosingHolds ==
  ASSUME ChartIInv, NEW J, Told(J)
  PROVE  ClosesOut(J)
<1>. SUFFICES ASSUME NEW p \in Projects, \A l \in J : YearOf(l.date) \in Years
              PROVE  LET Of2(y) == project_performance(J, company, y)
                         Here(y) == p \in DOMAIN Of2(y)
                     IN  project_closeout(J, p).gross =
                           SumFunction([y \in {x \in Years : Here(x)} |-> Of2(y)[p].revenue - Of2(y)[p].expense])
  BY DEF ClosesOut
<1>. DEFINE Of2(y) == project_performance(J, company, y)
            K == {x \in Years : p \in DOMAIN Of2(x)}
            S == {l \in J : l.project = p /\ l.type \in Earned}
            key == [l \in S |-> YearOf(l.date)]
            g == [y \in K |-> Of2(y)[p].revenue - Of2(y)[p].expense]
            h == [y \in K |-> Net(Bearing(S, key, y))]
<1>1. Typed(S) /\ S \in SUBSET J /\ Money(S)
  <2>1. S \in SUBSET J
    OBVIOUS
  <2>. HIDE DEF S
  <2>. QED BY <2>1, ToldIsTyped DEF Typed
<1>2. \A y \in Years : y \in Nat
  BY CalendarAssumption
<1>3. IsFiniteSet(K)
  <2>1. K \subseteq Years
    OBVIOUS
  <2>. HIDE DEF K
  <2>. QED BY <2>1, CalendarAssumption, FS_Subset
<1>4. ASSUME NEW l \in S PROVE key[l] \in K
  <2>1. l \in J /\ l.project = p /\ l.type \in Earned /\ YearOf(l.date) \in Years
    OBVIOUS
  <2>2. l \in ProjectYear(J, p, YearOf(l.date))
    BY <1>2, <2>1, ProjectYearLines
  <2>3. project[p] \in company
    BY <2>1, NameAssumption DEF Told, LineIs
  <2>4. p \in ProjectsOf(J, company, YearOf(l.date))
    BY <2>2, <2>3 DEF ProjectsOf
  <2>5. p \in DOMAIN Of2(YearOf(l.date))
    BY <2>4, Performance
  <2>. QED BY <2>1, <2>5
<1>5. \A y \in K : h[y] = Net(Bearing(S, key, y)) /\ h[y] \in Int
  <2>1. \A y \in K : Bearing(S, key, y) \in SUBSET S
    BY DEF Bearing
  <2>. HIDE DEF S, key, K
  <2>. QED BY <1>1, <2>1, NetIsMoved
<1>6. SumFunctionOnSet(h, K) = Net(S)
  <2>. HIDE DEF S, key, h, K
  <2>. QED BY <1>1, <1>3, <1>4, <1>5, NetByKey
<1>7. ASSUME NEW y \in K PROVE g[y] = -h[y]
  <2>. DEFINE P == ProjectYear(J, p, y)
  <2>1. Of2(y)[p].revenue = Total(P, "revenue") /\ Of2(y)[p].expense = Total(P, "expense")
    <3>1. p \in ProjectsOf(J, company, y)
      BY Performance
    <3>2. Of2(y)[p].revenue = Total(P, "revenue")
      BY <3>1, RevenueIs
    <3>3. Of2(y)[p].expense = Total(P, "expense")
      BY <3>1, ExpenseIs
    <3>. QED BY <3>2, <3>3
  <2>2. P = {l \in J : l.project = p /\ l.type \in Earned /\ YearOf(l.date) = y} /\ Typed(P)
    BY <1>2, ProjectYearLines
  <2>3. EarnedOf(P) = Bearing(S, key, y)
    BY <2>2 DEF EarnedOf, Bearing
  <2>4. Total(P, "revenue") - Total(P, "expense") = -Net(EarnedOf(P))
    BY <2>2, ProfitIsNet
  <2>. QED BY <2>1, <2>3, <2>4
<1>8. SumFunctionOnSet(g, K) = -SumFunctionOnSet(h, K)
  <2>. HIDE DEF g, h, K
  <2>. QED BY <1>3, <1>5, <1>7, SumNegative
<1>9. SumFunction(g) = SumFunctionOnSet(g, K)
  BY DEF SumFunction
<1>10. project_closeout(J, p).gross = -Net(S)
  <2>1. project_closeout(J, p).gross = Total(S, "revenue") - Total(S, "expense")
    BY DEF project_closeout
  <2>2. EarnedOf(S) = S
    BY DEF EarnedOf
  <2>3. Total(S, "revenue") - Total(S, "expense") = -Net(EarnedOf(S))
    <3>. HIDE DEF S
    <3>. QED BY <1>1, ProfitIsNet
  <2>. QED BY <2>1, <2>2, <2>3
<1>11. project_closeout(J, p).gross = SumFunction(g)
  BY <1>6, <1>8, <1>9, <1>10
<1>. QED BY <1>11

-----------------------------------------------------------------------------
(* Cash.                                                                   *)

LEMMA CashCodes ==
  \/ get_cash_codes = <<>>
  \/ \E s : get_cash_codes = <<s>> /\ get_cash_codes # <<>> /\ get_cash_codes[1] = s /\ \A code \in s : Family(code) = 11
<1>. DEFINE held == {code \in Codes : Family(code) = 11
                       /\ \E c \in company : Exists(c, code) /\ account[c][code].type = "asset"}
            s == {code \in held : IF code \in DOMAIN override THEN override[code] ELSE CashDefault(code)}
<1>1. get_cash_codes = IF override = <<>> THEN <<>> ELSE <<s>>
  BY DEF get_cash_codes
<1>2. \A code \in s : Family(code) = 11
  OBVIOUS
<1>. HIDE DEF s
<1>3. <<s>> # <<>> /\ <<s>>[1] = s
  OBVIOUS
<1>. QED BY <1>1, <1>2, <1>3

Upto(J, ids, codes, y) == {l \in CashLines(J, ids, codes) : l.date < Jan1(y + 1)}
Past(J, ids, codes, y) == {l \in CashLines(J, ids, codes) : l.date < Jan1(y)}
Within(J, ids, codes, y) == InYear(CashLines(J, ids, codes), y)

LEMMA CashParts ==
  ASSUME NEW J, Told(J), NEW ids, NEW codes, NEW y \in Nat
  PROVE  /\ Upto(J, ids, codes, y) \in SUBSET J /\ Past(J, ids, codes, y) \in SUBSET Upto(J, ids, codes, y)
         /\ Within(J, ids, codes, y) = Upto(J, ids, codes, y) \ Past(J, ids, codes, y)
         /\ Net(Upto(J, ids, codes, y)) = Net(Past(J, ids, codes, y)) + Net(Within(J, ids, codes, y))
         /\ Net(Past(J, ids, codes, y)) \in Int /\ Net(Within(J, ids, codes, y)) \in Int
         /\ opening_cash(J, ids, Jan1(y), codes) = Net(Past(J, ids, codes, y))
         /\ opening_cash(J, ids, Jan1(y + 1), codes) = Net(Upto(J, ids, codes, y))
         /\ Money(Within(J, ids, codes, y)) /\ \A l \in Within(J, ids, codes, y) : l.date \in Nat /\ YearOf(l.date) = y
<1>. DEFINE C == CashLines(J, ids, codes)
            U == Upto(J, ids, codes, y)
            P == Past(J, ids, codes, y)
            W == Within(J, ids, codes, y)
<1>1. C \subseteq J
  BY DEF CashLines
<1>2. \A l \in J : /\ l.date < Jan1(y + 1) <=> l.date < Jan1(y) \/ YearOf(l.date) = y
                   /\ ~(l.date < Jan1(y) /\ YearOf(l.date) = y) /\ l.date \in Nat
  BY LineYears
<1>3. U \in SUBSET J /\ P \in SUBSET U /\ W = U \ P
  BY <1>1, <1>2 DEF Upto, Past, Within, InYear
<1>4. Money(U) /\ Money(W)
  <2>1. U \in SUBSET J /\ W \in SUBSET J
    BY <1>3
  <2>. HIDE DEF U, W
  <2>. QED BY <2>1, ToldIsTyped DEF Typed
<1>5. Net(U) = Net(P) + Net(W) /\ Net(P) \in Int /\ Net(W) \in Int
  <2>. HIDE DEF U, P, W
  <2>. QED BY <1>3, <1>4, NetSplit
<1>6. opening_cash(J, ids, Jan1(y), codes) = Net(P) /\ opening_cash(J, ids, Jan1(y + 1), codes) = Net(U)
  BY DEF opening_cash, Upto, Past
<1>7. \A l \in W : l.date \in Nat /\ YearOf(l.date) = y
  BY <1>1, <1>2 DEF Within, InYear
<1>. QED BY <1>3, <1>4, <1>5, <1>6, <1>7

\* The dashboard's figure, and what it is made of.
LEMMA DashboardCash ==
  ASSUME NEW J, Told(J), NEW ids, NEW y \in Nat, NEW codes, codes = get_cash_codes
  PROVE  /\ dashboard(J, ids, y, codes).cash = Net(Upto(J, ids, codes, y))
         /\ Net(CashBreakdown(J, ids, Dec31(y), codes)) = Net(Upto(J, ids, codes, y))
<1>. DEFINE B == Booked(J, ids, 0, Dec31(y))
            D == {l \in B : IF codes = <<>> THEN Family(l.code) = 11 /\ ~IsCard(l.code) ELSE l.code \in codes[1]}
            U == Upto(J, ids, codes, y)
<1>1. dashboard(J, ids, y, codes).cash = Total(D, "asset")
  BY DEF dashboard
<1>2. \A l \in J : l.date \in Nat /\ 0 <= l.date /\ (l.date <= Dec31(y) <=> l.date < Jan1(y + 1))
  BY LineYears
<1>3. codes = <<>> \/ (codes # <<>> /\ \A code \in codes[1] : Family(code) = 11)
  BY CashCodes
<1>4. Of(D, "asset") = U
  BY <1>2 DEF Of, Booked, Upto, CashLines, Cash
<1>5. CashBreakdown(J, ids, Dec31(y), codes) = U
  <2>1. CASE codes = <<>>
    BY <1>2, <2>1 DEF CashBreakdown, Upto, CashLines, Cash, CashDefault
  <2>2. CASE codes # <<>>
    BY <1>2, <1>3, <2>2 DEF CashBreakdown, Upto, CashLines, Cash
  <2>. QED BY <2>1, <2>2
<1>6. Total(D, "asset") = Net(U)
  <2>1. Net(U) \in Int
    <3>1. U \in SUBSET J /\ Money(J)
      BY CashParts DEF Told
    <3>. HIDE DEF U
    <3>. QED BY <3>1, NetIsMoved
  <2>. QED BY <1>4, <2>1, TypeNames DEF Total
<1>. QED BY <1>1, <1>5, <1>6

InMonth(S, m) == {l \in S : MonthOf(l.date) = m}
ToMonth(S, m) == {l \in S : MonthOf(l.date) <= m}
MonthlyDebits(S) == [m \in 1..12 |-> Debits(InMonth(S, m))]
MonthlyCredits(S) == [m \in 1..12 |-> Credits(InMonth(S, m))]

LEMMA FlowFields ==
  ASSUME NEW J, NEW ids, NEW y, NEW codes
  PROVE  /\ cash_flow(J, ids, y, codes).opening = opening_cash(J, ids, Jan1(y), codes)
         /\ \A m \in 1..12 : cash_flow(J, ids, y, codes).ending[m]
                              = opening_cash(J, ids, Jan1(y), codes) + Net(ToMonth(Within(J, ids, codes, y), m))
         /\ cash_flow(J, ids, y, codes).total_in = SumFunction(MonthlyDebits(Within(J, ids, codes, y)))
         /\ cash_flow(J, ids, y, codes).total_out = SumFunction(MonthlyCredits(Within(J, ids, codes, y)))
BY DEF cash_flow, Within, InMonth, ToMonth, MonthlyDebits, MonthlyCredits

\* What comes in and goes out in the months.
LEMMA FlowTotals ==
  ASSUME NEW J, Told(J), NEW ids, NEW y \in Nat, NEW codes
  PROVE  LET cf == cash_flow(J, ids, y, codes) IN
         cf.opening + cf.total_in - cf.total_out = Net(Upto(J, ids, codes, y))
<1>. DEFINE cf == cash_flow(J, ids, y, codes)
            C == Within(J, ids, codes, y)
            K == 1..12
            key == [l \in C |-> MonthOf(l.date)]
            g == MonthlyDebits(C)
            h == MonthlyCredits(C)
<1>1. Money(C) /\ \A l \in C : l.date \in Nat
  BY CashParts
<1>2. \A l \in C : key[l] \in K
  BY <1>1, MonthBounds
<1>3. IsFiniteSet(K)
  <2>1. 12 \in Nat
    OBVIOUS
  <2>. QED BY <2>1, FirstFinite
<1>4. \A m \in K : InMonth(C, m) = Bearing(C, key, m)
  BY DEF Bearing, InMonth
<1>5. \A m \in K : g[m] = Debits(Bearing(C, key, m)) /\ h[m] = Credits(Bearing(C, key, m))
  <2>1. \A m \in K : g[m] = Debits(InMonth(C, m)) /\ h[m] = Credits(InMonth(C, m))
    BY DEF MonthlyDebits, MonthlyCredits
  <2>. QED BY <1>4, <2>1
<1>6. SumFunctionOnSet(g, K) = Debits(C) /\ SumFunctionOnSet(h, K) = Credits(C)
  <2>. HIDE DEF C, K, key, g, h
  <2>. QED BY <1>1, <1>2, <1>3, <1>5, DebitsByKey
<1>7. cf.total_in = SumFunctionOnSet(g, K) /\ cf.total_out = SumFunctionOnSet(h, K)
  <2>1. cf.total_in = SumFunction(g) /\ cf.total_out = SumFunction(h)
    BY FlowFields
  <2>2. DOMAIN g = K /\ DOMAIN h = K
    BY DEF MonthlyDebits, MonthlyCredits
  <2>. HIDE DEF cf, g, h
  <2>. QED BY <2>1, <2>2 DEF SumFunction
<1>8. cf.opening = Net(Past(J, ids, codes, y))
  BY FlowFields, CashParts
<1>9. Net(C) = Debits(C) - Credits(C) /\ Debits(C) \in Nat /\ Credits(C) \in Nat
  BY <1>1, NetInt DEF Net
<1>10. /\ Net(Upto(J, ids, codes, y)) = Net(Past(J, ids, codes, y)) + Net(C)
       /\ Net(Past(J, ids, codes, y)) \in Int
  BY CashParts
<1>11. cf.opening + cf.total_in - cf.total_out = Net(Upto(J, ids, codes, y))
  <2>. HIDE DEF cf, C, K, g, h
  <2>. QED BY <1>6, <1>7, <1>8, <1>9, <1>10
<1>. QED BY <1>11

\* The other side of the entries that touch cash.
OtherSide(J, ids, codes, y) ==
    {l \in InYear(J, y) : l.company \in ids /\ ~Cash(l, codes, ids)
                          /\ l.id[1] \in {k.id[1] : k \in CashLines(J, ids, codes)}}

Counter(l) == <<l.code, l.type>>
Counters(S) == {Counter(l) : l \in S}
CounterNet(S, k) == Net({l \in S : Counter(l) = k})
Sources(S) == [k \in {x \in Counters(S) : CounterNet(S, x) < 0} |-> -CounterNet(S, k)]
Uses(S) == [k \in {x \in Counters(S) : CounterNet(S, x) > 0} |-> CounterNet(S, k)]

LEMMA FlowCounters ==
  ASSUME NEW J, NEW ids, NEW y, NEW codes
  PROVE  /\ cash_flow(J, ids, y, codes).sources = SumFunction(Sources(OtherSide(J, ids, codes, y)))
         /\ cash_flow(J, ids, y, codes).uses = SumFunction(Uses(OtherSide(J, ids, codes, y)))
BY DEF cash_flow, OtherSide, Sources, Uses, Counters, CounterNet, Counter

LEMMA OtherSideMoves ==
  ASSUME NEW J, Told(J), NEW ids, NEW y \in Nat, NEW codes
  PROVE  /\ Money(OtherSide(J, ids, codes, y)) /\ OtherSide(J, ids, codes, y) \in SUBSET J
         /\ Net(OtherSide(J, ids, codes, y)) = -Net(Within(J, ids, codes, y))
<1>. DEFINE C == CashLines(J, ids, codes)
            touched == {k.id[1] : k \in C}
            W == Within(J, ids, codes, y)
            K == OtherSide(J, ids, codes, y)
            Z == {l \in J : YearOf(l.date) = y /\ l.company \in ids /\ l.id[1] \in touched}
<1>1. C = {l \in J : l.company \in ids /\ Cash(l, codes, ids)}
  BY DEF CashLines
<1>2. W = {l \in J : YearOf(l.date) = y /\ l.company \in ids /\ Cash(l, codes, ids)}
  BY <1>1 DEF Within, InYear
<1>3. K = {l \in J : YearOf(l.date) = y /\ l.company \in ids /\ ~Cash(l, codes, ids) /\ l.id[1] \in touched}
  BY DEF OtherSide, InYear
<1>4. \A l \in W : l.id[1] \in touched
  BY <1>1, <1>2
<1>5. W \in SUBSET Z /\ K = Z \ W /\ Z \in SUBSET J /\ K \in SUBSET J
  <2>. HIDE DEF W, K, touched
  <2>. QED BY <1>2, <1>3, <1>4
<1>6. Net(Z) = 0
  <2>1. \A k \in Z, l \in J : k.id[1] = l.id[1] => l \in Z
    <3>. HIDE DEF touched
    <3>. QED BY DEF Told
  <2>. HIDE DEF Z
  <2>. QED BY <1>5, <2>1, WholeEntries
<1>7. Money(Z) /\ Money(K)
  <2>. HIDE DEF Z, K
  <2>. QED BY <1>5, ToldIsTyped DEF Typed
<1>8. Net(Z) = Net(W) + Net(K) /\ Net(W) \in Int /\ Net(K) \in Int
  <2>. HIDE DEF Z, W, K
  <2>. QED BY <1>5, <1>7, NetSplit
<1>. QED BY <1>5, <1>6, <1>7, <1>8

\* Where cash came from less where it went.
LEMMA SourcesUses ==
  ASSUME NEW J, Told(J), NEW ids, NEW y \in Nat, NEW codes
  PROVE  LET cf == cash_flow(J, ids, y, codes) IN
         cf.sources - cf.uses = Net(Within(J, ids, codes, y))
<1>. DEFINE cf == cash_flow(J, ids, y, codes)
            K == OtherSide(J, ids, codes, y)
            D == Counters(K)
            NetOf(k) == CounterNet(K, k)
            key == [l \in K |-> Counter(l)]
            n == [k \in D |-> NetOf(k)]
            Neg == {x \in D : NetOf(x) < 0}
            Pos == {x \in D : NetOf(x) > 0}
            s == Sources(K)
            u == Uses(K)
<1>1. Money(K) /\ Net(K) = -Net(Within(J, ids, codes, y)) /\ Net(Within(J, ids, codes, y)) \in Int
  BY OtherSideMoves, CashParts
<1>2. IsFiniteSet(D)
  <2>1. D = {key[l] : l \in K} /\ IsFiniteSet(K)
    BY <1>1 DEF Money, Counters
  <2>. HIDE DEF key, D, K
  <2>. QED BY <2>1, ImageFinite
<1>3. \A k \in D : n[k] = Net(Bearing(K, key, k)) /\ n[k] \in Int
  <2>. SUFFICES ASSUME NEW k \in D PROVE n[k] = Net(Bearing(K, key, k)) /\ n[k] \in Int
    OBVIOUS
  <2>1. Bearing(K, key, k) = {l \in K : Counter(l) = k} /\ Bearing(K, key, k) \in SUBSET K
    BY DEF Bearing
  <2>2. Net(Bearing(K, key, k)) \in Int
    <3>. HIDE DEF K, key
    <3>. QED BY <1>1, <2>1, NetIsMoved
  <2>3. n[k] = Net({l \in K : Counter(l) = k})
    BY DEF CounterNet
  <2>. QED BY <2>1, <2>2, <2>3
<1>4. SumFunctionOnSet(n, D) = Net(K)
  <2>1. \A l \in K : key[l] \in D
    BY DEF Counters
  <2>. HIDE DEF K, key, n, D
  <2>. QED BY <1>1, <1>2, <1>3, <2>1, NetByKey
<1>5. Pos \in SUBSET D /\ Neg \in SUBSET (D \ Pos) /\ \A k \in (D \ Pos) \ Neg : n[k] = 0
  <2>1. \A k \in D : n[k] = NetOf(k) /\ n[k] \in Int
    BY <1>3
  <2>. HIDE DEF D, n, NetOf
  <2>. QED BY <2>1
<1>6. /\ \A k \in Neg : s[k] \in Int /\ s[k] = -n[k]
      /\ \A k \in Pos : u[k] = n[k]
  <2>1. \A k \in D : n[k] = NetOf(k) /\ n[k] \in Int
    BY <1>3
  <2>2. s = [k \in Neg |-> -NetOf(k)] /\ u = [k \in Pos |-> NetOf(k)]
    BY DEF Sources, Uses
  <2>. HIDE DEF D, n, NetOf, s, u
  <2>. QED BY <2>1, <2>2
<1>7. IsFiniteSet(Pos) /\ IsFiniteSet(D \ Pos) /\ IsFiniteSet(Neg) /\ IsFiniteSet((D \ Pos) \ Neg)
  <2>. HIDE DEF Pos, Neg, D
  <2>. QED BY <1>2, <1>5, FS_Subset
<1>8. /\ SumFunctionOnSet(n, D) = SumFunctionOnSet(n, Pos) + SumFunctionOnSet(n, D \ Pos)
      /\ SumFunctionOnSet(n, D \ Pos) = SumFunctionOnSet(n, Neg) + SumFunctionOnSet(n, (D \ Pos) \ Neg)
      /\ SumFunctionOnSet(n, (D \ Pos) \ Neg) = 0
  <2>1. \A k \in D : n[k] \in Int
    BY <1>3
  <2>. HIDE DEF Pos, Neg, D, n
  <2>2. SumFunctionOnSet(n, D) = SumFunctionOnSet(n, Pos) + SumFunctionOnSet(n, D \ Pos)
    BY <1>2, <1>5, <2>1, SumSplit
  <2>3. SumFunctionOnSet(n, D \ Pos) = SumFunctionOnSet(n, Neg) + SumFunctionOnSet(n, (D \ Pos) \ Neg)
    BY <1>5, <1>7, <2>1, SumSplit
  <2>4. SumFunctionOnSet(n, (D \ Pos) \ Neg) = 0
    BY <1>5, <1>7, SumZero
  <2>. QED BY <2>2, <2>3, <2>4
<1>9. SumFunctionOnSet(s, Neg) = -SumFunctionOnSet(n, Neg) /\ SumFunctionOnSet(u, Pos) = SumFunctionOnSet(n, Pos)
  <2>1. \A k \in Neg : n[k] \in Int
    BY <1>3, <1>5
  <2>. HIDE DEF Pos, Neg, D, n, s, u
  <2>. QED BY <1>6, <1>7, <2>1, SumSame, SumNegative
<1>10. cf.sources = SumFunctionOnSet(s, Neg) /\ cf.uses = SumFunctionOnSet(u, Pos)
  <2>1. cf.sources = SumFunction(s) /\ cf.uses = SumFunction(u)
    BY FlowCounters
  <2>2. DOMAIN s = Neg /\ DOMAIN u = Pos
    BY DEF Sources, Uses
  <2>. HIDE DEF cf, s, u, Neg, Pos
  <2>. QED BY <2>1, <2>2 DEF SumFunction
<1>11. SumFunctionOnSet(n, Pos) \in Int /\ SumFunctionOnSet(n, Neg) \in Int
  <2>1. \A k \in Pos : n[k] \in Int
    BY <1>3, <1>5
  <2>2. \A k \in Neg : n[k] \in Int
    BY <1>3, <1>5
  <2>. HIDE DEF Pos, Neg, D, n
  <2>. QED BY <1>7, <2>1, <2>2, SumInt
<1>12. cf.sources - cf.uses = Net(Within(J, ids, codes, y))
  <2>. HIDE DEF cf, K, D, n, s, u, Pos, Neg
  <2>. QED BY <1>1, <1>4, <1>8, <1>9, <1>10, <1>11
<1>. QED BY <1>12

\* The ends of the months and weeks.
LEMMA FlowEnds ==
  ASSUME NEW J, Told(J), NEW ids, NEW y \in Nat, NEW codes
  PROVE  /\ cash_flow(J, ids, y, codes).ending[12] = Net(Upto(J, ids, codes, y))
         /\ weekly_cash_flow(J, ids, y, codes)[CASH_WEEKS] = Net(Upto(J, ids, codes, y))
         /\ \A m \in 1..12 : cash_flow(J, ids, y, codes).ending[m] = opening_cash(J, ids, NextFirst(y, m), codes)
<1>. DEFINE cf == cash_flow(J, ids, y, codes)
            C == CashLines(J, ids, codes)
            U == Upto(J, ids, codes, y)
            P == Past(J, ids, codes, y)
            W == Within(J, ids, codes, y)
<1>1. /\ U \in SUBSET J /\ P \in SUBSET U /\ W = U \ P /\ Net(U) = Net(P) + Net(W)
      /\ opening_cash(J, ids, Jan1(y), codes) = Net(P)
      /\ \A l \in W : l.date \in Nat /\ YearOf(l.date) = y
  BY CashParts
<1>2. \A m \in 1..12 : cf.ending[m] = Net(P) + Net({l \in W : MonthOf(l.date) <= m})
  <2>1. \A m \in 1..12 : cf.ending[m] = Net(P) + Net(ToMonth(W, m))
    BY <1>1, FlowFields
  <2>2. \A m \in 1..12 : ToMonth(W, m) = {l \in W : MonthOf(l.date) <= m}
    BY DEF ToMonth
  <2>. HIDE DEF cf, W, P
  <2>. QED BY <2>1, <2>2
<1>3. cf.ending[12] = Net(U)
  <2>1. {l \in W : MonthOf(l.date) <= 12} = W
    <3>1. \A l \in W : MonthOf(l.date) \in 1..12
      BY <1>1, MonthBounds
    <3>. HIDE DEF W
    <3>. QED BY <3>1
  <2>2. 12 \in 1..12
    OBVIOUS
  <2>. HIDE DEF cf, W, U, P
  <2>. QED BY <1>1, <1>2, <2>1, <2>2
<1>4. weekly_cash_flow(J, ids, y, codes)[CASH_WEEKS] = Net(U)
  <2>1. ASSUME NEW l \in W PROVE WeekOf(l.date) <= CASH_WEEKS
    <3>. DEFINE w == ((l.date % 366) \div 7) + 1
    <3>1. w \in Int
      BY <1>1
    <3>. HIDE DEF w
    <3>2. {CASH_WEEKS, w} \in SUBSET Int /\ IsFiniteSet({CASH_WEEKS, w}) /\ {CASH_WEEKS, w} # {}
      <4>1. IsFiniteSet({CASH_WEEKS, w})
        <5>1. IsFiniteSet({CASH_WEEKS})
          BY FS_Singleton
        <5>2. IsFiniteSet({CASH_WEEKS} \cup {w})
          BY <5>1, FS_AddElement
        <5>3. {CASH_WEEKS} \cup {w} = {CASH_WEEKS, w}
          OBVIOUS
        <5>. QED BY <5>2, <5>3
      <4>. QED BY <3>1, <4>1 DEF CASH_WEEKS
    <3>3. Min({CASH_WEEKS, w}) <= CASH_WEEKS
      BY <3>2, MinIsIn
    <3>4. WeekOf(l.date) = Min({CASH_WEEKS, w})
      BY DEF WeekOf, w
    <3>. QED BY <3>3, <3>4
  <2>2. {l \in W : WeekOf(l.date) <= CASH_WEEKS} = W
    BY <2>1
  <2>3. weekly_cash_flow(J, ids, y, codes)[CASH_WEEKS]
          = opening_cash(J, ids, Jan1(y), codes) + Net({l \in W : WeekOf(l.date) <= CASH_WEEKS})
    BY DEF weekly_cash_flow, Within, CASH_WEEKS
  <2>. HIDE DEF W, U, P
  <2>. QED BY <1>1, <2>2, <2>3
<1>5. ASSUME NEW m \in 1..12 PROVE cf.ending[m] = opening_cash(J, ids, NextFirst(y, m), codes)
  <2>. DEFINE M == {l \in W : MonthOf(l.date) <= m}
              B == {l \in C : l.date < NextFirst(y, m)}
  <2>1. C \subseteq J /\ \A l \in J : l.date \in Nat
    BY ToldIsTyped DEF CashLines
  <2>2. \A l \in C : /\ l.date < NextFirst(y, m) <=> l.date < Jan1(y) \/ (YearOf(l.date) = y /\ MonthOf(l.date) <= m)
                     /\ ~(l.date < Jan1(y) /\ YearOf(l.date) = y)
    <3>. SUFFICES ASSUME NEW l \in C
                  PROVE  /\ l.date < NextFirst(y, m) <=> l.date < Jan1(y) \/ (YearOf(l.date) = y /\ MonthOf(l.date) <= m)
                         /\ ~(l.date < Jan1(y) /\ YearOf(l.date) = y)
      OBVIOUS
    <3>1. l \in J /\ l.date \in Nat
      BY <2>1
    <3>2. ~(l.date < Jan1(y) /\ YearOf(l.date) = y)
      BY <3>1, LineYears
    <3>. QED BY <3>1, <3>2, MonthEnds
  <2>3. P \in SUBSET B /\ M = B \ P /\ B \in SUBSET J
    BY <2>1, <2>2 DEF Past, Within, InYear
  <2>4. Money(B)
    <3>. HIDE DEF B
    <3>. QED BY <2>3, ToldIsTyped DEF Typed
  <2>5. Net(B) = Net(P) + Net(M)
    <3>. HIDE DEF B, P, M
    <3>. QED BY <2>3, <2>4, NetSplit
  <2>6. opening_cash(J, ids, NextFirst(y, m), codes) = Net(B)
    BY DEF opening_cash
  <2>. QED BY <1>2, <2>5, <2>6
<1>. QED BY <1>3, <1>4, <1>5

LEMMA ThroughMonth ==
  ASSUME ChartIInv, NEW ids, NEW y \in Nat
  PROVE  through_month(ids, y) \in 0..12
<1>. DEFINE I == {k \in DOMAIN entry : /\ entry[k].posted /\ entry[k].company \in ids /\ entry[k].date <= Today}
            date == [i \in I |-> entry[i].date]
            dates == {entry[i].date : i \in I}
            d == Max(dates)
<1>1. through_month(ids, y) = IF dates = {} THEN 0
                              ELSE CASE YearOf(d) > y -> 12 [] YearOf(d) < y -> 0 [] OTHER -> MonthOf(d)
  BY DEF through_month
<1>2. CASE dates = {}
  <2>1. through_month(ids, y) = 0
    BY <1>1, <1>2
  <2>. QED BY <2>1
<1>3. CASE dates # {}
  <2>1. \A i \in I : date[i] \in Nat
    BY DEF ChartIInv, Keyed, EntryRow
  <2>2. IsFiniteSet(I)
    BY FS_Subset DEF ChartIInv, Keyed
  <2>3. dates = {date[i] : i \in I}
    OBVIOUS
  <2>4. IsFiniteSet({date[i] : i \in I})
    <3>. HIDE DEF date, I
    <3>. QED BY <2>2, ImageFinite
  <2>5. dates \in SUBSET Int /\ IsFiniteSet(dates) /\ dates \subseteq Nat
    <3>1. dates \subseteq Nat
      BY <2>1
    <3>2. IsFiniteSet(dates)
      BY <2>3, <2>4
    <3>. HIDE DEF dates
    <3>. QED BY <3>1, <3>2
  <2>6. d \in Nat
    <3>1. d \in dates
      <4>. HIDE DEF dates
      <4>. QED BY <1>3, <2>5, MaxIsIn
    <3>. QED BY <2>5, <3>1
  <2>7. MonthOf(d) \in 1..12 /\ YearOf(d) \in Nat
    <3>. HIDE DEF d
    <3>. QED BY <2>6, MonthBounds, YearBounds
  <2>. HIDE DEF d, dates
  <2>8. CASE YearOf(d) > y
    BY <1>1, <1>3, <2>8
  <2>9. CASE ~(YearOf(d) > y) /\ YearOf(d) < y
    BY <1>1, <1>3, <2>9
  <2>10. CASE ~(YearOf(d) > y) /\ ~(YearOf(d) < y)
    BY <1>1, <1>3, <2>7, <2>10
  <2>. QED BY <2>8, <2>9, <2>10
<1>. QED BY <1>2, <1>3

LEMMA CashHolds ==
  ASSUME ChartIInv, NEW J, Told(J), NEW ids, NEW y \in Nat
  PROVE  OneCash(J, ids, y)
<1>. DEFINE codes == get_cash_codes
            cash == opening_cash(J, ids, Jan1(y + 1), codes)
            cf == cash_flow(J, ids, y, codes)
            ceo == cash_control(J, ids, y, codes)
            U == Net(Upto(J, ids, codes, y))
            W == Net(Within(J, ids, codes, y))
            P == Net(Past(J, ids, codes, y))
<1>1. cash = U /\ U = P + W /\ P \in Int /\ W \in Int
  BY CashParts
<1>2. dashboard(J, ids, y, codes).cash = U /\ Net(CashBreakdown(J, ids, Dec31(y), codes)) = U
  BY DashboardCash
<1>3. /\ cf.ending[12] = U /\ weekly_cash_flow(J, ids, y, codes)[CASH_WEEKS] = U
      /\ \A m \in 1..12 : cf.ending[m] = opening_cash(J, ids, NextFirst(y, m), codes)
  BY FlowEnds
<1>4. cf.opening + cf.total_in - cf.total_out = U
  BY FlowTotals
<1>5. cf.sources - cf.uses = W
  BY SourcesUses
<1>6. cf.opening = P
  BY FlowFields, CashParts
<1>7. \A m \in 1..ceo.through : ceo.actual[m] = cf.ending[m]
  <2>1. ceo.through = through_month(ids, y)
        /\ ceo.actual = [m \in 1..through_month(ids, y) |-> opening_cash(J, ids, NextFirst(y, m), codes)]
    BY DEF cash_control
  <2>2. \A m \in 1..through_month(ids, y) : m \in 1..12
    <3>1. through_month(ids, y) \in 0..12
      BY ThroughMonth
    <3>. QED BY <3>1
  <2>. HIDE DEF ceo, cf
  <2>. QED BY <1>3, <2>1, <2>2
<1>8. cf.sources - cf.uses = cash - cf.opening
  <2>. HIDE DEF cash, cf, U, W, P
  <2>. QED BY <1>1, <1>5, <1>6
<1>. HIDE DEF ceo, cf, cash, U, W, P
<1>9. /\ dashboard(J, ids, y, codes).cash = cash
      /\ Net(CashBreakdown(J, ids, Dec31(y), codes)) = cash
      /\ cf.ending[12] = cash /\ weekly_cash_flow(J, ids, y, codes)[CASH_WEEKS] = cash
      /\ cf.opening + cf.total_in - cf.total_out = cash
  BY <1>1, <1>2, <1>3, <1>4
<1>. QED BY <1>7, <1>8, <1>9 DEF OneCash, cash, cf, ceo

-----------------------------------------------------------------------------
(* Ageing.                                                                 *)

OpenBills(ids) == {b \in Bills : b.company \in ids /\ Outstanding(b) > 0}
OpenFrom(ids, d, k) == {b \in OpenBills(ids) : BucketOf(b, d) >= k}
Owing == [b \in Bills |-> Outstanding(b)]

LEMMA BillFacts ==
  /\ IsFiniteSet(Bills)
  /\ \A b \in Bills : Outstanding(b) \in Int /\ Owing[b] = Outstanding(b) /\ (b.due = NoDue \/ b.due \in Nat)
  /\ \A P \in SUBSET Bills : Owed(P) = SumFunctionOnSet(Owing, P) /\ IsFiniteSet(P)
<1>1. IsFiniteSet(Bills) /\ \A b \in Bills : b.amount \in Nat /\ b.paid \in Nat /\ b.due \in Nat \cup {-1}
  BY BillAssumption
<1>2. \A b \in Bills : Outstanding(b) \in Int /\ Owing[b] = Outstanding(b) /\ (b.due = NoDue \/ b.due \in Nat)
  BY <1>1 DEF Outstanding, Owing, NoDue
<1>3. ASSUME NEW P \in SUBSET Bills PROVE Owed(P) = SumFunctionOnSet(Owing, P) /\ IsFiniteSet(P)
  <2>. DEFINE f == [b \in P |-> Outstanding(b)]
  <2>1. IsFiniteSet(P)
    BY <1>1, FS_Subset
  <2>2. \A b \in P : f[b] = Owing[b]
    BY DEF Owing
  <2>3. Owed(P) = SumFunctionOnSet(f, P)
    BY DEF Owed, SumFunction
  <2>4. SumFunctionOnSet(f, P) = SumFunctionOnSet(Owing, P)
    <3>. HIDE DEF f
    <3>. QED BY <2>1, <2>2, SumSame
  <2>. QED BY <2>1, <2>3, <2>4
<1>. QED BY <1>1, <1>2, <1>3

\* A bill's bucket, and that it only moves up.
LEMMA BucketGrows ==
  ASSUME NEW b \in Bills, NEW d \in Nat, NEW e \in Nat, d <= e
  PROVE  BucketOf(b, d) \in 1..5 /\ BucketOf(b, d) <= BucketOf(b, e)
<1>. DEFINE x == IF b.due = NoDue THEN 0 ELSE d - b.due
            z == IF b.due = NoDue THEN 0 ELSE e - b.due
<1>1. x \in Int /\ z \in Int /\ x <= z
  BY BillFacts
<1>. HIDE DEF x, z
<1>2. BucketOf(b, d) = IF x <= 0 THEN 1 ELSE IF x <= 30 THEN 2 ELSE IF x <= 60 THEN 3 ELSE IF x <= 90 THEN 4 ELSE 5
  BY DEF BucketOf, x
<1>3. BucketOf(b, e) = IF z <= 0 THEN 1 ELSE IF z <= 30 THEN 2 ELSE IF z <= 60 THEN 3 ELSE IF z <= 90 THEN 4 ELSE 5
  BY DEF BucketOf, z
<1>. QED BY <1>1, <1>2, <1>3

\* What is owed in a bucket and those after it.
LEMMA BucketsFrom ==
  ASSUME NEW ids, NEW d \in Nat, NEW k \in 1..5,
         NEW g, \A j \in k..5 : g[j] = aging(ids, d).buckets[j]
  PROVE  SumFunctionOnSet(g, k..5) = Owed(OpenFrom(ids, d, k))
<1>. DEFINE S == {b \in OpenBills(ids) : BucketOf(b, d) >= k}
            key == [b \in S |-> BucketOf(b, d)]
            K == k..5
<1>1. S \in SUBSET Bills /\ OpenBills(ids) \in SUBSET Bills
  BY DEF OpenBills
<1>2. IsFiniteSet(S) /\ Owed(S) = SumFunctionOnSet(Owing, S) /\ \A b \in S : Owing[b] \in Int
  <2>. HIDE DEF S
  <2>. QED BY <1>1, BillFacts
<1>3. IsFiniteSet(K)
  <2>1. k \in Int /\ 5 \in Int
    OBVIOUS
  <2>. QED BY <2>1, FS_Interval
<1>4. \A b \in S : key[b] \in K
  <2>1. \A b \in S : BucketOf(b, d) \in 1..5
    BY <1>1, BucketGrows
  <2>. QED BY <2>1
<1>5. ASSUME NEW j \in K PROVE g[j] = SumFunctionOnSet(Owing, Bearing(S, key, j))
  <2>1. j \in 1..5 /\ j >= k
    OBVIOUS
  <2>2. DOMAIN Buckets = 1..5
    BY DEF Buckets
  <2>3. aging(ids, d).buckets[j] = Owed({b \in OpenBills(ids) : BucketOf(b, d) = j})
    BY <2>1, <2>2 DEF aging, OpenBills
  <2>4. Bearing(S, key, j) = {b \in OpenBills(ids) : BucketOf(b, d) = j} /\ Bearing(S, key, j) \in SUBSET Bills
    BY <1>1, <2>1 DEF Bearing
  <2>5. Owed(Bearing(S, key, j)) = SumFunctionOnSet(Owing, Bearing(S, key, j))
    <3>. HIDE DEF S, key
    <3>. QED BY <2>4, BillFacts
  <2>. QED BY <2>3, <2>4, <2>5
<1>6. SumFunctionOnSet(g, K) = SumFunctionOnSet(Owing, S)
  <2>. HIDE DEF S, key, K
  <2>. QED BY <1>2, <1>3, <1>4, <1>5, SumByKey
<1>. QED BY <1>2, <1>6 DEF OpenFrom

LEMMA AgesHold == ASSUME NEW ids PROVE AgesAddUp(ids)
<1>. SUFFICES ASSUME NEW d \in {Today, Today + 31}
              PROVE  /\ SumFunction(aging(ids, d).buckets) = aging(ids, d).total_outstanding
                     /\ \A k \in DOMAIN Buckets : SumFunction([j \in k..5 |-> aging(ids, d + 31).buckets[j]]) >=
                                                   SumFunction([j \in k..5 |-> aging(ids, d).buckets[j]])
  BY DEF AgesAddUp
<1>1. d \in Nat /\ d + 31 \in Nat /\ d <= d + 31
  BY CalendarAssumption
<1>2. DOMAIN Buckets = 1..5
  BY DEF Buckets
<1>3. SumFunction(aging(ids, d).buckets) = aging(ids, d).total_outstanding
  <2>. DEFINE g == aging(ids, d).buckets
              S == OpenFrom(ids, d, 1)
  <2>1. DOMAIN g = 1..5
    BY <1>2 DEF aging
  <2>2. SumFunction(g) = SumFunctionOnSet(g, 1..5)
    BY <2>1 DEF SumFunction
  <2>3. SumFunctionOnSet(g, 1..5) = Owed(S)
    <3>1. 1 \in 1..5 /\ \A j \in 1..5 : g[j] = aging(ids, d).buckets[j]
      OBVIOUS
    <3>. HIDE DEF g
    <3>. QED BY <1>1, <3>1, BucketsFrom
  <2>4. S = OpenBills(ids)
    <3>1. \A b \in OpenBills(ids) : BucketOf(b, d) \in 1..5
      BY <1>1, BucketGrows DEF OpenBills
    <3>. QED BY <3>1 DEF OpenFrom
  <2>5. aging(ids, d).total_outstanding = Owed(OpenBills(ids))
    BY DEF aging, OpenBills
  <2>. QED BY <2>2, <2>3, <2>4, <2>5
<1>4. ASSUME NEW k \in 1..5
      PROVE  SumFunction([j \in k..5 |-> aging(ids, d + 31).buckets[j]]) >=
             SumFunction([j \in k..5 |-> aging(ids, d).buckets[j]])
  <2>. DEFINE g == [j \in k..5 |-> aging(ids, d).buckets[j]]
              h == [j \in k..5 |-> aging(ids, d + 31).buckets[j]]
              S == OpenFrom(ids, d, k)
              T == OpenFrom(ids, d + 31, k)
  <2>1. SumFunction(g) = SumFunctionOnSet(g, k..5) /\ SumFunction(h) = SumFunctionOnSet(h, k..5)
    BY DEF SumFunction
  <2>2. SumFunctionOnSet(g, k..5) = Owed(S)
    <3>1. \A j \in k..5 : g[j] = aging(ids, d).buckets[j]
      OBVIOUS
    <3>. HIDE DEF g
    <3>. QED BY <1>1, <3>1, BucketsFrom
  <2>3. SumFunctionOnSet(h, k..5) = Owed(T)
    <3>1. \A j \in k..5 : h[j] = aging(ids, d + 31).buckets[j]
      OBVIOUS
    <3>. HIDE DEF h
    <3>. QED BY <1>1, <3>1, BucketsFrom
  <2>4. S \in SUBSET T /\ T \in SUBSET Bills /\ S \in SUBSET Bills
    <3>1. \A b \in OpenBills(ids) : b \in Bills /\ BucketOf(b, d) \in 1..5 /\ BucketOf(b, d + 31) \in 1..5
                                    /\ BucketOf(b, d) <= BucketOf(b, d + 31)
      BY <1>1, BucketGrows DEF OpenBills
    <3>. QED BY <3>1 DEF OpenFrom, OpenBills
  <2>5. \A b \in T : Owing[b] \in Nat
    BY BillFacts DEF OpenFrom, OpenBills
  <2>6. Owed(S) <= Owed(T)
    <3>. HIDE DEF S, T
    <3>1. Owed(S) = SumFunctionOnSet(Owing, S) /\ Owed(T) = SumFunctionOnSet(Owing, T) /\ IsFiniteSet(T)
      BY <2>4, BillFacts
    <3>. QED BY <2>4, <2>5, <3>1, SumPart
  <2>7. Owed(S) \in Int /\ Owed(T) \in Int
    <3>1. \A b \in S : Owing[b] \in Int
      BY <2>4, <2>5
    <3>. HIDE DEF S, T
    <3>2. Owed(S) = SumFunctionOnSet(Owing, S) /\ Owed(T) = SumFunctionOnSet(Owing, T) /\ IsFiniteSet(T) /\ IsFiniteSet(S)
      BY <2>4, BillFacts
    <3>. QED BY <2>5, <3>1, <3>2, SumInt
  <2>. HIDE DEF g, h, S, T
  <2>. QED BY <2>1, <2>2, <2>3, <2>6, <2>7 DEF g, h
<1>. QED BY <1>2, <1>3, <1>4

-----------------------------------------------------------------------------
(* Petty cash.                                                             *)

LEMMA ShareBounds ==
  ASSUME NEW a \in Nat, NEW w \in Nat, NEW n \in Nat, n > 0
  PROVE  /\ Share(a, w, n) \in Int
         /\ (2 * n) * Share(a, w, n) <= (2 * a) * w + n
         /\ (2 * a) * w <= (2 * n) * Share(a, w, n) + n
<1>. DEFINE x == 2 * a * w + n
            d == 2 * n
            q == x \div d
            r == x % d
<1>1. (2 * a) * w \in Nat /\ 2 * a * w = (2 * a) * w
  OBVIOUS
<1>2. x \in Int /\ d \in Int /\ d > 0
  BY <1>1
<1>3. Share(a, w, n) = q
  BY DEF Share
<1>4. q \in Int /\ r \in Int /\ x = d * q + r /\ 0 <= r /\ r < d
  <2>. HIDE DEF x, d
  <2>. QED BY ONLY <1>2
<1>. DEFINE m == (2 * a) * w
            t == d * q
<1>5. x = m + n /\ t \in Int /\ m \in Int /\ d = 2 * n
  <2>1. t \in Int
    <3>. HIDE DEF d, q
    <3>. QED BY <1>2, <1>4
  <2>. QED BY <1>1, <2>1
<1>6. t <= m + n /\ m <= t + n
  <2>. HIDE DEF x, d, q, r, m, t
  <2>1. x = t + r
    BY <1>4 DEF t
  <2>. QED BY <1>4, <1>5, <2>1
<1>. QED BY <1>3, <1>4, <1>6

LEMMA Cancel ==
  ASSUME NEW n \in Nat, n > 0, NEW x \in Int, n * x <= 0
  PROVE  x <= 0
<1>1. ASSUME x >= 1 PROVE FALSE
  <2>1. x - 1 \in Nat
    BY <1>1
  <2>2. n * (x - 1) \in Nat
    BY <2>1
  <2>3. n * x = n * (x - 1) + n
    OBVIOUS
  <2>. QED BY <2>2, <2>3
<1>. QED BY <1>1

\* Rounded shares of a whole differ from it by half a unit each at most.
LEMMA SharesAddUp ==
  ASSUME NEW side, IsFiniteSet(side), side # {}, NEW w, \A o \in side : w[o] \in Nat /\ w[o] > 0,
         NEW a \in Nat, NEW s, \A o \in side : s[o] = Share(a, w[o], SumFunctionOnSet(w, side))
  PROVE  /\ SumFunctionOnSet(s, side) \in Int
         /\ 2 * (SumFunctionOnSet(s, side) - a) <= Cardinality(side)
         /\ 2 * (a - SumFunctionOnSet(s, side)) <= Cardinality(side)
<1>. DEFINE n == SumFunctionOnSet(w, side)
            U == SumFunctionOnSet(s, side)
            N == Cardinality(side)
            f == [o \in side |-> (2 * n) * s[o]]
            g == [o \in side |-> (2 * a) * w[o]]
            c == [o \in side |-> n]
            fn == [o \in side |-> f[o] + n]
            gn == [o \in side |-> g[o] + n]
<1>1. n \in Nat /\ n > 0
  <2>1. PICK e \in side : TRUE
    OBVIOUS
  <2>2. w[e] # 0
    BY <2>1
  <2>. QED BY <2>1, <2>2, SumNat, SumPositive
<1>2. N \in Nat
  BY FS_CardinalityType
<1>3. \A o \in side : s[o] \in Int /\ (2 * n) * s[o] <= (2 * a) * w[o] + n /\ (2 * a) * w[o] <= (2 * n) * s[o] + n
  <2>1. \A o \in side : s[o] = Share(a, w[o], n)
    OBVIOUS
  <2>. HIDE DEF n
  <2>. QED BY <1>1, <2>1, ShareBounds
<1>4. 2 * n \in Int /\ 2 * a \in Int
  BY <1>1
<1>5. \A o \in side : /\ f[o] = (2 * n) * s[o] /\ g[o] = (2 * a) * w[o] /\ f[o] \in Int /\ g[o] \in Int
                      /\ c[o] = n /\ c[o] \in Int /\ fn[o] = f[o] + c[o] /\ gn[o] = g[o] + c[o]
                      /\ fn[o] \in Int /\ gn[o] \in Int /\ f[o] <= gn[o] /\ g[o] <= fn[o]
  <2>. HIDE DEF n
  <2>. SUFFICES ASSUME NEW o \in side
                PROVE  /\ f[o] \in Int /\ g[o] \in Int /\ n \in Int
                       /\ f[o] <= g[o] + n /\ g[o] <= f[o] + n
    BY <1>1
  <2>1. f[o] = (2 * n) * s[o] /\ g[o] = (2 * a) * w[o]
    OBVIOUS
  <2>2. w[o] \in Int /\ s[o] \in Int
    BY <1>3
  <2>3. f[o] \in Int /\ g[o] \in Int
    BY <1>4, <2>1, <2>2
  <2>. QED BY <1>1, <1>3, <2>1, <2>3
<1>. HIDE DEF f, g, c, fn, gn
<1>6. SumFunctionOnSet(f, side) = (2 * n) * U
  <2>. HIDE DEF n
  <2>. QED BY <1>3, <1>4, <1>5, SumTimes
<1>7. SumFunctionOnSet(g, side) = (2 * a) * n
  <2>1. \A o \in side : w[o] \in Int /\ g[o] = (2 * a) * w[o]
    BY <1>5
  <2>. QED BY <1>4, <2>1, SumTimes
<1>8. SumFunctionOnSet(c, side) = n * N
  <2>1. n \in Int /\ \A o \in side : c[o] = n
    BY <1>1, <1>5
  <2>. HIDE DEF n
  <2>. QED BY <2>1, SumConstant
<1>9. /\ SumFunctionOnSet(fn, side) = SumFunctionOnSet(f, side) + SumFunctionOnSet(c, side)
      /\ SumFunctionOnSet(gn, side) = SumFunctionOnSet(g, side) + SumFunctionOnSet(c, side)
  BY <1>5, SumPlus
<1>10. /\ SumFunctionOnSet(f, side) <= SumFunctionOnSet(gn, side)
       /\ SumFunctionOnSet(g, side) <= SumFunctionOnSet(fn, side)
  BY <1>5, SumMonotone
<1>11. U \in Int
  BY <1>3, SumInt
<1>12. (2 * n) * U <= (2 * a) * n + n * N /\ (2 * a) * n <= (2 * n) * U + n * N
  BY ONLY <1>6, <1>7, <1>8, <1>9, <1>10
<1>. HIDE DEF n, U, N
<1>13. n * (2 * U - 2 * a - N) <= 0 /\ n * (2 * a - 2 * U - N) <= 0
  BY ONLY <1>1, <1>2, <1>11, <1>12, a \in Nat
<1>14. 2 * U - 2 * a - N \in Int /\ 2 * a - 2 * U - N \in Int
  BY <1>2, <1>11
<1>15. 2 * U - 2 * a - N <= 0 /\ 2 * a - 2 * U - N <= 0
  BY <1>1, <1>13, <1>14, Cancel
<1>16. 2 * (U - a) <= N /\ 2 * (a - U) <= N
  BY <1>2, <1>11, <1>15
<1>. QED BY <1>11, <1>16 DEF U, N

\* The parts of a sum, told apart by what they are parts of.
LEMMA AmountsOfParts ==
  ASSUME NEW S, IsFiniteSet(S), NEW m, NEW s, \A x \in S : m[x].amount = s[x] /\ s[x] \in Int,
         \A x, z \in S : m[x] = m[z] => x = z
  PROVE  /\ Amounts({m[x] : x \in S}) = SumFunctionOnSet(s, S)
         /\ Cardinality({m[x] : x \in S}) = Cardinality(S)
<1>. DEFINE T == {m[x] : x \in S}
            f == [b \in T |-> b.amount]
            c == [x \in S |-> 1]
            d == [b \in T |-> 1]
<1>1. IsFiniteSet(T)
  BY ImageFinite
<1>2. Amounts(T) = SumFunctionOnSet(f, T)
  BY DEF Amounts, SumFunction
<1>3. SumFunctionOnSet(f, T) = SumFunctionOnSet(s, S)
  <2>1. \A x \in S : s[x] \in Int /\ f[m[x]] = s[x]
    OBVIOUS
  <2>. HIDE DEF f
  <2>. QED BY <2>1, SumImage
<1>4. SumFunctionOnSet(d, T) = SumFunctionOnSet(c, S)
  <2>1. \A x \in S : c[x] \in Int /\ d[m[x]] = c[x]
    OBVIOUS
  <2>. HIDE DEF d, c
  <2>. QED BY <2>1, SumImage, SMTT(20)
<1>5. SumFunctionOnSet(d, T) = 1 * Cardinality(T) /\ SumFunctionOnSet(c, S) = 1 * Cardinality(S)
  <2>1. (\A b \in T : d[b] = 1) /\ \A x \in S : c[x] = 1
    OBVIOUS
  <2>2. 1 \in Int
    OBVIOUS
  <2>. HIDE DEF T, d, c
  <2>. QED BY <1>1, <2>1, <2>2, SumConstant
<1>6. Cardinality(T) \in Nat /\ Cardinality(S) \in Nat
  <2>. HIDE DEF T
  <2>. QED BY <1>1, FS_CardinalityType
<1>7. Cardinality(T) = Cardinality(S)
  <2>1. 1 * Cardinality(T) = 1 * Cardinality(S)
    BY <1>4, <1>5
  <2>. HIDE DEF T
  <2>. QED BY ONLY <1>6, <2>1
<1>. QED BY <1>2, <1>3, <1>7

\* The other side of a line that goes out, its weights and its parts.
Paid(J, P, l) == {o \in J \ P : o.id[1] = l.id[1] /\ o.debit > 0}
Weights(S) == [o \in S |-> o.debit]
PartsOf(S, amount, whole) == [o \in S |-> [code |-> o.code, of |-> o.id, amount |-> Share(amount, o.debit, whole)]]
WholeOf(l, amount) == [code |-> NoCode, of |-> l.id, amount |-> amount]

LEMMA SplitOut ==
  ASSUME NEW J, NEW P, NEW l, l.debit \in Nat, l.credit \in Nat, l.debit < l.credit,
         NEW side, side = Paid(J, P, l), NEW amount, amount = l.credit - l.debit
  PROVE  /\ side = {} => Split(J, P, l) = {WholeOf(l, amount)}
         /\ side # {} => Split(J, P, l) =
              {PartsOf(side, amount, SumFunction(Weights(side)))[o] : o \in side}
<1>1. ~(l.debit - l.credit > 0) /\ -(l.debit - l.credit) = amount
  OBVIOUS
<1>. QED BY <1>1, ZenonT(60) DEF Split, Paid, Weights, PartsOf, WholeOf

LEMMA SplitAddsUp ==
  ASSUME NEW J, Told(J), NEW P \in SUBSET J, NEW l \in P, l.debit < l.credit
  PROVE  /\ Amounts(Split(J, P, l)) \in Int /\ Cardinality(Split(J, P, l)) \in Nat
         /\ 2 * (Amounts(Split(J, P, l)) - (l.credit - l.debit)) <= Cardinality(Split(J, P, l))
         /\ 2 * ((l.credit - l.debit) - Amounts(Split(J, P, l))) <= Cardinality(Split(J, P, l))
<1>. DEFINE side == Paid(J, P, l)
            a == l.credit - l.debit
            w == Weights(side)
            n == SumFunctionOnSet(w, side)
            m == PartsOf(side, a, n)
            s == [o \in side |-> Share(a, w[o], n)]
<1>1. l.debit \in Nat /\ l.credit \in Nat /\ a \in Nat
  BY DEF Told, LineIs
<1>2. side \subseteq J /\ IsFiniteSet(side)
  <2>1. side \subseteq J
    BY DEF Paid
  <2>. HIDE DEF side
  <2>. QED BY <2>1, FS_Subset DEF Told, Money
<1>3. CASE side = {}
  <2>1. Split(J, P, l) = {WholeOf(l, a)}
    <3>. HIDE DEF side, a
    <3>. QED BY <1>1, <1>3, SplitOut DEF side, a
  <2>. DEFINE f == [b \in {WholeOf(l, a)} |-> b.amount]
  <2>2. Cardinality(Split(J, P, l)) = 1
    BY <2>1, FS_Singleton
  <2>3. Amounts(Split(J, P, l)) = SumFunctionOnSet(f, {WholeOf(l, a)})
    BY <2>1 DEF Amounts, SumFunction
  <2>4. SumFunctionOnSet(f, {WholeOf(l, a)}) = a
    <3>. DEFINE W == {WholeOf(l, a)}
    <3>1. f[WholeOf(l, a)] = a
      BY DEF WholeOf
    <3>2. IsFiniteSet(W) /\ WholeOf(l, a) \in W /\ W \ {WholeOf(l, a)} = {}
      BY FS_Singleton
    <3>. HIDE DEF f, W, a
    <3>3. SumFunctionOnSet(f, W) = f[WholeOf(l, a)]
      BY <1>1, <3>1, <3>2, SumSingle
    <3>. QED BY <3>1, <3>3 DEF W
  <2>. HIDE DEF a, f
  <2>5. Amounts(Split(J, P, l)) = a
    BY <2>3, <2>4
  <2>. QED BY <1>1, <2>2, <2>5 DEF a
<1>4. CASE side # {}
  <2>1. SumFunction(w) = n
    BY DEF SumFunction, Weights
  <2>2. Split(J, P, l) = {m[o] : o \in side}
    <3>1. Split(J, P, l) = {PartsOf(side, a, SumFunction(Weights(side)))[o] : o \in side}
      <4>. HIDE DEF side, a
      <4>. QED BY <1>1, <1>4, SplitOut DEF side, a
    <3>. QED BY <2>1, <3>1
  <2>3. \A o \in side : w[o] \in Nat /\ w[o] > 0
    BY <1>2 DEF Weights, Paid, Told, LineIs
  <2>4. \A o \in side : s[o] = Share(a, w[o], n)
    OBVIOUS
  <2>5. /\ SumFunctionOnSet(s, side) \in Int
        /\ 2 * (SumFunctionOnSet(s, side) - a) <= Cardinality(side)
        /\ 2 * (a - SumFunctionOnSet(s, side)) <= Cardinality(side)
    <3>. HIDE DEF side, w, s, a
    <3>. QED BY <1>1, <1>2, <1>4, <2>3, <2>4, SharesAddUp
  <2>6. \A o \in side : m[o].amount = s[o] /\ s[o] \in Int
    <3>1. \A o \in side : m[o].amount = s[o]
      BY DEF PartsOf, Weights
    <3>2. n \in Nat /\ n > 0
      <4>1. PICK e \in side : TRUE
        BY <1>4
      <4>2. w[e] # 0
        BY <2>3, <4>1
      <4>. HIDE DEF side, w
      <4>. QED BY <1>2, <2>3, <4>1, <4>2, SumNat, SumPositive
    <3>3. \A o \in side : Share(a, w[o], n) \in Int
      <4>. HIDE DEF side, w, n, a
      <4>. QED BY <1>1, <2>3, <3>2, ShareBounds
    <3>. QED BY <3>1, <3>3
  <2>7. \A o, z \in side : m[o] = m[z] => o = z
    <3>1. \A o \in side : m[o].of = o.id
      BY DEF PartsOf
    <3>2. \A o, z \in side : o.id = z.id => o = z
      BY <1>2 DEF Told
    <3>. HIDE DEF m, side
    <3>. QED BY <3>1, <3>2
  <2>8. /\ Amounts({m[o] : o \in side}) = SumFunctionOnSet(s, side)
        /\ Cardinality({m[o] : o \in side}) = Cardinality(side)
    <3>. HIDE DEF m, side, s
    <3>. QED BY <1>2, <2>6, <2>7, AmountsOfParts
  <2>9. Cardinality(side) \in Nat
    <3>. HIDE DEF side
    <3>. QED BY <1>2, FS_CardinalityType
  <2>10. Amounts(Split(J, P, l)) = SumFunctionOnSet(s, side) /\ Cardinality(Split(J, P, l)) = Cardinality(side)
    <3>. HIDE DEF m, side, s
    <3>. QED BY <2>2, <2>8
  <2>. HIDE DEF side, s, m, w, n
  <2>. QED BY <2>5, <2>9, <2>10
<1>. QED BY <1>3, <1>4

Before(P, a) == {l \in P : l.date < a}
Between(P, a, b) == {l \in P : a <= l.date /\ l.date <= b}
Outgo(S) == {l \in S : l.debit < l.credit}
SplitSums(J, P, S) == [l \in S |-> Amounts(Split(J, P, l))]
SplitParts(J, P, S) == [l \in S |-> Cardinality(Split(J, P, l))]

LEMMA SectionFields ==
  ASSUME NEW J, NEW P, NEW a, NEW b
  PROVE  /\ account_section(J, P, a, b).opening = Net(Before(P, a))
         /\ account_section(J, P, a, b).closing = Net(Before(P, a)) + Net(Between(P, a, b))
         /\ account_section(J, P, a, b).out = Credits(Outgo(Between(P, a, b))) - Debits(Outgo(Between(P, a, b)))
         /\ account_section(J, P, a, b).used = SumFunction(SplitSums(J, P, Outgo(Between(P, a, b))))
         /\ account_section(J, P, a, b).parts = SumFunction(SplitParts(J, P, Outgo(Between(P, a, b))))
BY DEF account_section, Before, Between, Outgo, SplitSums, SplitParts

\* What lines that go out were spent on, part by part.
LEMMA SpentParts ==
  ASSUME NEW J, Told(J), NEW P \in SUBSET J, NEW S \in SUBSET P, \A l \in S : l.debit < l.credit,
         NEW out, out = Credits(S) - Debits(S),
         NEW used, used = SumFunction(SplitSums(J, P, S)),
         NEW parts, parts = SumFunction(SplitParts(J, P, S))
  PROVE  2 * (used - out) <= parts /\ 2 * (out - used) <= parts
<1>. DEFINE u == SplitSums(J, P, S)
            c == SplitParts(J, P, S)
            v == Moved(S)
            o == [l \in S |-> l.credit - l.debit]
            tu == [l \in S |-> 2 * u[l]]
            to == [l \in S |-> 2 * o[l]]
            uc == [l \in S |-> tu[l] + c[l]]
            oc == [l \in S |-> to[l] + c[l]]
<1>1. S \subseteq J /\ Money(S) /\ IsFiniteSet(S)
  BY MoneyPart DEF Told, Money
<1>2. ASSUME NEW l \in S
      PROVE  /\ u[l] \in Int /\ c[l] \in Int /\ o[l] \in Int /\ v[l] \in Int /\ o[l] = -v[l]
             /\ tu[l] = 2 * u[l] /\ to[l] = 2 * o[l] /\ tu[l] \in Int /\ to[l] \in Int
             /\ uc[l] = tu[l] + c[l] /\ oc[l] = to[l] + c[l] /\ uc[l] \in Int /\ oc[l] \in Int
             /\ tu[l] <= oc[l] /\ to[l] <= uc[l]
  <2>1. l \in P /\ l.debit < l.credit /\ l.debit \in Nat /\ l.credit \in Nat
    BY <1>1 DEF Money
  <2>2. u[l] = Amounts(Split(J, P, l)) /\ c[l] = Cardinality(Split(J, P, l)) /\ o[l] = l.credit - l.debit
    BY DEF SplitSums, SplitParts
  <2>3. /\ u[l] \in Int /\ c[l] \in Nat
        /\ 2 * (u[l] - o[l]) <= c[l] /\ 2 * (o[l] - u[l]) <= c[l]
    <3>. HIDE DEF u, c, o
    <3>. QED BY <2>1, <2>2, SplitAddsUp
  <2>4. v[l] = l.debit - l.credit
    BY DEF Moved
  <2>5. tu[l] = 2 * u[l] /\ to[l] = 2 * o[l] /\ uc[l] = tu[l] + c[l] /\ oc[l] = to[l] + c[l]
    OBVIOUS
  <2>. HIDE DEF u, c, o, v, tu, to, uc, oc
  <2>. QED BY <2>1, <2>2, <2>3, <2>4, <2>5
<1>. HIDE DEF o, tu, to, uc, oc
<1>3. SumFunctionOnSet(tu, S) = 2 * SumFunctionOnSet(u, S) /\ SumFunctionOnSet(to, S) = 2 * SumFunctionOnSet(o, S)
  <2>1. 2 \in Int
    OBVIOUS
  <2>. HIDE DEF u
  <2>. QED BY <1>1, <1>2, <2>1, SumTimes
<1>4. /\ SumFunctionOnSet(uc, S) = SumFunctionOnSet(tu, S) + SumFunctionOnSet(c, S)
      /\ SumFunctionOnSet(oc, S) = SumFunctionOnSet(to, S) + SumFunctionOnSet(c, S)
  <2>. HIDE DEF c
  <2>. QED BY <1>1, <1>2, SumPlus
<1>5. /\ SumFunctionOnSet(tu, S) <= SumFunctionOnSet(oc, S)
      /\ SumFunctionOnSet(to, S) <= SumFunctionOnSet(uc, S)
  BY <1>1, <1>2, SumMonotone
<1>6. SumFunctionOnSet(u, S) \in Int /\ SumFunctionOnSet(c, S) \in Int /\ SumFunctionOnSet(o, S) \in Int
  <2>. HIDE DEF u, c
  <2>. QED BY <1>1, <1>2, SumInt
<1>7. out = SumFunctionOnSet(o, S)
  <2>1. SumFunctionOnSet(o, S) = -SumFunctionOnSet(v, S)
    <3>. HIDE DEF v
    <3>. QED BY <1>1, <1>2, SumNegative
  <2>2. Net(S) = SumFunctionOnSet(v, S) /\ Net(S) = Debits(S) - Credits(S)
    BY <1>1, NetIsMoved DEF Net
  <2>3. Debits(S) \in Nat /\ Credits(S) \in Nat
    BY <1>1, DebitsCredits
  <2>. HIDE DEF v
  <2>. QED BY <2>1, <2>2, <2>3
<1>8. used = SumFunctionOnSet(u, S) /\ parts = SumFunctionOnSet(c, S)
  BY DEF SumFunction, SplitSums, SplitParts
<1>. HIDE DEF u, c
<1>. QED BY <1>3, <1>4, <1>5, <1>6, <1>7, <1>8

LEMMA PettyHolds ==
  ASSUME NEW J, Told(J), NEW ids, NEW y \in Nat
  PROVE  PettyAddsUp(J, ids, y)
<1>. DEFINE P == petty_accounts(J, ids)
            now == account_section(J, P, Jan1(y), Dec31(y))
            next == account_section(J, P, Jan1(y + 1), Dec31(y + 1))
            B == Before(P, Jan1(y))
            W == Between(P, Jan1(y), Dec31(y))
            N == Before(P, Jan1(y + 1))
            S == Outgo(W)
<1>1. P \in SUBSET J
  BY DEF petty_accounts
<1>2. N \in SUBSET J /\ B \in SUBSET N /\ W = N \ B
  <2>1. \A l \in P : /\ l.date < Jan1(y + 1) <=> l.date < Jan1(y) \/ YearOf(l.date) = y
                     /\ ~(l.date < Jan1(y) /\ YearOf(l.date) = y)
                     /\ (Jan1(y) <= l.date /\ l.date <= Dec31(y)) <=> YearOf(l.date) = y
    BY <1>1, LineYears
  <2>. HIDE DEF P
  <2>. QED BY <1>1, <2>1 DEF Before, Between
<1>3. Net(N) = Net(B) + Net(W)
  <2>1. Money(N)
    <3>. HIDE DEF N
    <3>. QED BY <1>2, MoneyPart DEF Told
  <2>. HIDE DEF N, B, W
  <2>. QED BY <1>2, <2>1, NetSplit
<1>4. now.closing = Net(B) + Net(W) /\ next.opening = Net(N)
  <2>. HIDE DEF P
  <2>. QED BY SectionFields
<1>5. now.out = Credits(S) - Debits(S) /\ now.used = SumFunction(SplitSums(J, P, S))
      /\ now.parts = SumFunction(SplitParts(J, P, S))
  <2>. HIDE DEF P
  <2>. QED BY SectionFields
<1>6. S \in SUBSET P /\ \A l \in S : l.debit < l.credit
  BY DEF Outgo, Between
<1>7. 2 * (now.used - now.out) <= now.parts /\ 2 * (now.out - now.used) <= now.parts
  <2>. HIDE DEF P, S, now
  <2>. QED BY <1>1, <1>5, <1>6, SpentParts
<1>8. now.closing = next.opening
  <2>. HIDE DEF now, next, B, W, N
  <2>. QED BY <1>3, <1>4
<1>. HIDE DEF now, next
<1>. QED BY <1>7, <1>8 DEF PettyAddsUp, now, next, P

-----------------------------------------------------------------------------

LEMMA Agree == ASSUME ChartIInv PROVE StatementsAgree
<1>. DEFINE J == Journal
<1>1. Told(J)
  BY JournalTold
<1>2. \A y \in Years : y \in Nat
  BY CalendarAssumption
<1>. HIDE DEF J
<1>3. ASSUME NEW ids \in Scopes, NEW y \in Years
      PROVE  /\ SheetBalances(J, ids, y) /\ ProfitIsTold(J, ids, y)
             /\ OneCash(J, ids, y) /\ AgesAddUp(ids) /\ PettyAddsUp(J, ids, y)
  <2>1. y \in Nat
    BY <1>2
  <2>2. SheetBalances(J, ids, y)
    BY <1>1, <2>1, SheetHolds
  <2>3. ProfitIsTold(J, ids, y)
    BY <1>1, <2>1, ProfitHolds
  <2>4. OneCash(J, ids, y)
    BY <1>1, <2>1, CashHolds
  <2>5. AgesAddUp(ids) /\ PettyAddsUp(J, ids, y)
    BY <1>1, <2>1, AgesHold, PettyHolds
  <2>. QED BY <2>2, <2>3, <2>4, <2>5
<1>4. ASSUME NEW y \in Years PROVE ProjectsAddUp(J, y)
  BY <1>1, <1>2, ProjectsHold
<1>5. ClosesOut(J)
  BY <1>1, ClosingHolds
<1>. QED BY <1>3, <1>4, <1>5 DEF StatementsAgree, J

\* In every reachable state in which nobody is waiting the screens that show
\* the same money agree: the sheet balances (reports.py balance_sheet), the
\* months, budgets and ledgers add up to the profit and loss statement, the
\* projects to the companies' profits and a closed project to its years, one
\* figure of cash is behind seven screens, the ages of bills add up and grow
\* no younger, and petty cash was spent on what went out of it.
THEOREM Agreement == Spec => []StatementsAgree
<1>1. ChartIInv => StatementsAgree
  BY Agree
<1>. QED BY <1>1, ChartInvariance, PTL

-----------------------------------------------------------------------------
(* The grouped trial balance.                                              *)

RootsOf(nodes) ==
    {code \in Codes : nodes[code] # NoAccount /\ (nodes[code].parent = NoCode \/ nodes[nodes[code].parent] = NoAccount)}
ShownIn(nodes) == {code \in Codes : Climb(nodes, code) \cap RootsOf(nodes) # {}}
BelowIn(nodes, code) == {x \in ShownIn(nodes) : code \in Climb(nodes, x)}
Rolls(nodes, amounts, code) == SumFunctionOnSet(amounts, BelowIn(nodes, code))
ActiveIn(nodes, d, k) == {code \in ShownIn(nodes) : Rolls(nodes, d, code) # 0 \/ Rolls(nodes, k, code) # 0}
GroupIn(nodes, d, k, code) == \E x \in ActiveIn(nodes, d, k) : nodes[x].parent = code
Ends(nodes, d, k) == {code \in ActiveIn(nodes, d, k) : ~GroupIn(nodes, d, k, code)}
Directs(nodes, d, k) == {code \in ActiveIn(nodes, d, k) : GroupIn(nodes, d, k, code) /\ (d[code] # 0 \/ k[code] # 0)}
RolledRow(nodes, d, k, code) ==
    [code |-> code, debit |-> Rolls(nodes, d, code), credit |-> Rolls(nodes, k, code), is_group |-> FALSE]
DirectRow(d, k, code) == [code |-> code, debit |-> d[code], credit |-> k[code], is_group |-> FALSE]
LeavesOf(rows) == {r \in rows : ~r.is_group}

\* Some code on the way, other than its end, has the end for a parent.
LEMMA ClimbChild ==
  ASSUME NEW tab, Charted(tab), NEW x \in Codes, NEW code \in Climb(tab, x), code # x
  PROVE  \E z \in Climb(tab, x) : z \in Codes /\ tab[z].parent = code /\ code # NoCode
<1>. SUFFICES ASSUME \A z \in Climb(tab, x) : tab[z].parent # code PROVE FALSE
  <2>1. Climb(tab, x) \subseteq Codes
    BY ClimbHolds
  <2>. QED BY <2>1, CodeAssumption
<1>. DEFINE S == Climb(tab, x) \ {code}
<1>1. x \in Climb(tab, x) /\ Closed(tab, Climb(tab, x))
  BY ClimbHolds, CodeAssumption
<1>2. Closed(tab, S)
  BY <1>1 DEF Closed
<1>3. x \in S
  BY <1>1
<1>4. Climb(tab, x) \subseteq S
  <2>. HIDE DEF S
  <2>. QED BY <1>2, <1>3, ClimbWithin
<1>. QED BY <1>4

Tree(nodes) ==
    /\ Charted(nodes) /\ Acyclic(nodes)
    /\ \A x \in Codes : nodes[x] = NoAccount => nodes[x].parent = NoCode

\* Where no way leads back every account is below a root.
LEMMA EverybodyShown ==
  ASSUME NEW nodes, Tree(nodes)
  PROVE  ShownIn(nodes) = {x \in Codes : nodes[x] # NoAccount}
<1>1. ASSUME NEW x \in Codes, nodes[x] # NoAccount, Climb(nodes, x) \cap RootsOf(nodes) = {} PROVE FALSE
  <2>. DEFINE C == Climb(nodes, x)
              T == {z \in C : nodes[z] # NoAccount}
              F == {Climb(nodes, z) : z \in C}
  <2>1. C \subseteq Codes /\ x \in C /\ Closed(nodes, C)
    BY ClimbHolds, CodeAssumption DEF Tree
  <2>2. ASSUME NEW z \in T PROVE nodes[z].parent # NoCode /\ nodes[z].parent \in T
    <3>1. z \in Codes /\ z \notin RootsOf(nodes)
      BY <1>1, <2>1
    <3>2. nodes[z].parent # NoCode /\ nodes[nodes[z].parent] # NoAccount
      BY <3>1 DEF RootsOf
    <3>3. nodes[z].parent \in C
      BY <2>1, <3>1, <3>2 DEF Closed
    <3>. QED BY <3>2, <3>3
  <2>3. Closed(nodes, T)
    <3>. HIDE DEF T
    <3>. QED BY <2>2 DEF Closed
  <2>4. C \subseteq T
    <3>1. x \in T
      BY <1>1, <2>1
    <3>. HIDE DEF T
    <3>. QED BY <2>3, <3>1, ClimbWithin DEF Tree, C
  <2>5. F \in SUBSET SUBSET Codes /\ F # {}
    <3>1. \A z \in C : Climb(nodes, z) \subseteq Codes
      BY <2>1, ClimbHolds DEF Tree
    <3>. HIDE DEF C
    <3>. QED BY <2>1, <3>1
  <2>6. PICK M \in F : \A U \in F : U \subseteq M => U = M
    <3>1. IsFiniteSet(Codes)
      BY CodeAssumption
    <3>. HIDE DEF F
    <3>2. \E M \in F : \A U \in F : U \subseteq M => U = M
      BY <2>5, <3>1, Smallest
    <3>. QED BY <3>2
  <2>7. PICK z \in C : M = Climb(nodes, z)
    OBVIOUS
  <2>. DEFINE p == nodes[z].parent
  <2>8. z \in Codes /\ p \in C /\ p \in Codes
    BY <2>1, <2>2, <2>4
  <2>9. Climb(nodes, p) \subseteq M
    <3>1. Climb(nodes, z) = {z} \cup Climb(nodes, p)
      BY <2>8, ClimbStep DEF Tree
    <3>. QED BY <2>7, <3>1
  <2>10. Climb(nodes, p) = M
    <3>1. Climb(nodes, p) \in F
      BY <2>8
    <3>. QED BY <2>6, <2>9, <3>1
  <2>11. z \in Climb(nodes, z)
    BY <2>8, ClimbHolds, CodeAssumption DEF Tree
  <2>. QED BY <2>7, <2>8, <2>10, <2>11 DEF Tree, Acyclic
<1>2. ASSUME NEW x \in Codes, nodes[x] = NoAccount PROVE Climb(nodes, x) \cap RootsOf(nodes) = {}
  <2>1. nodes[x].parent = NoCode
    BY <1>2 DEF Tree
  <2>2. Climb(nodes, x) = {x}
    BY <2>1, ClimbStep, ClimbNone DEF Tree
  <2>. QED BY <1>2, <2>2 DEF RootsOf
<1>. QED BY <1>1, <1>2 DEF ShownIn

\* The rows that are no groups.
LEMMA LeafRows ==
  ASSUME NEW nodes, NEW d, NEW k
  PROVE  LeavesOf(group_by_parent(nodes, d, k))
           = {RolledRow(nodes, d, k, code) : code \in Ends(nodes, d, k)}
             \cup {DirectRow(d, k, code) : code \in Directs(nodes, d, k)}
<1>. DEFINE A == ActiveIn(nodes, d, k)
            Rolled(code) == [code |-> code, debit |-> Rolls(nodes, d, code), credit |-> Rolls(nodes, k, code),
                             is_group |-> GroupIn(nodes, d, k, code)]
            Dir(code) == [code |-> code, debit |-> d[code], credit |-> k[code], is_group |-> FALSE]
            Up == {Rolled(code) : code \in A}
            Down == {Dir(code) : code \in Directs(nodes, d, k)}
<1>0. ASSUME NEW code, ~GroupIn(nodes, d, k, code) PROVE GroupIn(nodes, d, k, code) = FALSE
  <2>1. GroupIn(nodes, d, k, code) \in BOOLEAN
    BY DEF GroupIn
  <2>. QED BY <1>0, <2>1
<1>1. group_by_parent(nodes, d, k) = Up \cup Down
  BY ZenonT(60) DEF group_by_parent, ActiveIn, GroupIn, Directs, Rolls, BelowIn, ShownIn, RootsOf
<1>2. ASSUME NEW r \in LeavesOf(Up \cup Down)
      PROVE  r \in {RolledRow(nodes, d, k, code) : code \in Ends(nodes, d, k)}
                   \cup {DirectRow(d, k, code) : code \in Directs(nodes, d, k)}
  <2>1. CASE r \in Up
    <3>1. PICK code \in A : r = Rolled(code)
      BY <2>1
    <3>2. ~GroupIn(nodes, d, k, code)
      BY <3>1 DEF LeavesOf
    <3>3. code \in Ends(nodes, d, k) /\ r = RolledRow(nodes, d, k, code)
      BY <1>0, <3>1, <3>2 DEF Ends, RolledRow
    <3>. QED BY <3>3
  <2>2. CASE r \in Down
    BY <2>2 DEF DirectRow
  <2>. QED BY <2>1, <2>2 DEF LeavesOf
<1>3. ASSUME NEW code \in Ends(nodes, d, k) PROVE RolledRow(nodes, d, k, code) \in LeavesOf(Up \cup Down)
  <2>1. code \in A /\ ~GroupIn(nodes, d, k, code)
    BY DEF Ends
  <2>2. RolledRow(nodes, d, k, code) = Rolled(code) /\ ~Rolled(code).is_group
    BY <1>0, <2>1 DEF RolledRow
  <2>. QED BY <2>1, <2>2 DEF LeavesOf
<1>4. ASSUME NEW code \in Directs(nodes, d, k) PROVE DirectRow(d, k, code) \in LeavesOf(Up \cup Down)
  <2>1. DirectRow(d, k, code) = Dir(code) /\ ~Dir(code).is_group
    BY DEF DirectRow
  <2>. QED BY <2>1 DEF LeavesOf
<1>5. LeavesOf(Up \cup Down) = {RolledRow(nodes, d, k, code) : code \in Ends(nodes, d, k)}
                               \cup {DirectRow(d, k, code) : code \in Directs(nodes, d, k)}
  <2>. HIDE DEF Up, Down
  <2>. QED BY <1>2, <1>3, <1>4
<1>. QED BY <1>1, <1>5

\* Below a code that heads no group nothing but itself has postings.
LEMMA EndsHoldAll ==
  ASSUME NEW nodes, Tree(nodes), NEW d, NEW k, \A x \in Codes : d[x] \in Nat /\ k[x] \in Nat,
         \A x \in Codes : nodes[x] = NoAccount => d[x] = 0 /\ k[x] = 0
  PROVE  /\ \A x \in Codes : d[x] # 0 \/ k[x] # 0 => x \in ActiveIn(nodes, d, k)
         /\ \A code \in Ends(nodes, d, k) : Rolls(nodes, d, code) = d[code] /\ Rolls(nodes, k, code) = k[code]
<1>1. ShownIn(nodes) = {x \in Codes : nodes[x] # NoAccount}
  BY EverybodyShown
<1>2. ASSUME NEW code
      PROVE  BelowIn(nodes, code) \subseteq Codes /\ IsFiniteSet(BelowIn(nodes, code))
  <2>1. BelowIn(nodes, code) \subseteq Codes
    BY <1>1 DEF BelowIn
  <2>. QED BY <2>1, CodeAssumption, FS_Subset
<1>3. ASSUME NEW x \in Codes, d[x] # 0 \/ k[x] # 0, NEW code \in Climb(nodes, x), nodes[code] # NoAccount
      PROVE  code \in ActiveIn(nodes, d, k)
  <2>. DEFINE B == BelowIn(nodes, code)
  <2>1. code \in Codes
    BY ClimbHolds DEF Tree
  <2>2. x \in B
    BY <1>1, <1>3 DEF BelowIn
  <2>3. B \subseteq Codes /\ IsFiniteSet(B)
    BY <1>2
  <2>4. \A z \in B : d[z] \in Nat /\ k[z] \in Nat
    BY <2>3
  <2>5. d[x] # 0 => SumFunctionOnSet(d, B) > 0
    <3>. HIDE DEF B
    <3>. QED BY <2>2, <2>3, <2>4, SumPositive
  <2>6. k[x] # 0 => SumFunctionOnSet(k, B) > 0
    <3>. HIDE DEF B
    <3>. QED BY <2>2, <2>3, <2>4, SumPositive
  <2>7. Rolls(nodes, d, code) # 0 \/ Rolls(nodes, k, code) # 0
    <3>1. SumFunctionOnSet(d, B) \in Nat /\ SumFunctionOnSet(k, B) \in Nat
      <4>. HIDE DEF B
      <4>. QED BY <2>3, <2>4, SumNat
    <3>2. Rolls(nodes, d, code) = SumFunctionOnSet(d, B) /\ Rolls(nodes, k, code) = SumFunctionOnSet(k, B)
      BY DEF Rolls
    <3>. HIDE DEF B
    <3>. QED BY <1>3, <2>5, <2>6, <3>1, <3>2
  <2>. QED BY <1>1, <1>3, <2>1, <2>7 DEF ActiveIn
<1>4. ASSUME NEW x \in Codes, d[x] # 0 \/ k[x] # 0 PROVE x \in ActiveIn(nodes, d, k)
  <2>1. x \in Climb(nodes, x) /\ nodes[x] # NoAccount
    BY <1>4, ClimbHolds, CodeAssumption DEF Tree
  <2>. QED BY <1>3, <1>4, <2>1
<1>5. ASSUME NEW code \in Ends(nodes, d, k), NEW x \in BelowIn(nodes, code) \ {code}
      PROVE  d[x] = 0 /\ k[x] = 0
  <2>. SUFFICES ASSUME d[x] # 0 \/ k[x] # 0 PROVE FALSE
    OBVIOUS
  <2>1. x \in Codes /\ code \in Climb(nodes, x) /\ code # x
    BY <1>1 DEF BelowIn
  <2>2. PICK z \in Climb(nodes, x) : z \in Codes /\ nodes[z].parent = code /\ code # NoCode
    BY <2>1, ClimbChild DEF Tree
  <2>3. nodes[z] # NoAccount
    BY <2>2 DEF Tree
  <2>4. z \in ActiveIn(nodes, d, k)
    BY <1>3, <2>1, <2>3
  <2>. QED BY <2>2, <2>4 DEF Ends, GroupIn
<1>6. ASSUME NEW code \in Ends(nodes, d, k)
      PROVE  Rolls(nodes, d, code) = d[code] /\ Rolls(nodes, k, code) = k[code]
  <2>. DEFINE B == BelowIn(nodes, code)
  <2>1. code \in Codes /\ code \in ShownIn(nodes)
    BY <1>1 DEF Ends, ActiveIn
  <2>2. code \in B
    BY <2>1, ClimbHolds, CodeAssumption DEF BelowIn, Tree
  <2>3. IsFiniteSet(B) /\ d[code] \in Int /\ k[code] \in Int
    BY <1>2, <2>1
  <2>4. \A x \in B \ {code} : d[x] = 0 /\ k[x] = 0
    BY <1>5
  <2>5. SumFunctionOnSet(d, B) = d[code] /\ SumFunctionOnSet(k, B) = k[code]
    <3>. HIDE DEF B
    <3>. QED BY <2>2, <2>3, <2>4, SumSingle
  <2>. QED BY <2>5 DEF Rolls
<1>. QED BY <1>4, <1>6

\* The rows that are no groups show everything once.
LEMMA LeavesAddUp ==
  ASSUME NEW nodes, Tree(nodes), NEW d, NEW k, \A x \in Codes : d[x] \in Nat /\ k[x] \in Nat,
         \A x \in Codes : nodes[x] = NoAccount => d[x] = 0 /\ k[x] = 0
  PROVE  /\ Debits(LeavesOf(group_by_parent(nodes, d, k))) = SumFunctionOnSet(d, Codes)
         /\ Credits(LeavesOf(group_by_parent(nodes, d, k))) = SumFunctionOnSet(k, Codes)
<1>. DEFINE A == ActiveIn(nodes, d, k)
            L == Ends(nodes, d, k) \cup Directs(nodes, d, k)
            m == [code \in L |-> DirectRow(d, k, code)]
            R == {m[code] : code \in L}
            fd == [r \in R |-> r.debit]
            fk == [r \in R |-> r.credit]
<1>1. /\ \A x \in Codes : d[x] # 0 \/ k[x] # 0 => x \in A
      /\ \A code \in Ends(nodes, d, k) : Rolls(nodes, d, code) = d[code] /\ Rolls(nodes, k, code) = k[code]
  BY EndsHoldAll
<1>2. LeavesOf(group_by_parent(nodes, d, k)) = R
  <2>1. \A code \in Ends(nodes, d, k) : RolledRow(nodes, d, k, code) = DirectRow(d, k, code)
    BY <1>1 DEF RolledRow, DirectRow
  <2>2. LeavesOf(group_by_parent(nodes, d, k))
           = {RolledRow(nodes, d, k, code) : code \in Ends(nodes, d, k)}
             \cup {DirectRow(d, k, code) : code \in Directs(nodes, d, k)}
    BY LeafRows
  <2>. QED BY <2>1, <2>2
<1>3. A \subseteq Codes /\ L \subseteq Codes /\ IsFiniteSet(L)
  <2>1. A \subseteq Codes
    BY DEF ActiveIn, ShownIn
  <2>2. L \subseteq A
    BY DEF Ends, Directs
  <2>3. L \subseteq Codes
    BY <2>1, <2>2
  <2>. HIDE DEF L
  <2>. QED BY <2>1, <2>3, CodeAssumption, FS_Subset
<1>4. \A x \in Codes \ L : d[x] = 0 /\ k[x] = 0
  <2>. SUFFICES ASSUME NEW x \in Codes, d[x] # 0 \/ k[x] # 0 PROVE x \in L
    OBVIOUS
  <2>1. x \in A
    BY <1>1
  <2>2. CASE GroupIn(nodes, d, k, x)
    BY <2>1, <2>2 DEF Directs
  <2>3. CASE ~GroupIn(nodes, d, k, x)
    BY <2>1, <2>3 DEF Ends
  <2>. QED BY <2>2, <2>3
<1>5. \A code \in L : /\ fd[m[code]] = d[code] /\ fk[m[code]] = k[code] /\ m[code].code = code
                      /\ d[code] \in Int /\ k[code] \in Int
  <2>. SUFFICES ASSUME NEW code \in L
                PROVE  /\ fd[m[code]] = d[code] /\ fk[m[code]] = k[code] /\ m[code].code = code
                       /\ d[code] \in Int /\ k[code] \in Int
    OBVIOUS
  <2>1. m[code] = DirectRow(d, k, code) /\ m[code] \in R
    OBVIOUS
  <2>2. m[code].debit = d[code] /\ m[code].credit = k[code] /\ m[code].code = code
    BY <2>1 DEF DirectRow
  <2>. HIDE DEF m, R, L
  <2>. QED BY <1>3, <2>1, <2>2
<1>6. \A x, z \in L : m[x] = m[z] => x = z
  <2>. HIDE DEF m, L
  <2>. QED BY <1>5
<1>7. SumFunctionOnSet(fd, R) = SumFunctionOnSet(d, L) /\ SumFunctionOnSet(fk, R) = SumFunctionOnSet(k, L)
  <2>. HIDE DEF m, L, fd, fk
  <2>. QED BY <1>3, <1>5, <1>6, SumImage
<1>8. /\ SumFunctionOnSet(d, Codes) = SumFunctionOnSet(d, L) + SumFunctionOnSet(d, Codes \ L)
      /\ SumFunctionOnSet(k, Codes) = SumFunctionOnSet(k, L) + SumFunctionOnSet(k, Codes \ L)
  <2>1. IsFiniteSet(Codes) /\ \A x \in Codes : d[x] \in Int /\ k[x] \in Int
    BY CodeAssumption
  <2>. HIDE DEF L
  <2>. QED BY <1>3, <2>1, SumSplit
<1>9. SumFunctionOnSet(d, Codes \ L) = 0 /\ SumFunctionOnSet(k, Codes \ L) = 0
  <2>1. IsFiniteSet(Codes \ L)
    BY CodeAssumption, FS_Subset
  <2>. HIDE DEF L
  <2>. QED BY <1>4, <2>1, SumZero
<1>10. SumFunctionOnSet(d, L) \in Int /\ SumFunctionOnSet(k, L) \in Int
  <2>. HIDE DEF L
  <2>. QED BY <1>3, <1>5, SumInt
<1>11. Debits(R) = SumFunctionOnSet(fd, R) /\ Credits(R) = SumFunctionOnSet(fk, R)
  BY DEF Debits, Credits, SumFunction
<1>12. Debits(R) = SumFunctionOnSet(d, Codes) /\ Credits(R) = SumFunctionOnSet(k, Codes)
  <2>. HIDE DEF R, L, fd, fk
  <2>. QED BY <1>7, <1>8, <1>9, <1>10, <1>11
<1>. HIDE DEF R
<1>. QED BY <1>2, <1>12

\* The merged chart of some companies.
LEMMA MergedParents ==
  ASSUME ChartIInv, NEW ids \in SUBSET Companies, NEW code \in Codes
  PROVE  /\ Hierarchy(ids)[code].parent \in Codes \cup {NoCode}
         /\ Hierarchy(ids)[code] = NoAccount <=> \A c \in ids : ~Exists(c, code)
         /\ \A c \in ids : ids = {c} => Hierarchy(ids)[code].parent = account[c][code].parent
<1>. DEFINE I == {d \in ids : Exists(d, code)}
            rows == {account[c][code] : c \in I}
            parents == {r.parent : r \in rows} \ {NoCode}
            ranks == {Rank(r.type) : r \in rows}
            H == Hierarchy(ids)[code]
<1>1. H = IF rows = {} THEN NoAccount
          ELSE [type |-> ACCOUNT_TYPES[Min(ranks)], parent |-> IF parents = {} THEN NoCode ELSE Min(parents), ic |-> FALSE]
  BY DEF Hierarchy
<1>2. \A c \in ids : account[c][code] \in AccountRow \cup {NoAccount}
  BY DEF ChartIInv, Keyed, ChartTable
<1>3. \A r \in rows : r \in AccountRow
  BY <1>2 DEF Exists
<1>4. parents \subseteq Codes /\ IsFiniteSet(parents) /\ parents \in SUBSET Int
  <2>1. parents \subseteq Codes
    BY <1>3 DEF AccountRow
  <2>. HIDE DEF parents
  <2>2. IsFiniteSet(Codes) /\ Codes \subseteq Nat
    BY CodeAssumption
  <2>3. IsFiniteSet(parents)
    BY <2>1, <2>2, FS_Subset
  <2>. QED BY <2>1, <2>2, <2>3
<1>5. parents # {} => Min(parents) \in parents
  <2>. HIDE DEF parents
  <2>. QED BY <1>4, MinIsIn
<1>6. rows = {} <=> \A c \in ids : ~Exists(c, code)
  OBVIOUS
<1>7. rows # {} => H # NoAccount
  <2>. SUFFICES ASSUME rows # {} PROVE H # NoAccount
    OBVIOUS
  <2>1. ranks \subseteq 1..5 /\ ranks # {}
    <3>1. \A r \in rows : r.type \in Types
      BY <1>3 DEF AccountRow
    <3>. HIDE DEF rows
    <3>. QED BY <3>1, RankOfType
  <2>2. IsFiniteSet(ranks) /\ ranks \in SUBSET Int
    <3>1. 5 \in Nat
      OBVIOUS
    <3>2. IsFiniteSet(1..5)
      BY <3>1, FirstFinite
    <3>. HIDE DEF ranks
    <3>3. IsFiniteSet(ranks)
      BY <2>1, <3>2, FS_Subset
    <3>. QED BY <2>1, <3>3
  <2>3. Min(ranks) \in 1..5
    <3>. HIDE DEF ranks
    <3>. QED BY <2>1, <2>2, MinIsIn
  <2>4. ACCOUNT_TYPES[Min(ranks)] # "none"
    <3>. HIDE DEF ranks
    <3>. QED BY <2>3 DEF ACCOUNT_TYPES
  <2>5. H.type = ACCOUNT_TYPES[Min(ranks)]
    <3>. HIDE DEF ranks, parents, H, rows
    <3>. QED BY <1>1
  <2>. HIDE DEF H, ranks
  <2>. QED BY <2>4, <2>5 DEF NoAccount
<1>8. H.parent = (IF parents = {} THEN NoCode ELSE Min(parents))
  <2>1. CASE rows = {}
    <3>1. parents = {}
      BY <2>1
    <3>. HIDE DEF ranks, parents, H, rows
    <3>. QED BY <1>1, <2>1, <3>1 DEF NoAccount
  <2>2. CASE rows # {}
    <3>. HIDE DEF ranks, parents, H, rows
    <3>. QED BY <1>1, <2>2
  <2>. QED BY <2>1, <2>2
<1>9. H.parent \in Codes \cup {NoCode}
  <2>. HIDE DEF parents, H
  <2>. QED BY <1>4, <1>5, <1>8
<1>10. H = NoAccount <=> \A c \in ids : ~Exists(c, code)
  <2>. HIDE DEF H, ranks, parents, rows
  <2>. QED BY <1>1, <1>6, <1>7
<1>11. ASSUME NEW c \in ids, ids = {c} PROVE H.parent = account[c][code].parent
  <2>. DEFINE p == account[c][code].parent
  <2>1. CASE Exists(c, code)
    <3>1. rows = {account[c][code]}
      BY <1>11, <2>1
    <3>2. parents = {p} \ {NoCode}
      BY <3>1
    <3>3. CASE p = NoCode
      <4>1. parents = {}
        BY <3>2, <3>3
      <4>. HIDE DEF parents, H, rows
      <4>. QED BY <1>8, <3>3, <4>1
    <3>4. CASE p # NoCode
      <4>1. parents = {p} /\ parents # {}
        BY <3>2, <3>4
      <4>. HIDE DEF parents, H, rows
      <4>. QED BY <1>5, <1>8, <4>1
    <3>. QED BY <3>3, <3>4
  <2>2. CASE ~Exists(c, code)
    <3>1. rows = {} /\ p = NoCode
      BY <1>11, <2>2 DEF Exists, NoAccount
    <3>2. parents = {}
      BY <3>1
    <3>. HIDE DEF parents, H, rows
    <3>. QED BY <1>8, <3>1, <3>2
  <2>. QED BY <2>1, <2>2
<1>. QED BY <1>9, <1>10, <1>11

Merged(ids) == \A code \in Codes : Hierarchy(ids)[code] # NoAccount =>
                   code \notin Climb(Hierarchy(ids), Hierarchy(ids)[code].parent)

LEMMA MergedTree ==
  ASSUME ChartIInv, NEW ids \in SUBSET Companies, Merged(ids)
  PROVE  Tree(Hierarchy(ids))
<1>. DEFINE H == Hierarchy(ids)
<1>1. \A x \in Codes : H[x].parent \in Codes \cup {NoCode}
  BY MergedParents
<1>2. Charted(H)
  <2>. HIDE DEF H
  <2>. QED BY <1>1 DEF Charted
<1>3. \A x \in Codes : H[x] = NoAccount => H[x].parent = NoCode
  BY DEF NoAccount
<1>4. Acyclic(H)
  <2>1. \A x \in Codes : H[x] = NoAccount => x \notin Climb(H, H[x].parent)
    <3>. HIDE DEF H
    <3>. QED BY <1>2, <1>3, ClimbNone
  <2>. QED BY <2>1 DEF Merged, Acyclic
<1>. HIDE DEF H
<1>. QED BY <1>2, <1>3, <1>4 DEF Tree, H

\* A company's chart without circles has none when it is read for a statement.
LEMMA ForestIsMerged ==
  ASSUME ChartIInv, NEW c \in Companies, Forest(c)
  PROVE  Merged({c})
<1>. DEFINE H == Hierarchy({c})
            tab == account[c]
<1>1. \A x \in Codes : H[x].parent = tab[x].parent /\ H[x].parent \in Codes \cup {NoCode}
  <2>1. {c} \in SUBSET Companies /\ c \in {c}
    OBVIOUS
  <2>. QED BY <2>1, MergedParents
<1>2. tab \in ChartTable
  BY DEF ChartIInv, Keyed
<1>3. Acyclic(tab)
  <2>1. Issues(tab) = OrphansIn(tab)
    BY DEF Forest, Orphans, account_integrity, Issues, OrphansIn, Exists
  <2>. HIDE DEF tab
  <2>. QED BY <1>2, <2>1, ForestIsAcyclic
<1>4. Charted(tab) /\ Charted(H)
  <2>1. Charted(tab)
    <3>. HIDE DEF tab
    <3>. QED BY <1>2, TableIsCharted
  <2>. HIDE DEF H
  <2>. QED BY <1>1, <2>1 DEF Charted
<1>5. ASSUME NEW x \in Codes PROVE x \notin Climb(H, H[x].parent)
  <2>. DEFINE p == tab[x].parent
  <2>1. p \in Codes \cup {NoCode} /\ H[x].parent = p
    BY <1>1
  <2>2. Climb(tab, p) \subseteq Codes
    <3>. HIDE DEF tab, p
    <3>. QED BY <1>4, <2>1, ClimbHolds
  <2>3. \A z \in Climb(tab, p) : H[z].parent = tab[z].parent
    BY <1>1, <2>2
  <2>4. Climb(H, p) = Climb(tab, p)
    <3>. HIDE DEF H, tab, p
    <3>. QED BY <1>4, <2>1, <2>3, ClimbSame
  <2>5. x \notin Climb(tab, p)
    BY <1>3 DEF Acyclic
  <2>. HIDE DEF H, p
  <2>. QED BY <2>1, <2>4, <2>5
<1>. QED BY <1>5 DEF Merged

\* Grouped or flat, the trial balance is what the lines move.
LEMMA TrialBalanceWhole ==
  ASSUME ChartIInv, NEW J, Told(J), NEW ids \in SUBSET Companies, Uniform(ids), Merged(ids), NEW a, NEW b
  PROVE  /\ Debits(LeavesOf(trial_balance(J, ids, a, b).grouped)) = trial_balance(J, ids, a, b).total_debit
         /\ Credits(LeavesOf(trial_balance(J, ids, a, b).grouped)) = trial_balance(J, ids, a, b).total_credit
<1>. DEFINE S == Booked(J, ids, a, b)
            H == Hierarchy(ids)
            d == [c \in Codes |-> Debits(Surviving(On(S, c)))]
            k == [c \in Codes |-> Credits(Surviving(On(S, c)))]
            rows == account_balances(S)
            key == [l \in S |-> l.code]
            row == [l \in S |-> Counter(l)]
            rd == [r \in DOMAIN rows |-> rows[r].debit]
            rc == [r \in DOMAIN rows |-> rows[r].credit]
            tb == trial_balance(J, ids, a, b)
<1>1. tb.grouped = group_by_parent(H, d, k) /\ tb.total_debit = SumFunction(rd) /\ tb.total_credit = SumFunction(rc)
  BY DEF trial_balance
<1>2. S \in SUBSET J /\ \A l \in S : l.company \in ids
  BY DEF Booked
<1>3. Money(S) /\ \A l \in S : LineIs(l)
  <2>. HIDE DEF S
  <2>. QED BY <1>2, ToldIsTyped DEF Typed
<1>4. ASSUME NEW c \in Codes PROVE Surviving(On(S, c)) = Bearing(S, key, c)
  <2>. DEFINE t == AccountType(ids)[c]
  <2>1. On(S, c) = Bearing(S, key, c)
    BY DEF On, Bearing
  <2>2. \A l \in On(S, c) : l \in J /\ l.company \in ids /\ l.code = c
    BY <1>2 DEF On
  <2>3. \A l \in On(S, c) : l.type = t /\ l.type \in Types
    <3>. HIDE DEF S
    <3>. QED BY <2>2, LineType
  <2>4. CASE On(S, c) = {}
    <3>1. "asset" \in Types /\ \A l \in On(S, c) : l.type = "asset"
      BY <2>4, TypeNames
    <3>2. Surviving(On(S, c)) = On(S, c)
      <4>. HIDE DEF S
      <4>. QED BY <3>1, AllSurvive
    <3>. QED BY <2>1, <3>2
  <2>5. CASE On(S, c) # {}
    <3>1. t \in Types
      <4>. HIDE DEF S, t
      <4>. QED BY <2>3, <2>5
    <3>2. Surviving(On(S, c)) = On(S, c)
      <4>. HIDE DEF S, t
      <4>. QED BY <2>3, <3>1, AllSurvive
    <3>. QED BY <2>1, <3>2
  <2>. QED BY <2>4, <2>5
<1>5. \A c \in Codes : d[c] = Debits(Bearing(S, key, c)) /\ k[c] = Credits(Bearing(S, key, c))
  BY <1>4
<1>6. \A l \in S : key[l] \in Codes
  BY <1>3 DEF LineIs
<1>7. SumFunctionOnSet(d, Codes) = Debits(S) /\ SumFunctionOnSet(k, Codes) = Credits(S)
  <2>1. IsFiniteSet(Codes)
    BY CodeAssumption
  <2>. HIDE DEF S, key, d, k
  <2>. QED BY <1>3, <1>5, <1>6, <2>1, DebitsByKey
<1>8. \A c \in Codes : d[c] \in Nat /\ k[c] \in Nat
  <2>1. \A c \in Codes : Bearing(S, key, c) \in SUBSET S
    BY DEF Bearing
  <2>. HIDE DEF S, key, d, k
  <2>. QED BY <1>3, <1>5, <2>1, DebitsCredits
<1>9. ASSUME NEW c \in Codes, H[c] = NoAccount PROVE d[c] = 0 /\ k[c] = 0
  <2>1. \A e \in ids : ~Exists(e, c)
    <3>1. Hierarchy(ids)[c] = NoAccount <=> \A e \in ids : ~Exists(e, c)
      BY MergedParents
    <3>. QED BY <1>9, <3>1
  <2>2. \A l \in S : l.code # c
    BY <1>2, <1>3, <2>1 DEF LineIs, Exists
  <2>3. Bearing(S, key, c) = {}
    BY <2>2 DEF Bearing
  <2>. HIDE DEF S, key, d, k
  <2>. QED BY <1>5, <2>3, NetEmpty
<1>10. Tree(H)
  BY MergedTree
<1>11. /\ Debits(LeavesOf(group_by_parent(H, d, k))) = SumFunctionOnSet(d, Codes)
       /\ Credits(LeavesOf(group_by_parent(H, d, k))) = SumFunctionOnSet(k, Codes)
  <2>. HIDE DEF H, d, k
  <2>. QED BY <1>8, <1>9, <1>10, LeavesAddUp
<1>12. DOMAIN rows = Counters(S)
       /\ \A r \in Counters(S) : rows[r].debit = Debits(Bearing(S, row, r)) /\ rows[r].credit = Credits(Bearing(S, row, r))
  <2>1. DOMAIN rows = Counters(S)
    BY DEF account_balances, Counters, Counter
  <2>2. ASSUME NEW r \in Counters(S)
        PROVE  rows[r].debit = Debits(Bearing(S, row, r)) /\ rows[r].credit = Credits(Bearing(S, row, r))
    <3>. DEFINE R == {l \in S : <<l.code, l.type>> = r}
    <3>1. R = Bearing(S, row, r)
      BY DEF Bearing, Counter
    <3>2. rows[r].debit = Debits(R) /\ rows[r].credit = Credits(R)
      BY DEF account_balances, Counters, Counter
    <3>. HIDE DEF R, S, row, rows
    <3>. QED BY <3>1, <3>2
  <2>. QED BY <2>1, <2>2
<1>13. SumFunction(rd) = Debits(S) /\ SumFunction(rc) = Credits(S)
  <2>. DEFINE K == Counters(S)
  <2>1. IsFiniteSet(K) /\ \A l \in S : row[l] \in K
    <3>1. K = {row[l] : l \in S}
      BY DEF Counters
    <3>2. IsFiniteSet(S)
      BY <1>3 DEF Money
    <3>3. IsFiniteSet({row[l] : l \in S})
      <4>. HIDE DEF row, S
      <4>. QED BY <3>2, ImageFinite
    <3>. HIDE DEF row, S, K
    <3>. QED BY <3>1, <3>3
  <2>2. \A r \in K : rd[r] = Debits(Bearing(S, row, r)) /\ rc[r] = Credits(Bearing(S, row, r))
    <3>. HIDE DEF row, S, rows
    <3>. QED BY <1>12
  <2>3. SumFunctionOnSet(rd, K) = Debits(S) /\ SumFunctionOnSet(rc, K) = Credits(S)
    <3>. HIDE DEF row, S, rows, rd, rc, K
    <3>. QED BY <1>3, <2>1, <2>2, DebitsByKey
  <2>4. DOMAIN rd = K /\ DOMAIN rc = K
    BY <1>12
  <2>. HIDE DEF rd, rc, K
  <2>. QED BY <2>3, <2>4 DEF SumFunction
<1>. HIDE DEF tb, S, H, d, k, rd, rc
<1>14. Debits(LeavesOf(tb.grouped)) = tb.total_debit /\ Credits(LeavesOf(tb.grouped)) = tb.total_credit
  BY <1>1, <1>7, <1>11, <1>13
<1>. QED BY <1>14 DEF tb

LEMMA Whole == ASSUME ChartIInv PROVE NothingLost
<1>. DEFINE J == Journal
            end == Dec31(Max(Years))
<1>1. Told(J)
  BY JournalTold
<1>. HIDE DEF J, end
<1>2. ASSUME NEW ids \in Scopes, Uniform(ids), Merged(ids)
      PROVE  LET tb == trial_balance(J, ids, 0, end)
                 leaves == {r \in tb.grouped : ~r.is_group}
             IN  Debits(leaves) = tb.total_debit /\ Credits(leaves) = tb.total_credit
  <2>1. ids \in SUBSET Companies
    BY CompaniesFinite DEF Scopes
  <2>2. /\ Debits(LeavesOf(trial_balance(J, ids, 0, end).grouped)) = trial_balance(J, ids, 0, end).total_debit
        /\ Credits(LeavesOf(trial_balance(J, ids, 0, end).grouped)) = trial_balance(J, ids, 0, end).total_credit
    BY <1>1, <1>2, <2>1, TrialBalanceWhole
  <2>. QED BY <2>2 DEF LeavesOf
<1>3. ASSUME NEW ids \in Scopes, NEW c \in ids, ids = {c}, Forest(c)
      PROVE  Uniform(ids) /\ Merged(ids)
  <2>1. c \in Companies
    BY CompaniesFinite DEF Scopes
  <2>2. Merged({c})
    BY <1>3, <2>1, ForestIsMerged
  <2>. QED BY <1>3, <2>2 DEF Uniform
<1>. QED BY <1>2, <1>3 DEF NothingLost, Merged, J, end

\* In every reachable state in which nobody is waiting, what the rows of the
\* grouped trial balance show that are no groups adds up to its totals
\* (reports.py group_by_parent): nothing is lost under an account whose
\* parent is missing and nothing is shown twice, in a company whose chart has
\* no circle and over companies whose merged chart has none.
THEOREM NothingIsLost == Spec => []NothingLost
<1>1. ChartIInv => NothingLost
  BY Whole
<1>. QED BY <1>1, ChartInvariance, PTL

=============================================================================
