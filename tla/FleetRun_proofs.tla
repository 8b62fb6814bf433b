--------------------------- MODULE FleetRun_proofs ---------------------------
(***************************************************************************)
(* Theorems about FleetRun for any generators, fleets, runs and faults:    *)
(*                                                                         *)
(*   1. recursive functions over a finite rank exist, and what their calls *)
(*      keep true (least counterexamples);                                 *)
(*   2. join_split_runs: parts of a joined run pairwise belong together;   *)
(*   3. what the lines of a run say, step by step (FleetInv);              *)
(*   4. a run taken for complete is whole, and nobody counts twice.        *)
(***************************************************************************)
EXTENDS FleetRun, FiniteSetTheorems, SequenceTheorems, NaturalsInduction,
        WellFoundedInduction, TLAPS

-----------------------------------------------------------------------------
(* Recursion.                                                              *)

\* A non-empty set of numbers has a least one.
LEMMA Least ==
  ASSUME NEW T \in SUBSET Nat, T # {}
  PROVE  \E k \in T : \A j \in T : k <= j
<1>1. \E x \in T : \A y \in T : ~ (<<y, x>> \in OpToRel(<, Nat))
  BY WFMin, NatLessThanWellFounded, Zenon
<1>2. PICK x \in T : \A y \in T : ~ (<<y, x>> \in OpToRel(<, Nat))
  BY <1>1
<1>3. ASSUME NEW y \in T PROVE x <= y
  <2>1. ~(y < x)
    BY <1>2 DEF OpToRel
  <2> QED BY <2>1
<1> QED BY <1>3

\* If every counterexample has one of a smaller rank there is none.
NoLeast(D, Bad, rank) ==
  Bad \subseteq D /\ rank \in [D -> Nat] /\ \A x \in Bad : \E y \in Bad : rank[y] < rank[x]

LEMMA NoneLeast ==
  ASSUME NEW D, NEW Bad, NEW rank, NoLeast(D, Bad, rank)
  PROVE  Bad = {}
<1> USE DEF NoLeast
<1> SUFFICES ASSUME Bad # {} PROVE FALSE
  OBVIOUS
<1> DEFINE T == {rank[x] : x \in Bad}
<1>1. T \in SUBSET Nat /\ T # {}
  OBVIOUS
<1>2. PICK k \in T : \A j \in T : k <= j
  <2> HIDE DEF T
  <2> QED BY <1>1, Least
<1>3. PICK x \in Bad : k = rank[x]
  BY <1>2
<1>4. PICK y \in Bad : rank[y] < rank[x]
  BY <1>3
<1>5. rank[y] \in T
  BY <1>4
<1>6. rank[x] \in Nat /\ rank[y] \in Nat /\ rank[x] <= rank[y]
  <2> HIDE DEF T
  <2> QED BY <1>2, <1>3, <1>5
<1> QED BY <1>4, <1>6

\* The numbers have no least one that is not in T: T has them all.
LEMMA AllNumbers ==
  ASSUME NEW T \in SUBSET Nat, 0 \in T, \A n \in T : n + 1 \in T
  PROVE  T = Nat
<1> SUFFICES ASSUME T # Nat PROVE FALSE
  OBVIOUS
<1>1. PICK k \in Nat \ T : \A j \in Nat \ T : k <= j
  BY Least, Nat \ T # {}
<1>2. k - 1 \in Nat /\ k - 1 \notin Nat \ T
  BY <1>1
<1>3. (k - 1) + 1 \in T
  BY <1>2
<1> QED BY <1>1, <1>3

\* f[x] is given where the recursion stops, and put together elsewhere of add[x]
\* and one call.
Step(stop, next, base, add, f, x) == IF x \in stop THEN base[x] ELSE add[x] \cup f[next[x]]
HasFunction(D, stop, next, base, add) ==
  \E f : f = [x \in D |-> Step(stop, next, base, add, f, x)]
Ranked(D, stop, next, rank, bound) ==
  /\ rank \in [D -> Nat] /\ bound \in Nat /\ next \in [D -> D]
  /\ \A x \in D : rank[x] < bound
  /\ \A x \in D \ stop : rank[next[x]] < rank[x]

\* A function whose every call is of a smaller rank, up to some bound, exists.
LEMMA Recursion ==
  ASSUME NEW D, NEW stop, NEW next, NEW rank, NEW bound, NEW base, NEW add,
         Ranked(D, stop, next, rank, bound)
  PROVE  HasFunction(D, stop, next, base, add)
<1> USE DEF Ranked
<1> DEFINE Below(n) == {x \in D : rank[x] < n}
           Solves(f, n) == f = [x \in Below(n) |-> Step(stop, next, base, add, f, x)]
           T == {n \in Nat : \E f : Solves(f, n)}
<1>1. 0 \in T
  <2>1. Below(0) = {}
    OBVIOUS
  <2>2. Solves([x \in {} |-> {}], 0)
    BY <2>1
  <2> QED BY <2>2
<1>2. ASSUME NEW n \in T PROVE n + 1 \in T
  <2>1. PICK g : Solves(g, n)
    OBVIOUS
  <2> DEFINE f == [x \in Below(n + 1) |-> Step(stop, next, base, add, g, x)]
  <2>2. ASSUME NEW x \in Below(n) PROVE f[x] = g[x]
    <3>1. x \in Below(n + 1)
      OBVIOUS
    <3>2. f[x] = Step(stop, next, base, add, g, x)
      BY <3>1
    <3>3. g[x] = Step(stop, next, base, add, g, x)
      BY <2>1
    <3> QED BY <3>2, <3>3
  <2>3. ASSUME NEW x \in Below(n + 1), x \notin stop PROVE f[next[x]] = g[next[x]]
    <3>1. next[x] \in D /\ rank[next[x]] < rank[x] /\ rank[x] < n + 1
      BY <2>3
    <3>2. next[x] \in Below(n)
      BY <3>1
    <3> QED BY <3>2, <2>2
  <2>4. Solves(f, n + 1)
    <3> DEFINE b(x) == Step(stop, next, base, add, f, x)
               c(x) == Step(stop, next, base, add, g, x)
    <3>1. \A x \in Below(n + 1) : b(x) = c(x)
      BY <2>3 DEF Step
    <3>2. f = [x \in Below(n + 1) |-> c(x)]
      OBVIOUS
    <3> HIDE DEF f
    <3>3. [x \in Below(n + 1) |-> c(x)] = [x \in Below(n + 1) |-> b(x)]
      BY <3>1, Zenon
    <3> QED BY <3>2, <3>3
  <2> HIDE DEF Solves, f
  <2>5. n + 1 \in Nat
    BY <1>2 DEF T
  <2> QED BY <2>4, <2>5, Zenon DEF T
<1>3. T = Nat
  <2> HIDE DEF T
  <2>1. T \in SUBSET Nat
    BY DEF T
  <2> QED BY <1>1, <1>2, <2>1, AllNumbers
<1>4. PICK f : Solves(f, bound)
  BY <1>3
<1>5. Below(bound) = D
  OBVIOUS
<1> QED BY <1>4, <1>5 DEF HasFunction

\* The subsets of a finite set, ranked by size: what they lack, and what they have.
LEMMA Ranks ==
  ASSUME NEW S, IsFiniteSet(S)
  PROVE  LET lack == [M \in SUBSET S |-> Cardinality(S \ M)]
             have == [M \in SUBSET S |-> Cardinality(M)]
         IN  /\ Cardinality(S) + 1 \in Nat
             /\ lack \in [SUBSET S -> Nat] /\ have \in [SUBSET S -> Nat]
             /\ \A M \in SUBSET S : /\ lack[M] < Cardinality(S) + 1
                                    /\ have[M] < Cardinality(S) + 1
             /\ \A M, N \in SUBSET S : M \subseteq N /\ M # N =>
                  lack[N] < lack[M] /\ have[M] < have[N]
<1> DEFINE lack == [M \in SUBSET S |-> Cardinality(S \ M)]
           have == [M \in SUBSET S |-> Cardinality(M)]
<1>1. ASSUME NEW M \in SUBSET S
      PROVE  IsFiniteSet(M) /\ Cardinality(M) \in Nat /\ Cardinality(M) <= Cardinality(S)
  BY FS_Subset, FS_CardinalityType
<1>2. Cardinality(S) \in Nat
  BY FS_CardinalityType
<1>3. ASSUME NEW M \in SUBSET S, NEW N \in SUBSET S, M \subseteq N, M # N
      PROVE  Cardinality(M) < Cardinality(N)
  <2>1. PICK c \in N \ M : TRUE
    BY <1>3
  <2>2. Cardinality(N \ {c}) = Cardinality(N) - 1
    BY <1>1, <2>1, FS_RemoveElement
  <2>3. Cardinality(M) <= Cardinality(N \ {c})
    <3>1. M \subseteq N \ {c} /\ IsFiniteSet(N \ {c})
      BY <1>1, <1>3, <2>1
    <3> QED BY <3>1, FS_Subset
  <2>4. Cardinality(M) \in Nat /\ Cardinality(N) \in Nat
    BY <1>1
  <2> QED BY <2>2, <2>3, <2>4
<1>4. ASSUME NEW M \in SUBSET S
      PROVE  /\ lack[M] = Cardinality(S \ M) /\ have[M] = Cardinality(M)
             /\ lack[M] \in Nat /\ lack[M] <= Cardinality(S)
             /\ have[M] \in Nat /\ have[M] <= Cardinality(S)
  <2>1. lack[M] = Cardinality(S \ M) /\ have[M] = Cardinality(M)
    OBVIOUS
  <2>2. S \ M \in SUBSET S
    OBVIOUS
  <2> HIDE DEF lack, have
  <2> QED BY <1>1, <2>1, <2>2
<1>5. ASSUME NEW M \in SUBSET S, NEW N \in SUBSET S, M \subseteq N, M # N
      PROVE  lack[N] < lack[M] /\ have[M] < have[N]
  <2>1. Cardinality(S \ N) < Cardinality(S \ M)
    <3>1. S \ N \in SUBSET S /\ S \ M \in SUBSET S /\ S \ N \subseteq S \ M /\ S \ N # S \ M
      BY <1>5
    <3> QED BY <3>1, <1>3
  <2>2. Cardinality(M) < Cardinality(N)
    BY <1>3, <1>5
  <2> HIDE DEF lack, have
  <2> QED BY <1>4, <2>1, <2>2
<1>6. lack \in [SUBSET S -> Nat] /\ have \in [SUBSET S -> Nat]
  BY <1>4
<1>7. ASSUME NEW M \in SUBSET S
      PROVE  lack[M] < Cardinality(S) + 1 /\ have[M] < Cardinality(S) + 1
  <2>1. /\ lack[M] \in Nat /\ lack[M] <= Cardinality(S)
        /\ have[M] \in Nat /\ have[M] <= Cardinality(S)
    BY <1>4
  <2> HIDE DEF lack, have
  <2> QED BY <1>2, <2>1
<1>8. Cardinality(S) + 1 \in Nat
  BY <1>2
<1> HIDE DEF lack, have
<1>9. \A M, N \in SUBSET S : M \subseteq N /\ M # N => lack[N] < lack[M] /\ have[M] < have[N]
  BY <1>5
<1> QED BY <1>6, <1>7, <1>8, <1>9 DEF lack, have

\* Recursion over the subsets of a finite set that makes them larger, or smaller.
Grows(S, stop, next) ==
  \A M \in (SUBSET S) \ stop : M \subseteq next[M] /\ next[M] # M
Shrinks(S, stop, next) ==
  \A M \in (SUBSET S) \ stop : next[M] \subseteq M /\ next[M] # M

LEMMA SubsetRecursion ==
  ASSUME NEW S, IsFiniteSet(S), NEW stop, NEW next \in [SUBSET S -> SUBSET S],
         Grows(S, stop, next) \/ Shrinks(S, stop, next),
         NEW base, NEW add
  PROVE  HasFunction(SUBSET S, stop, next, base, add)
<1> DEFINE lack == [M \in SUBSET S |-> Cardinality(S \ M)]
           have == [M \in SUBSET S |-> Cardinality(M)]
           bound == Cardinality(S) + 1
<1>1. /\ bound \in Nat
      /\ lack \in [SUBSET S -> Nat] /\ have \in [SUBSET S -> Nat]
      /\ \A M \in SUBSET S : lack[M] < bound /\ have[M] < bound
      /\ \A M, N \in SUBSET S : M \subseteq N /\ M # N =>
           lack[N] < lack[M] /\ have[M] < have[N]
  BY Ranks
<1> HIDE DEF lack, have, bound
<1>2. CASE Grows(S, stop, next)
  <2>1. \A M \in (SUBSET S) \ stop : lack[next[M]] < lack[M]
    BY <1>1, <1>2 DEF Grows
  <2>2. Ranked(SUBSET S, stop, next, lack, bound)
    BY <1>1, <2>1 DEF Ranked
  <2> QED BY <2>2, Recursion
<1>3. CASE Shrinks(S, stop, next)
  <2>1. \A M \in (SUBSET S) \ stop : have[next[M]] < have[M]
    BY <1>1, <1>3 DEF Shrinks
  <2>2. Ranked(SUBSET S, stop, next, have, bound)
    BY <1>1, <2>1 DEF Ranked
  <2> QED BY <2>2, Recursion
<1> QED BY <1>2, <1>3

\* If for every counterexample there is a larger one, or for every one a
\* smaller one, there is none.
NoLargest(Bad) == \A M \in Bad : \E N \in Bad : M \subseteq N /\ M # N
NoSmallest(Bad) == \A M \in Bad : \E N \in Bad : N \subseteq M /\ M # N

LEMMA NoSubset ==
  ASSUME NEW S, IsFiniteSet(S), NEW Bad \in SUBSET SUBSET S,
         NoLargest(Bad) \/ NoSmallest(Bad)
  PROVE  Bad = {}
<1> DEFINE lack == [M \in SUBSET S |-> Cardinality(S \ M)]
           have == [M \in SUBSET S |-> Cardinality(M)]
<1>1. /\ lack \in [SUBSET S -> Nat] /\ have \in [SUBSET S -> Nat]
      /\ \A M, N \in SUBSET S : M \subseteq N /\ M # N =>
           lack[N] < lack[M] /\ have[M] < have[N]
  BY Ranks
<1> HIDE DEF lack, have
<1>2. CASE NoLargest(Bad)
  <2>1. NoLeast(SUBSET S, Bad, lack)
    BY <1>1, <1>2 DEF NoLeast, NoLargest
  <2> QED BY <2>1, NoneLeast
<1>3. CASE NoSmallest(Bad)
  <2>1. NoLeast(SUBSET S, Bad, have)
    BY <1>1, <1>3 DEF NoLeast, NoSmallest
  <2> QED BY <2>1, NoneLeast
<1> QED BY <1>2, <1>3

\* The first by one number, then by another, then by itself.
LEMMA Lexical ==
  ASSUME NEW S \in SUBSET Nat, S # {}, NEW f \in [S -> Nat], NEW g \in [S -> Nat]
  PROVE  \E r \in S : \A q \in S :
           \/ f[r] < f[q]
           \/ f[r] = f[q] /\ (g[r] < g[q] \/ (g[r] = g[q] /\ r <= q))
<1> DEFINE F == {f[x] : x \in S}
<1>1. PICK k \in F : \A j \in F : k <= j
  <2>1. F \in SUBSET Nat /\ F # {}
    OBVIOUS
  <2> HIDE DEF F
  <2> QED BY <2>1, Least
<1> DEFINE S1 == {x \in S : f[x] = k}
           G == {g[x] : x \in S1}
<1>2. PICK l \in G : \A j \in G : l <= j
  <2>1. G \in SUBSET Nat /\ G # {}
    OBVIOUS
  <2> HIDE DEF G
  <2> QED BY <2>1, Least
<1> DEFINE S2 == {x \in S1 : g[x] = l}
<1>3. PICK r \in S2 : \A q \in S2 : r <= q
  <2>1. S2 \in SUBSET Nat /\ S2 # {}
    OBVIOUS
  <2> HIDE DEF S2
  <2> QED BY <2>1, Least
<1>4. ASSUME NEW q \in S
      PROVE  \/ f[r] < f[q]
             \/ f[r] = f[q] /\ (g[r] < g[q] \/ (g[r] = g[q] /\ r <= q))
  <2>1. f[q] \in Nat /\ g[q] \in Nat /\ f[r] = k /\ g[r] = l /\ k \in Nat /\ l \in Nat
    BY <1>3
  <2>2. k <= f[q]
    BY <1>1
  <2>3. f[q] = k => l <= g[q]
    BY <1>2
  <2>4. f[q] = k /\ g[q] = l => r <= q
    BY <1>3
  <2> QED BY <2>1, <2>2, <2>3, <2>4
<1> QED BY <1>3, <1>4

-----------------------------------------------------------------------------
(* join_split_runs.                                                        *)

\* The diaries are read: of finitely many runs, with a first and a last time.
Read ==
  IsFiniteSet(InDiary) /\ first \in [Runs -> Nat] /\ last \in [Runs -> Nat]

\* The parts of a run belong together, each with each other.
PartsOfEachOther(parts) ==
  /\ parts \subseteq InDiary
  /\ \A a, b \in parts : a # b => PartsOfOneRun(a, b)

LEMMA MaxOfTwo ==
  ASSUME NEW a \in Nat, NEW b \in Nat
  PROVE  Max({a, b}) = (IF a <= b THEN b ELSE a) /\ Min({a, b}) = (IF a <= b THEN a ELSE b)
<1>1. CASE a <= b
  <2>1. \A x \in {a, b} : b >= x /\ a <= x
    BY <1>1
  <2> QED BY <1>1, <2>1 DEF Max, Min
<1>2. CASE ~(a <= b)
  <2>1. \A x \in {a, b} : a >= x /\ b <= x
    BY <1>2
  <2> QED BY <1>2, <2>1 DEF Max, Min
<1> QED BY <1>1, <1>2

LEMMA EarliestIs ==
  ASSUME Read, NEW S \in SUBSET InDiary, S # {}
  PROVE  Earliest(S) \in S
<1> DEFINE f == [x \in S |-> StartedAt(x)]
<1>1. S \in SUBSET Nat /\ f \in [S -> Nat]
  BY DiaryAssumption DEF Read, InDiary, StartedAt
<1>2. PICK r \in S : \A q \in S :
           \/ f[r] < f[q]
           \/ f[r] = f[q] /\ (f[r] < f[q] \/ (f[r] = f[q] /\ r <= q))
  <2> HIDE DEF f
  <2> QED BY <1>1, Lexical
<1>3. \A q \in S \ {r} : Before(r, q)
  BY <1>1, <1>2 DEF Before
<1> QED BY <1>3 DEF Earliest

LEMMA ClosestIs ==
  ASSUME Read, NEW seed \in InDiary, NEW S \in SUBSET InDiary, S # {}
  PROVE  Closest(seed, S) \in S
<1> DEFINE f == [x \in S |-> EndAt(seed) - Overlap(seed, x)]
           g == [x \in S |-> StartedAt(x)]
<1>1. S \in SUBSET Nat /\ g \in [S -> Nat]
  BY DiaryAssumption DEF Read, InDiary, StartedAt
<1>2. \A x \in S : Overlap(seed, x) \in Int /\ EndAt(seed) - Overlap(seed, x) \in Nat
  <2> TAKE x \in S
  <2>1. EndAt(seed) \in Nat /\ EndAt(x) \in Nat /\ StartedAt(seed) \in Nat /\ StartedAt(x) \in Nat
    BY DEF Read, InDiary, StartedAt, EndAt
  <2>2. /\ Min({EndAt(seed), EndAt(x)}) \in Nat
        /\ Min({EndAt(seed), EndAt(x)}) <= EndAt(seed)
        /\ Max({StartedAt(seed), StartedAt(x)}) \in Nat
    <3>1. PICK k \in Nat, l \in Nat, m \in Nat, n \in Nat :
            k = EndAt(seed) /\ l = EndAt(x) /\ m = StartedAt(seed) /\ n = StartedAt(x)
      BY <2>1, Zenon
    <3>2. Min({k, l}) = (IF k <= l THEN k ELSE l)
      BY MaxOfTwo, Zenon
    <3>3. Max({m, n}) = (IF m <= n THEN n ELSE m)
      BY MaxOfTwo, Zenon
    <3>4. Min({k, l}) \in Nat /\ Min({k, l}) <= k
      <4>1. (IF k <= l THEN k ELSE l) \in Nat /\ (IF k <= l THEN k ELSE l) <= k
        OBVIOUS
      <4> QED BY <3>2, <4>1, Zenon
    <3>5. Max({m, n}) \in Nat
      <4>1. (IF m <= n THEN n ELSE m) \in Nat
        OBVIOUS
      <4> QED BY <3>3, <4>1, Zenon
    <3> QED BY <3>1, <3>4, <3>5, Zenon
  <2> QED BY <2>1, <2>2 DEF Overlap
<1>3. f \in [S -> Nat]
  BY <1>2
<1>4. PICK r \in S : \A q \in S :
           \/ f[r] < f[q]
           \/ f[r] = f[q] /\ (g[r] < g[q] \/ (g[r] = g[q] /\ r <= q))
  <2> HIDE DEF f, g
  <2> QED BY <1>1, <1>3, Lexical
<1>5. ASSUME NEW q \in S \ {r} PROVE Closer(seed, r, q)
  <2>1. EndAt(seed) \in Nat
    BY DEF Read, InDiary, EndAt
  <2>2. \/ Overlap(seed, r) > Overlap(seed, q)
        \/ Overlap(seed, r) = Overlap(seed, q) /\ (g[r] < g[q] \/ (g[r] = g[q] /\ r <= q))
    BY <1>2, <1>4, <2>1
  <2> QED BY <1>1, <2>2 DEF Closer, Before
<1> QED BY <1>5 DEF Closest

\* The relation is symmetric, and no run is a part of itself.
LEMMA PartsBoth ==
  ASSUME NEW a, NEW b, PartsOfOneRun(a, b)
  PROVE  PartsOfOneRun(b, a) /\ a # b
<1>1. {StartedAt(a), StartedAt(b)} = {StartedAt(b), StartedAt(a)}
      /\ {EndAt(a), EndAt(b)} = {EndAt(b), EndAt(a)}
  OBVIOUS
<1>2. StationIds(b) \cap StationIds(a) = {}
  BY DEF PartsOfOneRun
<1>3. a # b
  BY DEF PartsOfOneRun
<1> QED BY <1>1, <1>2, <1>3 DEF PartsOfOneRun, NamesMatch

\* A group has its seed and is of runs in no group yet.
LEMMA GroupIs ==
  ASSUME Read, NEW rest \in SUBSET InDiary, NEW seed \in rest
  PROVE  /\ PartsOfEachOther(Group(seed, rest))
         /\ seed \in Group(seed, rest) /\ Group(seed, rest) \subseteq rest
<1> DEFINE D == SUBSET InDiary
           stop == {M \in D : Candidates(rest, M) = {}}
           more(M) == M \cup {Closest(seed, Candidates(rest, M))}
           next == [M \in D |-> IF M \in stop THEN M ELSE more(M)]
           base == [M \in D |-> M]
           add == [M \in D |-> {}]
           body(f, M) == IF Candidates(rest, M) = {} THEN M ELSE f[more(M)]
           Fit(M) == PartsOfEachOther(M) /\ seed \in M /\ M \subseteq rest
<1>1. ASSUME NEW M \in D, M \notin stop
      PROVE  Closest(seed, Candidates(rest, M)) \in Candidates(rest, M)
  <2>1. Candidates(rest, M) \in SUBSET InDiary /\ Candidates(rest, M) # {}
    BY <1>1 DEF Candidates
  <2> QED BY <2>1, ClosestIs
<1>2. next \in [D -> D]
  BY <1>1 DEF Candidates
<1>3. Grows(InDiary, stop, next)
  BY <1>1 DEF Candidates, Grows
<1>6. HasFunction(D, stop, next, base, add)
  <2>1. IsFiniteSet(InDiary)
    BY DEF Read
  <2> HIDE DEF stop, next, base, add
  <2> QED BY <1>2, <1>3, <2>1, SubsetRecursion
<1>7. \E f : f = [M \in D |-> body(f, M)]
  <2>1. PICK f : f = [M \in D |-> Step(stop, next, base, add, f, M)]
    BY <1>6 DEF HasFunction
  <2> DEFINE c(M) == Step(stop, next, base, add, f, M)
  <2>2. \A M \in D : c(M) = body(f, M)
    BY DEF Step
  <2>3. [M \in D |-> c(M)] = [M \in D |-> body(f, M)]
    <3> HIDE DEF body, D, c
    <3> QED BY <2>2, Zenon
  <2> QED BY <2>1, <2>3
<1> DEFINE Grown == CHOOSE f : f = [M \in D |-> body(f, M)]
<1>8. Grown = [M \in D |-> body(Grown, M)]
  BY <1>7
<1>9. Group(seed, rest) = Grown[{seed}]
  BY DEF Group
<1>10. \A M \in D : Grown[M] = body(Grown, M)
  <2> HIDE DEF Grown, body
  <2> QED BY <1>8
<1> DEFINE Bad == {M \in D : Fit(M) /\ ~Fit(Grown[M])}
<1>11. ASSUME NEW M \in Bad
       PROVE  \E N \in Bad : M \subseteq N /\ M # N
  <2> HIDE DEF Grown
  <2>1. Fit(M) /\ ~Fit(Grown[M])
    OBVIOUS
  <2>2. M \notin stop
    <3>1. Grown[M] = body(Grown, M)
      BY <1>10
    <3> QED BY <2>1, <3>1
  <2> DEFINE r == Closest(seed, Candidates(rest, M))
  <2>3. r \in rest \ M /\ Joins(M, r)
    BY <1>1, <2>2 DEF Candidates
  <2> HIDE DEF r
  <2>4. next[M] = M \cup {r} /\ more(M) = M \cup {r}
    BY <2>2 DEF r
  <2>5. Fit(M \cup {r})
    <3>1. ASSUME NEW a \in M \cup {r}, NEW b \in M \cup {r}, a # b
          PROVE  PartsOfOneRun(a, b)
      <4>1. CASE a \in M /\ b \in M
        BY <2>1, <3>1, <4>1 DEF PartsOfEachOther
      <4>2. CASE a \in M /\ b = r
        BY <2>3, <4>2 DEF Joins
      <4>3. CASE a = r /\ b \in M
        <5>1. PartsOfOneRun(b, a)
          BY <2>3, <4>3 DEF Joins
        <5> QED BY <5>1, PartsBoth
      <4> QED BY <3>1, <4>1, <4>2, <4>3
    <3>2. M \cup {r} \subseteq InDiary /\ seed \in M \cup {r} /\ M \cup {r} \subseteq rest
      BY <2>1, <2>3
    <3> QED BY <3>1, <3>2 DEF PartsOfEachOther
  <2>6. Grown[M] = Grown[M \cup {r}]
    BY <1>10, <2>2, <2>4
  <2>7. M \cup {r} \in Bad
    BY <2>1, <2>3, <2>5, <2>6
  <2> QED BY <2>3, <2>7
<1>12. Bad = {}
  <2>1. Bad \in SUBSET D /\ IsFiniteSet(InDiary)
    BY DEF Read
  <2>2. NoLargest(Bad)
    BY <1>11 DEF NoLargest
  <2> HIDE DEF Bad
  <2> QED BY <2>1, <2>2, NoSubset
<1>13. Fit({seed})
  BY DEF PartsOfEachOther
<1>14. {seed} \notin Bad
  BY <1>12
<1> QED
  <2> HIDE DEF Grown
  <2> QED BY <1>9, <1>13, <1>14

\* Non-empty sets that cover M and do not meet.
Partition(G, M) ==
  /\ UNION G = M /\ {} \notin G
  /\ \A p \in G : \A q \in G : p # q => p \cap q = {}

\* However the runs overlap, join_split_runs puts each run of the diary into
\* exactly one joined run, and any two parts of a joined run are each other's.
THEOREM JoinedBelongTogether ==
  ASSUME Read
  PROVE  Partition(JoinedRuns, InDiary) /\ \A parts \in JoinedRuns : PartsOfEachOther(parts)
<1> DEFINE D == SUBSET InDiary
           stop == {{}}
           group(M) == Group(Earliest(M), M)
           next == [M \in D |-> IF M = {} THEN M ELSE M \ group(M)]
           base == [M \in D |-> {}]
           add == [M \in D |-> {group(M)}]
           body(f, M) == IF M = {} THEN {} ELSE {group(M)} \cup f[M \ group(M)]
           Fit(G, M) == Partition(G, M) /\ \A parts \in G : PartsOfEachOther(parts)
<1>1. ASSUME NEW M \in D, M # {}
      PROVE  /\ PartsOfEachOther(group(M)) /\ group(M) \subseteq M
             /\ \E c \in M : c \in group(M)
  <2>1. Earliest(M) \in M
    BY <1>1, EarliestIs
  <2> QED BY <2>1, GroupIs
<1>2. next \in [D -> D]
  BY DEF D
<1>3. Shrinks(InDiary, stop, next)
  <2> SUFFICES ASSUME NEW M \in D \ stop PROVE next[M] \subseteq M /\ next[M] # M
    BY DEF Shrinks
  <2>1. PICK c \in M : c \in group(M)
    BY <1>1
  <2>2. next[M] = M \ group(M)
    OBVIOUS
  <2> QED BY <2>1, <2>2
<1>6. HasFunction(D, stop, next, base, add)
  <2>1. IsFiniteSet(InDiary)
    BY DEF Read
  <2> HIDE DEF stop, next, base, add
  <2> QED BY <1>2, <1>3, <2>1, SubsetRecursion
<1>7. \E f : f = [M \in D |-> body(f, M)]
  <2>1. PICK f : f = [M \in D |-> Step(stop, next, base, add, f, M)]
    BY <1>6 DEF HasFunction
  <2> DEFINE c(M) == Step(stop, next, base, add, f, M)
  <2>2. \A M \in D : c(M) = body(f, M)
    BY DEF Step
  <2>3. [M \in D |-> c(M)] = [M \in D |-> body(f, M)]
    <3> HIDE DEF body, D, c
    <3> QED BY <2>2, Zenon
  <2> QED BY <2>1, <2>3
<1> DEFINE Groups == CHOOSE f : f = [M \in D |-> body(f, M)]
<1>8. Groups = [M \in D |-> body(Groups, M)]
  BY <1>7
<1>9. JoinedRuns = Groups[InDiary]
  BY DEF JoinedRuns
<1>10. \A M \in D : Groups[M] = body(Groups, M)
  <2> HIDE DEF Groups, body
  <2> QED BY <1>8
<1> DEFINE Bad == {M \in D : ~Fit(Groups[M], M)}
<1>11. ASSUME NEW M \in Bad
       PROVE  \E N \in Bad : N \subseteq M /\ M # N
  <2> HIDE DEF Groups
  <2>1. Groups[M] = body(Groups, M) /\ ~Fit(Groups[M], M)
    BY <1>10
  <2>2. M # {}
    BY <2>1 DEF Partition
  <2>3. Groups[M] = {group(M)} \cup Groups[M \ group(M)]
    BY <2>1, <2>2
  <2>4. PartsOfEachOther(group(M)) /\ group(M) \subseteq M /\ group(M) # {}
    BY <1>1, <2>2
  <2>5. M \ group(M) \in Bad
    <3> SUFFICES ASSUME Fit(Groups[M \ group(M)], M \ group(M)) PROVE FALSE
      OBVIOUS
    <3> HIDE DEF group
    <3>1. Partition(Groups[M], M)
      <4> DEFINE g == group(M)
                 G == Groups[M \ group(M)]
      <4>1. UNION G = M \ g /\ {} \notin G
        BY DEF Partition
      <4>2. \A p \in G : p \cap g = {}
        BY <4>1
      <4>3. \A p \in G : \A q \in G : p # q => p \cap q = {}
        BY DEF Partition
      <4>4. UNION Groups[M] = g \cup UNION G
        BY <2>3
      <4> HIDE DEF g, G
      <4>5. Groups[M] = {g} \cup G
        BY <2>3 DEF g, G
      <4> QED BY <2>4, <4>1, <4>2, <4>3, <4>4, <4>5 DEF Partition, g
    <3>2. \A parts \in Groups[M] : PartsOfEachOther(parts)
      BY <2>3, <2>4
    <3> QED BY <2>1, <3>1, <3>2
  <2>6. M \ group(M) # M
    BY <1>1, <2>2
  <2> QED BY <2>5, <2>6
<1>12. Bad = {}
  <2>1. Bad \in SUBSET D /\ IsFiniteSet(InDiary)
    BY DEF Read
  <2>2. NoSmallest(Bad)
    BY <1>11 DEF NoSmallest
  <2> HIDE DEF Bad
  <2> QED BY <2>1, <2>2, NoSubset
<1>13. InDiary \notin Bad
  BY <1>12
<1> QED
  <2> HIDE DEF Groups
  <2> QED BY <1>9, <1>13

-----------------------------------------------------------------------------
(* The inductive invariant.                                                *)

\* The lines of a run: those in its file and those still in its buffer.
Texts(b) == [i \in 1..Len(b) |-> b[i].line]
Lines(r) == file[r] \o Texts(buffer[r])

RunLines == [what : {"run_started", "run_finished"}, station : {0}, n : Nat, ok : BOOLEAN]
ChargerLines ==
  [what : {"station_spawned", "station_connected", "station_finished", "station_crashed"},
   station : Stations, n : Nat, ok : BOOLEAN]
AnyLine == RunLines \cup ChargerLines
Timed == [t : Nat, line : AnyLine]

Phases == {"off", "running", "cancelled", "finished", "interrupted", "killed"}
Told == {"ok", "failed", "crashed"}
Dialling == {"offline", "connected"}
Places == {"absent", "staggered", "dropped"} \cup Dialling \cup Told
Lives == [at : Places, attempt : Nat, connects : Nat]

LogTypeOK ==
  /\ now \in Nat
  /\ buffer \in [Runs -> Seq(Timed)]
  /\ file \in [Runs -> Seq(AnyLine)]
  /\ first \in [Runs -> Nat] /\ last \in [Runs -> Nat]
  /\ torn \in [Files -> BOOLEAN]
  /\ unreadable \in [Files -> Nat]
  /\ lost \in [Runs -> Nat]

RunTypeOK ==
  /\ phase \in [Runs -> Phases]
  /\ life \in [Runs -> [Stations -> Lives]]

\* Half a line at the end of a file has been counted.
TornIsUnreadable == \A f \in Files : torn[f] => unreadable[f] > 0

\* Where the charger of a line left one before it.
SpawnedFirst(L) ==
  \A i \in 1..Len(L) : L[i].station # 0 =>
    \E j \in 1..i : L[j].what = "station_spawned" /\ L[j].station = L[i].station

Spawned(L, s) ==
  \E j \in 1..Len(L) : L[j].what = "station_spawned" /\ L[j].station = s

IsOutcome(line, s) ==
  line.what \in {"station_finished", "station_crashed"} /\ line.station = s

\* The outcome a coroutine l of charger s has left in the lines.
OutcomeTold(L, s, l) ==
  IF l.at \in Told
  THEN \E i \in 1..Len(L) :
         /\ \A j \in 1..Len(L) : IsOutcome(L[j], s) <=> j = i
         /\ L[i].n = l.connects
         /\ L[i].ok <=> l.at = "ok"
         /\ L[i].what = "station_crashed" <=> l.at = "crashed"
  ELSE \A j \in 1..Len(L) : ~IsOutcome(L[j], s)

ConnectionLines(L, s) ==
  {j \in 1..Len(L) : L[j].what = "station_connected" /\ L[j].station = s}

ChargerTold(L, s, l) ==
  /\ l.at \in Dialling \cup Told => Spawned(L, s)
  /\ l.at \in {"absent", "staggered"} => l.connects = 0
  /\ OutcomeTold(L, s, l)
  /\ Cardinality(ConnectionLines(L, s)) <= l.connects

\* What the lines L of a run say, if none was lost.
Story(L, ph, lives) ==
  /\ SpawnedFirst(L)
  /\ ph # "killed" => \A s \in Stations : ChargerTold(L, s, lives[s])

\* What holds of a run whatever was lost.
Course(r) ==
  /\ phase[r] = "off" => file[r] = <<>>
  /\ phase[r] \notin {"running", "cancelled"} => buffer[r] = <<>>
  /\ phase[r] = "finished" => AllOver(r)
  /\ phase[r] \in {"running", "finished"} => \A s \in Stations : life[r][s].at # "dropped"
  /\ \A s \in Stations : life[r][s].at # "absent" => s \in Of(r)
  /\ phase[r] # "off" => \A s \in Of(r) : life[r][s].at # "absent"
  /\ \A line \in ToSet(Lines(r)) : line.what = "run_finished" =>
       phase[r] = "finished" /\ line.n = Cardinality(With(r, "ok"))

Launched == {r \in Runs : phase[r] # "off"}

FleetInv ==
  /\ LogTypeOK /\ RunTypeOK /\ TornIsUnreadable
  /\ IsFiniteSet(Launched)
  /\ \A r \in Runs : Course(r)
  /\ \A r \in Runs : Intact(r) => Story(Lines(r), phase[r], life[r])

-----------------------------------------------------------------------------
(* Lines as sequences.                                                     *)

LEMMA Associative ==
  ASSUME NEW u \in Seq(AnyLine), NEW v \in Seq(AnyLine), NEW w \in Seq(AnyLine)
  PROVE  u \o (v \o w) = (u \o v) \o w
OBVIOUS

LEMMA TimedParts ==
  ASSUME NEW x \in Timed
  PROVE  x.t \in Nat /\ x.line \in AnyLine /\ x = [t |-> x.t, line |-> x.line]
BY DEF Timed

LEMMA TextsOf ==
  ASSUME NEW a \in Seq(Timed), NEW b \in Seq(Timed)
  PROVE  /\ Texts(a) \in Seq(AnyLine) /\ Len(Texts(a)) = Len(a)
         /\ Texts(a \o b) = Texts(a) \o Texts(b)
<1>1. ASSUME NEW c \in Seq(Timed)
      PROVE  /\ Texts(c) \in Seq(AnyLine) /\ Len(Texts(c)) = Len(c)
             /\ \A i \in 1..Len(c) : Texts(c)[i] = c[i].line
  <2>1. ASSUME NEW i \in 1..Len(c) PROVE c[i].line \in AnyLine
    <3>1. c[i] \in Timed
      OBVIOUS
    <3> QED BY <3>1, TimedParts
  <2> QED BY <2>1 DEF Texts
<1>2. a \o b \in Seq(Timed) /\ Len(a \o b) = Len(a) + Len(b)
  OBVIOUS
<1>3. ASSUME NEW i \in 1..(Len(a) + Len(b))
      PROVE  Texts(a \o b)[i] = (Texts(a) \o Texts(b))[i]
  <2>1. (a \o b)[i] = IF i <= Len(a) THEN a[i] ELSE b[i - Len(a)]
    OBVIOUS
  <2>2. Texts(a \o b)[i] = (a \o b)[i].line
    BY <1>1, <1>2
  <2>3. (Texts(a) \o Texts(b))[i] =
          IF i <= Len(a) THEN Texts(a)[i] ELSE Texts(b)[i - Len(a)]
    BY <1>1
  <2> QED BY <1>1, <2>1, <2>2, <2>3
<1>4. Texts(a \o b) \in Seq(AnyLine) /\ Len(Texts(a \o b)) = Len(a) + Len(b)
  BY <1>1, <1>2
<1>5. Texts(a) \o Texts(b) \in Seq(AnyLine) /\ Len(Texts(a) \o Texts(b)) = Len(a) + Len(b)
  BY <1>1
<1>6. Texts(a \o b) = Texts(a) \o Texts(b)
  <2> DEFINE u == Texts(a \o b)
             v == Texts(a) \o Texts(b)
  <2>1. u \in Seq(AnyLine) /\ v \in Seq(AnyLine)
    BY <1>4, <1>5
  <2>2. Len(u) = Len(v)
    BY <1>4, <1>5
  <2>3. \A i \in 1..Len(u) : u[i] = v[i]
    BY <1>3, <1>4
  <2> HIDE DEF u, v
  <2>4. u = v
    BY <2>1, <2>2, <2>3, SeqEqual, Zenon
  <2> QED BY <2>4 DEF u, v
<1> QED BY <1>1, <1>6

LEMMA ToSetOf ==
  ASSUME NEW S, NEW a \in Seq(S), NEW b \in Seq(S)
  PROVE  /\ ToSet(a) \subseteq S
         /\ ToSet(a \o b) = ToSet(a) \cup ToSet(b)
         /\ a # <<>> => ToSet(Tail(a)) \subseteq ToSet(a)
<1>1. ToSet(a) \subseteq S
  BY DEF ToSet
<1>2. \A i \in 1..Len(a) : (a \o b)[i] = a[i]
  OBVIOUS
<1>3. \A i \in 1..Len(b) : (a \o b)[Len(a) + i] = b[i]
  OBVIOUS
<1>4. \A i \in 1..(Len(a) + Len(b)) : i > Len(a) => (a \o b)[i] = b[i - Len(a)]
  OBVIOUS
<1>5. ToSet(a \o b) = ToSet(a) \cup ToSet(b)
  <2>1. ASSUME NEW x \in ToSet(a) PROVE x \in ToSet(a \o b)
    <3>1. PICK i \in 1..Len(a) : x = a[i]
      BY DEF ToSet
    <3>2. i \in 1..Len(a \o b) /\ (a \o b)[i] = x
      BY <1>2, <3>1
    <3> QED BY <3>2 DEF ToSet
  <2>2. ASSUME NEW x \in ToSet(b) PROVE x \in ToSet(a \o b)
    <3>1. PICK i \in 1..Len(b) : x = b[i]
      BY DEF ToSet
    <3>2. Len(a) + i \in 1..Len(a \o b) /\ (a \o b)[Len(a) + i] = x
      BY <1>3, <3>1
    <3> QED BY <3>2 DEF ToSet
  <2>3. ASSUME NEW x \in ToSet(a \o b) PROVE x \in ToSet(a) \cup ToSet(b)
    <3>1. PICK i \in 1..(Len(a) + Len(b)) : x = (a \o b)[i]
      BY DEF ToSet
    <3>2. CASE i <= Len(a)
      <4>1. i \in 1..Len(a) /\ x = a[i]
        BY <1>2, <3>1, <3>2
      <4> QED BY <4>1 DEF ToSet
    <3>3. CASE i > Len(a)
      <4>1. i - Len(a) \in 1..Len(b) /\ x = b[i - Len(a)]
        BY <1>4, <3>1, <3>3
      <4> QED BY <4>1 DEF ToSet
    <3> QED BY <3>2, <3>3
  <2> QED BY <2>1, <2>2, <2>3
<1>6. ASSUME a # <<>>, NEW x \in ToSet(Tail(a)) PROVE x \in ToSet(a)
  <2>1. PICK i \in 1..(Len(a) - 1) : x = Tail(a)[i]
    BY <1>6 DEF ToSet
  <2>2. i + 1 \in 1..Len(a) /\ x = a[i + 1]
    BY <1>6, <2>1
  <2> QED BY <2>2 DEF ToSet
<1> QED BY <1>1, <1>5, <1>6

-----------------------------------------------------------------------------
(* What a step does to the lines of a run.                                 *)

\* Some lines of the buffer and after it are appended to the file of the run.
LEMMA WrittenIs ==
  ASSUME LogTypeOK, NEW r \in Runs, NEW f \in Files, NEW lines \in Seq(Timed),
         Written(r, f, lines)
  PROVE  \E new \in Seq(Timed) :
           /\ new = IF torn[f] /\ lines # <<>> THEN Tail(lines) ELSE lines
           /\ ToSet(Texts(new)) \subseteq ToSet(Texts(lines))
           /\ file' = [file EXCEPT ![r] = @ \o Texts(new)]
           /\ file' \in [Runs -> Seq(AnyLine)]
           /\ first' \in [Runs -> Nat] /\ last' \in [Runs -> Nat]
<1> DEFINE new == IF torn[f] /\ lines # <<>> THEN Tail(lines) ELSE lines
<1>1. new \in Seq(Timed)
  OBVIOUS
<1>2. ToSet(Texts(new)) \subseteq ToSet(Texts(lines))
  <2>1. CASE new = lines
    BY <2>1
  <2>2. CASE lines # <<>> /\ new = Tail(lines)
    <3>1. lines = <<Head(lines)>> \o Tail(lines)
          /\ <<Head(lines)>> \in Seq(Timed) /\ Tail(lines) \in Seq(Timed)
      BY <2>2
    <3>2. Texts(lines) = Texts(<<Head(lines)>>) \o Texts(Tail(lines))
      <4> DEFINE x == <<Head(lines)>>
                 y == Tail(lines)
      <4>1. x \in Seq(Timed) /\ y \in Seq(Timed) /\ lines = x \o y
        BY <3>1
      <4> HIDE DEF x, y
      <4>2. Texts(x \o y) = Texts(x) \o Texts(y)
        BY <4>1, TextsOf
      <4> QED BY <4>1, <4>2 DEF x, y
    <3>3. Texts(<<Head(lines)>>) \in Seq(AnyLine) /\ Texts(Tail(lines)) \in Seq(AnyLine)
      BY <3>1, TextsOf
    <3>4. ToSet(Texts(Tail(lines))) \subseteq
            ToSet(Texts(<<Head(lines)>>) \o Texts(Tail(lines)))
      BY <3>3, ToSetOf
    <3> QED BY <2>2, <3>2, <3>4
  <2> QED BY <2>1, <2>2
<1>3. file' = [file EXCEPT ![r] = @ \o Texts(new)]
  BY DEF Written, Texts
<1> HIDE DEF new
<1>4. file' \in [Runs -> Seq(AnyLine)]
  <2>1. Texts(new) \in Seq(AnyLine) /\ file[r] \in Seq(AnyLine)
    BY <1>1, TextsOf DEF LogTypeOK
  <2>2. file[r] \o Texts(new) \in Seq(AnyLine)
    BY <2>1
  <2> QED BY <1>3, <2>2 DEF LogTypeOK
<1>5. new # <<>> => new[1] \in Timed /\ new[Len(new)] \in Timed
  BY <1>1
<1>6. new # <<>> => new[1].t \in Nat /\ new[Len(new)].t \in Nat
  BY <1>5, TimedParts
<1>7. /\ first' = [first EXCEPT ![r] = IF @ = 0 /\ new # <<>> THEN new[1].t ELSE @]
      /\ last' = [last EXCEPT ![r] = IF new # <<>> THEN new[Len(new)].t ELSE @]
  BY DEF Written, new
<1>8. first' \in [Runs -> Nat] /\ last' \in [Runs -> Nat]
  BY <1>6, <1>7 DEF LogTypeOK
<1> QED BY <1>1, <1>2, <1>3, <1>4, <1>8 DEF new

\* What is left as it was by a step of run r.
OthersKept(r) ==
  /\ \A q \in Runs \ {r} : file'[q] = file[q] /\ buffer'[q] = buffer[q]
  /\ \A q \in Runs : Intact(q)' => Intact(q)

\* Lines come to those of r (none, if more is empty); unless one is lost, all do.
Recorded(r, more) ==
  /\ LogTypeOK' /\ TornIsUnreadable' /\ OthersKept(r)
  /\ ToSet(Lines(r)') \subseteq ToSet(Lines(r)) \cup ToSet(more)
  /\ Intact(r)' => Lines(r)' = Lines(r) \o more

LEMMA IntactIs ==
  ASSUME LogTypeOK, TornIsUnreadable, NEW r \in Runs
  PROVE  /\ Gen[r] \in Files /\ torn[Gen[r]] \in BOOLEAN
         /\ Intact(r) => ~torn[Gen[r]]
         /\ lost[r] \in Nat /\ unreadable[Gen[r]] \in Nat
BY DiaryAssumption DEF LogTypeOK, TornIsUnreadable, Intact

LEMMA FlushedIs ==
  ASSUME LogTypeOK, TornIsUnreadable, NEW r \in Runs, NEW lines \in Seq(Timed),
         Flushed(r, Gen[r], lines), now' \in Nat, UNCHANGED unreadable,
         lost' \in [Runs -> Nat], \A q \in Runs : lost[q] <= lost'[q]
  PROVE  Recorded(r, Texts(lines)) /\ buffer'[r] = <<>>
<1> DEFINE f == Gen[r]
<1>0. f \in Files
  BY IntactIs
<1> HIDE DEF f
<1>1. buffer[r] \in Seq(Timed) /\ file[r] \in Seq(AnyLine)
  BY DEF LogTypeOK
<1>2. PICK all \in Seq(Timed) : all = buffer[r] \o lines
  <2>1. ASSUME NEW b \in Seq(Timed) PROVE b \o lines \in Seq(Timed)
    OBVIOUS
  <2>2. buffer[r] \o lines \in Seq(Timed)
    BY <1>1, <2>1
  <2> QED BY <2>2
<1>3. Written(r, f, all) /\ buffer' = [buffer EXCEPT ![r] = <<>>]
      /\ torn' = [torn EXCEPT ![f] = @ /\ all = <<>>]
  BY <1>2 DEF Flushed, f
<1>4. PICK new \in Seq(Timed) :
        /\ new = IF torn[f] /\ all # <<>> THEN Tail(all) ELSE all
        /\ ToSet(Texts(new)) \subseteq ToSet(Texts(all))
        /\ file' = [file EXCEPT ![r] = @ \o Texts(new)]
        /\ file' \in [Runs -> Seq(AnyLine)]
        /\ first' \in [Runs -> Nat] /\ last' \in [Runs -> Nat]
  BY <1>0, <1>3, WrittenIs
<1>5. buffer' \in [Runs -> Seq(Timed)] /\ buffer'[r] = <<>>
  BY <1>3 DEF LogTypeOK
<1>6. torn' \in [Files -> BOOLEAN] /\ \A g \in Files : torn'[g] => torn[g]
  BY <1>0, <1>3 DEF LogTypeOK
<1>7. LogTypeOK' /\ TornIsUnreadable'
  BY <1>4, <1>5, <1>6 DEF LogTypeOK, TornIsUnreadable
<1>8. Texts(all) = Texts(buffer[r]) \o Texts(lines)
      /\ Texts(buffer[r]) \in Seq(AnyLine) /\ Texts(lines) \in Seq(AnyLine)
      /\ Texts(new) \in Seq(AnyLine)
  <2>1. PICK b \in Seq(Timed) : b = buffer[r]
    BY <1>1
  <2> QED BY <1>2, <2>1, TextsOf
<1>9. Lines(r)' = file[r] \o Texts(new)
  <2>1. Texts(<<>>) = <<>>
    BY DEF Texts
  <2>2. Lines(r)' = file'[r] \o Texts(buffer'[r])
    BY DEF Lines, Texts
  <2>3. file'[r] = file[r] \o Texts(new)
    BY <1>4 DEF LogTypeOK
  <2>4. ASSUME NEW x \in Seq(AnyLine), NEW y \in Seq(AnyLine)
        PROVE  (x \o y) \o <<>> = x \o y
    OBVIOUS
  <2>5. (file[r] \o Texts(new)) \o <<>> = file[r] \o Texts(new)
    BY <1>1, <1>8, <2>4
  <2> QED BY <1>5, <2>1, <2>2, <2>3, <2>5
<1>10. ToSet(Lines(r)') \subseteq ToSet(Lines(r)) \cup ToSet(Texts(lines))
  <2>1. ToSet(Lines(r)') = ToSet(file[r]) \cup ToSet(Texts(new))
    BY <1>1, <1>8, <1>9, ToSetOf
  <2>2. ToSet(Texts(all)) = ToSet(Texts(buffer[r])) \cup ToSet(Texts(lines))
    BY <1>8, ToSetOf
  <2>3. ToSet(Lines(r)) = ToSet(file[r]) \cup ToSet(Texts(buffer[r]))
    BY <1>1, <1>8, ToSetOf DEF Lines
  <2> QED BY <1>4, <2>1, <2>2, <2>3
<1>11. \A q \in Runs : Intact(q)' => Intact(q)
  <2> TAKE q \in Runs
  <2>1. lost[q] \in Nat /\ lost'[q] \in Nat /\ lost[q] <= lost'[q]
    BY DEF LogTypeOK
  <2> QED BY <2>1 DEF Intact
<1>12. ASSUME Intact(r)' PROVE Lines(r)' = Lines(r) \o Texts(lines)
  <2>1. ~torn[f]
    BY <1>11, <1>12, IntactIs DEF f
  <2>2. new = all
    BY <1>4, <2>1
  <2> DEFINE a == file[r]
             b == Texts(buffer[r])
             c == Texts(lines)
  <2>3. a \in Seq(AnyLine) /\ b \in Seq(AnyLine) /\ c \in Seq(AnyLine)
    BY <1>1, <1>8
  <2>4. Lines(r)' = a \o (b \o c)
    BY <1>8, <1>9, <2>2
  <2>5. Lines(r) = a \o b
    BY DEF Lines
  <2> HIDE DEF a, b, c
  <2>6. a \o (b \o c) = (a \o b) \o c
    BY <2>3, Associative
  <2> QED BY <2>4, <2>5, <2>6 DEF c
<1>13. OthersKept(r)
  BY <1>3, <1>4, <1>11 DEF OthersKept, LogTypeOK
<1> QED BY <1>5, <1>7, <1>10, <1>12, <1>13 DEF Recorded

LEMMA StampedIs ==
  ASSUME NEW line \in AnyLine, now' \in Nat
  PROVE  /\ Stamped(line) \in Timed /\ <<Stamped(line)>> \in Seq(Timed)
         /\ Texts(<<Stamped(line)>>) = <<line>> /\ <<line>> \in Seq(AnyLine)
<1>1. Stamped(line) \in Timed
  BY DEF Stamped, Timed
<1>2. Texts(<<Stamped(line)>>) = <<line>>
  BY DEF Texts, Stamped
<1> QED BY <1>1, <1>2

\* Nothing reaches the file; more is appended to the buffer.
LEMMA BufferedIs ==
  ASSUME LogTypeOK, TornIsUnreadable, NEW r \in Runs, NEW x \in Timed, NEW line \in AnyLine, x.line = line,
         now' \in Nat,
         buffer' = [buffer EXCEPT ![r] = Append(@, x)],
         UNCHANGED <<file, first, last, torn, unreadable, lost>>
  PROVE  Recorded(r, <<line>>)
<1>1. buffer[r] \in Seq(Timed) /\ file[r] \in Seq(AnyLine) 
  BY DEF LogTypeOK
<1>2. PICK b \in Seq(Timed) : b = buffer[r]
  BY <1>1
<1>3. buffer'[r] = b \o <<x>> /\ <<x>> \in Seq(Timed) /\ b \o <<x>> \in Seq(Timed)
  BY <1>2 DEF LogTypeOK
<1>4. LogTypeOK' /\ TornIsUnreadable'
  <2>1. buffer' \in [Runs -> Seq(Timed)]
    BY <1>2, <1>3 DEF LogTypeOK
  <2> QED BY <2>1 DEF LogTypeOK, TornIsUnreadable
<1>5. OthersKept(r)
  BY DEF OthersKept, Intact, LogTypeOK
<1>6. /\ Texts(b \o <<x>>) = Texts(b) \o <<line>>
      /\ Texts(b) \in Seq(AnyLine) /\ <<line>> \in Seq(AnyLine)
  <2>1. Texts(<<x>>) = <<line>>
    BY DEF Texts
  <2>2. Texts(b \o <<x>>) = Texts(b) \o Texts(<<x>>) /\ Texts(b) \in Seq(AnyLine)
    BY <1>3, TextsOf
  <2>3. <<line>> \in Seq(AnyLine)
    OBVIOUS
  <2>4. Texts(b \o <<x>>) = Texts(b) \o <<line>>
    BY <2>1, <2>2, Zenon
  <2> QED BY <2>2, <2>3, <2>4
<1>7. Lines(r)' = Lines(r) \o <<line>>
  <2>1. Lines(r)' = file[r] \o Texts(b \o <<x>>)
    <3>1. Lines(r)' = file'[r] \o Texts(buffer'[r])
      BY DEF Lines, Texts
    <3> QED BY <1>3, <3>1
  <2>2. Lines(r) = file[r] \o Texts(b)
    BY <1>2 DEF Lines
  <2>3. PICK u \in Seq(AnyLine), v \in Seq(AnyLine), w \in Seq(AnyLine) :
          u = file[r] /\ v = Texts(b) /\ w = <<line>>
    BY <1>1, <1>6, Zenon
  <2>4. u \o (v \o w) = (u \o v) \o w
    BY Associative
  <2> QED BY <1>6, <2>1, <2>2, <2>3, <2>4, Zenon
<1>8. ToSet(Lines(r)') = ToSet(Lines(r)) \cup ToSet(<<line>>)
  <2>1. Lines(r) \in Seq(AnyLine)
    <3>1. file[r] \o Texts(b) \in Seq(AnyLine)
      BY <1>1, <1>6, ConcatProperties, Zenon
    <3> QED BY <1>2, <3>1 DEF Lines
  <2>2. ToSet(Lines(r) \o <<line>>) = ToSet(Lines(r)) \cup ToSet(<<line>>)
    <3>1. PICK L \in Seq(AnyLine), m \in Seq(AnyLine) : L = Lines(r) /\ m = <<line>>
      BY <1>6, <2>1, Zenon
    <3>2. ToSet(L \o m) = ToSet(L) \cup ToSet(m)
      BY ToSetOf, Zenon
    <3> QED BY <3>1, <3>2, Zenon
  <2>3. ToSet(Lines(r)') = ToSet(Lines(r) \o <<line>>)
    BY <1>7
  <2> QED BY <2>2, <2>3
<1> QED BY <1>4, <1>5, <1>7, <1>8 DEF Recorded

\* A line that is lost: the run is not intact any more.
LEMMA LostIs ==
  ASSUME LogTypeOK, NEW r \in Runs, Recorded(r, <<>>), lost'[r] = lost[r] + 1,
         NEW more
  PROVE  Recorded(r, more)
<1>1. lost[r] \in Nat
  BY DEF LogTypeOK
<1>2. ~(Intact(r)')
  BY <1>1 DEF Intact
<1>3. ToSet(<<>>) = {}
  BY DEF ToSet
<1> QED BY <1>2, <1>3 DEF Recorded

LEMMA UnchangedIs ==
  ASSUME LogTypeOK, TornIsUnreadable, NEW r \in Runs, now' \in Nat,
         UNCHANGED <<buffer, file, first, last, torn, unreadable>>,
         lost' \in [Runs -> Nat], \A q \in Runs : lost[q] <= lost'[q]
  PROVE  Recorded(r, <<>>)
<1>1. LogTypeOK' /\ TornIsUnreadable'
  BY DEF LogTypeOK, TornIsUnreadable
<1>2. \A q \in Runs : Intact(q)' => Intact(q)
  <2> TAKE q \in Runs
  <2>1. lost[q] \in Nat /\ lost'[q] \in Nat /\ lost[q] <= lost'[q]
    BY DEF LogTypeOK
  <2> QED BY <2>1 DEF Intact
<1>3. Lines(r)' = Lines(r)
  BY DEF Lines, Texts
<1>4. Lines(r) \o <<>> = Lines(r)
  <2>1. buffer[r] \in Seq(Timed) /\ file[r] \in Seq(AnyLine)
    BY DEF LogTypeOK
  <2>2. Texts(buffer[r]) \in Seq(AnyLine)
    BY <2>1, TextsOf
  <2>3. ASSUME NEW x \in Seq(AnyLine), NEW y \in Seq(AnyLine)
        PROVE  (x \o y) \o <<>> = x \o y
    OBVIOUS
  <2> QED BY <2>1, <2>2, <2>3 DEF Lines
<1> QED BY <1>1, <1>2, <1>3, <1>4 DEF Recorded, OthersKept

LEMMA EmitIs ==
  ASSUME LogTypeOK, TornIsUnreadable, NEW r \in Runs, NEW line \in AnyLine, NEW n,
         Emit(r, Gen[r], line, n), now' \in Nat
  PROVE  Recorded(r, <<line>>)
<1>1. PICK x \in Timed : x = Stamped(line) /\ x.line = line
  BY StampedIs DEF Stamped
<1>2. CASE buffer' = [buffer EXCEPT ![r] = Append(@, Stamped(line))]
           /\ UNCHANGED <<file, first, last, torn, lost>>
  <2>1. buffer' = [buffer EXCEPT ![r] = Append(@, x)]
    BY <1>1, <1>2
  <2>2. UNCHANGED <<file, first, last, torn, unreadable, lost>>
    BY <1>2 DEF Emit
  <2> QED BY <1>1, <2>1, <2>2, BufferedIs
<1>3. CASE Flushed(r, Gen[r], <<Stamped(line)>>) /\ UNCHANGED lost
  <2>1. PICK xs \in Seq(Timed) : xs = <<x>>
    <3>1. <<x>> \in Seq(Timed)
      OBVIOUS
    <3> QED BY <3>1
  <2>2. Flushed(r, Gen[r], xs) /\ UNCHANGED unreadable
    BY <1>1, <1>3, <2>1 DEF Emit
  <2>3. lost' \in [Runs -> Nat] /\ \A q \in Runs : lost[q] <= lost'[q]
    BY <1>3 DEF LogTypeOK
  <2>4. Recorded(r, Texts(xs))
    BY <2>2, <2>3, FlushedIs
  <2>5. Texts(xs) = <<line>>
    BY <1>1, <2>1, StampedIs
  <2> QED BY <2>4, <2>5
<1>4. CASE lost' = [lost EXCEPT ![r] = @ + 1] /\ UNCHANGED <<buffer, file, first, last, torn>>
  <2>1. /\ lost' \in [Runs -> Nat] /\ lost'[r] = lost[r] + 1
        /\ \A q \in Runs : lost[q] <= lost'[q]
    BY <1>4 DEF LogTypeOK
  <2>2. UNCHANGED <<buffer, file, first, last, torn, unreadable>>
    BY <1>4 DEF Emit
  <2>3. Recorded(r, <<>>)
    BY <2>1, <2>2, UnchangedIs
  <2> QED BY <2>1, <2>3, LostIs
<1> QED BY <1>2, <1>3, <1>4 DEF Emit

LEMMA EmitAndSyncIs ==
  ASSUME LogTypeOK, TornIsUnreadable, NEW r \in Runs, NEW line \in AnyLine,
         EmitAndSync(r, Gen[r], line), now' \in Nat
  PROVE  Recorded(r, <<line>>) /\ buffer'[r] = <<>>
<1>1. PICK x \in Timed : x = Stamped(line)
  BY StampedIs
<1>2. CASE Flushed(r, Gen[r], <<Stamped(line)>>) /\ UNCHANGED lost
  <2>1. PICK xs \in Seq(Timed) : xs = <<x>>
    <3>1. <<x>> \in Seq(Timed)
      OBVIOUS
    <3> QED BY <3>1
  <2>2. Flushed(r, Gen[r], xs) /\ UNCHANGED unreadable
    BY <1>1, <1>2, <2>1 DEF EmitAndSync
  <2>3. lost' \in [Runs -> Nat] /\ \A q \in Runs : lost[q] <= lost'[q]
    BY <1>2 DEF LogTypeOK
  <2>4. Recorded(r, Texts(xs)) /\ buffer'[r] = <<>>
    BY <2>2, <2>3, FlushedIs
  <2>5. Texts(xs) = <<line>>
    BY <1>1, <2>1, StampedIs
  <2> QED BY <2>4, <2>5
<1>3. CASE lost' = [lost EXCEPT ![r] = @ + 1] /\ Flushed(r, Gen[r], <<>>)
  <2>1. /\ lost' \in [Runs -> Nat] /\ lost'[r] = lost[r] + 1
        /\ \A q \in Runs : lost[q] <= lost'[q]
    BY <1>3 DEF LogTypeOK
  <2>2. UNCHANGED unreadable /\ <<>> \in Seq(Timed)
    BY DEF EmitAndSync
  <2>3. Recorded(r, Texts(<<>>)) /\ buffer'[r] = <<>>
    BY <1>3, <2>1, <2>2, FlushedIs
  <2>4. Texts(<<>>) = <<>>
    BY DEF Texts
  <2> QED BY <2>1, <2>3, <2>4, LostIs
<1> QED BY <1>2, <1>3 DEF EmitAndSync

LEMMA CloseIs ==
  ASSUME LogTypeOK, TornIsUnreadable, NEW r \in Runs, Close(r, Gen[r]), now' \in Nat
  PROVE  Recorded(r, <<>>) /\ buffer'[r] = <<>>
<1>1. Flushed(r, Gen[r], <<>>) /\ UNCHANGED <<unreadable, lost>> /\ <<>> \in Seq(Timed)
  BY DEF Close
<1>2. lost' \in [Runs -> Nat] /\ \A q \in Runs : lost[q] <= lost'[q]
  BY <1>1 DEF LogTypeOK
<1>3. Recorded(r, Texts(<<>>)) /\ buffer'[r] = <<>>
  BY <1>1, <1>2, FlushedIs
<1>4. Texts(<<>>) = <<>>
  BY DEF Texts
<1> QED BY <1>3, <1>4

\* The last lines of r are lost.
Cut(r) ==
  /\ LogTypeOK' /\ TornIsUnreadable' /\ OthersKept(r)
  /\ ToSet(Lines(r)') \subseteq ToSet(Lines(r))
  /\ Intact(r)' => \E rest \in Seq(AnyLine) : Lines(r) = Lines(r)' \o rest

LEMMA InTwo ==
  ASSUME NEW S, NEW b \in Seq(S), NEW k \in 0..Len(b)
  PROVE  /\ SubSeq(b, 1, k) \in Seq(S) /\ SubSeq(b, k + 1, Len(b)) \in Seq(S)
         /\ b = SubSeq(b, 1, k) \o SubSeq(b, k + 1, Len(b))
<1> DEFINE u == SubSeq(b, 1, k)
           v == SubSeq(b, k + 1, Len(b))
<1>1. u \in Seq(S) /\ Len(u) = k /\ \A i \in 1..k : u[i] = b[i]
  OBVIOUS
<1>2. v \in Seq(S) /\ Len(v) = Len(b) - k /\ \A i \in 1..(Len(b) - k) : v[i] = b[i + k]
  OBVIOUS
<1> HIDE DEF u, v
<1>3. u \o v \in Seq(S) /\ Len(u \o v) = Len(b)
  <2>1. u \o v \in Seq(S) /\ Len(u \o v) = Len(u) + Len(v)
    BY <1>1, <1>2, ConcatProperties, Zenon
  <2>2. Len(u) + Len(v) = Len(b)
    BY <1>1, <1>2
  <2> QED BY <2>1, <2>2, Zenon
<1>4. ASSUME NEW i \in 1..Len(b) PROVE (u \o v)[i] = b[i]
  <2>1. CASE i <= k
    BY <1>1, <1>2, <2>1
  <2>2. CASE i > k
    <3>1. i - k \in 1..(Len(b) - k) /\ (i - k) + k = i
      BY <2>2
    <3>2. (u \o v)[i] = v[i - k]
      BY <1>1, <1>2, <2>2
    <3>3. PICK j \in 1..(Len(b) - k) : j = i - k /\ j + k = i
      BY <3>1
    <3>4. v[j] = b[j + k]
      BY <1>2
    <3> QED BY <3>2, <3>3, <3>4
  <2>3. i <= k \/ i > k
    OBVIOUS
  <2> QED BY <2>1, <2>2, <2>3
<1>5. \A i \in 1..Len(b) : b[i] = (u \o v)[i]
  BY <1>4
<1>6. Len(b) = Len(u \o v)
  BY <1>3
<1>7. b = u \o v
  BY <1>3, <1>5, <1>6, SeqEqual
<1> QED BY <1>1, <1>2, <1>7 DEF u, v

LEMMA InTwoParts ==
  ASSUME NEW b \in Seq(Timed), NEW k \in 0..Len(b)
  PROVE  \E out \in Seq(Timed), rest \in Seq(Timed) : out = SubSeq(b, 1, k) /\ b = out \o rest
<1> DEFINE u == SubSeq(b, 1, k)
           v == SubSeq(b, k + 1, Len(b))
<1>1. u \in Seq(Timed) /\ v \in Seq(Timed) /\ b = u \o v
  BY InTwo, Zenon
<1>2. u = SubSeq(b, 1, k)
  OBVIOUS
<1> HIDE DEF u, v
<1> QED BY <1>1, <1>2, Zenon

LEMMA DieIs ==
  ASSUME LogTypeOK, TornIsUnreadable, NEW r \in Runs, Die(r, Gen[r]), now' \in Nat
  PROVE  Cut(r) /\ buffer'[r] = <<>>
<1> DEFINE f == Gen[r]
<1>0. f \in Files
  BY IntactIs
<1> HIDE DEF f
<1>1. PICK b \in Seq(Timed), a \in Seq(AnyLine) : b = buffer[r] /\ a = file[r]
  BY DEF LogTypeOK
<1>2. PICK k \in 0..Len(b), half \in BOOLEAN :
        LET out == SubSeq(b, 1, k) IN
        /\ Written(r, f, out)
        /\ torn' = [torn EXCEPT ![f] = half \/ (@ /\ out = <<>>)]
        /\ unreadable' = [unreadable EXCEPT
             ![f] = @ + IF half /\ ~(torn[f] /\ out = <<>>) THEN 1 ELSE 0]
  BY <1>1 DEF Die, f
<1>3. buffer' = [buffer EXCEPT ![r] = <<>>] /\ UNCHANGED lost
  BY DEF Die
<1>4. PICK out \in Seq(Timed), rest \in Seq(Timed) : out = SubSeq(b, 1, k) /\ b = out \o rest
  BY InTwoParts, Zenon
<1>5. PICK new \in Seq(Timed) :
        /\ new = IF torn[f] /\ out # <<>> THEN Tail(out) ELSE out
        /\ ToSet(Texts(new)) \subseteq ToSet(Texts(out))
        /\ file' = [file EXCEPT ![r] = @ \o Texts(new)]
        /\ file' \in [Runs -> Seq(AnyLine)]
        /\ first' \in [Runs -> Nat] /\ last' \in [Runs -> Nat]
  <2>1. Written(r, f, out)
    BY <1>2, <1>4
  <2> QED BY <1>0, <2>1, WrittenIs
<1>6. buffer' \in [Runs -> Seq(Timed)] /\ buffer'[r] = <<>>
  BY <1>3 DEF LogTypeOK
<1>7. /\ torn[f] \in BOOLEAN /\ unreadable[f] \in Nat
      /\ torn'[f] = (half \/ (torn[f] /\ out = <<>>))
      /\ unreadable'[f] = unreadable[f] + IF half /\ ~(torn[f] /\ out = <<>>) THEN 1 ELSE 0
      /\ torn' \in [Files -> BOOLEAN] /\ unreadable' \in [Files -> Nat]
      /\ \A g \in Files \ {f} : torn'[g] = torn[g] /\ unreadable'[g] = unreadable[g]
  <2>1. torn \in [Files -> BOOLEAN] /\ unreadable \in [Files -> Nat]
    BY DEF LogTypeOK
  <2>2. torn' = [torn EXCEPT ![f] = half \/ (@ /\ out = <<>>)]
    BY <1>2, <1>4
  <2>3. unreadable' = [unreadable EXCEPT
             ![f] = @ + IF half /\ ~(torn[f] /\ out = <<>>) THEN 1 ELSE 0]
    BY <1>2, <1>4
  <2>4. /\ torn[f] \in BOOLEAN /\ torn'[f] = (half \/ (torn[f] /\ out = <<>>))
        /\ torn' \in [Files -> BOOLEAN]
        /\ \A g \in Files \ {f} : torn'[g] = torn[g]
    BY <1>0, <2>1, <2>2
  <2>5. /\ unreadable[f] \in Nat /\ unreadable' \in [Files -> Nat]
        /\ unreadable'[f] = unreadable[f] + IF half /\ ~(torn[f] /\ out = <<>>) THEN 1 ELSE 0
        /\ \A g \in Files \ {f} : unreadable'[g] = unreadable[g]
    BY <1>0, <2>1, <2>3
  <2> QED BY <2>4, <2>5
<1>8. LogTypeOK' /\ TornIsUnreadable'
  <2>1. torn[f] => unreadable[f] > 0
    BY <1>0 DEF TornIsUnreadable
  <2>2. torn'[f] => unreadable'[f] > 0
    BY <1>7, <2>1
  <2>3. TornIsUnreadable'
    BY <1>7, <2>2 DEF TornIsUnreadable
  <2> QED BY <1>3, <1>5, <1>6, <1>7, <2>3 DEF LogTypeOK
<1>9. \A g \in Files : unreadable'[g] = 0 => unreadable[g] = 0
  BY <1>7
<1>10. \A q \in Runs : Intact(q)' => Intact(q)
  <2> TAKE q \in Runs
  <2>1. Gen[q] \in Files
    BY IntactIs
  <2> QED BY <1>3, <1>9, <2>1 DEF Intact
<1>11. OthersKept(r)
  BY <1>3, <1>5, <1>10 DEF OthersKept, LogTypeOK
<1>12. /\ Texts(b) = Texts(out) \o Texts(rest)
       /\ Texts(out) \in Seq(AnyLine) /\ Texts(rest) \in Seq(AnyLine)
       /\ Texts(new) \in Seq(AnyLine)
  BY <1>4, TextsOf
<1>13. Lines(r)' = a \o Texts(new)
  <2>1. Lines(r)' = file'[r] \o Texts(buffer'[r]) /\ Texts(<<>>) = <<>>
    BY DEF Lines, Texts
  <2>2. file'[r] = a \o Texts(new)
    BY <1>1, <1>5 DEF LogTypeOK
  <2>3. ASSUME NEW x \in Seq(AnyLine), NEW y \in Seq(AnyLine)
        PROVE  (x \o y) \o <<>> = x \o y
    OBVIOUS
  <2>4. (a \o Texts(new)) \o <<>> = a \o Texts(new)
    BY <1>12, <2>3
  <2> QED BY <1>6, <2>1, <2>2, <2>4
<1>14. Lines(r) = a \o (Texts(out) \o Texts(rest))
  BY <1>1, <1>12 DEF Lines
<1>15. ToSet(Lines(r)') \subseteq ToSet(Lines(r))
  <2>1. Texts(out) \o Texts(rest) \in Seq(AnyLine)
    BY <1>12, ConcatProperties
  <2>2. ToSet(a \o Texts(new)) = ToSet(a) \cup ToSet(Texts(new))
    BY <1>12, ToSetOf
  <2>3. ToSet(Texts(out) \o Texts(rest)) = ToSet(Texts(out)) \cup ToSet(Texts(rest))
    BY <1>12, ToSetOf
  <2>4. ToSet(a \o (Texts(out) \o Texts(rest))) = ToSet(a) \cup ToSet(Texts(out) \o Texts(rest))
    <3>1. PICK w \in Seq(AnyLine) : w = Texts(out) \o Texts(rest)
      BY <2>1
    <3>2. ToSet(a \o w) = ToSet(a) \cup ToSet(w)
      BY ToSetOf
    <3> QED BY <3>1, <3>2
  <2> QED BY <1>5, <1>13, <1>14, <2>2, <2>3, <2>4
<1>16. ASSUME Intact(r)' PROVE Lines(r) = Lines(r)' \o Texts(rest)
  <2>1. ~torn[f]
    BY <1>10, <1>16, IntactIs DEF f
  <2>2. new = out
    BY <1>5, <2>1
  <2>4. a \o (Texts(out) \o Texts(rest)) = (a \o Texts(out)) \o Texts(rest)
    <3>1. PICK u \in Seq(AnyLine), v \in Seq(AnyLine) : u = Texts(out) /\ v = Texts(rest)
      BY <1>12
    <3>2. a \o (u \o v) = (a \o u) \o v
      BY Associative
    <3> QED BY <3>1, <3>2, Zenon
  <2> QED BY <1>13, <1>14, <2>2, <2>4
<1> QED BY <1>6, <1>8, <1>11, <1>12, <1>15, <1>16 DEF Cut

-----------------------------------------------------------------------------
(* What the lines say, one more at a time.                                 *)

LEMMA Longer ==
  ASSUME NEW L \in Seq(AnyLine), NEW line \in AnyLine
  PROVE  /\ L \o <<line>> \in Seq(AnyLine) /\ Len(L) \in Nat
         /\ Len(L \o <<line>>) = Len(L) + 1
         /\ \A i \in 1..Len(L) : (L \o <<line>>)[i] = L[i]
         /\ (L \o <<line>>)[Len(L) + 1] = line
         /\ \A i \in 1..(Len(L) + 1) : i \in 1..Len(L) \/ i = Len(L) + 1
OBVIOUS

LEMMA SpawnedFirstLonger ==
  ASSUME NEW L \in Seq(AnyLine), NEW line \in AnyLine, SpawnedFirst(L),
         line.station = 0 \/ line.what = "station_spawned" \/ Spawned(L, line.station)
  PROVE  SpawnedFirst(L \o <<line>>)
<1> DEFINE K == L \o <<line>>
<1>1. /\ Len(K) = Len(L) + 1 /\ Len(L) \in Nat
      /\ \A i \in 1..Len(L) : K[i] = L[i]
      /\ K[Len(L) + 1] = line
      /\ \A i \in 1..(Len(L) + 1) : i \in 1..Len(L) \/ i = Len(L) + 1
  BY Longer
<1> HIDE DEF K
<1> SUFFICES ASSUME NEW i \in 1..Len(K), K[i].station # 0
             PROVE  \E j \in 1..i : K[j].what = "station_spawned" /\ K[j].station = K[i].station
  BY DEF SpawnedFirst, K
<1>2. CASE i \in 1..Len(L)
  <2>1. PICK j \in 1..i : L[j].what = "station_spawned" /\ L[j].station = L[i].station
    BY <1>1, <1>2 DEF SpawnedFirst
  <2>2. j \in 1..Len(L)
    BY <1>1, <1>2
  <2> QED BY <1>1, <1>2, <2>1, <2>2
<1>3. CASE i = Len(L) + 1
  <2>1. CASE line.what = "station_spawned"
    <3>1. i \in 1..i
      BY <1>1, <1>3
    <3> QED BY <1>1, <1>3, <2>1, <3>1
  <2>2. CASE Spawned(L, line.station)
    <3>1. PICK j \in 1..Len(L) : L[j].what = "station_spawned" /\ L[j].station = line.station
      BY <2>2 DEF Spawned
    <3>2. j \in 1..i
      BY <1>1, <1>3
    <3> QED BY <1>1, <1>3, <3>1, <3>2
  <2> QED BY <1>1, <1>3, <2>1, <2>2
<1> QED BY <1>1, <1>2, <1>3

LEMMA SpawnedFirstShorter ==
  ASSUME NEW L \in Seq(AnyLine), NEW rest \in Seq(AnyLine), SpawnedFirst(L \o rest)
  PROVE  SpawnedFirst(L)
<1>1. \A i \in 1..Len(L) : i \in 1..Len(L \o rest) /\ (L \o rest)[i] = L[i]
  OBVIOUS
<1> SUFFICES ASSUME NEW i \in 1..Len(L), L[i].station # 0
             PROVE  \E j \in 1..i : L[j].what = "station_spawned" /\ L[j].station = L[i].station
  BY DEF SpawnedFirst
<1>2. PICK j \in 1..i : /\ (L \o rest)[j].what = "station_spawned"
                        /\ (L \o rest)[j].station = (L \o rest)[i].station
  BY <1>1 DEF SpawnedFirst
<1>3. j \in 1..Len(L)
  OBVIOUS
<1> QED BY <1>1, <1>2, <1>3

LEMMA SpawnedLonger ==
  ASSUME NEW L \in Seq(AnyLine), NEW line \in AnyLine, NEW s,
         Spawned(L, s) \/ (line.what = "station_spawned" /\ line.station = s)
  PROVE  Spawned(L \o <<line>>, s)
<1> DEFINE K == L \o <<line>>
<1>1. /\ Len(K) = Len(L) + 1 /\ Len(L) \in Nat
      /\ \A i \in 1..Len(L) : K[i] = L[i]
      /\ K[Len(L) + 1] = line
  BY Longer
<1>2. Len(L) + 1 \in 1..(Len(L) + 1) /\ \A i \in 1..Len(L) : i \in 1..(Len(L) + 1)
  BY <1>1
<1> HIDE DEF K
<1> QED BY <1>1, <1>2 DEF Spawned, K

LEMMA ConnectionsLonger ==
  ASSUME NEW L \in Seq(AnyLine), NEW line \in AnyLine, NEW s
  PROVE  /\ IsFiniteSet(ConnectionLines(L, s)) /\ Cardinality(ConnectionLines(L, s)) \in Nat
         /\ Cardinality(ConnectionLines(L \o <<line>>, s)) <=
              Cardinality(ConnectionLines(L, s)) + 1
         /\ ~(line.what = "station_connected" /\ line.station = s) =>
              ConnectionLines(L \o <<line>>, s) = ConnectionLines(L, s)
<1> DEFINE K == L \o <<line>>
           c == ConnectionLines(L, s)
           d == ConnectionLines(K, s)
           m == Len(L) + 1
<1>1. /\ Len(K) = Len(L) + 1 /\ Len(L) \in Nat
      /\ \A i \in 1..Len(L) : K[i] = L[i]
      /\ K[Len(L) + 1] = line
      /\ \A i \in 1..(Len(L) + 1) : i \in 1..Len(L) \/ i = Len(L) + 1
  BY Longer
<1>2. Len(L) + 1 \in 1..(Len(L) + 1) /\ \A i \in 1..Len(L) : i \in 1..(Len(L) + 1)
  BY <1>1
<1>3. IsFiniteSet(c) /\ Cardinality(c) \in Nat
  <2>1. c \subseteq 1..Len(L)
    BY DEF ConnectionLines
  <2>2. IsFiniteSet(1..Len(L))
    BY <1>1, FS_Interval
  <2>3. IsFiniteSet(c)
    BY <2>1, <2>2, FS_Subset
  <2> QED BY <2>3, FS_CardinalityType
<1>4. d = c \/ (d = c \cup {m} /\ line.what = "station_connected" /\ line.station = s)
  <2> HIDE DEF K
  <2>1. \A i \in 1..Len(L) : i \in d <=> i \in c
    BY <1>1, <1>2 DEF ConnectionLines
  <2>2. m \in d <=> (line.what = "station_connected" /\ line.station = s)
    BY <1>1, <1>2 DEF ConnectionLines
  <2>3. c \subseteq 1..Len(L) /\ d \subseteq 1..(Len(L) + 1)
    BY <1>1 DEF ConnectionLines
  <2>4. \A i \in d : i \in 1..Len(L) \/ i = m
    BY <1>1, <2>3
  <2> HIDE DEF d, c, m
  <2> QED BY <2>1, <2>2, <2>3, <2>4
<1>5. Cardinality(d) <= Cardinality(c) + 1
  <2>1. CASE d = c
    BY <1>3, <2>1
  <2>2. CASE d = c \cup {m}
    <3>1. Cardinality(c \cup {m}) = Cardinality(c) \/ Cardinality(c \cup {m}) = Cardinality(c) + 1
      BY <1>3, FS_AddElement
    <3> HIDE DEF c, d, m
    <3> QED BY <1>3, <2>2, <3>1
  <2> QED BY <1>4, <2>1, <2>2
<1>6. m \notin c
  BY <1>1 DEF ConnectionLines
<1>7. ~(line.what = "station_connected" /\ line.station = s) => d = c
  BY <1>4
<1> QED BY <1>3, <1>5, <1>7

\* A line that is not an outcome of s leaves its outcome as it was told.
LEMMA OutcomeKept ==
  ASSUME NEW L \in Seq(AnyLine), NEW line \in AnyLine, NEW s, NEW l \in Lives, NEW k \in Lives,
         OutcomeTold(L, s, l), ~IsOutcome(line, s),
         k = l \/ (l.at \notin Told /\ k.at \notin Told)
  PROVE  OutcomeTold(L \o <<line>>, s, k)
<1> DEFINE K == L \o <<line>>
<1>1. /\ Len(K) = Len(L) + 1 /\ Len(L) \in Nat
      /\ \A i \in 1..Len(L) : K[i] = L[i]
      /\ K[Len(L) + 1] = line
      /\ \A i \in 1..(Len(L) + 1) : i \in 1..Len(L) \/ i = Len(L) + 1
  BY Longer
<1>2. Len(L) + 1 \in 1..(Len(L) + 1) /\ \A i \in 1..Len(L) : i \in 1..(Len(L) + 1)
  BY <1>1
<1> HIDE DEF K
<1>3. CASE l.at \in Told
  <2>1. k = l
    BY <1>3
  <2>2. PICK i \in 1..Len(L) :
         /\ \A j \in 1..Len(L) : IsOutcome(L[j], s) <=> j = i
         /\ L[i].n = l.connects
         /\ L[i].ok <=> l.at = "ok"
         /\ L[i].what = "station_crashed" <=> l.at = "crashed"
    BY <1>3 DEF OutcomeTold
  <2>3. i \in 1..Len(K) /\ K[i] = L[i]
    BY <1>1, <1>2
  <2>4. \A j \in 1..Len(K) : IsOutcome(K[j], s) <=> j = i
    <3> TAKE j \in 1..Len(K)
    <3>1. CASE j \in 1..Len(L)
      BY <1>1, <2>2, <3>1
    <3>2. CASE j = Len(L) + 1
      <4>1. j # i
        BY <1>1, <3>2
      <4> QED BY <1>1, <3>2, <4>1
    <3> QED BY <1>1, <3>1, <3>2
  <2> QED BY <1>3, <2>1, <2>2, <2>3, <2>4 DEF OutcomeTold, K
<1>4. CASE l.at \notin Told
  <2>1. \A j \in 1..Len(L) : ~IsOutcome(L[j], s)
    BY <1>4 DEF OutcomeTold
  <2>2. \A j \in 1..Len(K) : ~IsOutcome(K[j], s)
    BY <1>1, <2>1
  <2>3. k.at \notin Told
    BY <1>4
  <2> QED BY <2>2, <2>3 DEF OutcomeTold, K
<1> QED BY <1>3, <1>4

\* The outcome of a charger that had none.
LEMMA OutcomeComes ==
  ASSUME NEW L \in Seq(AnyLine), NEW line \in AnyLine, NEW s, NEW l \in Lives, NEW k \in Lives,
         OutcomeTold(L, s, l), l.at \notin Told, k.at \in Told, IsOutcome(line, s),
         line.n = k.connects, line.ok <=> k.at = "ok",
         line.what = "station_crashed" <=> k.at = "crashed"
  PROVE  OutcomeTold(L \o <<line>>, s, k)
<1> DEFINE K == L \o <<line>>
           m == Len(L) + 1
<1>1. /\ Len(K) = m /\ Len(L) \in Nat
      /\ \A i \in 1..Len(L) : K[i] = L[i]
      /\ K[m] = line
      /\ \A i \in 1..m : i \in 1..Len(L) \/ i = m
  BY Longer
<1>2. m \in 1..m /\ m \notin 1..Len(L)
  BY <1>1
<1> HIDE DEF K, m
<1>3. \A j \in 1..Len(L) : ~IsOutcome(L[j], s)
  BY DEF OutcomeTold
<1>4. \A j \in 1..Len(K) : IsOutcome(K[j], s) <=> j = m
  BY <1>1, <1>2, <1>3
<1> QED BY <1>1, <1>2, <1>4 DEF OutcomeTold, K

\* A line that is not of charger s.
LEMMA ToldOther ==
  ASSUME NEW L \in Seq(AnyLine), NEW line \in AnyLine, NEW s, NEW l \in Lives,
         ChargerTold(L, s, l), line.station # s
  PROVE  ChargerTold(L \o <<line>>, s, l)
<1>1. OutcomeTold(L \o <<line>>, s, l)
  BY OutcomeKept DEF ChargerTold, IsOutcome
<1>2. l.at \in Dialling \cup Told => Spawned(L \o <<line>>, s)
  BY SpawnedLonger DEF ChargerTold
<1>3. ConnectionLines(L \o <<line>>, s) = ConnectionLines(L, s)
  BY ConnectionsLonger
<1> QED BY <1>1, <1>2, <1>3 DEF ChargerTold

\* A coroutine goes on without a line.
LEMMA ToldSilent ==
  ASSUME NEW L \in Seq(AnyLine), NEW s, NEW l \in Lives, NEW k \in Lives,
         ChargerTold(L, s, l), l.at \notin Told, k.connects = l.connects,
         \/ l.at = "staggered" /\ k.at = "dropped"
         \/ l.at \in Dialling /\ k.at \in Dialling
  PROVE  ChargerTold(L, s, k)
<1>1. OutcomeTold(L, s, k)
  BY DEF ChargerTold, OutcomeTold, Dialling, Told
<1>2. k.at \in Dialling \cup Told => Spawned(L, s)
  BY DEF ChargerTold, Dialling, Told
<1>3. k.at \notin {"absent", "staggered"}
  BY DEF Dialling
<1> QED BY <1>1, <1>2, <1>3 DEF ChargerTold

LEMMA ToldSpawn ==
  ASSUME NEW L \in Seq(AnyLine), NEW line \in AnyLine, NEW s, NEW l \in Lives, NEW k \in Lives,
         ChargerTold(L, s, l), l.at = "staggered", k.at = "offline", k.connects = 0,
         line.what = "station_spawned", line.station = s
  PROVE  ChargerTold(L \o <<line>>, s, k)
<1>1. OutcomeTold(L \o <<line>>, s, k)
  BY OutcomeKept DEF ChargerTold, IsOutcome, Told
<1>2. Spawned(L \o <<line>>, s)
  BY SpawnedLonger
<1>3. ConnectionLines(L \o <<line>>, s) = ConnectionLines(L, s)
  BY ConnectionsLonger
<1>4. l.connects = 0 /\ k.at \notin {"absent", "staggered"}
  BY DEF ChargerTold
<1> QED BY <1>1, <1>2, <1>3, <1>4 DEF ChargerTold

LEMMA ToldConnect ==
  ASSUME NEW L \in Seq(AnyLine), NEW line \in AnyLine, NEW s, NEW l \in Lives, NEW k \in Lives,
         ChargerTold(L, s, l), l.at = "offline", k.at = "connected",
         k.connects = l.connects + 1, line.what = "station_connected"
  PROVE  ChargerTold(L \o <<line>>, s, k)
<1>1. OutcomeTold(L \o <<line>>, s, k)
  BY OutcomeKept DEF ChargerTold, IsOutcome, Told
<1>2. Spawned(L \o <<line>>, s)
  BY SpawnedLonger DEF ChargerTold, Dialling
<1>3. Cardinality(ConnectionLines(L \o <<line>>, s)) <= l.connects + 1
  <2> DEFINE c == Cardinality(ConnectionLines(L, s))
             d == Cardinality(ConnectionLines(L \o <<line>>, s))
             M == L \o <<line>>
  <2>1. c \in Nat /\ d <= c + 1 /\ c <= l.connects
    BY ConnectionsLonger DEF ChargerTold
  <2>2. M \in Seq(AnyLine)
    BY Longer
  <2>3. Cardinality(ConnectionLines(M, s)) \in Nat
    <3> HIDE DEF M
    <3> QED BY <2>2, ConnectionsLonger
  <2>4. l.connects \in Nat
    BY DEF Lives
  <2> HIDE DEF c
  <2> QED BY <2>1, <2>3, <2>4
<1>4. k.at \notin {"absent", "staggered"}
  OBVIOUS
<1> QED BY <1>1, <1>2, <1>3, <1>4 DEF ChargerTold

LEMMA ToldEnds ==
  ASSUME NEW L \in Seq(AnyLine), NEW line \in AnyLine, NEW s, NEW l \in Lives, NEW k \in Lives,
         ChargerTold(L, s, l), l.at \in Dialling, k.at \in Told, k.connects = l.connects,
         IsOutcome(line, s), line.n = k.connects, line.ok <=> k.at = "ok",
         line.what = "station_crashed" <=> k.at = "crashed"
  PROVE  ChargerTold(L \o <<line>>, s, k)
<1>1. OutcomeTold(L \o <<line>>, s, k)
  <2>1. OutcomeTold(L, s, l) /\ l.at \notin Told
    BY DEF ChargerTold, Dialling, Told
  <2> QED BY <2>1, OutcomeComes
<1>2. Spawned(L \o <<line>>, s)
  BY SpawnedLonger DEF ChargerTold
<1>3. ConnectionLines(L \o <<line>>, s) = ConnectionLines(L, s)
  BY ConnectionsLonger DEF IsOutcome
<1>4. k.at \notin {"absent", "staggered"}
  BY DEF Told
<1> QED BY <1>1, <1>2, <1>3, <1>4 DEF ChargerTold

-----------------------------------------------------------------------------
(* The steps keep the invariant.                                           *)

Tells(r) == Intact(r) => Story(Lines(r), phase[r], life[r])

LEMMA LinesIs ==
  ASSUME LogTypeOK, NEW r \in Runs
  PROVE  Lines(r) \in Seq(AnyLine)
<1>1. PICK a \in Seq(AnyLine), b \in Seq(Timed) : a = file[r] /\ b = buffer[r]
  BY DEF LogTypeOK
<1>2. PICK c \in Seq(AnyLine) : c = Texts(b)
  BY TextsOf
<1>3. a \o c \in Seq(AnyLine)
  OBVIOUS
<1> QED BY <1>1, <1>2, <1>3 DEF Lines

LEMMA LinesNext ==
  ASSUME LogTypeOK', NEW r \in Runs
  PROVE  Lines(r)' \in Seq(AnyLine)
<1>1. PICK a \in Seq(AnyLine), b \in Seq(Timed) : a = file'[r] /\ b = buffer'[r]
  BY DEF LogTypeOK
<1>2. PICK c \in Seq(AnyLine) : c = Texts(b)
  BY TextsOf
<1>3. a \o c \in Seq(AnyLine)
  OBVIOUS
<1>4. Lines(r)' = file'[r] \o Texts(buffer'[r])
  BY DEF Lines, Texts
<1> QED BY <1>1, <1>2, <1>3, <1>4

LEMMA OfIs ==
  ASSUME NEW r \in Runs
  PROVE  Of(r) \subseteq Stations /\ IsFiniteSet(Of(r)) /\ 0 \notin Stations
BY DiaryAssumption DEF Of

\* A step of run r leaves the others as they were: what is left to show is r.
LEMMA OneRun ==
  ASSUME FleetInv, NEW r \in Runs, LogTypeOK', TornIsUnreadable', RunTypeOK', OthersKept(r),
         \A q \in Runs \ {r} : phase'[q] = phase[q] /\ life'[q] = life[q],
         Course(r)', Tells(r)'
  PROVE  FleetInv'
<1>1. IsFiniteSet(Launched')
  <2>1. Launched' \subseteq Launched \cup {r}
    BY DEF Launched
  <2>2. IsFiniteSet(Launched \cup {r})
    BY FS_AddElement DEF FleetInv
  <2> QED BY <2>1, <2>2, FS_Subset
<1>2. ASSUME NEW q \in Runs PROVE Course(q)' /\ Tells(q)'
  <2>1. CASE q = r
    BY <2>1
  <2>2. CASE q # r
    <3>1. /\ file'[q] = file[q] /\ buffer'[q] = buffer[q]
          /\ phase'[q] = phase[q] /\ life'[q] = life[q]
      BY <2>2 DEF OthersKept
    <3>2. Lines(q)' = Lines(q)
      BY <3>1 DEF Lines, Texts
    <3>3. AllOver(q)' = AllOver(q) /\ With(q, "ok")' = With(q, "ok")
      BY <3>1 DEF AllOver, With, Of
    <3>4. Course(q)
      BY DEF FleetInv
    <3>5. Course(q)'
      BY <3>1, <3>2, <3>3, <3>4 DEF Course, Of
    <3>6. Tells(q)'
      <4>1. Intact(q)' => Intact(q)
        BY DEF OthersKept
      <4> QED BY <3>1, <3>2, <4>1 DEF Tells, FleetInv
    <3> QED BY <3>5, <3>6
  <2> QED BY <2>1, <2>2
<1> QED BY <1>1, <1>2 DEF FleetInv, Tells

\* A charger's coroutine goes on, with the lines more (one, or none).
GoesOn(r, s, k, more) ==
  /\ s \in Of(r) /\ phase[r] \in {"running", "cancelled"}
  /\ life' = [life EXCEPT ![r][s] = k] /\ UNCHANGED phase
  /\ k.at # "absent" /\ (phase[r] = "running" => k.at # "dropped")
  /\ Recorded(r, more)
  /\ \/ more = <<>>
     \/ \E line \in ChargerLines :
          /\ more = <<line>> /\ line.station = s
          /\ line.what = "station_spawned" \/ life[r][s].at \in Dialling
  /\ \A L \in Seq(AnyLine) :
       ChargerTold(L, s, life[r][s]) => ChargerTold(L \o more, s, k)

LEMMA ChargerStep ==
  ASSUME FleetInv, NEW r \in Runs, NEW s \in Stations, NEW k \in Lives, NEW more,
         GoesOn(r, s, k, more)
  PROVE  FleetInv'
<1>0. phase[r] \in {"running", "cancelled"} /\ UNCHANGED phase /\ Course(r)
  BY DEF GoesOn, FleetInv
<1>1. /\ life'[r] = [life[r] EXCEPT ![s] = k]
      /\ life' \in [Runs -> [Stations -> Lives]]
      /\ \A q \in Runs \ {r} : life'[q] = life[q]
  BY DEF GoesOn, FleetInv, RunTypeOK
<1>2. /\ life[r] \in [Stations -> Lives]
      /\ life'[r][s] = k /\ \A x \in Stations \ {s} : life'[r][x] = life[r][x]
  BY <1>1 DEF FleetInv, RunTypeOK
<1>3. RunTypeOK'
  BY <1>0, <1>1 DEF FleetInv, RunTypeOK
<1>4. Recorded(r, more)
  BY DEF GoesOn
<1>5. \A line \in ToSet(more) : line.what # "run_finished"
  <2>1. CASE more = <<>>
    BY <2>1 DEF ToSet
  <2>2. ASSUME NEW x \in ChargerLines, more = <<x>>
        PROVE  \A line \in ToSet(more) : line.what # "run_finished"
    <3>1. x.what # "run_finished"
      BY DEF ChargerLines
    <3>2. ToSet(more) = {x}
      BY <2>2 DEF ToSet
    <3> QED BY <3>1, <3>2
  <2> QED BY <2>1, <2>2 DEF GoesOn
<1>6. Course(r)'
  <2>1. \A line \in ToSet(Lines(r)') : line.what # "run_finished"
    BY <1>0, <1>4, <1>5 DEF Recorded, Course
  <2>2. \A x \in Stations : life'[r][x].at # "absent" => x \in Of(r)
    BY <1>0, <1>2 DEF Course, GoesOn
  <2>3. phase[r] = "running" => \A x \in Stations : life'[r][x].at # "dropped"
    BY <1>0, <1>2 DEF Course, GoesOn
  <2>4. \A x \in Of(r) : life'[r][x].at # "absent"
    <3>1. Of(r) \subseteq Stations
      BY OfIs
    <3> QED BY <1>0, <1>2, <3>1 DEF Course, GoesOn
  <2> QED BY <1>0, <2>1, <2>2, <2>3, <2>4 DEF Course, Of
<1>7. Tells(r)'
  <2> SUFFICES ASSUME Intact(r)' PROVE Story(Lines(r)', phase'[r], life'[r])
    BY DEF Tells
  <2>1. Intact(r) /\ Lines(r)' = Lines(r) \o more
    BY <1>4 DEF Recorded, OthersKept
  <2>2. PICK L \in Seq(AnyLine) : L = Lines(r)
    BY LinesIs DEF FleetInv
  <2>3. Story(L, phase[r], life[r])
    BY <2>1, <2>2 DEF FleetInv
  <2>4. SpawnedFirst(L) /\ \A x \in Stations : ChargerTold(L, x, life[r][x])
    BY <1>0, <2>3 DEF Story
  <2>5. ChargerTold(L \o more, s, k)
    BY <2>4 DEF GoesOn
  <2>6. CASE more = <<>>
    <3>1. L \o <<>> = L
      OBVIOUS
    <3> QED BY <1>0, <1>2, <2>1, <2>2, <2>4, <2>5, <2>6, <3>1 DEF Story
  <2>7. ASSUME NEW line \in ChargerLines, more = <<line>>, line.station = s,
               line.what = "station_spawned" \/ life[r][s].at \in Dialling
        PROVE  Story(L \o more, phase'[r], life'[r])
    <3>1. line \in AnyLine
      BY DEF AnyLine
    <3>2. line.what = "station_spawned" \/ Spawned(L, line.station)
      BY <2>4, <2>7 DEF ChargerTold
    <3>3. SpawnedFirst(L \o more)
      BY <2>4, <2>7, <3>1, <3>2, SpawnedFirstLonger
    <3>4. ASSUME NEW x \in Stations \ {s} PROVE ChargerTold(L \o more, x, life'[r][x])
      <4>1. ChargerTold(L, x, life[r][x]) /\ life[r][x] \in Lives /\ life'[r][x] = life[r][x]
        BY <1>2, <2>4
      <4> QED BY <2>7, <3>1, <4>1, ToldOther
    <3> QED BY <1>2, <2>5, <3>3, <3>4 DEF Story
  <2>8. Story(L \o more, phase'[r], life'[r])
    BY <2>1, <2>2, <2>6, <2>7 DEF GoesOn
  <2> QED BY <2>1, <2>2, <2>8
<1> QED BY <1>0, <1>1, <1>3, <1>4, <1>6, <1>7, OneRun DEF Recorded

LEMMA LifeIs ==
  ASSUME NEW at \in Places, NEW attempt \in Nat, NEW connects \in Nat
  PROVE  \E k \in Lives :
           k = Life(at, attempt, connects) /\ k.at = at /\ k.connects = connects
<1> DEFINE k == Life(at, attempt, connects)
<1>1. k \in Lives
  BY DEF Life, Lives
<1>2. k.at = at /\ k.connects = connects
  BY DEF Life
<1>3. k = Life(at, attempt, connects)
  OBVIOUS
<1> HIDE DEF k
<1> QED BY <1>1, <1>2, <1>3

LEMMA MovedIs ==
  ASSUME NEW l \in Lives, NEW at \in Places
  PROVE  \E k \in Lives : k = [l EXCEPT !.at = at] /\ k.at = at /\ k.connects = l.connects
<1> DEFINE k == [l EXCEPT !.at = at]
<1>1. k \in Lives
  BY DEF Lives
<1>2. k.at = at /\ k.connects = l.connects
  BY DEF Lives
<1>3. k = [l EXCEPT !.at = at]
  OBVIOUS
<1> HIDE DEF k
<1> QED BY <1>1, <1>2, <1>3

LEMMA PlacesAre ==
  /\ Told \subseteq Places /\ Dialling \subseteq Places
  /\ "offline" \in Dialling /\ "connected" \in Dialling
  /\ "absent" \in Places /\ "staggered" \in Places /\ "dropped" \in Places
BY DEF Told, Dialling, Places

LEMMA LivesIs ==
  ASSUME FleetInv, NEW r \in Runs, NEW s \in Stations
  PROVE  /\ life[r][s] \in Lives /\ life[r][s].attempt \in Nat /\ life[r][s].connects \in Nat
         /\ life[r][s].at # "absent" => s \in Of(r)
         /\ LogTypeOK /\ TornIsUnreadable /\ now \in Nat
BY DEF FleetInv, RunTypeOK, LogTypeOK, Lives, Course

LEMMA SpawnStep ==
  ASSUME FleetInv, NEW r \in Runs, NEW s \in Stations, Spawn(r, s)
  PROVE  FleetInv'
<1>1. PICK l \in Lives : l = life[r][s] /\ l.at = "staggered" /\ s \in Of(r)
  BY LivesIs DEF Spawn, At
<1>2. PICK k \in Lives : k = Life("offline", 1, 0) /\ k.at = "offline" /\ k.connects = 0
  <2>1. "offline" \in Places /\ 1 \in Nat /\ 0 \in Nat
    BY PlacesAre
  <2> QED BY <2>1, LifeIs
<1>3. PICK line \in ChargerLines :
        /\ line = Entry("station_spawned", s, 0, TRUE) /\ line \in AnyLine
        /\ line.what = "station_spawned" /\ line.station = s
  <2> DEFINE line == Entry("station_spawned", s, 0, TRUE)
  <2>1. line \in ChargerLines /\ line.what = "station_spawned" /\ line.station = s
    BY DEF Entry, ChargerLines
  <2>2. line \in AnyLine /\ line = Entry("station_spawned", s, 0, TRUE)
    BY <2>1 DEF AnyLine
  <2> HIDE DEF line
  <2> QED BY <2>1, <2>2
<1>4. Recorded(r, <<line>>)
  <2>1. Emit(r, Gen[r], line, 0) /\ now' \in Nat
    BY <1>3, LivesIs DEF Spawn, Log
  <2> QED BY <1>3, <2>1, LivesIs, EmitIs
<1>5. \A L \in Seq(AnyLine) : ChargerTold(L, s, l) => ChargerTold(L \o <<line>>, s, k)
  BY <1>1, <1>2, <1>3, ToldSpawn
<1>6. GoesOn(r, s, k, <<line>>)
  BY <1>1, <1>2, <1>3, <1>4, <1>5 DEF GoesOn, Spawn, At, Goes
<1> QED BY <1>6, ChargerStep

LEMMA ConnectStep ==
  ASSUME FleetInv, NEW r \in Runs, NEW s \in Stations, Connect(r, s)
  PROVE  FleetInv'
<1>1. PICK l \in Lives : /\ l = life[r][s] /\ l.at = "offline" /\ s \in Of(r)
                         /\ l.attempt \in Nat /\ l.connects \in Nat
  BY LivesIs DEF Connect, At
<1>2. PICK k \in Lives : /\ k = Life("connected", l.attempt, l.connects + 1)
                         /\ k.at = "connected" /\ k.connects = l.connects + 1
  <2>1. "connected" \in Places /\ l.connects + 1 \in Nat
    BY <1>1, PlacesAre
  <2> QED BY <1>1, <2>1, LifeIs
<1>3. PICK line \in ChargerLines :
        /\ line = Entry("station_connected", s, l.connects + 1, TRUE) /\ line \in AnyLine
        /\ line.what = "station_connected" /\ line.station = s
  <2> DEFINE line == Entry("station_connected", s, l.connects + 1, TRUE)
  <2>0. l.connects + 1 \in Nat
    BY <1>1
  <2>1. line \in ChargerLines /\ line.what = "station_connected" /\ line.station = s
    BY <2>0 DEF Entry, ChargerLines
  <2>2. line \in AnyLine /\ line = Entry("station_connected", s, l.connects + 1, TRUE)
    BY <2>1 DEF AnyLine
  <2> HIDE DEF line
  <2> QED BY <2>1, <2>2
<1>4. Recorded(r, <<line>>)
  <2>1. Emit(r, Gen[r], line, 0) /\ now' \in Nat
    BY <1>1, <1>3, LivesIs DEF Connect, Log
  <2> QED BY <1>3, <2>1, LivesIs, EmitIs
<1>5. \A L \in Seq(AnyLine) : ChargerTold(L, s, l) => ChargerTold(L \o <<line>>, s, k)
  BY <1>1, <1>2, <1>3, ToldConnect
<1>6. GoesOn(r, s, k, <<line>>)
  BY <1>1, <1>2, <1>3, <1>4, <1>5 DEF GoesOn, Connect, At, Goes, Dialling
<1> QED BY <1>6, ChargerStep

LEMMA EndsStep ==
  ASSUME FleetInv, NEW r \in Runs, NEW s \in Stations, NEW how \in Told, NEW fault,
         phase[r] \in {"running", "cancelled"}, life[r][s].at \in Dialling,
         Ends(r, s, how, fault)
  PROVE  FleetInv'
<1>1. PICK l \in Lives : /\ l = life[r][s] /\ l.at \in Dialling /\ s \in Of(r)
                         /\ l.connects \in Nat
  BY LivesIs DEF Dialling
<1>2. PICK k \in Lives : k = [l EXCEPT !.at = how] /\ k.at = how /\ k.connects = l.connects
  <2>1. how \in Places
    BY PlacesAre
  <2> QED BY <2>1, MovedIs
<1>3. PICK line \in ChargerLines :
        /\ line = Entry(IF how = "crashed" THEN "station_crashed" ELSE "station_finished",
                        s, l.connects, how = "ok")
        /\ line \in AnyLine
        /\ line.what = (IF how = "crashed" THEN "station_crashed" ELSE "station_finished")
        /\ line.station = s /\ line.n = l.connects /\ line.ok = (how = "ok")
  <2> DEFINE what == IF how = "crashed" THEN "station_crashed" ELSE "station_finished"
             line == Entry(what, s, l.connects, how = "ok")
  <2>1. what \in {"station_crashed", "station_finished"}
    OBVIOUS
  <2>2. /\ line = [what |-> what, station |-> s, n |-> l.connects, ok |-> how = "ok"]
        /\ l.connects \in Nat /\ (how = "ok") \in BOOLEAN
    BY <1>1 DEF Entry
  <2>3. line = Entry(what, s, l.connects, how = "ok")
    OBVIOUS
  <2> HIDE DEF what, line
  <2>4. line \in ChargerLines
    BY <2>1, <2>2 DEF ChargerLines
  <2>5. line.what = what /\ line.station = s /\ line.n = l.connects /\ line.ok = (how = "ok")
    BY <2>2
  <2>6. line \in AnyLine
    BY <2>4 DEF AnyLine
  <2> QED BY <2>3, <2>4, <2>5, <2>6 DEF what
<1>4. Recorded(r, <<line>>)
  <2>1. Emit(r, Gen[r], line, fault) /\ now' \in Nat
    BY <1>1, <1>3, LivesIs DEF Ends, Log
  <2> QED BY <1>3, <2>1, LivesIs, EmitIs
<1>5. \A L \in Seq(AnyLine) : ChargerTold(L, s, l) => ChargerTold(L \o <<line>>, s, k)
  <2>1. IsOutcome(line, s) /\ line.n = k.connects /\ k.at \in Told
    BY <1>2, <1>3 DEF IsOutcome
  <2>2. (line.ok <=> k.at = "ok") /\ (line.what = "station_crashed" <=> k.at = "crashed")
    BY <1>2, <1>3
  <2>3. line.ok <=> k.at = "ok"
    BY <2>2, Zenon
  <2>4. line.what = "station_crashed" <=> k.at = "crashed"
    BY <2>2, Zenon
  <2>5. line \in AnyLine /\ l.at \in Dialling /\ k.connects = l.connects
    BY <1>1, <1>2, <1>3, Zenon
  <2> TAKE L \in Seq(AnyLine)
  <2> HAVE ChargerTold(L, s, l)
  <2> QED BY <2>1, <2>3, <2>4, <2>5, ToldEnds, Zenon
<1>6. GoesOn(r, s, k, <<line>>)
  <2>1. k.at # "absent" /\ k.at # "dropped"
    BY <1>2 DEF Told
  <2>2. life' = [life EXCEPT ![r][s] = k] /\ UNCHANGED phase
    BY <1>1, <1>2 DEF Ends, Goes
  <2> QED BY <1>1, <1>3, <1>4, <1>5, <2>1, <2>2 DEF GoesOn
<1> QED BY <1>6, ChargerStep

\* A step that writes nothing.
LEMMA Silent ==
  ASSUME FleetInv, NEW r \in Runs,
         UNCHANGED <<now, buffer, file, first, last, torn, unreadable, lost>>
  PROVE  Recorded(r, <<>>) /\ LogTypeOK' /\ TornIsUnreadable' /\ OthersKept(r)
<1>1. LogTypeOK /\ TornIsUnreadable /\ now' \in Nat
  BY DEF FleetInv, LogTypeOK
<1>2. lost' \in [Runs -> Nat] /\ \A q \in Runs : lost[q] <= lost'[q]
  BY <1>1 DEF LogTypeOK
<1>3. Recorded(r, <<>>)
  BY <1>1, <1>2, UnchangedIs
<1> QED BY <1>3 DEF Recorded

LEMMA RetryStep ==
  ASSUME FleetInv, NEW r \in Runs, NEW s \in Stations, Retry(r, s)
  PROVE  FleetInv'
<1>1. /\ phase[r] = "running" /\ life[r][s].at \in Dialling
  BY DEF Retry, At, Dialling
<1>2. CASE Ends(r, s, "failed", 1)
  BY <1>1, <1>2, EndsStep DEF Told
<1>3. CASE /\ Goes(r, s, Life("offline", life[r][s].attempt + 1, life[r][s].connects))
           /\ UNCHANGED <<now, buffer, file, first, last, torn, unreadable, lost, phase>>
  <2>1. PICK l \in Lives : /\ l = life[r][s] /\ l.at \in Dialling /\ s \in Of(r)
                           /\ l.attempt \in Nat /\ l.connects \in Nat
    BY <1>1, LivesIs DEF Dialling
  <2>2. PICK k \in Lives : /\ k = Life("offline", l.attempt + 1, l.connects)
                           /\ k.at = "offline" /\ k.connects = l.connects
    <3>1. "offline" \in Places /\ l.attempt + 1 \in Nat
      BY <2>1, PlacesAre
    <3> QED BY <2>1, <3>1, LifeIs
  <2>3. Recorded(r, <<>>)
    BY <1>3, Silent
  <2>4. ASSUME NEW L \in Seq(AnyLine), ChargerTold(L, s, l)
        PROVE  ChargerTold(L \o <<>>, s, k)
    <3>1. L \o <<>> = L
      OBVIOUS
    <3>2. l.at \notin Told /\ k.at \in Dialling
      BY <2>1, <2>2 DEF Dialling, Told
    <3> QED BY <2>1, <2>2, <2>4, <3>1, <3>2, ToldSilent
  <2>5. GoesOn(r, s, k, <<>>)
    BY <1>1, <1>3, <2>1, <2>2, <2>3, <2>4 DEF GoesOn, Goes
  <2> QED BY <2>5, ChargerStep
<1> QED BY <1>2, <1>3 DEF Retry

LEMMA CompleteStep ==
  ASSUME FleetInv, NEW r \in Runs, NEW s \in Stations, Complete(r, s) \/ Crash(r, s)
  PROVE  FleetInv'
<1>1. phase[r] = "running" /\ life[r][s].at \in Dialling
  BY DEF Complete, Crash, At, Dialling
<1>2. Ends(r, s, "ok", 0) \/ Ends(r, s, "failed", 1) \/ Ends(r, s, "crashed", 1)
  BY DEF Complete, Crash
<1> QED BY <1>1, <1>2, EndsStep DEF Told

LEMMA CancelStep ==
  ASSUME FleetInv, NEW r \in Runs, NEW s \in Stations, Cancel(r, s)
  PROVE  FleetInv'
<1>1. PICK l \in Lives : l = life[r][s] /\ s \in Of(r) /\ phase[r] = "cancelled" /\ l.at \notin Over
  BY LivesIs DEF Cancel
<1>2. CASE l.at = "staggered"
  <2>1. PICK k \in Lives : k = [l EXCEPT !.at = "dropped"] /\ k.at = "dropped" /\ k.connects = l.connects
    BY PlacesAre, MovedIs
  <2>2. UNCHANGED <<now, buffer, file, first, last, torn, unreadable, lost, phase>>
        /\ life' = [life EXCEPT ![r][s] = k]
    BY <1>1, <1>2, <2>1 DEF Cancel, Goes, logVars
  <2>3. Recorded(r, <<>>)
    BY <2>2, Silent
  <2>4. ASSUME NEW L \in Seq(AnyLine), ChargerTold(L, s, l)
        PROVE  ChargerTold(L \o <<>>, s, k)
    <3>1. L \o <<>> = L
      OBVIOUS
    <3>2. l.at \notin Told
      BY <1>2 DEF Told
    <3> QED BY <1>2, <2>1, <2>4, <3>1, <3>2, ToldSilent
  <2>5. GoesOn(r, s, k, <<>>)
    BY <1>1, <2>1, <2>2, <2>3, <2>4 DEF GoesOn
  <2> QED BY <2>5, ChargerStep
<1>3. CASE l.at # "staggered"
  <2>1. Ends(r, s, "failed", 0)
    BY <1>1, <1>3 DEF Cancel
  <2>2. l.at # "absent"
    BY <1>1 DEF FleetInv, Course
  <2>3. l.at \in Dialling
    BY <1>1, <1>3, <2>2 DEF Lives, Places, Told, Over
  <2> QED BY <1>1, <2>1, <2>3, EndsStep DEF Told
<1> QED BY <1>2, <1>3

LEMMA ToldNothing ==
  ASSUME NEW s, NEW l \in Lives, l.at \in {"absent", "staggered"}, l.connects = 0
  PROVE  ChargerTold(<<>>, s, l)
<1>1. Len(<<>>) = 0 /\ 1..0 = {}
  OBVIOUS
<1>2. ConnectionLines(<<>>, s) = {}
  BY <1>1 DEF ConnectionLines
<1>3. Cardinality(ConnectionLines(<<>>, s)) = 0
  BY <1>2, FS_EmptySet
<1>4. OutcomeTold(<<>>, s, l)
  BY <1>1 DEF OutcomeTold, Told
<1>5. l.at \notin Dialling \cup Told
  BY DEF Dialling, Told
<1> QED BY <1>3, <1>4, <1>5 DEF ChargerTold

LEMMA LaunchStep ==
  ASSUME FleetInv, NEW r \in Runs, Launch(r)
  PROVE  FleetInv'
<1>1. LogTypeOK /\ TornIsUnreadable /\ RunTypeOK /\ Course(r) /\ now' \in Nat
  BY DEF FleetInv, LogTypeOK, Launch
<1>2. phase[r] = "off" /\ phase' = [phase EXCEPT ![r] = "running"]
  BY DEF Launch
<1>3. Lines(r) = <<>>
  <2>1. file[r] = <<>> /\ buffer[r] = <<>>
    BY <1>1, <1>2 DEF Course
  <2>2. Texts(<<>>) = <<>>
    BY DEF Texts
  <2> QED BY <2>1, <2>2 DEF Lines
<1>4. PICK line \in AnyLine :
        line = Entry("run_started", 0, 0, TRUE) /\ line.what = "run_started" /\ line.station = 0
  <2> DEFINE line == Entry("run_started", 0, 0, TRUE)
  <2>1. line \in RunLines /\ line.what = "run_started" /\ line.station = 0
    BY DEF Entry, RunLines
  <2>2. line \in AnyLine /\ line = Entry("run_started", 0, 0, TRUE)
    BY <2>1 DEF AnyLine
  <2> HIDE DEF line
  <2> QED BY <2>1, <2>2
<1>5. Recorded(r, <<line>>) /\ buffer'[r] = <<>>
  <2>1. EmitAndSync(r, Gen[r], line)
    BY <1>4 DEF Launch
  <2> QED BY <1>1, <2>1, EmitAndSyncIs
<1>6. PICK start \in Lives, none \in Lives :
        /\ start = Life("staggered", 0, 0) /\ start.at = "staggered" /\ start.connects = 0
        /\ none = Absent /\ none.at = "absent" /\ none.connects = 0
  <2>1. "staggered" \in Places /\ "absent" \in Places /\ 0 \in Nat
    BY PlacesAre
  <2> QED BY <2>1, LifeIs DEF Absent
<1>7. life' = [life EXCEPT ![r] = [s \in Stations |-> IF s \in Of(r) THEN start ELSE none]]
  BY <1>6 DEF Launch
<1>8. /\ life'[r] = [s \in Stations |-> IF s \in Of(r) THEN start ELSE none]
      /\ life' \in [Runs -> [Stations -> Lives]]
      /\ \A q \in Runs \ {r} : life'[q] = life[q]
  BY <1>1, <1>7 DEF RunTypeOK
<1>9. /\ phase' \in [Runs -> Phases] /\ phase'[r] = "running"
      /\ \A q \in Runs \ {r} : phase'[q] = phase[q]
  BY <1>1, <1>2 DEF RunTypeOK, Phases
<1>10. Course(r)'
  <2>1. \A x \in ToSet(Lines(r)') : x.what # "run_finished"
    <3>1. ToSet(<<>>) = {} /\ ToSet(<<line>>) = {line}
      BY DEF ToSet
    <3> QED BY <1>3, <1>4, <1>5, <3>1 DEF Recorded
  <2>2. Of(r) \subseteq Stations
    BY OfIs
  <2>3. \A s \in Stations : life'[r][s].at # "dropped"
    BY <1>6, <1>8
  <2>4. \A s \in Stations : life'[r][s].at # "absent" => s \in Of(r)
    BY <1>6, <1>8
  <2>5. \A s \in Of(r) : life'[r][s].at # "absent"
    BY <1>6, <1>8, <2>2
  <2> QED BY <1>9, <2>1, <2>3, <2>4, <2>5 DEF Course, Of
<1>11. Tells(r)'
  <2> SUFFICES ASSUME Intact(r)' PROVE Story(Lines(r)', phase'[r], life'[r])
    BY DEF Tells
  <2>1. Lines(r)' = <<>> \o <<line>>
    BY <1>3, <1>5 DEF Recorded
  <2>2. PICK L \in Seq(AnyLine) : L = <<>>
    <3>1. <<>> \in Seq(AnyLine)
      OBVIOUS
    <3> QED BY <3>1
  <2>3. SpawnedFirst(L)
    BY <2>2 DEF SpawnedFirst
  <2>4. SpawnedFirst(L \o <<line>>)
    BY <1>4, <2>3, SpawnedFirstLonger
  <2>5. ASSUME NEW s \in Stations PROVE ChargerTold(L \o <<line>>, s, life'[r][s])
    <3>1. PICK l \in Lives : l = life'[r][s] /\ l.at \in {"absent", "staggered"} /\ l.connects = 0
      BY <1>6, <1>8
    <3>2. ChargerTold(L, s, l)
      BY <2>2, <3>1, ToldNothing
    <3>3. line.station # s
      BY <1>4, OfIs
    <3> QED BY <3>1, <3>2, <3>3, ToldOther
  <2> QED BY <2>1, <2>2, <2>4, <2>5 DEF Story
<1>12. RunTypeOK'
  BY <1>8, <1>9 DEF RunTypeOK
<1> QED BY <1>5, <1>8, <1>9, <1>10, <1>11, <1>12, OneRun DEF Recorded

\* A run comes to an end, or is interrupted: its chargers stay where they are.
PhaseTo(r, to) ==
  /\ phase[r] \in {"running", "cancelled"} /\ to \in Phases \ {"off"}
  /\ phase' = [phase EXCEPT ![r] = to] /\ UNCHANGED life

LEMMA PhaseIs ==
  ASSUME FleetInv, NEW r \in Runs, NEW to, PhaseTo(r, to)
  PROVE  /\ LogTypeOK /\ TornIsUnreadable /\ Course(r) /\ RunTypeOK'
         /\ phase'[r] = to /\ life'[r] = life[r] /\ AllOver(r)' = AllOver(r)
         /\ With(r, "ok")' = With(r, "ok")
         /\ \A q \in Runs \ {r} : phase'[q] = phase[q] /\ life'[q] = life[q]
         /\ \A line \in ToSet(Lines(r)) : line.what # "run_finished"
BY DEF FleetInv, PhaseTo, RunTypeOK, Course, AllOver, With, Of

LEMMA PhaseStep ==
  ASSUME FleetInv, NEW r \in Runs, NEW to \in {"cancelled", "finished", "interrupted"},
         PhaseTo(r, to), NEW more,
         Recorded(r, more),
         to # "cancelled" => buffer'[r] = <<>>,
         to = "finished" => AllOver(r) /\ phase[r] = "running",
         \/ more = <<>>
         \/ \E line \in RunLines :
              /\ to = "finished" /\ more = <<line>>
              /\ line.n = Cardinality(With(r, "ok"))
  PROVE  FleetInv'
<1>1. /\ LogTypeOK /\ TornIsUnreadable /\ Course(r) /\ RunTypeOK'
      /\ phase'[r] = to /\ life'[r] = life[r] /\ AllOver(r)' = AllOver(r)
      /\ With(r, "ok")' = With(r, "ok")
      /\ \A q \in Runs \ {r} : phase'[q] = phase[q] /\ life'[q] = life[q]
      /\ \A line \in ToSet(Lines(r)) : line.what # "run_finished"
  BY PhaseIs
<1>2. phase[r] \in {"running", "cancelled"}
  BY DEF PhaseTo
<1>3. \A line \in ToSet(more) : to = "finished" /\ line.n = Cardinality(With(r, "ok"))
  <2>1. ASSUME NEW x, more = <<x>> PROVE ToSet(more) = {x}
    BY <2>1 DEF ToSet
  <2>2. more = <<>> => ToSet(more) = {}
    BY DEF ToSet
  <2> QED BY <2>1, <2>2
<1>4. \A line \in ToSet(Lines(r)') : line.what = "run_finished" =>
         to = "finished" /\ line.n = Cardinality(With(r, "ok"))
  BY <1>1, <1>3 DEF Recorded
<1>5. Course(r)'
  BY <1>1, <1>2, <1>4 DEF Course, Of
<1>6. Tells(r)'
  <2> SUFFICES ASSUME Intact(r)' PROVE Story(Lines(r)', phase'[r], life'[r])
    BY DEF Tells
  <2>1. Intact(r) /\ Lines(r)' = Lines(r) \o more
    BY DEF Recorded, OthersKept
  <2>2. PICK L \in Seq(AnyLine) : L = Lines(r)
    BY <1>1, LinesIs
  <2>3. SpawnedFirst(L) /\ \A x \in Stations : ChargerTold(L, x, life[r][x]) /\ life[r][x] \in Lives
    BY <1>2, <2>1, <2>2 DEF FleetInv, Story, RunTypeOK
  <2>4. CASE more = <<>>
    <3>1. L \o <<>> = L
      OBVIOUS
    <3> QED BY <1>1, <2>1, <2>2, <2>3, <2>4, <3>1 DEF Story
  <2>5. ASSUME NEW line \in RunLines, more = <<line>>
        PROVE  Story(L \o more, phase'[r], life'[r])
    <3>1. line \in AnyLine /\ line.station = 0
      BY DEF AnyLine, RunLines
    <3>2. SpawnedFirst(L \o more)
      BY <2>3, <2>5, <3>1, SpawnedFirstLonger
    <3>3. ASSUME NEW x \in Stations PROVE ChargerTold(L \o more, x, life'[r][x])
      <4>1. line.station # x
        BY <3>1, OfIs
      <4> QED BY <1>1, <2>3, <2>5, <3>1, <4>1, ToldOther
    <3> QED BY <3>2, <3>3 DEF Story
  <2>6. Story(L \o more, phase'[r], life'[r])
    BY <2>1, <2>2, <2>4, <2>5
  <2> QED BY <2>1, <2>2, <2>6
<1> QED BY <1>1, <1>5, <1>6, OneRun DEF Recorded

LEMMA FinishStep ==
  ASSUME FleetInv, NEW r \in Runs, Finish(r)
  PROVE  FleetInv'
<1> DEFINE n == Cardinality(With(r, "ok"))
           fine == With(r, "crashed") = {}
           line == Entry("run_finished", 0, n, fine)
<1>1. n \in Nat
  <2>1. With(r, "ok") \subseteq Of(r)
    BY DEF With
  <2> QED BY <2>1, OfIs, FS_Subset, FS_CardinalityType
<1>2. line \in RunLines /\ line.n = n
  <2>1. fine \in BOOLEAN
    OBVIOUS
  <2> HIDE DEF n, fine
  <2> QED BY <1>1, <2>1 DEF Entry, RunLines
<1>3. EmitAndSync(r, Gen[r], line) /\ now' \in Nat /\ LogTypeOK /\ TornIsUnreadable
  BY DEF Finish, FleetInv, LogTypeOK
<1>4. PhaseTo(r, "finished") /\ AllOver(r) /\ phase[r] = "running"
  BY DEF Finish, PhaseTo, Phases
<1> HIDE DEF line
<1>5. line \in AnyLine
  BY <1>2 DEF AnyLine
<1>6. Recorded(r, <<line>>) /\ buffer'[r] = <<>>
  BY <1>3, <1>5, EmitAndSyncIs
<1> QED BY <1>2, <1>4, <1>6, PhaseStep

LEMMA InterruptStep ==
  ASSUME FleetInv, NEW r \in Runs, Interrupt(r) \/ Quit(r)
  PROVE  FleetInv'
<1>1. CASE Interrupt(r)
  <2>1. PhaseTo(r, "cancelled")
    BY <1>1 DEF Interrupt, PhaseTo, Phases
  <2>2. Recorded(r, <<>>)
    BY <1>1, Silent DEF Interrupt
  <2> QED BY <2>1, <2>2, PhaseStep
<1>2. CASE Quit(r)
  <2>1. PhaseTo(r, "interrupted")
    BY <1>2 DEF Quit, PhaseTo, Phases
  <2>2. Recorded(r, <<>>) /\ buffer'[r] = <<>>
    BY <1>2, CloseIs DEF Quit, FleetInv, LogTypeOK
  <2> QED BY <2>1, <2>2, PhaseStep
<1> QED BY <1>1, <1>2

LEMMA KillStep ==
  ASSUME FleetInv, NEW r \in Runs, Kill(r)
  PROVE  FleetInv'
<1>1. PhaseTo(r, "killed")
  BY DEF Kill, PhaseTo, Phases
<1>2. /\ LogTypeOK /\ TornIsUnreadable /\ Course(r) /\ RunTypeOK'
      /\ phase'[r] = "killed" /\ life'[r] = life[r] /\ AllOver(r)' = AllOver(r)
      /\ With(r, "ok")' = With(r, "ok")
      /\ \A q \in Runs \ {r} : phase'[q] = phase[q] /\ life'[q] = life[q]
      /\ \A line \in ToSet(Lines(r)) : line.what # "run_finished"
  BY <1>1, PhaseIs
<1>3. Cut(r) /\ buffer'[r] = <<>>
  BY <1>2, DieIs DEF Kill, FleetInv, LogTypeOK
<1>4. phase[r] # "off"
  BY DEF Kill
<1>5. Course(r)'
  BY <1>2, <1>3, <1>4 DEF Course, Cut, Of
<1>6. Tells(r)'
  <2> SUFFICES ASSUME Intact(r)' PROVE SpawnedFirst(Lines(r)')
    BY <1>2 DEF Tells, Story
  <2>1. Intact(r) /\ \E rest \in Seq(AnyLine) : Lines(r) = Lines(r)' \o rest
    BY <1>3 DEF Cut, OthersKept
  <2>2. SpawnedFirst(Lines(r))
    BY <2>1 DEF FleetInv, Story
  <2>3. PICK K \in Seq(AnyLine) : K = Lines(r)'
    <3>1. LogTypeOK'
      BY <1>3 DEF Cut
    <3>2. Lines(r)' \in Seq(AnyLine)
      BY <3>1, LinesNext
    <3> QED BY <3>2
  <2>4. PICK rest \in Seq(AnyLine) : Lines(r) = K \o rest
    BY <2>1, <2>3
  <2>5. SpawnedFirst(K)
    BY <2>2, <2>4, SpawnedFirstShorter
  <2> QED BY <2>3, <2>5
<1> QED BY <1>2, <1>3, <1>5, <1>6, OneRun DEF Cut

LEMMA InitFleet ==
  ASSUME Init
  PROVE  FleetInv
<1>1. LogTypeOK /\ TornIsUnreadable
  <2>1. /\ buffer = [r \in Runs |-> <<>>] /\ file = [r \in Runs |-> <<>>]
        /\ first = [r \in Runs |-> 0] /\ last = [r \in Runs |-> 0]
        /\ torn = [f \in Files |-> FALSE] /\ unreadable = [f \in Files |-> 0]
        /\ lost = [r \in Runs |-> 0] /\ now = 0
    BY DEF Init, LogInit
  <2>2. <<>> \in Seq(AnyLine) /\ <<>> \in Seq(Timed)
    OBVIOUS
  <2>3. buffer \in [Runs -> Seq(Timed)] /\ file \in [Runs -> Seq(AnyLine)]
    BY <2>1, <2>2
  <2> QED BY <2>1, <2>3 DEF LogTypeOK, TornIsUnreadable
<1>2. PICK none \in Lives : none = Absent /\ none.at = "absent" /\ none.connects = 0
  BY PlacesAre, LifeIs DEF Absent
<1>3. /\ phase = [r \in Runs |-> "off"]
      /\ life = [r \in Runs |-> [s \in Stations |-> none]]
  BY <1>2 DEF Init
<1>4. RunTypeOK
  BY <1>3 DEF RunTypeOK, Phases
<1>5. IsFiniteSet(Launched)
  <2>1. Launched = {}
    BY <1>3 DEF Launched
  <2> QED BY <2>1, FS_EmptySet
<1>6. ASSUME NEW r \in Runs PROVE Course(r) /\ Tells(r)
  <2>1. file[r] = <<>> /\ buffer[r] = <<>> /\ phase[r] = "off"
    BY <1>3 DEF Init, LogInit
  <2>2. Lines(r) = <<>>
    <3>1. Texts(<<>>) = <<>>
      BY DEF Texts
    <3> QED BY <2>1, <3>1 DEF Lines
  <2>3. ToSet(<<>>) = {}
    BY DEF ToSet
  <2>4. \A s \in Stations : life[r][s] = none
    BY <1>3
  <2>5. Course(r)
    BY <1>2, <2>1, <2>2, <2>3, <2>4 DEF Course
  <2>6. SpawnedFirst(<<>>)
    BY DEF SpawnedFirst
  <2>7. \A s \in Stations : ChargerTold(<<>>, s, life[r][s])
    BY <1>2, <2>4, ToldNothing
  <2> QED BY <2>2, <2>5, <2>6, <2>7 DEF Tells, Story
<1> QED BY <1>1, <1>4, <1>5, <1>6 DEF FleetInv, Tells

LEMMA StutterFleet ==
  ASSUME FleetInv, UNCHANGED vars
  PROVE  FleetInv'
<1>1. UNCHANGED <<now, logVars, phase, life>>
  BY DEF vars
<1>2. UNCHANGED <<buffer, file, first, last, torn, unreadable, lost>>
  BY <1>1 DEF logVars
<1>3. LogTypeOK' /\ TornIsUnreadable'
  BY <1>1, <1>2 DEF FleetInv, LogTypeOK, TornIsUnreadable
<1>4. RunTypeOK'
  BY <1>1 DEF FleetInv, RunTypeOK
<1>5. IsFiniteSet(Launched')
  <2>1. Launched' = Launched
    BY <1>1 DEF Launched
  <2> QED BY <2>1 DEF FleetInv
<1>6. ASSUME NEW r \in Runs PROVE Course(r)' /\ Tells(r)'
  <2>1. Lines(r)' = Lines(r)
    BY <1>2 DEF Lines, Texts
  <2>2. AllOver(r)' <=> AllOver(r)
    BY <1>1 DEF AllOver, Of
  <2>3. With(r, "ok")' = With(r, "ok")
    BY <1>1 DEF With, Of
  <2>4. Course(r)
    BY DEF FleetInv
  <2>5. Course(r)'
    BY <1>1, <1>2, <2>1, <2>2, <2>3, <2>4 DEF Course, Of
  <2>6. Intact(r)' <=> Intact(r)
    BY <1>2 DEF Intact
  <2>7. Tells(r)
    BY DEF FleetInv, Tells
  <2> QED BY <1>1, <2>1, <2>5, <2>6, <2>7 DEF Tells
<1> QED BY <1>3, <1>4, <1>5, <1>6 DEF FleetInv, Tells

\* Every reachable state: lines, coroutines and files fit together.
THEOREM FleetAlways == Spec => []FleetInv
<1>1. Init => FleetInv
  BY InitFleet
<1>2. FleetInv /\ [Next]_vars => FleetInv'
  <2> SUFFICES ASSUME FleetInv, [Next]_vars PROVE FleetInv'
    OBVIOUS
  <2>1. ASSUME NEW r \in Runs, Launch(r) PROVE FleetInv'
    BY <2>1, LaunchStep
  <2>2. ASSUME NEW r \in Runs, NEW s \in Stations, Spawn(r, s) PROVE FleetInv'
    BY <2>2, SpawnStep
  <2>3. ASSUME NEW r \in Runs, NEW s \in Stations, Connect(r, s) PROVE FleetInv'
    BY <2>3, ConnectStep
  <2>4. ASSUME NEW r \in Runs, NEW s \in Stations, Retry(r, s) PROVE FleetInv'
    BY <2>4, RetryStep
  <2>5. ASSUME NEW r \in Runs, NEW s \in Stations, Complete(r, s) \/ Crash(r, s)
        PROVE  FleetInv'
    BY <2>5, CompleteStep
  <2>6. ASSUME NEW r \in Runs, NEW s \in Stations, Cancel(r, s) PROVE FleetInv'
    BY <2>6, CancelStep
  <2>7. ASSUME NEW r \in Runs, Finish(r) PROVE FleetInv'
    BY <2>7, FinishStep
  <2>8. ASSUME NEW r \in Runs, Interrupt(r) \/ Quit(r) PROVE FleetInv'
    BY <2>8, InterruptStep
  <2>9. ASSUME NEW r \in Runs, Kill(r) PROVE FleetInv'
    BY <2>9, KillStep
  <2>10. CASE UNCHANGED vars
    BY <2>10, StutterFleet
  <2> QED BY <2>1, <2>2, <2>3, <2>4, <2>5, <2>6, <2>7, <2>8, <2>9, <2>10 DEF Next
<1> QED BY <1>1, <1>2, PTL DEF Spec

-----------------------------------------------------------------------------
(* What the analysis reads.                                                *)

LEMMA ReadIs ==
  ASSUME FleetInv
  PROVE  Read
<1>1. InDiary \subseteq Launched
  BY DEF InDiary, Launched, FleetInv, Course
<1>2. IsFiniteSet(InDiary)
  BY <1>1, FS_Subset DEF FleetInv
<1> QED BY <1>2 DEF Read, FleetInv, LogTypeOK

\* The part of the lines that is in the file.
LEMMA FileIs ==
  ASSUME FleetInv, NEW r \in Runs
  PROVE  /\ file[r] \in Seq(AnyLine) /\ Len(file[r]) \in Nat
         /\ \A i \in 1..Len(file[r]) : /\ i \in 1..Len(Lines(r)) /\ Lines(r)[i] = file[r][i]
                                       /\ file[r][i] \in ToSet(Lines(r))
         /\ buffer[r] = <<>> => Lines(r) = file[r]
<1>1. PICK a \in Seq(AnyLine), b \in Seq(AnyLine) : a = file[r] /\ b = Texts(buffer[r])
  <2>1. PICK c \in Seq(Timed) : c = buffer[r]
    BY DEF FleetInv, LogTypeOK
  <2>2. Texts(c) \in Seq(AnyLine)
    BY TextsOf
  <2> QED BY <2>1, <2>2 DEF FleetInv, LogTypeOK
<1>2. Lines(r) = a \o b
  BY <1>1 DEF Lines
<1>3. \A i \in 1..Len(a) : i \in 1..Len(a \o b) /\ (a \o b)[i] = a[i]
  OBVIOUS
<1>4. ASSUME NEW i \in 1..Len(a) PROVE a[i] \in ToSet(a \o b)
  <2>1. a[i] \in ToSet(a)
    BY DEF ToSet
  <2>2. ToSet(a \o b) = ToSet(a) \cup ToSet(b)
    BY ToSetOf
  <2> QED BY <2>1, <2>2
<1>5. buffer[r] = <<>> => a \o b = a
  <2>1. Texts(<<>>) = <<>>
    BY DEF Texts
  <2>2. a \o <<>> = a
    OBVIOUS
  <2> QED BY <1>1, <2>1, <2>2
<1>6. Len(a) \in Nat
  OBVIOUS
<1> QED BY <1>1, <1>2, <1>3, <1>4, <1>5, <1>6

\* Every charger a run has lines of has its first line among them.
LEMMA MentionedIs ==
  ASSUME FleetInv, NEW r \in Runs, Intact(r)
  PROVE  Mentioned(r) \subseteq StationIds(r)
<1> SUFFICES ASSUME NEW s \in Mentioned(r) PROVE s \in StationIds(r)
  OBVIOUS
<1>1. PICK i \in 1..Len(file[r]) : file[r][i].station = s /\ s # 0
  BY DEF Mentioned
<1>2. i \in 1..Len(Lines(r)) /\ Lines(r)[i] = file[r][i] /\ Len(file[r]) \in Nat
  BY FileIs
<1>3. SpawnedFirst(Lines(r))
  BY DEF FleetInv, Story
<1>4. PICK j \in 1..i : /\ Lines(r)[j].what = "station_spawned"
                        /\ Lines(r)[j].station = Lines(r)[i].station
  BY <1>1, <1>2, <1>3 DEF SpawnedFirst
<1>5. j \in 1..Len(file[r])
  BY <1>2
<1>6. Lines(r)[j] = file[r][j]
  BY <1>5, FileIs
<1>7. j \in OfType(r, "station_spawned") /\ file[r][j].station = s
  BY <1>1, <1>2, <1>4, <1>5, <1>6 DEF OfType
<1> QED BY <1>7 DEF StationIds

\* No charger counts twice in one run.
THEOREM NobodyTwice == Spec => []NobodyCountedTwice
<1>1. FleetInv => NobodyCountedTwice
  <2> SUFFICES ASSUME FleetInv, NEW parts \in JoinedRuns, NEW a \in parts, NEW b \in parts,
                      a # b, Intact(a), Intact(b)
               PROVE  Mentioned(a) \cap Mentioned(b) = {}
    BY DEF NobodyCountedTwice
  <2>1. PartsOfEachOther(parts)
    BY ReadIs, JoinedBelongTogether
  <2>2. a \in Runs /\ b \in Runs /\ PartsOfOneRun(a, b)
    BY <2>1 DEF PartsOfEachOther, InDiary
  <2>3. StationIds(a) \cap StationIds(b) = {}
    BY <2>2 DEF PartsOfOneRun
  <2>4. Mentioned(a) \subseteq StationIds(a) /\ Mentioned(b) \subseteq StationIds(b)
    BY <2>2, MentionedIs
  <2> QED BY <2>3, <2>4
<1> QED BY <1>1, FleetAlways, PTL

\* A run with its totals in the file.
LEMMA WholeIs ==
  ASSUME FleetInv, NEW r \in Runs, Finished(r)
  PROVE  /\ phase[r] = "finished" /\ Lines(r) = file[r]
         /\ \A i \in OfType(r, "run_finished") : file[r][i].n = Cardinality(With(r, "ok"))
         /\ \A s \in Of(r) : life[r][s].at \in Told
<1>1. \A i \in OfType(r, "run_finished") :
        file[r][i] \in ToSet(Lines(r)) /\ file[r][i].what = "run_finished"
  BY FileIs DEF OfType
<1>2. /\ phase[r] = "finished"
      /\ \A i \in OfType(r, "run_finished") : file[r][i].n = Cardinality(With(r, "ok"))
  BY <1>1 DEF FleetInv, Course, Finished
<1>3. buffer[r] = <<>> /\ AllOver(r) /\ \A s \in Stations : life[r][s].at # "dropped"
  BY <1>2 DEF FleetInv, Course
<1>4. Lines(r) = file[r]
  BY <1>3, FileIs
<1>5. \A s \in Of(r) : life[r][s].at \in Told
  BY <1>3, OfIs DEF AllOver, Over, Told
<1> QED BY <1>2, <1>4, <1>5

LEMMA OutcomesAre ==
  ASSUME FleetInv, NEW r \in Runs, Finished(r), Intact(r), NEW s \in Stations
  PROVE  /\ life[r][s].at \in Told =>
              \E i \in 1..Len(file[r]) :
                /\ Outcomes(r, s) = {i} /\ file[r][i].n = life[r][s].connects
                /\ file[r][i].ok <=> life[r][s].at = "ok"
                /\ file[r][i].what = "station_crashed" <=> life[r][s].at = "crashed"
         /\ life[r][s].at \notin Told => Outcomes(r, s) = {}
         /\ Cardinality(About(r, s, "station_connected")) <= life[r][s].connects
         /\ Cardinality(About(r, s, "station_connected")) \in Nat
<1>1. ChargerTold(file[r], s, life[r][s])
  BY WholeIs DEF FleetInv, Story
<1>2. Outcomes(r, s) = {i \in 1..Len(file[r]) : IsOutcome(file[r][i], s)}
  BY DEF Outcomes, About, OfType, IsOutcome
<1>3. About(r, s, "station_connected") = ConnectionLines(file[r], s)
  BY DEF About, OfType, ConnectionLines
<1>4. Cardinality(ConnectionLines(file[r], s)) \in Nat
  <2>1. PICK L \in Seq(AnyLine) : L = file[r]
    BY FileIs
  <2>2. ConnectionLines(L, s) \subseteq 1..Len(L) /\ IsFiniteSet(1..Len(L))
    BY FS_Interval DEF ConnectionLines
  <2>3. Cardinality(ConnectionLines(L, s)) \in Nat
    BY <2>2, FS_Subset, FS_CardinalityType
  <2> QED BY <2>1, <2>3
<1>5. ASSUME life[r][s].at \in Told
      PROVE  \E i \in 1..Len(file[r]) :
                /\ Outcomes(r, s) = {i} /\ file[r][i].n = life[r][s].connects
                /\ file[r][i].ok <=> life[r][s].at = "ok"
                /\ file[r][i].what = "station_crashed" <=> life[r][s].at = "crashed"
  <2>1. PICK i \in 1..Len(file[r]) :
         /\ \A j \in 1..Len(file[r]) : IsOutcome(file[r][j], s) <=> j = i
         /\ file[r][i].n = life[r][s].connects
         /\ file[r][i].ok <=> life[r][s].at = "ok"
         /\ file[r][i].what = "station_crashed" <=> life[r][s].at = "crashed"
    BY <1>1, <1>5 DEF ChargerTold, OutcomeTold
  <2>2. Outcomes(r, s) = {i}
    BY <1>2, <2>1
  <2> QED BY <2>1, <2>2
<1>6. life[r][s].at \notin Told => Outcomes(r, s) = {}
  BY <1>1, <1>2 DEF ChargerTold, OutcomeTold
<1> QED BY <1>1, <1>3, <1>4, <1>5, <1>6 DEF ChargerTold

\* What the analysis takes for complete, and can read in full, is whole.
THEOREM CompleteRunsAreWhole == Spec => []CompleteIsWhole
<1>1. FleetInv => CompleteIsWhole
  <2> SUFFICES ASSUME FleetInv, NEW parts \in JoinedRuns, Completed(parts),
                      NEW r \in parts, Intact(r)
               PROVE  /\ phase[r] = "finished"
                      /\ \A s \in Of(r) : Cardinality(Outcomes(r, s)) = 1
                      /\ \A s \in Of(r) : ConnectTimes(r, s) = life[r][s].connects
                      /\ \A i \in OfType(r, "run_finished") :
                           file[r][i].n = Cardinality(Succeeded(r))
                      /\ ExitStatus(r) = 0 <=>
                           Succeeded(r) # {} /\ OfType(r, "station_crashed") = {}
    BY DEF CompleteIsWhole
  <2>1. r \in Runs /\ Finished(r)
    <3>1. PartsOfEachOther(parts)
      BY ReadIs, JoinedBelongTogether
    <3> QED BY <3>1 DEF PartsOfEachOther, InDiary, Completed
  <2>2. /\ phase[r] = "finished"
        /\ \A i \in OfType(r, "run_finished") : file[r][i].n = Cardinality(With(r, "ok"))
        /\ \A s \in Of(r) : life[r][s].at \in Told
    BY <2>1, WholeIs
  <2>3. Of(r) \subseteq Stations
    BY <2>1, OfIs
  <2>4. ASSUME NEW s \in Of(r)
        PROVE  \E i \in 1..Len(file[r]) :
                 /\ Outcomes(r, s) = {i} /\ file[r][i].n = life[r][s].connects
                 /\ file[r][i].ok <=> life[r][s].at = "ok"
                 /\ file[r][i].what = "station_crashed" <=> life[r][s].at = "crashed"
    BY <2>1, <2>2, <2>3, OutcomesAre
  <2>5. ASSUME NEW s \in Of(r) PROVE Cardinality(Outcomes(r, s)) = 1
    <3>1. PICK i : Outcomes(r, s) = {i}
      BY <2>4
    <3> QED BY <3>1, FS_Singleton
  <2>6. ASSUME NEW s \in Of(r) PROVE ConnectTimes(r, s) = life[r][s].connects
    <3>1. PICK i \in 1..Len(file[r]) :
            Outcomes(r, s) = {i} /\ file[r][i].n = life[r][s].connects
      BY <2>4
    <3>2. Max({i}) = i
      BY DEF Max
    <3>3. /\ Cardinality(About(r, s, "station_connected")) <= life[r][s].connects
          /\ Cardinality(About(r, s, "station_connected")) \in Nat
          /\ life[r][s].connects \in Nat
      BY <2>1, <2>3, OutcomesAre, LivesIs
    <3> QED BY <3>1, <3>2, <3>3 DEF ConnectTimes
  <2>7. Succeeded(r) = With(r, "ok")
    <3>1. ASSUME NEW s \in Of(r)
          PROVE  (\E j \in Outcomes(r, s) : file[r][j].ok) <=> life[r][s].at = "ok"
      BY <2>4
    <3> QED BY <3>1 DEF Succeeded, With
  <2>8. OfType(r, "station_crashed") = {} <=> With(r, "crashed") = {}
    <3>1. ASSUME NEW s \in With(r, "crashed") PROVE OfType(r, "station_crashed") # {}
      <4>1. s \in Of(r) /\ life[r][s].at = "crashed"
        BY DEF With
      <4> QED BY <2>4, <4>1 DEF OfType
    <3>2. ASSUME NEW i \in OfType(r, "station_crashed") PROVE With(r, "crashed") # {}
      <4>1. i \in 1..Len(file[r]) /\ file[r][i].what = "station_crashed" /\ file[r][i] \in AnyLine
        BY <2>1, FileIs DEF OfType
      <4>2. PICK s \in Stations : s = file[r][i].station
        BY <4>1 DEF AnyLine, RunLines, ChargerLines
      <4>3. i \in Outcomes(r, s)
        BY <4>1, <4>2 DEF Outcomes, About, OfType
      <4>4. life[r][s].at \in Told
        BY <2>1, <4>3, OutcomesAre
      <4>5. s \in Of(r)
        BY <2>1, <4>4, LivesIs DEF Told
      <4>6. life[r][s].at = "crashed"
        BY <2>4, <4>1, <4>3, <4>5
      <4> QED BY <4>5, <4>6 DEF With
    <3> QED BY <3>1, <3>2
  <2>9. ExitStatus(r) = 0 <=> With(r, "crashed") = {} /\ With(r, "ok") # {}
    BY <2>2 DEF ExitStatus
  <2> QED BY <2>2, <2>5, <2>6, <2>7, <2>8, <2>9
<1> QED BY <1>1, FleetAlways, PTL

=============================================================================
