---------------------------- MODULE TracerProofs ----------------------------
(***************************************************************************)
(* What the tracer's logs keep, for any metrics, calls of StartTrace and    *)
(* faults.                                                                  *)
(*                                                                          *)
(* An append holds its log's mutex, StartTrace and the writers do not.  The *)
(* length an append writes is therefore the true one, or that of a log that *)
(* was cleared in between and keeps nothing (Kept).  An append lengthens    *)
(* its log once, so no length exceeds the number of metrics that have       *)
(* lengthened that log, whatever is cleared (Bounded).                      *)
(*                                                                          *)
(* What the reports say.  The statistics are folds, of which nothing can be *)
(* shown by induction; but among the sets of positions for which a fold     *)
(* went wrong there would be one of the fewest elements, and the step for   *)
(* its last one contradicts it (StatTells).  Sums over rows are counts of   *)
(* the positions behind them, as no two rows share any (SumOfGroups).       *)
(* RowsMade is what the rows were made of; it is still in the log when the  *)
(* writer reads the log again, if it is not cut (StillThere), because the   *)
(* length it saw is not ahead of an append's (Reach).                       *)
(***************************************************************************)
EXTENDS Tracer, FiniteSetTheorems, WellFoundedInduction, TLAPS

-----------------------------------------------------------------------------
\* A set of naturals has a least element.
LEMMA LeastNat ==
  ASSUME NEW T \in SUBSET Nat, T # {}
  PROVE  \E x \in T : \A y \in T : x <= y
<1>1. PICK x \in T : \A y \in T : ~ (<<y, x>> \in OpToRel(<, Nat))
  BY NatLessThanWellFounded, WFMin, ZenonT(20)
<1>2. \A y \in T : ~ (y < x)
  BY <1>1 DEF OpToRel
<1> QED
  BY <1>2

\* Among finite sets there is one of the fewest elements.
LEMMA SmallestSet ==
  ASSUME NEW S, IsFiniteSet(S), NEW W \in SUBSET (SUBSET S), W # {}
  PROVE  \E T \in W : /\ IsFiniteSet(T)
                      /\ \A x \in T : T \ {x} \notin W
<1> DEFINE Sizes == {Cardinality(T) : T \in W}
<1>1. \A T \in W : IsFiniteSet(T) /\ Cardinality(T) \in Nat
  BY FS_Subset, FS_CardinalityType
<1>2. PICK n \in Sizes : \A k \in Sizes : n <= k
  <2>1. Sizes \in SUBSET Nat /\ Sizes # {}
    BY <1>1
  <2> QED
    BY <2>1, LeastNat
<1>3. PICK T \in W : n = Cardinality(T)
  BY <1>2
<1>4. \A x \in T : T \ {x} \notin W
  <2> SUFFICES ASSUME NEW x \in T, T \ {x} \in W PROVE FALSE
    OBVIOUS
  <2>1. Cardinality(T \ {x}) = n - 1 /\ n \in Nat
    BY <1>1, <1>3, FS_RemoveElement
  <2>2. n <= Cardinality(T \ {x})
    BY <1>2
  <2> QED
    BY <2>1, <2>2
<1> QED
  BY <1>1, <1>4

-----------------------------------------------------------------------------
\* Sums.  h has the sum of w over every subset of S.

Sums(h, w, S) ==
    /\ h \in [SUBSET S -> Nat]
    /\ h[{}] = 0
    /\ \A T \in SUBSET S : \A x \in T : h[T] = w[x] + h[T \ {x}]

LEMMA SumsExist ==
  ASSUME NEW S, IsFiniteSet(S), NEW w \in [S -> Nat]
  PROVE  \E h : Sums(h, w, S)
<1> DEFINE Without == {T \in SUBSET S : \A h : ~ Sums(h, w, T)}
<1> SUFFICES ASSUME Without # {} PROVE FALSE
  OBVIOUS
<1>1. PICK T \in Without : \A x \in T : T \ {x} \notin Without
  <2>1. Without \in SUBSET (SUBSET S)
    OBVIOUS
  <2> HIDE DEF Without
  <2> QED
    BY <2>1, SmallestSet
<1>2. CASE T = {}
  <2>1. Sums([U \in SUBSET {} |-> 0], w, {})
    BY DEF Sums
  <2> QED
    BY <1>2, <2>1
<1>3. CASE T # {}
  <2>1. PICK z \in T : TRUE
    BY <1>3
  <2>2. PICK h : Sums(h, w, T \ {z})
    BY <1>1, <2>1
  <2> DEFINE g == [U \in SUBSET T |-> IF z \in U THEN w[z] + h[U \ {z}] ELSE h[U]]
  <2>3. \A U \in SUBSET T : /\ U \ {z} \in SUBSET (T \ {z})
                            /\ h[U \ {z}] \in Nat
                            /\ z \notin U => U \ {z} = U
    BY <2>2 DEF Sums
  <2>4. w[z] \in Nat /\ \A x \in T : w[x] \in Nat
    BY <2>1
  <2>5. g \in [SUBSET T -> Nat]
    <3>1. \A U \in SUBSET T : (IF z \in U THEN w[z] + h[U \ {z}] ELSE h[U]) \in Nat
      BY <2>3, <2>4
    <3> QED
      BY <3>1, Zenon
  <2>6. g[{}] = 0
    BY <2>2 DEF Sums
  <2>7. ASSUME NEW U \in SUBSET T, NEW x \in U
        PROVE  g[U] = w[x] + g[U \ {x}]
    <3>1. U \ {x} \in SUBSET T
      OBVIOUS
    <3>2. CASE z \notin U
      <4>1. h[U] = w[x] + h[U \ {x}]
        BY <2>2, <2>3, <3>2 DEF Sums
      <4> QED
        BY <3>1, <3>2, <4>1
    <3>3. CASE x = z
      BY <3>1, <3>3
    <3>4. CASE z \in U /\ x # z
      <4>1. h[U \ {z}] = w[x] + h[(U \ {z}) \ {x}]
        BY <2>2, <2>3, <3>4 DEF Sums
      <4>2. (U \ {z}) \ {x} = (U \ {x}) \ {z}
        OBVIOUS
      <4>3. g[U] = w[z] + h[U \ {z}] /\ g[U \ {x}] = w[z] + h[(U \ {x}) \ {z}]
        BY <3>1, <3>4
      <4>4. h[(U \ {x}) \ {z}] \in Nat /\ w[x] \in Nat /\ w[z] \in Nat
        BY <2>3, <2>4, <3>1
      <4> HIDE DEF g
      <4>5. g[U] = w[z] + (w[x] + h[(U \ {x}) \ {z}])
        BY <4>1, <4>2, <4>3
      <4> QED
        BY <4>3, <4>4, <4>5
    <3> QED
      BY <3>2, <3>3, <3>4
  <2>8. Sums(g, w, T)
    BY <2>5, <2>6, <2>7 DEF Sums
  <2> QED
    BY <2>8
<1> QED
  BY <1>2, <1>3

\* SumFunction, which takes the elements in the order of CHOOSE, is that sum.
LEMMA SumIs ==
  ASSUME NEW S, IsFiniteSet(S), NEW w \in [S -> Nat], NEW h, Sums(h, w, S)
  PROVE  SumFunction(w) = h[S]
<1> DEFINE First(s) == CHOOSE x \in s : TRUE
           Body(it, s) == IF s = {} THEN 0 ELSE w[First(s)] + it[s \ {First(s)}]
           Is(it) == it = [s \in SUBSET DOMAIN w |-> Body(it, s)]
           I == CHOOSE it : Is(it)
<1>1. SumFunction(w) = I[DOMAIN w]
  BY DEF SumFunction, SumFunctionOnSet, FoldFunctionOnSet, MapThenFoldSet
<1>2. DOMAIN w = S
  OBVIOUS
<1>3. \A s : s # {} => First(s) \in s
  OBVIOUS
<1> HIDE DEF First
<1>4. \A s \in SUBSET S : Body(h, s) = h[s]
  BY <1>3 DEF Sums
<1>5. Is(h)
  <2>1. h = [s \in SUBSET S |-> h[s]]
    BY DEF Sums
  <2> HIDE DEF Body
  <2> QED
    BY <1>2, <1>4, <2>1
<1>6. Is(I)
  <2> HIDE DEF Is
  <2> QED
    BY <1>5
<1> HIDE DEF I
<1>7. \A s \in SUBSET S : I[s] = Body(I, s)
  BY <1>2, <1>6
<1> DEFINE Wrong == {s \in SUBSET S : I[s] # h[s]}
<1>8. Wrong = {}
  <2> SUFFICES ASSUME Wrong # {} PROVE FALSE
    OBVIOUS
  <2>1. PICK s \in Wrong : \A x \in s : s \ {x} \notin Wrong
    <3>1. Wrong \in SUBSET (SUBSET S)
      OBVIOUS
    <3> HIDE DEF Wrong
    <3> QED
      BY <3>1, SmallestSet
  <2>2. CASE s = {}
    BY <1>7, <2>1, <2>2 DEF Sums
  <2>3. CASE s # {}
    <3>1. First(s) \in s /\ s \ {First(s)} \in SUBSET S
      BY <1>3, <2>3
    <3>2. I[s \ {First(s)}] = h[s \ {First(s)}]
      BY <2>1, <3>1
    <3> QED
      BY <1>4, <1>7, <2>1, <2>3, <3>2
  <2> QED
    BY <2>2, <2>3
<1> QED
  BY <1>1, <1>2, <1>8


\* Sums over sets that have nothing in common add up.
LEMMA SumOfTwo ==
  ASSUME NEW S, IsFiniteSet(S), NEW w \in [S -> Nat], NEW h, Sums(h, w, S),
         NEW A \in SUBSET S, NEW B \in SUBSET S, A \cap B = {}
  PROVE  h[A \cup B] = h[A] + h[B]
<1> DEFINE Wrong == {T \in SUBSET A : h[T \cup B] # h[T] + h[B]}
<1>1. Wrong = {}
  <2> SUFFICES ASSUME Wrong # {} PROVE FALSE
    OBVIOUS
  <2>1. PICK T \in Wrong : \A x \in T : T \ {x} \notin Wrong
    <3>1. Wrong \in SUBSET (SUBSET S)
      OBVIOUS
    <3> HIDE DEF Wrong
    <3> QED
      BY <3>1, SmallestSet
  <2>2. T \in SUBSET A /\ T \in SUBSET S /\ h[T \cup B] # h[T] + h[B] /\ h[B] \in Nat
    BY <2>1 DEF Sums
  <2>3. CASE T = {}
    <3>1. T \cup B = B
      BY <2>3
    <3> QED
      BY <2>2, <2>3, <3>1 DEF Sums
  <2>4. CASE T # {}
    <3>1. PICK x \in T : TRUE
      BY <2>4
    <3>2. h[(T \ {x}) \cup B] = h[T \ {x}] + h[B]
      BY <2>1, <2>2, <3>1
    <3>3. /\ x \in T \cup B /\ T \cup B \in SUBSET S
          /\ (T \cup B) \ {x} = (T \ {x}) \cup B
      BY <2>2, <3>1
    <3>4. h[T \cup B] = w[x] + h[(T \ {x}) \cup B] /\ h[T] = w[x] + h[T \ {x}]
      BY <2>2, <3>1, <3>3, ZenonT(30) DEF Sums
    <3>5. w[x] \in Nat /\ h[T \ {x}] \in Nat
      BY <2>2, <3>1 DEF Sums
    <3> QED
      BY <2>2, <3>2, <3>4, <3>5
  <2> QED
    BY <2>3, <2>4
<1> QED
  BY <1>1

\* B groups what is in U, and nothing twice.
Parts(B, R, U, S) ==
    /\ IsFiniteSet(R) /\ B \in [R -> SUBSET S]
    /\ \A r, q \in R : r # q => B[r] \cap B[q] = {}
    /\ U \in SUBSET S /\ \A x \in S : x \in U <=> \E r \in R : x \in B[r]

\* The sum over groups that share nothing is the sum over all they have.
LEMMA SumOfGroups ==
  ASSUME NEW S, IsFiniteSet(S), NEW w \in [S -> Nat], NEW h, Sums(h, w, S),
         NEW R, NEW B, NEW U, Parts(B, R, U, S)
  PROVE  SumFunction([r \in R |-> h[B[r]]]) = h[U]
<1> DEFINE All(T) == UNION {B[r] : r \in T}
           v == [r \in R |-> h[B[r]]]
<1>0. /\ IsFiniteSet(R) /\ B \in [R -> SUBSET S]
      /\ \A r, q \in R : r # q => B[r] \cap B[q] = {}
      /\ U \in SUBSET S /\ \A x \in S : x \in U <=> \E r \in R : x \in B[r]
  BY DEF Parts
<1>v. v \in [R -> Nat] /\ \A r \in R : v[r] = h[B[r]]
  BY <1>0 DEF Sums
<1> HIDE DEF v
<1>1. PICK g : Sums(g, v, R)
  BY <1>0, <1>v, SumsExist
<1>2. SumFunction(v) = g[R]
  BY <1>0, <1>1, <1>v, SumIs
<1> DEFINE Wrong == {T \in SUBSET R : g[T] # h[All(T)]}
<1>3. Wrong = {}
  <2> SUFFICES ASSUME Wrong # {} PROVE FALSE
    OBVIOUS
  <2>1. PICK T \in Wrong : \A r \in T : T \ {r} \notin Wrong
    <3>1. Wrong \in SUBSET (SUBSET R)
      OBVIOUS
    <3> HIDE DEF Wrong
    <3> QED
      BY <1>0, <3>1, SmallestSet
  <2>2. T \in SUBSET R /\ g[T] # h[All(T)]
    BY <2>1
  <2>3. CASE T = {}
    <3>1. All(T) = {}
      BY <2>3
    <3> QED
      BY <1>1, <2>2, <2>3, <3>1 DEF Sums
  <2>4. CASE T # {}
    <3>1. PICK r \in T : TRUE
      BY <2>4
    <3>2. g[T \ {r}] = h[All(T \ {r})]
      BY <2>1, <2>2, <3>1
    <3>3. g[T] = v[r] + g[T \ {r}]
      BY <1>1, <2>2, <3>1 DEF Sums
    <3>4. All(T) = B[r] \cup All(T \ {r})
      OBVIOUS
    <3>5. B[r] \in SUBSET S /\ All(T \ {r}) \in SUBSET S
      BY <1>0, <2>2, <3>1
    <3>6. B[r] \cap All(T \ {r}) = {}
      BY <1>0, <2>2, <3>1
    <3>7. h[All(T)] = h[B[r]] + h[All(T \ {r})]
      <4> DEFINE b == B[r]
                 c == All(T \ {r})
      <4>1. b \in SUBSET S /\ c \in SUBSET S /\ b \cap c = {}
        BY <3>5, <3>6
      <4> HIDE DEF b, c
      <4>2. h[b \cup c] = h[b] + h[c]
        BY <4>1, SumOfTwo, SMTT(30)
      <4> QED
        BY <3>4, <4>2 DEF b, c
    <3> QED
      BY <1>v, <2>2, <3>1, <3>2, <3>3, <3>7
  <2> QED
    BY <2>3, <2>4
<1>4. All(R) = U
  BY <1>0
<1> QED
  BY <1>2, <1>3, <1>4 DEF v

\* The number of elements is such a sum.
LEMMA CardinalitySums ==
  ASSUME NEW S, IsFiniteSet(S)
  PROVE  Sums([T \in SUBSET S |-> Cardinality(T)], [x \in S |-> 1], S)
<1>1. \A T \in SUBSET S : IsFiniteSet(T) /\ Cardinality(T) \in Nat
  BY FS_Subset, FS_CardinalityType
<1>2. Cardinality({}) = 0
  BY FS_EmptySet
<1>3. ASSUME NEW T \in SUBSET S, NEW x \in T
      PROVE  Cardinality(T) = 1 + Cardinality(T \ {x}) /\ T \ {x} \in SUBSET S
  BY <1>1, FS_RemoveElement
<1> QED
  BY <1>1, <1>2, <1>3 DEF Sums

-----------------------------------------------------------------------------
\* Statistics.

\* Max of a nonempty set of positions is its greatest element.
LEMMA MaxIsGreatest ==
  ASSUME NEW n \in Nat, NEW T \in SUBSET (1 .. n), T # {}
  PROVE  Max(T) \in T /\ \A i \in T : i <= Max(T)
<1> DEFINE U == {n - i : i \in T}
<1>1. U \in SUBSET Nat /\ U # {}
  <2>1. \A i \in T : n - i \in Nat
    OBVIOUS
  <2> QED
    BY <2>1
<1>2. PICK x \in U : \A y \in U : x <= y
  BY <1>1, LeastNat
<1>3. PICK k \in T : x = n - k
  BY <1>2
<1>4. \A i \in T : k >= i
  <2> TAKE i \in T
  <2>1. n - i \in U
    OBVIOUS
  <2> QED
    BY <1>2, <1>3, <2>1
<1>5. Max(T) \in T /\ \A i \in T : Max(T) >= i
  BY <1>4 DEF Max
<1> QED
  BY <1>5

\* What it holds of h that it has the statistic of every subset of P.
Folded(h, ms, s) ==
    IF s = {} THEN Zero
    ELSE CountIn(h[s \ {Max(s)}], Duration[ms[Max(s)]])

Folds(h, ms, P) == h = [s \in SUBSET P |-> Folded(h, ms, s)]

LEMMA FoldsExist ==
  ASSUME NEW ms \in Seq(Metrics), NEW P \in SUBSET DOMAIN ms
  PROVE  \E h : Folds(h, ms, P)
<1> DEFINE n == Len(ms)
           Without == {T \in SUBSET (1 .. n) : \A h : ~ Folds(h, ms, T)}
<1>0. n \in Nat /\ DOMAIN ms = 1 .. n /\ IsFiniteSet(1 .. n)
  BY FS_Interval
<1> SUFFICES ASSUME Without # {} PROVE FALSE
  BY <1>0
<1> HIDE DEF n
<1>1. PICK T \in Without : \A x \in T : T \ {x} \notin Without
  <2>1. Without \in SUBSET (SUBSET (1 .. n))
    OBVIOUS
  <2> HIDE DEF Without
  <2> QED
    BY <1>0, <2>1, SmallestSet
<1>2. CASE T = {}
  <2> DEFINE g == [s \in SUBSET {} |-> Zero]
  <2>1. Folds(g, ms, {})
    BY DEF Folds, Folded
  <2> QED
    BY <1>1, <1>2, <2>1
<1>3. CASE T # {}
  <2> DEFINE z == Max(T)
  <2>1. z \in T /\ \A i \in T : i <= z
    BY <1>0, <1>3, MaxIsGreatest
  <2> HIDE DEF z
  <2>2. PICK h : Folds(h, ms, T \ {z})
    BY <1>1, <2>1
  <2> DEFINE g == [s \in SUBSET T |-> IF z \in s THEN CountIn(h[s \ {z}], Duration[ms[z]])
                                      ELSE h[s]]
  <2>3. ASSUME NEW s \in SUBSET T
        PROVE  g[s] = Folded(g, ms, s)
    <3>1. CASE s = {}
      <4>1. {} \in SUBSET (T \ {z}) /\ g[{}] = h[{}]
        OBVIOUS
      <4>2. h[{}] = Folded(h, ms, {})
        BY <2>2, <4>1 DEF Folds
      <4> QED
        BY <3>1, <4>1, <4>2 DEF Folded
    <3>2. CASE s # {}
      <4>1. Max(s) \in s /\ \A i \in s : i <= Max(s)
        BY <1>0, <3>2, MaxIsGreatest
      <4>2. s \ {Max(s)} \in SUBSET T
        OBVIOUS
      <4>3. CASE z \in s
        <5>1. Max(s) = z
          <6>1. z <= Max(s) /\ Max(s) <= z
            BY <2>1, <4>1, <4>3
          <6>2. z \in 1 .. n /\ Max(s) \in 1 .. n
            BY <2>1, <4>1, <4>3
          <6> QED
            BY <1>0, <6>1, <6>2
        <5>2. g[s] = CountIn(h[s \ {z}], Duration[ms[z]]) /\ g[s \ {z}] = h[s \ {z}]
          BY <4>2, <4>3, <5>1
        <5> HIDE DEF g
        <5> QED
          BY <3>2, <5>1, <5>2 DEF Folded
      <4>4. CASE z \notin s
        <5>1. s \in SUBSET (T \ {z}) /\ g[s] = h[s] /\ g[s \ {Max(s)}] = h[s \ {Max(s)}]
          BY <4>2, <4>4
        <5>2. h[s] = Folded(h, ms, s)
          BY <2>2, <5>1 DEF Folds
        <5> HIDE DEF g
        <5> QED
          BY <3>2, <5>1, <5>2 DEF Folded
      <4> QED
        BY <4>3, <4>4
    <3> QED
      BY <3>1, <3>2
  <2>4. Folds(g, ms, T)
    <3>1. g = [s \in SUBSET T |-> g[s]]
      OBVIOUS
    <3> HIDE DEF g
    <3> QED
      BY <2>3, <3>1 DEF Folds
  <2> QED
    BY <1>1, <2>4
<1> QED
  BY <1>2, <1>3

LEMMA StatFolds ==
  ASSUME NEW ms \in Seq(Metrics), NEW P \in SUBSET DOMAIN ms
  PROVE  \E h : Stat(ms, P) = h[P] /\ \A s \in SUBSET P : h[s] = Folded(h, ms, s)
<1> DEFINE I == CHOOSE h : Folds(h, ms, P)
<1>1. Stat(ms, P) = I[P]
  BY DEF Stat, MapThenFoldSet, Folds, Folded
<1>2. Folds(I, ms, P)
  BY FoldsExist
<1> HIDE DEF I
<1>3. \A s \in SUBSET P : I[s] = Folded(I, ms, s)
  BY <1>2 DEF Folds
<1> QED
  BY <1>1, <1>3

\* The durations at some positions.
Durations(ms, P) == {Duration[ms[i]] : i \in P}

Timed(ms) == [i \in DOMAIN ms |-> Duration[ms[i]]]

\* What a statistic says of the positions it was made of.
Tells(stat, ms, g, P) ==
    /\ stat.count = Cardinality(P)
    /\ stat.total = g[P]
    /\ stat.min \in Nat /\ stat.max \in Nat
    /\ P # {} => /\ {stat.min, stat.max} \subseteq Durations(ms, P)
                 /\ \A d \in Durations(ms, P) : d <= stat.max
                 /\ 0 \notin Durations(ms, P) => \A d \in Durations(ms, P) : stat.min <= d

LEMMA CountInTells ==
  ASSUME NEW ms \in Seq(Metrics), NEW P \in SUBSET DOMAIN ms, NEW x \in P,
         NEW g, Sums(g, Timed(ms), DOMAIN ms),
         NEW stat, P = {x} => stat = Zero, Tells(stat, ms, g, P \ {x})
  PROVE  Tells(CountIn(stat, Duration[ms[x]]), ms, g, P)
<1> DEFINE d == Duration[ms[x]]
           Q == P \ {x}
           new == CountIn(stat, d)
<1>1. d \in Nat /\ IsFiniteSet(DOMAIN ms)
  BY ConstantsAssumption, FS_Interval
<1>2. /\ Cardinality(Q) \in Nat /\ Cardinality(P) = Cardinality(Q) + 1
      /\ g[P] = d + g[Q] /\ g[Q] \in Nat
  <2>1. IsFiniteSet(P) /\ IsFiniteSet(Q)
    BY <1>1, FS_Subset
  <2>2. Cardinality(Q) \in Nat /\ Cardinality(P) \in Nat /\ Cardinality(Q) = Cardinality(P) - 1
    BY <2>1, FS_RemoveElement, FS_CardinalityType
  <2>3. P \in SUBSET DOMAIN ms /\ Q \in SUBSET DOMAIN ms /\ Timed(ms)[x] = d
    BY DEF Timed
  <2>4. g[P] = Timed(ms)[x] + g[Q] /\ g[Q] \in Nat
    BY <2>3 DEF Sums
  <2> QED
    BY <2>2, <2>3, <2>4
<1>3. Durations(ms, P) = Durations(ms, Q) \cup {d}
  BY DEF Durations
<1>4. Durations(ms, Q) \subseteq Nat
  BY ConstantsAssumption DEF Durations
<1>5. Q # {} => Durations(ms, Q) # {}
  BY DEF Durations
<1>6. /\ stat.count = Cardinality(Q) /\ stat.total = g[Q] /\ stat.min \in Nat /\ stat.max \in Nat
  BY DEF Tells
<1> DEFINE lo == IF d < stat.min \/ stat.min = 0 THEN d ELSE stat.min
           hi == IF d > stat.max THEN d ELSE stat.max
<1>7. /\ new.count = stat.count + 1 /\ new.total = stat.total + d
      /\ new.min = lo /\ new.max = hi
  BY DEF CountIn
<1>8. lo \in Nat /\ hi \in Nat
  BY <1>1, <1>6
<1>9. /\ {lo, hi} \subseteq Durations(ms, P)
      /\ \A e \in Durations(ms, P) : e <= hi
      /\ 0 \notin Durations(ms, P) => \A e \in Durations(ms, P) : lo <= e
  <2>1. CASE Q = {}
    <3>1. stat.min = 0 /\ stat.max = 0
      <4>1. P = {x}
        BY <2>1
      <4> QED
        BY <4>1 DEF Zero
    <3>2. lo = d /\ hi = d
      BY <1>1, <3>1
    <3>3. Durations(ms, P) = {d}
      BY <1>3, <2>1 DEF Durations
    <3> QED
      BY <1>1, <3>2, <3>3
  <2>2. CASE Q # {}
    <3>1. /\ stat.min \in Durations(ms, Q) /\ stat.max \in Durations(ms, Q)
          /\ \A e \in Durations(ms, Q) : e <= stat.max
          /\ 0 \notin Durations(ms, Q) => \A e \in Durations(ms, Q) : stat.min <= e
      BY <2>2 DEF Tells
    <3> HIDE DEF Q, d
    <3>2. lo \in Durations(ms, P) /\ hi \in Durations(ms, P)
      BY <1>3, <3>1
    <3>3. ASSUME NEW e \in Durations(ms, P)
          PROVE  e <= hi
      BY <1>1, <1>3, <1>4, <1>6, <3>1, <3>3
    <3>4. ASSUME 0 \notin Durations(ms, P), NEW e \in Durations(ms, P)
          PROVE  lo <= e
      <4>1. 0 \notin Durations(ms, Q) /\ stat.min # 0
        BY <1>3, <3>1, <3>4
      <4> QED
        BY <1>1, <1>3, <1>4, <1>6, <3>1, <3>4, <4>1
    <3> QED
      BY <3>2, <3>3, <3>4
  <2> QED
    BY <2>1, <2>2
<1> HIDE DEF lo, hi, new, d, Q
<1> QED
  BY <1>1, <1>2, <1>6, <1>7, <1>8, <1>9 DEF Tells, new, d, Q

LEMMA StatTells ==
  ASSUME NEW ms \in Seq(Metrics), NEW P \in SUBSET DOMAIN ms,
         NEW g, Sums(g, Timed(ms), DOMAIN ms)
  PROVE  Tells(Stat(ms, P), ms, g, P)
<1>1. PICK h : Stat(ms, P) = h[P] /\ \A s \in SUBSET P : h[s] = Folded(h, ms, s)
  BY StatFolds
<1>2. DOMAIN ms = 1 .. Len(ms) /\ Len(ms) \in Nat /\ IsFiniteSet(DOMAIN ms)
  BY FS_Interval
<1> DEFINE Wrong == {T \in SUBSET P : ~ Tells(h[T], ms, g, T)}
<1>3. Wrong = {}
  <2> SUFFICES ASSUME Wrong # {} PROVE FALSE
    OBVIOUS
  <2>1. PICK T \in Wrong : \A x \in T : T \ {x} \notin Wrong
    <3>1. Wrong \in SUBSET (SUBSET DOMAIN ms)
      OBVIOUS
    <3> HIDE DEF Wrong
    <3> QED
      BY <1>2, <3>1, SmallestSet
  <2>2. T \in SUBSET P /\ T \in SUBSET DOMAIN ms /\ ~ Tells(h[T], ms, g, T)
    BY <2>1
  <2>3. CASE T = {}
    <3>1. h[T] = Zero
      BY <1>1, <2>2, <2>3 DEF Folded
    <3>2. Cardinality(T) = 0 /\ g[T] = 0
      BY <2>3, FS_EmptySet DEF Sums
    <3>3. Tells(Zero, ms, g, T)
      BY <2>3, <3>2 DEF Tells, Zero
    <3> QED
      BY <2>2, <3>1, <3>3
  <2>4. CASE T # {}
    <3> DEFINE x == Max(T)
    <3>1. x \in T
      BY <1>2, <2>2, <2>4, MaxIsGreatest
    <3>2. h[T] = CountIn(h[T \ {x}], Duration[ms[x]])
      BY <1>1, <2>2, <2>4 DEF Folded
    <3> HIDE DEF x
    <3>3. Tells(h[T \ {x}], ms, g, T \ {x})
      BY <2>1, <2>2, <3>1
    <3>4. T = {x} => h[T \ {x}] = Zero
      <4>1. h[{}] = Zero
        BY <1>1 DEF Folded
      <4> QED
        BY <4>1
    <3>5. Tells(CountIn(h[T \ {x}], Duration[ms[x]]), ms, g, T)
      BY <2>2, <3>1, <3>3, <3>4, CountInTells
    <3> QED
      BY <2>2, <3>2, <3>5
  <2> QED
    BY <2>3, <2>4
<1> QED
  BY <1>1, <1>3

-----------------------------------------------------------------------------
\* Rows.

LEMMA ImageFinite ==
  ASSUME NEW S, IsFiniteSet(S), NEW f, DOMAIN f = S
  PROVE  IsFiniteSet({f[x] : x \in S})
<1> DEFINE T == {f[x] : x \in S}
           g == [x \in S |-> f[x]]
<1>1. g \in Surjection(S, T)
  BY DEF Surjection
<1> QED
  BY <1>1, FS_Surjection

OfPath(ms, p) == Having(ms, DOMAIN ms, Path, p)

\* What a row is made of.
Shows(r, rms, sms) ==
    /\ r.requests = Stat(rms, OfPath(rms, r.path))
    /\ DOMAIN r.sql = Values(sms, OfPath(sms, r.path), Query)
    /\ \A q \in DOMAIN r.sql : r.sql[q] = Stat(sms, Having(sms, OfPath(sms, r.path), Query, q))

LEMMA StatOfNone ==
  ASSUME NEW ms \in Seq(Metrics)
  PROVE  Stat(ms, {}) = Zero
<1>1. {} \in SUBSET DOMAIN ms
  OBVIOUS
<1>2. PICK h : Stat(ms, {}) = h[{}] /\ \A s \in SUBSET {} : h[s] = Folded(h, ms, s)
  BY <1>1, StatFolds
<1> QED
  BY <1>2 DEF Folded

LEMMA RowsShow ==
  ASSUME NEW rms \in Seq(Metrics), NEW sms \in Seq(Metrics)
  PROVE  LET R == makeRequestStats(rms, sms)
         IN  /\ \A r \in R : Shows(r, rms, sms)
             /\ \A r, s \in R : r.path = s.path => r = s
             /\ \A i \in DOMAIN rms : \E r \in R : r.path = Path[rms[i]]
             /\ \A i \in DOMAIN sms : \E r \in R : r.path = Path[sms[i]]
             /\ IsFiniteSet(R)
<1> DEFINE R == makeRequestStats(rms, sms)
           sql == makeStatsMap(sms)
           known == Values(rms, DOMAIN rms, Path)
           paths == Values(sms, DOMAIN sms, Path)
<1>1. /\ DOMAIN sql = paths
      /\ \A p \in paths : sql[p] = makeStats(sms, OfPath(sms, p))
  BY DEF makeStatsMap, OfPath
<1>2. /\ \A p : DOMAIN makeStats(sms, OfPath(sms, p)) = Values(sms, OfPath(sms, p), Query)
      /\ \A p : \A q \in Values(sms, OfPath(sms, p), Query) :
             makeStats(sms, OfPath(sms, p))[q] = Stat(sms, Having(sms, OfPath(sms, p), Query, q))
  BY DEF makeStats
<1>3. \A p : p \notin paths => Values(sms, OfPath(sms, p), Query) = {}
  BY DEF Values, OfPath, Having
<1>4. \A p : p \notin known => Stat(rms, OfPath(rms, p)) = Zero
  <2>1. \A p : p \notin known => OfPath(rms, p) = {}
    BY DEF Values, OfPath, Having
  <2> QED
    BY <2>1, StatOfNone
<1> DEFINE A(p) == Row(p, Requests(rms, p), At(sql, p))
           B(p) == Row(p, Zero, sql[p])
<1>5. R = {A(p) : p \in known} \cup {B(p) : p \in paths \ known}
  BY <1>1 DEF makeRequestStats
<1>6. \A p : A(p).path = p /\ B(p).path = p
  BY DEF Row
<1>7. ASSUME NEW p \in known
      PROVE  Shows(A(p), rms, sms)
  <2>1. /\ A(p).path = p /\ A(p).requests = Stat(rms, OfPath(rms, p)) /\ A(p).sql = At(sql, p)
    BY DEF Row, Requests, OfPath
  <2> HIDE DEF A, sql
  <2>2. CASE p \in paths
    BY <1>1, <1>2, <2>1, <2>2 DEF Shows, At
  <2>3. CASE p \notin paths
    <3>1. A(p).sql = << >> /\ DOMAIN A(p).sql = {}
      BY <1>1, <2>1, <2>3 DEF At
    <3> QED
      BY <1>3, <2>1, <2>3, <3>1 DEF Shows
  <2> QED
    BY <2>2, <2>3
<1>8. ASSUME NEW p \in paths \ known
      PROVE  Shows(B(p), rms, sms)
  <2>1. B(p).path = p /\ B(p).requests = Zero /\ B(p).sql = sql[p]
    BY DEF Row
  <2> HIDE DEF B, sql
  <2> QED
    BY <1>1, <1>2, <1>4, <2>1 DEF Shows
<1>9. \A r \in R : Shows(r, rms, sms)
  <2> HIDE DEF A, B, R
  <2> QED
    BY <1>5, <1>7, <1>8
<1>10. \A r, s \in R : r.path = s.path => r = s
  <2> HIDE DEF A, B, R
  <2> QED
    BY <1>5, <1>6
<1>11. \A p \in known \cup paths : \E r \in R : r.path = p
  <2> HIDE DEF A, B, R, known, paths
  <2> TAKE p \in known \cup paths
  <2>1. CASE p \in known
    BY <1>5, <1>6, <2>1
  <2>2. CASE p \in paths \ known
    BY <1>5, <1>6, <2>2
  <2> QED
    BY <2>1, <2>2
<1>12. IsFiniteSet(R)
  <2>1. IsFiniteSet(DOMAIN rms) /\ IsFiniteSet(DOMAIN sms)
    BY FS_Interval
  <2> DEFINE pr == [i \in DOMAIN rms |-> Path[rms[i]]]
             ps == [i \in DOMAIN sms |-> Path[sms[i]]]
  <2>2. IsFiniteSet({pr[i] : i \in DOMAIN rms}) /\ IsFiniteSet({ps[i] : i \in DOMAIN sms})
    <3>1. DOMAIN pr = DOMAIN rms /\ DOMAIN ps = DOMAIN sms
      OBVIOUS
    <3> HIDE DEF pr, ps
    <3> QED
      BY <2>1, <3>1, ImageFinite
  <2>3. known = {pr[i] : i \in DOMAIN rms} /\ paths = {ps[i] : i \in DOMAIN sms}
    BY DEF Values
  <2>4. IsFiniteSet(known \cup paths)
    <3> HIDE DEF known, paths, pr, ps
    <3> QED
      BY <2>2, <2>3, FS_Union
  <2> DEFINE row == [p \in known \cup paths |-> CHOOSE r \in R : r.path = p]
  <2>5. DOMAIN row = known \cup paths
    OBVIOUS
  <2>6. \A r \in R : r.path \in known \cup paths
    <3> HIDE DEF A, B, R, known, paths
    <3> QED
      BY <1>5, <1>6
  <2>7. \A r \in R : row[r.path] = r
    <3> HIDE DEF R, known, paths
    <3> QED
      BY <1>10, <2>6
  <2>8. IsFiniteSet({row[p] : p \in known \cup paths})
    <3> HIDE DEF row, known, paths
    <3> QED
      BY <2>4, <2>5, ImageFinite
  <2>9. R \subseteq {row[p] : p \in known \cup paths}
    <3> HIDE DEF R, row, known, paths
    <3> QED
      BY <2>6, <2>7
  <2> HIDE DEF R, row, known, paths
  <2> QED
    BY <2>8, <2>9, FS_Subset
<1>13. /\ \A i \in DOMAIN rms : Path[rms[i]] \in known
       /\ \A i \in DOMAIN sms : Path[sms[i]] \in paths
  BY DEF Values
<1> HIDE DEF R, known, paths
<1>14. /\ \A i \in DOMAIN rms : \E r \in R : r.path = Path[rms[i]]
       /\ \A i \in DOMAIN sms : \E r \in R : r.path = Path[sms[i]]
  BY <1>11, <1>13
<1> QED
  BY <1>9, <1>10, <1>12, <1>14 DEF R

\* Counts and totals of all groups, by what they group.
LEMMA CountOfGroups ==
  ASSUME NEW ms \in Seq(Metrics), NEW R, NEW B, NEW U, Parts(B, R, U, DOMAIN ms)
  PROVE  SumFunction([r \in R |-> Stat(ms, B[r]).count]) = Cardinality(U)
<1> DEFINE D == DOMAIN ms
           ones == [i \in D |-> 1]
           count == [T \in SUBSET D |-> Cardinality(T)]
           v == [r \in R |-> Stat(ms, B[r]).count]
<1>1. IsFiniteSet(D) /\ ones \in [D -> Nat]
  BY FS_Interval
<1>2. Sums(count, ones, D)
  BY <1>1, CardinalitySums
<1>3. PICK g : Sums(g, Timed(ms), D)
  <2>1. Timed(ms) \in [D -> Nat]
    BY ConstantsAssumption DEF Timed
  <2> QED
    BY <1>1, <2>1, SumsExist
<1>4. \A r \in R : v[r] = Cardinality(B[r])
  BY <1>3, StatTells DEF Tells, Parts
<1>5. \A r \in R : Cardinality(B[r]) \in Nat /\ count[B[r]] = Cardinality(B[r])
  <2>1. \A T \in SUBSET D : Cardinality(T) \in Nat
    BY <1>1, FS_Subset, FS_CardinalityType
  <2> QED
    BY <2>1 DEF Parts
<1>6. v = [r \in R |-> count[B[r]]]
  BY <1>4, <1>5
<1>7. count[U] = Cardinality(U)
  BY DEF Parts
<1> HIDE DEF count, ones
<1>8. SumFunction([r \in R |-> count[B[r]]]) = count[U]
  BY <1>1, <1>2, SumOfGroups
<1> QED
  BY <1>6, <1>7, <1>8

LEMMA TotalOfGroups ==
  ASSUME NEW ms \in Seq(Metrics), NEW R, NEW B, NEW U, Parts(B, R, U, DOMAIN ms),
         NEW g, Sums(g, Timed(ms), DOMAIN ms)
  PROVE  SumFunction([r \in R |-> g[B[r]]]) = g[U]
<1>1. IsFiniteSet(DOMAIN ms) /\ Timed(ms) \in [DOMAIN ms -> Nat]
  BY FS_Interval, ConstantsAssumption DEF Timed
<1> QED
  BY <1>1, SumOfGroups

\* A metric is in the group of one value of a field only, and of a value that
\* occurs.
LEMMA GroupsPart ==
  ASSUME NEW ms, NEW P, NEW f
  PROVE  /\ \A v, w : v # w => Having(ms, P, f, v) \cap Having(ms, P, f, w) = {}
         /\ \A v : Having(ms, P, f, v) \subseteq P
         /\ \A i \in P : \E v \in Values(ms, P, f) : i \in Having(ms, P, f, v)
         /\ \A v : v \notin Values(ms, P, f) => Having(ms, P, f, v) = {}
  BY DEF Having, Values

LEMMA ValuesFinite ==
  ASSUME NEW ms \in Seq(Metrics), NEW P \in SUBSET DOMAIN ms, NEW f
  PROVE  IsFiniteSet(Values(ms, P, f))
<1> DEFINE g == [i \in P |-> f[ms[i]]]
<1>1. IsFiniteSet(P)
  BY FS_Interval, FS_Subset
<1>2. DOMAIN g = P
  OBVIOUS
<1>3. Values(ms, P, f) = {g[i] : i \in P}
  BY DEF Values
<1> HIDE DEF g
<1> QED
  BY <1>1, <1>2, <1>3, ImageFinite

\* The rows count every statement of a query ...
LEMMA RowsCount ==
  ASSUME NEW rms \in Seq(Metrics), NEW sms \in Seq(Metrics), NEW q
  PROVE  SqlCount(makeRequestStats(rms, sms), q) =
             Cardinality(Having(sms, DOMAIN sms, Query, q))
<1> DEFINE R == makeRequestStats(rms, sms)
           B == [r \in R |-> Having(sms, OfPath(sms, r.path), Query, q)]
           v == [r \in R |-> Stat(sms, B[r]).count]
<1>1. /\ \A r \in R : Shows(r, rms, sms)
      /\ \A r, s \in R : r.path = s.path => r = s
      /\ \A i \in DOMAIN sms : \E r \in R : r.path = Path[sms[i]]
      /\ IsFiniteSet(R)
  BY RowsShow
<1> HIDE DEF R
<1>2. B \in [R -> SUBSET DOMAIN sms]
  BY DEF Having, OfPath
<1>3. \A r, s \in R : r # s => B[r] \cap B[s] = {}
  BY <1>1 DEF Having, OfPath
<1> DEFINE U == Having(sms, DOMAIN sms, Query, q)
<1>4. U \in SUBSET DOMAIN sms /\ \A i \in DOMAIN sms : i \in U <=> \E r \in R : i \in B[r]
  <2>1. \A i \in DOMAIN sms, r \in R :
            i \in B[r] <=> Path[sms[i]] = r.path /\ Query[sms[i]] = q
    BY DEF Having, OfPath
  <2> HIDE DEF B
  <2> QED
    BY <1>1, <2>1 DEF Having
<1>5. \A r \in R : (IF q \in DOMAIN r.sql THEN r.sql[q].count ELSE 0) = Stat(sms, B[r]).count
  <2> TAKE r \in R
  <2>1. CASE q \in DOMAIN r.sql
    BY <1>1, <2>1 DEF Shows
  <2>2. CASE q \notin DOMAIN r.sql
    <3>1. B[r] = {}
      BY <1>1, <2>2, GroupsPart DEF Shows
    <3>2. Stat(sms, {}).count = 0
      BY StatOfNone DEF Zero
    <3> QED
      BY <2>2, <3>1, <3>2
  <2> QED
    BY <2>1, <2>2
<1>6. SqlCount(R, q) = SumFunction(v)
  <2>1. [r \in R |-> IF q \in DOMAIN r.sql THEN r.sql[q].count ELSE 0] = v
    BY <1>5
  <2> QED
    BY <2>1 DEF SqlCount
<1>p. Parts(B, R, U, DOMAIN sms)
  BY <1>1, <1>2, <1>3, <1>4 DEF Parts
<1> HIDE DEF B, U
<1>7. SumFunction(v) = Cardinality(U)
  BY <1>p, CountOfGroups
<1> QED
  BY <1>6, <1>7 DEF R, U

\* ... and every request ...
LEMMA RequestsCount ==
  ASSUME NEW rms \in Seq(Metrics), NEW sms \in Seq(Metrics)
  PROVE  SumFunction([r \in makeRequestStats(rms, sms) |-> r.requests.count]) = Len(rms)
<1> DEFINE R == makeRequestStats(rms, sms)
           B == [r \in R |-> OfPath(rms, r.path)]
           v == [r \in R |-> Stat(rms, B[r]).count]
<1>1. /\ \A r \in R : Shows(r, rms, sms)
      /\ \A r, s \in R : r.path = s.path => r = s
      /\ \A i \in DOMAIN rms : \E r \in R : r.path = Path[rms[i]]
      /\ IsFiniteSet(R)
  BY RowsShow
<1> HIDE DEF R
<1>2. B \in [R -> SUBSET DOMAIN rms]
  BY DEF Having, OfPath
<1>3. \A r, s \in R : r # s => B[r] \cap B[s] = {}
  BY <1>1 DEF Having, OfPath
<1> DEFINE U == DOMAIN rms
<1>4. U \in SUBSET DOMAIN rms /\ \A i \in DOMAIN rms : i \in U <=> \E r \in R : i \in B[r]
  <2>1. \A i \in DOMAIN rms, r \in R : i \in B[r] <=> Path[rms[i]] = r.path
    BY DEF Having, OfPath
  <2> HIDE DEF B
  <2> QED
    BY <1>1, <2>1
<1>5. [r \in R |-> r.requests.count] = v
  BY <1>1 DEF Shows
<1>p. Parts(B, R, U, DOMAIN rms)
  BY <1>1, <1>2, <1>3, <1>4 DEF Parts
<1> HIDE DEF B, U
<1>6. SumFunction(v) = Cardinality(U)
  BY <1>p, CountOfGroups
<1>7. DOMAIN rms = 1 .. Len(rms) /\ Len(rms) \in Nat
  OBVIOUS
<1>8. Cardinality(1 .. Len(rms)) = Len(rms)
  <2> DEFINE n == Len(rms)
  <2>1. 1 \in Int /\ n \in Int /\ n \in Nat
    BY <1>7
  <2> HIDE DEF n
  <2>2. Cardinality(1 .. n) = IF 1 > n THEN 0 ELSE n - 1 + 1
    BY <2>1, FS_Interval
  <2>3. Cardinality(1 .. n) = n
    BY <2>1, <2>2
  <2> QED
    BY <2>3 DEF n
<1> QED
  BY <1>5, <1>6, <1>7, <1>8 DEF R, U

\* ... and have the duration of every statement.
LEMMA TotalsAdd ==
  ASSUME NEW rms \in Seq(Metrics), NEW sms \in Seq(Metrics)
  PROVE  SumFunction([r \in makeRequestStats(rms, sms) |-> TotalsOf(r.sql)]) =
             SumFunction([i \in DOMAIN sms |-> Duration[sms[i]]])
<1> DEFINE R == makeRequestStats(rms, sms)
           B == [r \in R |-> OfPath(sms, r.path)]
<1>1. /\ \A r \in R : Shows(r, rms, sms)
      /\ \A r, s \in R : r.path = s.path => r = s
      /\ \A i \in DOMAIN sms : \E r \in R : r.path = Path[sms[i]]
      /\ IsFiniteSet(R)
  BY RowsShow
<1> HIDE DEF R
<1>2. B \in [R -> SUBSET DOMAIN sms]
  BY DEF Having, OfPath
<1>3. \A r, s \in R : r # s => B[r] \cap B[s] = {}
  BY <1>1 DEF Having, OfPath
<1> DEFINE U == DOMAIN sms
<1>4. U \in SUBSET DOMAIN sms /\ \A i \in DOMAIN sms : i \in U <=> \E r \in R : i \in B[r]
  <2>1. \A i \in DOMAIN sms, r \in R : i \in B[r] <=> Path[sms[i]] = r.path
    BY DEF Having, OfPath
  <2> HIDE DEF B
  <2> QED
    BY <1>1, <2>1
<1>5. IsFiniteSet(DOMAIN sms) /\ Timed(sms) \in [DOMAIN sms -> Nat]
  BY FS_Interval, ConstantsAssumption DEF Timed
<1>6. PICK g : Sums(g, Timed(sms), DOMAIN sms)
  BY <1>5, SumsExist
<1>7. \A r \in R : TotalsOf(r.sql) = g[B[r]]
  <2> TAKE r \in R
  <2> DEFINE Q == DOMAIN r.sql
             C == [q \in Q |-> Having(sms, B[r], Query, q)]
             t == [q \in Q |-> g[C[q]]]
  <2>0. B[r] = OfPath(sms, r.path) /\ B[r] \in SUBSET DOMAIN sms
    BY <1>2
  <2> HIDE DEF B
  <2>1. Q = Values(sms, B[r], Query) /\ \A q \in Q : r.sql[q] = Stat(sms, C[q])
    BY <1>1, <2>0 DEF Shows
  <2>2. IsFiniteSet(Q)
    BY <2>0, <2>1, ValuesFinite
  <2> HIDE DEF Q
  <2>3. C \in [Q -> SUBSET DOMAIN sms] /\ \A q, p \in Q : q # p => C[q] \cap C[p] = {}
    BY <2>0, GroupsPart
  <2> DEFINE b == B[r]
  <2>4. b \in SUBSET DOMAIN sms /\ \A i \in DOMAIN sms : i \in b <=> \E q \in Q : i \in C[q]
    BY <2>0, <2>1, GroupsPart
  <2>5. \A q \in Q : r.sql[q].total = g[C[q]]
    BY <1>6, <2>1, <2>3, StatTells DEF Tells
  <2>6. TotalsOf(r.sql) = SumFunction(t)
    <3>1. [q \in DOMAIN r.sql |-> r.sql[q].total] = t
      BY <2>5 DEF Q
    <3> QED
      BY <3>1 DEF TotalsOf
  <2>p. Parts(C, Q, b, DOMAIN sms)
    BY <2>2, <2>3, <2>4 DEF Parts
  <2> HIDE DEF C, b
  <2>7. SumFunction(t) = g[b]
    BY <1>6, <2>p, TotalOfGroups
  <2> QED
    BY <2>6, <2>7 DEF b
<1> DEFINE v == [r \in R |-> g[B[r]]]
<1>8. [r \in R |-> TotalsOf(r.sql)] = v
  BY <1>7
<1>p. Parts(B, R, U, DOMAIN sms)
  BY <1>1, <1>2, <1>3, <1>4 DEF Parts
<1> HIDE DEF B, U
<1>9. SumFunction(v) = g[U]
  BY <1>6, <1>p, TotalOfGroups
<1>10. SumFunction(Timed(sms)) = g[DOMAIN sms]
  BY <1>5, <1>6, SumIs
<1> QED
  BY <1>8, <1>9, <1>10 DEF R, Timed, U

-----------------------------------------------------------------------------
\* The metrics in the middle of an append to a log, and those that have
\* lengthened it.
InAppend(l) == {m \in Metrics : Log[m] = l /\ pc[m] \in {"locked", "longer"}}

Lengthened(l) == {m \in Metrics : Log[m] = l /\ pc[m] \in {"longer", "done"}}

\* The mutex is held by the one metric in the middle of an append.
Holders == \A l \in Logs : \A m \in InAppend(l) : mutex[l] = m

Bounded ==
    \A l \in Logs :
        /\ log[l].len <= Cardinality(Lengthened(l))
        /\ \A m \in InAppend(l) :
               length[l] + (IF pc[m] = "longer" THEN 1 ELSE 0) <= Cardinality(Lengthened(l))

Kept ==
    \A l \in Logs :
        /\ kept[l] \subseteq Lengthened(l)
        /\ \A m \in InAppend(l) : kept[l] # {} =>
               IF pc[m] = "locked" THEN log[l].len = length[l]
               ELSE log[l].len = length[l] + 1 /\ m \in kept[l]
        /\ \A m \in kept[l] : pc[m] = "done" =>
               \E i \in 1 .. log[l].len :
                   /\ log[l].cell[i] = m
                   /\ \A h \in InAppend(l) : pc[h] = "longer" => i <= length[l]

Inv == TypeOK /\ Holders /\ Bounded /\ Kept

-----------------------------------------------------------------------------
USE ConstantsAssumption

LEMMA InvInit == Init => Inv
<1> SUFFICES ASSUME Init
             PROVE  Inv
  OBVIOUS
<1> USE DEF Init
<1>1. Cardinality(Metrics) \in Nat
  BY FS_CardinalityType
<1>2. TypeOK
  <2>1. EmptySlice \in Slice
    BY <1>1 DEF EmptySlice, Slice
  <2> QED
    BY <1>1, <2>1 DEF TypeOK, NoReport
<1>3. \A l \in Logs : Cardinality(Lengthened(l)) \in Nat
  <2>1. \A l \in Logs : IsFiniteSet(Lengthened(l))
    BY FS_Subset DEF Lengthened
  <2> QED
    BY <2>1, FS_CardinalityType
<1>4. \A l \in Logs : InAppend(l) = {}
  BY DEF InAppend
<1> QED
  BY <1>2, <1>3, <1>4 DEF Inv, Holders, Bounded, Kept, EmptySlice

\* How many have lengthened a log.
LEMMA Lengths ==
  ASSUME NEW l \in Logs
  PROVE  /\ IsFiniteSet(Lengthened(l))
         /\ Cardinality(Lengthened(l)) \in Nat
         /\ Cardinality(Lengthened(l)) <= Cardinality(Metrics)
         /\ \A m \in Metrics \ Lengthened(l) :
                /\ Cardinality(Lengthened(l)) + 1 <= Cardinality(Metrics)
                /\ Cardinality(Lengthened(l) \cup {m}) = Cardinality(Lengthened(l)) + 1
<1>1. Lengthened(l) \subseteq Metrics
  BY DEF Lengthened
<1>2. /\ IsFiniteSet(Lengthened(l)) /\ Cardinality(Lengthened(l)) \in Nat
      /\ Cardinality(Lengthened(l)) <= Cardinality(Metrics)
  BY <1>1, FS_Subset, FS_CardinalityType
<1>3. ASSUME NEW m \in Metrics \ Lengthened(l)
      PROVE  /\ Cardinality(Lengthened(l)) + 1 <= Cardinality(Metrics)
             /\ Cardinality(Lengthened(l) \cup {m}) = Cardinality(Lengthened(l)) + 1
  <2>1. Cardinality(Lengthened(l) \cup {m}) = Cardinality(Lengthened(l)) + 1
    BY <1>2, FS_AddElement
  <2>2. Cardinality(Lengthened(l) \cup {m}) <= Cardinality(Metrics)
    BY <1>1, FS_Subset
  <2> QED
    BY <2>1, <2>2
<1> QED
  BY <1>2, <1>3

LEMMA LengthsGrow ==
  ASSUME NEW l \in Logs, Lengthened(l) \subseteq Lengthened(l)'
  PROVE  /\ Cardinality(Lengthened(l)) <= Cardinality(Lengthened(l)')
         /\ Cardinality(Lengthened(l)') \in Nat
<1>1. IsFiniteSet(Lengthened(l)')
  BY FS_Subset DEF Lengthened
<1> QED
  BY <1>1, FS_Subset, FS_CardinalityType

\* What the bound says of the types.
LEMMA Room ==
  ASSUME TypeOK, Bounded, NEW m \in Metrics, pc[m] \in {"locked", "longer"}
  PROVE  /\ length[Log[m]] \in Nat
         /\ length[Log[m]] + 1 \in 1 .. Cardinality(Metrics)
<1> DEFINE l == Log[m]
<1>1. /\ Cardinality(Metrics) \in Nat /\ length[l] \in Nat /\ l \in Logs /\ m \in InAppend(l)
      /\ Cardinality(Lengthened(l)) \in Nat /\ Cardinality(Lengthened(l)) <= Cardinality(Metrics)
  BY FS_CardinalityType, Lengths DEF TypeOK, InAppend
<1>2. CASE pc[m] = "locked"
  <2>1. m \notin Lengthened(l)
    BY <1>2 DEF Lengthened
  <2>2. Cardinality(Lengthened(l)) + 1 <= Cardinality(Metrics)
    BY <1>1, <2>1, Lengths
  <2>3. length[l] <= Cardinality(Lengthened(l))
    BY <1>1, <1>2 DEF Bounded
  <2> QED
    BY <1>1, <2>2, <2>3
<1>3. CASE pc[m] = "longer"
  <2>1. length[l] + 1 <= Cardinality(Lengthened(l))
    BY <1>1, <1>3 DEF Bounded
  <2> QED
    BY <1>1, <2>1
<1> QED
  BY <1>2, <1>3

-----------------------------------------------------------------------------
\* The two assignments to a slice.

LEMMA SetLength ==
  ASSUME log \in [Logs -> Slice], NEW l \in Logs, NEW n \in 0 .. Cardinality(Metrics),
         log' = [log EXCEPT ![l].len = n]
  PROVE  /\ log' \in [Logs -> Slice]
         /\ log'[l].len = n /\ log'[l].cell = log[l].cell
         /\ \A k \in Logs \ {l} : log'[k] = log[k]
<1>1. log' = [log EXCEPT ![l] = [log[l] EXCEPT !.len = n]]
  OBVIOUS
<1>2. log[l] \in Slice
  OBVIOUS
<1>3. [log[l] EXCEPT !.len = n] \in Slice
  BY <1>2 DEF Slice
<1>4. [log[l] EXCEPT !.len = n].len = n /\ [log[l] EXCEPT !.len = n].cell = log[l].cell
  BY <1>2 DEF Slice
<1> QED
  BY <1>1, <1>3, <1>4

LEMMA SetElement ==
  ASSUME log \in [Logs -> Slice], NEW l \in Logs, NEW i \in Slots, NEW m \in Metrics,
         log' = [log EXCEPT ![l].cell[i] = m]
  PROVE  /\ log' \in [Logs -> Slice]
         /\ log'[l].len = log[l].len /\ log'[l].cell = [log[l].cell EXCEPT ![i] = m]
         /\ \A k \in Logs \ {l} : log'[k] = log[k]
<1> DEFINE cells == [log[l].cell EXCEPT ![i] = m]
<1>1. log' = [log EXCEPT ![l] = [log[l] EXCEPT !.cell = cells]]
  OBVIOUS
<1>2. log[l] \in Slice
  OBVIOUS
<1>3. cells \in [Slots -> Metrics \cup {None}]
  BY <1>2 DEF Slice
<1> HIDE DEF cells
<1>4. [log[l] EXCEPT !.cell = cells] \in Slice
  BY <1>2, <1>3 DEF Slice
<1>5. [log[l] EXCEPT !.cell = cells].len = log[l].len /\ [log[l] EXCEPT !.cell = cells].cell = cells
  BY <1>2 DEF Slice
<1> QED
  BY <1>1, <1>4, <1>5 DEF cells

-----------------------------------------------------------------------------
\* The types and the mutexes.

LEMMA TypeRecorder ==
  ASSUME TypeOK, Holders, Bounded, NEW m \in Metrics, Recorder(m)
  PROVE  TypeOK' /\ Holders'
<1> USE DEF TypeOK, Holders, InAppend, InLogs, writing
<1>1. Cardinality(Metrics) \in Nat /\ Log[m] \in Logs
  BY FS_CardinalityType
<1>2. CASE Make(m)
  BY <1>2 DEF Make
<1>3. CASE Lock(m)
  <2>1. log[Log[m]].len \in 0 .. Cardinality(Metrics)
    BY <1>1 DEF Slice
  <2>2. \A n \in Metrics : Log[n] = Log[m] => pc[n] \notin {"locked", "longer"}
    BY <1>1, <1>3 DEF Lock
  <2> QED
    BY <1>1, <1>3, <2>1, <2>2 DEF Lock
<1>4. CASE Lengthen(m)
  <2>1. length[Log[m]] + 1 \in 0 .. Cardinality(Metrics)
    BY <1>4, Room DEF Lengthen
  <2>2. log' \in [Logs -> Slice]
    <3>1. log \in [Logs -> Slice] /\ log' = [log EXCEPT ![Log[m]].len = length[Log[m]] + 1]
      BY <1>4 DEF Lengthen
    <3>2. Log[m] \in Logs /\ length[Log[m]] + 1 \in 0 .. Cardinality(Metrics)
      BY <1>1, <2>1
    <3> HIDE DEF TypeOK
    <3> QED
      BY <3>1, <3>2, SetLength
  <2> QED
    BY <1>1, <1>4, <2>2 DEF Lengthen
<1>5. CASE Fill(m)
  <2>1. log' \in [Logs -> Slice]
    <3>1. length[Log[m]] + 1 \in Slots
      BY <1>5, Room DEF Fill, Slots
    <3> QED
      BY <1>1, <1>5, <3>1, SetElement, ZenonT(30) DEF Fill
  <2>2. \A n \in Metrics : Log[n] = Log[m] /\ n # m => pc[n] \notin {"locked", "longer"}
    BY <1>1, <1>5 DEF Fill
  <2> QED
    BY <1>1, <1>5, <2>1, <2>2 DEF Fill
<1> QED
  BY <1>2, <1>3, <1>4, <1>5 DEF Recorder

LEMMA TypeOthers ==
  ASSUME TypeOK, Holders, StartTrace \/ ClearSms \/ (\E k \in Writers : Writer(k)) \/ UNCHANGED vars
  PROVE  TypeOK' /\ Holders'
<1> USE DEF TypeOK, Holders, InAppend, recording, writing
<1>1. Cardinality(Metrics) \in Nat /\ {"rms", "sms"} = Logs
  BY FS_CardinalityType DEF Logs
<1>2. CASE StartTrace
  <2>1. log' \in [Logs -> Slice]
    <3>1. log \in [Logs -> Slice] /\ log' = [log EXCEPT !["rms"].len = 0]
      BY <1>2 DEF StartTrace, Clear
    <3>2. "rms" \in Logs /\ 0 \in 0 .. Cardinality(Metrics)
      BY <1>1
    <3> HIDE DEF TypeOK
    <3> QED
      BY <3>1, <3>2, SetLength
  <2> QED
    BY <1>1, <1>2, <2>1 DEF StartTrace, Clear
<1>3. CASE ClearSms
  <2>1. log' \in [Logs -> Slice]
    <3>1. log \in [Logs -> Slice] /\ log' = [log EXCEPT !["sms"].len = 0]
      BY <1>3 DEF ClearSms, Clear
    <3>2. "sms" \in Logs /\ 0 \in 0 .. Cardinality(Metrics)
      BY <1>1
    <3> HIDE DEF TypeOK
    <3> QED
      BY <3>1, <3>2, SetLength
  <2>2. cut' \subseteq Writers
    BY <1>3 DEF ClearSms
  <2>3. writer' = [writer EXCEPT ![starts] = "sleep"] /\ starting' = "no"
        /\ UNCHANGED <<mutex, pc, length, headers, report, starts, faults>>
        /\ kept' = [kept EXCEPT !["sms"] = {}]
    BY <1>3 DEF ClearSms, Clear
  <2>4. writer' \in [Writers -> {"none", "sleep", "rows", "sql", "done"}]
    BY <2>3
  <2>5. kept' \in [Logs -> SUBSET Metrics]
    BY <2>3
  <2>6. Holders'
    BY <2>3
  <2> QED
    BY <2>1, <2>2, <2>3, <2>4, <2>5, <2>6
<1>4. ASSUME NEW k \in Writers, WakeUp(k)
      PROVE  TypeOK' /\ Holders'
  <2>1. [l \in Logs |-> log[l].len] \in [Logs -> 0 .. Cardinality(Metrics)]
    BY DEF Slice
  <2> QED
    BY <1>4, <2>1 DEF WakeUp, Write
<1>5. ASSUME NEW k \in Writers, MakeRows(k)
      PROVE  TypeOK' /\ Holders'
  BY <1>5 DEF MakeRows, Write, NoReport
<1>6. ASSUME NEW k \in Writers, CreateFails(k)
      PROVE  TypeOK' /\ Holders'
  BY <1>1, <1>6 DEF CreateFails, Finish, Write, Fault
<1>7. ASSUME NEW k \in Writers, WriteStats(k)
      PROVE  TypeOK' /\ Holders'
  BY <1>1, <1>7 DEF WriteStats, Finish, Write
<1>8. ASSUME NEW k \in Writers, WriterPanics(k)
      PROVE  TypeOK' /\ Holders'
  <2>1. EmptySlice \in Slice
    BY <1>1 DEF EmptySlice, Slice
  <2> QED
    BY <1>1, <1>8, <2>1 DEF WriterPanics, Panic
<1>9. CASE UNCHANGED vars
  BY <1>9 DEF vars
<1> QED
  BY <1>2, <1>3, <1>4, <1>5, <1>6, <1>7, <1>8, <1>9 DEF Writer

LEMMA TypeNext == TypeOK /\ Holders /\ Bounded /\ [Next]_vars => TypeOK' /\ Holders'
  BY TypeRecorder, TypeOthers DEF Next

-----------------------------------------------------------------------------
\* What the writers and StartTrace do to the logs, whatever else they do.

LEMMA LogsNext ==
  ASSUME TypeOK, StartTrace \/ ClearSms \/ (\E k \in Writers : Writer(k)) \/ UNCHANGED vars
  PROVE  \/ \E l \in Logs : Clear(l)
         \/ UNCHANGED recording
         \/ /\ log' = [l \in Logs |-> EmptySlice]
            /\ length' = [l \in Logs |-> 0]
            /\ kept' = [l \in Logs |-> {}]
            /\ pc' = [m \in Metrics |-> IF pc[m] = "new" THEN "new" ELSE "done"]
  BY DEF StartTrace, ClearSms, Writer, WakeUp, MakeRows, CreateFails, WriteStats, WriterPanics,
         Panic, vars, Logs

\* Where a metric is after a step of its goroutine.
LEMMA RecorderPosition ==
  ASSUME TypeOK, NEW m \in Metrics, NEW step \in {"made", "locked", "longer", "done"},
         pc' = [pc EXCEPT ![m] = step]
  PROVE  /\ \A n \in Metrics : pc'[n] = IF n = m THEN step ELSE pc[n]
         /\ \A l \in Logs \ {Log[m]} :
                InAppend(l)' = InAppend(l) /\ Lengthened(l)' = Lengthened(l)
  BY DEF TypeOK, InAppend, Lengthened

LEMMA SliceTypes ==
  ASSUME TypeOK, NEW l \in Logs
  PROVE  /\ Cardinality(Metrics) \in Nat
         /\ log[l].len \in 0 .. Cardinality(Metrics) /\ log[l].len \in Nat
         /\ log[l].cell \in [Slots -> Metrics \cup {None}]
         /\ length[l] \in Nat
         /\ \A m \in InAppend(l) : m \in Metrics /\ Log[m] = l
  BY FS_CardinalityType DEF TypeOK, Slice, InAppend

LEMMA BoundedNext ==
  ASSUME TypeOK, TypeOK', Holders, Bounded, [Next]_vars
  PROVE  Bounded'
<1> USE DEF InLogs
<1>1. \A l \in Logs : /\ Cardinality(Lengthened(l)) \in Nat
                      /\ log[l].len \in Nat /\ length[l] \in Nat
  BY Lengths, SliceTypes
\* A log is not lengthened, and a length is read that it has.
<1>2. ASSUME \A l \in Logs : /\ Lengthened(l) \subseteq Lengthened(l)'
                             /\ log'[l].len \in {0, log[l].len},
             \A l \in Logs : \A m \in InAppend(l)' :
                 \/ pc'[m] = "locked" /\ length'[l] = log[l].len
                 \/ m \in InAppend(l) /\ pc'[m] = pc[m] /\ length'[l] = length[l]
      PROVE  Bounded'
  <2> SUFFICES ASSUME NEW l \in Logs
               PROVE  /\ log'[l].len <= Cardinality(Lengthened(l)')
                      /\ \A m \in InAppend(l)' :
                             length'[l] + (IF pc'[m] = "longer" THEN 1 ELSE 0)
                                 <= Cardinality(Lengthened(l)')
    BY DEF Bounded
  <2>1. Cardinality(Lengthened(l)) <= Cardinality(Lengthened(l)')
        /\ Cardinality(Lengthened(l)') \in Nat
    BY <1>2, LengthsGrow
  <2>2. log[l].len <= Cardinality(Lengthened(l))
    BY DEF Bounded
  <2>3. ASSUME NEW m \in InAppend(l)'
        PROVE  length'[l] + (IF pc'[m] = "longer" THEN 1 ELSE 0) <= Cardinality(Lengthened(l)')
    <3>1. CASE pc'[m] = "locked" /\ length'[l] = log[l].len
      BY <1>1, <2>1, <2>2, <3>1
    <3>2. CASE m \in InAppend(l) /\ pc'[m] = pc[m] /\ length'[l] = length[l]
      <4>1. length[l] + (IF pc[m] = "longer" THEN 1 ELSE 0) <= Cardinality(Lengthened(l))
        BY <3>2 DEF Bounded
      <4> QED
        BY <1>1, <2>1, <3>2, <4>1
    <3> QED
      BY <1>2, <3>1, <3>2
  <2> QED
    BY <1>1, <1>2, <2>1, <2>2, <2>3
<1>3. ASSUME NEW m \in Metrics, Make(m)
      PROVE  Bounded'
  BY <1>2, <1>3 DEF Make, TypeOK, InAppend, Lengthened
<1>4. ASSUME NEW m \in Metrics, Lock(m)
      PROVE  Bounded'
  <2>1. InAppend(Log[m]) = {}
    BY <1>4 DEF Lock, TypeOK, InAppend
  <2> QED
    BY <1>2, <1>4, <2>1 DEF Lock, TypeOK, InAppend, Lengthened
<1>5. ASSUME NEW m \in Metrics, Fill(m)
      PROVE  Bounded'
  <2>1. \A n \in InAppend(Log[m]) : n = m
    BY <1>5 DEF Fill, Holders, InAppend
  <2>2. \A l \in Logs : log'[l].len = log[l].len
    <3>1. length[Log[m]] + 1 \in Slots
      BY <1>5, Room DEF Fill, Slots
    <3>2. log \in [Logs -> Slice] /\ Log[m] \in Logs
          /\ log' = [log EXCEPT ![Log[m]].cell[length[Log[m]] + 1] = m]
      BY <1>5 DEF Fill, TypeOK
    <3> QED
      BY <3>1, <3>2, SetElement
  <2> QED
    BY <1>2, <1>5, <2>1, <2>2 DEF Fill, TypeOK, InAppend, Lengthened
<1>6. ASSUME NEW m \in Metrics, Lengthen(m)
      PROVE  Bounded'
  <2> DEFINE l == Log[m]
  <2>1. /\ pc[m] = "locked" /\ pc' = [pc EXCEPT ![m] = "longer"] /\ length' = length
        /\ log' = [log EXCEPT ![l].len = length[l] + 1]
        /\ l \in Logs /\ log \in [Logs -> Slice] /\ length[l] + 1 \in 0 .. Cardinality(Metrics)
    BY <1>6, Room DEF Lengthen, TypeOK
  <2>2. log'[l].len = length[l] + 1 /\ \A k \in Logs \ {l} : log'[k] = log[k]
    BY <2>1, SetLength
  <2>3. m \in InAppend(l) /\ m \notin Lengthened(l) /\ Lengthened(l)' = Lengthened(l) \cup {m}
    BY <2>1 DEF TypeOK, InAppend, Lengthened
  <2>4. Cardinality(Lengthened(l)') = Cardinality(Lengthened(l)) + 1
    BY <2>1, <2>3, Lengths
  <2>5. length[l] <= Cardinality(Lengthened(l))
    BY <1>1, <2>1, <2>3 DEF Bounded
  <2>6. \A n \in Metrics : pc'[n] = IF n = m THEN "longer" ELSE pc[n]
    BY <2>1 DEF TypeOK
  <2>7. \A n \in InAppend(l)' : n = m
    BY <2>1, <2>3, <2>6 DEF Holders, InAppend
  <2>8. \A k \in Logs \ {l} : InAppend(k)' = InAppend(k) /\ Lengthened(k)' = Lengthened(k)
    BY <2>1, RecorderPosition
  <2>9. \A k \in Logs \ {l} : \A n \in InAppend(k) : pc'[n] = pc[n]
    BY <2>1, <2>6, SliceTypes
  <2> HIDE DEF l
  <2> QED
    BY <1>1, <2>1, <2>2, <2>4, <2>5, <2>6, <2>7, <2>8, <2>9 DEF Bounded
<1>7. ASSUME StartTrace \/ ClearSms \/ (\E k \in Writers : Writer(k)) \/ UNCHANGED vars
      PROVE  Bounded'
  <2>1. ASSUME NEW l \in Logs, Clear(l)
        PROVE  Bounded'
    <3>1. \A k \in Logs : log'[k].len \in {0, log[k].len}
      <4>1. 0 \in 0 .. Cardinality(Metrics) /\ log \in [Logs -> Slice]
            /\ log' = [log EXCEPT ![l].len = 0]
        BY <2>1, SliceTypes DEF Clear, TypeOK
      <4> QED
        BY <4>1, SetLength
    <3> QED
      BY <1>2, <2>1, <3>1 DEF Clear, InAppend, Lengthened
  <2>2. CASE UNCHANGED recording
    BY <1>2, <2>2 DEF recording, InAppend, Lengthened
  <2>3. CASE /\ log' = [l \in Logs |-> EmptySlice]
             /\ pc' = [m \in Metrics |-> IF pc[m] = "new" THEN "new" ELSE "done"]
    BY <1>2, <2>3 DEF EmptySlice, InAppend, Lengthened
  <2> QED
    BY <1>7, <2>1, <2>2, <2>3, LogsNext
<1> QED
  BY <1>3, <1>4, <1>5, <1>6, <1>7 DEF Next, Recorder

\* What Kept says of one log.
KeptIn(l) ==
    /\ kept[l] \subseteq Lengthened(l)
    /\ \A m \in InAppend(l) : kept[l] # {} =>
           IF pc[m] = "locked" THEN log[l].len = length[l]
           ELSE log[l].len = length[l] + 1 /\ m \in kept[l]
    /\ \A m \in kept[l] : pc[m] = "done" =>
           \E i \in 1 .. log[l].len :
               /\ log[l].cell[i] = m
               /\ \A h \in InAppend(l) : pc[h] = "longer" => i <= length[l]

LEMMA KeptSame ==
  ASSUME TypeOK, NEW l \in Logs, KeptIn(l), log'[l] = log[l], kept'[l] = kept[l],
         InAppend(l)' = InAppend(l), Lengthened(l)' = Lengthened(l), length'[l] = length[l],
         \A m \in Metrics : Log[m] = l => pc'[m] = pc[m] \/ {pc[m], pc'[m]} \subseteq {"new", "made"}
  PROVE  KeptIn(l)'
<1>1. \A m \in InAppend(l) \cup Lengthened(l) : m \in Metrics /\ Log[m] = l /\ pc'[m] = pc[m]
  BY DEF InAppend, Lengthened
<1> QED
  BY <1>1 DEF KeptIn

LEMMA KeptFill ==
  ASSUME TypeOK, Holders, Bounded, NEW m \in Metrics, Fill(m), KeptIn(Log[m])
  PROVE  KeptIn(Log[m])'
<1> DEFINE l == Log[m]
<1>1. /\ pc[m] = "longer" /\ l \in Logs /\ length[l] + 1 \in Slots
      /\ log' = [log EXCEPT ![l].cell[length[l] + 1] = m] /\ log \in [Logs -> Slice]
      /\ kept' = kept
  BY Room DEF Fill, TypeOK, Slots
<1>2. \A n \in Metrics : pc'[n] = IF n = m THEN "done" ELSE pc[n]
  BY DEF Fill, TypeOK
<1>3. m \in InAppend(l) /\ \A n \in InAppend(l) : n = m
  BY <1>1 DEF InAppend, Holders
<1>4. InAppend(l)' = {} /\ Lengthened(l)' = Lengthened(l)
  BY <1>1, <1>2, <1>3 DEF InAppend, Lengthened
<1>5. log'[l].len = log[l].len /\ log'[l].cell = [log[l].cell EXCEPT ![length[l] + 1] = m]
  BY <1>1, SetElement
<1>6. /\ Cardinality(Metrics) \in Nat /\ log[l].len \in 0 .. Cardinality(Metrics)
      /\ log[l].len \in Nat /\ length[l] \in Nat
      /\ log[l].cell \in [Slots -> Metrics \cup {None}]
  BY <1>1, SliceTypes
<1> HIDE DEF l
<1>7. ASSUME NEW n \in kept'[l], pc'[n] = "done"
      PROVE  \E i \in 1 .. log'[l].len : log'[l].cell[i] = n
  <2>1. n \in kept[l] /\ n \in Metrics /\ log[l].len = length[l] + 1
    BY <1>1, <1>3, <1>7 DEF KeptIn, l, Lengthened
  <2>2. CASE n = m
    BY <1>1, <1>5, <1>6, <2>1, <2>2
  <2>3. CASE n # m
    <3>1. pc[n] = "done"
      BY <1>2, <1>7, <2>1, <2>3
    <3>2. PICK i \in 1 .. log[l].len : log[l].cell[i] = n /\ i <= length[l]
      BY <1>1, <1>3, <2>1, <3>1 DEF KeptIn, l
    <3>3. i \in Slots /\ i # length[l] + 1
      BY <1>6, <2>1, <3>2 DEF Slots
    <3> QED
      BY <1>5, <1>6, <3>2, <3>3
  <2> QED
    BY <2>2, <2>3
<1>8. kept'[l] \subseteq Lengthened(l)'
  BY <1>1, <1>4 DEF KeptIn, l
<1> QED
  BY <1>4, <1>7, <1>8 DEF KeptIn, l

LEMMA KeptLengthen ==
  ASSUME TypeOK, Holders, Bounded, NEW m \in Metrics, Lengthen(m), KeptIn(Log[m])
  PROVE  KeptIn(Log[m])'
<1> DEFINE l == Log[m]
<1>1. /\ pc[m] = "locked" /\ l \in Logs /\ length' = length
      /\ length[l] + 1 \in 0 .. Cardinality(Metrics)
      /\ log' = [log EXCEPT ![l].len = length[l] + 1] /\ log \in [Logs -> Slice]
      /\ kept'[l] = kept[l] \cup {m}
  BY Room DEF Lengthen, TypeOK
<1>2. \A n \in Metrics : pc'[n] = IF n = m THEN "longer" ELSE pc[n]
  BY DEF Lengthen, TypeOK
<1>3. m \in InAppend(l) /\ \A n \in InAppend(l) : n = m
  BY <1>1 DEF InAppend, Holders
<1>4. InAppend(l)' = InAppend(l) /\ Lengthened(l)' = Lengthened(l) \cup {m}
  BY <1>1, <1>2, <1>3 DEF InAppend, Lengthened
<1>5. log'[l].len = length[l] + 1 /\ log'[l].cell = log[l].cell
  BY <1>1, SetLength
<1>6. log[l].len \in Nat /\ length[l] \in Nat
  BY <1>1, SliceTypes
<1>7. kept[l] \subseteq Lengthened(l)
  BY DEF KeptIn
<1> HIDE DEF l
<1>8. ASSUME NEW n \in kept'[l], pc'[n] = "done"
      PROVE  \E i \in 1 .. log'[l].len :
                 log'[l].cell[i] = n /\ \A h \in InAppend(l)' : pc'[h] = "longer" => i <= length'[l]
  <2>1. n # m /\ n \in kept[l] /\ n \in Metrics
    BY <1>1, <1>2, <1>7, <1>8 DEF Lengthened
  <2>2. log[l].len = length[l] /\ pc[n] = "done"
    BY <1>1, <1>2, <1>3, <1>8, <2>1 DEF KeptIn, l
  <2>3. PICK i \in 1 .. log[l].len : log[l].cell[i] = n
    BY <2>1, <2>2 DEF KeptIn, l
  <2>4. i \in 1 .. log'[l].len /\ log'[l].cell[i] = n /\ i <= length'[l]
    BY <1>1, <1>5, <1>6, <2>2, <2>3
  <2> QED
    BY <2>4
<1>9. \A n \in InAppend(l)' : n = m /\ pc'[n] = "longer" /\ n \in kept'[l]
  BY <1>1, <1>2, <1>3, <1>4 DEF l, InAppend
<1> QED
  BY <1>1, <1>4, <1>5, <1>7, <1>8, <1>9 DEF KeptIn, l

LEMMA KeptNext ==
  ASSUME TypeOK, TypeOK', Holders, Bounded, Kept, [Next]_vars
  PROVE  Kept'
<1> USE DEF InLogs
<1>1. (Kept <=> \A l \in Logs : KeptIn(l)) /\ (Kept' <=> \A l \in Logs : KeptIn(l)')
  BY DEF Kept, KeptIn
<1>2. ASSUME NEW m \in Metrics, Make(m)
      PROVE  Kept'
  BY <1>1, <1>2, KeptSame, SMTT(30) DEF Make, TypeOK, InAppend, Lengthened
<1>3. ASSUME NEW m \in Metrics, Lock(m)
      PROVE  Kept'
  <2>1. /\ pc[m] = "made" /\ pc' = [pc EXCEPT ![m] = "locked"] /\ log' = log /\ kept' = kept
        /\ length' = [length EXCEPT ![Log[m]] = log[Log[m]].len] /\ mutex[Log[m]] = None
    BY <1>3 DEF Lock
  <2>2. \A n \in Metrics : pc'[n] = IF n = m THEN "locked" ELSE pc[n]
    BY <2>1, RecorderPosition
  <2>3. KeptIn(Log[m])'
    <3>1. InAppend(Log[m])' = {m} /\ Lengthened(Log[m])' = Lengthened(Log[m])
      BY <2>1, <2>2 DEF TypeOK, InAppend, Lengthened
    <3>2. length'[Log[m]] = log[Log[m]].len
      BY <2>1 DEF TypeOK
    <3>3. \A n \in Lengthened(Log[m]) : n \in Metrics /\ n # m
      BY <2>1 DEF Lengthened
    <3> QED
      BY <1>1, <2>1, <2>2, <3>1, <3>2, <3>3 DEF KeptIn
  <2>4. ASSUME NEW l \in Logs \ {Log[m]}
        PROVE  KeptIn(l)'
    <3>1. InAppend(l)' = InAppend(l) /\ Lengthened(l)' = Lengthened(l)
      BY <2>1, RecorderPosition
    <3>2. length'[l] = length[l]
      BY <2>1 DEF TypeOK
    <3> QED
      BY <1>1, <2>1, <2>2, <3>1, <3>2, KeptSame
  <2> QED
    BY <1>1, <2>3, <2>4
<1>4. ASSUME NEW m \in Metrics, Lengthen(m) \/ Fill(m)
      PROVE  Kept'
  <2>1. KeptIn(Log[m])'
    BY <1>1, <1>4, KeptFill, KeptLengthen
  <2>2. ASSUME NEW l \in Logs \ {Log[m]}
        PROVE  KeptIn(l)'
    <3>1. InAppend(l)' = InAppend(l) /\ Lengthened(l)' = Lengthened(l)
      BY <1>4, RecorderPosition DEF Lengthen, Fill
    <3>2. length'[l] = length[l] /\ kept'[l] = kept[l] /\ log'[l] = log[l]
      BY <1>4 DEF Lengthen, Fill, TypeOK
    <3>3. \A n \in Metrics : Log[n] = l => pc'[n] = pc[n]
      BY <1>4 DEF Lengthen, Fill, TypeOK
    <3> QED
      BY <1>1, <3>1, <3>2, <3>3, KeptSame
  <2> QED
    BY <1>1, <2>1, <2>2
<1>5. ASSUME StartTrace \/ ClearSms \/ (\E k \in Writers : Writer(k)) \/ UNCHANGED vars
      PROVE  Kept'
  <2>1. ASSUME NEW l \in Logs, Clear(l)
        PROVE  Kept'
    <3>1. kept'[l] = {} /\ \A k \in Logs \ {l} : kept'[k] = kept[k] /\ log'[k] = log[k]
      BY <2>1 DEF Clear, TypeOK
    <3>2. pc' = pc /\ length' = length
          /\ \A k \in Logs : InAppend(k)' = InAppend(k) /\ Lengthened(k)' = Lengthened(k)
      BY <2>1 DEF Clear, InAppend, Lengthened
    <3>3. KeptIn(l)'
      BY <3>1 DEF KeptIn
    <3>4. \A k \in Logs \ {l} : KeptIn(k)'
      BY <1>1, <3>1, <3>2, KeptSame
    <3> QED
      BY <1>1, <3>3, <3>4
  <2>2. CASE UNCHANGED recording
    BY <2>2 DEF Kept, recording, InAppend, Lengthened
  <2>3. CASE kept' = [l \in Logs |-> {}]
    BY <2>3 DEF Kept
  <2> QED
    BY <1>5, <2>1, <2>2, <2>3, LogsNext
<1> QED
  BY <1>2, <1>3, <1>4, <1>5 DEF Next, Recorder

LEMMA InvNext == Inv /\ [Next]_vars => Inv'
  BY TypeNext, BoundedNext, KeptNext DEF Inv

-----------------------------------------------------------------------------
\* Every variable keeps its type: an append stays within the array of its log
\* however often StartTrace clears it, and a mutex is held by those at it.
THEOREM TypeCorrect == Spec => []TypeOK
<1>1. Inv => TypeOK
  BY DEF Inv
<1> QED
  BY <1>1, InvInit, InvNext, PTL DEF Spec

\* Whatever was appended since a log was cleared is in it, although StartTrace
\* takes no mutex.
THEOREM NoAppendIsLost == Spec => []NothingLost
<1>1. Inv => NothingLost
  <2> SUFFICES ASSUME Inv, NEW l \in Logs, NEW m \in kept[l], pc[m] = "done"
               PROVE  m \in Elements(log[l])
    BY DEF NothingLost
  <2>1. \E i \in 1 .. log[l].len : log[l].cell[i] = m
    BY DEF Inv, Kept
  <2> QED
    BY <2>1 DEF Elements, Pass, ToSet
<1> QED
  BY <1>1, InvInit, InvNext, PTL DEF Spec

-----------------------------------------------------------------------------
\* The rows are those of what was read.

RowsMade ==
    /\ DOMAIN rows = Writers /\ DOMAIN seen = Writers
    /\ \A k \in Writers : writer[k] = "sql" =>
           /\ \A l \in Logs : seen[k][l] \in Seq(Metrics)
           /\ rows[k] = makeRequestStats(seen[k]["rms"], seen[k]["sms"])

\* Without nil elements a pass over a slice has metrics only.
LEMMA PassType ==
  ASSUME TypeOK, NEW l \in Logs, NEW n \in 0 .. Cardinality(Metrics), ~ HasNil(log[l], n)
  PROVE  /\ Pass(log[l], n) \in Seq(Metrics)
         /\ DOMAIN Pass(log[l], n) = 1 .. n
         /\ \A i \in 1 .. n : Pass(log[l], n)[i] = log[l].cell[i]
<1>1. n \in Nat /\ Cardinality(Metrics) \in Nat
  BY FS_CardinalityType
<1>2. \A i \in 1 .. n : i \in Slots
  BY <1>1 DEF Slots
<1>3. \A i \in 1 .. n : log[l].cell[i] \in Metrics
  BY <1>2, SliceTypes DEF HasNil, Pass, ToSet
<1>4. Pass(log[l], n) \in [1 .. n -> Metrics]
  BY <1>3 DEF Pass
<1> QED
  BY <1>1, <1>4, SMTT(30) DEF Pass

LEMMA RowsMadeInit == Init => RowsMade
  BY DEF Init, RowsMade

LEMMA RowsMadeNext ==
  ASSUME TypeOK, RowsMade, [Next]_vars
  PROVE  RowsMade'
<1> USE DEF RowsMade
<1>1. CASE UNCHANGED <<rows, seen, writer>>
  BY <1>1
<1>2. ASSUME NEW m \in Metrics, Recorder(m)
      PROVE  RowsMade'
  BY <1>1, <1>2 DEF Recorder, Make, Lock, Lengthen, Fill, InLogs, writing
<1>3. CASE StartTrace
  BY <1>1, <1>3 DEF StartTrace, writing
<1>4. CASE ClearSms
  BY <1>4 DEF ClearSms, TypeOK
<1>5. ASSUME NEW k \in Writers, Writer(k)
      PROVE  RowsMade'
  <2>1. CASE WakeUp(k)
    BY <2>1 DEF WakeUp, Write, TypeOK
  <2>2. CASE MakeRows(k)
    <3> DEFINE metrics == [l \in Logs |-> Pass(log[l], headers[k][l])]
    <3>1. \A l \in Logs : metrics[l] \in Seq(Metrics)
      <4>1. \A l \in Logs : headers[k][l] \in 0 .. Cardinality(Metrics)
        BY DEF TypeOK
      <4> QED
        BY <2>2, <4>1, PassType DEF MakeRows
    <3>2. /\ rows' = [rows EXCEPT ![k] = makeRequestStats(metrics["rms"], metrics["sms"])]
          /\ seen' = [seen EXCEPT ![k] = metrics]
          /\ writer' = [writer EXCEPT ![k] = "sql"]
      BY <2>2 DEF MakeRows, Write
    <3> HIDE DEF metrics
    <3> QED
      BY <3>1, <3>2 DEF TypeOK
  <2>3. CASE CreateFails(k) \/ WriteStats(k)
    <3>1. /\ writer' = [writer EXCEPT ![k] = "done"]
          /\ rows' = [rows EXCEPT ![k] = {}]
          /\ seen' = [seen EXCEPT ![k] = << >>]
      BY <2>3 DEF CreateFails, WriteStats, Finish, Write
    <3>2. \A j \in Writers : writer'[j] = "sql" =>
              j # k /\ writer[j] = "sql" /\ rows'[j] = rows[j] /\ seen'[j] = seen[j]
      BY <3>1 DEF TypeOK
    <3> QED
      BY <3>1, <3>2
  <2>4. CASE WriterPanics(k)
    BY <2>4 DEF WriterPanics, Panic
  <2> QED
    BY <1>5, <2>1, <2>2, <2>3, <2>4 DEF Writer
<1>6. CASE UNCHANGED vars
  BY <1>1, <1>6 DEF vars, writing
<1> QED
  BY <1>2, <1>3, <1>4, <1>5, <1>6 DEF Next

\* The rows account for every request and statement that was read, once each, and
\* for their durations (makeRequestStats, makeStatsMap): for any metrics, paths and
\* queries.
THEOREM RowsAccountForAll == Spec => []RowsAddUp
<1>1. TypeOK /\ RowsMade => RowsAddUp
  <2> SUFFICES ASSUME TypeOK, RowsMade, NEW k \in Writers, writer[k] = "sql"
               PROVE  LET sms == seen[k]["sms"]
                      IN  /\ \A m \in Metrics :
                                 Log[m] = "sms" =>
                                     SqlCount(rows[k], Query[m]) =
                                         Cardinality(Having(sms, DOMAIN sms, Query, Query[m]))
                          /\ SumFunction([r \in rows[k] |-> r.requests.count]) = Len(seen[k]["rms"])
                          /\ SumFunction([r \in rows[k] |-> TotalsOf(r.sql)]) =
                                 SumFunction([i \in DOMAIN sms |-> Duration[sms[i]]])
    BY DEF RowsAddUp
  <2>1. /\ seen[k]["rms"] \in Seq(Metrics) /\ seen[k]["sms"] \in Seq(Metrics)
        /\ rows[k] = makeRequestStats(seen[k]["rms"], seen[k]["sms"])
    BY DEF RowsMade, Logs
  <2> DEFINE rms == seen[k]["rms"]
             sms == seen[k]["sms"]
  <2> HIDE DEF rms, sms
  <2>2. \A q : SqlCount(makeRequestStats(rms, sms), q) =
                  Cardinality(Having(sms, DOMAIN sms, Query, q))
    BY <2>1, RowsCount DEF rms, sms
  <2>3. SumFunction([r \in makeRequestStats(rms, sms) |-> r.requests.count]) = Len(rms)
    BY <2>1, RequestsCount DEF rms, sms
  <2>4. SumFunction([r \in makeRequestStats(rms, sms) |-> TotalsOf(r.sql)]) =
            SumFunction([i \in DOMAIN sms |-> Duration[sms[i]]])
    BY <2>1, TotalsAdd DEF rms, sms
  <2>5. rows[k] = makeRequestStats(rms, sms)
    BY <2>1 DEF rms, sms
  <2> QED
    BY <2>2, <2>3, <2>4, <2>5 DEF rms, sms
<1>2. Inv => TypeOK
  BY DEF Inv
<1> QED
  BY <1>1, <1>2, InvInit, InvNext, RowsMadeInit, RowsMadeNext, PTL DEF Spec

\* The shortest and the longest duration of a row are such, unless one was 0, which
\* an empty statistic is taken for: for any durations and any order of them.
THEOREM ExtremesAreRight == Spec => []ShortestAndLongest
<1>1. TypeOK /\ RowsMade => ShortestAndLongest
  <2> SUFFICES ASSUME TypeOK, RowsMade, NEW k \in Writers, writer[k] = "sql",
                      NEW r \in rows[k], NEW q \in DOMAIN r.sql
               PROVE  LET sms == seen[k]["sms"]
                          ds  == {Duration[sms[i]] : i \in Having(sms, DOMAIN sms, Path, r.path)
                                                            \cap Having(sms, DOMAIN sms, Query, q)}
                      IN  /\ {r.sql[q].min, r.sql[q].max} \subseteq ds
                          /\ \A d \in ds : d <= r.sql[q].max
                          /\ 0 \notin ds => \A d \in ds : r.sql[q].min <= d
    BY DEF ShortestAndLongest
  <2> DEFINE sms == seen[k]["sms"]
             P == Having(sms, OfPath(sms, r.path), Query, q)
  <2>1. /\ seen[k]["rms"] \in Seq(Metrics) /\ sms \in Seq(Metrics)
        /\ rows[k] = makeRequestStats(seen[k]["rms"], sms)
    BY DEF RowsMade, Logs
  <2> HIDE DEF sms
  <2>2. Shows(r, seen[k]["rms"], sms)
    BY <2>1, RowsShow
  <2>3. r.sql[q] = Stat(sms, P) /\ P # {} /\ P \in SUBSET DOMAIN sms
    BY <2>2 DEF Shows, Values, Having, OfPath
  <2>4. PICK g : Sums(g, Timed(sms), DOMAIN sms)
    <3>1. IsFiniteSet(DOMAIN sms) /\ Timed(sms) \in [DOMAIN sms -> Nat]
      BY <2>1, FS_Interval, ConstantsAssumption DEF Timed
    <3> QED
      BY <3>1, SumsExist
  <2>5. Durations(sms, P) = {Duration[sms[i]] : i \in Having(sms, DOMAIN sms, Path, r.path)
                                                      \cap Having(sms, DOMAIN sms, Query, q)}
    BY DEF Durations, Having, OfPath
  <2>6. Tells(Stat(sms, P), sms, g, P)
    BY <2>1, <2>3, <2>4, StatTells
  <2> HIDE DEF P
  <2>7. /\ {r.sql[q].min, r.sql[q].max} \subseteq Durations(sms, P)
        /\ \A d \in Durations(sms, P) : d <= r.sql[q].max
        /\ 0 \notin Durations(sms, P) => \A d \in Durations(sms, P) : r.sql[q].min <= d
    BY <2>3, <2>6 DEF Tells
  <2> QED
    BY <2>5, <2>7 DEF sms
<1>2. Inv => TypeOK
  BY DEF Inv
<1> QED
  BY <1>1, <1>2, InvInit, InvNext, RowsMadeInit, RowsMadeNext, PTL DEF Spec

-----------------------------------------------------------------------------
\* What the rows were made of is still there when the section of all statements is
\* made, for a writer that nothing has cut.

\* Whether an append has written the length it has read.
Written(m) == IF pc[m] = "longer" THEN 1 ELSE 0

\* Appends under way write lengths that are as long as what there is ...
Reach == \A m \in InAppend("sms") : log["sms"].len <= length["sms"] + Written(m)

\* ... and as what writers go by, whose rows no append changes any more.
StillThere ==
    \A k \in Writers \ cut :
        /\ writer[k] \in {"rows", "sql"} =>
               /\ headers[k]["sms"] <= log["sms"].len
               /\ \A m \in InAppend("sms") : headers[k]["sms"] <= length["sms"] + Written(m)
        /\ writer[k] = "sql" =>
               /\ DOMAIN seen[k]["sms"] = 1 .. headers[k]["sms"]
               /\ \A i \in 1 .. headers[k]["sms"] : seen[k]["sms"][i] = log["sms"].cell[i]
               /\ \A m \in InAppend("sms") : headers[k]["sms"] <= length["sms"]

LEMMA SmsTypes ==
  ASSUME TypeOK
  PROVE  /\ log["sms"].len \in Nat /\ length["sms"] \in Nat
         /\ \A k \in Writers : headers[k]["sms"] \in Nat
         /\ \A m : Written(m) \in {0, 1}
<1>1. "sms" \in Logs /\ Cardinality(Metrics) \in Nat
  BY FS_CardinalityType DEF Logs
<1> QED
  BY <1>1, SliceTypes DEF TypeOK, Written

LEMMA StillInit == Init => Reach /\ StillThere
  BY DEF Init, Reach, StillThere, InAppend

LEMMA ReachNext ==
  ASSUME TypeOK, Holders, Bounded, Reach, [Next]_vars
  PROVE  Reach'
<1> USE DEF Reach, InLogs
<1>0. "sms" \in Logs /\ log["sms"].len \in Nat /\ length["sms"] \in Nat
  BY SmsTypes DEF Logs
<1>1. ASSUME NEW m \in Metrics, Make(m)
      PROVE  Reach'
  BY <1>1 DEF Make, TypeOK, InAppend, Written
<1>2. ASSUME NEW m \in Metrics, Lock(m)
      PROVE  Reach'
  <2>1. CASE Log[m] = "sms"
    <3>1. InAppend("sms") = {}
      BY <1>0, <1>2, <2>1 DEF Lock, TypeOK, InAppend
    <3>2. length'["sms"] = log["sms"].len /\ log' = log
      BY <1>0, <1>2, <2>1 DEF Lock, TypeOK
    <3>3. \A n \in InAppend("sms")' : Written(n)' = 0
      BY <1>2, <3>1 DEF Lock, TypeOK, InAppend, Written
    <3> QED
      BY <1>0, <3>2, <3>3
  <2>2. CASE Log[m] # "sms"
    BY <1>0, <1>2, <2>2 DEF Lock, TypeOK, InAppend, Written
  <2> QED
    BY <2>1, <2>2
<1>3. ASSUME NEW m \in Metrics, Lengthen(m)
      PROVE  Reach'
  <2>1. /\ log' \in [Logs -> Slice] /\ log'[Log[m]].len = length[Log[m]] + 1
        /\ \A l \in Logs \ {Log[m]} : log'[l] = log[l]
    <3>1. length[Log[m]] + 1 \in 0 .. Cardinality(Metrics)
      BY <1>3, Room, FS_CardinalityType DEF Lengthen
    <3>2. log \in [Logs -> Slice] /\ Log[m] \in Logs
      BY ConstantsAssumption DEF TypeOK
    <3>3. log' = [log EXCEPT ![Log[m]].len = length[Log[m]] + 1]
      BY <1>3 DEF Lengthen
    <3> QED
      BY <3>1, <3>2, <3>3, SetLength
  <2>2. /\ length' = length /\ pc' = [pc EXCEPT ![m] = "longer"] /\ pc[m] = "locked"
    BY <1>3 DEF Lengthen
  <2>3. CASE Log[m] = "sms"
    <3>1. \A n \in InAppend("sms")' : n = m /\ pc'[m] = "longer"
      BY <1>0, <2>2, <2>3 DEF TypeOK, InAppend, Holders
    <3>2. \A n \in InAppend("sms")' : Written(n)' = 1
      BY <3>1 DEF Written
    <3> QED
      BY <1>0, <2>1, <2>2, <2>3, <3>2
  <2>4. CASE Log[m] # "sms"
    BY <1>0, <2>1, <2>2, <2>4 DEF TypeOK, InAppend, Written
  <2> QED
    BY <2>3, <2>4
<1>4. ASSUME NEW m \in Metrics, Fill(m)
      PROVE  Reach'
  <2>1. /\ log'[Log[m]].len = log[Log[m]].len
        /\ \A l \in Logs \ {Log[m]} : log'[l] = log[l]
    <3>1. length[Log[m]] + 1 \in Slots
      BY <1>4, Room DEF Fill, Slots
    <3> QED
      BY <1>4, <3>1, SetElement DEF Fill, TypeOK
  <2>2. CASE Log[m] = "sms"
    <3>1. InAppend("sms")' = {}
      BY <1>0, <1>4, <2>2 DEF Fill, TypeOK, InAppend, Holders
    <3> QED
      BY <3>1
  <2>3. CASE Log[m] # "sms"
    BY <1>0, <1>4, <2>1, <2>3 DEF Fill, TypeOK, InAppend, Written
  <2> QED
    BY <2>2, <2>3
<1>5. CASE StartTrace \/ ClearSms \/ (\E k \in Writers : Writer(k)) \/ UNCHANGED vars
  <2>1. ASSUME NEW l \in Logs, Clear(l)
        PROVE  Reach'
    <3>1. /\ log'[l].len = 0 /\ \A k \in Logs \ {l} : log'[k] = log[k]
          /\ pc' = pc /\ length' = length
      <4>1. 0 \in 0 .. Cardinality(Metrics)
        BY FS_CardinalityType
      <4>2. log \in [Logs -> Slice] /\ log' = [log EXCEPT ![l].len = 0]
        BY <2>1 DEF Clear, TypeOK
      <4> QED
        BY <2>1, <4>1, <4>2, SetLength DEF Clear
    <3>2. log'["sms"].len \in {0, log["sms"].len}
      BY <1>0, <3>1
    <3>3. InAppend("sms")' = InAppend("sms") /\ \A n : Written(n)' = Written(n)
      BY <3>1 DEF InAppend, Written
    <3>4. \A n : Written(n) \in {0, 1}
      BY DEF Written
    <3> QED
      BY <1>0, <3>1, <3>2, <3>3, <3>4
  <2>2. CASE UNCHANGED recording
    BY <2>2 DEF recording, InAppend, Written
  <2>3. CASE pc' = [m \in Metrics |-> IF pc[m] = "new" THEN "new" ELSE "done"]
    BY <2>3 DEF InAppend
  <2> QED
    BY <1>5, <2>1, <2>2, <2>3, LogsNext
<1> QED
  BY <1>1, <1>2, <1>3, <1>4, <1>5 DEF Next, Recorder

\* For one writer.
Still(k) ==
    /\ writer[k] \in {"rows", "sql"} =>
           /\ headers[k]["sms"] <= log["sms"].len
           /\ \A m \in InAppend("sms") : headers[k]["sms"] <= length["sms"] + Written(m)
    /\ writer[k] = "sql" =>
           /\ DOMAIN seen[k]["sms"] = 1 .. headers[k]["sms"]
           /\ \A i \in 1 .. headers[k]["sms"] : seen[k]["sms"][i] = log["sms"].cell[i]
           /\ \A m \in InAppend("sms") : headers[k]["sms"] <= length["sms"]

\* The appends leave it so.
LEMMA StillRecorded ==
  ASSUME TypeOK, Holders, Bounded, NEW k \in Writers, Still(k), NEW m \in Metrics, Recorder(m)
  PROVE  Still(k)'
<1> USE DEF InLogs, writing
<1>0. /\ "sms" \in Logs /\ log["sms"].len \in Nat /\ length["sms"] \in Nat
      /\ headers[k]["sms"] \in Nat /\ \A n : Written(n) \in {0, 1}
  BY SmsTypes DEF Logs
<1>1. writer' = writer /\ headers' = headers /\ seen' = seen
  BY DEF Recorder, Make, Lock, Lengthen, Fill
<1>2. CASE Make(m)
  BY <1>1, <1>2 DEF Make, TypeOK, InAppend, Written, Still
<1>3. CASE Lock(m)
  <2>1. CASE Log[m] = "sms"
    <3>1. length'["sms"] = log["sms"].len /\ log' = log
      BY <1>0, <1>3, <2>1 DEF Lock, TypeOK
    <3>2. \A n : Written(n)' \in {0, 1}
      BY DEF Written
    <3> QED
      BY <1>0, <1>1, <3>1, <3>2 DEF Still
  <2>2. CASE Log[m] # "sms"
    BY <1>0, <1>1, <1>3, <2>2 DEF Lock, TypeOK, InAppend, Written, Still
  <2> QED
    BY <2>1, <2>2
<1>4. CASE Lengthen(m)
  <2>1. /\ log'[Log[m]].len = length[Log[m]] + 1 /\ log'[Log[m]].cell = log[Log[m]].cell
        /\ \A l \in Logs \ {Log[m]} : log'[l] = log[l]
    <3>1. length[Log[m]] + 1 \in 0 .. Cardinality(Metrics)
      BY <1>4, Room, FS_CardinalityType DEF Lengthen
    <3> QED
      BY <1>4, <3>1, SetLength DEF Lengthen, TypeOK
  <2>2. /\ length' = length /\ pc' = [pc EXCEPT ![m] = "longer"] /\ pc[m] = "locked"
    BY <1>4 DEF Lengthen
  <2>3. CASE Log[m] = "sms"
    <3>1. m \in InAppend("sms") /\ Written(m) = 0
      BY <2>2, <2>3 DEF InAppend, Written
    <3>2. writer[k] \in {"rows", "sql"} => headers[k]["sms"] <= length["sms"]
      BY <1>0, <3>1 DEF Still
    <3>3. \A n : Written(n)' \in {0, 1}
      BY DEF Written
    <3>4. log'["sms"].len = length["sms"] + 1 /\ log'["sms"].cell = log["sms"].cell
      BY <2>1, <2>3
    <3>5. writer[k] \in {"rows", "sql"} =>
             /\ headers[k]["sms"] <= log'["sms"].len
             /\ \A n : headers[k]["sms"] <= length["sms"] + Written(n)'
      BY <1>0, <3>2, <3>3, <3>4
    <3>6. writer[k] = "sql" =>
             /\ DOMAIN seen[k]["sms"] = 1 .. headers[k]["sms"]
             /\ \A i \in 1 .. headers[k]["sms"] : seen[k]["sms"][i] = log'["sms"].cell[i]
      BY <3>4 DEF Still
    <3> QED
      BY <1>1, <2>2, <3>2, <3>5, <3>6 DEF Still
  <2>4. CASE Log[m] # "sms"
    <3>1. log'["sms"] = log["sms"] /\ InAppend("sms")' = InAppend("sms")
          /\ \A n \in InAppend("sms") : Written(n)' = Written(n)
      BY <1>0, <2>1, <2>2, <2>4 DEF TypeOK, InAppend, Written
    <3> QED
      BY <1>1, <2>2, <3>1 DEF Still
  <2> QED
    BY <2>3, <2>4
<1>5. CASE Fill(m)
  <2> DEFINE e == length[Log[m]] + 1
  <2>1. /\ log'[Log[m]].len = log[Log[m]].len
        /\ log'[Log[m]].cell = [log[Log[m]].cell EXCEPT ![e] = m]
        /\ \A l \in Logs \ {Log[m]} : log'[l] = log[l]
    <3>1. e \in Slots
      BY <1>5, Room DEF Fill, Slots
    <3> QED
      BY <1>5, <3>1, SetElement DEF Fill, TypeOK
  <2>2. CASE Log[m] = "sms"
    <3>1. InAppend("sms")' = {} /\ m \in InAppend("sms")
      BY <1>0, <1>5, <2>2 DEF Fill, TypeOK, InAppend, Holders
    <3>2. writer[k] = "sql" => headers[k]["sms"] < e
      BY <1>0, <2>2, <3>1 DEF Still
    <3>3. writer[k] = "sql" => \A i \in 1 .. headers[k]["sms"] :
                                  log'["sms"].cell[i] = log["sms"].cell[i]
      <4> SUFFICES ASSUME writer[k] = "sql", NEW i \in 1 .. headers[k]["sms"]
                   PROVE  log'["sms"].cell[i] = log["sms"].cell[i]
        OBVIOUS
      <4>1. e \in Nat
        BY <1>0, <2>2
      <4> HIDE DEF e
      <4>2. i # e
        BY <1>0, <3>2, <4>1
      <4>3. log'["sms"].cell = [log["sms"].cell EXCEPT ![e] = m]
        BY <2>1, <2>2
      <4>4. i \in DOMAIN log["sms"].cell => log'["sms"].cell[i] = log["sms"].cell[i]
        BY <4>2, <4>3
      <4>5. headers[k]["sms"] <= log["sms"].len /\ DOMAIN log["sms"].cell = Slots
        BY <1>0, SmsTypes, SliceTypes DEF Still
      <4>6. i \in Slots
        BY <1>0, <4>5, SliceTypes DEF Slots
      <4> QED
        BY <4>4, <4>5, <4>6
    <3> QED
      BY <1>1, <2>1, <2>2, <3>1, <3>3 DEF Still
  <2>3. CASE Log[m] # "sms"
    <3>1. log'["sms"] = log["sms"] /\ InAppend("sms")' = InAppend("sms")
          /\ length'["sms"] = length["sms"] /\ \A n \in InAppend("sms") : Written(n)' = Written(n)
      BY <1>0, <1>5, <2>1, <2>3 DEF Fill, TypeOK, InAppend, Written
    <3> QED
      BY <1>1, <3>1 DEF Still
  <2> QED
    BY <2>2, <2>3
<1> QED
  BY <1>2, <1>3, <1>4, <1>5 DEF Recorder

\* What a step leaves alone.
LEMMA StillSame ==
  ASSUME NEW k \in Writers, Still(k), log'["sms"] = log["sms"], length' = length, pc' = pc,
         writer'[k] = writer[k], headers'[k] = headers[k], seen'[k] = seen[k]
  PROVE  Still(k)'
  BY DEF Still, InAppend, Written

LEMMA StillNext ==
  ASSUME TypeOK, Holders, Bounded, RowsMade, Reach, StillThere, [Next]_vars
  PROVE  StillThere'
<1>0. \A k \in Writers \ cut : Still(k)
  BY DEF StillThere, Still
<1> SUFFICES ASSUME NEW k \in Writers, k \notin cut'
             PROVE  Still(k)'
  BY DEF StillThere, Still
<1>1. CASE writer'[k] \notin {"rows", "sql"}
  BY <1>1 DEF Still
<1>2. ASSUME NEW m \in Metrics, Recorder(m)
      PROVE  Still(k)'
  <2>1. cut' = cut
    BY <1>2 DEF Recorder, Make, Lock, Lengthen, Fill, InLogs, writing
  <2> QED
    BY <1>0, <1>2, <2>1, StillRecorded
<1>3. CASE StartTrace
  <2>1. log'["sms"] = log["sms"]
    BY <1>3 DEF StartTrace, Clear, TypeOK, Logs
  <2> QED
    BY <1>0, <1>3, <2>1, StillSame DEF StartTrace, Clear, writing
<1>4. CASE ClearSms
  <2>1. writer'[k] \notin {"rows", "sql"}
    BY <1>4 DEF ClearSms, TypeOK
  <2> QED
    BY <1>1, <2>1
<1>5. ASSUME NEW j \in Writers, Writer(j)
      PROVE  Still(k)'
  <2>1. CASE WakeUp(j)
    <3>1. /\ UNCHANGED <<log, length, pc, seen, cut>>
          /\ \A i \in Writers : i # j => writer'[i] = writer[i] /\ headers'[i] = headers[i]
          /\ headers'[j]["sms"] = log["sms"].len /\ writer'[j] = "rows"
      BY <2>1 DEF WakeUp, Write, recording, TypeOK, Logs
    <3>2. CASE k = j
      <4>1. InAppend("sms")' = InAppend("sms") /\ \A n : Written(n)' = Written(n)
        BY <3>1 DEF InAppend, Written
      <4>2. log["sms"].len \in Nat
        BY SmsTypes
      <4> QED
        BY <3>1, <3>2, <4>1, <4>2 DEF Still, Reach
    <3>3. CASE k # j
      BY <1>0, <3>1, <3>3, StillSame
    <3> QED
      BY <3>2, <3>3
  <2>2. CASE MakeRows(j)
    <3> DEFINE metrics == [l \in Logs |-> Pass(log[l], headers[j][l])]
    <3>1. /\ UNCHANGED <<log, length, pc, headers>>
          /\ \A i \in Writers : i # j => writer'[i] = writer[i] /\ seen'[i] = seen[i]
          /\ seen'[j] = metrics /\ writer[j] = "rows" /\ writer'[j] = "sql"
          /\ cut' = IF Torn(j) THEN cut \cup {j} ELSE cut
      BY <2>2 DEF MakeRows, Write, recording, TypeOK, RowsMade
    <3>2. CASE k = j
      <4>1. ~ Torn(j) /\ Still(j)
        BY <1>0, <3>1, <3>2
      <4>2. "sms" \in Logs /\ headers[j]["sms"] \in 0 .. Cardinality(Metrics)
            /\ ~ HasNil(log["sms"], headers[j]["sms"])
        BY <2>2 DEF MakeRows, TypeOK, Logs
      <4>3. /\ DOMAIN metrics["sms"] = 1 .. headers[j]["sms"]
            /\ \A i \in 1 .. headers[j]["sms"] : metrics["sms"][i] = log["sms"].cell[i]
        BY <4>2, PassType
      <4>4. /\ length["sms"] \in Nat /\ headers[j]["sms"] \in Nat
        BY SmsTypes
      <4>5. \A m \in InAppend("sms") : headers[j]["sms"] <= length["sms"]
        <5> SUFFICES ASSUME NEW m \in InAppend("sms")
                     PROVE  headers[j]["sms"] <= length["sms"]
          OBVIOUS
        <5>1. CASE pc[m] = "longer"
          BY <4>1, <4>4, <5>1 DEF Torn, InAppend
        <5>2. CASE pc[m] # "longer"
          <6>1. Written(m) = 0
            BY <5>2 DEF Written
          <6> QED
            BY <3>1, <4>1, <4>4, <6>1 DEF Still
        <5> QED
          BY <5>1, <5>2
      <4>6. InAppend("sms")' = InAppend("sms") /\ \A n : Written(n)' = Written(n)
        BY <3>1 DEF InAppend, Written
      <4> HIDE DEF metrics
      <4>7. headers[k]["sms"] <= log["sms"].len
            /\ \A m \in InAppend("sms") : headers[k]["sms"] <= length["sms"] + Written(m)
        BY <3>1, <3>2, <4>1 DEF Still
      <4> QED
        BY <3>1, <3>2, <4>3, <4>5, <4>6, <4>7 DEF Still
    <3>3. CASE k # j
      <4>1. k \notin cut
        BY <3>1
      <4> QED
        BY <1>0, <3>1, <3>3, <4>1, StillSame
    <3> QED
      BY <3>2, <3>3
  <2>3. CASE CreateFails(j) \/ WriteStats(j)
    <3>1. /\ UNCHANGED <<log, length, pc>> /\ cut' = cut \ {j}
          /\ \A i \in Writers : i # j => /\ writer'[i] = writer[i] /\ headers'[i] = headers[i]
                                       /\ seen'[i] = seen[i]
          /\ writer'[j] = "done"
      BY <2>3 DEF CreateFails, WriteStats, Finish, Write, recording, TypeOK, RowsMade
    <3>2. CASE k = j
      BY <1>1, <3>1, <3>2
    <3>3. CASE k # j
      BY <1>0, <3>1, <3>3, StillSame
    <3> QED
      BY <3>2, <3>3
  <2>4. CASE WriterPanics(j)
    <3>1. writer'[k] \notin {"rows", "sql"}
      BY <2>4 DEF WriterPanics, Panic
    <3> QED
      BY <1>1, <3>1
  <2> QED
    BY <1>5, <2>1, <2>2, <2>3, <2>4 DEF Writer
<1>6. CASE UNCHANGED vars
  BY <1>0, <1>6, StillSame DEF vars, recording, writing
<1> QED
  BY <1>2, <1>3, <1>4, <1>5, <1>6 DEF Next

\* An empty report counts nothing.
LEMMA NothingCounted == \A q : SqlCount({}, q) = 0
<1> SUFFICES ASSUME NEW q PROVE SqlCount({}, q) = 0
  OBVIOUS
<1> DEFINE v == [r \in {} |-> IF q \in DOMAIN r.sql THEN r.sql[q].count ELSE 0]
<1>1. IsFiniteSet({}) /\ v \in [{} -> Nat]
  BY FS_EmptySet
<1>2. SqlCount({}, q) = SumFunction(v)
  BY DEF SqlCount
<1> HIDE DEF v
<1>3. PICK h : Sums(h, v, {})
  BY <1>1, SumsExist
<1> QED
  BY <1>1, <1>2, <1>3, SumIs DEF Sums

\* A report of a writer that nothing has cut agrees with itself.
LEMMA ReportAgrees ==
  ASSUME TypeOK, RowsMade, NEW k \in Writers, k \notin cut => Still(k), WriteStats(k)
  PROVE  SectionsAgree'
<1> SUFFICES ASSUME k \notin cut, NEW m \in Metrics,
                    SqlCount(report'.rows, Query[m]) > 0
             PROVE  /\ Query[m] \in DOMAIN report'.sql
                    /\ report'.sql[Query[m]].count >= SqlCount(report'.rows, Query[m])
  BY DEF SectionsAgree, WriteStats
<1> DEFINE q == Query[m]
           n == log["sms"].len
           now == Pass(log["sms"], n)
           then == seen[k]["sms"]
           P == Having(now, 1 .. n, Query, q)
           Q == Having(then, DOMAIN then, Query, q)
<1>1. /\ writer[k] = "sql" /\ report'.rows = rows[k] /\ report'.sql = makeStats(now, 1 .. n)
      /\ ~ HasNil(log["sms"], n)
  BY DEF WriteStats
<1>2. /\ "sms" \in Logs /\ n \in 0 .. Cardinality(Metrics) /\ n \in Nat
  BY SliceTypes DEF Logs
<1>3. /\ now \in Seq(Metrics) /\ DOMAIN now = 1 .. n
      /\ \A i \in 1 .. n : now[i] = log["sms"].cell[i]
  BY <1>1, <1>2, PassType
<1>4. /\ seen[k]["rms"] \in Seq(Metrics) /\ then \in Seq(Metrics)
      /\ rows[k] = makeRequestStats(seen[k]["rms"], then)
  BY <1>1 DEF RowsMade, Logs
<1>5. /\ DOMAIN then \subseteq 1 .. n
      /\ \A i \in DOMAIN then : then[i] = now[i]
  <2>1. /\ headers[k]["sms"] <= n /\ headers[k]["sms"] \in Nat
        /\ DOMAIN then = 1 .. headers[k]["sms"]
        /\ \A i \in 1 .. headers[k]["sms"] : then[i] = log["sms"].cell[i]
    BY <1>1, SmsTypes DEF Still
  <2> HIDE DEF now, then
  <2> QED
    BY <1>2, <1>3, <2>1
<1> HIDE DEF now, then, q, n
<1>6. SqlCount(rows[k], q) = Cardinality(Q)
  BY <1>4, RowsCount
<1>7. Q \subseteq P /\ P \in SUBSET DOMAIN now
  BY <1>3, <1>5 DEF Having
<1>8. IsFiniteSet(P) /\ Cardinality(P) \in Nat /\ Cardinality(Q) \in Nat
      /\ Cardinality(Q) <= Cardinality(P)
  <2>1. IsFiniteSet(1 .. n)
    BY <1>2, FS_Interval
  <2>2. IsFiniteSet(P)
    BY <1>3, <1>7, <2>1, FS_Subset
  <2> QED
    BY <1>7, <2>2, FS_Subset, FS_CardinalityType
<1>9. P # {}
  <2>1. Cardinality(Q) > 0
    BY <1>1, <1>6 DEF q
  <2>2. Q # {}
    BY <2>1, FS_EmptySet
  <2> QED
    BY <1>7, <2>2
<1>10. q \in DOMAIN report'.sql /\ report'.sql[q] = Stat(now, P)
  <2>1. q \in Values(now, 1 .. n, Query)
    BY <1>9 DEF Having, Values
  <2> QED
    BY <1>1, <2>1 DEF makeStats
<1>11. Stat(now, P).count = Cardinality(P)
  <2>1. IsFiniteSet(DOMAIN now) /\ Timed(now) \in [DOMAIN now -> Nat]
    BY <1>2, <1>3, FS_Interval, ConstantsAssumption DEF Timed
  <2>2. PICK g : Sums(g, Timed(now), DOMAIN now)
    BY <2>1, SumsExist
  <2> HIDE DEF P
  <2> QED
    BY <1>3, <1>7, <2>2, StatTells DEF Tells
<1> QED
  BY <1>1, <1>6, <1>8, <1>10, <1>11 DEF q

LEMMA AgreeNext ==
  ASSUME TypeOK, RowsMade, StillThere, SectionsAgree, [Next]_vars
  PROVE  SectionsAgree'
<1>1. CASE UNCHANGED report
  BY <1>1 DEF SectionsAgree
<1>2. ASSUME NEW k \in Writers, Writer(k), report' # report
      PROVE  SectionsAgree'
  <2>1. CASE WriteStats(k)
    BY <2>1, ReportAgrees DEF StillThere, Still
  <2>2. CASE report' = NoReport
    BY <2>2, NothingCounted DEF SectionsAgree, NoReport
  <2> QED
    BY <1>2, <2>1, <2>2 DEF Writer, WakeUp, MakeRows, CreateFails, WriterPanics, Panic
<1> QED
  BY <1>1, <1>2 DEF Next, Recorder, Make, Lock, Lengthen, Fill, InLogs, StartTrace, ClearSms, vars

\* The section of all statements of a report has every query of its rows, as often at
\* least, though the log is read twice and appended to in between: unless a trace was
\* started or an append was at its element when the rows were made (writeStats).
THEOREM ReportsAgree == Spec => []SectionsAgree
<1> DEFINE All == Inv /\ RowsMade /\ Reach /\ StillThere /\ SectionsAgree
<1>1. Init => All
  <2>1. Init => SectionsAgree
    BY NothingCounted DEF Init, SectionsAgree, NoReport
  <2> QED
    BY <2>1, InvInit, RowsMadeInit, StillInit
<1>2. All /\ [Next]_vars => All'
  BY InvNext, RowsMadeNext, ReachNext, StillNext, AgreeNext DEF Inv
<1>3. All => SectionsAgree
  OBVIOUS
<1> QED
  BY <1>1, <1>2, <1>3, PTL DEF Spec
=============================================================================
