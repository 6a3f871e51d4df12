-------------------------- MODULE ScoreboardProofs --------------------------
(***************************************************************************)
(* Whatever files come, in whatever number and of whatever length: rankings *)
(* and pages are right, and lists are until an entry is inserted in them.   *)
(*                                                                          *)
(* First what the helpers compute.  The loop over a file is a fold, shown   *)
(* equal to its closed form by a least counterexample; the rows it keeps    *)
(* are those the query keeps; and finitely many rows of different numbers   *)
(* can be sorted, again by a least counterexample, so that what both rank   *)
(* is the last row of each player in order; the upload of all, the query of *)
(* the players who are no guests.  Then the invariants: a cached ranking is *)
(* what the last upload left or the query selects, a reader has a prefix of *)
(* it, and a cached list has each competition once.                         *)
(***************************************************************************)
EXTENDS Scoreboard, SequenceTheorems, FiniteSetTheorems, WellFoundedInduction, TLAPS

-----------------------------------------------------------------------------
\* Least and greatest.

\* A set of naturals has a least element.
LEMMA LeastNat ==
  ASSUME NEW T \in SUBSET Nat, T # {}
  PROVE  \E x \in T : \A y \in T : x <= y
<1>1. PICK x \in T : \A y \in T : ~ (<<y, x>> \in OpToRel(<, Nat))
  BY NatLessThanWellFounded, WFMin, ZenonT(20)
<1>2. \A y \in T : ~ (y < x)
  BY <1>1 DEF OpToRel
<1> QED
  BY <1>2

\* Min of a nonempty set of positions is its least element.
LEMMA MinIsLeast ==
  ASSUME NEW n \in Nat, NEW T \in SUBSET (1 .. n), T # {}
  PROVE  Min(T) \in T /\ \A i \in T : Min(T) <= i
<1>1. \E x \in T : \A y \in T : x <= y
  BY LeastNat
<1> QED
  BY <1>1 DEF Min

\* Max of a nonempty set of positions is its greatest element.
LEMMA MaxIsGreatest ==
  ASSUME NEW n \in Nat, NEW T \in SUBSET (1 .. n), T # {}
  PROVE  Max(T) \in T /\ \A i \in T : i <= Max(T)
<1> DEFINE U == {n - i : i \in T}
<1>1. U \in SUBSET Nat /\ U # {}
  <2>1. \A i \in T : n - i \in Nat
    OBVIOUS
  <2> QED
    BY <2>1
<1>2. PICK x \in U : \A y \in U : x <= y
  BY <1>1, LeastNat
<1>3. PICK k \in T : x = n - k
  BY <1>2
<1>4. \A i \in T : k >= i
  <2> TAKE i \in T
  <2>1. n - i \in U
    OBVIOUS
  <2> QED
    BY <1>2, <1>3, <2>1
<1>5. Max(T) \in T /\ \A i \in T : Max(T) >= i
  BY <1>4 DEF Max
<1> QED
  BY <1>5

-----------------------------------------------------------------------------
\* The loop over the rows of an upload.

\* What the loop has gathered after the rows T.
Gathered(file, T) ==
    [p \in {file[i].player : i \in T} |->
        LET k == Max({i \in T : file[i].player = p})
        IN  [score |-> file[k].score, row |-> k]]

\* One turn of the loop: the greatest of the rows T comes last.
LEMMA GatheredTurn ==
  ASSUME NEW file \in Seq(FileRow), NEW T \in SUBSET (DOMAIN file), T # {}
  PROVE  LET k   == Max(T)
             set == Gathered(file, T \ {k})
         IN  Gathered(file, T) =
                [p \in DOMAIN set \cup {file[k].player} |->
                    IF p = file[k].player THEN [score |-> file[k].score, row |-> k]
                    ELSE set[p]]
<1> DEFINE k == Max(T)
           S == T \ {k}
           Of(U, p) == {i \in U : file[i].player = p}
<1>1. DOMAIN file = 1 .. Len(file) /\ Len(file) \in Nat
  OBVIOUS
<1>2. k \in T /\ \A i \in T : i <= k
  BY <1>1, MaxIsGreatest
<1> HIDE DEF k
<1>3. {file[i].player : i \in T} = {file[i].player : i \in S} \cup {file[k].player}
  BY <1>2
<1>4. Max(Of(T, file[k].player)) = k
  <2>1. Of(T, file[k].player) \in SUBSET (1 .. Len(file)) /\ k \in Of(T, file[k].player)
    BY <1>1, <1>2
  <2>2. /\ Max(Of(T, file[k].player)) \in Of(T, file[k].player)
        /\ \A i \in Of(T, file[k].player) : i <= Max(Of(T, file[k].player))
    BY <1>1, <2>1, MaxIsGreatest
  <2> HIDE DEF Of
  <2>3. Max(Of(T, file[k].player)) \in T
    BY <2>2 DEF Of
  <2>4. k <= Max(Of(T, file[k].player)) /\ Max(Of(T, file[k].player)) <= k
    BY <1>2, <2>1, <2>2, <2>3
  <2> QED
    BY <1>1, <1>2, <2>3, <2>4
<1>5. \A p : p # file[k].player => Of(T, p) = Of(S, p)
  OBVIOUS
<1> QED
  BY <1>3, <1>4, <1>5 DEF Gathered, k

LEMMA LoopGathers ==
  ASSUME NEW file \in Seq(FileRow)
  PROVE  ScoredPlayerSet(file) = Gathered(file, DOMAIN file)
<1> DEFINE D == DOMAIN file
           id == [i \in D |-> i]
           Turn(set, i) ==
             [p \in DOMAIN set \cup {file[i].player} |->
                IF p = file[i].player THEN [score |-> file[i].score, row |-> i]
                ELSE set[p]]
           Body(iter, T) == IF T = {} THEN <<>>
                            ELSE Turn(iter[T \ {Max(T)}], id[Max(T)])
           IsLoop(iter) == iter = [T \in SUBSET DOMAIN id |-> Body(iter, T)]
           I == CHOOSE iter : IsLoop(iter)
           G == [T \in SUBSET D |-> Gathered(file, T)]
<1>1. D = 1 .. Len(file) /\ Len(file) \in Nat /\ DOMAIN id = D
  OBVIOUS
<1>2. \A T \in SUBSET D : T # {} => Max(T) \in T /\ Max(T) \in D /\ id[Max(T)] = Max(T)
  BY <1>1, MaxIsGreatest
<1>3. ScoredPlayerSet(file) = I[DOMAIN id]
  BY DEF ScoredPlayerSet, FoldLeftDomain, FoldLeft, MapThenFoldSet
<1>4. \A T \in SUBSET D : Body(G, T) = Gathered(file, T)
  <2> TAKE T \in SUBSET D
  <2>1. CASE T = {}
    <3>1. Gathered(file, T) = <<>>
      BY <2>1 DEF Gathered
    <3> QED
      BY <2>1, <3>1
  <2>2. CASE T # {}
    <3>1. T \ {Max(T)} \in SUBSET D
      OBVIOUS
    <3>2. G[T \ {Max(T)}] = Gathered(file, T \ {Max(T)})
      BY <3>1
    <3>3. Body(G, T) = Turn(Gathered(file, T \ {Max(T)}), Max(T))
      BY <1>2, <2>2, <3>2
    <3> QED
      BY <2>2, <3>3, GatheredTurn
  <2> QED
    BY <2>1, <2>2
<1>5. IsLoop(G)
  <2> HIDE DEF Body
  <2> QED
    BY <1>1, <1>4
<1>6. IsLoop(I)
  <2> HIDE DEF IsLoop
  <2> QED
    BY <1>5
<1> HIDE DEF I
<1>7. \A T \in SUBSET D : I[T] = Body(I, T)
  BY <1>1, <1>6
<1>8. \A k \in Nat : \A T \in SUBSET D : T \subseteq 1 .. k => I[T] = Gathered(file, T)
  <2> DEFINE Wrong == {k \in Nat : \E T \in SUBSET D :
                          T \subseteq 1 .. k /\ I[T] # Gathered(file, T)}
  <2>1. SUFFICES ASSUME Wrong # {} PROVE FALSE
    BY <2>1
  <2>2. PICK k \in Wrong : \A j \in Wrong : k <= j
    BY <2>1, LeastNat
  <2>3. PICK T \in SUBSET D : T \subseteq 1 .. k /\ I[T] # Gathered(file, T)
    BY <2>2
  <2>4. CASE T = {}
    <3>1. Gathered(file, T) = <<>>
      BY <2>4 DEF Gathered
    <3> QED
      BY <1>7, <2>3, <2>4, <3>1
  <2>5. CASE T # {}
    <3> DEFINE l == Max(T) - 1
               S == T \ {Max(T)}
    <3>1. Max(T) \in T /\ \A i \in T : i <= Max(T)
      BY <1>1, <2>5, MaxIsGreatest
    <3>2. l \in Nat /\ l < k /\ S \in SUBSET D /\ S \subseteq 1 .. l
      BY <2>2, <2>3, <3>1
    <3>3. I[S] = Gathered(file, S)
      <4>1. l \notin Wrong
        <5> HIDE DEF Wrong
        <5>1. k \in Nat
          BY <2>2 DEF Wrong
        <5> QED
          BY <2>2, <3>2, <5>1
      <4> QED
        BY <3>2, <4>1
    <3>4. I[T] = Turn(Gathered(file, S), Max(T))
      <4>1. Body(I, T) = Turn(I[S], id[Max(T)])
        BY <2>5
      <4>2. I[T] = Turn(I[S], Max(T))
        <5> HIDE DEF Body, Turn, id, S
        <5> QED
          BY <1>2, <1>7, <2>5, <4>1
      <4> HIDE DEF Turn
      <4> QED
        BY <3>3, <4>2
    <3>5. Gathered(file, T) = Turn(Gathered(file, S), Max(T))
      BY <2>5, GatheredTurn
    <3> QED
      BY <2>3, <3>4, <3>5
  <2> QED
    BY <2>4, <2>5
<1> QED
  BY <1>1, <1>3, <1>8

-----------------------------------------------------------------------------
\* The rows that count.

LastRank(file, p) ==
    [player |-> p, score |-> file[LastRow(file, p)].score, row |-> LastRow(file, p)]

\* LastRow is the last row of a player the file names.
LEMMA LastRowIsLast ==
  ASSUME NEW file \in Seq(FileRow), NEW p \in Named(file)
  PROVE  /\ LastRow(file, p) \in DOMAIN file
         /\ file[LastRow(file, p)].player = p
         /\ \A i \in DOMAIN file : file[i].player = p => i <= LastRow(file, p)
<1> DEFINE T == {i \in DOMAIN file : file[i].player = p}
<1>1. DOMAIN file = 1 .. Len(file) /\ Len(file) \in Nat
  OBVIOUS
<1>2. T \in SUBSET (1 .. Len(file)) /\ T # {}
  BY <1>1 DEF Named, ToSet
<1>3. Max(T) \in T /\ \A i \in T : i <= Max(T)
  BY <1>1, <1>2, MaxIsGreatest
<1> QED
  BY <1>3 DEF LastRow

\* The upload ranks the last row of each player ...
LEMMA UploadTakesLast ==
  ASSUME NEW file \in Seq(FileRow)
  PROVE  /\ DOMAIN ScoredPlayerSet(file) = Named(file)
         /\ \A p \in Named(file) :
               /\ ScoredPlayerSet(file)[p].score = file[LastRow(file, p)].score
               /\ ScoredPlayerSet(file)[p].row = LastRow(file, p)
<1>1. ScoredPlayerSet(file) = Gathered(file, DOMAIN file)
  BY LoopGathers
<1>2. {file[i].player : i \in DOMAIN file} = Named(file)
  BY DEF Named, ToSet
<1> QED
  BY <1>1, <1>2 DEF Gathered, LastRow

\* ... and so does the query.
LEMMA QueryTakesLast ==
  ASSUME NEW file \in Seq(FileRow)
  PROVE  LatestRows(file) = {LastRank(file, p) : p \in Named(file)}
<1> DEFINE table == {[player |-> file[i].player, score |-> file[i].score, row |-> i] :
                        i \in DOMAIN file}
<1>1. LatestRows(file) = {r \in table : \A s \in table : s.player = r.player => s.row <= r.row}
  BY DEF LatestRows
<1>2. ASSUME NEW r \in LatestRows(file)
      PROVE  \E p \in Named(file) : r = LastRank(file, p)
  <2>1. PICK i \in DOMAIN file :
            r = [player |-> file[i].player, score |-> file[i].score, row |-> i]
    BY <1>1
  <2> DEFINE p == file[i].player
             k == LastRow(file, p)
  <2>2. p \in Named(file)
    BY DEF Named, ToSet
  <2>3. k \in DOMAIN file /\ file[k].player = p /\ i <= k
    BY <2>2, LastRowIsLast
  <2>4. k <= i
    <3>1. [player |-> file[k].player, score |-> file[k].score, row |-> k] \in table
      BY <2>3
    <3> HIDE DEF table, k
    <3> QED
      BY <1>1, <2>1, <2>3, <3>1
  <2>5. k = i
    BY <2>3, <2>4
  <2> QED
    BY <2>1, <2>2, <2>5 DEF LastRank
<1>3. ASSUME NEW p \in Named(file)
      PROVE  LastRank(file, p) \in LatestRows(file)
  <2>1. /\ LastRow(file, p) \in DOMAIN file
        /\ file[LastRow(file, p)].player = p
        /\ \A i \in DOMAIN file : file[i].player = p => i <= LastRow(file, p)
    BY LastRowIsLast
  <2>2. LastRank(file, p) \in table
    BY <2>1 DEF LastRank
  <2>3. \A s \in table : s.player = p => s.row <= LastRow(file, p)
    BY <2>1
  <2> QED
    BY <1>1, <2>2, <2>3 DEF LastRank
<1> QED
  BY <1>2, <1>3

\* So both rank the last rows, the upload of all players, the query of its own.
Own == Players \ Guests

RanksOf(file, Q) == Ranked({r \in LatestRows(file) : r.player \in Q})

LEMMA BothRank ==
  ASSUME NEW file \in Seq(FileRow)
  PROVE  /\ UploadRanks(file) = RanksOf(file, Players)
         /\ SelectRanks(file) = RanksOf(file, Own)
         /\ Guests \cap Named(file) = {} => UploadRanks(file) = SelectRanks(file)
<1> DEFINE set == ScoredPlayerSet(file)
           scores == {[player |-> p, score |-> set[p].score, row |-> set[p].row] :
                         p \in DOMAIN set}
           Of(Q) == {r \in LatestRows(file) : r.player \in Q}
<1>1. scores = LatestRows(file)
  <2> HIDE DEF set
  <2> QED
    BY UploadTakesLast, QueryTakesLast DEF LastRank, set
<1>2. \A r \in LatestRows(file) : r.player \in Named(file)
  BY QueryTakesLast DEF LastRank
<1>3. Named(file) \subseteq Players
  <2>1. \A i \in DOMAIN file : file[i] \in FileRow
    OBVIOUS
  <2> QED
    BY <2>1 DEF Named, ToSet, FileRow
<1>4. LatestRows(file) = Of(Players)
  BY <1>2, <1>3
<1>5. {r \in LatestRows(file) : r.player \notin Guests} = Of(Own)
  BY <1>2, <1>3 DEF Own
<1>6. Guests \cap Named(file) = {} => Of(Own) = Of(Players)
  BY <1>2, <1>3 DEF Own
<1>7. UploadRanks(file) = Ranked(scores)
  BY DEF UploadRanks
<1> HIDE DEF scores, Of
<1> QED
  BY <1>1, <1>4, <1>5, <1>6, <1>7 DEF SelectRanks, RanksOf, Of

-----------------------------------------------------------------------------
\* Sorting.

ScoreRow == [player : Players, score : Int, row : Nat]

\* Rows of different numbers, as the rows of one file are.
Unlike(scores) == \A a, b \in scores : a.row = b.row => a = b

\* Ahead orders them strictly and totally.
LEMMA AheadOrders ==
  ASSUME NEW a \in ScoreRow, NEW b \in ScoreRow, NEW c \in ScoreRow
  PROVE  /\ ~ Ahead(a, a)
         /\ Ahead(a, b) /\ Ahead(b, c) => Ahead(a, c)
         /\ a.row # b.row => Ahead(a, b) \/ Ahead(b, a)
  BY DEF Ahead, ScoreRow

\* A row has a place in what is sorted already.
LEMMA InsertSorted ==
  ASSUME NEW n \in Nat, NEW x \in ScoreRow, NEW t \in [1 .. n -> ScoreRow],
         Sorted(t), \A i \in 1 .. n : t[i].row # x.row
  PROVE  \E s \in [1 .. n + 1 -> ScoreRow] :
            Sorted(s) /\ ToSet(s) = ToSet(t) \cup {x}
<1> DEFINE Behind == {i \in 1 .. n : Ahead(x, t[i])}
<1>1. PICK j \in 1 .. n + 1 :
          /\ \A i \in 1 .. n : i < j => Ahead(t[i], x)
          /\ \A i \in 1 .. n : i >= j => Ahead(x, t[i])
  <2>1. CASE Behind = {}
    <3>1. \A i \in 1 .. n : Ahead(t[i], x)
      BY <2>1, AheadOrders
    <3> QED
      BY <3>1
  <2>2. CASE Behind # {}
    <3> DEFINE j == Min(Behind)
    <3>1. j \in Behind /\ \A i \in Behind : j <= i
      BY <2>2, MinIsLeast
    <3>2. j \in 1 .. n /\ Ahead(x, t[j])
      BY <3>1
    <3>3. ASSUME NEW i \in 1 .. n, i < j PROVE Ahead(t[i], x)
      <4>1. i \notin Behind
        <5> HIDE DEF Behind
        <5> QED
          BY <3>1, <3>2, <3>3
      <4> QED
        BY <4>1, AheadOrders
    <3>4. ASSUME NEW i \in 1 .. n, i >= j PROVE Ahead(x, t[i])
      <4>1. CASE i = j
        BY <3>2, <4>1
      <4>2. CASE i # j
        <5> HIDE DEF j
        <5>1. j < i
          BY <3>2, <3>4, <4>2
        <5>2. Ahead(t[j], t[i])
          BY <3>2, <5>1 DEF Sorted
        <5>3. t[i] \in ScoreRow /\ t[j] \in ScoreRow
          BY <3>2
        <5> QED
          BY <3>2, <5>2, <5>3, AheadOrders
      <4> QED
        BY <4>1, <4>2
    <3>5. j \in 1 .. n + 1
      BY <3>2
    <3>6. /\ \A i \in 1 .. n : i < j => Ahead(t[i], x)
          /\ \A i \in 1 .. n : i >= j => Ahead(x, t[i])
      BY <3>3, <3>4
    <3> HIDE DEF j
    <3> QED
      BY <3>5, <3>6
  <2> QED
    BY <2>1, <2>2
<1> DEFINE s == [i \in 1 .. n + 1 |-> IF i < j THEN t[i] ELSE IF i = j THEN x ELSE t[i - 1]]
<1>2. s \in [1 .. n + 1 -> ScoreRow]
  OBVIOUS
<1>3. Sorted(s)
  <2> SUFFICES ASSUME NEW a \in 1 .. n + 1, NEW b \in 1 .. n + 1, a < b
               PROVE  Ahead(s[a], s[b])
    BY DEF Sorted
  <2>1. CASE b < j
    BY <2>1 DEF Sorted
  <2>2. CASE b = j
    BY <1>1, <2>2
  <2>3. CASE a = j
    BY <1>1, <2>3
  <2>4. CASE a > j
    BY <2>4 DEF Sorted
  <2>5. CASE a < j /\ b > j
    <3>1. Ahead(t[a], x) /\ Ahead(x, t[b - 1]) /\ t[a] \in ScoreRow /\ t[b - 1] \in ScoreRow
      BY <1>1, <2>5
    <3> QED
      BY <2>5, <3>1, AheadOrders
  <2> QED
    BY <2>1, <2>2, <2>3, <2>4, <2>5
<1>4. ToSet(s) = ToSet(t) \cup {x}
  <2>1. ASSUME NEW i \in 1 .. n + 1 PROVE s[i] \in ToSet(t) \cup {x}
    BY DEF ToSet
  <2>2. ASSUME NEW i \in 1 .. n PROVE t[i] \in ToSet(s)
    <3>1. CASE i < j
      <4>1. i \in 1 .. n + 1 /\ s[i] = t[i]
        BY <3>1
      <4> QED
        BY <4>1 DEF ToSet
    <3>2. CASE i >= j
      <4>1. i + 1 \in 1 .. n + 1 /\ s[i + 1] = t[i]
        BY <3>2
      <4> QED
        BY <4>1 DEF ToSet
    <3> QED
      BY <3>1, <3>2
  <2>3. x \in ToSet(s)
    <3>1. s[j] = x
      OBVIOUS
    <3> QED
      BY <3>1 DEF ToSet
  <2> QED
    BY <2>1, <2>2, <2>3 DEF ToSet
<1> QED
  BY <1>2, <1>3, <1>4

\* Any finite number of rows can be put in order.
LEMMA SortedExists ==
  ASSUME NEW scores \in SUBSET ScoreRow, IsFiniteSet(scores), Unlike(scores)
  PROVE  \E s \in [1 .. Cardinality(scores) -> ScoreRow] : Sorted(s) /\ ToSet(s) = scores
<1> DEFINE Can(S) == \E s \in [1 .. Cardinality(S) -> ScoreRow] :
                        Sorted(s) /\ ToSet(s) = S
           Wrong == {k \in Nat : \E S \in SUBSET scores : Cardinality(S) = k /\ ~ Can(S)}
<1>1. \A S \in SUBSET scores : IsFiniteSet(S) /\ Cardinality(S) \in Nat
  BY FS_Subset, FS_CardinalityType
<1>2. ASSUME Wrong # {} PROVE FALSE
  <2>1. PICK k \in Wrong : \A j \in Wrong : k <= j
    BY <1>2, LeastNat
  <2>2. PICK S \in SUBSET scores : Cardinality(S) = k /\ ~ Can(S)
    BY <2>1
  <2>3. CASE S = {}
    <3> DEFINE none == [i \in 1 .. 0 |-> i]
    <3>1. Cardinality(S) = 0
      BY <2>3, FS_EmptySet
    <3>2. none \in [1 .. 0 -> ScoreRow] /\ Sorted(none) /\ ToSet(none) = S
      BY <2>3 DEF Sorted, ToSet
    <3> QED
      BY <2>2, <3>1, <3>2
  <2>4. CASE S # {}
    <3>1. PICK x \in S : TRUE
      BY <2>4
    <3> DEFINE R == S \ {x}
               n == Cardinality(R)
    <3>2. R \in SUBSET scores /\ n \in Nat /\ Cardinality(S) = n + 1
      <4>1. Cardinality(R) = Cardinality(S) - 1
        BY <1>1, <3>1, FS_RemoveElement
      <4>2. Cardinality(S) \in Nat /\ Cardinality(R) \in Nat
        BY <1>1
      <4> QED
        BY <4>1, <4>2
    <3>3. Can(R)
      <4> HIDE DEF Can
      <4>1. n \notin Wrong
        BY <2>1, <2>2, <3>2
      <4> QED
        BY <3>2, <4>1
    <3>4. PICK t \in [1 .. n -> ScoreRow] : Sorted(t) /\ ToSet(t) = R
      BY <3>3
    <3>5. \A i \in 1 .. n : t[i].row # x.row
      <4>1. \A i \in 1 .. n : t[i] \in R
        BY <3>4 DEF ToSet
      <4> QED
        BY <4>1 DEF Unlike
    <3> HIDE DEF n
    <3>6. PICK s \in [1 .. n + 1 -> ScoreRow] : Sorted(s) /\ ToSet(s) = ToSet(t) \cup {x}
      BY <3>2, <3>4, <3>5, InsertSorted
    <3>7. ToSet(s) = S
      BY <3>4, <3>6
    <3> QED
      BY <2>2, <3>2, <3>6, <3>7
  <2> QED
    BY <2>3, <2>4
<1> QED
  <2>1. Cardinality(scores) \notin Wrong
    BY <1>2
  <2> QED
    BY <1>1, <2>1

\* The sort puts every row in its place.
LEMMA RankedIsSorted ==
  ASSUME NEW scores \in SUBSET ScoreRow, IsFiniteSet(scores), Unlike(scores)
  PROVE  \E s \in Seq(ScoreRow) :
            /\ Sorted(s)
            /\ ToSet(s) = scores
            /\ Ranked(scores) = [i \in 1 .. Len(s) |->
                                    [player |-> s[i].player, score |-> s[i].score]]
<1> DEFINE n == Cardinality(scores)
           s == CHOOSE t \in SetToSeqs(scores) : Sorted(t)
<1>1. n \in Nat
  BY FS_CardinalityType
<1>2. PICK t \in [1 .. n -> ScoreRow] : Sorted(t) /\ ToSet(t) = scores
  BY SortedExists
<1> HIDE DEF n
<1>3. \A i, j \in 1 .. n : i # j => t[i] # t[j]
  <2> TAKE i, j \in 1 .. n
  <2>1. i < j => Ahead(t[i], t[j])
    BY <1>2 DEF Sorted
  <2>2. j < i => Ahead(t[j], t[i])
    BY <1>2 DEF Sorted
  <2>3. ~ Ahead(t[i], t[i])
    BY AheadOrders
  <2> QED
    BY <1>1, <2>1, <2>2, <2>3
<1>4. t \in SetToSeqs(scores)
  <2>1. t \in [1 .. n -> scores]
    BY <1>2 DEF ToSet
  <2> QED
    BY <1>3, <2>1 DEF SetToSeqs, n
<1>5. s \in SetToSeqs(scores) /\ Sorted(s)
  BY <1>2, <1>4
<1>6. Ranked(scores) = [i \in 1 .. Len(s) |->
                           [player |-> s[i].player, score |-> s[i].score]]
  BY DEF Ranked
<1> HIDE DEF s
<1>7. s \in [1 .. n -> scores] /\ \A i, j \in 1 .. n : i # j => s[i] # s[j]
  BY <1>5 DEF SetToSeqs, n
<1>8. ToSet(s) = scores
  <2>1. s \in Injection(1 .. n, scores)
    BY <1>7 DEF Injection, IsInjective
  <2>2. Cardinality(1 .. n) = n
    BY <1>1, FS_Interval
  <2>3. s \in Surjection(1 .. n, scores)
    BY <2>1, <2>2, FS_Injection DEF n
  <2> QED
    BY <1>7, <2>3 DEF Surjection, ToSet
<1>9. s \in Seq(ScoreRow)
  BY <1>1, <1>7
<1> QED
  BY <1>5, <1>6, <1>8, <1>9

-----------------------------------------------------------------------------
\* What the ranking of a file shows.

\* The rows that count are finitely many, of different numbers.
LEMMA LatestRowsType ==
  ASSUME NEW file \in Seq(FileRow)
  PROVE  /\ LatestRows(file) \in SUBSET ScoreRow
         /\ IsFiniteSet(LatestRows(file))
         /\ Unlike(LatestRows(file))
<1> DEFINE n == Len(file)
           number == [r \in LatestRows(file) |-> r.row]
<1>1. n \in Nat /\ DOMAIN file = 1 .. n
  OBVIOUS
<1>2. ASSUME NEW r \in LatestRows(file)
      PROVE  /\ r.row \in 1 .. n
             /\ r = [player |-> file[r.row].player, score |-> file[r.row].score,
                     row |-> r.row]
  BY DEF LatestRows
<1>3. \A i \in 1 .. n : file[i] \in FileRow
  OBVIOUS
<1>4. LatestRows(file) \in SUBSET ScoreRow
  <2> SUFFICES ASSUME NEW r \in LatestRows(file) PROVE r \in ScoreRow
    OBVIOUS
  <2>1. r.row \in 1 .. n /\ r.row \in Nat /\ file[r.row] \in FileRow
    BY <1>1, <1>2, <1>3
  <2> HIDE DEF n
  <2> QED
    BY <1>2, <2>1 DEF FileRow, ScoreRow
<1>5. Unlike(LatestRows(file))
  BY <1>2 DEF Unlike
<1>6. IsFiniteSet(LatestRows(file))
  <2>1. IsFiniteSet(1 .. n)
    BY <1>1, FS_Interval
  <2>2. number \in Injection(LatestRows(file), 1 .. n)
    BY <1>2, <1>5 DEF Injection, IsInjective, Unlike
  <2> QED
    BY <2>1, <2>2, FS_Injection
<1> QED
  BY <1>4, <1>5, <1>6

\* RankingsStand of one file and one ranking, of the players Q.
Stands(file, Q, ranks) ==
    LET row(i) == LastRow(file, ranks[i].player)
    IN  /\ Named(ranks) = Named(file) \cap Q
        /\ \A i \in DOMAIN ranks : ranks[i].score = file[row(i)].score
        /\ \A i, j \in DOMAIN ranks : i < j =>
               \/ ranks[i].score > ranks[j].score
               \/ ranks[i].score = ranks[j].score /\ row(i) < row(j)

LEMMA RanksStand ==
  ASSUME NEW file \in Seq(FileRow), NEW Q
  PROVE  RanksOf(file, Q) \in Seq(Rank) /\ Stands(file, Q, RanksOf(file, Q))
<1> DEFINE scores == {r \in LatestRows(file) : r.player \in Q}
<1>0. scores \in SUBSET ScoreRow /\ IsFiniteSet(scores) /\ Unlike(scores)
  <2>1. scores \subseteq LatestRows(file)
    OBVIOUS
  <2> QED
    BY <2>1, LatestRowsType, FS_Subset DEF Unlike
<1>1. PICK s \in Seq(ScoreRow) :
          /\ Sorted(s)
          /\ ToSet(s) = scores
          /\ RanksOf(file, Q) = [i \in 1 .. Len(s) |->
                                     [player |-> s[i].player, score |-> s[i].score]]
  BY <1>0, RankedIsSorted DEF RanksOf
<1> DEFINE n == Len(s)
           ranks == [i \in 1 .. n |-> [player |-> s[i].player, score |-> s[i].score]]
<1>2. n \in Nat /\ DOMAIN s = 1 .. n /\ \A i \in 1 .. n : s[i] \in ScoreRow
  OBVIOUS
<1>3. ranks \in Seq(Rank)
  BY <1>2 DEF ScoreRow, Rank
<1>4. \A i \in 1 .. n : \E p \in Named(file) \cap Q : s[i] = LastRank(file, p)
  <2>1. \A i \in 1 .. n : s[i] \in LatestRows(file) /\ s[i].player \in Q
    BY <1>1, <1>2 DEF ToSet
  <2> QED
    BY <2>1, QueryTakesLast DEF LastRank
<1>5. \A p \in Named(file) \cap Q : \E i \in 1 .. n : s[i] = LastRank(file, p)
  <2> TAKE p \in Named(file) \cap Q
  <2>1. LastRank(file, p) \in ToSet(s)
    BY <1>1, QueryTakesLast DEF LastRank
  <2> QED
    BY <1>2, <2>1 DEF ToSet
<1> HIDE DEF n
<1>6. \A i \in 1 .. n : /\ ranks[i].player \in Named(file) \cap Q
                        /\ ranks[i].score = s[i].score
                        /\ s[i].score = file[LastRow(file, ranks[i].player)].score
                        /\ s[i].row = LastRow(file, ranks[i].player)
  <2> TAKE i \in 1 .. n
  <2>1. PICK p \in Named(file) \cap Q : s[i] = LastRank(file, p)
    BY <1>4
  <2>2. ranks[i] = [player |-> s[i].player, score |-> s[i].score]
    OBVIOUS
  <2>3. /\ s[i].player = p
        /\ s[i].score = file[LastRow(file, p)].score
        /\ s[i].row = LastRow(file, p)
    BY <2>1 DEF LastRank
  <2> HIDE DEF ranks
  <2> QED
    BY <2>2, <2>3
<1>7. {r.player : r \in ToSet(ranks)} = Named(file) \cap Q
  <2>1. ASSUME NEW p \in Named(file) \cap Q PROVE p \in {r.player : r \in ToSet(ranks)}
    <3>1. PICK i \in 1 .. n : s[i] = LastRank(file, p)
      BY <1>5
    <3>2. ranks[i] \in ToSet(ranks) /\ ranks[i].player = p
      BY <3>1 DEF LastRank, ToSet
    <3> QED
      BY <3>2
  <2>2. \A r \in ToSet(ranks) : r.player \in Named(file) \cap Q
    BY <1>6 DEF ToSet
  <2> QED
    BY <2>1, <2>2
<1>8. \A i, j \in 1 .. n : i < j => Ahead(s[i], s[j])
  BY <1>1, <1>2 DEF Sorted
<1>9. Stands(file, Q, ranks)
  <2>1. DOMAIN ranks = 1 .. n
    OBVIOUS
  <2> HIDE DEF ranks
  <2>2. \A i \in DOMAIN ranks : ranks[i].score = file[LastRow(file, ranks[i].player)].score
    BY <1>6, <2>1
  <2>3. ASSUME NEW i \in DOMAIN ranks, NEW j \in DOMAIN ranks, i < j
        PROVE  \/ ranks[i].score > ranks[j].score
               \/ /\ ranks[i].score = ranks[j].score
                  /\ LastRow(file, ranks[i].player) < LastRow(file, ranks[j].player)
    BY <1>6, <1>8, <2>1, <2>3 DEF Ahead
  <2> QED
    BY <1>7, <2>2, <2>3 DEF Stands, Named
<1> QED
  BY <1>1, <1>3, <1>9 DEF n

\* Both rankings are sequences of ranks, and name whom they should.
LEMMA BothStand ==
  ASSUME NEW file \in Seq(FileRow)
  PROVE  /\ UploadRanks(file) \in Seq(Rank) /\ Stands(file, Players, UploadRanks(file))
         /\ SelectRanks(file) \in Seq(Rank) /\ Stands(file, Own, SelectRanks(file))
         /\ Named(file) \subseteq Players
         /\ Named(UploadRanks(file)) = Named(file)
<1>1. \A i \in DOMAIN file : file[i] \in FileRow
  OBVIOUS
<1>2. Named(file) \subseteq Players
  BY <1>1 DEF Named, ToSet, FileRow
<1>3. /\ UploadRanks(file) \in Seq(Rank) /\ Stands(file, Players, UploadRanks(file))
      /\ SelectRanks(file) \in Seq(Rank) /\ Stands(file, Own, SelectRanks(file))
  BY BothRank, RanksStand
<1>4. Named(UploadRanks(file)) = Named(file) \cap Players
  BY <1>3 DEF Stands
<1> QED
  BY <1>2, <1>3, <1>4

\* Without a file there is no rank.
LEMMA NothingRanked ==
  UploadRanks(<<>>) = <<>>
<1>1. UploadRanks(<<>>) \in Seq(Rank) /\ Named(UploadRanks(<<>>)) = {}
  <2>1. <<>> \in Seq(FileRow) /\ Named(<<>>) = {}
    BY DEF Named, ToSet
  <2> QED
    BY <2>1, BothStand DEF Stands
<1>2. DOMAIN UploadRanks(<<>>) = {}
  BY <1>1 DEF Named, ToSet
<1> QED
  BY <1>1, <1>2

-----------------------------------------------------------------------------
\* The types.

Typed ==
    /\ TypeOK
    /\ ranking \in [Competitions -> Seq(Rank) \cup {Absent}]
    /\ lists \in [Players -> Seq(Entry) \cup {Absent}]

LEMMA MinOfTwo ==
  ASSUME NEW a \in Int, NEW b \in Int
  PROVE  Min({a, b}) = IF a <= b THEN a ELSE b
  BY DEF Min

LEMMA FilesAreRows ==
  \A c \in Competitions : TypeOK => rows[c] \in Seq(FileRow)
<1>1. <<>> \in Seq(FileRow)
  OBVIOUS
<1> QED
  BY <1>1, ConstantsAssumption DEF TypeOK

\* A page is a piece of the ranking.
LEMMA CutType ==
  ASSUME NEW ranks \in Seq(Rank), NEW after \in 0 .. Len(ranks)
  PROVE  /\ Cut(ranks, after) \in Seq(Rank)
         /\ UpTo(ranks, after) \in after .. Len(ranks)
         /\ after < Len(ranks) => UpTo(ranks, after) > after
<1>1. UpTo(ranks, after) = IF after + PageSize <= Len(ranks) THEN after + PageSize
                           ELSE Len(ranks)
  BY ConstantsAssumption, MinOfTwo DEF UpTo
<1>2. UpTo(ranks, after) \in after .. Len(ranks)
  BY <1>1, ConstantsAssumption
<1> QED
  BY <1>1, <1>2, ConstantsAssumption DEF Cut

\* An entry is put, or taken, and the list remains one.
LEMMA PutType ==
  ASSUME NEW list \in Seq(Entry), NEW e \in Entry
  PROVE  Put(list, e) \in Seq(Entry)
<1> DEFINE same  == Same(list, e.comp)
           later == NotBefore(list, e.comp)
<1> USE DEF Same, NotBefore
<1>1. DOMAIN list = 1 .. Len(list) /\ Len(list) \in Nat
  OBVIOUS
<1>2. CASE same # {}
  <2>1. Put(list, e) = [list EXCEPT ![Min(same)] = e]
    BY <1>2 DEF Put
  <2>2. Min(same) \in same
    BY <1>1, <1>2, MinIsLeast
  <2>3. Min(same) \in 1 .. Len(list)
    BY <1>1, <2>2
  <2> HIDE DEF same
  <2> QED
    BY <2>1, <2>3, ExceptSeq
<1>3. CASE same = {} /\ later # {}
  <2>1. Min(later) \in later
    BY <1>1, <1>3, MinIsLeast
  <2>2. Min(later) \in 1 .. Len(list)
    BY <1>1, <2>1
  <2>3. Put(list, e) = InsertAtIndex(list, Min(later), e)
    BY <1>3 DEF Put
  <2> HIDE DEF later
  <2> QED
    BY <1>1, <2>2, <2>3 DEF InsertAtIndex
<1>4. CASE same = {} /\ later = {}
  <2>1. Put(list, e) = Append(list, e)
    BY <1>4 DEF Put
  <2> QED
    BY <2>1
<1> QED
  BY <1>2, <1>3, <1>4

LEMMA TakeType ==
  ASSUME NEW list \in Seq(Entry), NEW c \in Competitions
  PROVE  Take(list, c) \in Seq(Entry)
<1> DEFINE same == Same(list, c)
<1> USE DEF Same
<1>1. DOMAIN list = 1 .. Len(list) /\ Len(list) \in Nat
  OBVIOUS
<1>2. CASE same # {}
  <2>1. Min(same) \in same
    BY <1>1, <1>2, MinIsLeast
  <2>2. Min(same) \in 1 .. Len(list)
    BY <1>1, <2>1
  <2>3. Take(list, c) = RemoveAt(list, Min(same))
    BY <1>2 DEF Take
  <2> HIDE DEF same
  <2> QED
    BY <1>1, <2>2, <2>3 DEF RemoveAt
<1>3. CASE same = {}
  BY <1>3 DEF Take
<1> QED
  BY <1>2, <1>3

\* What the query selects for a player: one entry per competition that has
\* scores of the player.
LEMMA SelectListsAre ==
  ASSUME NEW p \in Players, TypeOK, NEW list \in SelectLists(p)
  PROVE  /\ list \in Seq(Entry)
         /\ ToSet(list) = {[comp |-> c, score |-> ScoreOf(p, c)] : c \in Scored(p)}
         /\ \A i, j \in DOMAIN list : i < j =>
               CreatedAt[list[i].comp] <= CreatedAt[list[j].comp]
         /\ \A i, j \in DOMAIN list : i # j => list[i].comp # list[j].comp
<1> DEFINE E(c) == {[comp |-> c, score |-> r.score] :
                       r \in {r \in LatestRows(rows[c]) : r.player = p}}
           entries == UNION {E(c) : c \in Competitions}
           scored == {[comp |-> c, score |-> ScoreOf(p, c)] : c \in Scored(p)}
           n == Cardinality(entries)
<1>1. \A c \in Competitions : rows[c] \in Seq(FileRow)
  BY FilesAreRows
<1>2. \A c \in Competitions : c \in Scored(p) <=> p \in Named(rows[c])
  BY DEF Scored
<1>3. ASSUME NEW c \in Competitions
      PROVE  E(c) = IF c \in Scored(p) THEN {[comp |-> c, score |-> ScoreOf(p, c)]} ELSE {}
  <2>1. LatestRows(rows[c]) = {LastRank(rows[c], q) : q \in Named(rows[c])}
    BY <1>1, QueryTakesLast
  <2>2. {r \in LatestRows(rows[c]) : r.player = p} =
            IF p \in Named(rows[c]) THEN {LastRank(rows[c], p)} ELSE {}
    BY <2>1 DEF LastRank
  <2>3. E(c) = IF p \in Named(rows[c])
               THEN {[comp |-> c, score |-> LastRank(rows[c], p).score]} ELSE {}
    BY <2>2
  <2>4. LastRank(rows[c], p).score = ScoreOf(p, c)
    BY DEF LastRank, ScoreOf
  <2> HIDE DEF E
  <2> QED
    BY <1>2, <2>3, <2>4
<1>4. entries = scored
  <2>1. Scored(p) \subseteq Competitions
    BY DEF Scored
  <2> HIDE DEF E
  <2> QED
    BY <1>3, <2>1
<1>5. scored \in SUBSET Entry
  <2> SUFFICES ASSUME NEW c \in Scored(p) PROVE [comp |-> c, score |-> ScoreOf(p, c)] \in Entry
    OBVIOUS
  <2>1. c \in Competitions /\ rows[c] \in Seq(FileRow) /\ p \in Named(rows[c])
    BY <1>1, <1>2 DEF Scored
  <2>2. LastRow(rows[c], p) \in DOMAIN rows[c]
    BY <2>1, LastRowIsLast
  <2>3. rows[c][LastRow(rows[c], p)] \in FileRow
    BY <2>1, <2>2
  <2> QED
    BY <2>1, <2>3 DEF ScoreOf, FileRow, Entry
<1>6. IsFiniteSet(scored) /\ n \in Nat
  <2> DEFINE held == [e \in scored |-> e.comp]
  <2>1. held \in Injection(scored, Competitions)
    BY DEF Injection, IsInjective, Scored
  <2>2. IsFiniteSet(scored)
    BY <2>1, FS_Injection, ConstantsAssumption
  <2> QED
    BY <1>4, <2>2, FS_CardinalityType
<1>7. /\ list \in SetToSeqs(entries)
      /\ \A i, j \in DOMAIN list : i < j =>
            CreatedAt[list[i].comp] <= CreatedAt[list[j].comp]
  BY DEF SelectLists
<1>8. list \in [1 .. n -> entries] /\ \A i, j \in 1 .. n : i # j => list[i] # list[j]
  BY <1>7 DEF SetToSeqs
<1> HIDE DEF n, entries
<1>9. ToSet(list) = entries
  <2>1. list \in Injection(1 .. n, entries)
    BY <1>8 DEF Injection, IsInjective
  <2>2. Cardinality(1 .. n) = n
    BY <1>6, FS_Interval
  <2>3. list \in Surjection(1 .. n, entries)
    BY <1>4, <1>6, <2>1, <2>2, FS_Injection DEF n
  <2> QED
    BY <1>8, <2>3 DEF Surjection, ToSet
<1>10. list \in Seq(Entry)
  <2>1. list \in [1 .. n -> Entry]
    BY <1>4, <1>5, <1>8
  <2> QED
    BY <1>6, <2>1
<1>11. \A i, j \in 1 .. n : i # j => list[i].comp # list[j].comp
  BY <1>4, <1>8
<1> QED
  BY <1>4, <1>7, <1>8, <1>9, <1>10, <1>11

\* What a page adds to what has been seen.
LEMMA PageShows ==
  ASSUME Typed, NEW c \in Competitions, NEW after \in Nat, Page(c, after)
  PROVE  /\ ranking' \in [Competitions -> Seq(Rank) \cup {Absent}]
         /\ seen' \in Seq(Rank)
         /\ answer' \in {"ranks", "empty", "panic"}
<1>1. \A ranks \in Seq(Rank) : \A k \in 0 .. Len(ranks) : Cut(ranks, k) \in Seq(Rank)
  BY CutType
<1>2. SelectRanks(rows[c]) \in Seq(Rank)
  BY FilesAreRows, BothStand DEF Typed
<1>3. CASE PageHit(c, after)
  <2>1. ranking[c] \in Seq(Rank)
    BY <1>3 DEF PageHit, Typed
  <2>2. CASE after <= Len(ranking[c]) /\ Show(Cut(ranking[c], after))
    <3>1. Cut(ranking[c], after) \in Seq(Rank)
      BY <1>1, <2>1, <2>2
    <3> QED
      BY <1>3, <2>2, <3>1 DEF PageHit, Show, Typed, TypeOK
  <2>3. CASE answer' = "panic" /\ UNCHANGED seen
    BY <1>3, <2>3 DEF PageHit, Typed, TypeOK
  <2> QED
    BY <1>3, <2>2, <2>3 DEF PageHit
<1>4. CASE PageMiss(c, after)
  <2> DEFINE ranks == SelectRanks(rows[c])
             k == Min({after, Len(ranks)})
  <2>1. ranking' = [ranking EXCEPT ![c] = ranks] /\ ranking'[c] = ranks
    BY <1>4 DEF PageMiss, Typed
  <2>2. k \in 0 .. Len(ranks)
    BY <1>2, MinOfTwo
  <2>3. Show(Cut(ranks, k))
    BY <1>4, <2>1 DEF PageMiss
  <2>4. Cut(ranks, k) \in Seq(Rank)
    BY <1>1, <1>2, <2>2
  <2> HIDE DEF k, ranks
  <2> QED
    BY <1>2, <2>1, <2>3, <2>4 DEF Show, Typed, TypeOK, ranks
<1> QED
  BY <1>3, <1>4 DEF Page

LEMMA UploadType ==
  ASSUME Typed, NEW c \in Competitions, NEW file \in Files, Upload(c, file)
  PROVE  Typed'
<1> DEFINE set == ScoredPlayerSet(file)
<1>1. file \in Seq(FileRow)
  BY ConstantsAssumption
<1>2. UploadRanks(file) \in Seq(Rank)
  BY <1>1, BothStand
<1>3. \A p \in DOMAIN set : [comp |-> c, score |-> set[p].score] \in Entry
  <2> SUFFICES ASSUME NEW p \in DOMAIN set
               PROVE  [comp |-> c, score |-> set[p].score] \in Entry
    OBVIOUS
  <2>1. p \in Named(file) /\ set[p].score = file[LastRow(file, p)].score
    BY <1>1, UploadTakesLast
  <2>2. file[LastRow(file, p)] \in FileRow
    BY <1>1, <2>1, LastRowIsLast
  <2> QED
    BY <2>1, <2>2 DEF FileRow, Entry
<1>4. lists' \in [Players -> Seq(Entry) \cup {Absent}]
  <2> DEFINE missing == IF ranking[c] = Absent THEN {}
                        ELSE {r.player : r \in ToSet(ranking[c])} \ DOMAIN set
             updated(p) == IF p \in DOMAIN set
                           THEN Put(lists[p], [comp |-> c, score |-> set[p].score])
                           ELSE IF p \in missing THEN Take(lists[p], c) ELSE lists[p]
  <2>1. lists' = [p \in Players |-> IF lists[p] = Absent THEN Absent ELSE updated(p)]
    BY DEF Upload
  <2>2. ASSUME NEW p \in Players, lists[p] # Absent PROVE updated(p) \in Seq(Entry)
    <3>1. lists[p] \in Seq(Entry)
      BY <2>2 DEF Typed
    <3> HIDE DEF set, missing
    <3>2. CASE p \in DOMAIN set
      BY <1>3, <3>1, <3>2, PutType
    <3>3. CASE p \notin DOMAIN set
      BY <3>1, <3>3, TakeType
    <3> QED
      BY <3>2, <3>3
  <2> HIDE DEF updated
  <2> QED
    BY <2>1, <2>2
<1>5. moved' \in BOOLEAN /\ spoilt' \subseteq Players
  <2>1. moved' \in BOOLEAN
    BY Zenon DEF Upload
  <2>2. DOMAIN set \subseteq Players
    BY <1>1, UploadTakesLast, BothStand
  <2> HIDE DEF set
  <2> QED
    BY <2>1, <2>2 DEF Upload, Typed, TypeOK, set
<1>6. /\ rows' = [rows EXCEPT ![c] = file]
      /\ ranking' = [ranking EXCEPT ![c] = UploadRanks(file)]
      /\ UNCHANGED <<client, seen, answer, restarts>>
  BY DEF Upload
<1> QED
  BY <1>2, <1>4, <1>5, <1>6 DEF Typed, TypeOK

LEMMA TypedInit ==
  Init => Typed
<1> SUFFICES ASSUME Init PROVE Typed
  OBVIOUS
<1>1. <<>> \in Seq(Rank) /\ <<>> \in Seq(Entry)
  OBVIOUS
<1>2. ranking \in [Competitions -> Seq(Rank) \cup {Absent}]
  BY <1>1 DEF Init
<1>3. lists \in [Players -> Seq(Entry) \cup {Absent}]
  BY <1>1 DEF Init
<1>4. rows \in [Competitions -> Files \cup {<<>>}] /\ restarts \in 0 .. MaxRestarts
  BY ConstantsAssumption DEF Init
<1> QED
  BY <1>1, <1>2, <1>3, <1>4 DEF Init, Typed, TypeOK

LEMMA TypedNext ==
  Typed /\ [Next]_vars => Typed'
<1> SUFFICES ASSUME Typed, [Next]_vars PROVE Typed'
  OBVIOUS
<1>1. ASSUME NEW c \in Competitions, NEW file \in Files, Upload(c, file) PROVE Typed'
  BY <1>1, UploadType
<1>2. ASSUME NEW p \in Players, ListMiss(p) PROVE Typed'
  <2>1. PICK list \in SelectLists(p) : lists' = [lists EXCEPT ![p] = list]
    BY <1>2 DEF ListMiss
  <2>2. list \in Seq(Entry)
    BY SelectListsAre DEF Typed
  <2> QED
    BY <1>2, <2>1, <2>2 DEF ListMiss, reader, Typed, TypeOK
<1>8. ASSUME NEW p \in Players, ListElsewhere(p) PROVE Typed'
  <2>1. <<>> \in Seq(Entry)
    OBVIOUS
  <2> QED
    BY <1>8, <2>1 DEF ListElsewhere, reader, Typed, TypeOK
<1>3. ASSUME NEW c \in Competitions, FirstPage(c) PROVE Typed'
  <2>1. Page(c, 0) /\ client' = c /\ moved' = FALSE /\ UNCHANGED <<rows, lists, spoilt, restarts>>
    BY <1>3 DEF FirstPage
  <2>2. /\ ranking' \in [Competitions -> Seq(Rank) \cup {Absent}]
        /\ seen' \in Seq(Rank)
        /\ answer' \in {"ranks", "empty", "panic"}
    BY <2>1, PageShows
  <2> QED
    BY <2>1, <2>2 DEF Typed, TypeOK
<1>4. CASE NextPage
  <2>1. /\ client \in Competitions
        /\ Len(seen) \in Nat
        /\ Page(client, Len(seen))
        /\ UNCHANGED <<rows, lists, spoilt, client, moved, restarts>>
    BY <1>4 DEF NextPage, Typed, TypeOK
  <2>2. /\ ranking' \in [Competitions -> Seq(Rank) \cup {Absent}]
        /\ seen' \in Seq(Rank)
        /\ answer' \in {"ranks", "empty", "panic"}
    BY <2>1, PageShows
  <2> QED
    BY <2>1, <2>2 DEF Typed, TypeOK
<1>5. CASE Leave
  <2>1. <<>> \in Seq(Rank)
    OBVIOUS
  <2> QED
    BY <1>5, <2>1 DEF Leave, Typed, TypeOK
<1>6. CASE Restart
  <2>1. moved' \in BOOLEAN
    BY <1>6, Zenon DEF Restart
  <2> QED
    BY <1>6, <2>1, ConstantsAssumption DEF Restart, Typed, TypeOK
<1>7. CASE UNCHANGED vars
  BY <1>7 DEF vars, reader, Typed, TypeOK
<1> QED
  BY <1>1, <1>2, <1>3, <1>4, <1>5, <1>6, <1>7, <1>8 DEF Next

\* The types, for any files, competitions and page size: taking an entry out of
\* a list leaves a list, and a page is a piece of a ranking.
THEOREM TypeCorrect ==
  Spec => []TypeOK
<1>1. Typed => TypeOK
  BY DEF Typed
<1> QED
  BY <1>1, TypedInit, TypedNext, PTL DEF Spec

-----------------------------------------------------------------------------
\* The rankings.

\* A cached ranking is the one an upload of the stored file has left, or, after a
\* restart, the one the query would select now.
Current ==
    \A c \in Competitions :
        \/ ranking[c] = UploadRanks(rows[c])
        \/ restarts > 0 /\ ranking[c] \in {Absent, SelectRanks(rows[c])}

LEMMA CurrentInit ==
  Init => Current
  BY NothingRanked DEF Init, Current

LEMMA CurrentNext ==
  Typed /\ Current /\ [Next]_vars => Current'
<1> SUFFICES ASSUME Typed, Current, [Next]_vars PROVE Current'
  OBVIOUS
<1>0. \A c \in Competitions : UploadRanks(rows[c]) # Absent
  BY FilesAreRows, BothStand, ConstantsAssumption DEF Typed
<1>1. ASSUME NEW c \in Competitions, NEW after \in Nat, Page(c, after), UNCHANGED <<rows, restarts>>
      PROVE  Current'
  BY <1>0, <1>1 DEF Page, PageHit, PageMiss, Current, Typed
<1>2. ASSUME NEW c \in Competitions, NEW file \in Files, Upload(c, file) PROVE Current'
  <2>1. /\ rows' = [rows EXCEPT ![c] = file]
        /\ ranking' = [ranking EXCEPT ![c] = UploadRanks(file)]
        /\ UNCHANGED restarts
    BY <1>2 DEF Upload
  <2> QED
    BY <2>1 DEF Current, Typed, TypeOK
<1>3. CASE NextPage
  <2>1. client \in Competitions /\ Len(seen) \in Nat
    BY <1>3 DEF NextPage, Typed, TypeOK
  <2> QED
    BY <1>1, <1>3, <2>1 DEF NextPage
<1>4. CASE Restart
  BY <1>4 DEF Restart, Current, Typed, TypeOK
<1>5. CASE UNCHANGED <<rows, ranking, restarts>>
  BY <1>5 DEF Current
<1>6. ASSUME NEW c \in Competitions, FirstPage(c) PROVE Current'
  BY <1>1, <1>6 DEF FirstPage
<1> QED
  BY <1>2, <1>3, <1>4, <1>5, <1>6 DEF Next, ListMiss, ListElsewhere, Leave, vars

LEMMA CurrentStands ==
  Typed /\ Current => RankingsStand
<1> SUFFICES ASSUME Typed, Current PROVE RankingsStand
  OBVIOUS
<1>1. ASSUME NEW c \in Competitions, ranking[c] # Absent
      PROVE  \/ Stands(rows[c], Players, ranking[c])
             \/ restarts > 0 /\ Stands(rows[c], Own, ranking[c])
  BY <1>1, FilesAreRows, BothStand DEF Current, Typed
<1>2. \A c \in Competitions : /\ Named(rows[c]) \cap Players = Named(rows[c])
                             /\ Named(rows[c]) \cap Own = Named(rows[c]) \ Guests
  BY FilesAreRows, BothStand DEF Typed, Own
<1> QED
  BY <1>1, <1>2 DEF RankingsStand, Stands

\* Of every file, however long and with whatever ties, repetitions and guests: a
\* cached ranking has each player once, with the score of the last row, by falling
\* score and rising row: every player an upload names, and, of those, every one of
\* the tenant's own when the query computed it after a restart.
THEOREM RankingsAreRight ==
  Spec => []RankingsStand
<1> QED
  BY TypedInit, TypedNext, CurrentInit, CurrentNext, CurrentStands, PTL DEF Spec

-----------------------------------------------------------------------------
\* The pages.

\* Who has not asked has seen nothing.
Fresh == client = Absent => seen = <<>> /\ answer = "ranks"

\* Who pages through a ranking that has not moved has a prefix of the cached one; if
\* a restart has emptied the cache, both ways of computing it agree.
Reads ==
    client # Absent /\ ~moved =>
        /\ answer # "panic"
        /\ \E ranks \in {UploadRanks(rows[client]), SelectRanks(rows[client])} :
              /\ IsPrefix(seen, ranks)
              /\ answer = "empty" => seen = ranks
              /\ ranking[client] \in {Absent, ranks}
        /\ ranking[client] = Absent => UploadRanks(rows[client]) = SelectRanks(rows[client])

PagesInv == Typed /\ Current /\ Fresh /\ Reads

\* A page continues what has been seen of a ranking that has not moved.
LEMMA PageContinues ==
  ASSUME Typed, NEW c \in Competitions, Page(c, Len(seen)),
         NEW ranks \in {UploadRanks(rows[c]), SelectRanks(rows[c])},
         ranking[c] \in {Absent, ranks},
         ranking[c] = Absent => ranks = SelectRanks(rows[c]),
         IsPrefix(seen, ranks)
  PROVE  /\ answer' # "panic"
         /\ IsPrefix(seen', ranks)
         /\ answer' = "empty" => seen' = ranks
         /\ ranking'[c] = ranks
<1> DEFINE n == Len(seen)
           u == UpTo(ranks, n)
<1>1. ranks \in Seq(Rank) /\ seen \in Seq(Rank)
  BY FilesAreRows, BothStand DEF Typed, TypeOK
<1>2. n \in 0 .. Len(ranks) /\ seen = SubSeq(ranks, 1, n)
  <2>1. n <= Len(ranks) /\ SubSeq(seen, 1, n) = SubSeq(ranks, 1, n)
    BY DEF IsPrefix
  <2>2. SubSeq(seen, 1, n) = seen
    BY <1>1
  <2> QED
    BY <1>1, <2>1, <2>2
<1>3. u \in n .. Len(ranks) /\ (n < Len(ranks) => u > n)
  BY <1>1, <1>2, CutType
<1>4. Show(Cut(ranks, n)) /\ ranking'[c] = ranks
  <2>1. CASE PageHit(c, n)
    <3>1. ranking[c] = ranks
      BY <2>1 DEF PageHit
    <3> QED
      BY <1>1, <1>2, <2>1, <3>1 DEF PageHit
  <2>2. CASE PageMiss(c, n)
    <3>1. ranking'[c] = ranks
      BY <2>2 DEF PageMiss, Typed
    <3>2. Min({n, Len(ranks)}) = n
      BY <1>1, <1>2, MinOfTwo
    <3> QED
      BY <2>2, <3>1, <3>2 DEF PageMiss
  <2> QED
    BY <2>1, <2>2 DEF Page
<1> HIDE DEF u
<1>5. seen' = SubSeq(ranks, 1, u) /\ seen' \in Seq(Rank) /\ Len(seen') = u
  <2>1. seen' = SubSeq(ranks, 1, n) \o SubSeq(ranks, n + 1, u)
    BY <1>2, <1>4 DEF Show, Cut, u
  <2> HIDE DEF n
  <2>2. n \in 1 - 1 .. Len(ranks) /\ u \in n .. Len(ranks)
    BY <1>2, <1>3
  <2>3. SubSeq(ranks, 1, n) \o SubSeq(ranks, n + 1, u) = SubSeq(ranks, 1, u)
    BY <1>1, <2>2, ConcatAdjacentSubSeq
  <2>4. SubSeq(ranks, 1, u) \in Seq(Rank) /\ Len(SubSeq(ranks, 1, u)) = u
    BY <1>1, <2>2
  <2> QED
    BY <2>1, <2>3, <2>4
<1>6. IsPrefix(seen', ranks)
  <2>1. SubSeq(seen', 1, u) = SubSeq(ranks, 1, u)
    BY <1>5
  <2> QED
    BY <1>1, <1>3, <1>5, <2>1 DEF IsPrefix
<1>7. answer' = "empty" => seen' = ranks
  <2>1. SUFFICES ASSUME answer' = "empty" PROVE seen' = ranks
    BY <2>1
  <2>2. SubSeq(ranks, n + 1, u) = <<>>
    BY <1>4, <2>1 DEF Show, Cut, u
  <2>3. u <= n
    <3>1. n \in Nat /\ u \in Nat
      BY <1>1, <1>2, <1>3
    <3>2. n < u => Len(SubSeq(ranks, n + 1, u)) = u - n
      BY <1>1, <1>3, <3>1
    <3>3. n < u => u - n = 0
      BY <2>2, <3>2
    <3> HIDE DEF n
    <3> QED
      BY <3>1, <3>3
  <2>4. u = Len(ranks)
    BY <1>1, <1>2, <1>3, <2>3
  <2> QED
    BY <1>1, <1>5, <2>4
<1>8. answer' # "panic"
  BY <1>4 DEF Show
<1> QED
  BY <1>4, <1>6, <1>7, <1>8

LEMMA PagesInit ==
  Init => PagesInv
<1>1. Absent \notin Competitions
  BY ConstantsAssumption
<1> QED
  BY <1>1, TypedInit, CurrentInit DEF Init, PagesInv, Fresh, Reads

LEMMA PagesNext ==
  PagesInv /\ [Next]_vars => PagesInv'
<1> SUFFICES ASSUME PagesInv, [Next]_vars PROVE Fresh' /\ Reads'
  BY TypedNext, CurrentNext DEF PagesInv
<1> USE DEF PagesInv
<1>1. ASSUME NEW c \in Competitions, NEW file \in Files, Upload(c, file)
      PROVE  Fresh' /\ Reads'
  <2>1. /\ UNCHANGED <<client, seen, answer>>
        /\ moved' = (moved \/ client = c)
        /\ rows' = [rows EXCEPT ![c] = file]
        /\ ranking' = [ranking EXCEPT ![c] = UploadRanks(file)]
    BY <1>1 DEF Upload
  <2>2. client # c => rows'[client] = rows[client] /\ ranking'[client] = ranking[client]
    BY <2>1 DEF Typed, TypeOK
  <2>3. ASSUME client' # Absent, ~ moved' PROVE ~ moved /\ client # c
    BY <2>1, <2>3
  <2>4. Fresh'
    BY <2>1 DEF Fresh
  <2>5. Reads'
    BY <2>1, <2>2, <2>3 DEF Reads
  <2> QED
    BY <2>4, <2>5
<1>2. ASSUME NEW c \in Competitions, FirstPage(c) PROVE Fresh' /\ Reads'
  <2> DEFINE ranks == IF ranking[c] = Absent THEN SelectRanks(rows[c]) ELSE ranking[c]
  <2>1. /\ seen = <<>> /\ answer = "ranks"
        /\ client' = c /\ UNCHANGED rows
        /\ Page(c, Len(seen))
    BY <1>2 DEF FirstPage, Fresh
  <2>2. /\ ranks \in {UploadRanks(rows[c]), SelectRanks(rows[c])}
        /\ ranking[c] \in {Absent, ranks}
        /\ ranking[c] = Absent => ranks = SelectRanks(rows[c])
    BY DEF Current
  <2> HIDE DEF ranks
  <2>3. IsPrefix(seen, ranks) /\ ranks # Absent
    <3>1. ranks \in Seq(Rank)
      BY <2>2, FilesAreRows, BothStand DEF Typed
    <3> QED
      BY <2>1, <3>1, ConstantsAssumption DEF IsPrefix
  <2>4. /\ answer' # "panic"
        /\ IsPrefix(seen', ranks)
        /\ answer' = "empty" => seen' = ranks
        /\ ranking'[c] = ranks
    BY <2>1, <2>2, <2>3, PageContinues
  <2>5. client' # Absent
    BY <2>1, ConstantsAssumption
  <2>6. Reads'
    BY <2>1, <2>2, <2>3, <2>4 DEF Reads
  <2> QED
    BY <2>5, <2>6 DEF Fresh
<1>3. CASE NextPage
  <2>1. /\ client \in Competitions /\ client # Absent /\ answer = "ranks"
        /\ Page(client, Len(seen))
        /\ UNCHANGED <<rows, client, moved>>
    BY <1>3 DEF NextPage, Typed, TypeOK
  <2>2. ASSUME ~ moved PROVE Reads'
    <3>1. PICK ranks \in {UploadRanks(rows[client]), SelectRanks(rows[client])} :
              IsPrefix(seen, ranks) /\ ranking[client] \in {Absent, ranks}
      BY <2>1, <2>2 DEF Reads
    <3>2. ranking[client] = Absent => ranks = SelectRanks(rows[client])
      BY <2>1, <2>2 DEF Reads
    <3>3. ranks # Absent
      <4>1. ranks \in Seq(Rank)
        BY <2>1, FilesAreRows, BothStand DEF Typed
      <4> QED
        BY <4>1, ConstantsAssumption
    <3>4. /\ answer' # "panic"
          /\ IsPrefix(seen', ranks)
          /\ answer' = "empty" => seen' = ranks
          /\ ranking'[client] = ranks
      BY <2>1, <3>1, <3>2, PageContinues
    <3> QED
      BY <2>1, <3>3, <3>4 DEF Reads
  <2>3. moved => Reads'
    BY <2>1 DEF Reads
  <2> QED
    BY <2>1, <2>2, <2>3 DEF Fresh
<1>4. CASE Leave
  BY <1>4 DEF Leave, Fresh, Reads
<1>5. CASE Restart
  <2>1. /\ ranking' = [c \in Competitions |-> Absent]
        /\ moved' = (moved \/ (client # Absent /\ Guests \cap Named(rows[client]) # {}))
        /\ UNCHANGED <<rows, client, seen, answer>>
    BY <1>5 DEF Restart
  <2>2. ASSUME client # Absent, ~ moved'
        PROVE  UploadRanks(rows[client]) = SelectRanks(rows[client])
    <3>1. client \in Competitions /\ Guests \cap Named(rows[client]) = {}
      BY <2>1, <2>2 DEF Typed, TypeOK
    <3> QED
      BY <3>1, FilesAreRows, BothRank DEF Typed
  <2>3. client # Absent => ranking'[client] = Absent
    BY <2>1 DEF Typed, TypeOK
  <2>4. ~ moved' => ~ moved
    BY <2>1
  <2> QED
    BY <2>1, <2>2, <2>3, <2>4 DEF Fresh, Reads
<1>6. CASE UNCHANGED <<rows, ranking, client, seen, answer, moved>>
  BY <1>6 DEF Fresh, Reads
<1> QED
  BY <1>1, <1>2, <1>3, <1>4, <1>5, <1>6 DEF Next, ListMiss, ListElsewhere, vars, reader

\* Whoever pages by the last rank seen, while no file comes, sees every rank
\* once and in order, for any page size and, of a file without guests, across
\* restarts: a hit does not bound rank_after and a miss does, and for such a reader
\* both cut alike.
THEOREM PagesAddUp ==
  Spec => []PagesFollow
<1>1. PagesInv => PagesFollow
  BY DEF PagesInv, Reads, PagesFollow
<1> QED
  BY <1>1, PagesInit, PagesNext, PTL DEF Spec

-----------------------------------------------------------------------------
\* The lists.

\* What holds of an unspoilt list: each competition once, in order, with every score
\* of the player; and, before the first restart, without others.
InOrder(list) ==
    \A i, j \in DOMAIN list : i < j =>
        /\ list[i].comp # list[j].comp
        /\ CreatedAt[list[i].comp] <= CreatedAt[list[j].comp]

Right(p) ==
    /\ InOrder(lists[p])
    /\ Complete(p)
    /\ restarts = 0 => \A e \in ToSet(lists[p]) : e.comp \in Scored(p)

ListsInv ==
    /\ Typed
    /\ Current
    /\ \A p \in Players \ spoilt : lists[p] # Absent => Right(p)

LEMMA EntriesHave ==
  ASSUME NEW list \in Seq(Entry)
  PROVE  /\ DOMAIN list = 1 .. Len(list) /\ Len(list) \in Nat
         /\ \A i \in 1 .. Len(list) : list[i] \in Entry /\ list[i].comp \in Competitions
         /\ \A c \in Competitions : CreatedAt[c] \in Nat
<1>1. \A i \in 1 .. Len(list) : list[i] \in Entry
  OBVIOUS
<1> QED
  BY <1>1, ConstantsAssumption DEF Entry

\* A list in order has a competition at most once.
LEMMA SameIsOne ==
  ASSUME NEW list \in Seq(Entry), InOrder(list), NEW c \in Competitions, Same(list, c) # {}
  PROVE  /\ Min(Same(list, c)) \in 1 .. Len(list)
         /\ list[Min(Same(list, c))].comp = c
         /\ \A j \in 1 .. Len(list) : j # Min(Same(list, c)) => list[j].comp # c
<1>1. DOMAIN list = 1 .. Len(list) /\ Len(list) \in Nat
  OBVIOUS
<1>2. Min(Same(list, c)) \in Same(list, c)
  BY <1>1, MinIsLeast DEF Same
<1> DEFINE k == Min(Same(list, c))
<1>3. k \in 1 .. Len(list) /\ list[k].comp = c
  BY <1>1, <1>2 DEF Same
<1> HIDE DEF k
<1>4. \A j \in 1 .. Len(list) : j # k => list[j].comp # c
  <2> TAKE j \in 1 .. Len(list)
  <2>1. j < k => list[j].comp # c
    BY <1>1, <1>3 DEF InOrder
  <2>2. k < j => list[j].comp # c
    BY <1>1, <1>3 DEF InOrder
  <2> QED
    BY <1>1, <1>3, <2>1, <2>2
<1> QED
  BY <1>3, <1>4 DEF k

\* Put, of what need not be inserted: the old entries of other competitions, and the
\* new one.
LEMMA PutInOrder ==
  ASSUME NEW list \in Seq(Entry), NEW e \in Entry, InOrder(list),
         Same(list, e.comp) # {} \/ NotBefore(list, e.comp) = {}
  PROVE  /\ InOrder(Put(list, e))
         /\ ToSet(Put(list, e)) = {f \in ToSet(list) : f.comp # e.comp} \cup {e}
<1> DEFINE c == e.comp
           n == Len(list)
<1>1. /\ DOMAIN list = 1 .. n /\ n \in Nat /\ c \in Competitions
      /\ \A i \in 1 .. n : list[i].comp \in Competitions
      /\ \A d \in Competitions : CreatedAt[d] \in Nat
  BY EntriesHave DEF Entry
<1>2. CASE Same(list, c) # {}
  <2> DEFINE k == Min(Same(list, c))
             put == [list EXCEPT ![k] = e]
  <2>1. k \in 1 .. n /\ list[k].comp = c /\ \A j \in 1 .. n : j # k => list[j].comp # c
    BY <1>1, <1>2, SameIsOne
  <2>2. Put(list, e) = put
    BY <1>2 DEF Put
  <2> HIDE DEF k
  <2>3. DOMAIN put = 1 .. n /\ \A j \in 1 .. n : put[j] = IF j = k THEN e ELSE list[j]
    BY <1>1
  <2>4. \A j \in 1 .. n : put[j].comp = list[j].comp
    BY <2>1, <2>3
  <2> HIDE DEF put, n
  <2>5. InOrder(put)
    BY <1>1, <2>3, <2>4 DEF InOrder
  <2>6. ToSet(put) = {f \in ToSet(list) : f.comp # c} \cup {e}
    BY <1>1, <2>1, <2>3 DEF ToSet
  <2> QED
    BY <2>2, <2>5, <2>6
<1>3. CASE Same(list, c) = {} /\ NotBefore(list, c) = {}
  <2> DEFINE put == Append(list, e)
  <2>1. \A i \in 1 .. n : list[i].comp # c /\ CreatedAt[list[i].comp] < CreatedAt[c]
    BY <1>1, <1>3 DEF Same, NotBefore
  <2>2. Put(list, e) = put
    BY <1>3 DEF Put
  <2>3. DOMAIN put = 1 .. n + 1
        /\ put[n + 1] = e /\ \A j \in 1 .. n : put[j] = list[j]
    BY <1>1
  <2> HIDE DEF put, n
  <2>4. InOrder(put)
    <3> SUFFICES ASSUME NEW i \in 1 .. n + 1, NEW j \in 1 .. n + 1, i < j
                 PROVE  /\ put[i].comp # put[j].comp
                        /\ CreatedAt[put[i].comp] <= CreatedAt[put[j].comp]
      BY <2>3 DEF InOrder
    <3>1. i \in 1 .. n /\ put[i] = list[i]
      BY <1>1, <2>3
    <3>2. CASE j = n + 1
      BY <1>1, <2>1, <2>3, <3>1, <3>2
    <3>3. CASE j # n + 1
      <4>1. j \in 1 .. n /\ put[j] = list[j]
        BY <1>1, <2>3, <3>3
      <4> QED
        BY <1>1, <3>1, <4>1 DEF InOrder
    <3> QED
      BY <3>2, <3>3
  <2>5. ToSet(put) = {f \in ToSet(list) : f.comp # c} \cup {e}
    <3>1. \A j \in 1 .. n + 1 : j = n + 1 \/ j \in 1 .. n
      BY <1>1
    <3>2. n + 1 \in 1 .. n + 1 /\ \A j \in 1 .. n : j \in 1 .. n + 1
      BY <1>1
    <3> QED
      BY <1>1, <2>1, <2>3, <3>1, <3>2 DEF ToSet
  <2> QED
    BY <2>2, <2>4, <2>5
<1> QED
  BY <1>2, <1>3

\* Take: the old entries of other competitions.
LEMMA TakeInOrder ==
  ASSUME NEW list \in Seq(Entry), NEW c \in Competitions, InOrder(list)
  PROVE  /\ InOrder(Take(list, c))
         /\ ToSet(Take(list, c)) = {f \in ToSet(list) : f.comp # c}
<1> DEFINE n == Len(list)
<1>1. DOMAIN list = 1 .. n /\ n \in Nat
  BY EntriesHave
<1>2. CASE Same(list, c) # {}
  <2> DEFINE k == Min(Same(list, c))
             rest == SubSeq(list, 1, k - 1) \o SubSeq(list, k + 1, n)
  <2>1. k \in 1 .. n /\ list[k].comp = c /\ \A j \in 1 .. n : j # k => list[j].comp # c
    BY <1>2, SameIsOne
  <2>2. Take(list, c) = rest
    BY <1>2 DEF Take, RemoveAt
  <2> HIDE DEF k
  <2>3. DOMAIN rest = 1 .. n - 1
        /\ \A j \in 1 .. n - 1 : rest[j] = IF j < k THEN list[j] ELSE list[j + 1]
    <3> DEFINE front == SubSeq(list, 1, k - 1)
               back == SubSeq(list, k + 1, n)
    <3>1. \A i \in 1 .. n : list[i] \in Entry
      BY EntriesHave
    <3> HIDE DEF n
    <3>2. /\ front \in Seq(Entry) /\ Len(front) = k - 1
          /\ \A j \in 1 .. k - 1 : front[j] = list[j]
      <4>1. k - 1 \in Nat /\ \A i \in 1 .. k - 1 : list[i] \in Entry
        BY <1>1, <2>1, <3>1
      <4> QED
        BY <4>1
    <3>3. /\ back \in Seq(Entry) /\ Len(back) = n - k
          /\ \A j \in 1 .. n - k : back[j] = list[k + j]
      <4>1. \A i \in k + 1 .. n : list[i] \in Entry
        BY <1>1, <2>1, <3>1
      <4> QED
        BY <1>1, <2>1, <4>1
    <3>5. rest = front \o back
      OBVIOUS
    <3> HIDE DEF front, back, rest
    <3>4. k \in Int /\ n \in Int /\ 1 <= k /\ k <= n
      BY <1>1, <2>1
    <3>6. rest \in Seq(Entry) /\ Len(rest) = n - 1
      BY <3>2, <3>3, <3>4, <3>5
    <3>7. ASSUME NEW j \in 1 .. n - 1, j < k PROVE rest[j] = list[j]
      <4>1. j \in 1 .. k - 1
        BY <3>4, <3>7
      <4> QED
        BY <3>2, <3>3, <3>4, <3>5, <4>1
    <3>8. ASSUME NEW j \in 1 .. n - 1, ~ (j < k) PROVE rest[j] = list[j + 1]
      <4>1. j - (k - 1) \in 1 .. n - k /\ k + (j - (k - 1)) = j + 1
        BY <3>4, <3>8
      <4>2. rest[j] = back[j - (k - 1)]
        BY <3>2, <3>3, <3>4, <3>5, <3>8
      <4> QED
        BY <3>3, <4>1, <4>2
    <3> QED
      BY <3>4, <3>6, <3>7, <3>8
  <2> HIDE DEF rest, n
  <2>4. InOrder(rest)
    <3> SUFFICES ASSUME NEW i \in 1 .. n - 1, NEW j \in 1 .. n - 1, i < j
                 PROVE  /\ rest[i].comp # rest[j].comp
                        /\ CreatedAt[rest[i].comp] <= CreatedAt[rest[j].comp]
      BY <2>3 DEF InOrder
    <3> DEFINE a == IF i < k THEN i ELSE i + 1
               b == IF j < k THEN j ELSE j + 1
    <3>1. rest[i] = list[a] /\ rest[j] = list[b]
      BY <2>3
    <3>2. a \in 1 .. n /\ b \in 1 .. n /\ a < b
      BY <1>1, <2>1
    <3> HIDE DEF a, b
    <3> QED
      BY <1>1, <3>1, <3>2 DEF InOrder
  <2>5. \A j \in 1 .. n - 1 : \E i \in 1 .. n : i # k /\ rest[j] = list[i]
    <3> TAKE j \in 1 .. n - 1
    <3>1. CASE j < k
      <4>1. j \in 1 .. n /\ j # k /\ rest[j] = list[j]
        BY <1>1, <2>1, <2>3, <3>1
      <4> QED
        BY <4>1
    <3>2. CASE j >= k
      <4>1. j + 1 \in 1 .. n /\ j + 1 # k /\ rest[j] = list[j + 1]
        BY <1>1, <2>1, <2>3, <3>2
      <4> QED
        BY <4>1
    <3> QED
      BY <1>1, <2>1, <3>1, <3>2
  <2>6. \A i \in 1 .. n : i # k => \E j \in 1 .. n - 1 : rest[j] = list[i]
    <3> TAKE i \in 1 .. n
    <3>1. CASE i < k
      <4>1. i \in 1 .. n - 1 /\ rest[i] = list[i]
        BY <1>1, <2>1, <2>3, <3>1
      <4> QED
        BY <4>1
    <3>2. CASE i > k
      <4>1. i - 1 \in 1 .. n - 1 /\ rest[i - 1] = list[i]
        BY <1>1, <2>1, <2>3, <3>2
      <4> QED
        BY <4>1
    <3> QED
      BY <1>1, <2>1, <3>1, <3>2
  <2>7. ToSet(rest) = {f \in ToSet(list) : f.comp # c}
    <3>1. \A f \in ToSet(rest) : f \in ToSet(list) /\ f.comp # c
      <4> TAKE f \in ToSet(rest)
      <4>1. PICK j \in 1 .. n - 1 : f = rest[j]
        BY <2>3 DEF ToSet
      <4>2. PICK i \in 1 .. n : i # k /\ f = list[i]
        BY <2>5, <4>1
      <4> QED
        BY <1>1, <2>1, <4>2 DEF ToSet
    <3>2. \A f \in ToSet(list) : f.comp # c => f \in ToSet(rest)
      <4> SUFFICES ASSUME NEW f \in ToSet(list), f.comp # c PROVE f \in ToSet(rest)
        OBVIOUS
      <4>1. PICK i \in 1 .. n : f = list[i]
        BY <1>1 DEF ToSet
      <4>2. PICK j \in 1 .. n - 1 : rest[j] = f
        BY <2>1, <2>6, <4>1
      <4> QED
        BY <2>3, <4>2 DEF ToSet
    <3> QED
      BY <3>1, <3>2
  <2> QED
    BY <2>2, <2>4, <2>7
<1>3. CASE Same(list, c) = {}
  BY <1>3 DEF Take, Same, ToSet
<1> QED
  BY <1>2, <1>3

\* A score upload: every list that stays unspoilt stays right.
LEMMA UploadLists ==
  ASSUME ListsInv, NEW c \in Competitions, NEW file \in Files, Upload(c, file)
  PROVE  ListsInv'
<1> DEFINE set == ScoredPlayerSet(file)
           missing == IF ranking[c] = Absent THEN {}
                      ELSE {r.player : r \in ToSet(ranking[c])} \ DOMAIN set
           updated(p) == IF p \in DOMAIN set
                         THEN Put(lists[p], [comp |-> c, score |-> set[p].score])
                         ELSE IF p \in missing THEN Take(lists[p], c) ELSE lists[p]
           squeezed == {p \in DOMAIN set : lists[p] # Absent /\ Same(lists[p], c) = {}
                                                            /\ NotBefore(lists[p], c) # {}}
<1>1. Typed /\ Typed' /\ Current'
  BY UploadType, CurrentNext DEF ListsInv, Next
<1>2. /\ rows' = [rows EXCEPT ![c] = file]
      /\ ranking' = [ranking EXCEPT ![c] = UploadRanks(file)]
      /\ lists' = [p \in Players |-> IF lists[p] = Absent THEN Absent ELSE updated(p)]
      /\ spoilt' = spoilt \cup squeezed
      /\ UNCHANGED restarts
  BY DEF Upload
<1>3. file \in Seq(FileRow) /\ file # <<>>
  BY ConstantsAssumption
<1>4. rows'[c] = file /\ \A d \in Competitions : d # c => rows'[d] = rows[d]
  BY <1>1, <1>2 DEF Typed, TypeOK
<1>5. ASSUME NEW p \in Players, p \notin spoilt', lists'[p] # Absent PROVE Right(p)'
  <2> DEFINE list == lists[p]
             e == [comp |-> c, score |-> set[p].score]
  <2>1. list # Absent /\ lists'[p] = updated(p)
    BY <1>2, <1>5
  <2>2. list \in Seq(Entry) /\ Right(p) /\ p \notin squeezed
    BY <1>1, <1>2, <1>5, <2>1 DEF Typed, ListsInv
  <2>3. p \in DOMAIN set => Same(list, c) # {} \/ NotBefore(list, c) = {}
    BY <2>1, <2>2
  <2>4. DOMAIN set = Named(file)
    BY <1>3, UploadTakesLast
  <2>5. c \in Scored(p)' <=> p \in DOMAIN set
    BY <1>4, <2>4 DEF Scored
  <2>6. \A d : d # c => (d \in Scored(p)' <=> d \in Scored(p))
    BY <1>4 DEF Scored
  <2>7. \A d \in Competitions : d # c => ScoreOf(p, d)' = ScoreOf(p, d)
    BY <1>4 DEF ScoreOf, LastRow
  <2>8. \A d \in Scored(p) : d # c =>
            [comp |-> d, score |-> ScoreOf(p, d)'] \in {f \in ToSet(list) : f.comp # c}
    BY <2>2, <2>7 DEF Right, Complete, Scored
  <2>9. CASE p \in DOMAIN set
    <3>1. e \in Entry /\ set[p].score = ScoreOf(p, c)'
      <4>1. set[p].score = file[LastRow(file, p)].score
        BY <1>3, <2>4, <2>9, UploadTakesLast
      <4>2. file[LastRow(file, p)] \in FileRow
        BY <1>3, <2>4, <2>9, LastRowIsLast
      <4> QED
        BY <1>4, <4>1, <4>2 DEF ScoreOf, LastRow, Entry, FileRow
    <3>2. lists'[p] = Put(list, e)
      BY <2>1, <2>9
    <3>3. /\ InOrder(lists'[p])
          /\ ToSet(lists'[p]) = {f \in ToSet(list) : f.comp # c} \cup {e}
      <4>1. e.comp = c
        OBVIOUS
      <4> HIDE DEF e, list, set
      <4> QED
        BY <2>2, <2>3, <2>9, <3>1, <3>2, <4>1, PutInOrder, ZenonT(30) DEF Right, list
    <3> HIDE DEF set
    <3>4. \A d \in Scored(p)' : [comp |-> d, score |-> ScoreOf(p, d)'] \in ToSet(lists'[p])
      BY <2>6, <2>8, <3>1, <3>3
    <3>5. restarts' = 0 => \A f \in ToSet(lists'[p]) : f.comp \in Scored(p)'
      BY <1>2, <2>2, <2>5, <2>6, <2>9, <3>3 DEF Right
    <3> QED
      BY <3>3, <3>4, <3>5 DEF Right, Complete, InOrder
  <2>10. CASE p \notin DOMAIN set /\ p \in missing
    <3>1. lists'[p] = Take(list, c)
      BY <2>1, <2>10
    <3>2. InOrder(lists'[p]) /\ ToSet(lists'[p]) = {f \in ToSet(list) : f.comp # c}
      BY <2>2, <3>1, TakeInOrder DEF Right
    <3>3. \A d \in Scored(p)' : [comp |-> d, score |-> ScoreOf(p, d)'] \in ToSet(lists'[p])
      BY <2>5, <2>6, <2>8, <2>10, <3>2
    <3>4. restarts' = 0 => \A f \in ToSet(lists'[p]) : f.comp \in Scored(p)'
      BY <1>2, <2>2, <2>6, <3>2 DEF Right
    <3> QED
      BY <3>2, <3>3, <3>4 DEF Right, Complete, InOrder
  <2>11. CASE p \notin DOMAIN set /\ p \notin missing
    <3>1. lists'[p] = list
      BY <2>1, <2>11
    <3>2. restarts = 0 => c \notin Scored(p)
      <4>1. SUFFICES ASSUME restarts = 0 PROVE c \notin Scored(p)
        BY <4>1
      <4>2. ranking[c] = UploadRanks(rows[c]) /\ rows[c] \in Seq(FileRow)
        BY <1>1, <4>1, FilesAreRows DEF ListsInv, Current, Typed
      <4>3. Named(ranking[c]) = Named(rows[c]) /\ ranking[c] # Absent
        BY <4>2, BothStand, ConstantsAssumption
      <4>4. p \notin Named(rows[c])
        BY <2>11, <4>3 DEF Named
      <4> QED
        BY <4>4 DEF Scored
    <3>3. \A d \in Scored(p)' : [comp |-> d, score |-> ScoreOf(p, d)'] \in ToSet(lists'[p])
      BY <2>5, <2>6, <2>8, <2>11, <3>1
    <3>4. restarts' = 0 => \A f \in ToSet(lists'[p]) : f.comp \in Scored(p)'
      BY <1>2, <2>2, <2>6, <3>1, <3>2 DEF Right
    <3> QED
      BY <2>2, <3>1, <3>3, <3>4 DEF Right, Complete, InOrder
  <2> QED
    BY <2>9, <2>10, <2>11
<1> QED
  BY <1>1, <1>5 DEF ListsInv

\* A list that nothing has been done to, of scores nothing has been done to.
LEMMA RightStays ==
  ASSUME NEW p \in Players, Right(p), UNCHANGED <<rows, restarts>>, lists'[p] = lists[p]
  PROVE  Right(p)'
  BY DEF Right, Complete, InOrder, Scored, ScoreOf, LastRow

\* A list that is not cached is selected.
LEMMA MissLists ==
  ASSUME ListsInv, NEW p \in Players, ListMiss(p)
  PROVE  \A q \in Players \ spoilt' : lists'[q] # Absent => Right(q)'
<1>1. PICK list \in SelectLists(p) : lists' = [lists EXCEPT ![p] = list]
  BY DEF ListMiss
<1>2. UNCHANGED <<rows, restarts, spoilt>> /\ Typed
  BY DEF ListMiss, ListsInv
<1>3. /\ list \in Seq(Entry)
      /\ ToSet(list) = {[comp |-> c, score |-> ScoreOf(p, c)] : c \in Scored(p)}
      /\ \A i, j \in DOMAIN list : i < j =>
            CreatedAt[list[i].comp] <= CreatedAt[list[j].comp]
      /\ \A i, j \in DOMAIN list : i # j => list[i].comp # list[j].comp
  BY <1>2, SelectListsAre DEF Typed
<1>4. InOrder(list)
  <2>1. DOMAIN list = 1 .. Len(list)
    BY <1>3
  <2> QED
    BY <1>3, <2>1 DEF InOrder
<1>5. Right(p)'
  <2>1. lists'[p] = list
    BY <1>1, <1>2 DEF Typed
  <2>2. /\ \A c \in Scored(p) : [comp |-> c, score |-> ScoreOf(p, c)] \in ToSet(list)
        /\ \A e \in ToSet(list) : e.comp \in Scored(p)
    BY <1>3
  <2> QED
    BY <1>2, <1>4, <2>1, <2>2 DEF Right, Complete, InOrder, Scored, ScoreOf, LastRow
<1>6. ASSUME NEW q \in Players \ spoilt, q # p, lists'[q] # Absent PROVE Right(q)'
  <2>1. lists'[q] = lists[q]
    BY <1>1, <1>2, <1>6 DEF Typed
  <2>2. Right(q)
    BY <1>6, <2>1 DEF ListsInv
  <2> QED
    BY <1>2, <2>1, <2>2, RightStays
<1> QED
  BY <1>2, <1>5, <1>6

LEMMA ListsInit ==
  Init => ListsInv
<1> SUFFICES ASSUME Init PROVE ListsInv
  OBVIOUS
<1>1. \A p \in Players : Scored(p) = {} /\ lists[p] = <<>>
  BY DEF Init, Scored, Named, ToSet
<1>2. \A p \in Players : Right(p)
  BY <1>1 DEF Right, Complete, InOrder, ToSet
<1> QED
  BY <1>2, TypedInit, CurrentInit DEF ListsInv

LEMMA ListsNext ==
  ListsInv /\ [Next]_vars => ListsInv'
<1> SUFFICES ASSUME ListsInv, [Next]_vars PROVE ListsInv'
  OBVIOUS
<1>1. Typed' /\ Current'
  BY TypedNext, CurrentNext DEF ListsInv
<1>2. ASSUME NEW c \in Competitions, NEW file \in Files, Upload(c, file) PROVE ListsInv'
  BY <1>2, UploadLists
<1>3. CASE UNCHANGED <<rows, lists, spoilt, restarts>>
  <2>1. \A p \in Players \ spoilt : lists[p] # Absent => Right(p)'
    BY <1>3, RightStays DEF ListsInv
  <2> QED
    BY <1>1, <1>3, <2>1 DEF ListsInv
<1>4. ASSUME NEW p \in Players, ListMiss(p) PROVE ListsInv'
  BY <1>1, <1>4, MissLists DEF ListsInv
<1>5. ASSUME NEW p \in Players, ListElsewhere(p) PROVE ListsInv'
  <2>1. ASSUME NEW q \in Players \ spoilt', lists'[q] # Absent PROVE Right(q)'
    <3>1. /\ q # p /\ q \notin spoilt /\ lists'[q] = lists[q]
          /\ UNCHANGED <<rows, restarts>>
      BY <1>5, <2>1 DEF ListElsewhere, ListsInv, Typed
    <3> QED
      BY <2>1, <3>1, RightStays DEF ListsInv
  <2> QED
    BY <1>1, <2>1 DEF ListsInv
<1>6. CASE Restart
  BY <1>1, <1>6 DEF Restart, ListsInv
<1> QED
  BY <1>2, <1>3, <1>4, <1>5, <1>6 DEF Next, FirstPage, NextPage, Leave, vars

LEMMA ListsImply ==
  ListsInv => ListsStand
<1> SUFFICES ASSUME ListsInv PROVE ListsStand
  OBVIOUS
<1>1. ASSUME NEW p \in Players \ spoilt, lists[p] # Absent, restarts = 0
      PROVE  {e.comp : e \in ToSet(lists[p])} = Scored(p)
  <2>1. Right(p)
    BY <1>1 DEF ListsInv
  <2>2. \A c \in Scored(p) : \E e \in ToSet(lists[p]) : e.comp = c
    BY <2>1 DEF Right, Complete
  <2> QED
    BY <1>1, <2>1, <2>2 DEF Right
<1> QED
  BY <1>1 DEF ListsInv, Right, InOrder, ListsStand

\* For any competitions, held in any order, any files, replaced any number of times,
\* and lists that come and go from the cache: until an entry is inserted before
\* others in it, or another tenant selects it, a player's cached list has the score
\* of every competition the player is scored in, each once, in the order of
\* creation, and before a restart no other.
THEOREM ListsAreRight ==
  Spec => []ListsStand
<1> QED
  BY ListsInit, ListsNext, ListsImply, PTL DEF Spec
=============================================================================
