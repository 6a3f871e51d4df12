----------------------------- MODULE Scoreboard -----------------------------
(***************************************************************************)
(* What score files become in go/isuports.go: a ranking per competition,    *)
(* with ties and repeated players, cut into pages, and a list of scores per *)
(* player, over competitions.  Each is computed twice: by a score upload    *)
(* for the caches, and by SQL from player_score when a cache has no entry.  *)
(*                                                                          *)
(* Requests come one at a time here and each is one step; how they          *)
(* interleave is the subject of ScoreCaches, which leaves out the data.     *)
(*                                                                          *)
(* The requests are one tenant's.  The caches are not: an upload finds a    *)
(* player of another tenant in playerCache, and another tenant finds this   *)
(* one's players there (ListElsewhere).  What its files then put into their *)
(* lists, entries of its own competitions, is left out.                     *)
(***************************************************************************)
EXTENDS Integers, FiniteSets, SequencesExt

CONSTANTS Players,
          Guests,       \* of those: players of other tenants
          Competitions,
          CreatedAt,    \* competition.created_at, in seconds
          Files,        \* score files: sequences of rows
          Absent,       \* no such key in a cache; no client
          PageSize,     \* 100 in the code
          MaxRestarts   \* bound: restarts of the process

FileRow == [player : Players, score : Int]
Rank == [player : Players, score : Int]
Entry == [comp : Competitions, score : Int]

ASSUME ConstantsAssumption ==
    /\ Guests \subseteq Players
    /\ IsFiniteSet(Competitions)
    /\ CreatedAt \in [Competitions -> Nat]
    /\ Files \subseteq Seq(FileRow) \ {<<>>}
    /\ PageSize \in Nat \ {0}
    /\ Absent \notin Competitions \cup Seq(Rank)
    /\ MaxRestarts \in Nat

VARIABLES
    rows,       \* player_score: the file of each competition, or <<>>
    ranking,    \* rankingCache: a sequence of [player, score], or Absent
    lists,      \* playerScoreCache: a sequence of [comp, score], or Absent
    client,     \* a competition whose ranking somebody pages through
    seen,       \* the ranks of the pages so far
    answer,     \* the last page: "ranks", "empty", or "panic"
    restarts

\* History variables.
VARIABLES
    moved,      \* since the first page a file has come, or, when the file names
                \* guests, a restart
    spoilt      \* players whose list has had an entry inserted before others, or
                \* has been selected by another tenant

reader == <<client, seen, answer, moved>>
vars == <<rows, ranking, lists, spoilt, reader, restarts>>

TypeOK ==
    /\ rows \in [Competitions -> Files \cup {<<>>}]
    /\ \A c \in Competitions : ranking[c] = Absent \/ ranking[c] \in Seq(Rank)
    /\ \A p \in Players : lists[p] = Absent \/ lists[p] \in Seq(Entry)
    /\ client \in Competitions \cup {Absent}
    /\ seen \in Seq(Rank)
    /\ answer \in {"ranks", "empty", "panic"}
    /\ moved \in BOOLEAN
    /\ spoilt \subseteq Players
    /\ restarts \in 0 .. MaxRestarts

\* The competitions and the players have been added by this process.
Init ==
    /\ rows = [c \in Competitions |-> <<>>]
    /\ ranking = [c \in Competitions |-> <<>>]
    /\ lists = [p \in Players |-> <<>>]
    /\ client = Absent
    /\ seen = <<>>
    /\ answer = "ranks"
    /\ moved = FALSE
    /\ spoilt = {}
    /\ restarts = 0

-----------------------------------------------------------------------------
\* The ranking.

Named(file) == {r.player : r \in ToSet(file)}

Ahead(a, b) == a.score > b.score \/ (a.score = b.score /\ a.row < b.row)

Sorted(s) == \A i, j \in DOMAIN s : i < j => Ahead(s[i], s[j])

\* sort.Slice by Ahead, and ORDER BY score DESC, row_num.
Ranked(scores) ==
    LET sorted == CHOOSE s \in SetToSeqs(scores) : Sorted(s)
    IN  [i \in 1 .. Len(sorted) |->
            [player |-> sorted[i].player, score |-> sorted[i].score]]

\* Mutant: the first row of a player stays.
FirstRows(file) ==
    FoldLeftDomain(
        LAMBDA set, i :
            [p \in DOMAIN set \cup {file[i].player} |->
                IF p \in DOMAIN set THEN set[p] ELSE [score |-> file[i].score, row |-> i]],
        <<>>, file)

\* The loop over the rows of an upload: a later row of a player replaces the
\* earlier one.
ScoredPlayerSet(file) ==
    FoldLeftDomain(
        LAMBDA set, i :
            [p \in DOMAIN set \cup {file[i].player} |->
                IF p = file[i].player THEN [score |-> file[i].score, row |-> i] ELSE set[p]],
        <<>>, file)

UploadRanks(file) ==
    LET set == ScoredPlayerSet(file)
    IN  Ranked({[player |-> p, score |-> set[p].score, row |-> set[p].row] :
                    p \in DOMAIN set})

\* The rows of player_score that the queries join: max(row_num) of a player.
LatestRows(file) ==
    LET table == {[player |-> file[i].player, score |-> file[i].score, row |-> i] :
                      i \in DOMAIN file}
    IN  {r \in table : \A s \in table : s.player = r.player => s.row <= r.row}

\* INNER JOIN player, in the tenant's own database: guests are not shown.
SelectRanks(file) == Ranked({r \in LatestRows(file) : r.player \notin Guests})

-----------------------------------------------------------------------------
\* A player's list.

\* append(append(list[:i], e), list[i:]...): the inner append writes e over
\* list[i], and only then does the outer one read list[i:].
InsertAtIndex(list, i, e) ==
    SubSeq(list, 1, i - 1) \o <<e>> \o SubSeq([list EXCEPT ![i] = e], i, Len(list))

\* Mutant: an entry of the same competition is not looked for.
PutLast(list, e) == Append(list, e)

Same(list, c) == {i \in DOMAIN list : list[i].comp = c}
NotBefore(list, c) == {i \in DOMAIN list : CreatedAt[list[i].comp] >= CreatedAt[c]}

Put(list, e) ==
    LET same  == Same(list, e.comp)
        later == NotBefore(list, e.comp)
    IN  IF same # {} THEN [list EXCEPT ![Min(same)] = e]
        ELSE IF later # {} THEN InsertAtIndex(list, Min(later), e)
        ELSE Append(list, e)

\* Mutant: the entry is blanked and the gap stays.
TakeBlank(list, c) ==
    [i \in DOMAIN list |-> IF list[i].comp = c THEN Absent ELSE list[i]]

Take(list, c) ==
    IF Same(list, c) = {} THEN list ELSE RemoveAt(list, Min(Same(list, c)))

\* ORDER BY created_at: competitions of the same second come in any order.
SelectLists(p) ==
    {list \in SetToSeqs(UNION {{[comp |-> c, score |-> r.score] :
                                   r \in {r \in LatestRows(rows[c]) : r.player = p}} :
                               c \in Competitions}) :
        \A i, j \in DOMAIN list :
            i < j => CreatedAt[list[i].comp] <= CreatedAt[list[j].comp]}

-----------------------------------------------------------------------------
\* competitionScoreHandler: the rows are stored, players of the cached ranking
\* who are not in the file lose their entry, the others' is put.  A file that
\* names a guest is refused, and changes nothing, while playerCache lacks the
\* guest.
Upload(c, file) ==
    LET set     == ScoredPlayerSet(file)
        missing == IF ranking[c] = Absent THEN {}
                   ELSE {r.player : r \in ToSet(ranking[c])} \ DOMAIN set
        updated(p) ==
            IF p \in DOMAIN set
            THEN Put(lists[p], [comp |-> c, score |-> set[p].score])
            ELSE IF p \in missing THEN Take(lists[p], c)
            ELSE lists[p]
    IN  /\ rows' = [rows EXCEPT ![c] = file]
        /\ ranking' = [ranking EXCEPT ![c] = UploadRanks(file)]
        /\ lists' = [p \in Players |->
                        IF lists[p] = Absent THEN Absent ELSE updated(p)]
        /\ moved' = (moved \/ client = c)
        /\ spoilt' = spoilt \cup
               {p \in DOMAIN set : lists[p] # Absent /\ Same(lists[p], c) = {}
                                                   /\ NotBefore(lists[p], c) # {}}
        /\ UNCHANGED <<client, seen, answer, restarts>>

\* playerHandler; a hit changes nothing.
ListMiss(p) ==
    /\ lists[p] = Absent
    /\ \E list \in SelectLists(p) : lists' = [lists EXCEPT ![p] = list]
    /\ UNCHANGED <<rows, ranking, spoilt, reader, restarts>>

\* playerHandler of another tenant, which finds the player in playerCache: what it
\* selects in its own database, nothing of this tenant, is everybody's list.
ListElsewhere(p) ==
    /\ lists[p] = Absent
    /\ lists' = [lists EXCEPT ![p] = <<>>]
    /\ spoilt' = spoilt \cup {p}
    /\ UNCHANGED <<rows, ranking, reader, restarts>>

-----------------------------------------------------------------------------
\* competitionRankingHandler.

UpTo(ranks, after) == Min({after + PageSize, Len(ranks)})

\* Mutant: the rank asked for is itself on the page.
CutFrom(ranks, after) == SubSeq(ranks, Max({after, 1}), UpTo(ranks, after))

\* pagedRanks[rankAfter:max].
Cut(ranks, after) == SubSeq(ranks, after + 1, UpTo(ranks, after))

Show(page) ==
    /\ seen' = seen \o page
    /\ answer' = IF page = <<>> THEN "empty" ELSE "ranks"

\* The entry is there: rank_after is taken as it is, and the slice expression
\* panics when it lies beyond the end.  Recover answers 500.
PageHit(c, after) ==
    /\ ranking[c] # Absent
    /\ \/ /\ after <= Len(ranking[c])
          /\ Show(Cut(ranking[c], after))
       \/ /\ after > Len(ranking[c])
          /\ answer' = "panic"
          /\ UNCHANGED seen
    /\ UNCHANGED ranking

\* It is not: the ranking is selected, set, and rank_after is bounded.
PageMiss(c, after) ==
    /\ ranking[c] = Absent
    /\ ranking' = [ranking EXCEPT ![c] = SelectRanks(rows[c])]
    /\ Show(Cut(ranking'[c], Min({after, Len(ranking'[c])})))

Page(c, after) == PageHit(c, after) \/ PageMiss(c, after)

FirstPage(c) ==
    /\ client = Absent
    /\ client' = c
    /\ moved' = FALSE
    /\ Page(c, 0)
    /\ UNCHANGED <<rows, lists, spoilt, restarts>>

\* rank_after is the last rank shown.
NextPage ==
    /\ client # Absent
    /\ answer = "ranks"
    /\ Page(client, Len(seen))
    /\ UNCHANGED <<rows, lists, spoilt, client, moved, restarts>>

Leave ==
    /\ client # Absent
    /\ client' = Absent
    /\ seen' = <<>>
    /\ answer' = "ranks"
    /\ moved' = FALSE
    /\ UNCHANGED <<rows, ranking, lists, spoilt, restarts>>

Restart ==
    /\ restarts < MaxRestarts
    /\ restarts' = restarts + 1
    /\ ranking' = [c \in Competitions |-> Absent]
    /\ lists' = [p \in Players |-> Absent]
    /\ moved' = (moved \/ (client # Absent /\ Guests \cap Named(rows[client]) # {}))
    /\ spoilt' = {}
    /\ UNCHANGED <<rows, client, seen, answer>>

Next ==
    \/ \E c \in Competitions, file \in Files : Upload(c, file)
    \/ \E p \in Players : ListMiss(p) \/ ListElsewhere(p)
    \/ \E c \in Competitions : FirstPage(c)
    \/ NextPage
    \/ Leave
    \/ Restart

Spec == Init /\ [][Next]_vars

-----------------------------------------------------------------------------
\* What a file means: "of each player the row that appears last"
\* (specification.md:163; :229 has "the largest of the scores", which the code does
\* not take), "the same score: the one that appears first is ranked higher".

LastRow(file, p) == Max({i \in DOMAIN file : file[i].player = p})

Scored(p) == {c \in Competitions : p \in Named(rows[c])}

ScoreOf(p, c) == rows[c][LastRow(rows[c], p)].score

\* A cached ranking names once every player of the file, or, once a restart has
\* had it selected, every one who is no guest; with the score of the last row, by
\* falling score and rising row, whichever way it was computed.
RankingsStand ==
    \A c \in Competitions :
        LET file  == rows[c]
            ranks == ranking[c]
            row(i) == LastRow(file, ranks[i].player)
        IN  ranks # Absent =>
            /\ \/ Named(ranks) = Named(file)
               \/ restarts > 0 /\ Named(ranks) = Named(file) \ Guests
            /\ \A i \in DOMAIN ranks : ranks[i].score = file[row(i)].score
            /\ \A i, j \in DOMAIN ranks : i < j =>
                   \/ ranks[i].score > ranks[j].score
                   \/ ranks[i].score = ranks[j].score /\ row(i) < row(j)

Complete(p) == \A c \in Scored(p) : [comp |-> c, score |-> ScoreOf(p, c)] \in ToSet(lists[p])

\* A cached list has the score of every competition the player is scored in:
\* "the scores of all competitions" (specification.md).
ScoresListed == \A p \in Players : lists[p] # Absent => Complete(p)

\* It has, and each competition once, in the order of their creation; and, as long
\* as no restart has emptied the ranking an upload compares with, no other: unless
\* an entry has been inserted before others since the list was selected, which
\* overwrites one, or another tenant has selected it.
ListsStand ==
    \A p \in Players \ spoilt : lists[p] # Absent =>
        /\ Complete(p)
        /\ \A i, j \in DOMAIN lists[p] : i < j =>
              /\ lists[p][i].comp # lists[p][j].comp
              /\ CreatedAt[lists[p][i].comp] <= CreatedAt[lists[p][j].comp]
        /\ restarts = 0 => {e.comp : e \in ToSet(lists[p])} = Scored(p)

\* Whoever pages through a ranking by the last rank seen, while no file comes,
\* sees the whole ranking and every rank once, also when a restart falls
\* between two pages, unless the file names guests: the rankings before and
\* after the restart differ then.
PagesFollow ==
    client # Absent /\ ~moved =>
        /\ answer # "panic"
        /\ \E ranks \in {UploadRanks(rows[client]), SelectRanks(rows[client])} :
              /\ IsPrefix(seen, ranks)
              /\ answer = "empty" => seen = ranks
=============================================================================
