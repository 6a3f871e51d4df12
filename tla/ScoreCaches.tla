---------------------------- MODULE ScoreCaches ----------------------------
(***************************************************************************)
(* The scores of one open competition, kept three times in go/isuports.go:  *)
(* the rows of player_score, rankingCache with the ranks of the competition *)
(* and playerScoreCache with each player's own list.  A score upload        *)
(* commits the rows and then brings the caches up to date in four further   *)
(* steps; a ranking or a player request that misses its cache fills it from *)
(* the rows.  Nothing is held over two steps: the lock that was to keep     *)
(* uploads and readers of player_score apart is commented out everywhere.   *)
(*                                                                          *)
(* The competition and the players have been added by this process, so both *)
(* caches start with empty entries.  A sheet is what ranks and lists show   *)
(* of a score file, one score per player (its last row); how pages are cut  *)
(* and how a list is laid out over competitions is not modelled here.       *)
(***************************************************************************)
EXTENDS Naturals, FiniteSets

CONSTANTS Players,
          Organizers,   \* concurrent score uploads
          Visitors,     \* concurrent ranking requests
          Sheets,       \* the score files there are: player |-> score
          Absent,       \* no such key in a cache
          MaxRestarts,  \* bound: restarts of the process
          MaxFaults     \* bound: failed commits

\* A player asks for the own list; each player has one such request.
Requests == Organizers \cup Visitors \cup Players

NoScores == << >>   \* the sheet of a competition without scores
AnySheet == Sheets \cup {NoScores}

\* What a player's list shows of this competition: one score or none.
Shown(sheet, p) == IF p \in DOMAIN sheet THEN {sheet[p]} ELSE {}

ASSUME ConstantsAssumption ==
    /\ Players \cap Organizers = {} /\ Players \cap Visitors = {}
    /\ Organizers \cap Visitors = {}
    /\ \A s \in Sheets : DOMAIN s # {} /\ DOMAIN s \subseteq Players
    /\ Absent \notin AnySheet
    /\ \A s \in AnySheet, p \in Players : Absent # Shown(s, p)
    /\ {MaxRestarts, MaxFaults} \subseteq Nat

VARIABLES
    rows,       \* player_score, as a sheet
    ranking,    \* rankingCache: Absent or a sheet
    lists,      \* playerScoreCache: Absent or what the list shows
    pc,         \* the step each request is at
    file,       \* the sheet it carries: read, or cached before (prs)
    prs         \* the cached ranking an upload found, or Absent

\* History variables.
VARIABLES
    last,       \* the file of the last upload that got past its commit
    crossed,    \* since the process started, an upload got past its commit
                \* while another request was about to set what it had before
    restarts, faults

history == <<last, crossed, restarts, faults>>
vars == <<rows, ranking, lists, pc, file, prs, history>>

TypeOK ==
    /\ rows \in AnySheet
    /\ ranking \in AnySheet \cup {Absent}
    /\ \A p \in Players :
           lists[p] = Absent \/ \E s \in AnySheet : lists[p] = Shown(s, p)
    /\ pc \in [Requests -> {"idle", "commit", "get", "remove", "set", "insert",
                            "select", "fill"}]
    /\ file \in [Requests -> AnySheet]
    /\ prs \in [Organizers -> AnySheet \cup {Absent}]
    /\ last \in AnySheet
    /\ crossed \in BOOLEAN
    /\ restarts \in 0 .. MaxRestarts
    /\ faults \in 0 .. MaxFaults

Init ==
    /\ rows = NoScores
    /\ ranking = NoScores
    /\ lists = [p \in Players |-> {}]
    /\ pc = [r \in Requests |-> "idle"]
    /\ file = [r \in Requests |-> NoScores]
    /\ prs = [o \in Organizers |-> Absent]
    /\ last = NoScores
    /\ crossed = FALSE
    /\ restarts = 0
    /\ faults = 0

-----------------------------------------------------------------------------
Goto(r, step) == pc' = [pc EXCEPT ![r] = step]

Return(r) ==
    /\ Goto(r, "idle")
    /\ file' = [file EXCEPT ![r] = NoScores]

\* An upload between its commit and its last cache step.
Updating(o) == pc[o] \in {"get", "remove", "set", "insert"}

\* What the commit of o may cross: a reader that has read the rows and has yet
\* to set them, another upload that is still updating the caches.
Crosses(o) ==
    \/ \E r \in Visitors \cup Players : pc[r] = "fill"
    \/ \E s \in Organizers \ {o} : Updating(s)

-----------------------------------------------------------------------------
\* competitionScoreHandler, with a file that has been read and checked.

Upload(o, sheet) ==
    /\ pc[o] = "idle"
    /\ file' = [file EXCEPT ![o] = sheet]
    /\ Goto(o, "commit")
    /\ UNCHANGED <<rows, ranking, lists, prs, history>>

\* A database error before the commit: 500, nothing is stored.
Abort(o) ==
    /\ pc[o] = "commit"
    /\ Return(o)
    /\ UNCHANGED <<rows, ranking, lists, prs, history>>

Commit(o) ==
    /\ pc[o] = "commit"
    /\ rows' = file[o]
    /\ last' = file[o]
    /\ crossed' = (crossed \/ Crosses(o))
    /\ Goto(o, "get")
    /\ UNCHANGED <<ranking, lists, file, prs, restarts, faults>>

\* The error of tx.Commit() is not looked at: the rows stay as they were, the
\* caches and the answer go on as if they had not.
CommitFails(o) ==
    /\ pc[o] = "commit"
    /\ faults < MaxFaults
    /\ faults' = faults + 1
    /\ last' = file[o]
    /\ crossed' = (crossed \/ Crosses(o))
    /\ Goto(o, "get")
    /\ UNCHANGED <<rows, ranking, lists, file, prs, restarts>>

\* prs, ok := rankingCache.Get: who was in the ranking so far, if it is cached.
GetRanking(o) ==
    /\ pc[o] = "get"
    /\ prs' = [prs EXCEPT ![o] = ranking]
    /\ Goto(o, IF ranking = Absent THEN "set" ELSE "remove")
    /\ UNCHANGED <<rows, ranking, lists, file, history>>

\* Mutant: nobody is taken out.
RemoveNobody(o) ==
    /\ pc[o] = "remove"
    /\ Goto(o, "set")
    /\ UNCHANGED <<rows, ranking, lists, file, prs, history>>

\* Whoever was in it and is not in the file loses the score; an absent list
\* stays absent.
RemoveMissing(o) ==
    /\ pc[o] = "remove"
    /\ lists' = [p \in Players |->
                    IF lists[p] # Absent /\ p \in DOMAIN prs[o] \ DOMAIN file[o]
                    THEN {} ELSE lists[p]]
    /\ Goto(o, "set")
    /\ UNCHANGED <<rows, ranking, file, prs, history>>

\* Mutants: an entry that is there is kept; the entry is set before the commit.
SetMissingRanking(o) ==
    /\ pc[o] = "set"
    /\ ranking' = IF ranking = Absent THEN file[o] ELSE ranking
    /\ Goto(o, "insert")
    /\ UNCHANGED <<rows, lists, file, prs, history>>

SetRankingEarly(o) ==
    \/ /\ pc[o] = "commit"
       /\ ranking' = file[o]
       /\ UNCHANGED <<rows, lists, pc, file, prs, history>>
    \/ /\ pc[o] = "set"
       /\ Goto(o, "insert")
       /\ UNCHANGED <<rows, ranking, lists, file, prs, history>>

SetRanking(o) ==
    /\ pc[o] = "set"
    /\ ranking' = file[o]
    /\ Goto(o, "insert")
    /\ UNCHANGED <<rows, lists, file, prs, history>>

\* Everybody in the file who has a list gets the score, in place of the old
\* one if there is one.
InsertScores(o) ==
    /\ pc[o] = "insert"
    /\ lists' = [p \in Players |->
                    IF lists[p] # Absent /\ p \in DOMAIN file[o]
                    THEN {file[o][p]} ELSE lists[p]]
    /\ Return(o)
    /\ prs' = [prs EXCEPT ![o] = Absent]
    /\ UNCHANGED <<rows, ranking, history>>

-----------------------------------------------------------------------------
\* competitionRankingHandler and playerHandler, when the cache has no entry.
\* A hit reads the entry and changes nothing.

RankingMiss(v) ==
    /\ pc[v] = "idle"
    /\ ranking = Absent
    /\ Goto(v, "select")
    /\ UNCHANGED <<rows, ranking, lists, file, prs, history>>

ListMiss(p) ==
    /\ pc[p] = "idle"
    /\ lists[p] = Absent
    /\ Goto(p, "select")
    /\ UNCHANGED <<rows, ranking, lists, file, prs, history>>

SelectScores(r) ==
    /\ pc[r] = "select"
    /\ file' = [file EXCEPT ![r] = rows]
    /\ Goto(r, "fill")
    /\ UNCHANGED <<rows, ranking, lists, prs, history>>

\* The entry is set whatever has become of it since the Get.
FillRanking(v) ==
    /\ pc[v] = "fill"
    /\ ranking' = file[v]
    /\ Return(v)
    /\ UNCHANGED <<rows, lists, prs, history>>

FillList(p) ==
    /\ pc[p] = "fill"
    /\ lists' = [lists EXCEPT ![p] = Shown(file[p], p)]
    /\ Return(p)
    /\ UNCHANGED <<rows, ranking, prs, history>>

-----------------------------------------------------------------------------
\* The process ends and is started again: both caches are empty.
Restart ==
    /\ restarts < MaxRestarts
    /\ restarts' = restarts + 1
    /\ crossed' = FALSE
    /\ ranking' = Absent
    /\ lists' = [p \in Players |-> Absent]
    /\ pc' = [r \in Requests |-> "idle"]
    /\ file' = [r \in Requests |-> NoScores]
    /\ prs' = [o \in Organizers |-> Absent]
    /\ UNCHANGED <<rows, last, faults>>

UploadStep(o) ==
    \/ Abort(o) \/ Commit(o) \/ CommitFails(o)
    \/ GetRanking(o) \/ RemoveMissing(o) \/ SetRanking(o) \/ InsertScores(o)

Next ==
    \/ \E o \in Organizers, s \in Sheets : Upload(o, s)
    \/ \E o \in Organizers : UploadStep(o)
    \/ \E v \in Visitors : RankingMiss(v) \/ SelectScores(v) \/ FillRanking(v)
    \/ \E p \in Players : ListMiss(p) \/ SelectScores(p) \/ FillList(p)
    \/ Restart

Spec == Init /\ [][Next]_vars

-----------------------------------------------------------------------------
\* No upload is between its commit and its last cache step.
Quiet == \A o \in Organizers : ~Updating(o)

\* Nothing has crossed a commit, and if the caches may have been filled from
\* the rows, the rows are the last file: a failed commit is not remembered.
Undisturbed == ~crossed /\ (restarts = 0 \/ rows = last)

\* Between uploads the ranking shown is that of the file answered last ("only
\* the last submitted CSV is reflected", specification.md), or not cached.
\* Any requests overlap; what breaks it is a commit that crosses a reader or
\* another upload, for the lock per tenant is commented out in
\* competitionScoreHandler and competitionRankingHandler.
RankingShowsLast == Quiet /\ Undisturbed => ranking \in {Absent, last}

\* Between uploads each player's list shows the score of that same file, or is
\* not cached.  A player who has dropped out of the file has none as long as
\* this process has added the competition and every player itself: only then is
\* the ranking cached when an upload looks there for who has dropped out.
ListsShowLast ==
    Quiet /\ Undisturbed =>
        \A p \in IF restarts = 0 THEN Players ELSE DOMAIN last :
            lists[p] \in {Absent, Shown(last, p)}

\* While an upload is at work the ranking only ever moves on to the file that
\* was committed last, never back to an earlier one.
RankingMovesForward ==
    [][Undisturbed => ranking' \in {ranking, Absent, last}]_vars
=============================================================================
