-------------------------- MODULE ScoreCachesProofs --------------------------
(***************************************************************************)
(* Any organizers, visitors and players, restarts and failing commits: both *)
(* caches show the last file between uploads, unless a commit has crossed a *)
(* reader or another upload.                                                *)
(*                                                                          *)
(* The invariant says what each step of an upload leaves to the next, twice *)
(* over: while the process has added everything itself the caches have all  *)
(* entries, nobody fills them and the ranking tells who has dropped out;    *)
(* after a restart entries come and go, and what holds is said of the ones  *)
(* that are there.                                                          *)
(***************************************************************************)
EXTENDS ScoreCaches, TLAPS

Readers == Visitors \cup Players

ListsShow(sheet) == \A p \in Players : lists[p] = Shown(sheet, p)

\* Whoever is not in the file has no score in the list any more.
MissingRemoved == \A p \in Players \ DOMAIN last : lists[p] = {}

\* No restart yet.
Warm ==
    /\ ranking # Absent
    /\ \A p \in Players : lists[p] # Absent
    /\ \A r \in Readers : pc[r] = "idle"

WarmUncrossed ==
    /\ Quiet => ranking = last /\ ListsShow(last)
    /\ \A o \in Organizers :
        /\ pc[o] \in {"get", "remove"} => ListsShow(ranking)
        /\ pc[o] = "remove" => prs[o] = ranking
        /\ pc[o] \in {"set", "insert"} => MissingRemoved
        /\ pc[o] = "insert" => ranking = last

\* At most one upload is updating the caches, with the last file, and what
\* readers carry is what the rows are.
Uncrossed ==
    /\ \A o, s \in Organizers : Updating(o) /\ Updating(s) => o = s
    /\ \A o \in Organizers : Updating(o) => file[o] = last
    /\ \A r \in Readers : pc[r] = "fill" => file[r] = rows

\* An entry comes from the last file, or from the rows if its commit failed.
Fresh ==
    /\ Quiet => /\ ranking \in {Absent, last, rows}
                /\ \A p \in DOMAIN last :
                       lists[p] \in {Absent, Shown(last, p), Shown(rows, p)}
    /\ \A o \in Organizers : pc[o] = "insert" => ranking \in {Absent, last, rows}

Inv ==
    /\ TypeOK
    /\ restarts = 0 => Warm
    /\ ~crossed => Uncrossed /\ Fresh
    /\ ~crossed /\ restarts = 0 => WarmUncrossed

-----------------------------------------------------------------------------
\* Type correctness.

USE ConstantsAssumption DEF Requests

LEMMA NoScoresShown == \A p \in Players : Shown(NoScores, p) = {}
  BY DEF Shown, NoScores

LEMMA TypeInit == Init => TypeOK
<1> SUFFICES ASSUME Init
             PROVE  TypeOK
  OBVIOUS
<1>1. crossed \in BOOLEAN
  BY Zenon DEF Init
<1>2. NoScores \in AnySheet
  BY DEF AnySheet
<1>3. \A p \in Players : lists[p] = Shown(NoScores, p)
  BY NoScoresShown DEF Init
<1> QED
  BY <1>1, <1>2, <1>3 DEF Init, TypeOK

LEMMA TypeUpload ==
  ASSUME TypeOK, NEW o \in Organizers, UploadStep(o)
  PROVE  TypeOK'
<1> USE DEF TypeOK, Goto, Return, history
<1>1. CASE Abort(o) \/ Commit(o) \/ CommitFails(o) \/ GetRanking(o) \/ SetRanking(o)
  <2>1. crossed' \in BOOLEAN
    BY <1>1, Zenon DEF Abort, Commit, CommitFails, GetRanking, SetRanking
  <2> QED
    BY <1>1, <2>1 DEF Abort, Commit, CommitFails, GetRanking, SetRanking, AnySheet
<1>2. CASE RemoveMissing(o)
  <2>1. \A p \in Players : lists'[p] = lists[p] \/ lists'[p] = Shown(NoScores, p)
    BY <1>2, NoScoresShown DEF RemoveMissing
  <2>2. \A p \in Players :
            lists'[p] = Absent \/ \E s \in AnySheet : lists'[p] = Shown(s, p)
    BY <2>1 DEF AnySheet
  <2> QED
    BY <1>2, <2>2 DEF RemoveMissing
<1>3. CASE InsertScores(o)
  <2>1. \A p \in Players : lists'[p] = lists[p] \/ lists'[p] = Shown(file[o], p)
    BY <1>3 DEF InsertScores, Shown
  <2>2. \A p \in Players :
            lists'[p] = Absent \/ \E s \in AnySheet : lists'[p] = Shown(s, p)
    BY <2>1
  <2> QED
    BY <1>3, <2>2 DEF InsertScores, AnySheet
<1> QED
  BY <1>1, <1>2, <1>3 DEF UploadStep

LEMMA TypeNext == TypeOK /\ [Next]_vars => TypeOK'
<1> SUFFICES ASSUME TypeOK, [Next]_vars
             PROVE  TypeOK'
  OBVIOUS
<1> USE DEF TypeOK, Goto, Return, history
<1>1. ASSUME NEW o \in Organizers, NEW s \in Sheets, Upload(o, s)
      PROVE  TypeOK'
  BY <1>1 DEF Upload, AnySheet
<1>2. ASSUME NEW o \in Organizers, UploadStep(o)
      PROVE  TypeOK'
  BY <1>2, TypeUpload
<1>3. ASSUME NEW v \in Visitors, RankingMiss(v) \/ SelectScores(v) \/ FillRanking(v)
      PROVE  TypeOK'
  BY <1>3 DEF RankingMiss, SelectScores, FillRanking, AnySheet
<1>4. ASSUME NEW p \in Players, ListMiss(p) \/ SelectScores(p)
      PROVE  TypeOK'
  BY <1>4 DEF ListMiss, SelectScores
<1>5. ASSUME NEW p \in Players, FillList(p)
      PROVE  TypeOK'
  <2>1. \A q \in Players :
            lists'[q] = Absent \/ \E s \in AnySheet : lists'[q] = Shown(s, q)
    BY <1>5 DEF FillList
  <2> QED
    BY <1>5, <2>1 DEF FillList, AnySheet
<1>6. CASE Restart
  <2>1. crossed' \in BOOLEAN
    BY <1>6, Zenon DEF Restart
  <2>2. \A p \in Players : lists'[p] = Absent
    BY <1>6 DEF Restart
  <2> QED
    BY <1>6, <2>1, <2>2 DEF Restart, AnySheet
<1>7. CASE UNCHANGED vars
  BY <1>7 DEF vars
<1> QED
  BY <1>1, <1>2, <1>3, <1>4, <1>5, <1>6, <1>7 DEF Next

\* Every variable keeps its type; a player's list has at most one score of the
\* competition, the one some file gives the player.
THEOREM TypeCorrect == Spec => []TypeOK
  BY TypeInit, TypeNext, PTL DEF Spec

-----------------------------------------------------------------------------
\* The invariant.

LEMMA InvInit == Init => Inv
<1> SUFFICES ASSUME Init
             PROVE  Inv
  OBVIOUS
<1>1. TypeOK
  BY TypeInit
<1>2. NoScores \in AnySheet
  BY DEF AnySheet
<1>3. ListsShow(NoScores) /\ \A p \in Players : lists[p] # Absent
  BY <1>2, NoScoresShown DEF Init, ListsShow
<1>4. Warm
  BY <1>2, <1>3 DEF Init, Warm, Readers
<1>5. WarmUncrossed /\ Uncrossed
  BY <1>3 DEF Init, WarmUncrossed, Uncrossed, Updating, Readers
<1>6. Fresh
  BY DEF Init, Fresh, NoScores
<1> QED
  BY <1>1, <1>4, <1>5, <1>6 DEF Inv

\* A file is carried to its commit: nothing the invariant speaks of changes.
LEMMA InvBegin ==
  ASSUME Inv, TypeOK', NEW o \in Organizers,
         Abort(o) \/ \E s \in Sheets : Upload(o, s)
  PROVE  Inv'
<1>1. /\ pc[o] \in {"idle", "commit"} /\ pc'[o] \in {"idle", "commit"}
      /\ \A r \in Requests \ {o} : pc'[r] = pc[r] /\ file'[r] = file[r]
      /\ UNCHANGED <<rows, ranking, lists, prs, last, crossed, restarts>>
  BY DEF Inv, TypeOK, Abort, Upload, Return, Goto, history
<1>2. \A s \in Organizers : Updating(s)' <=> Updating(s)
  BY <1>1 DEF Updating
<1>3. Quiet' <=> Quiet
  BY <1>2 DEF Quiet
<1>4. Warm => Warm'
  BY <1>1 DEF Warm, Readers
<1>5. Uncrossed => Uncrossed'
  BY <1>1, <1>2 DEF Uncrossed, Updating, Readers
<1>6. Fresh => Fresh'
  BY <1>1, <1>3 DEF Fresh
<1>7. WarmUncrossed => WarmUncrossed'
  BY <1>1, <1>3 DEF WarmUncrossed, ListsShow, MissingRemoved
<1> QED
  BY <1>1, <1>4, <1>5, <1>6, <1>7 DEF Inv

\* From the commit on, o is the only one that updates the caches: any other one
\* would have been crossed.
LEMMA InvCommit ==
  ASSUME Inv, TypeOK', NEW o \in Organizers, Commit(o) \/ CommitFails(o)
  PROVE  Inv'
<1>1. /\ pc[o] = "commit" /\ pc'[o] = "get" /\ last' = file[o] /\ file' = file
      /\ \A r \in Requests \ {o} : pc'[r] = pc[r]
      /\ crossed' = (crossed \/ Crosses(o))
      /\ UNCHANGED <<ranking, lists, prs, restarts>>
  BY DEF Inv, TypeOK, Commit, CommitFails, Goto
<1>2. Updating(o)' /\ ~Quiet'
  BY <1>1 DEF Updating, Quiet
<1>3. Warm => Warm'
  BY <1>1 DEF Warm, Readers
<1>4. ASSUME ~crossed'
      PROVE  /\ ~crossed /\ Quiet
             /\ \A s \in Organizers \ {o} : ~Updating(s)'
             /\ \A s \in Organizers \ {o} :
                    pc'[s] \notin {"get", "remove", "set", "insert"}
             /\ \A r \in Readers : pc'[r] # "fill"
  BY <1>1, <1>4 DEF Inv, TypeOK, Crosses, Updating, Quiet, Readers
<1>5. ASSUME ~crossed'
      PROVE  Uncrossed' /\ Fresh'
  BY <1>1, <1>2, <1>4, <1>5 DEF Uncrossed, Fresh
<1>6. ASSUME ~crossed', restarts = 0
      PROVE  WarmUncrossed'
  <2>1. ranking = last /\ ListsShow(last)
    BY <1>4, <1>6 DEF Inv, WarmUncrossed
  <2> QED
    BY <1>1, <1>2, <1>4, <1>6, <2>1 DEF WarmUncrossed, ListsShow
<1> QED
  BY <1>1, <1>3, <1>5, <1>6 DEF Inv

\* What any step of an upload after its commit leaves alone.
LEMMA UpdatingFrame ==
  ASSUME Inv, NEW o \in Organizers,
         GetRanking(o) \/ RemoveMissing(o) \/ SetRanking(o)
  PROVE  /\ Updating(o) /\ Updating(o)' /\ ~Quiet'
         /\ \A r \in Requests \ {o} : pc'[r] = pc[r]
         /\ UNCHANGED <<rows, file, last, crossed, restarts>>
         /\ Uncrossed => Uncrossed'
<1>1. /\ Updating(o) /\ Updating(o)'
      /\ \A r \in Requests \ {o} : pc'[r] = pc[r]
      /\ UNCHANGED <<rows, file, last, crossed, restarts>>
  BY DEF Inv, TypeOK, GetRanking, RemoveMissing, SetRanking, Goto, history, Updating
<1>2. \A s \in Organizers : Updating(s)' <=> Updating(s)
  BY <1>1 DEF Updating
<1> QED
  BY <1>1, <1>2 DEF Quiet, Uncrossed, Readers

LEMMA InvGetRanking ==
  ASSUME Inv, TypeOK', NEW o \in Organizers, GetRanking(o)
  PROVE  Inv'
<1>1. /\ pc[o] = "get" /\ pc'[o] = IF ranking = Absent THEN "set" ELSE "remove"
      /\ prs'[o] = ranking
      /\ UNCHANGED <<ranking, lists>>
      /\ \A s \in Organizers \ {o} : prs'[s] = prs[s]
  BY DEF Inv, TypeOK, GetRanking, Goto
<1>2. Warm => Warm'
  BY <1>1, UpdatingFrame DEF Warm, Readers
<1>3. Fresh => Fresh'
  BY <1>1, UpdatingFrame DEF Fresh
<1>4. restarts = 0 /\ WarmUncrossed => WarmUncrossed'
  BY <1>1, UpdatingFrame DEF Inv, Warm, WarmUncrossed, ListsShow, MissingRemoved
<1> QED
  BY <1>2, <1>3, <1>4, UpdatingFrame DEF Inv

LEMMA InvRemoveMissing ==
  ASSUME Inv, TypeOK', NEW o \in Organizers, RemoveMissing(o)
  PROVE  Inv'
<1>1. /\ pc[o] = "remove" /\ pc'[o] = "set"
      /\ UNCHANGED <<ranking, prs>>
      /\ \A p \in Players :
             lists'[p] = IF lists[p] # Absent /\ p \in DOMAIN prs[o] \ DOMAIN file[o]
                         THEN {} ELSE lists[p]
  BY DEF Inv, TypeOK, RemoveMissing, Goto
<1>2. \A p \in Players : {} # Absent
  <2> TAKE p \in Players
  <2>1. NoScores \in AnySheet
    BY DEF AnySheet
  <2>2. Absent # Shown(NoScores, p)
    BY ONLY <2>1, ConstantsAssumption, p \in Players
  <2> QED
    BY <2>2, NoScoresShown
<1>3. Warm => Warm'
  BY <1>1, <1>2, UpdatingFrame DEF Warm, Readers
<1>4. Fresh => Fresh'
  BY <1>1, UpdatingFrame DEF Fresh
<1>5. ASSUME restarts = 0, ~crossed
      PROVE  WarmUncrossed'
  <2>1. /\ ListsShow(ranking) /\ prs[o] = ranking /\ file[o] = last
        /\ \A s \in Organizers : Updating(s) => s = o
        /\ \A p \in Players : lists[p] # Absent
    BY <1>1, <1>5, UpdatingFrame DEF Inv, WarmUncrossed, Uncrossed, Warm
  <2>2. \A p \in Players \ DOMAIN last : lists'[p] = {}
    BY <1>1, <2>1 DEF ListsShow, Shown
  <2>3. MissingRemoved'
    BY <2>2, UpdatingFrame DEF MissingRemoved
  <2>4. \A s \in Organizers : pc'[s] \notin {"get", "remove", "insert"}
    BY <1>1, <2>1, UpdatingFrame DEF Updating
  <2> QED
    BY <2>3, <2>4, UpdatingFrame DEF WarmUncrossed
<1> QED
  BY <1>3, <1>4, <1>5, UpdatingFrame DEF Inv

LEMMA InvSetRanking ==
  ASSUME Inv, TypeOK', NEW o \in Organizers, SetRanking(o)
  PROVE  Inv'
<1>1. /\ pc[o] = "set" /\ pc'[o] = "insert" /\ ranking' = file[o]
      /\ UNCHANGED <<lists, prs>>
      /\ ranking' # Absent
  BY DEF Inv, TypeOK, SetRanking, Goto
<1>2. Warm => Warm'
  BY <1>1, UpdatingFrame DEF Warm, Readers
<1>3. ASSUME ~crossed
      PROVE  ranking' = last /\ \A s \in Organizers : Updating(s) => s = o
  BY <1>1, <1>3, UpdatingFrame DEF Inv, Uncrossed
<1>4. ~crossed => Fresh'
  BY <1>3, UpdatingFrame DEF Fresh
<1>5. ASSUME restarts = 0, ~crossed
      PROVE  WarmUncrossed'
  <2>1. MissingRemoved
    BY <1>1, <1>5 DEF Inv, WarmUncrossed
  <2>2. \A s \in Organizers : pc'[s] \notin {"get", "remove"}
    BY <1>1, <1>3, <1>5, UpdatingFrame DEF Updating
  <2> QED
    BY <1>1, <1>3, <1>5, <2>1, <2>2, UpdatingFrame DEF WarmUncrossed, MissingRemoved
<1> QED
  BY <1>2, <1>4, <1>5, UpdatingFrame DEF Inv

LEMMA InvInsertScores ==
  ASSUME Inv, TypeOK', NEW o \in Organizers, InsertScores(o)
  PROVE  Inv'
<1>1. /\ pc[o] = "insert" /\ pc'[o] = "idle"
      /\ \A r \in Requests \ {o} : pc'[r] = pc[r] /\ file'[r] = file[r]
      /\ \A p \in Players : lists'[p] = IF lists[p] # Absent /\ p \in DOMAIN file[o]
                                        THEN {file[o][p]} ELSE lists[p]
      /\ UNCHANGED <<rows, ranking, last, crossed, restarts>>
      /\ \A s \in Organizers \ {o} : prs'[s] = prs[s]
  BY DEF Inv, TypeOK, InsertScores, Return, Goto, history
<1>2. /\ Updating(o) /\ ~Updating(o)'
      /\ \A s \in Organizers \ {o} : Updating(s)' <=> Updating(s)
  BY <1>1 DEF Updating
<1>3. last \in AnySheet /\ DOMAIN last \subseteq Players
  BY DEF Inv, TypeOK, AnySheet, NoScores
<1>4. Warm => Warm'
  <2>1. \A p \in Players : lists[p] # Absent => lists'[p] # Absent
    <3>1. file[o] \in AnySheet
      BY DEF Inv, TypeOK
    <3>2. \A p \in Players : Absent # Shown(file[o], p)
      BY ONLY <3>1, ConstantsAssumption
    <3> QED
      BY <1>1, <3>2 DEF Shown
  <2> QED
    BY <1>1, <2>1 DEF Warm, Readers
<1>5. ASSUME ~crossed
      PROVE  file[o] = last /\ \A s \in Organizers \ {o} : ~Updating(s) /\ ~Updating(s)'
  BY <1>2, <1>5 DEF Inv, Uncrossed
<1>6. ASSUME ~crossed
      PROVE  Uncrossed'
  BY <1>1, <1>2, <1>5, <1>6 DEF Inv, Uncrossed, Readers
<1>7. ~crossed => \A s \in Organizers : pc'[s] \notin {"get", "remove", "set", "insert"}
  BY <1>1, <1>5 DEF Updating
<1>8. ASSUME ~crossed
      PROVE  Fresh'
  <2>1. ranking \in {Absent, last, rows}
    BY <1>1, <1>8 DEF Inv, Fresh
  <2>2. \A p \in DOMAIN last : lists'[p] \in {Absent, Shown(last, p)}
    BY <1>1, <1>3, <1>5, <1>8 DEF Shown
  <2> QED
    BY <1>1, <1>7, <1>8, <2>1, <2>2 DEF Fresh
<1>9. ASSUME ~crossed, restarts = 0
      PROVE  WarmUncrossed'
  <2>1. ranking = last /\ MissingRemoved /\ \A p \in Players : lists[p] # Absent
    BY <1>1, <1>9 DEF Inv, WarmUncrossed, Warm
  <2>2. \A p \in Players : lists'[p] = Shown(last, p)
    BY <1>1, <1>5, <1>9, <2>1 DEF MissingRemoved, Shown
  <2> QED
    BY <1>1, <1>7, <1>9, <2>1, <2>2 DEF WarmUncrossed, ListsShow
<1> QED
  BY <1>1, <1>4, <1>6, <1>8, <1>9 DEF Inv

\* A reader looks, reads or fills: only after a restart.
LEMMA InvReader ==
  ASSUME Inv, TypeOK', NEW r \in Readers,
         \/ r \in Visitors /\ (RankingMiss(r) \/ FillRanking(r))
         \/ r \in Players /\ (ListMiss(r) \/ FillList(r))
         \/ SelectScores(r)
  PROVE  Inv'
<1>1. restarts # 0
  BY DEF Inv, Warm, RankingMiss, FillRanking, ListMiss, FillList, SelectScores
<1>2. /\ UNCHANGED <<rows, last, crossed, restarts>>
      /\ \A s \in Requests \ {r} : pc'[s] = pc[s] /\ file'[s] = file[s]
      /\ pc'[r] = "fill" => file'[r] = rows
  BY DEF Inv, TypeOK, Readers, RankingMiss, FillRanking, ListMiss, FillList, SelectScores,
         Goto, Return, history
<1>3. \A o \in Organizers : o # r /\ pc'[o] = pc[o] /\ file'[o] = file[o]
  BY <1>2 DEF Readers
<1>4. (Quiet' <=> Quiet) /\ \A o \in Organizers : Updating(o)' <=> Updating(o)
  BY <1>3 DEF Quiet, Updating
<1>5. Uncrossed => Uncrossed'
  BY <1>2, <1>3, <1>4 DEF Uncrossed, Readers
<1>6. ASSUME ~crossed
      PROVE  ranking' \in {ranking, rows}
  BY <1>6 DEF Inv, Uncrossed, RankingMiss, FillRanking, ListMiss, FillList, SelectScores
<1>7. ASSUME ~crossed, NEW p \in Players
      PROVE  lists'[p] \in {lists[p], Shown(rows, p)}
  <2>1. CASE r \in Players /\ FillList(r)
    BY <1>7, <2>1 DEF Inv, TypeOK, Uncrossed, FillList
  <2> QED
    BY <2>1 DEF RankingMiss, FillRanking, ListMiss, SelectScores
<1>8. DOMAIN last \subseteq Players
  BY DEF Inv, TypeOK, AnySheet, NoScores
<1>9. ~crossed /\ Fresh => Fresh'
  BY <1>2, <1>3, <1>4, <1>6, <1>7, <1>8 DEF Fresh
<1> QED
  BY <1>1, <1>2, <1>5, <1>9 DEF Inv

LEMMA InvRestart ==
  ASSUME Inv, TypeOK', Restart
  PROVE  Inv'
<1>1. /\ restarts' # 0 /\ ranking' = Absent
      /\ \A p \in Players : lists'[p] = Absent
      /\ \A r \in Requests : pc'[r] = "idle"
      /\ last' = last
  BY DEF Inv, TypeOK, Restart
<1>2. DOMAIN last \subseteq Players
  BY DEF Inv, TypeOK, AnySheet, NoScores
<1>3. Uncrossed'
  BY <1>1 DEF Uncrossed, Updating, Readers
<1>4. Fresh'
  BY <1>1, <1>2 DEF Fresh
<1> QED
  BY <1>1, <1>3, <1>4 DEF Inv

LEMMA InvNext == Inv /\ [Next]_vars => Inv'
<1> SUFFICES ASSUME Inv, [Next]_vars
             PROVE  Inv'
  OBVIOUS
<1>1. TypeOK'
  BY TypeNext DEF Inv
<1>2. ASSUME NEW o \in Organizers, NEW s \in Sheets, Upload(o, s)
      PROVE  Inv'
  BY <1>1, <1>2, InvBegin
<1>3. ASSUME NEW o \in Organizers, UploadStep(o)
      PROVE  Inv'
  BY <1>1, <1>3, InvBegin, InvCommit, InvGetRanking, InvRemoveMissing, InvSetRanking,
     InvInsertScores DEF UploadStep
<1>4. ASSUME NEW v \in Visitors, RankingMiss(v) \/ SelectScores(v) \/ FillRanking(v)
      PROVE  Inv'
  BY <1>1, <1>4, InvReader DEF Readers
<1>5. ASSUME NEW p \in Players, ListMiss(p) \/ SelectScores(p) \/ FillList(p)
      PROVE  Inv'
  BY <1>1, <1>5, InvReader DEF Readers
<1>6. CASE Restart
  BY <1>1, <1>6, InvRestart
<1>7. CASE UNCHANGED vars
  BY <1>1, <1>7 DEF vars, history, Inv, Warm, WarmUncrossed, Uncrossed, Fresh, Quiet, Updating,
     Readers, ListsShow, MissingRemoved
<1> QED
  BY <1>2, <1>3, <1>4, <1>5, <1>6, <1>7 DEF Next

\* Between uploads the cached ranking is the one of the file answered last, with
\* any organizers, readers, restarts and failing commits, unless a commit has
\* crossed a reader or another upload (competitionScoreHandler, ranking misses).
THEOREM RankingShowsLastFile == Spec => []RankingShowsLast
<1>1. Inv => RankingShowsLast
  BY DEF Inv, Warm, WarmUncrossed, Fresh, RankingShowsLast, Undisturbed
<1> QED
  BY <1>1, InvInit, InvNext, PTL DEF Spec

\* Under the same conditions every player's list shows that file; after a restart,
\* that of every player in it (competitionScoreHandler, player misses).
THEOREM ListsShowLastFile == Spec => []ListsShowLast
<1>1. Inv => ListsShowLast
  <2> SUFFICES ASSUME Inv, Quiet, Undisturbed
               PROVE  \A p \in IF restarts = 0 THEN Players ELSE DOMAIN last :
                          lists[p] \in {Absent, Shown(last, p)}
    BY DEF ListsShowLast
  <2>1. CASE restarts = 0
    BY <2>1 DEF Inv, WarmUncrossed, ListsShow, Undisturbed
  <2>2. CASE restarts # 0
    BY <2>2 DEF Inv, Fresh, Undisturbed
  <2> QED
    BY <2>1, <2>2
<1> QED
  BY <1>1, InvInit, InvNext, PTL DEF Spec

\* Under the same conditions the cached ranking never goes back to a file: a step
\* of an upload or a reader sets it to the one committed last.
THEOREM RankingsMoveForward == Spec => RankingMovesForward
<1>1. ASSUME Inv, [Next]_vars
      PROVE  [Undisturbed => ranking' \in {ranking, Absent, last}]_vars
  <2> SUFFICES ASSUME Next, Undisturbed
               PROVE  ranking' \in {ranking, Absent, last}
    BY <1>1
  <2>1. ASSUME NEW o \in Organizers, UploadStep(o)
        PROVE  ranking' \in {ranking, Absent, last}
    <3>1. CASE SetRanking(o)
      BY <1>1, <3>1 DEF SetRanking, Inv, Uncrossed, Updating, Undisturbed
    <3> QED
      BY <2>1, <3>1 DEF UploadStep, Abort, Commit, CommitFails, GetRanking, RemoveMissing,
         InsertScores
  <2>2. ASSUME NEW v \in Visitors, FillRanking(v)
        PROVE  ranking' \in {ranking, Absent, last}
    BY <1>1, <2>2 DEF FillRanking, Inv, Warm, Uncrossed, Undisturbed, Readers
  <2> QED
    BY <2>1, <2>2 DEF Next, Upload, RankingMiss, SelectScores, ListMiss, FillList, Restart
<1> QED
  BY <1>1, InvInit, InvNext, PTL DEF Spec, RankingMovesForward
=============================================================================
