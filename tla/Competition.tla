---------------------------- MODULE Competition ----------------------------
(***************************************************************************)
(* The life of one competition of one tenant in go/isuports.go: added,      *)
(* scored, visited, finished, billed.  The handlers run concurrently and    *)
(* share                                                                    *)
(*   - competition and player_score in the tenant's database,               *)
(*   - visit_history_2 and billing in the admin database,                   *)
(*   - competitionCache, filled by retrieveCompetition on a miss,           *)
(*   - visitHistoryExec, an AsyncExecute that inserts the visits.           *)
(* A handler is a sequence of steps; a step is what it does between two     *)
(* points where another goroutine can get in (a database call, a critical   *)
(* section, a look at the clock, a channel receive).                        *)
(*                                                                          *)
(* A competition is dispensed a fresh id, so other competitions share       *)
(* nothing with this one but the queue.  What the score and ranking         *)
(* handlers go on to do to rankingCache and playerScoreCache touches none   *)
(* of this state.                                                           *)
(***************************************************************************)
EXTENDS Integers, Sequences, FiniteSets

CONSTANTS Players,
          Viewers,       \* concurrent ranking requests, each of one player
          PlayerOf,      \* whose request it is (v.playerID)
          Organizers,    \* concurrent requests of the tenant's organizer
          Uploads,       \* score files
          Scored,        \* the players a score file has a row for
          None,          \* no row, no cache entry, no upload
          MaxTime,       \* bound: the clock stops there
          MaxQueue,      \* bound: visits queued or about to be
          MaxRestarts,   \* bound: restarts of the process
          MaxFaults      \* bound: failed INSERTs of visits, failed finish requests

Requests == Viewers \cup Organizers

\* A VisitHistoryRow of this competition.
Visit == [player : Players, at : Nat]

\* What billingReportByCompetition counts, as the sets it counts.
Report == [players : SUBSET Players, visitors : SUBSET Players]
NoReport == [players |-> {}, visitors |-> {}]

ASSUME ConstantsAssumption ==
    /\ PlayerOf \in [Viewers -> Players]
    /\ Scored \in [Uploads -> SUBSET Players]
    /\ Viewers \cap Organizers = {}
    /\ None \notin Nat /\ None \notin Report
    /\ None \notin Uploads
    /\ {MaxTime, MaxQueue, MaxRestarts, MaxFaults} \subseteq Nat

VARIABLES
    now,        \* time.Now().Unix(), from 1
    row,        \* competition: None, or finished_at with 0 for NULL
    score,      \* player_score: the upload whose rows it holds, or None
    visits,     \* visit_history_2: created_at of each player's row, or 0
    billing,    \* billing: None or the report inserted
    cache,      \* competitionCache: None or the finished_at it holds
    data, waited, exec, batch, signals, chan,   \* visitHistoryExec
    pc,         \* the step each request is at
    comp,       \* its comp.FinishedAt
    at,         \* its now
    upload,     \* the score file it carries, if it is a score request
    report      \* its billing report, as far as computed

\* History variables.
VARIABLES
    answered,   \* players whose visit a ranking request has queued
    lost,       \* of those, the ones a fault or a restart dropped
    due,        \* for each finish request: answered when it arrived
    late,       \* uploads that arrived when a finish had set the cache
    interrupted,    \* a finish was ended between its UPDATE and its bill
    crossed,    \* when a finish set the cache, a request had yet to set it open
    overlapped, \* ... or an upload that found it open had not returned
    restarts, faults

database == <<row, score, visits, billing>>
queue    == <<data, waited, exec, batch, signals, chan>>
locals   == <<pc, comp, at, upload, report, due, late>>
crossings == <<crossed, overlapped>>
history  == <<answered, lost, interrupted, crossings, restarts, faults>>
vars     == <<now, database, cache, queue, locals, history>>

Queue == INSTANCE AsyncExecute WITH
    Values <- Visit, Channels <- Organizers, round <- exec

Steps == {"idle", "added", "select", "fill", "retrieved", "visit", "commit",
          "wait", "update", "abandon", "cache", "receive", "visits", "scores", "bill"}

\* A finish between its UPDATE and its INSERT INTO billing.
Finishing == {"cache", "receive", "visits", "scores", "bill"}

TypeOK ==
    /\ now \in Nat \ {0}
    /\ row \in {None} \cup Nat
    /\ score \in {None} \cup Uploads
    /\ visits \in [Players -> Nat]
    /\ billing \in {None} \cup Report
    /\ cache \in {None} \cup Nat
    /\ Queue!QueueTypeOK
    /\ pc \in [Requests -> Steps]
    /\ comp \in [Requests -> {None} \cup Nat]
    /\ at \in [Requests -> Nat]
    /\ upload \in [Requests -> {None} \cup Uploads]
    /\ report \in [Requests -> Report]
    /\ due \in [Requests -> SUBSET Players]
    /\ answered \subseteq Players
    /\ lost \subseteq Players
    /\ late \subseteq Organizers
    /\ interrupted \in BOOLEAN /\ crossed \in BOOLEAN /\ overlapped \in BOOLEAN
    /\ restarts \in Nat
    /\ faults \in Nat

InitLocals ==
    /\ pc = [r \in Requests |-> "idle"]
    /\ comp = [r \in Requests |-> None]
    /\ at = [r \in Requests |-> 0]
    /\ upload = [r \in Requests |-> None]
    /\ report = [r \in Requests |-> NoReport]
    /\ due = [r \in Requests |-> {}]
    /\ late = {}

Init ==
    /\ now = 1
    /\ row = None
    /\ score = None
    /\ visits = [p \in Players |-> 0]
    /\ billing = None
    /\ cache = None
    /\ Queue!New
    /\ InitLocals
    /\ answered = {}
    /\ lost = {}
    /\ interrupted = FALSE
    /\ crossed = FALSE
    /\ overlapped = FALSE
    /\ restarts = 0
    /\ faults = 0

-----------------------------------------------------------------------------
Goto(r, step) == pc' = [pc EXCEPT ![r] = step]

\* The handler returns and its locals are gone.
Return(r) ==
    /\ Goto(r, "idle")
    /\ comp' = [comp EXCEPT ![r] = None]
    /\ at' = [at EXCEPT ![r] = 0]
    /\ upload' = [upload EXCEPT ![r] = None]
    /\ report' = [report EXCEPT ![r] = NoReport]
    /\ due' = [due EXCEPT ![r] = {}]
    /\ late' = late \ {r}

\* retrieveCompetition is competitionCache.GetOrSet: a Get, on a miss the
\* SELECT and then a Set, with nothing held in between.  Lookup is the Get; the
\* lists of competitions are read from the database, so a request can be for this
\* one before competitionsAddHandler has cached it.
Lookup(r) ==
    /\ row # None
    /\ comp' = [comp EXCEPT ![r] = cache]
    /\ Goto(r, IF cache = None THEN "select" ELSE "retrieved")

\* An error: 500.
Select(r) ==
    /\ pc[r] = "select"
    /\ \/ Return(r)
       \/ /\ comp' = [comp EXCEPT ![r] = row]
          /\ Goto(r, "fill")
          /\ UNCHANGED <<at, upload, report, due, late>>
    /\ UNCHANGED <<now, database, cache, queue, history>>

Fill(r) ==
    /\ pc[r] = "fill"
    /\ cache' = comp[r]
    /\ Goto(r, "retrieved")
    /\ UNCHANGED <<now, database, queue, comp, at, upload, report, due, late, history>>

-----------------------------------------------------------------------------
\* competitionsAddHandler: the INSERT, then competitionCache.Set.

CompetitionsAdd(o) ==
    /\ pc[o] = "idle"
    /\ row = None
    /\ row' = 0
    /\ Goto(o, "added")
    /\ UNCHANGED <<now, score, visits, billing, cache, queue,
                   comp, at, upload, report, due, late, history>>

CacheAdded(o) ==
    /\ pc[o] = "added"
    /\ cache' = 0
    /\ Return(o)
    /\ UNCHANGED <<now, database, queue, history>>

-----------------------------------------------------------------------------
\* competitionRankingHandler, up to its visit.

Visiting == {v \in Viewers : pc[v] # "idle"}

RankingRequest(v) ==
    /\ pc[v] = "idle"
    /\ Len(data) + Cardinality(Visiting) < MaxQueue
    /\ Lookup(v)
    /\ UNCHANGED <<now, database, cache, queue, at, upload, report, due, late, history>>

\* now := time.Now().Unix(); a finished competition records no visit.
RankingNow(v) ==
    /\ pc[v] = "retrieved"
    /\ comp[v] = 0
    /\ at' = [at EXCEPT ![v] = now]
    /\ Goto(v, "visit")
    /\ UNCHANGED <<now, database, cache, queue, comp, upload, report, due, late, history>>

\* It is finished, or the tenant cannot be read: 500.
RankingEnds(v) ==
    /\ pc[v] = "retrieved"
    /\ Return(v)
    /\ UNCHANGED <<now, database, cache, queue, history>>

\* visitHistoryExec.Set; the ranking the player is then shown changes nothing
\* here.
RankingVisit(v) ==
    /\ pc[v] = "visit"
    /\ Queue!Set(<<[player |-> PlayerOf[v], at |-> at[v]]>>)
    /\ answered' = answered \cup {PlayerOf[v]}
    /\ Return(v)
    /\ UNCHANGED <<now, database, cache, lost, interrupted, crossings, restarts,
                   faults>>

-----------------------------------------------------------------------------
\* competitionScoreHandler, up to its commit.

\* A finish has set the cache.
Over == row \notin {None, 0} /\ \A o \in Organizers : pc[o] # "cache"

ScoreRequest(o, u) ==
    /\ pc[o] = "idle"
    /\ upload' = [upload EXCEPT ![o] = u]
    /\ late' = IF Over THEN late \cup {o} ELSE late
    /\ Lookup(o)
    /\ UNCHANGED <<now, database, cache, queue, at, report, due, history>>

\* Mutant: the check is forgotten.
ScoreUnchecked(o) ==
    /\ pc[o] = "retrieved"
    /\ upload[o] # None
    /\ Goto(o, "commit")
    /\ UNCHANGED <<now, database, cache, queue, comp, at, upload, report, due, late, history>>

\* comp.FinishedAt.Valid: 400, "competition is finished".
ScoreCheck(o) ==
    /\ pc[o] = "retrieved"
    /\ upload[o] # None
    /\ \/ /\ comp[o] = 0
          /\ Goto(o, "commit")
          /\ UNCHANGED <<comp, at, upload, report, due, late>>
       \/ /\ comp[o] # 0
          /\ Return(o)
    /\ UNCHANGED <<now, database, cache, queue, history>>

\* A malformed file, an unknown player or a database error ends the request; a
\* failed tx.Commit() is not even noticed.  player_score stays as it was.
ScoreAbort(o) ==
    /\ pc[o] = "commit"
    /\ Return(o)
    /\ UNCHANGED <<now, database, cache, queue, history>>

\* One transaction: DELETE the old rows, INSERT the file's.
ScoreCommit(o) ==
    /\ pc[o] = "commit"
    /\ score' = upload[o]
    /\ Return(o)
    /\ UNCHANGED <<now, row, visits, billing, cache, queue, history>>

-----------------------------------------------------------------------------
\* competitionFinishHandler.  A finished competition may be finished again.

FinishRequest(o) ==
    /\ pc[o] = "idle"
    /\ Lookup(o)
    /\ due' = [due EXCEPT ![o] = answered]
    /\ UNCHANGED <<now, database, cache, queue, at, upload, report, late, history>>

FinishNow(o) ==
    /\ pc[o] = "retrieved"
    /\ upload[o] = None
    /\ at' = [at EXCEPT ![o] = now]
    /\ Goto(o, "wait")
    /\ UNCHANGED <<now, database, cache, queue, comp, upload, report, due, late, history>>

FinishWait(o) ==
    /\ pc[o] = "wait"
    /\ Queue!Wait(o)
    /\ Goto(o, "update")
    /\ UNCHANGED <<now, database, cache, comp, at, upload, report, due, late, history>>

FinishUpdate(o) ==
    /\ pc[o] = "update"
    /\ row' = at[o]
    /\ Goto(o, "cache")
    /\ UNCHANGED <<now, score, visits, billing, cache, queue,
                   comp, at, upload, report, due, late, history>>

\* The UPDATE fails: 500, and nobody receives from the channel.  Until it is
\* signalled, which makes it garbage, its name in the model is not free.
FinishUpdateFails(o) ==
    /\ pc[o] = "update"
    /\ faults < MaxFaults
    /\ faults' = faults + 1
    /\ Goto(o, "abandon")
    /\ UNCHANGED <<now, database, cache, queue, comp, at, upload, report, due, late,
                   answered, lost, interrupted, crossings, restarts>>

ChannelAbandoned(o) ==
    /\ pc[o] = "abandon"
    /\ Queue!Receive(o)
    /\ Return(o)
    /\ UNCHANGED <<now, database, cache, history>>

\* What the finish crosses when it sets the cache: the row read before its UPDATE
\* is on its way there, or an upload has found the competition open.
Crossing(r) == pc[r] = "added" \/ (pc[r] = "fill" /\ comp[r] = 0)
Overlapping(r) == pc[r] # "added" /\ upload[r] # None /\ comp[r] = 0

Cross ==
    /\ crossed' = (crossed \/ \E r \in Requests : Crossing(r))
    /\ overlapped' = (overlapped \/ \E r \in Organizers : Overlapping(r))

\* Mutants: the cache is not updated; the report is computed without waiting.
FinishForgetsCache(o) ==
    /\ pc[o] = "cache"
    /\ comp' = [comp EXCEPT ![o] = at[o]]
    /\ Goto(o, "receive")
    /\ Cross
    /\ UNCHANGED <<now, database, cache, queue, at, upload, report, due, late,
                   answered, lost, interrupted, restarts, faults>>

FinishWithoutWaiting(o) ==
    /\ pc[o] = "cache"
    /\ cache' = IF cache = None THEN None ELSE at[o]
    /\ comp' = [comp EXCEPT ![o] = at[o]]
    /\ Goto(o, "visits")
    /\ Cross
    /\ UNCHANGED <<now, database, queue, at, upload, report, due, late,
                   answered, lost, interrupted, restarts, faults>>

\* competitionCache.Update leaves a missing entry missing.
FinishCache(o) ==
    /\ pc[o] = "cache"
    /\ cache' = IF cache = None THEN None ELSE at[o]
    /\ comp' = [comp EXCEPT ![o] = at[o]]
    /\ Goto(o, "receive")
    /\ Cross
    /\ UNCHANGED <<now, database, queue, at, upload, report, due, late,
                   answered, lost, interrupted, restarts, faults>>

FinishReceive(o) ==
    /\ pc[o] = "receive"
    /\ Queue!Receive(o)
    /\ Goto(o, "visits")
    /\ UNCHANGED <<now, database, cache, comp, at, upload, report, due, late, history>>

\* billingReportByCompetition reads visit_history_2 first: a visit after
\* finished_at does not count.
VisitorsUntil(t) == {p \in Players : visits[p] # 0 /\ visits[p] <= t}

FinishVisits(o) ==
    /\ pc[o] = "visits"
    /\ report' = [report EXCEPT ![o].visitors = VisitorsUntil(comp[o])]
    /\ Goto(o, "scores")
    /\ UNCHANGED <<now, database, cache, queue, comp, at, upload, due, late, history>>

\* ... and then player_score: whoever has a score is a player instead.
ScoredPlayers == IF score = None THEN {} ELSE Scored[score]

FinishScores(o) ==
    /\ pc[o] = "scores"
    /\ report' = [report EXCEPT ![o] = [players  |-> ScoredPlayers,
                                        visitors |-> @.visitors \ ScoredPlayers]]
    /\ Goto(o, "bill")
    /\ UNCHANGED <<now, database, cache, queue, comp, at, upload, due, late, history>>

\* Mutant: a report of nobody is not worth a row.
FinishSkipsEmpty(o) ==
    /\ pc[o] = "bill"
    /\ billing' = IF billing = None /\ report[o] # NoReport THEN report[o] ELSE billing
    /\ Return(o)
    /\ UNCHANGED <<now, row, score, visits, cache, queue, history>>

\* INSERT INTO billing: the primary key lets only the first one in, a second
\* one is answered 500.
FinishBill(o) ==
    /\ pc[o] = "bill"
    /\ billing' = IF billing = None THEN report[o] ELSE billing
    /\ Return(o)
    /\ UNCHANGED <<now, row, score, visits, cache, queue, history>>

\* A SELECT of the report or the INSERT fails: 500, with the competition
\* finished and not billed.  It can be finished again.
FinishFails(o) ==
    /\ pc[o] \in {"visits", "scores", "bill"}
    /\ faults < MaxFaults
    /\ faults' = faults + 1
    /\ interrupted' = TRUE
    /\ Return(o)
    /\ UNCHANGED <<now, database, cache, queue, answered, lost, crossings,
                   restarts>>

-----------------------------------------------------------------------------
\* The goroutine of visitHistoryExec.

PlayersIn(vs) == {vs[i].player : i \in 1 .. Len(vs)}

FirstIn(vs, p) ==
    vs[CHOOSE i \in 1 .. Len(vs) :
           vs[i].player = p /\ \A j \in 1 .. i - 1 : vs[j].player # p].at

\* INSERT IGNORE: the first row of a player stays.
InsertVisits ==
    /\ Queue!Exec
    /\ visits' = [p \in Players |->
                     IF visits[p] = 0 /\ p \in PlayersIn(batch)
                     THEN FirstIn(batch, p) ELSE visits[p]]
    /\ UNCHANGED <<now, row, score, billing, cache, locals, history>>

\* The INSERT fails: the error is logged, the batch is gone, and the channels
\* are signalled all the same.
InsertFails ==
    /\ faults < MaxFaults
    /\ Queue!Exec
    /\ lost' = lost \cup PlayersIn(batch)
    /\ faults' = faults + 1
    /\ UNCHANGED <<now, database, cache, locals, answered, interrupted,
                   crossings, restarts>>

QueueStep ==
    /\ Queue!Get \/ Queue!Signal \/ Queue!EndRound \/ Queue!Tick
    /\ UNCHANGED <<now, database, cache, locals, history>>

-----------------------------------------------------------------------------
ClockTick ==
    /\ now < MaxTime
    /\ now' = now + 1
    /\ UNCHANGED <<database, cache, queue, locals, history>>

\* The process ends and is started again: the databases are what is left.
Restart ==
    /\ restarts < MaxRestarts
    /\ restarts' = restarts + 1
    /\ lost' = lost \cup PlayersIn(data) \cup PlayersIn(batch)
    /\ interrupted' = (interrupted \/ \E o \in Organizers : pc[o] \in Finishing)
    /\ crossed' = FALSE
    /\ overlapped' = (overlapped \/ crossed)
    /\ cache' = None
    /\ data' = <<>> /\ waited' = <<>> /\ exec' = "get"
    /\ batch' = <<>> /\ signals' = <<>>
    /\ chan' = [o \in Organizers |-> "none"]
    /\ pc' = [r \in Requests |-> "idle"]
    /\ comp' = [r \in Requests |-> None]
    /\ at' = [r \in Requests |-> 0]
    /\ upload' = [r \in Requests |-> None]
    /\ report' = [r \in Requests |-> NoReport]
    /\ due' = [r \in Requests |-> {}]
    /\ late' = {}
    /\ UNCHANGED <<now, database, answered, faults>>

\* What a request in progress does next.
ViewerStep(v) == RankingNow(v) \/ RankingEnds(v) \/ RankingVisit(v)

OrganizerStep(o) ==
    \/ CacheAdded(o)
    \/ ScoreCheck(o) \/ ScoreAbort(o) \/ ScoreCommit(o)
    \/ FinishNow(o) \/ FinishWait(o) \/ FinishUpdate(o) \/ FinishCache(o)
    \/ FinishReceive(o) \/ FinishVisits(o) \/ FinishScores(o) \/ FinishBill(o)
    \/ FinishUpdateFails(o) \/ ChannelAbandoned(o) \/ FinishFails(o)

Progress(r) ==
    \/ Select(r) \/ Fill(r)
    \/ r \in Viewers /\ ViewerStep(r)
    \/ r \in Organizers /\ OrganizerStep(r)

Arrival ==
    \/ \E v \in Viewers : RankingRequest(v)
    \/ \E o \in Organizers : CompetitionsAdd(o) \/ FinishRequest(o)
    \/ \E o \in Organizers, u \in Uploads : ScoreRequest(o, u)

Executor == InsertVisits \/ InsertFails \/ QueueStep

Next ==
    \/ Arrival
    \/ \E r \in Requests : Progress(r)
    \/ Executor
    \/ ClockTick
    \/ Restart

\* Requests in progress and the executor are scheduled again; nobody has to
\* send a request, the process need not restart, the INSERT need not fail.
Spec ==
    /\ Init
    /\ [][Next]_vars
    /\ \A r \in Requests : WF_vars(Progress(r))
    /\ WF_vars(Executor)

-----------------------------------------------------------------------------
\* Every player whose ranking request was answered before a finish request
\* arrived is in the report that request bills, unless a failed INSERT or a
\* restart dropped the visit.  This is what competitionFinishHandler waits
\* for: visits are answered before they are stored.
VisitsReported ==
    \A o \in Organizers :
        pc[o] = "bill" =>
            due[o] \ lost \subseteq report[o].players \cup report[o].visitors

\* An upload that arrives when a finish has set the cache is refused ("after the
\* end no new results can be submitted", specification.md), whatever other
\* organizers, players and restarts do, unless the finish crossed a request that
\* then set the cache back to the open competition.
LateUploadsRefused ==
    \A o \in late : pc[o] = "commit" => crossed

\* The players billed are those who have a score in the end: unless the finish
\* overlapped an upload, which the locks that are commented out would have made
\* wait, or crossed a fill of the cache.
BillingMatchesScores ==
    billing # None => billing.players = ScoredPlayers \/ overlapped \/ crossed

\* Once the competition is billed its scores do not change any more: "after
\* the end no new results can be submitted" (specification.md).
ScoresFrozen == [][billing # None => score' = score]_vars

\* A finished competition is billed, unless a finish is still at work on it or
\* an error or a restart has ended one on the way.
FinishedIsBilled ==
    row \notin {None, 0} /\ billing = None =>
        \/ interrupted
        \/ \E o \in Organizers : pc[o] \in Finishing

\* A finish request that has taken its time is answered: its channel is
\* signalled however many visits, faults and restarts there are.
FinishAnswered ==
    \A o \in Organizers : (pc[o] = "wait") ~> (pc[o] = "idle")

\* A visit that was answered reaches visit_history_2, or was dropped by a
\* failed INSERT or a restart.
VisitStored ==
    \A p \in Players : (p \in answered) ~> (visits[p] # 0 \/ p \in lost)
=============================================================================
