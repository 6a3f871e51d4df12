-------------------------- MODULE CompetitionProofs --------------------------
(***************************************************************************)
(* The visits a player was answered before a finish request arrived are in  *)
(* the report that request bills, for any players, requests and bounds.     *)
(*                                                                          *)
(* The argument follows a due visit: it is in the queue when the request    *)
(* takes its time, in the queue or the batch while the request's channel    *)
(* waits, at latest in the batch taken along with the channel, stored when  *)
(* the channel is signalled, and stored with a created_at that the report   *)
(* counts.  INSERT IGNORE keeps the first row, so the argument is about the *)
(* first visit of the player in the queue, not about any.                   *)
(*                                                                          *)
(* The end of the module is about uploads after a finish: once the finish   *)
(* has set competitionCache no upload gets past its check, so the scores    *)
(* billed stay as they are, unless it overlapped an upload or a fill.       *)
(***************************************************************************)
EXTENDS Competition, SequenceTheorems, WellFoundedInduction, TLAPS

\* What is known of the queue's operations, whatever the callers' histories.
QueueLemmas == INSTANCE LibraryProofs WITH
    Values <- Visit, Channels <- Organizers, round <- exec,
    Batches <- {}, MaxValues <- 0,
    accepted <- <<>>, executed <- <<>>, mark <- <<>>,
    \* The locks of that module are of no concern here.
    Threads <- {}, Keys <- {}, Mutexes <- {}, NoThread <- 0, NoMutex <- 0,
    mutexMap <- <<>>, key <- <<>>, mode <- <<>>, m <- <<>>,
    writer <- <<>>, readers <- <<>>, waiting <- <<>>

-----------------------------------------------------------------------------
\* p is in vs, and its first visit there is no later than t.
InTime(vs, p, t) ==
    \E i \in DOMAIN vs :
        /\ vs[i].player = p
        /\ \A j \in 1 .. i : vs[j].player = p => vs[j].at <= t

Stored(p, t) == visits[p] # 0 /\ visits[p] <= t

\* Stored once the batch, or all that is queued, has been inserted.
StoredAfterBatch(p, t) ==
    IF visits[p] # 0 THEN visits[p] <= t ELSE InTime(batch, p, t)

StoredAfterQueue(p, t) ==
    IF visits[p] # 0 THEN visits[p] <= t
    ELSE \/ InTime(batch, p, t)
         \/ p \notin PlayersIn(batch) /\ InTime(data, p, t)

\* What is due to a finish request.
Due(o) == due[o] \ lost

\* Nothing is dated later than now, and no visit is dated 0.
Dated ==
    /\ \A p \in Players : visits[p] <= now
    /\ \A i \in DOMAIN batch : batch[i].at \in 1 .. now
    /\ \A i \in DOMAIN data : data[i].at \in 1 .. now
    /\ \A v \in Viewers : pc[v] = "visit" => at[v] \in 1 .. now

AnsweredKept ==
    /\ \A p \in answered \ lost :
           visits[p] # 0 \/ p \in PlayersIn(batch) \cup PlayersIn(data)
    /\ \A r \in Requests : due[r] \subseteq answered

\* A request whose channel exists is between its Wait and its receive.
Waiting ==
    /\ \A o \in Organizers :
           chan[o] # "none" => pc[o] \in {"update", "abandon", "cache", "receive"}
    /\ \A o \in Organizers : pc[o] \in {"receive", "visits"} => comp[o] = at[o]

\* Where a due visit is, by where its request is.
OnTheWay ==
    /\ \A o \in Organizers : pc[o] = "wait" =>
           \A p \in Due(o) : StoredAfterQueue(p, at[o])
    /\ \A i \in DOMAIN waited :
           \A p \in Due(waited[i]) : StoredAfterQueue(p, at[waited[i]])
    /\ \A i \in DOMAIN signals :
           \A p \in Due(signals[i]) : StoredAfterBatch(p, at[signals[i]])
    /\ \A o \in Organizers : chan[o] = "full" \/ pc[o] = "visits" =>
           \A p \in Due(o) : Stored(p, at[o])

Reported ==
    \A o \in Organizers : pc[o] = "scores" => Due(o) \subseteq report[o].visitors

VisitsInv ==
    /\ TypeOK
    /\ QueueLemmas!QueueOK
    /\ Dated
    /\ AnsweredKept
    /\ Waiting
    /\ OnTheWay
    /\ Reported
    /\ VisitsReported

-----------------------------------------------------------------------------
\* Type correctness, one step per action.

USE ConstantsAssumption DEF Requests

LEMMA LookupType ==
  ASSUME TypeOK, NEW r \in Requests, Lookup(r)
  PROVE  /\ pc' \in [Requests -> Steps]
         /\ comp' \in [Requests -> {None} \cup Nat]
  BY DEF TypeOK, Lookup, Goto, Steps

LEMMA ReturnType ==
  ASSUME TypeOK, NEW r \in Requests, Return(r)
  PROVE  /\ pc' \in [Requests -> Steps]
         /\ comp' \in [Requests -> {None} \cup Nat]
         /\ at' \in [Requests -> Nat]
         /\ upload' \in [Requests -> {None} \cup Uploads]
         /\ report' \in [Requests -> Report]
         /\ due' \in [Requests -> SUBSET Players]
         /\ late' \subseteq Organizers
  BY DEF TypeOK, Return, Goto, Steps, Report, NoReport

\* The queue's types are kept by a step that leaves the queue alone.
LEMMA QueueTypeUnchanged ==
  Queue!QueueTypeOK /\ UNCHANGED queue => Queue!QueueTypeOK'
  BY DEF Queue!QueueTypeOK, queue

LEMMA TypeProgress ==
  ASSUME TypeOK, NEW r \in Requests, Progress(r)
  PROVE  TypeOK'
<1> USE DEF TypeOK, Goto, Steps, database, queue, crossings, history
<1>1. CASE Select(r)
  BY <1>1, ReturnType, QueueTypeUnchanged DEF Select
<1>2. CASE Fill(r)
  BY <1>2, QueueTypeUnchanged DEF Fill
<1>3. ASSUME r \in Viewers, RankingNow(r) \/ RankingEnds(r)
      PROVE  TypeOK'
  BY <1>3, ReturnType, QueueTypeUnchanged DEF RankingNow, RankingEnds
<1>4. ASSUME r \in Viewers, RankingVisit(r)
      PROVE  TypeOK'
  <2> DEFINE visit == [player |-> PlayerOf[r], at |-> at[r]]
  <2>1. visit \in Visit /\ PlayerOf[r] \in Players
    BY <1>4 DEF Visit
  <2> HIDE DEF visit
  <2>2. data \o <<visit>> \in Seq(Visit)
    BY <2>1 DEF Queue!QueueTypeOK
  <2>3. Queue!Set(<<visit>>)
    BY <1>4 DEF RankingVisit, visit
  <2>4. Queue!QueueTypeOK'
    BY <2>2, <2>3 DEF Queue!QueueTypeOK, Queue!Set
  <2> QED
    BY <1>4, <2>1, <2>4, ReturnType DEF RankingVisit
<1>5. ASSUME r \in Organizers, CacheAdded(r)
      PROVE  TypeOK'
  BY <1>5, ReturnType, QueueTypeUnchanged DEF CacheAdded
<1>6. ASSUME r \in Organizers, ScoreCheck(r)
      PROVE  TypeOK'
  BY <1>6, ReturnType, QueueTypeUnchanged DEF ScoreCheck
<1>7. ASSUME r \in Organizers, ScoreAbort(r) \/ ScoreCommit(r)
      PROVE  TypeOK'
  BY <1>7, ReturnType, QueueTypeUnchanged DEF ScoreAbort, ScoreCommit
<1>8. ASSUME r \in Organizers, FinishNow(r)
      PROVE  TypeOK'
  BY <1>8, QueueTypeUnchanged DEF FinishNow
<1>9. ASSUME r \in Organizers, FinishWait(r)
      PROVE  TypeOK'
  BY <1>9 DEF FinishWait, Queue!Wait, Queue!QueueTypeOK
<1>10. ASSUME r \in Organizers, FinishUpdate(r) \/ FinishCache(r)
       PROVE  TypeOK'
  <2>1. CASE FinishUpdate(r)
    BY <2>1, QueueTypeUnchanged DEF FinishUpdate
  <2>2. CASE FinishCache(r)
    <3>1. crossed' \in BOOLEAN /\ overlapped' \in BOOLEAN
      BY <2>2, Zenon DEF FinishCache, Cross
    <3> QED
      BY <2>2, <3>1, <1>10, QueueTypeUnchanged DEF FinishCache
  <2> QED
    BY <1>10, <2>1, <2>2
<1>11. ASSUME r \in Organizers, FinishReceive(r)
       PROVE  TypeOK'
  BY <1>11 DEF FinishReceive, Queue!Receive, Queue!QueueTypeOK
<1>12. ASSUME r \in Organizers, FinishVisits(r)
       PROVE  TypeOK'
  BY <1>12, QueueTypeUnchanged DEF FinishVisits, Report, VisitorsUntil
<1>13. ASSUME r \in Organizers, FinishScores(r)
       PROVE  TypeOK'
  <2>1. ScoredPlayers \subseteq Players
    BY DEF ScoredPlayers
  <2> QED
    BY <1>13, <2>1, QueueTypeUnchanged DEF FinishScores, Report
<1>14. ASSUME r \in Organizers, FinishBill(r)
       PROVE  TypeOK'
  BY <1>14, ReturnType, QueueTypeUnchanged DEF FinishBill
<1>15. ASSUME r \in Organizers, FinishUpdateFails(r)
       PROVE  TypeOK'
  BY <1>15, QueueTypeUnchanged DEF FinishUpdateFails
<1>16. ASSUME r \in Organizers, ChannelAbandoned(r)
       PROVE  TypeOK'
  <2>1. Queue!QueueTypeOK'
    BY <1>16 DEF ChannelAbandoned, Queue!Receive, Queue!QueueTypeOK
  <2> QED
    BY <1>16, <2>1, ReturnType DEF ChannelAbandoned
<1>17. ASSUME r \in Organizers, FinishFails(r)
       PROVE  TypeOK'
  BY <1>17, ReturnType, QueueTypeUnchanged DEF FinishFails
<1> QED
  BY <1>1, <1>2, <1>3, <1>4, <1>5, <1>6, <1>7, <1>8, <1>9, <1>10, <1>11, <1>12,
     <1>13, <1>14, <1>15, <1>16, <1>17 DEF Progress, ViewerStep, OrganizerStep

LEMMA TypeArrival ==
  ASSUME TypeOK, Arrival
  PROVE  TypeOK'
<1> USE DEF TypeOK, Goto, Steps, database, queue, crossings, history
<1>1. ASSUME NEW v \in Viewers, RankingRequest(v)
      PROVE  TypeOK'
  BY <1>1, LookupType, QueueTypeUnchanged DEF RankingRequest
<1>2. ASSUME NEW o \in Organizers, CompetitionsAdd(o)
      PROVE  TypeOK'
  BY <1>2, QueueTypeUnchanged DEF CompetitionsAdd
<1>3. ASSUME NEW o \in Organizers, FinishRequest(o)
      PROVE  TypeOK'
  BY <1>3, LookupType, QueueTypeUnchanged DEF FinishRequest
<1>4. ASSUME NEW o \in Organizers, NEW u \in Uploads, ScoreRequest(o, u)
      PROVE  TypeOK'
  BY <1>4, LookupType, QueueTypeUnchanged DEF ScoreRequest
<1> QED
  BY <1>1, <1>2, <1>3, <1>4 DEF Arrival

\* A least element of a set of naturals, for the first visit in a batch.
LEMMA LeastNat ==
  ASSUME NEW T \in SUBSET Nat, T # {}
  PROVE  \E x \in T : \A y \in T : x <= y
<1>1. PICK x \in T : \A y \in T : ~ (<<y, x>> \in OpToRel(<, Nat))
  BY NatLessThanWellFounded, WFMin, ZenonT(20)
<1>2. \A y \in T : ~ (y < x)
  BY <1>1 DEF OpToRel
<1> QED
  BY <1>2

LEMMA PlayersInType ==
  \A vs \in Seq(Visit) : PlayersIn(vs) \subseteq Players
<1> TAKE vs \in Seq(Visit)
<1>1. \A i \in 1 .. Len(vs) : vs[i] \in Visit
  OBVIOUS
<1> QED
  BY <1>1 DEF PlayersIn, Visit

\* What INSERT IGNORE stores for a player of the batch: one of the player's
\* visits, and none earlier in the batch is the player's.
LEMMA FirstInBatch ==
  ASSUME NEW vs \in Seq(Visit), NEW p \in PlayersIn(vs)
  PROVE  \E i \in DOMAIN vs :
            /\ FirstIn(vs, p) = vs[i].at
            /\ vs[i].player = p
            /\ \A j \in 1 .. i - 1 : vs[j].player # p
<1> DEFINE T == {i \in 1 .. Len(vs) : vs[i].player = p}
           First(i) == vs[i].player = p /\ \A j \in 1 .. i - 1 : vs[j].player # p
<1>1. T \in SUBSET Nat /\ T # {}
  BY DEF PlayersIn
<1>2. PICK k \in T : \A y \in T : k <= y
  BY <1>1, LeastNat
<1>3. k \in 1 .. Len(vs) /\ First(k)
  BY <1>2
<1> DEFINE m == CHOOSE i \in 1 .. Len(vs) : First(i)
<1>4. m \in 1 .. Len(vs) /\ First(m)
  BY <1>3
<1>5. FirstIn(vs, p) = vs[m].at
  BY DEF FirstIn
<1> HIDE DEF m
<1> QED
  BY <1>4, <1>5

LEMMA InsertedVisits ==
  ASSUME TypeOK, InsertVisits
  PROVE  visits' \in [Players -> Nat]
<1>1. batch \in Seq(Visit)
  BY DEF TypeOK, Queue!QueueTypeOK
<1>2. ASSUME NEW p \in PlayersIn(batch)
      PROVE  FirstIn(batch, p) \in Nat
  <2>1. PICK i \in DOMAIN batch : FirstIn(batch, p) = batch[i].at
    BY <1>1, <1>2, FirstInBatch
  <2>2. batch[i] \in Visit
    BY <1>1
  <2> QED
    BY <2>1, <2>2 DEF Visit
<1> QED
  BY <1>2 DEF InsertVisits, TypeOK

LEMMA TypeExecutor ==
  ASSUME TypeOK, Executor
  PROVE  TypeOK'
<1> USE DEF TypeOK, database, locals, crossings, history
<1>1. CASE InsertVisits
  BY <1>1, InsertedVisits, SMTT(30) DEF InsertVisits, Queue!Exec, Queue!QueueTypeOK
<1>2. CASE InsertFails
  <2>1. PlayersIn(batch) \subseteq Players
    BY PlayersInType DEF Queue!QueueTypeOK
  <2> QED
    BY <1>2, <2>1 DEF InsertFails, Queue!Exec, Queue!QueueTypeOK
<1>3. CASE QueueStep
  <2> USE DEF Queue!QueueTypeOK
  <2>1. CASE Queue!Get
    BY <2>1, <1>3 DEF Queue!Get, QueueStep
  <2>2. CASE Queue!Signal
    <3>1. signals' \in Seq(Organizers)
      BY <2>2, HeadTailProperties DEF Queue!Signal
    <3> QED
      BY <2>2, <1>3, <3>1 DEF Queue!Signal, QueueStep
  <2>3. CASE Queue!EndRound \/ Queue!Tick
    BY <2>3, <1>3 DEF Queue!EndRound, Queue!Tick, QueueStep
  <2>4. Queue!QueueTypeOK'
    BY <2>1, <2>2, <2>3, <1>3 DEF QueueStep
  <2> QED
    BY <1>3, <2>4 DEF QueueStep
<1> QED
  BY <1>1, <1>2, <1>3 DEF Executor

LEMMA TypeNext == TypeOK /\ [Next]_vars => TypeOK'
<1> SUFFICES ASSUME TypeOK, [Next]_vars
             PROVE  TypeOK'
  OBVIOUS
<1>1. CASE Arrival
  BY <1>1, TypeArrival
<1>2. ASSUME NEW r \in Requests, Progress(r)
      PROVE  TypeOK'
  BY <1>2, TypeProgress
<1>3. CASE Executor
  BY <1>3, TypeExecutor
<1>4. CASE ClockTick
  BY <1>4, QueueTypeUnchanged DEF ClockTick, TypeOK, database, locals, crossings, history
<1>5. CASE Restart
  <2>1. PlayersIn(batch) \subseteq Players /\ PlayersIn(data) \subseteq Players
    BY PlayersInType DEF TypeOK, Queue!QueueTypeOK
  <2>2. interrupted' \in BOOLEAN /\ crossed' \in BOOLEAN /\ overlapped' \in BOOLEAN
    BY <1>5, Zenon DEF Restart
  <2> QED
    BY <1>5, <2>1, <2>2 DEF Restart, TypeOK, Queue!QueueTypeOK, Steps, Report, NoReport, database
<1>6. CASE UNCHANGED vars
  BY <1>6, QueueTypeUnchanged DEF vars, TypeOK, database, locals, crossings, history
<1> QED
  BY <1>1, <1>2, <1>3, <1>4, <1>5, <1>6 DEF Next

LEMMA TypeInit == Init => TypeOK
<1> SUFFICES ASSUME Init
             PROVE  TypeOK
  OBVIOUS
<1>1. interrupted \in BOOLEAN /\ crossed \in BOOLEAN /\ overlapped \in BOOLEAN
  BY Zenon DEF Init
<1> QED
  BY <1>1 DEF Init, InitLocals, Queue!New, TypeOK, Queue!QueueTypeOK, Steps, Report, NoReport

\* Every variable keeps its type, and visitHistoryExec never runs its INSERT
\* with no visits.
THEOREM TypeCorrect == Spec => []TypeOK
  BY TypeInit, TypeNext, PTL DEF Spec

-----------------------------------------------------------------------------
\* The due visits, one step per action.

Early == {"idle", "added", "select", "fill", "retrieved", "commit"}

\* Most steps change nothing the argument is about: one request, which has no
\* channel, moves to a step before it takes its time, or returns.
LEMMA QuietStep ==
  ASSUME VisitsInv, TypeOK', NEW r \in Requests,
         UNCHANGED <<now, visits, queue, answered, lost>>,
         pc[r] \notin {"update", "abandon", "cache", "receive"},
         pc'[r] \in Early,
         due'[r] \subseteq answered,
         \A s \in Requests \ {r} :
             /\ pc'[s] = pc[s]
             /\ comp'[s] = comp[s]
             /\ at'[s] = at[s]
             /\ due'[s] = due[s]
             /\ report'[s] = report[s]
  PROVE  VisitsInv'
<1> USE DEF VisitsInv
<1>1. \A c \in Organizers : chan[c] # "none" => c # r
  BY DEF Waiting
<1>2. /\ \A i \in DOMAIN waited : waited[i] \in Organizers /\ waited[i] # r
      /\ \A i \in DOMAIN signals : signals[i] \in Organizers /\ signals[i] # r
  <2>1. \A i \in DOMAIN waited : waited[i] \in Organizers
    BY DEF TypeOK, Queue!QueueTypeOK
  <2>2. \A i \in DOMAIN signals : signals[i] \in Organizers
    BY DEF TypeOK, Queue!QueueTypeOK
  <2> QED
    BY <1>1, <2>1, <2>2 DEF QueueLemmas!QueueOK, QueueLemmas!ChannelsApart
<1>3. QueueLemmas!QueueOK'
  BY QueueLemmas!UnchangedOK DEF queue, QueueLemmas!queueVars
<1>4. Dated'
  BY DEF Dated, Early, queue
<1>5. AnsweredKept'
  BY DEF AnsweredKept, queue
<1>6. Waiting'
  BY <1>1 DEF Waiting, Early, queue
<1>7. OnTheWay'
  <2>1. \A s \in Organizers : s # r => Due(s)' = Due(s) /\ at'[s] = at[s] /\ pc'[s] = pc[s]
    BY DEF Due
  <2>2. \A p, t : /\ StoredAfterQueue(p, t)' <=> StoredAfterQueue(p, t)
                  /\ StoredAfterBatch(p, t)' <=> StoredAfterBatch(p, t)
                  /\ Stored(p, t)' <=> Stored(p, t)
    BY DEF StoredAfterQueue, StoredAfterBatch, Stored, queue
  <2>3. UNCHANGED <<waited, signals, chan>>
    BY DEF queue
  <2> QED
    BY <1>1, <1>2, <2>1, <2>2, <2>3 DEF OnTheWay, Early
<1>8. Reported' /\ VisitsReported'
  BY DEF Reported, VisitsReported, Due, Early
<1> QED
  BY <1>3, <1>4, <1>5, <1>6, <1>7, <1>8

LEMMA QuietProgress ==
  ASSUME VisitsInv, TypeOK', NEW r \in Requests,
         \/ Select(r) \/ Fill(r)
         \/ r \in Viewers /\ RankingEnds(r)
         \/ r \in Organizers /\ (\/ CacheAdded(r) \/ ScoreCheck(r) \/ ScoreAbort(r)
                                 \/ ScoreCommit(r) \/ FinishBill(r) \/ FinishFails(r))
  PROVE  VisitsInv'
<1>1. UNCHANGED <<now, visits, queue, answered, lost>>
  BY DEF Select, Fill, RankingEnds, CacheAdded, ScoreCheck, ScoreAbort, ScoreCommit,
         FinishBill, FinishFails, database, history
<1>2. pc[r] \in {"added", "select", "fill", "retrieved", "commit", "visits", "scores", "bill"}
  BY DEF Select, Fill, RankingEnds, CacheAdded, ScoreCheck, ScoreAbort, ScoreCommit, FinishBill,
         FinishFails
<1>3. /\ pc'[r] \in Early
      /\ due'[r] = {} \/ due'[r] = due[r]
      /\ \A s \in Requests \ {r} :
             /\ pc'[s] = pc[s]
             /\ comp'[s] = comp[s]
             /\ at'[s] = at[s]
             /\ due'[s] = due[s]
             /\ report'[s] = report[s]
  BY DEF VisitsInv, TypeOK, Early, Return, Goto, Select, Fill, RankingEnds, CacheAdded,
         ScoreCheck, ScoreAbort, ScoreCommit, FinishBill, FinishFails
<1>4. due'[r] \subseteq answered
  BY <1>3 DEF VisitsInv, AnsweredKept
<1> QED
  BY <1>1, <1>2, <1>3, <1>4, QuietStep

LEMMA QuietArrival ==
  ASSUME VisitsInv, TypeOK', Arrival
  PROVE  VisitsInv'
<1> USE DEF VisitsInv, TypeOK, Lookup, Goto, Early, database, history
<1>1. ASSUME NEW v \in Viewers, RankingRequest(v)
      PROVE  VisitsInv'
  <2>1. due'[v] \subseteq answered
    BY <1>1 DEF RankingRequest, AnsweredKept
  <2> QED
    BY <1>1, <2>1, QuietStep DEF RankingRequest
<1>2. ASSUME NEW o \in Organizers, CompetitionsAdd(o)
      PROVE  VisitsInv'
  <2>1. due'[o] \subseteq answered
    BY <1>2 DEF CompetitionsAdd, AnsweredKept
  <2> QED
    BY <1>2, <2>1, QuietStep DEF CompetitionsAdd
<1>3. ASSUME NEW o \in Organizers, FinishRequest(o)
      PROVE  VisitsInv'
  BY <1>3, QuietStep DEF FinishRequest
<1>4. ASSUME NEW o \in Organizers, NEW u \in Uploads, ScoreRequest(o, u)
      PROVE  VisitsInv'
  <2>1. due'[o] \subseteq answered
    BY <1>4 DEF ScoreRequest, AnsweredKept
  <2> QED
    BY <1>4, <2>1, QuietStep DEF ScoreRequest
<1> QED
  BY <1>1, <1>2, <1>3, <1>4 DEF Arrival

\* What the queue holds is kept by every step that does not touch it.
LEMMA QueueUnchanged ==
  ASSUME UNCHANGED <<visits, queue>>
  PROVE  \A p, t : /\ StoredAfterQueue(p, t)' <=> StoredAfterQueue(p, t)
                   /\ StoredAfterBatch(p, t)' <=> StoredAfterBatch(p, t)
                   /\ Stored(p, t)' <=> Stored(p, t)
  BY DEF StoredAfterQueue, StoredAfterBatch, Stored, queue

\* A channel still queued or taken belongs to a request that waits for it.
LEMMA ChannelOwners ==
  ASSUME VisitsInv
  PROVE  /\ \A i \in DOMAIN waited : /\ waited[i] \in Organizers
                                     /\ chan[waited[i]] = "empty"
                                     /\ pc[waited[i]] \in {"update", "abandon", "cache", "receive"}
         /\ \A i \in DOMAIN signals : /\ signals[i] \in Organizers
                                      /\ chan[signals[i]] = "empty"
                                      /\ pc[signals[i]] \in {"update", "abandon", "cache", "receive"}
<1>1. /\ \A i \in DOMAIN waited : waited[i] \in Organizers
      /\ \A i \in DOMAIN signals : signals[i] \in Organizers
  BY DEF VisitsInv, TypeOK, Queue!QueueTypeOK
<1>2. /\ \A i \in DOMAIN waited : chan[waited[i]] = "empty"
      /\ \A i \in DOMAIN signals : chan[signals[i]] = "empty"
  BY DEF VisitsInv, QueueLemmas!QueueOK, QueueLemmas!ChannelsApart
<1> QED
  BY <1>1, <1>2 DEF VisitsInv, Waiting

\* A ranking request takes its time: only its date is new.
LEMMA TakeVisitTime ==
  ASSUME VisitsInv, TypeOK', NEW v \in Viewers, RankingNow(v)
  PROVE  VisitsInv'
<1> USE DEF VisitsInv, RankingNow, Goto, history
<1>1. v \notin Organizers /\ pc' = [pc EXCEPT ![v] = "visit"] /\ at' = [at EXCEPT ![v] = now]
  OBVIOUS
<1>2. QueueLemmas!QueueOK'
  BY QueueLemmas!UnchangedOK DEF queue, QueueLemmas!queueVars
<1>3. Dated'
  BY <1>1 DEF Dated, queue, database, TypeOK
<1>4. AnsweredKept' /\ Waiting' /\ Reported' /\ VisitsReported'
  BY <1>1 DEF AnsweredKept, Waiting, Reported, VisitsReported, Due, queue, database, TypeOK
<1>5. OnTheWay'
  <2>1. UNCHANGED <<visits, queue, lost, due>>
    BY DEF database
  <2>2. \A o \in Organizers : at'[o] = at[o] /\ pc'[o] = pc[o] /\ Due(o)' = Due(o)
    BY <1>1, <2>1 DEF Due, TypeOK
  <2> QED
    BY <2>1, <2>2, QueueUnchanged, ChannelOwners DEF OnTheWay, queue
<1> QED
  BY <1>2, <1>3, <1>4, <1>5

\* A visit enters the queue, behind those that are due.
LEMMA QueueVisit ==
  ASSUME VisitsInv, TypeOK', NEW v \in Viewers, RankingVisit(v)
  PROVE  VisitsInv'
<1> DEFINE x == [player |-> PlayerOf[v], at |-> at[v]]
<1>1. x \in Visit /\ x.player = PlayerOf[v] /\ x.at \in 1 .. now
  BY DEF VisitsInv, Dated, RankingVisit, TypeOK, Visit
<1>2. /\ Queue!Set(<<x>>)
      /\ UNCHANGED <<now, visits, lost, batch, signals, waited, chan>>
      /\ answered' = answered \cup {x.player}
      /\ data' = data \o <<x>>
  BY DEF RankingVisit, Queue!Set, database
<1>3. /\ \A o \in Organizers : /\ pc'[o] = pc[o] /\ comp'[o] = comp[o] /\ at'[o] = at[o]
                               /\ due'[o] = due[o] /\ report'[o] = report[o]
      /\ \A r \in Requests : due'[r] \subseteq due[r]
      /\ \A w \in Viewers : pc'[w] = "visit" => pc[w] = "visit" /\ at'[w] = at[w]
  BY DEF RankingVisit, Return, Goto, VisitsInv, TypeOK
<1> HIDE DEF x
<1>4. data \in Seq(Visit) /\ <<x>> \in Seq(Visit)
  BY <1>1 DEF VisitsInv, TypeOK, Queue!QueueTypeOK
<1>5. /\ Len(data') = Len(data) + 1
      /\ data'[Len(data) + 1] = x
      /\ \A i \in 1 .. Len(data) : data'[i] = data[i]
      /\ DOMAIN data' = 1 .. Len(data) + 1
      /\ DOMAIN data = 1 .. Len(data) /\ Len(data) \in Nat
  BY <1>2, <1>4
<1>6. QueueLemmas!QueueOK'
  BY <1>2, <1>4, QueueLemmas!SetOK DEF VisitsInv, Queue!Set, QueueLemmas!Set
<1>7. Dated'
  <2>1. \A i \in 1 .. Len(data) : data[i].at \in 1 .. now
    BY <1>5 DEF VisitsInv, Dated
  <2>2. ASSUME NEW i \in DOMAIN data'
        PROVE  data'[i].at \in 1 .. now
    <3>1. CASE i = Len(data) + 1
      BY <1>1, <1>5, <3>1
    <3>2. CASE i \in 1 .. Len(data)
      BY <1>5, <2>1, <3>2
    <3> QED
      BY <1>5, <2>2, <3>1, <3>2
  <2> QED
    BY <1>2, <1>3, <2>2 DEF VisitsInv, Dated
<1>8. AnsweredKept'
  <2>1. PlayersIn(data)' = PlayersIn(data) \cup {x.player} /\ PlayersIn(batch)' = PlayersIn(batch)
    BY <1>2, <1>5, SMTT(30) DEF PlayersIn
  <2> QED
    BY <1>2, <1>3, <2>1 DEF VisitsInv, AnsweredKept
<1>9. Waiting' /\ Reported' /\ VisitsReported'
  BY <1>2, <1>3 DEF VisitsInv, Waiting, Reported, VisitsReported, Due
<1>10. OnTheWay'
  <2>1. \A p, t : InTime(data, p, t) => InTime(data', p, t)
    BY <1>5, SMTT(30) DEF InTime
  <2>2. \A p, t : /\ StoredAfterQueue(p, t) => StoredAfterQueue(p, t)'
                  /\ StoredAfterBatch(p, t)' <=> StoredAfterBatch(p, t)
                  /\ Stored(p, t)' <=> Stored(p, t)
    BY <1>2, <2>1 DEF StoredAfterQueue, StoredAfterBatch, Stored
  <2>3. \A o \in Organizers : Due(o)' = Due(o)
    BY <1>2, <1>3 DEF Due
  <2> QED
    BY <1>2, <1>3, <2>2, <2>3, ChannelOwners, SMTT(30) DEF VisitsInv, OnTheWay
<1> QED
  BY <1>6, <1>7, <1>8, <1>9, <1>10 DEF VisitsInv

LEMMA AllInTime ==
  ASSUME NEW vs \in Seq(Visit), NEW t \in Nat, \A i \in DOMAIN vs : vs[i].at \in 1 .. t,
         NEW p \in PlayersIn(vs)
  PROVE  InTime(vs, p, t)
<1>1. PICK i \in 1 .. Len(vs) : vs[i].player = p
  BY DEF PlayersIn
<1>2. \A j \in 1 .. i : j \in DOMAIN vs
  BY <1>1
<1>3. \A j \in 1 .. i : vs[j].at <= t
  BY <1>2
<1> QED
  BY <1>1, <1>2, <1>3 DEF InTime

\* A finish request takes its time: what is due to it is dated no later.
LEMMA TakeFinishTime ==
  ASSUME VisitsInv, TypeOK', NEW o \in Organizers, FinishNow(o)
  PROVE  VisitsInv'
<1> USE DEF VisitsInv
<1>1. /\ UNCHANGED <<now, visits, data, waited, exec, batch, signals, chan, answered, lost>>
      /\ UNCHANGED <<comp, due, report, queue>>
      /\ pc[o] = "retrieved" /\ pc' = [pc EXCEPT ![o] = "wait"]
      /\ at' = [at EXCEPT ![o] = now]
  BY DEF FinishNow, Goto, database, queue, history
<1>2. QueueLemmas!QueueOK'
  BY <1>1, QueueLemmas!UnchangedOK DEF QueueLemmas!queueVars
<1>3. Dated' /\ AnsweredKept' /\ Waiting' /\ Reported' /\ VisitsReported'
  BY <1>1 DEF Dated, AnsweredKept, Waiting, Reported, VisitsReported, Due, TypeOK
<1>4. \A p \in Due(o) : StoredAfterQueue(p, now)
  <2> SUFFICES ASSUME NEW p \in Due(o)
               PROVE  StoredAfterQueue(p, now)
    OBVIOUS
  <2>1. p \in Players /\ p \in answered \ lost
    BY DEF Due, AnsweredKept, TypeOK
  <2>2. visits[p] # 0 \/ p \in PlayersIn(batch) \/ p \in PlayersIn(data)
    BY <2>1 DEF AnsweredKept
  <2>3. visits[p] <= now
    BY <2>1 DEF Dated
  <2>4. p \in PlayersIn(batch) => InTime(batch, p, now)
    BY AllInTime DEF Dated, TypeOK, Queue!QueueTypeOK
  <2>5. p \in PlayersIn(data) => InTime(data, p, now)
    BY AllInTime DEF Dated, TypeOK, Queue!QueueTypeOK
  <2> QED
    BY <2>2, <2>3, <2>4, <2>5 DEF StoredAfterQueue
<1>5. OnTheWay'
  <2>1. \A r \in Organizers : /\ r # o => pc'[r] = pc[r] /\ at'[r] = at[r]
                             /\ Due(r)' = Due(r)
    BY <1>1 DEF Due, TypeOK
  <2>2. pc'[o] = "wait" /\ at'[o] = now /\ chan[o] = "none"
    BY <1>1 DEF TypeOK, Waiting, Queue!QueueTypeOK
  <2> QED
    BY <1>1, <1>4, <2>1, <2>2, QueueUnchanged, ChannelOwners DEF OnTheWay
<1> QED
  BY <1>2, <1>3, <1>5

\* Its channel joins the queue the due visits are in.
LEMMA JoinQueue ==
  ASSUME VisitsInv, TypeOK', NEW o \in Organizers, FinishWait(o)
  PROVE  VisitsInv'
<1> USE DEF VisitsInv
<1>1. /\ UNCHANGED <<now, visits, data, exec, batch, signals, answered, lost>>
      /\ UNCHANGED <<comp, due, report, at>>
      /\ pc[o] = "wait" /\ pc' = [pc EXCEPT ![o] = "update"]
      /\ chan[o] = "none" /\ chan' = [chan EXCEPT ![o] = "empty"]
      /\ waited' = Append(waited, o)
  BY DEF FinishWait, Queue!Wait, Goto, database, history
<1>2. QueueLemmas!QueueOK'
  BY QueueLemmas!WaitOK DEF FinishWait, Queue!Wait, QueueLemmas!Wait
<1>3. Dated' /\ AnsweredKept' /\ Waiting' /\ Reported' /\ VisitsReported'
  <2>1. Dated'
    BY <1>1 DEF Dated, TypeOK
  <2>2. AnsweredKept'
    BY <1>1, SMTT(30) DEF AnsweredKept, PlayersIn
  <2>3. Waiting'
    BY <1>1 DEF Waiting, TypeOK, Queue!QueueTypeOK
  <2>4. Reported' /\ VisitsReported'
    BY <1>1 DEF Reported, VisitsReported, Due, TypeOK
  <2> QED
    BY <2>1, <2>2, <2>3, <2>4
<1>4. OnTheWay'
  <2>1. \A i \in DOMAIN waited' :
            waited'[i] = o \/ (i \in DOMAIN waited /\ waited'[i] = waited[i])
    <3>1. waited \in Seq(Organizers)
      BY DEF TypeOK, Queue!QueueTypeOK
    <3>2. waited' = Append(waited, o)
      BY <1>1
    <3> QED
      BY ONLY <3>1, <3>2, o \in Organizers
  <2>2. \A r : Due(r)' = Due(r)
    BY <1>1 DEF Due
  <2>3. \A p, t : /\ StoredAfterQueue(p, t)' <=> StoredAfterQueue(p, t)
                  /\ StoredAfterBatch(p, t)' <=> StoredAfterBatch(p, t)
                  /\ Stored(p, t)' <=> Stored(p, t)
    BY <1>1 DEF StoredAfterQueue, StoredAfterBatch, Stored
  <2>4. \A r \in Organizers : chan'[r] = "full" \/ pc'[r] \in {"wait", "visits"} =>
                              chan'[r] = chan[r] /\ pc'[r] = pc[r]
    BY <1>1 DEF TypeOK, Queue!QueueTypeOK
  <2>5. \A p \in Due(o) : StoredAfterQueue(p, at[o])
    BY <1>1 DEF OnTheWay
  <2> QED
    BY <1>1, <2>1, <2>2, <2>3, <2>4, <2>5 DEF OnTheWay
<1> QED
  BY <1>2, <1>3, <1>4

\* The UPDATE, done or failed, and the cache: nothing due moves.
LEMMA UpdateRow ==
  ASSUME VisitsInv, TypeOK', NEW o \in Organizers,
         FinishUpdate(o) \/ FinishUpdateFails(o) \/ FinishCache(o)
  PROVE  VisitsInv'
<1> USE DEF VisitsInv
<1>1. /\ UNCHANGED <<now, visits, data, waited, exec, batch, signals, chan, answered, lost>>
      /\ UNCHANGED <<due, report, at, queue>>
      /\ \/ /\ pc[o] = "update" /\ comp' = comp
            /\ pc' = [pc EXCEPT ![o] = "cache"] \/ pc' = [pc EXCEPT ![o] = "abandon"]
         \/ /\ pc[o] = "cache" /\ pc' = [pc EXCEPT ![o] = "receive"]
            /\ comp' = [comp EXCEPT ![o] = at[o]]
  BY DEF FinishUpdate, FinishUpdateFails, FinishCache, Goto, database, queue, history
<1>2. QueueLemmas!QueueOK'
  BY <1>1, QueueLemmas!UnchangedOK DEF QueueLemmas!queueVars
<1>3. Dated' /\ AnsweredKept' /\ Waiting' /\ Reported' /\ VisitsReported'
  <2>1. Dated'
    BY <1>1 DEF Dated, TypeOK
  <2>2. AnsweredKept'
    BY <1>1 DEF AnsweredKept, PlayersIn
  <2>3. Waiting'
    BY <1>1 DEF Waiting, TypeOK
  <2>4. Reported' /\ VisitsReported'
    BY <1>1 DEF Reported, VisitsReported, Due, TypeOK
  <2> QED
    BY <2>1, <2>2, <2>3, <2>4
<1>4. OnTheWay'
  <2>1. \A r : Due(r)' = Due(r)
    BY <1>1 DEF Due
  <2>2. \A r \in Organizers : pc'[r] \in {"wait", "visits"} => pc'[r] = pc[r]
    BY <1>1 DEF TypeOK
  <2> QED
    BY <1>1, <2>1, <2>2, QueueUnchanged DEF OnTheWay
<1> QED
  BY <1>2, <1>3, <1>4

\* It receives: what is due is stored.
LEMMA LeaveQueue ==
  ASSUME VisitsInv, TypeOK', NEW o \in Organizers, FinishReceive(o)
  PROVE  VisitsInv'
<1> USE DEF VisitsInv
<1>1. /\ UNCHANGED <<now, visits, data, waited, exec, batch, signals, answered, lost>>
      /\ UNCHANGED <<comp, due, report, at>>
      /\ pc[o] = "receive" /\ pc' = [pc EXCEPT ![o] = "visits"]
      /\ chan[o] = "full" /\ chan' = [chan EXCEPT ![o] = "none"]
  BY DEF FinishReceive, Queue!Receive, Goto, database, history
<1>2. QueueLemmas!QueueOK'
  BY QueueLemmas!ReceiveOK DEF FinishReceive, Queue!Receive, QueueLemmas!Receive
<1>3. Dated' /\ AnsweredKept' /\ Waiting' /\ Reported' /\ VisitsReported'
  <2>1. Dated'
    BY <1>1 DEF Dated, TypeOK
  <2>2. AnsweredKept'
    BY <1>1 DEF AnsweredKept, PlayersIn
  <2>3. Waiting'
    BY <1>1 DEF Waiting, TypeOK, Queue!QueueTypeOK
  <2>4. Reported' /\ VisitsReported'
    BY <1>1 DEF Reported, VisitsReported, Due, TypeOK
  <2> QED
    BY <2>1, <2>2, <2>3, <2>4
<1>4. OnTheWay'
  <2>1. \A r : Due(r)' = Due(r)
    BY <1>1 DEF Due
  <2>2. \A p, t : /\ StoredAfterQueue(p, t)' <=> StoredAfterQueue(p, t)
                  /\ StoredAfterBatch(p, t)' <=> StoredAfterBatch(p, t)
                  /\ Stored(p, t)' <=> Stored(p, t)
    BY <1>1 DEF StoredAfterQueue, StoredAfterBatch, Stored
  <2>3. \A r \in Organizers :
            r # o => chan'[r] = chan[r] /\ pc'[r] = pc[r]
    BY <1>1 DEF TypeOK, Queue!QueueTypeOK
  <2>4. \A p \in Due(o) : Stored(p, at[o])
    BY <1>1 DEF OnTheWay
  <2>5. pc'[o] = "visits"
    BY <1>1 DEF TypeOK
  <2> QED
    BY <1>1, <2>1, <2>2, <2>3, <2>4, <2>5 DEF OnTheWay
<1> QED
  BY <1>2, <1>3, <1>4

\* The channel of a finish that has failed is signalled: nothing is due to it.
LEMMA AbandonQueue ==
  ASSUME VisitsInv, TypeOK', NEW o \in Organizers, ChannelAbandoned(o)
  PROVE  VisitsInv'
<1> USE DEF VisitsInv
<1>1. /\ UNCHANGED <<now, visits, data, waited, exec, batch, signals, answered, lost>>
      /\ chan' = [chan EXCEPT ![o] = "none"]
  BY DEF ChannelAbandoned, Queue!Receive, database, history
<1>2. /\ pc'[o] = "idle" /\ due'[o] = {} /\ chan'[o] = "none"
      /\ \A r \in Requests \ {o} :
             /\ pc'[r] = pc[r]
             /\ comp'[r] = comp[r]
             /\ at'[r] = at[r]
             /\ due'[r] = due[r]
             /\ report'[r] = report[r]
      /\ \A r \in Organizers \ {o} : chan'[r] = chan[r]
  BY DEF ChannelAbandoned, Queue!Receive, Return, Goto, TypeOK, Queue!QueueTypeOK
<1>3. chan[o] = "full"
  BY DEF ChannelAbandoned, Queue!Receive
<1>4. QueueLemmas!QueueOK'
  BY QueueLemmas!ReceiveOK DEF ChannelAbandoned, Queue!Receive, QueueLemmas!Receive
<1>5. Dated'
  BY <1>1, <1>2 DEF Dated
<1>6. AnsweredKept'
  BY <1>1, <1>2 DEF AnsweredKept, PlayersIn
<1>7. Waiting'
  BY <1>2 DEF Waiting
<1>8. Reported' /\ VisitsReported'
  BY <1>1, <1>2 DEF Reported, VisitsReported, Due
<1>9. OnTheWay'
  <2>1. \A r \in Organizers \ {o} : Due(r)' = Due(r)
    BY <1>1, <1>2 DEF Due
  <2>2. \A p, t : /\ StoredAfterQueue(p, t)' <=> StoredAfterQueue(p, t)
                  /\ StoredAfterBatch(p, t)' <=> StoredAfterBatch(p, t)
                  /\ Stored(p, t)' <=> Stored(p, t)
    BY <1>1 DEF StoredAfterQueue, StoredAfterBatch, Stored
  <2>3. /\ \A i \in DOMAIN waited : waited[i] \in Organizers \ {o}
        /\ \A i \in DOMAIN signals : signals[i] \in Organizers \ {o}
    BY <1>3, ChannelOwners
  <2> QED
    BY <1>1, <1>2, <2>1, <2>2, <2>3 DEF OnTheWay
<1> QED
  BY <1>4, <1>5, <1>6, <1>7, <1>8, <1>9

\* It reads the stored visits, then the scores: everyone due is in the report.
LEMMA ComputeReport ==
  ASSUME VisitsInv, TypeOK', NEW o \in Organizers, FinishVisits(o) \/ FinishScores(o)
  PROVE  VisitsInv'
<1> USE DEF VisitsInv
<1>1. /\ UNCHANGED <<now, visits, data, waited, exec, batch, signals, chan, answered, lost>>
      /\ UNCHANGED <<due, comp, at, queue>>
      /\ \/ /\ pc[o] = "visits" /\ pc' = [pc EXCEPT ![o] = "scores"]
            /\ report' = [report EXCEPT ![o].visitors = VisitorsUntil(comp[o])]
         \/ /\ pc[o] = "scores" /\ pc' = [pc EXCEPT ![o] = "bill"]
            /\ report' = [report EXCEPT ![o] = [players  |-> ScoredPlayers,
                                       visitors |-> @.visitors \ ScoredPlayers]]
  BY DEF FinishVisits, FinishScores, Goto, database, queue, history
<1>2. QueueLemmas!QueueOK'
  BY <1>1, QueueLemmas!UnchangedOK DEF QueueLemmas!queueVars
<1>3. Dated' /\ AnsweredKept' /\ Waiting'
  <2>1. Dated'
    BY <1>1 DEF Dated, TypeOK
  <2>2. AnsweredKept'
    BY <1>1 DEF AnsweredKept, PlayersIn
  <2>3. Waiting'
    BY <1>1 DEF Waiting, TypeOK
  <2> QED
    BY <2>1, <2>2, <2>3
<1>4. OnTheWay'
  <2>1. \A r : Due(r)' = Due(r)
    BY <1>1 DEF Due
  <2>2. \A r \in Organizers : pc'[r] \in {"wait", "visits"} => pc'[r] = pc[r]
    BY <1>1 DEF TypeOK
  <2> QED
    BY <1>1, <2>1, <2>2, QueueUnchanged DEF OnTheWay
<1>5. \A r \in Organizers : r # o => report'[r] = report[r] /\ pc'[r] = pc[r]
  BY <1>1 DEF TypeOK
<1>6. \A r : Due(r)' = Due(r)
  BY <1>1 DEF Due
<1>7. Due(o) \subseteq Players
  BY DEF Due, TypeOK
<1>8. CASE pc[o] = "visits"
  <2>1. Due(o) \subseteq VisitorsUntil(comp[o])
    BY <1>7, <1>8 DEF OnTheWay, Stored, VisitorsUntil, Waiting
  <2>2. pc'[o] = "scores" /\ report'[o].visitors = VisitorsUntil(comp[o])
    BY <1>1, <1>8 DEF TypeOK, Report
  <2> QED
    BY <1>2, <1>3, <1>4, <1>5, <1>6, <2>1, <2>2 DEF Reported, VisitsReported, Due
<1>9. CASE pc[o] = "scores"
  <2>1. Due(o) \subseteq report[o].visitors
    BY <1>9 DEF Reported
  <2>2. /\ pc'[o] = "bill"
        /\ report'[o].players = ScoredPlayers
        /\ report'[o].visitors = report[o].visitors \ ScoredPlayers
    BY <1>1, <1>9 DEF TypeOK
  <2> QED
    BY <1>2, <1>3, <1>4, <1>5, <1>6, <2>1, <2>2 DEF Reported, VisitsReported, Due
<1> QED
  BY <1>1, <1>8, <1>9

-----------------------------------------------------------------------------
\* The executor.

LEMMA QueueTypes ==
  ASSUME TypeOK
  PROVE  /\ data \in Seq(Visit) /\ batch \in Seq(Visit)
         /\ waited \in Seq(Organizers) /\ signals \in Seq(Organizers)
         /\ exec # "exec" => batch = <<>>
  BY DEF TypeOK, Queue!QueueTypeOK

LEMMA InTimeIsIn ==
  ASSUME NEW vs \in Seq(Visit), NEW p, NEW t, InTime(vs, p, t)
  PROVE  p \in PlayersIn(vs)
  BY DEF InTime, PlayersIn

\* The due visits and their channels are taken together.
LEMMA TakeBatch ==
  ASSUME VisitsInv, TypeOK', Queue!Get, UNCHANGED <<now, database, cache, locals, history>>
  PROVE  VisitsInv'
<1> USE DEF VisitsInv
<1>1. /\ UNCHANGED <<now, visits, chan, answered, lost, pc, comp, at, due, report>>
      /\ exec = "get" /\ batch' = data /\ data' = <<>> /\ signals' = waited /\ waited' = <<>>
  BY DEF Queue!Get, database, locals, history
<1>2. batch = <<>> /\ data \in Seq(Visit) /\ waited \in Seq(Organizers)
  BY <1>1, QueueTypes
<1>3. QueueLemmas!QueueOK'
  BY QueueLemmas!GetOK DEF Queue!Get, QueueLemmas!Get
<1>4. Dated' /\ AnsweredKept'
  <2>1. PlayersIn(batch)' = PlayersIn(data) /\ PlayersIn(batch) = {} /\ PlayersIn(data)' = {}
    BY <1>1, <1>2 DEF PlayersIn
  <2>2. AnsweredKept'
    BY <1>1, <2>1 DEF AnsweredKept
  <2>3. Dated'
    BY <1>1, <1>2 DEF Dated
  <2> QED
    BY <2>2, <2>3
<1>5. Waiting' /\ Reported' /\ VisitsReported'
  BY <1>1 DEF Waiting, Reported, VisitsReported, Due
<1>6. OnTheWay'
  <2>1. \A p, t : ~InTime(batch, p, t)
    BY <1>2 DEF InTime
  <2>2. \A p, t : /\ StoredAfterQueue(p, t) => StoredAfterQueue(p, t)'
                  /\ StoredAfterQueue(p, t) => StoredAfterBatch(p, t)'
                  /\ Stored(p, t) => Stored(p, t)'
    BY <1>1, <2>1 DEF StoredAfterQueue, StoredAfterBatch, Stored
  <2>3. \A r : Due(r)' = Due(r)
    BY <1>1 DEF Due
  <2> QED
    BY <1>1, <1>2, <2>2, <2>3 DEF OnTheWay
<1> QED
  BY <1>3, <1>4, <1>5, <1>6

\* What INSERT IGNORE makes of a visit that was in time: a row in time.
LEMMA InsertIsInTime ==
  ASSUME VisitsInv, InsertVisits, NEW p \in Players, NEW t \in Nat
  PROVE  /\ visits[p] # 0 => visits'[p] = visits[p]
         /\ visits[p] = 0 /\ p \in PlayersIn(batch) => visits'[p] \in 1 .. now
         /\ visits[p] = 0 /\ p \notin PlayersIn(batch) => visits'[p] = 0
         /\ visits[p] = 0 /\ InTime(batch, p, t) => Stored(p, t)'
<1>1. visits'[p] = IF visits[p] = 0 /\ p \in PlayersIn(batch)
                   THEN FirstIn(batch, p) ELSE visits[p]
  BY DEF InsertVisits
<1>2. batch \in Seq(Visit)
  BY QueueTypes DEF VisitsInv
<1>3. ASSUME visits[p] = 0, p \in PlayersIn(batch)
      PROVE  /\ visits'[p] \in 1 .. now
             /\ InTime(batch, p, t) => visits'[p] <= t
  <2>1. PICK m \in DOMAIN batch :
               /\ FirstIn(batch, p) = batch[m].at
               /\ batch[m].player = p
               /\ \A j \in 1 .. m - 1 : batch[j].player # p
    BY <1>2, <1>3, FirstInBatch
  <2>2. visits'[p] = batch[m].at /\ batch[m].at \in 1 .. now
    BY <1>1, <1>3, <2>1 DEF VisitsInv, Dated
  <2>3. ASSUME InTime(batch, p, t)
        PROVE  batch[m].at <= t
    <3>1. PICK i \in DOMAIN batch : /\ batch[i].player = p
                                    /\ \A j \in 1 .. i : batch[j].player = p => batch[j].at <= t
      BY <2>3 DEF InTime
    <3>2. m \in 1 .. Len(batch) /\ i \in 1 .. Len(batch) /\ ~(i \in 1 .. m - 1)
      BY <1>2, <2>1, <3>1
    <3>3. m \in 1 .. i
      BY <1>2, <3>2
    <3> QED
      BY <2>1, <3>1, <3>3
  <2> QED
    BY <2>2, <2>3
<1>4. now \in Nat /\ visits[p] \in Nat
  BY DEF VisitsInv, TypeOK
<1> QED
  BY <1>1, <1>2, <1>3, <1>4, InTimeIsIn DEF Stored

\* The batch is stored, and with it the due visits of the taken channels.
LEMMA StoreBatch ==
  ASSUME VisitsInv, TypeOK', InsertVisits
  PROVE  VisitsInv'
<1> USE DEF VisitsInv
<1>1. /\ UNCHANGED <<now, data, waited, signals, chan, answered, lost, pc, comp, at, due, report>>
      /\ batch' = <<>>
  BY DEF InsertVisits, Queue!Exec, locals, history
<1>2. QueueLemmas!QueueOK'
  BY QueueLemmas!ExecOK DEF InsertVisits, Queue!Exec, QueueLemmas!Exec
<1>3. Dated'
  <2>1. \A p \in Players : visits'[p] <= now
    BY InsertIsInTime DEF Dated, TypeOK
  <2> QED
    BY <1>1, <2>1 DEF Dated
<1>4. AnsweredKept'
  <2>1. PlayersIn(data)' = PlayersIn(data)
    BY <1>1 DEF PlayersIn
  <2>2. \A p \in Players : visits[p] # 0 \/ p \in PlayersIn(batch) => visits'[p] # 0
    BY InsertIsInTime DEF TypeOK
  <2>3. answered \subseteq Players
    BY DEF TypeOK
  <2> QED
    BY <1>1, <2>1, <2>2, <2>3 DEF AnsweredKept
<1>5. Waiting' /\ Reported' /\ VisitsReported'
  BY <1>1 DEF Waiting, Reported, VisitsReported, Due
<1>6. OnTheWay'
  <2>1. \A r \in Organizers : Due(r)' = Due(r) /\ Due(r) \subseteq Players /\ at[r] \in Nat
    BY <1>1 DEF Due, TypeOK
  <2>2. ASSUME NEW p \in Players, NEW t \in Nat
        PROVE  /\ Stored(p, t) => Stored(p, t)'
               /\ StoredAfterBatch(p, t) => Stored(p, t)'
               /\ StoredAfterQueue(p, t) => StoredAfterQueue(p, t)'
    <3>1. Stored(p, t) => Stored(p, t)'
      BY InsertIsInTime DEF Stored
    <3>2. StoredAfterBatch(p, t) => Stored(p, t)'
      BY InsertIsInTime DEF Stored, StoredAfterBatch
    <3>3. StoredAfterQueue(p, t) => StoredAfterQueue(p, t)'
      <4>1. InTime(data, p, t)' <=> InTime(data, p, t)
        BY <1>1 DEF InTime
      <4>2. p \notin PlayersIn(batch)'
        BY <1>1 DEF PlayersIn
      <4>3. CASE visits[p] # 0
        BY <4>3, InsertIsInTime DEF StoredAfterQueue
      <4>4. CASE visits[p] = 0 /\ InTime(batch, p, t)
        BY <4>4, InsertIsInTime DEF Stored, StoredAfterQueue
      <4>5. CASE visits[p] = 0 /\ p \notin PlayersIn(batch) /\ InTime(data, p, t)
        <5>1. visits'[p] = 0
          BY <4>5, InsertIsInTime
        <5> QED
          BY <4>1, <4>2, <4>5, <5>1 DEF StoredAfterQueue
      <4> QED
        BY <4>3, <4>4, <4>5 DEF StoredAfterQueue
    <3> QED
      BY <3>1, <3>2, <3>3
  <2>3. \A p, t : Stored(p, t)' => StoredAfterBatch(p, t)'
    BY DEF Stored, StoredAfterBatch
  <2> QED
    BY <1>1, <2>1, <2>2, <2>3, ChannelOwners DEF OnTheWay
<1> QED
  BY <1>2, <1>3, <1>4, <1>5, <1>6

\* The batch is dropped: its players are not due any more.
LEMMA DropBatch ==
  ASSUME VisitsInv, TypeOK', InsertFails
  PROVE  VisitsInv'
<1> USE DEF VisitsInv
<1>1. /\ UNCHANGED <<now, visits, data, waited, signals, chan, answered, pc, comp, at, due, report>>
      /\ batch' = <<>> /\ lost' = lost \cup PlayersIn(batch)
  BY DEF InsertFails, Queue!Exec, locals, history, database
<1>2. batch \in Seq(Visit)
  BY QueueTypes
<1>3. QueueLemmas!QueueOK'
  BY QueueLemmas!ExecOK DEF InsertFails, Queue!Exec, QueueLemmas!Exec
<1>4. Dated'
  BY <1>1 DEF Dated
<1>5. AnsweredKept'
  BY <1>1 DEF AnsweredKept, PlayersIn
<1>6. Waiting' /\ Reported' /\ VisitsReported'
  BY <1>1 DEF Waiting, Reported, VisitsReported, Due
<1>7. OnTheWay'
  <2>1. \A r \in Organizers : Due(r)' = Due(r) \ PlayersIn(batch)
    BY <1>1 DEF Due
  <2>2. \A p, t : p \notin PlayersIn(batch) =>
            /\ Stored(p, t) => Stored(p, t)'
            /\ StoredAfterBatch(p, t) => StoredAfterBatch(p, t)'
            /\ StoredAfterQueue(p, t) => StoredAfterQueue(p, t)'
    <3>1. \A p, t : InTime(batch, p, t) => p \in PlayersIn(batch)
      BY <1>2, InTimeIsIn
    <3>2. PlayersIn(batch)' = {}
      BY <1>1 DEF PlayersIn
    <3> QED
      BY <1>1, <3>1, <3>2 DEF Stored, StoredAfterBatch, StoredAfterQueue
  <2> QED
    BY <1>1, <2>1, <2>2, ChannelOwners DEF OnTheWay
<1> QED
  BY <1>3, <1>4, <1>5, <1>6, <1>7

\* A channel is signalled after the batch taken with it.
LEMMA SignalChannel ==
  ASSUME VisitsInv, TypeOK', Queue!Signal, UNCHANGED <<now, database, cache, locals, history>>
  PROVE  VisitsInv'
<1> USE DEF VisitsInv
<1>1. /\ UNCHANGED <<now, visits, data, batch, waited, answered, lost, pc, comp, at, due, report>>
      /\ exec = "signal" /\ signals # <<>>
      /\ chan' = [chan EXCEPT ![Head(signals)] = "full"] /\ signals' = Tail(signals)
  BY DEF Queue!Signal, database, locals, history
<1>2. batch = <<>> /\ signals \in Seq(Organizers)
  BY <1>1, QueueTypes
<1>3. /\ 1 \in DOMAIN signals /\ Head(signals) = signals[1]
      /\ \A i \in DOMAIN signals' : i + 1 \in DOMAIN signals /\ signals'[i] = signals[i + 1]
  BY <1>1, <1>2
<1>4. QueueLemmas!QueueOK'
  BY QueueLemmas!SignalOK DEF Queue!Signal, QueueLemmas!Signal
<1>5. Dated' /\ Reported' /\ VisitsReported' /\ AnsweredKept'
  BY <1>1 DEF Dated, Reported, VisitsReported, Due, AnsweredKept, PlayersIn
<1>6. Waiting'
  BY <1>1, <1>3, ChannelOwners, SMTT(30) DEF Waiting, TypeOK, Queue!QueueTypeOK
<1>7. OnTheWay'
  <2>1. \A p, t : ~InTime(batch, p, t)
    BY <1>2 DEF InTime
  <2>2. \A p, t : /\ StoredAfterQueue(p, t) => StoredAfterQueue(p, t)'
                  /\ StoredAfterBatch(p, t) => StoredAfterBatch(p, t)'
                  /\ StoredAfterBatch(p, t) => Stored(p, t)'
                  /\ Stored(p, t) => Stored(p, t)'
    BY <1>1, <2>1 DEF StoredAfterQueue, StoredAfterBatch, Stored
  <2>3. \A r : Due(r)' = Due(r)
    BY <1>1 DEF Due
  <2>4. \A o \in Organizers : chan'[o] = "full" => chan[o] = "full" \/ o = signals[1]
    BY <1>1, <1>3 DEF TypeOK, Queue!QueueTypeOK
  <2> QED
    BY <1>1, <1>3, <2>2, <2>3, <2>4 DEF OnTheWay
<1> QED
  BY <1>4, <1>5, <1>6, <1>7
\* The end of a round and the ticker: nothing moves.
LEMMA QueueRests ==
  ASSUME VisitsInv, TypeOK', Queue!EndRound \/ Queue!Tick,
         UNCHANGED <<now, database, cache, locals, history>>
  PROVE  VisitsInv'
<1> USE DEF VisitsInv
<1>1. /\ UNCHANGED <<now, visits, data, waited, batch, signals, chan>>
      /\ UNCHANGED <<answered, lost, pc, comp, at, due, report>>
  BY DEF Queue!EndRound, Queue!Tick, database, locals, history
<1>2. QueueLemmas!QueueOK'
  BY QueueLemmas!RestOK DEF Queue!EndRound, Queue!Tick, QueueLemmas!EndRound, QueueLemmas!Tick
<1>3. Dated' /\ AnsweredKept' /\ Waiting' /\ Reported' /\ VisitsReported'
  BY <1>1 DEF Dated, AnsweredKept, Waiting, Reported, VisitsReported, Due, PlayersIn
<1>4. OnTheWay'
  BY <1>1 DEF OnTheWay, Due, Stored, StoredAfterBatch, StoredAfterQueue, InTime, PlayersIn
<1> QED
  BY <1>2, <1>3, <1>4

LEMMA VisitsExecutor ==
  ASSUME VisitsInv, TypeOK', Executor
  PROVE  VisitsInv'
<1>1. CASE QueueStep
  BY <1>1, TakeBatch, SignalChannel, QueueRests DEF QueueStep
<1> QED
  BY <1>1, StoreBatch, DropBatch DEF Executor

-----------------------------------------------------------------------------
\* The clock, the restart, and the theorem.

\* Nothing is dated after a later clock either.
LEMMA ClockMoves ==
  ASSUME VisitsInv, TypeOK', ClockTick \/ UNCHANGED vars
  PROVE  VisitsInv'
<1> USE DEF VisitsInv
<1>1. /\ UNCHANGED <<visits, data, waited, exec, batch, signals, chan>>
      /\ UNCHANGED <<answered, lost, pc, comp, at, due, report>>
      /\ now' = now \/ now' = now + 1
  BY DEF ClockTick, vars, database, queue, locals, history
<1>2. QueueLemmas!QueueOK'
  BY <1>1, QueueLemmas!UnchangedOK DEF QueueLemmas!queueVars
<1>3. Dated'
  <2>1. /\ now \in Nat /\ visits \in [Players -> Nat]
        /\ data \in Seq(Visit) /\ batch \in Seq(Visit) /\ at \in [Requests -> Nat]
    BY QueueTypes DEF TypeOK
  <2>2. \A x \in 1 .. now : x \in 1 .. now'
    BY <1>1, <2>1
  <2>3. \A p \in Players : visits[p] <= now'
    BY <1>1, <2>1 DEF Dated
  <2> QED
    BY <1>1, <2>2, <2>3 DEF Dated
<1>4. AnsweredKept' /\ Waiting' /\ Reported' /\ VisitsReported'
  BY <1>1 DEF AnsweredKept, Waiting, Reported, VisitsReported, Due, PlayersIn
<1>5. OnTheWay'
  BY <1>1 DEF OnTheWay, Due, Stored, StoredAfterBatch, StoredAfterQueue, InTime, PlayersIn
<1> QED
  BY <1>2, <1>3, <1>4, <1>5

\* What was queued is lost, and nobody waits any more.
LEMMA ProcessRestarts ==
  ASSUME VisitsInv, TypeOK', Restart
  PROVE  VisitsInv'
<1> USE DEF VisitsInv
<1>1. /\ UNCHANGED <<now, visits, answered>>
      /\ data' = <<>> /\ waited' = <<>> /\ exec' = "get" /\ batch' = <<>> /\ signals' = <<>>
      /\ chan' = [o \in Organizers |-> "none"]
      /\ pc' = [r \in Requests |-> "idle"]
      /\ due' = [r \in Requests |-> {}]
      /\ lost' = lost \cup PlayersIn(data) \cup PlayersIn(batch)
  BY DEF Restart, database
<1>2. QueueLemmas!QueueOK'
  BY <1>1, QueueLemmas!NewOK DEF QueueLemmas!QueueOK, QueueLemmas!QueueTypeOK,
     QueueLemmas!ChannelsApart, QueueLemmas!RoundOver
<1>3. Dated' /\ AnsweredKept' /\ Waiting' /\ Reported' /\ VisitsReported'
  BY <1>1 DEF Dated, AnsweredKept, Waiting, Reported, VisitsReported
<1>4. OnTheWay'
  BY <1>1 DEF OnTheWay
<1> QED
  BY <1>2, <1>3, <1>4

LEMMA VisitsProgress ==
  ASSUME VisitsInv, TypeOK', NEW r \in Requests, Progress(r)
  PROVE  VisitsInv'
<1>1. ASSUME r \in Viewers, ViewerStep(r)
      PROVE  VisitsInv'
  BY <1>1, QuietProgress, TakeVisitTime, QueueVisit DEF ViewerStep
<1>2. ASSUME r \in Organizers, OrganizerStep(r)
      PROVE  VisitsInv'
  BY <1>2, QuietProgress, TakeFinishTime, JoinQueue, UpdateRow, LeaveQueue, AbandonQueue,
     ComputeReport
     DEF OrganizerStep
<1> QED
  BY <1>1, <1>2, QuietProgress DEF Progress

LEMMA VisitsInit == Init => VisitsInv
<1> SUFFICES ASSUME Init
             PROVE  VisitsInv
  OBVIOUS
<1>1. TypeOK
  BY TypeInit
<1>2. QueueLemmas!QueueOK
  BY QueueLemmas!NewOK DEF Init, Queue!New, QueueLemmas!New
<1>3. Dated /\ AnsweredKept /\ Waiting /\ Reported /\ VisitsReported /\ OnTheWay
  BY <1>1 DEF Init, InitLocals, Queue!New, Dated, AnsweredKept, Waiting, Reported,
     VisitsReported, OnTheWay
<1> QED
  BY <1>1, <1>2, <1>3 DEF VisitsInv

LEMMA VisitsNext == VisitsInv /\ [Next]_vars => VisitsInv'
<1> SUFFICES ASSUME VisitsInv, [Next]_vars
             PROVE  VisitsInv'
  OBVIOUS
<1>1. TypeOK'
  BY TypeNext DEF VisitsInv
<1> QED
  BY <1>1, QuietArrival, VisitsProgress, VisitsExecutor, ClockMoves, ProcessRestarts DEF Next

\* Every player whose ranking request was answered before a finish request
\* arrived is in the report competitionFinishHandler bills, unless a failed
\* INSERT or a restart dropped the visit: waiting for the queue is enough,
\* whatever else is answered, queued and finished meanwhile.
THEOREM DueVisitsReported == Spec => []VisitsReported
<1>1. VisitsInv => VisitsReported
  BY DEF VisitsInv
<1> QED
  BY <1>1, VisitsInit, VisitsNext, PTL DEF Spec

-----------------------------------------------------------------------------
\* A finished competition is billed.

LEMMA BilledNext == TypeOK /\ FinishedIsBilled /\ [Next]_vars => FinishedIsBilled'
<1> SUFFICES ASSUME TypeOK, FinishedIsBilled, [Next]_vars
             PROVE  FinishedIsBilled'
  OBVIOUS
<1> USE DEF TypeOK, FinishedIsBilled, Goto, Finishing, database, locals, history
<1>1. ASSUME UNCHANGED <<row, billing>>,
             interrupted => interrupted',
             \A o \in Organizers : pc[o] \in Finishing => pc'[o] \in Finishing
      PROVE  FinishedIsBilled'
  BY <1>1
<1>2. CASE Arrival
  BY <1>1, <1>2 DEF Arrival, RankingRequest, CompetitionsAdd, FinishRequest, ScoreRequest, Lookup
<1>3. ASSUME NEW r \in Requests, Select(r) \/ Fill(r)
      PROVE  FinishedIsBilled'
  BY <1>1, <1>3 DEF Select, Fill, Return
<1>4. ASSUME NEW v \in Viewers, ViewerStep(v)
      PROVE  FinishedIsBilled'
  BY <1>1, <1>4 DEF ViewerStep, RankingNow, RankingEnds, RankingVisit, Return
<1>5. ASSUME NEW o \in Organizers, CacheAdded(o) \/ ScoreCheck(o) \/ ScoreAbort(o) \/ ScoreCommit(o)
      PROVE  FinishedIsBilled'
  BY <1>1, <1>5 DEF CacheAdded, ScoreCheck, ScoreAbort, ScoreCommit, Return
<1>6. ASSUME NEW o \in Organizers,
             \/ FinishNow(o) \/ FinishWait(o) \/ FinishCache(o)
             \/ FinishReceive(o) \/ FinishVisits(o) \/ FinishScores(o)
             \/ FinishUpdateFails(o) \/ ChannelAbandoned(o)
      PROVE  FinishedIsBilled'
  BY <1>1, <1>6 DEF FinishNow, FinishWait, FinishCache, FinishReceive, FinishVisits, FinishScores,
                    FinishUpdateFails, ChannelAbandoned, Return
<1>7. ASSUME NEW o \in Organizers, FinishUpdate(o)
      PROVE  FinishedIsBilled'
  <2>1. pc'[o] = "cache"
    BY <1>7 DEF FinishUpdate
  <2> QED
    BY <2>1
<1>8. ASSUME NEW o \in Organizers, FinishBill(o)
      PROVE  FinishedIsBilled'
  <2>1. report[o] \in Report
    OBVIOUS
  <2>2. billing' # None
    BY <1>8, <2>1 DEF FinishBill
  <2> QED
    BY <2>2
<1>9. CASE Executor \/ ClockTick \/ UNCHANGED vars
  <2>1. UNCHANGED <<row, billing, interrupted, pc>>
    BY <1>9 DEF Executor, InsertVisits, InsertFails, QueueStep, ClockTick, vars
  <2> QED
    BY <1>1, <2>1
<1>10. CASE Restart
  BY <1>10 DEF Restart
<1>11. ASSUME NEW o \in Organizers, FinishFails(o)
       PROVE  FinishedIsBilled'
  BY <1>11 DEF FinishFails
<1> QED
  BY <1>2, <1>3, <1>4, <1>5, <1>6, <1>7, <1>8, <1>9, <1>10, <1>11
  DEF Next, Progress, ViewerStep, OrganizerStep

\* A finished competition is billed, unless a finish request is still at work
\* on it or an error or a restart has ended one on the way: no interleaving of finish requests, of
\* one or of many, loses the row of competitionFinishHandler in billing.
THEOREM FinishedCompetitionsBilled == Spec => []FinishedIsBilled
<1>1. Init => FinishedIsBilled
  BY DEF Init, FinishedIsBilled
<1> QED
  BY <1>1, TypeCorrect, BilledNext, PTL DEF Spec
-----------------------------------------------------------------------------
\* What a finish leaves behind.  From the moment it has set the cache, the row is
\* finished for good and the cache never says otherwise, unless it crossed a
\* request that holds the open row; and no upload that found the competition
\* open is about, unless it overlapped one.

\* A finish has set the cache.
Settled ==
    \/ Over
    \/ \E o \in Organizers : pc[o] \in {"receive", "visits", "scores", "bill"}
    \/ billing # None

CacheFinished ==
    /\ cache # 0
    /\ \A r \in Requests : ~Crossing(r)

NoOverlap == \A o \in Organizers : ~Overlapping(o)

\* What each request may take for granted.
StepsKnown ==
    \A o \in Organizers :
        /\ pc[o] = "commit" => comp[o] = 0 /\ upload[o] # None
        /\ pc[o] \in {"wait", "update", "cache"} => at[o] # 0
        /\ o \in late => /\ pc[o] # "idle" /\ row \notin {None, 0}
                         /\ comp[o] # 0 \/ crossed

SettledInv ==
    /\ TypeOK
    /\ StepsKnown
    /\ \A o \in Organizers : pc[o] \in Finishing => row \notin {None, 0}
    /\ billing # None => row \notin {None, 0}
    /\ Settled => CacheFinished \/ crossed
    /\ Settled => NoOverlap \/ overlapped \/ crossed
    /\ \A o \in Organizers :
           pc[o] = "bill" => report[o].players = ScoredPlayers \/ overlapped \/ crossed
    /\ BillingMatchesScores

-----------------------------------------------------------------------------

LEMMA SettledInit == Init => SettledInv
<1> SUFFICES ASSUME Init
             PROVE  SettledInv
  OBVIOUS
<1>1. TypeOK
  BY TypeInit
<1> QED
  BY <1>1 DEF Init, InitLocals, SettledInv, Settled, Over, StepsKnown, Finishing,
              BillingMatchesScores


\* Steps that write neither the database nor the cache: a request goes on with
\* what it has, or with what the cache or the row say, or returns.
LEMMA SettledRequest ==
  ASSUME SettledInv, TypeOK', NEW r \in Requests,
         \/ Select(r)
         \/ r \in Viewers /\ ViewerStep(r)
         \/ r \in Organizers /\ (\/ ScoreCheck(r) \/ ScoreAbort(r) \/ FinishNow(r)
                                 \/ FinishWait(r) \/ FinishReceive(r) \/ FinishVisits(r)
                                 \/ FinishUpdateFails(r) \/ ChannelAbandoned(r)
                                 \/ FinishFails(r))
  PROVE  SettledInv'
<1> USE DEF SettledInv, TypeOK, Goto, Return, database, crossings, history, BillingMatchesScores,
            StepsKnown, Settled, Over, CacheFinished, NoOverlap, Crossing, Overlapping,
            ScoredPlayers, Finishing
<1>1. CASE Select(r)
  BY <1>1 DEF Select
<1>2. ASSUME r \in Viewers, ViewerStep(r)
      PROVE  SettledInv'
  BY <1>2 DEF ViewerStep, RankingNow, RankingEnds, RankingVisit
<1>3. ASSUME r \in Organizers, ScoreCheck(r) \/ ScoreAbort(r)
      PROVE  SettledInv'
  BY <1>3 DEF ScoreCheck, ScoreAbort
<1>4. ASSUME r \in Organizers, FinishNow(r) \/ FinishWait(r)
      PROVE  SettledInv'
  BY <1>4 DEF FinishNow, FinishWait
<1>5. ASSUME r \in Organizers, FinishReceive(r) \/ FinishVisits(r)
      PROVE  SettledInv'
  BY <1>5 DEF FinishReceive, FinishVisits
<1>6. ASSUME r \in Organizers, FinishUpdateFails(r) \/ ChannelAbandoned(r) \/ FinishFails(r)
      PROVE  SettledInv'
  BY <1>6 DEF FinishUpdateFails, ChannelAbandoned, FinishFails
<1> QED
  BY <1>1, <1>2, <1>3, <1>4, <1>5, <1>6

\* Steps that do.
LEMMA SettledWrite ==
  ASSUME SettledInv, TypeOK', NEW r \in Requests,
         \/ Fill(r)
         \/ r \in Organizers /\ (\/ CacheAdded(r) \/ ScoreCommit(r) \/ FinishUpdate(r)
                                 \/ FinishCache(r) \/ FinishScores(r) \/ FinishBill(r))
  PROVE  SettledInv'
<1> USE DEF SettledInv, TypeOK, Goto, Return, database, crossings, history, BillingMatchesScores,
            StepsKnown, Settled, Over, CacheFinished, NoOverlap, Crossing, Overlapping,
            ScoredPlayers, Finishing
<1>1. CASE Fill(r)
  BY <1>1 DEF Fill
<1>2. ASSUME r \in Organizers, CacheAdded(r)
      PROVE  SettledInv'
  BY <1>2 DEF CacheAdded
<1>3. ASSUME r \in Organizers, ScoreCommit(r)
      PROVE  SettledInv'
  BY <1>3 DEF ScoreCommit
<1>4. ASSUME r \in Organizers, FinishUpdate(r)
      PROVE  SettledInv'
  BY <1>4 DEF FinishUpdate
<1>5. ASSUME r \in Organizers, FinishCache(r)
      PROVE  SettledInv'
  <2>1. /\ UNCHANGED <<row, score, billing, at, upload, report, late>>
        /\ pc[r] = "cache" /\ pc' = [pc EXCEPT ![r] = "receive"]
        /\ comp' = [comp EXCEPT ![r] = at[r]] /\ at[r] # 0
        /\ cache' = IF cache = None THEN None ELSE at[r]
        /\ crossed' \in BOOLEAN /\ overlapped' \in BOOLEAN
    BY <1>5 DEF FinishCache
  <2>2. /\ crossed' <=> crossed \/ \E s \in Requests : Crossing(s)
        /\ overlapped' <=> overlapped \/ \E s \in Organizers : Overlapping(s)
    BY <1>5, Zenon DEF FinishCache, Cross
  <2>3. CacheFinished' \/ crossed'
    BY <2>1, <2>2
  <2>4. NoOverlap' \/ overlapped'
    BY <2>1, <2>2
  <2>5. StepsKnown'
    BY <2>1, <2>2
  <2>6. row \notin {None, 0} /\ ScoredPlayers' = ScoredPlayers
    BY <1>5, <2>1
  <2>7. \A o \in Organizers :
            pc'[o] = "bill" => report'[o].players = ScoredPlayers \/ overlapped' \/ crossed'
    BY <2>1, <2>2
  <2>8. BillingMatchesScores'
    BY <2>1, <2>2, <2>6
  <2> HIDE DEF StepsKnown, CacheFinished, NoOverlap, Settled, BillingMatchesScores, TypeOK
  <2> QED
    BY <2>1, <2>3, <2>4, <2>5, <2>6, <2>7, <2>8
<1>6. ASSUME r \in Organizers, FinishScores(r)
      PROVE  SettledInv'
  BY <1>6 DEF FinishScores
<1>7. ASSUME r \in Organizers, FinishBill(r)
      PROVE  SettledInv'
  BY <1>7 DEF FinishBill
<1> QED
  BY <1>1, <1>2, <1>3, <1>4, <1>5, <1>6, <1>7

LEMMA SettledArrival ==
  ASSUME SettledInv, TypeOK', Arrival
  PROVE  SettledInv'
<1> USE DEF SettledInv, TypeOK, Goto, Lookup, database, crossings, history, BillingMatchesScores,
            StepsKnown, Settled, Over, CacheFinished, NoOverlap, Crossing, Overlapping,
            ScoredPlayers, Finishing
<1>1. ASSUME NEW v \in Viewers, RankingRequest(v)
      PROVE  SettledInv'
  BY <1>1 DEF RankingRequest
<1>2. ASSUME NEW o \in Organizers, CompetitionsAdd(o)
      PROVE  SettledInv'
  BY <1>2 DEF CompetitionsAdd
<1>3. ASSUME NEW o \in Organizers, FinishRequest(o)
      PROVE  SettledInv'
  <2>1. /\ UNCHANGED <<row, score, billing, cache, at, report, crossed, overlapped>>
        /\ pc[o] = "idle" /\ pc'[o] \in {"select", "retrieved"} /\ comp'[o] = cache
        /\ \A r \in Requests \ {o} :
              pc'[r] = pc[r] /\ comp'[r] = comp[r] /\ upload'[r] = upload[r]
        /\ late' = late /\ row # None
    BY <1>3 DEF FinishRequest
  <2>2. Settled' => Settled
    BY <2>1
  <2>3. Settled => CacheFinished' \/ crossed'
    BY <2>1
  <2>4. Settled => NoOverlap' \/ overlapped' \/ crossed'
    BY <2>1
  <2>5. StepsKnown'
    BY <2>1
  <2>6. ScoredPlayers' = ScoredPlayers
    BY <2>1
  <2> QED
    BY <2>1, <2>2, <2>3, <2>4, <2>5, <2>6
<1>4. ASSUME NEW o \in Organizers, NEW u \in Uploads, ScoreRequest(o, u)
      PROVE  SettledInv'
  <2>1. /\ UNCHANGED <<row, score, billing, cache, at, report, crossed, overlapped>>
        /\ pc[o] = "idle" /\ pc'[o] \in {"select", "retrieved"} /\ comp'[o] = cache
        /\ \A r \in Requests \ {o} :
              pc'[r] = pc[r] /\ comp'[r] = comp[r] /\ upload'[r] = upload[r]
        /\ late' = (IF Over THEN late \cup {o} ELSE late) /\ row # None
    BY <1>4 DEF ScoreRequest
  <2>2. Settled' => Settled
    BY <2>1
  <2>3. Settled => CacheFinished' \/ crossed'
    BY <2>1
  <2>4. Settled => NoOverlap' \/ overlapped' \/ crossed'
    BY <2>1
  <2>5. StepsKnown'
    BY <2>1
  <2>6. ScoredPlayers' = ScoredPlayers
    BY <2>1
  <2> QED
    BY <2>1, <2>2, <2>3, <2>4, <2>5, <2>6
<1> QED
  BY <1>1, <1>2, <1>3, <1>4 DEF Arrival

\* A restart lets no request get through that found the competition open.
LEMMA SettledRestart ==
  ASSUME SettledInv, TypeOK', Restart
  PROVE  SettledInv'
  BY DEF SettledInv, TypeOK, Restart, database, BillingMatchesScores, StepsKnown, Settled, Over,
         CacheFinished, NoOverlap, Crossing, Overlapping, ScoredPlayers, Finishing

LEMMA SettledNext == SettledInv /\ [Next]_vars => SettledInv'
<1> SUFFICES ASSUME SettledInv, [Next]_vars
             PROVE  SettledInv'
  OBVIOUS
<1>1. TypeOK'
  BY TypeNext DEF SettledInv
<1>2. CASE Arrival
  BY <1>1, <1>2, SettledArrival
<1>3. ASSUME NEW r \in Requests, Progress(r)
      PROVE  SettledInv'
  BY <1>1, <1>3, SettledRequest, SettledWrite DEF Progress, OrganizerStep
<1>4. CASE Executor \/ ClockTick \/ UNCHANGED vars
  <2>1. UNCHANGED <<row, score, billing, cache, pc, comp, at, upload, report, late, crossed,
                    overlapped>>
    BY <1>4 DEF Executor, InsertVisits, InsertFails, QueueStep, ClockTick, vars, database,
                locals, crossings, history
  <2> QED
    BY <1>1, <2>1 DEF SettledInv, StepsKnown, Settled, Over, CacheFinished, NoOverlap, Crossing,
                      Overlapping, ScoredPlayers, BillingMatchesScores
<1>5. CASE Restart
  BY <1>1, <1>5, SettledRestart
<1> QED
  BY <1>2, <1>3, <1>4, <1>5 DEF Next

-----------------------------------------------------------------------------
\* An upload that arrives when a finish has set competitionCache is refused,
\* for any number of organizers and players and through any restarts, unless the
\* finish crossed a request that sets the cache back to the open row.
THEOREM LateRefused == Spec => []LateUploadsRefused
<1>1. SettledInv => LateUploadsRefused
  BY DEF SettledInv, StepsKnown, LateUploadsRefused, TypeOK
<1> QED
  BY <1>1, SettledInit, SettledNext, PTL DEF Spec

\* The players billed are the ones competitionScoreHandler has stored in the
\* end, whatever happens before or after the finish, unless the finish overlapped
\* an upload or crossed a fill of competitionCache.
THEOREM BilledScoresAreFinal == Spec => []BillingMatchesScores
<1>1. SettledInv => BillingMatchesScores
  BY DEF SettledInv
<1> QED
  BY <1>1, SettledInit, SettledNext, PTL DEF Spec

\* ... and those are the only two ways a score of a billed competition is ever
\* changed.  The second is what the run late_upload shows.
THEOREM BilledScoresFrozen ==
  Spec => [][billing # None => score' = score \/ overlapped \/ crossed]_vars
<1>1. SettledInv /\ [Next]_vars =>
          [billing # None => score' = score \/ overlapped \/ crossed]_vars
  <2> SUFFICES ASSUME SettledInv, Next, billing # None, ~overlapped, ~crossed
               PROVE  score' = score
    BY DEF vars, database
  <2>1. ASSUME NEW r \in Requests, Progress(r)
        PROVE  score' = score
    <3>1. r \in Organizers => ~ScoreCommit(r)
      BY DEF ScoreCommit, SettledInv, Settled, NoOverlap, Overlapping, StepsKnown
    <3> QED
      BY <2>1, <3>1 DEF Progress, ViewerStep, OrganizerStep, Select, Fill, RankingNow,
         RankingEnds, RankingVisit, CacheAdded, ScoreCheck, ScoreAbort, FinishNow, FinishWait,
         FinishUpdate, FinishCache, FinishReceive, FinishVisits, FinishScores, FinishBill,
         FinishUpdateFails, ChannelAbandoned, FinishFails, database
  <2>2. Arrival \/ Executor \/ ClockTick \/ Restart => score' = score
    BY DEF Arrival, RankingRequest, CompetitionsAdd, FinishRequest, ScoreRequest, Executor,
           InsertVisits, InsertFails, QueueStep, ClockTick, Restart, database
  <2> QED
    BY <2>1, <2>2 DEF Next
<1> QED
  BY <1>1, SettledInit, SettledNext, PTL DEF Spec
=============================================================================
