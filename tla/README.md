# ISUPORTS in TLA+

A TLA+ model of the Go implementation of ISUPORTS (`src/go`), the service in
which tenants hold competitions, upload score files, show rankings to their
players and are billed. The program is fast because it keeps most of what it
serves in process-wide caches and stores visits in the background; what can go
wrong with it is therefore mostly a matter of order: of two handlers, of a
handler and the goroutine that stores visits, of a handler and a restart. That is
what the model is about.

## The system

All components live in one process (`src/go/isuports.go` and four small
packages) over an admin MySQL database and the tenants' databases. HTTP handlers
run concurrently, one goroutine each; one more goroutine runs the visit queue.
`flockByTenantID`, which once serialised a tenant's handlers, is commented out
everywhere, so handlers interleave at every database call and every critical
section of a cache.

| Component | State | Operations | Who uses it |
|---|---|---|---|
| AsyncExecute (`asyncexecute.go`) | `data`, `waited` under a mutex; locals of `execute` | `Set`, `Wait`, `get`, the loop with its ticker | ranking requests `Set` visits, finish requests `Wait` |
| Competition | `competition`, `player_score`, `visit_history_2`, `billing` tables; `competitionCache` | add, score, ranking, finish, billing report | the organizer, the players |
| Score caches | `player_score` rows; `rankingCache`, `playerScoreCache` | the part of a score upload after its commit; fills on a miss | score, ranking and player requests |
| Scoreboard | what is in those tables and caches | CSV to ranks, ties, pages by `rank_after`, edits of a player's list | score, ranking and player requests |
| Players | `player` table, `playerCache` | add, disqualify, list, authorize, the other look-ups | every player request, score files |
| Tenants | `tenant` and `billing` tables, the files in `tenant_db`, `tenantNameCache`, `tenantIDCache` | add, find by host, initialize, bills and their pages | the administrator, every request |
| Cache (`cache.go`) | a map under an RWMutex | `Get`, `Set`, `GetOrSet`, `Update`, `UpdateAll`, ... | all of the above |
| MutexMap (`mutexmap.go`) | a map of mutexes under an RWMutex | `Lock`, `Unlock`, `RLock`, `RUnlock` | nobody at present (`flockmutex`, whose uses are commented out) |
| Trace (`trace/`) | logs of metrics, sampled queries, two report files | record a request or a statement, `StartTrace`, the goroutine that writes | the middleware, the SQL driver, `initialize` |

Further parts, none of which keeps state of interest: tokens and roles
(`parseViewer`), the lists for display, profiles and the SQLite log, deployment
files, and the ports in other languages.

### How they interact, and what is hard

* A ranking request looks up its competition (`competitionCache`, else the row),
  looks at the clock, gives a visit to `visitHistoryExec` and answers. The visit
  is stored later.
* A finish request looks up the competition, looks at the clock, calls `Wait`,
  updates the row, updates the cache, *receives* from the channel, computes the
  billing report from `visit_history_2` and `player_score`, and inserts it. `Wait`
  is what makes the visits answered so far count.
* A score upload checks that the competition is open, and much later commits the
  rows. It then takes the players who dropped out of the file out of their lists,
  sets the ranking, and puts the new scores in the lists: four more steps.
* On a miss every cache is filled by `Get`, `SELECT`, `Set`, with nothing held
  between: what is set may be older than what has been written meanwhile.
* A disqualification updates the row, then the cache, then looks the player up for
  its answer. An addition fills the cache before the table, so that nobody ever
  misses the cache for a player this process has added.
* A request to a tenant's host finds the tenant by name in one cache, sets the
  other, and compares names with the token; a ranking request relies on the second
  and sets the first again.
* Finish requests add bills one by one, `initialize` makes all of them anew; the
  administrator pages over both.
* A restart (`make dep` restarts the service) empties caches and queue. So does
  `initialize` for the caches.
* Every request and statement ends in goroutines that append to the logs of the
  tracer under mutexes which `StartTrace` and the writer do not take.

The hazards with their lines are listed in `PROJECT.json`.

### What makes each component correct

* *Queue*: no value is lost, repeated or reordered; a signalled caller finds
  everything executed that was set before its `Wait`; the executor never blocks on
  an abandoned channel; every `Wait` is answered, also with nothing queued.
* *Competition*: the visits answered before a finish request are billed; a
  finished competition is billed, once; an upload that arrives after the finish is
  refused; scores do not change after billing.
* *Score caches*: between uploads the ranking and the lists show the file that was
  submitted last, and never move back to an earlier one.
* *Scoreboard*: a ranking computed by an upload and one computed by SQL mean the
  same, ties and repeated players included; a player's list has every competition
  once, in order of creation; pages put together are the ranking.
* *Players*: a disqualified player stays out, nobody else is kept out, and who
  disqualifies is told the truth.
* *Tenants*: a request works on the tenant of its token; a tenant that was added can
  be used; a finished competition is billed; the pages show each tenant once.
* *MutexMap*: one mutex per key, hence a readers-writer lock per key.
* *Trace*: no metric is lost, the rows account for every metric read, one sample of
  each query.

## Modules

| Module | Contents |
|---|---|
| `FlushBarrier` | the abstract promise of the queue: a log, an executed prefix, callers released once their part of the log is executed |
| `AsyncExecute` | the queue, one action per critical section of `aq.m` and per step of `execute` |
| `AsyncExecuteHistory` | the queue with any callers and history variables; its properties; the refinement of `FlushBarrier` |
| `Competition` | the handlers of one competition, composed with an instance of `AsyncExecute` for `visitHistoryExec` |
| `ScoreCaches` | the scores of one open competition and their two caches |
| `Scoreboard` | what score files become: rankings, pages and lists over competitions, one request per step |
| `Cache` | the operations of `cache.Cache`; `Players` and `Tenants` instantiate it, one instance per cache |
| `Players` | additions, disqualifications and all look-ups of one tenant's players |
| `Tenants` | tenants, how requests find them, their bills and pages, `initialize` |
| `KeyedLock` | the abstract promise of `mutexmap`: a readers-writer lock per key |
| `MutexMap` | `RWMutexMap` and the `sync.RWMutex` it hands out, step by step; the refinement of `KeyedLock` |
| `TraceStats` | the statistics of a report, as operators on positions in a sequence of metrics |
| `Tracer` | the logs of metrics, `StartTrace`, the writer of `_trace.tsv` |
| `QuerySampler` | the sampled queries, `StartTrace`, the writer of `_explain.sql` |
| `MC*` | small constants for TLC |
| `LibraryProofs` | proofs about the queue and about `MutexMap` |
| `CompetitionProofs`, `ScoreCachesProofs`, `ScoreboardProofs`, `PlayersProofs`, `TenantsProofs`, `TracerProofs`, `QuerySamplerProofs` | proofs about the modules they are named after |

### State and actions against the code

A handler is a program counter and its locals; an action is what the handler does
between two points where another goroutine can get in: a database call, a
critical section of a cache or of the queue, a look at the clock, a receive. Early
returns are disjuncts of the action that returns. A handler that returns resets
its locals (nobody can see them).

`Competition`:

| Variable | Code |
|---|---|
| `row` | the `competition` row: absent, or `finished_at` with 0 for NULL |
| `score` | `player_score`: which file's rows it holds |
| `visits` | `visit_history_2`: `created_at` of each player's row, 0 when there is none (its primary key is tenant, competition, player) |
| `billing` | the `billing` row; its primary key lets one in |
| `cache` | the entry of `competitionCache` |
| `data ... chan` | `visitHistoryExec` |
| `pc`, `comp`, `at`, `upload`, `report` | handler locals |
| `answered`, `lost`, `due`, `late`, `interrupted`, `crossed`, `overlapped`, `restarts`, `faults` | history: no code reads them |

`retrieveCompetition` is `Lookup`, `Select`, `Fill`. `competitionsAddHandler` is
`CompetitionsAdd`, `CacheAdded`; the ranking handler `RankingRequest`,
`RankingNow` or `RankingEnds`, `RankingVisit`; the score handler `ScoreRequest`, `ScoreCheck`,
`ScoreCommit` or `ScoreAbort`; the finish handler `FinishRequest`, `FinishNow`,
`FinishWait`, `FinishUpdate`, `FinishCache`, `FinishReceive`, `FinishVisits`,
`FinishScores`, `FinishBill`; the callback of `visitHistoryExec` `InsertVisits` or
`InsertFails`. Any of the database calls may fail: a `SELECT` returns from `Select`,
the score transaction is `ScoreAbort`, the `UPDATE` of a finish `FinishUpdateFails`,
its report and its `INSERT` `FinishFails`. A finish whose `UPDATE` fails leaves its
channel to the executor (`ChannelAbandoned`); one that fails later leaves a finished
competition without a bill, which `interrupted` remembers.

Competitions get fresh ids, so one competition shares nothing with another but the
queue, and other competitions' visits in a batch change nothing for this one: a
model of one competition is enough.

`ScoreCaches` starts where `Competition!ScoreCommit` is: `Upload` is a file read
and checked, `Commit`/`CommitFails` is `tx.Commit()`, whose error is not looked
at; `GetRanking`, `RemoveMissing`, `SetRanking`, `InsertScores` are the four steps
after it; `RankingMiss`/`ListMiss`, `SelectScores`, `FillRanking`/`FillList` the
fills. A *sheet* is a function from the players in a file to their scores. Scores
abstract ranks too: two sheets with the same players in another order differ.

`Scoreboard` has the data `ScoreCaches` leaves out. A file is a sequence of rows.
`UploadRanks` is the loop of the upload and its sort, `SelectRanks` the query, whose
join with the tenant's own `player` table drops `Guests`: players of other tenants,
whom an upload finds in `playerCache`, one map for all tenants. `Put` and `Take` are
the edits of a list, `SelectLists` its query, `ListElsewhere` the query of another
tenant that looks the player up in the same map; `PageHit` and `PageMiss` the two
ways to a page. `InsertAtIndex` is the slice expression of line
1533 with what Go does: the inner `append` has room in the array (`idx` is less
than the length), so it writes in place over the element that the outer one reads
next. What a file *means* is said once more and differently in `RankingsStand` and
`ScoresListed`: `LastRow` is the specification's "of each player the row that appears
last" (specification.md:163). Line 229 of that document has "the largest of the
scores" instead; the code's comment at 1752 and both its computations take the last
row, and so does the model. A client that pages is an
actor of its own: files and restarts come between its pages.

`Players`: a look-up is `LookupRequest`, `Get`, `Select`, `Fill` (`Retrieve`),
`LookupAnswer`, with `Authorized` where `playerHandler` goes on to a second player;
`kind` is what it is for. `AddRequest`, `AddCache`, `AddInsert` are
`playersAddHandler`, one step for each player cached; `BanRequest`, `BanUpdate`,
`Mark`, `Retrieve`, `BanAnswer` are `playerDisqualifiedHandler`. `AddFails` and
`BanFails` are their errors. Player ids are unique over all tenants, so one tenant
is enough. `barred` and `late` are history: whose disqualification is in force, and
what was when a request arrived.

`Tenants`: `Request`, `GetName`, `SelectName` or `Unknown`, `FillName`, `SetID` are
`parseViewer` with `retrieveTenantRowFromHeader`; `Forwarded` is the header `Viewer`,
with which `parseViewer` takes the tenant's id as it comes, without a token and without
a look at the caches. Then a competition is added, finished and billed (`Finish`,
`Bill`; `BillFails` is an error of the report or of the INSERT), or a ranking asked
for (`GetID`, on a miss `SelectID` and `FillID`, `SetName`). A `Restart` may end
anything on the way. `FirstPage`, `NextPage`, `LastPage` are one administrator's calls of
`tenantsBillingHandler`; `Page` is its query. `InitSQL`, `InitFiles`, `InitCaches`,
`InitReports`, `InitFails` are `initializeHandler` with its two scripts.

`MutexMap`: `Look` and `Create` are the two critical sections of `getOrSet`;
`LockWrite`/`Drained` and `LockRead`/`Woken` are `sync.RWMutex`, whose writer first
takes its place and then waits for the readers before it; `Find` and `Unlock` are
the two halves of `Unlock` and `RUnlock`.

`Tracer` and `QuerySampler`: an append is a read of the slice (`Lock`,
`ReadSlice`), a write of the length and a write of the element, in the order of
compiled code for an append in place; that order is the compiler's and not the
language's, which makes what unlocked readers see one of the outcomes the build
can produce. The sampler's list starts with room for 30; when it is full, `Grow` copies
it to an array of twice the capacity, and `WriteCapacity` and `WritePointer` come
before the length. Pointer, length and capacity are variables of their own there, and
an append may find them torn. `StartTrace`, with `ClearSms` or `ReplaceSampled`, clears without
locks; `WakeUp`, `MakeRows`, `WriteStats` and `WriteExplain` are its goroutine. A nil
element ends the process (`WriterPanics`), and it is started anew.

## Runs

| Run | Config | Shows | Bounds |
|---|---|---|---|
| `queue` | `MCAsyncExecute.cfg` | nothing lost, sends never block, every `Wait` answered, `FlushBarrier` implemented | two callers of `Wait`, `Set` calls of one and two values, 4 values in all |
| `two_organizers` | `MCCompetitionOrganizers.cfg` | late uploads refused, billing matches the scores, unless an upload or a fill overlaps the finish | 2 organizer requests at once, interchangeable, 1 player, 1 viewer, 1 file, 1 restart |
| `faults_and_restart` | `MCCompetitionRestart.cfg` | visits due are billed but for those dropped by a fault; a finished competition is billed; every finish answered, every other visit stored | 1 player, 1 restart, 1 failed database call |
| `late_upload` | `MCStaleFill.cfg` | **violated**: scores frozen after billing | no restart, no fault |
| `scores` | `MCScoreCaches.cfg` | ranking and lists show the last file, the ranking never moves back, unless a commit is crossed | 2 organizers, 2 players, 1 visitor, 3 files, 1 restart, 1 failed commit, symmetric |
| `scoreboard` | `MCScoreboard.cfg` | rankings and lists mean what the files say; pages put together are the ranking | 2 players and a guest, 2 competitions in any order, 3 files, pages of 1, 1 restart |
| `lost_entry` | `MCLostEntry.cfg` | **violated**: every score is in the list | the same, without a restart |
| `players` | `MCPlayers.cfg` | the disqualified are out for good, the organizer is told the truth, nobody is refused without reason | 1 enrolled player, 2 newcomers, 1 id of nobody, 1 look-up, 1 disqualification and 1 addition at a time, 1 restart, 1 fault |
| `tenants` | `MCTenants.cfg` | requests work on their own tenant, tenants added are usable, finished competitions billed, pages leave nobody out | 2 initial tenants, 2 more ids, 3 names, pages of 1, 1 initialize, 1 restart, 1 fault |
| `locks` | `MCMutexMap.cfg` | exclusion, `KeyedLock` implemented, everybody served | 3 threads, 2 keys, 3 mutexes |
| `tracer` | `MCTracer.cfg` | nothing lost, rows add up, `min(ms)` and `max(ms)`, the two sections of a report | 4 metrics, 2 traces, 1 fault |
| `sampler` | `MCQuerySampler.cfg` | one sample of each alias, kept, written within the array | 4 statements, a first array of 1, 2 traces, 1 fault |

`CHECK_DEADLOCK` stays on in every run of requests: an idle process can always take
another one. It is off in `tracer` and `sampler`, which end when the last metric is
recorded and the last report written.

### Bounds, and why they are enough

* `MaxTime = 2`: the code compares two times only (`created_at` and
  `finished_at`); earlier, equal and later all occur.
* `MaxQueue` bounds the visits queued plus those about to be; 2 allows a visit in
  the batch being inserted and one in the next round, two visits of one player,
  and two players in one batch.
* `Competition`'s faults and liveness are checked with one organizer, the ordinary
  case of one person at one browser, and what two requests of organizers at once do
  to the cache and the scores in `two_organizers`. The safety properties of both are
  proved for any number.
* The three files of `Scoreboard` are a tie in which a repeated player falls behind,
  a player with a guest, and another player alone, so that players repeat, tie, drop
  out and come back; a page of one rank makes a ranking of two take three requests
  to the end. Files come for either competition in any order.
* Files naming one player each, and none in common, make every change of
  `player_score` visible in the report. For `ScoreCaches` the three files contain
  each player alone and both with other scores, so players come, go and change.
* One restart falls between any two steps, also while caches are being filled; a
  failed commit may come before or after it.
* A player's request can reach the competition between its INSERT and its
  `competitionCache.Set`, since the lists of competitions are read from the table;
  so a lookup needs the row and nothing else, in every run.
* Two players added by one call of `Players` are cached in two steps, between which
  the call may fail; a disqualification overlaps a look-up that has read the row.
* Of the tenants of `MCTenants`, one has a finished competition in the initial data
  and may not add any, one an open one, and those added later start without. With
  pages of one, every tenant is at the end of a page, and tenants appear below and
  above the last id read. One name is given out, taken back by `initialize`, and given
  out again under another id. A forwarded request may name any id.
* `MCMutexMap` has a mutex for each thread that might make one; three threads are
  two racing for a key and one that comes after both, or a writer between readers.
* The metrics are a request, two statements of its endpoint with the same query and
  another one elsewhere, too short to be measured: an endpoint with requests and one
  without, a query counted twice and one whose row can be lost. The statements of the sampler
  are two of one alias, one of another and one without a query; with a first array of
  one element, the second sample already makes it grow.

### Fairness

`Competition!Spec` has weak fairness of each request in progress and of the
executor: the Go scheduler runs every runnable goroutine, database calls return,
and `time.Ticker` keeps ticking (it drops ticks, it does not stop). There is no
fairness on arrivals, the clock, restarts and errors as such: nobody has to send
a request. `FinishReceive` is enabled only once the channel is full, so
`FinishAnswered` rests on the executor reaching the channel. `AsyncExecuteHistory`
has fairness of the executor alone.

`MutexMap!FairSpec` has weak fairness of the steps of a thread once it has called,
which includes giving its key back, and strong fairness of `LockWrite`: a
`sync.Mutex` that somebody has waited for longer than 1 ms goes to the one who
waited. Readers need no such help: a writer that leaves lets in all who waited for
it. All other modules state safety and need no fairness.

## What does not hold

Two runs exhibit behaviour that the specification of the service excludes.

* `late_upload`: a request misses the cache and reads the open row; a finish fills the
  entry itself (1253), updates row and entry, and bills; then the request sets what it
  read. From then on the competition is open in the cache, and closed and billed in the
  tables. No restart is needed: a competition is listed before it is cached.
* `lost_entry`: two uploads, the second for the competition created first: a
  player in both has that competition twice and the other not at all.

The other modules state what holds *around* such behaviour, with a history variable
or a condition that names it exactly. What is excluded there does happen:

* `Competition`: a ranking request between its look at the clock and its `Set` when
  the finish waits: its visit is stored, dated within the competition, not billed.
  `VisitsReported` is about visits answered before the finish request arrived.
* `Competition`, `overlapped`: an upload that passed its check (1345) before the finish
  commits after it, also after the bill: two requests of organizers, no restart. The
  `flock` that would make one wait is commented out. `crossed` is `late_upload`'s case,
  and that of `competitionsAddHandler` caching an open competition after its finish.
* `Competition` and `Tenants`, `interrupted`: a finish whose report or INSERT fails, or
  which a restart ends after its `UPDATE`, leaves a finished competition that is shown
  with 0 yen. Somebody has to finish it again, which also moves `finished_at`.
* `ScoreCaches`, `crossed`: an upload commits while a reader is about to set what it
  read before, or while another upload is still updating the caches: the entry that
  is left is that of the earlier file. The lock that comments at 1723 and 1969
  announce is commented out.
* `ScoreCaches`, `restarts = 0` in `ListsShowLast`: with `rankingCache` cold and a
  player's list warm, an upload that no longer names the player leaves the score in
  the list. `Undisturbed`: a commit whose error is ignored is forgotten by a restart.
* `Scoreboard`: with a cached ranking, `rank_after` beyond its end panics (the
  `Recover` middleware makes it a 500); without one, the page is empty. The paging
  client of the model asks for the rank it was shown last, and stops there.
* `Scoreboard`, `Guests`: a file may name a player of another tenant, if `playerCache`
  has the player. The upload's ranking shows the guest, the one selected after a
  restart does not, and whoever is paging then skips a rank; `RankingsStand` and
  `PagesFollow` say so.
* `Scoreboard`, `spoilt`: an entry inserted before others overwrites one of them
  (`lost_entry`); and a player asked for by another tenant while the entry of
  `playerScoreCache` is missing gets that tenant's list, without any of the scores.
* `Players`, `Outdated`: a look-up reads the row before a disqualification and caches
  it after: the player stays in until the next restart. It takes a cold cache, hence
  a restart after the player was added (`NewcomersBarred`).
* `Tenants`, `aud[r] # NoName` in `ViewersAtHome`: a request with the header `Viewer`
  works on whatever tenant the header names, on any host and without a token, and a
  ranking request of that kind puts the tenant into both caches. The header belongs to
  `Proxy`, which is commented out; reading it is not. Only the token's way in is
  claimed to lead home.
* `Tenants`, `OpenAtFirst`: `initialize` bills the competitions that are open in the
  initial data with 0; when they are finished, the INSERT fails on the primary key,
  the organizer gets a 500, and the bill stays 0.
* `Tenants`, `Billed`: a tenant without any bill is on no page of
  `tenantsBillingHandler`; the query joins laterally with what has rows.
* `Tenants`, `clean`: an `initialize` that failed leaves old caches over new tables.
* `TraceStats`: after a duration of 0, `min(ms)` starts anew with the next one: the
  0 and whatever came before it do not count.
* `Tracer`: an append under way when the log is cleared writes the old length plus
  one and brings the old metrics back; a writer that comes between an append's
  length and its element finds nil and ends the process.
* `Tracer`, `cut`: a writer that comes between an append's length and its element may
  also find the metric that was there before the log was cleared. It is in the rows
  and not in the section of all statements, by which time the append has written its
  own.
* `QuerySampler`, `raced`: two appends at once overwrite each other's query, whose
  alias is marked for good; the element can be nil for its writer, too. When one of
  them makes the list grow, another may read the new capacity with the old pointer and
  write outside the array. What that overwrites is not modelled.

## Proofs

All theorems are for any sets of players, viewers, organizers and files and any
bounds, from the `ASSUME`s of the module unless said otherwise.

**Queue** (`LibraryProofs`). The inductive invariant `QueueInv` joins the types,
`NothingLost`, where each channel is (queued in `waited` or `signals` exactly once
while empty, in neither while full), and that a channel in `signals` has its mark
within what is executed once the batch is. `NothingLost` by itself is inductive, the
barrier is not: that a channel is full says nothing about `mark` unless the channels
still to be signalled are known to be covered by the batch taken with them. From it
follow `QueueTypeCorrect`, `NothingIsLost`, `BarrierHolds`, `ExecutorNeverBlocks` and
`QueueIsFlushBarrier`: every step is a step of `FlushBarrier` or leaves its variables
unchanged.

**Competition** (`CompetitionProofs`). `TypeCorrect`; `DueVisitsReported`, from
the invariant `VisitsInv`: a player who was answered is stored, lost, in the batch
or in the data; while a finish is between `Wait` and `Receive`, those of its
`due` players not yet stored are in the part of the queue its channel covers; and
every stored or queued visit of a due player is dated no later than the finish.
`FinishedCompetitionsBilled`: a finished row has a finish at work, a billing row,
or an error or a restart that ended a finish between its `UPDATE` and its `INSERT`.

`LateRefused`, `BilledScoresAreFinal` and `BilledScoresFrozen` are about the time after
a finish has set the cache, for any number of organizers and any restarts. Their
invariant `SettledInv` is that nothing which takes the competition for open is left,
unless it was there at that moment: an entry that says finished stays so
(`CacheFinished`), no upload has found the competition open (`NoOverlap`), hence the
score is the one that was billed (`Settled`). `crossed` and `overlapped` are what was
there, and nothing else excuses a late upload.

**Score caches** (`ScoreCachesProofs`). `TypeCorrect`; `RankingShowsLastFile`,
`ListsShowLastFile` and `RankingsMoveForward`, with any organizers, readers, files, restarts and failing
commits. As long as nothing has crossed a commit, at most one upload is updating
(`Uncrossed`), and what is in the caches or about to be set is the last file or the
rows (`Fresh`). The lists of players who dropped out need more: while no restart
has happened both caches are full and no reader ever misses (`Warm`), so that an
upload finds in `rankingCache` whom it has to remove (`WarmUncrossed`).

**Scoreboard** (`ScoreboardProofs`). `TypeCorrect`, `RankingsAreRight`,
`PagesAddUp`, `ListsAreRight`, for any files, competitions and page size. First what
the helpers compute: the loop over a file is a fold, and at each row it equals "the
last row so far of each player", of which a first exception would be a row that the
loop step contradicts; so the upload ranks the same rows that the query joins.
Finitely many rows with different numbers can be sorted (again a least
counterexample, on the size), and a sorted enumeration is what both rank. Then the
invariants: a cached ranking is the upload's, or after a restart the query's, and the
two differ by the guests; for the pages, a reader who is not paging has seen nothing,
and a hit and a miss continue a prefix of one of the two alike. A list that is not
`spoilt` ascends and has just the scores there are. Replacing an entry, appending one
and taking one out keep that, whatever the order of the competitions; insertion does
not, and is what `spoilt` records.

**Players** (`PlayersProofs`). `TypeCorrect`, `BarredAreTurnedAway`,
`OrganizersToldTrue`, `NewcomersAreBarred`, `NobodyRefusedUnjustly`. `TurnedAway` speaks of an answer;
the invariant `Barred` also says what makes it so: a barred player's row is
disqualified, the entry is not active, and nobody is about to set it so. `Fresh`
says that no request ever gets as far as the row of a player of this process, which
rests on `Adding`, the order of cache and table in `playersAddHandler`.

**Tenants** (`TenantsProofs`). `TypeCorrect`, `StayHome`, `AddedAreUsable`,
`FinishedAreBilled`, `PagesLeaveNobodyOut`, for any initial data, page size and
number of tenants. The caches agree with the table (`Cached`) unless an initialize
failed, because ids are not given out twice, and a forwarded request, whatever id it
names, caches no row but the table's; a bill is missing only while its finish is at
work, or after one broke off (`Bills`); a pager has seen all due tenants from the last id on
(`Walks`), because a page is a top segment of the ids below it. That an empty page
means no ids below uses that a nonempty finite set of numbers has a largest one.

**MutexMap** (`LibraryProofs`). `TypeCorrect`, `OneMutexForEachKey`,
`MutualExclusion`, and `Refinement`, that every step is a step of `KeyedLock` or a
stutter, for any threads, keys and supply of mutexes. `Inv` adds to the mutexes'
identity who is where with which of them (`Holding`, `HeldBy`).

**Tracer** (`TracerProofs`). `TypeCorrect`, `NoAppendIsLost`, `RowsAccountForAll`,
`ExtremesAreRight`, `ReportsAgree`, for any metrics, paths, queries, durations, calls
of `StartTrace` and faults. That an append stays within the array of its log is not
in what it reads: the log may have been cleared since, or have been brought back. But
every append lengthens its log once, so no length read or written exceeds the number
of metrics that have lengthened the log (`Bounded`). `Kept`: whoever is in the middle
of an append has the true length, or that of a log that keeps nothing.

A statistic is a fold over positions. What it counts and sums, and when its extremes
are right (`Tells`), holds of every finite set of positions: among those it fails for
one would have the fewest elements, and the last step of its fold contradicts it
(`StatTells`). Rows share no position, so their counts and totals are those of all
positions (`SumOfGroups`: sums over disjoint groups, again by a smallest
counterexample). With `RowsMade`, what the rows of a report were made of, this gives
the first two theorems on reports. The third compares two passes over a log that is
appended to in between. The metrics of the first pass are still in it (`StillThere`)
because an append under way writes behind what that pass saw; but that is inductive
only together with `Reach`, that a log is not longer than the length such an append
has read, plus one where it has written it already.

**QuerySampler** (`QuerySamplerProofs`). `OneSampleOfEachAlias`, `SamplesAreKept`, for
any capacity of the first array. The same count bounds the lengths here, where nothing
is locked (`Bounded`); a query is at one place in whichever arrays it has been copied
to (`OnePlace`) and an alias is marked once (`MarkedOnce`). While no append has come
between the steps of another, at most one is under way, and pointer, length and
capacity belong together but for what that one has written of them (`Alone`); then
every element lands in its array, also in the one that has just been made.

**Model-checked only**: the liveness properties `WaitIsAnswered`,
`FinishAnswered`, `VisitStored`, `EverybodyServed` (liveness is beyond the prover).

## Not modelled

* Errors of SQL statements outside `Competition`, other than those named above: the
  handler returns with what it did so far. Nothing is rolled back in the caches.
* Rows as bytes, ids, wording, HTTP codes; the signature of a token and the roles in
  it, which are stateless checks.
* The tenant's other competitions in `Competition` and `ScoreCaches` (see above).
* In `Scoreboard`, what files of other tenants put into the lists they share: entries
  of those tenants' competitions.
* A reader serializing a list while `UpdateAll` edits its array in place (1491, 1513).
* What `initialize` does to requests, visits and uploads that are under way: it is
  called before anything else.
* Of tracing: HTTP clients (`hms`), the order and the layout of the rows, profiles,
  the SQLite log, and the middleware of frameworks that are not used.
* `GetOrSetLock`, `UpdateOrSet` and `Delete`, which have no caller. `tenantsAddHandler2`
  and `initializeHandler2`: they are registered routes (212, 237) for the workers of a
  sharded set-up, and what sent requests to them is commented out. Deployment; the
  ports in other languages.

## Plan

Done: all components that keep state, with a proof of every safety property that is
checked, but for the two that the model violates. Left, in order of what they could
find:

1. A reader of a list as a step of its own, over a shared array.
2. `initialize` while the queue and requests are at work.
