------------------------------ MODULE Tracer ------------------------------
(***************************************************************************)
(* trace.Tracer: goroutines record the metrics of requests and statements,  *)
(* each log under its mutex; StartTrace clears the logs and starts a        *)
(* goroutine that writes the report when the time is over.  Neither of the  *)
(* two takes a lock.  What they do with sampled queries is QuerySampler's.  *)
(*                                                                          *)
(* A log is a slice: StartTrace and the writer can come between an append's *)
(* read of the length, its write of the length and its write of the element *)
(* (the order of the compiler's code for append in place).  The element is  *)
(* then what was there before, or nil, of which the writer panics.  Slices  *)
(* have their capacity from the start, and a writer's pass over one is one  *)
(* step.                                                                    *)
(*                                                                          *)
(* The program traces no HTTP client: hms, which is like sms, stays empty   *)
(* and is left out.                                                         *)
(***************************************************************************)
EXTENDS TraceStats, FiniteSets

CONSTANTS
    None,
    Log,            \* of every metric, the log it goes to
    MaxStarts,      \* bound: calls of StartTrace
    MaxFaults       \* bound: reports that cannot be created

Logs == {"rms", "sms"}

Writers == 1 .. MaxStarts
Slots == 1 .. Cardinality(Metrics)

ASSUME ConstantsAssumption ==
    /\ IsFiniteSet(Metrics) /\ None \notin Metrics
    /\ Log \in [Metrics -> Logs]
    /\ Duration \in [Metrics -> Nat]
    /\ MaxStarts \in Nat /\ MaxFaults \in Nat

VARIABLES
    log,        \* the slices rms and sms
    mutex,      \* who holds rmsMutex and smsMutex
    pc,         \* of the goroutine that records a metric
    length,     \* the length it has read, of the log it holds
    starting,   \* where StartTrace is
    starts,     \* the calls there were
    writer,     \* of the goroutines that write
    headers,    \* the lengths a writer goes by
    rows,       \* the rows it has made
    report,     \* the file _trace.tsv
    faults

\* History variables.
VARIABLES
    kept,       \* whose appends have lengthened the log since it was cleared
    seen,       \* the metrics a writer's rows are made of
    cut         \* writers in the middle of which sms was cleared, and those whose
                \* rows show the old element of an append's place

recording == <<log, mutex, pc, length, kept>>
writing == <<writer, headers, rows, seen, cut>>
vars == <<recording, writing, report, starting, starts, faults>>

Slice == [len : 0 .. Cardinality(Metrics), cell : [Slots -> Metrics \cup {None}]]
EmptySlice == [len |-> 0, cell |-> [i \in Slots |-> None]]

\* The elements up to a length that was read, nil ones included.
Pass(slice, n) == [i \in 1 .. n |-> slice.cell[i]]
HasNil(slice, n) == None \in ToSet(Pass(slice, n))
Elements(slice) == ToSet(Pass(slice, slice.len))

NoReport == [rows |-> {}, sql |-> << >>, whole |-> TRUE]

TypeOK ==
    /\ log \in [Logs -> Slice]
    /\ mutex \in [Logs -> Metrics \cup {None}]
    /\ pc \in [Metrics -> {"new", "made", "locked", "longer", "done"}]
    /\ \A l \in Logs : mutex[l] # None <=>
           \E m \in Metrics : Log[m] = l /\ pc[m] \in {"locked", "longer"}
    /\ length \in [Logs -> 0 .. Cardinality(Metrics)]
    /\ starting \in {"no", "sms"}
    /\ starts \in 0 .. MaxStarts
    /\ writer \in [Writers -> {"none", "sleep", "rows", "sql", "done"}]
    /\ headers \in [Writers -> [Logs -> 0 .. Cardinality(Metrics)]]
    /\ DOMAIN report = {"rows", "sql", "whole"}
    /\ kept \in [Logs -> SUBSET Metrics]
    /\ cut \subseteq Writers /\ faults \in 0 .. MaxFaults

Init ==
    /\ log = [l \in Logs |-> EmptySlice]
    /\ mutex = [l \in Logs |-> None]
    /\ length = [l \in Logs |-> 0]
    /\ starting = "no"
    /\ headers = [k \in Writers |-> [l \in Logs |-> 0]]
    /\ rows = [k \in Writers |-> {}]
    /\ kept = [l \in Logs |-> {}]
    /\ seen = [k \in Writers |-> << >>]
    /\ cut = {}
    /\ pc = [m \in Metrics |-> "new"]
    /\ starts = 0
    /\ writer = [k \in Writers |-> "none"]
    /\ report = NoReport
    /\ faults = 0

-----------------------------------------------------------------------------
\* Recording.  The middleware of a route, SubStart's stop and SQLLogger.Log make
\* a metric and a goroutine that appends it.

Make(m) ==
    /\ pc[m] = "new"
    /\ pc' = [pc EXCEPT ![m] = "made"]
    /\ UNCHANGED <<log, mutex, length, kept, writing, report, starting, starts, faults>>

InLogs == UNCHANGED <<writing, report, starting, starts, faults>>

\* Mutant: appends are not serialized.
LockNot(m) ==
    /\ pc[m] = "made"
    /\ mutex' = [mutex EXCEPT ![Log[m]] = m]
    /\ length' = [length EXCEPT ![Log[m]] = log[Log[m]].len]
    /\ pc' = [pc EXCEPT ![m] = "locked"]
    /\ UNCHANGED <<log, kept>> /\ InLogs

Lock(m) ==
    /\ pc[m] = "made"
    /\ mutex[Log[m]] = None
    /\ mutex' = [mutex EXCEPT ![Log[m]] = m]
    /\ length' = [length EXCEPT ![Log[m]] = log[Log[m]].len]
    /\ pc' = [pc EXCEPT ![m] = "locked"]
    /\ UNCHANGED <<log, kept>> /\ InLogs

Lengthen(m) ==
    /\ pc[m] = "locked"
    /\ log' = [log EXCEPT ![Log[m]].len = length[Log[m]] + 1]
    /\ kept' = [kept EXCEPT ![Log[m]] = @ \cup {m}]
    /\ pc' = [pc EXCEPT ![m] = "longer"]
    /\ UNCHANGED <<mutex, length>> /\ InLogs

\* Mutant: the mutex is not unlocked.
FillKeepingLock(m) ==
    /\ pc[m] = "longer"
    /\ log' = [log EXCEPT ![Log[m]].cell[length[Log[m]] + 1] = m]
    /\ pc' = [pc EXCEPT ![m] = "done"]
    /\ UNCHANGED <<mutex, length, kept>> /\ InLogs

Fill(m) ==
    /\ pc[m] = "longer"
    /\ log' = [log EXCEPT ![Log[m]].cell[length[Log[m]] + 1] = m]
    /\ mutex' = [mutex EXCEPT ![Log[m]] = None]
    /\ length' = [length EXCEPT ![Log[m]] = 0]
    /\ pc' = [pc EXCEPT ![m] = "done"]
    /\ UNCHANGED kept /\ InLogs

-----------------------------------------------------------------------------
\* StartTrace, called by initialize.  The elements stay in their arrays.

Clear(l) ==
    /\ log' = [log EXCEPT ![l].len = 0]
    /\ kept' = [kept EXCEPT ![l] = {}]
    /\ UNCHANGED <<mutex, pc, length>>

StartTrace ==
    /\ starting = "no" /\ starts < MaxStarts
    /\ starts' = starts + 1
    /\ Clear("rms")
    /\ starting' = "sms"
    /\ UNCHANGED <<writing, report, faults>>

ClearSms ==
    /\ starting = "sms"
    /\ Clear("sms")
    /\ cut' = cut \cup {k \in Writers : writer[k] \in {"rows", "sql"}}
    /\ writer' = [writer EXCEPT ![starts] = "sleep"]
    /\ starting' = "no"
    /\ UNCHANGED <<headers, rows, seen, report, starts, faults>>

-----------------------------------------------------------------------------
\* The goroutine of StartTrace: writeStats.

Fault == faults < MaxFaults /\ faults' = faults + 1

Write(k, step) == writer' = [writer EXCEPT ![k] = step]

\* The panic of a goroutine ends the process; external: it is started anew.
Panic ==
    /\ log' = [l \in Logs |-> EmptySlice]
    /\ mutex' = [l \in Logs |-> None]
    /\ length' = [l \in Logs |-> 0]
    /\ starting' = "no"
    /\ headers' = [k \in Writers |-> [l \in Logs |-> 0]]
    /\ rows' = [k \in Writers |-> {}]
    /\ kept' = [l \in Logs |-> {}]
    /\ seen' = [k \in Writers |-> << >>]
    /\ cut' = {}
    /\ pc' = [m \in Metrics |-> IF pc[m] = "new" THEN "new" ELSE "done"]
    /\ writer' = [k \in Writers |-> IF k <= starts THEN "done" ELSE "none"]
    /\ UNCHANGED <<report, starts, faults>>

\* time.Sleep is over; the slices are read for makeRequestStats.
WakeUp(k) ==
    /\ writer[k] = "sleep"
    /\ headers' = [headers EXCEPT ![k] = [l \in Logs |-> log[l].len]]
    /\ Write(k, "rows")
    /\ UNCHANGED <<recording, rows, seen, cut, report, starting, starts, faults>>

\* What writer k keeps to itself is of no use afterwards.
Finish(k) ==
    /\ Write(k, "done")
    /\ headers' = [headers EXCEPT ![k] = [l \in Logs |-> 0]]
    /\ rows' = [rows EXCEPT ![k] = {}]
    /\ seen' = [seen EXCEPT ![k] = << >>]
    /\ cut' = cut \ {k}

\* An append has written the length of sms, and not yet the element, which the
\* writer goes by.
Torn(k) ==
    \E m \in Metrics :
        Log[m] = "sms" /\ pc[m] = "longer" /\ length["sms"] < headers[k]["sms"]

\* The rows, and the file, of which os.Create leaves nothing.
MakeRows(k) ==
    /\ writer[k] = "rows"
    /\ \A l \in Logs : ~HasNil(log[l], headers[k][l])
    /\ LET metrics == [l \in Logs |-> Pass(log[l], headers[k][l])]
       IN  /\ rows' = [rows EXCEPT ![k] = makeRequestStats(metrics["rms"], metrics["sms"])]
           /\ seen' = [seen EXCEPT ![k] = metrics]
    /\ cut' = IF Torn(k) THEN cut \cup {k} ELSE cut
    /\ report' = NoReport
    /\ Write(k, "sql")
    /\ UNCHANGED <<recording, headers, starting, starts, faults>>

\* The error of os.Create is not looked at.
CreateFails(k) ==
    /\ writer[k] = "rows"
    /\ \A l \in Logs : ~HasNil(log[l], headers[k][l])
    /\ Fault
    /\ Finish(k)
    /\ UNCHANGED <<recording, report, starting, starts>>

\* The section of all statements is of sms as it is now.
WriteStats(k) ==
    /\ writer[k] = "sql"
    /\ ~HasNil(log["sms"], log["sms"].len)
    /\ report' = [rows  |-> rows[k],
                  sql   |-> makeStats(Pass(log["sms"], log["sms"].len), 1 .. log["sms"].len),
                  whole |-> k \notin cut]
    /\ Finish(k)
    /\ UNCHANGED <<recording, starting, starts, faults>>

MeetsNil(k) ==
    \/ writer[k] = "rows" /\ \E l \in Logs : HasNil(log[l], headers[k][l])
    \/ writer[k] = "sql" /\ HasNil(log["sms"], log["sms"].len)

WriterPanics(k) == MeetsNil(k) /\ Panic

-----------------------------------------------------------------------------
Recorder(m) == Make(m) \/ Lock(m) \/ Lengthen(m) \/ Fill(m)

Writer(k) ==
    WakeUp(k) \/ MakeRows(k) \/ CreateFails(k) \/ WriteStats(k) \/ WriterPanics(k)

Next ==
    \/ \E m \in Metrics : Recorder(m)
    \/ StartTrace \/ ClearSms
    \/ \E k \in Writers : Writer(k)

Spec == Init /\ [][Next]_vars

-----------------------------------------------------------------------------
\* What was appended since a log was cleared is in it, whatever comes between the
\* steps of other appends (rmsMutex, smsMutex), and an append in the middle of
\* which it was cleared does no harm to those that follow.
NothingLost ==
    \A l \in Logs : \A m \in kept[l] : pc[m] = "done" => m \in Elements(log[l])

\* Of every statement and request that was read there is a count and a duration
\* in the rows, once: in its endpoint's row, or among the unknown ones.
RowsAddUp ==
    \A k \in Writers : writer[k] = "sql" =>
        LET sms == seen[k]["sms"]
        IN  /\ \A m \in Metrics :
                   Log[m] = "sms" =>
                       SqlCount(rows[k], Query[m]) =
                           Cardinality(Having(sms, DOMAIN sms, Query, Query[m]))
            /\ SumFunction([r \in rows[k] |-> r.requests.count]) = Len(seen[k]["rms"])
            /\ SumFunction([r \in rows[k] |-> TotalsOf(r.sql)]) =
                   SumFunction([i \in DOMAIN sms |-> Duration[sms[i]]])

\* "min(ms)" and "max(ms)" are durations of the query at that endpoint, and all
\* others are between the two.  But a duration of 0 is forgotten, and with it the
\* shortest of those before it.
ShortestAndLongest ==
    \A k \in Writers : writer[k] = "sql" =>
        \A r \in rows[k] : \A q \in DOMAIN r.sql :
            LET sms == seen[k]["sms"]
                ds  == {Duration[sms[i]] : i \in Having(sms, DOMAIN sms, Path, r.path)
                                                    \cap Having(sms, DOMAIN sms, Query, q)}
            IN  /\ {r.sql[q].min, r.sql[q].max} \subseteq ds
                /\ \A d \in ds : d <= r.sql[q].max
                /\ 0 \notin ds => \A d \in ds : r.sql[q].min <= d

\* The section of all statements has everything the rows have (and what was
\* recorded in between), unless a trace was started in the middle of it, or its
\* rows were made of what an append had not yet written.
SectionsAgree ==
    report.whole => \A m \in Metrics :
        LET n == SqlCount(report.rows, Query[m])
        IN  n > 0 => Query[m] \in DOMAIN report.sql /\ report.sql[Query[m]].count >= n
=============================================================================
