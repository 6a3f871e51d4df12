---------------------------- MODULE TraceStats ----------------------------
(***************************************************************************)
(* The statistics of trace/trace.go: pure functions from the metrics of a   *)
(* trace, in the order they were recorded, to the rows of the report.       *)
(*                                                                          *)
(* A statistic is the count, the shortest, the longest and the total of     *)
(* some durations (mean and cpr are quotients of these).  What is put       *)
(* together in one are positions in the sequence of metrics.  Rows are a    *)
(* set: their order in the report, by descending total, is left out, and so *)
(* is the word "unknown", which the report has for the path of a row        *)
(* without requests.                                                        *)
(***************************************************************************)
EXTENDS Naturals, Sequences, SequencesExt

CONSTANTS
    Metrics,
    Path,       \* of every metric, the endpoint it was made for
    Query,      \* its query, with what sqldb-logger was told of it
    Duration

Zero == [count |-> 0, min |-> 0, max |-> 0, total |-> 0]

\* Mutant: the first duration is compared with the 0 of an empty statistic.
CountFromZero(s, d) ==
    [count |-> s.count + 1,
     min   |-> IF d < s.min THEN d ELSE s.min,
     max   |-> IF d > s.max THEN d ELSE s.max,
     total |-> s.total + d]

\* A shortest duration of 0 counts as none.
CountIn(s, d) ==
    [count |-> s.count + 1,
     min   |-> IF d < s.min \/ s.min = 0 THEN d ELSE s.min,
     max   |-> IF d > s.max THEN d ELSE s.max,
     total |-> s.total + d]

\* From the first of some positions to the last.
Stat(ms, positions) ==
    MapThenFoldSet(LAMBDA m, s : CountIn(s, Duration[m]), Zero,
                   LAMBDA i : ms[i], LAMBDA S : Max(S), positions)

Having(ms, positions, field, v) == {i \in positions : field[ms[i]] = v}

Values(ms, positions, field) == {field[ms[i]] : i \in positions}

makeStats(ms, positions) ==
    [q \in Values(ms, positions, Query) |-> Stat(ms, Having(ms, positions, Query, q))]

makeStatsMap(ms) ==
    [p \in Values(ms, DOMAIN ms, Path) |-> makeStats(ms, Having(ms, DOMAIN ms, Path, p))]

\* The statistics of a path, none when there are not any.
At(statsMap, p) == IF p \in DOMAIN statsMap THEN statsMap[p] ELSE << >>

Row(p, requests, sql) == [path |-> p, requests |-> requests, sql |-> sql]

Requests(rms, p) == Stat(rms, Having(rms, DOMAIN rms, Path, p))

\* Mutant: what a request's row has shown is not deleted from the map.
makeRequestStatsTwice(rms, sms) ==
    LET sql   == makeStatsMap(sms)
        known == Values(rms, DOMAIN rms, Path)
    IN  {Row(p, Requests(rms, p), At(sql, p)) : p \in known}
        \cup {Row(p, Zero, sql[p]) : p \in DOMAIN sql}

\* One row for each path with requests, and one for each of the other paths that
\* statements were made for.
makeRequestStats(rms, sms) ==
    LET sql   == makeStatsMap(sms)
        known == Values(rms, DOMAIN rms, Path)
    IN  {Row(p, Requests(rms, p), At(sql, p)) : p \in known}
        \cup {Row(p, Zero, sql[p]) : p \in DOMAIN sql \ known}

-----------------------------------------------------------------------------
\* Sums over what the report shows, for the properties.

TotalsOf(stats) == SumFunction([q \in DOMAIN stats |-> stats[q].total])

\* What the rows together say of query q.
SqlCount(rows, q) ==
    SumFunction([r \in rows |-> IF q \in DOMAIN r.sql THEN r.sql[q].count ELSE 0])
=============================================================================
