--------------------------- MODULE QuerySampler ---------------------------
(***************************************************************************)
(* bindedSQLLogger of trace/sql.go: one query of each alias is kept for the *)
(* file of EXPLAINs.  SQLLogger.Log starts a goroutine for each statement;  *)
(* StartTrace replaces the list and the set of aliases, and its goroutine   *)
(* writes the file.                                                         *)
(*                                                                          *)
(* The set is marked under l.m, but the list is appended to with no lock    *)
(* held, and StartTrace and the writer take none.  An append reads the      *)
(* slice (pointer, length, capacity); when that is full, copies the elements *)
(* to an array of twice the capacity and writes the new capacity and the new *)
(* pointer; writes the length; and writes the element into the array it     *)
(* holds (the order of the compiler's code for append in place).  Others    *)
(* come in between.  An append that is overtaken overwrites or is           *)
(* overwritten, goes on with an array nobody else holds, or, of a pointer   *)
(* and a capacity that do not belong together, writes outside the array;    *)
(* what it overwrites there is not modelled.  An element that is not        *)
(* written is what was there before, or nil, of which the writer panics.    *)
(* The slice is read in one step, and its elements in that step by the copy *)
(* and in one step by the writer.                                           *)
(***************************************************************************)
EXTENDS Naturals, FiniteSets, SequencesExt

CONSTANTS
    Statements,     \* the statements that are logged
    Skipped,        \* of those: PrepareContext and StmtClose
    Alias,          \* of a statement: what tells its query from others
    Text,           \* and what its query is: see Texts
    Capacity,       \* of the list's first array: 30 in the code
    None,
    MaxStarts,      \* bound: calls of StartTrace
    MaxFaults       \* bound: files that cannot be created, EXPLAINs that fail

\* No query at all (a transaction); one longer than queryLenLimit; one EXPLAIN is
\* for; another one.
Texts == {"empty", "long", "explainable", "other"}

Writers == 1 .. MaxStarts
Slots == 1 .. Cardinality(Statements)

\* The first array of the list, and the one a statement's append has made.
Arrays == {None} \cup Statements

ASSUME ConstantsAssumption ==
    /\ IsFiniteSet(Statements) /\ None \notin Statements
    /\ Skipped \subseteq Statements
    /\ DOMAIN Alias = Statements /\ Text \in [Statements -> Texts]
    /\ Capacity \in Nat \ {0}
    /\ MaxStarts \in Nat /\ MaxFaults \in Nat

VARIABLES
    sampled,    \* the aliases there is a sample of
    array, len, cap,    \* the slice queries: pointer, length and capacity
    cell,       \* the elements of each array
    size,       \* and how many there is room for, 0 before it is made
    pc,         \* of the goroutine of a statement
    slice,      \* the array and the length its append goes on with
    starting,   \* where StartTrace is
    starts,     \* the calls there were
    writer,     \* of the goroutines that write
    explain,    \* the file _explain.sql
    faults

\* History variables.
VARIABLES
    fresh,      \* who has marked an alias in the present set
    raced       \* appends have come between the steps of others since StartTrace,
                \* were under way when it was called, or had left the slice torn

header == <<array, len, cap>>
appending == <<header, cell, size, slice>>
sampling == <<sampled, appending, pc, fresh, raced>>
vars == <<sampling, starting, starts, writer, explain, faults>>

Outcomes == {"too long query", "bound", "explained"}

TypeOK ==
    /\ sampled \subseteq {Alias[s] : s \in Statements}
    /\ array \in Arrays /\ len \in 0 .. Cardinality(Statements) /\ cap \in Nat
    /\ cell \in [Arrays -> [Slots -> Statements \cup {None}]]
    /\ size \in [Arrays -> Nat]
    /\ pc \in [Statements -> {"new", "look", "mark", "append", "grown", "larger",
                              "write", "longer", "done"}]
    /\ slice \in [Statements -> [array : Arrays, len : 0 .. Cardinality(Statements)]]
    /\ starting \in {"no", "sampled"}
    /\ starts \in 0 .. MaxStarts
    /\ writer \in [Writers -> {"none", "sleep", "done"}]
    /\ explain \in Seq([statement : Statements, outcome : Outcomes])
    /\ faults \in 0 .. MaxFaults
    /\ fresh \subseteq Statements /\ raced \in BOOLEAN

\* newSQLLogger.
NewCell == [a \in Arrays |-> [i \in Slots |-> None]]
NewSize == [a \in Arrays |-> IF a = None THEN Capacity ELSE 0]
NewSlice == [s \in Statements |-> [array |-> None, len |-> 0]]

Init ==
    /\ sampled = {}
    /\ array = None /\ len = 0 /\ cap = Capacity
    /\ cell = NewCell /\ size = NewSize /\ slice = NewSlice
    /\ pc = [s \in Statements |-> "new"]
    /\ starting = "no"
    /\ starts = 0
    /\ writer = [k \in Writers |-> "none"]
    /\ explain = << >>
    /\ faults = 0
    /\ fresh = {}
    /\ raced = FALSE

-----------------------------------------------------------------------------
\* Who has marked an alias and not appended its query.
Appending == {s \in Statements : pc[s] \in {"append", "grown", "larger", "write", "longer"}}

\* Pointer, length and capacity belong together.
Whole == cap = size[array] /\ len <= cap

Goto(s, step) == pc' = [pc EXCEPT ![s] = step]

InQueries == UNCHANGED <<starting, starts, writer, explain, faults>>

\* SQLLogger.Log; the metric it makes too is Tracer's.
Logged(s) ==
    /\ pc[s] = "new"
    /\ Goto(s, IF s \in Skipped THEN "done" ELSE "look")
    /\ UNCHANGED <<sampled, appending, fresh, raced>> /\ InQueries

\* bindedQuery: a look at the set under the read lock.
Look(s) ==
    /\ pc[s] = "look"
    /\ Goto(s, IF Alias[s] \in sampled THEN "done" ELSE "mark")
    /\ UNCHANGED <<sampled, appending, fresh, raced>> /\ InQueries

\* Mutant: no second look.
MarkAgain(s) ==
    /\ pc[s] = "mark"
    /\ sampled' = sampled \cup {Alias[s]}
    /\ fresh' = fresh \cup {s}
    /\ Goto(s, IF Text[s] = "empty" THEN "done" ELSE "append")
    /\ UNCHANGED <<appending, raced>> /\ InQueries

\* Another look, and the mark, under the write lock.
Mark(s) ==
    /\ pc[s] = "mark"
    /\ \/ /\ Alias[s] \in sampled
          /\ Goto(s, "done")
          /\ UNCHANGED <<sampled, fresh>>
       \/ /\ Alias[s] \notin sampled
          /\ sampled' = sampled \cup {Alias[s]}
          /\ fresh' = fresh \cup {s}
          /\ Goto(s, IF Text[s] = "empty" THEN "done" ELSE "append")
    /\ UNCHANGED <<appending, raced>> /\ InQueries

\* append finds the slice full: growslice.
Grow(s) ==
    /\ len + 1 > cap
    /\ cell' = [cell EXCEPT ![s] =
                   [i \in Slots |-> IF i <= len THEN cell[array][i] ELSE None]]
    /\ size' = [size EXCEPT ![s] = Max({2 * cap, len + 1})]
    /\ slice' = [slice EXCEPT ![s] = [array |-> s, len |-> len]]
    /\ Goto(s, "grown")

ReadSlice(s) ==
    /\ pc[s] = "append"
    /\ \/ Grow(s)
       \/ /\ len + 1 <= cap
          /\ slice' = [slice EXCEPT ![s] = [array |-> array, len |-> len]]
          /\ Goto(s, "write")
          /\ UNCHANGED <<cell, size>>
    /\ raced' = (raced \/ \E t \in Appending \ {s} : pc[t] # "append")
    /\ UNCHANGED <<sampled, header, fresh>> /\ InQueries

WriteCapacity(s) ==
    /\ pc[s] = "grown"
    /\ cap' = size[s]
    /\ Goto(s, "larger")
    /\ UNCHANGED <<sampled, array, len, cell, size, slice, fresh, raced>> /\ InQueries

WritePointer(s) ==
    /\ pc[s] = "larger"
    /\ array' = s
    /\ Goto(s, "write")
    /\ UNCHANGED <<sampled, len, cap, cell, size, slice, fresh, raced>> /\ InQueries

\* Mutant: the result of append is not assigned.
DropLength(s) ==
    /\ pc[s] = "write"
    /\ Goto(s, "longer")
    /\ UNCHANGED <<sampled, appending, fresh, raced>> /\ InQueries

WriteLength(s) ==
    /\ pc[s] = "write"
    /\ len' = slice[s].len + 1
    /\ Goto(s, "longer")
    /\ UNCHANGED <<sampled, array, cap, cell, size, slice, fresh, raced>> /\ InQueries

\* Where an append writes its element, and whether that is in its array.
Slot(s) == slice[s].len + 1
Fits(s) == Slot(s) <= size[slice[s].array]

WriteElement(s) ==
    /\ pc[s] = "longer"
    /\ cell' = IF Fits(s) THEN [cell EXCEPT ![slice[s].array][Slot(s)] = s] ELSE cell
    /\ slice' = [slice EXCEPT ![s] = [array |-> None, len |-> 0]]
    /\ Goto(s, "done")
    /\ UNCHANGED <<sampled, header, size, fresh, raced>> /\ InQueries

-----------------------------------------------------------------------------
\* StartTrace: two assignments, and the goroutine.  Of the slice only the length
\* is written; the elements stay in their array.
StartTrace ==
    /\ starting = "no" /\ starts < MaxStarts
    /\ starts' = starts + 1
    /\ len' = 0
    /\ starting' = "sampled"
    /\ UNCHANGED <<sampled, array, cap, cell, size, pc, slice, fresh, raced, writer, explain,
                   faults>>

ReplaceSampled ==
    /\ starting = "sampled"
    /\ sampled' = {}
    /\ fresh' = {}
    /\ raced' = (Appending # {} \/ ~Whole)
    /\ writer' = [writer EXCEPT ![starts] = "sleep"]
    /\ starting' = "no"
    /\ UNCHANGED <<appending, pc, starts, explain, faults>>

-----------------------------------------------------------------------------
\* The goroutine of StartTrace: writeExplain, after writeStats.

Fault == faults < MaxFaults /\ faults' = faults + 1

\* Beyond the array there is nothing to be taken for a query.
Queries == [i \in 1 .. len |-> cell[array][i]]
HasNil == None \in ToSet(Queries)

\* What the file has for a query.  When its EXPLAIN fails, that is logged, and the
\* next query's turn comes.
Explained(s, failed) ==
    [statement |-> s,
     outcome   |-> CASE Text[s] = "long"  -> "too long query"
                     [] Text[s] = "other" -> "bound"
                     [] OTHER             -> IF failed THEN "bound" ELSE "explained"]

\* Mutant: nil elements go into the file.
WriteNils(k) ==
    /\ writer[k] = "sleep"
    /\ explain' = [i \in 1 .. len |-> [statement |-> Queries[i], outcome |-> "bound"]]
    /\ writer' = [writer EXCEPT ![k] = "done"]
    /\ UNCHANGED <<sampling, starting, starts, faults>>

WriteExplain(k) ==
    /\ writer[k] = "sleep"
    /\ ~HasNil
    /\ \/ /\ explain' = [i \in 1 .. len |-> Explained(Queries[i], FALSE)]
          /\ UNCHANGED faults
       \/ /\ Fault
          /\ \E failed \in 1 .. len :
                 explain' = [i \in 1 .. len |-> Explained(Queries[i], i = failed)]
    /\ writer' = [writer EXCEPT ![k] = "done"]
    /\ UNCHANGED <<sampling, starting, starts>>

\* os.Create fails: the file is as it was.
CreateFails(k) ==
    /\ writer[k] = "sleep"
    /\ Fault
    /\ writer' = [writer EXCEPT ![k] = "done"]
    /\ UNCHANGED <<sampling, starting, starts, explain>>

\* The panic of a goroutine ends the process; external: it is started anew.
WriterPanics(k) ==
    /\ writer[k] = "sleep"
    /\ HasNil
    /\ sampled' = {} /\ fresh' = {} /\ raced' = FALSE
    /\ array' = None /\ len' = 0 /\ cap' = Capacity
    /\ cell' = NewCell /\ size' = NewSize /\ slice' = NewSlice
    /\ pc' = [s \in Statements |-> IF pc[s] = "new" THEN "new" ELSE "done"]
    /\ starting' = "no"
    /\ writer' = [w \in Writers |-> IF w <= starts THEN "done" ELSE "none"]
    /\ UNCHANGED <<starts, explain, faults>>

-----------------------------------------------------------------------------
Sampler(s) ==
    \/ Logged(s) \/ Look(s) \/ Mark(s)
    \/ ReadSlice(s) \/ WriteCapacity(s) \/ WritePointer(s)
    \/ WriteLength(s) \/ WriteElement(s)

Writer(k) == WriteExplain(k) \/ CreateFails(k) \/ WriterPanics(k)

Next ==
    \/ \E s \in Statements : Sampler(s)
    \/ StartTrace \/ ReplaceSampled
    \/ \E k \in Writers : Writer(k)

Spec == Init /\ [][Next]_vars

-----------------------------------------------------------------------------
\* "sampled": of the queries in the list that were marked in the present set no
\* two are of one alias, though the look and the mark are two critical sections.
SampledOnce ==
    \A i, j \in 1 .. len :
        i # j /\ {Queries[i], Queries[j]} \subseteq fresh => Alias[Queries[i]] # Alias[Queries[j]]

\* While appends, for which no lock is held, do not come between the steps of one
\* another, and none is under way in StartTrace, every append writes in its array,
\* also when that has just grown, and an alias that is marked has its query in the
\* list once that is appended.
SampledKept ==
    starting = "no" /\ ~raced =>
        /\ \A s \in Statements : pc[s] = "longer" => Fits(s)
        /\ \A s \in fresh \ Appending : Text[s] # "empty" => s \in ToSet(Queries)
=============================================================================
