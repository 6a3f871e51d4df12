------------------------- MODULE QuerySamplerProofs -------------------------
(***************************************************************************)
(* What the sampler keeps, for any statements, aliases, capacity, calls of  *)
(* StartTrace and faults.                                                   *)
(*                                                                          *)
(* An append that has read the slice may be overtaken by any number of      *)
(* others, and by StartTrace, so what it writes says little of the list.    *)
(* But every append lengthens the list once: no length that is read or      *)
(* written exceeds the number of statements that have written one           *)
(* (Bounded).  A query has one place, in whichever arrays it is (OnePlace), *)
(* and nobody marks what is marked (MarkedOnce).  While no append has come  *)
(* between the steps of another, at most one is under way; the slice is     *)
(* whole but for what that one has written of a larger one, it goes on with *)
(* what the slice is or is to become, and there the queries before it are   *)
(* in their places too, which is what a copy must see to (Alone).           *)
(***************************************************************************)
EXTENDS QuerySampler, FiniteSetTheorems, TLAPS

\* Who has lengthened the list, since the process started at the latest.
Lengthened == {s \in Statements : pc[s] \in {"longer", "done"}}

Bounded ==
    /\ len <= Cardinality(Lengthened)
    /\ \A s \in Statements :
           /\ pc[s] \in {"grown", "larger", "write"} => slice[s].len <= Cardinality(Lengthened)
           /\ pc[s] = "longer" => Slot(s) <= Cardinality(Lengthened)

OnePlace ==
    /\ \A a \in Arrays, i \in Slots : cell[a][i] # None => pc[cell[a][i]] = "done"
    /\ \A a, b \in Arrays, i, j \in Slots :
           cell[a][i] # None /\ cell[a][i] = cell[b][j] => i = j

MarkedOnce ==
    /\ \A s \in fresh : Alias[s] \in sampled /\ pc[s] \in {"append", "grown", "larger", "write",
                                                           "longer", "done"}
    /\ \A s, t \in fresh : Alias[s] = Alias[t] => s = t

InAppend == {s \in Statements : pc[s] \in {"grown", "larger", "write", "longer"}}

\* The slice while s appends.
Amid(s) ==
    /\ len = IF pc[s] = "longer" THEN Slot(s) ELSE slice[s].len
    /\ Fits(s)
    /\ pc[s] \in {"grown", "larger"} => slice[s].array = s
    /\ pc[s] = "larger" => cap = size[s]
    /\ pc[s] \in {"write", "longer"} => slice[s].array = array /\ cap = size[array]

\* x is at i in the list, and in what an append that is under way makes of it.
Has(x, i) ==
    /\ cell[array][i] = x
    /\ \A t \in InAppend : i <= slice[t].len /\ cell[slice[t].array][i] = x

\* The list is as one append after the other leaves it.
Alone ==
    starting = "no" /\ ~raced =>
        /\ \A s, t \in InAppend : s = t
        /\ InAppend = {} => Whole
        /\ \A s \in InAppend : Amid(s)
        /\ \A x \in fresh : pc[x] = "done" /\ Text[x] # "empty" =>
               \E i \in 1 .. len : Has(x, i)

Inv == TypeOK /\ Bounded /\ OnePlace /\ MarkedOnce /\ Alone

-----------------------------------------------------------------------------
USE ConstantsAssumption

LEMMA InvInit == Init => Inv
<1> SUFFICES ASSUME Init
             PROVE  Inv
  OBVIOUS
<1> USE DEF Init
<1>1. Cardinality(Statements) \in Nat
  BY FS_CardinalityType
<1>2. TypeOK
  <2>1. raced \in BOOLEAN
    BY Zenon
  <2>2. explain \in Seq([statement : Statements, outcome : Outcomes])
    OBVIOUS
  <2>3. 0 \in 0 .. MaxStarts /\ 0 \in 0 .. MaxFaults /\ 0 \in 0 .. Cardinality(Statements)
    BY <1>1
  <2>4. /\ NewCell \in [Arrays -> [Slots -> Statements \cup {None}]]
        /\ NewSize \in [Arrays -> Nat]
        /\ NewSlice \in [Statements -> [array : Arrays, len : 0 .. Cardinality(Statements)]]
    BY <2>3 DEF NewCell, NewSize, NewSlice, Arrays
  <2> QED
    BY <1>1, <2>1, <2>2, <2>3, <2>4 DEF TypeOK, Arrays
<1>3. Cardinality(Lengthened) \in Nat
  BY FS_CardinalityType, FS_Subset DEF Lengthened
<1>4. Bounded /\ OnePlace /\ MarkedOnce
  BY <1>3 DEF Bounded, OnePlace, MarkedOnce, NewCell
<1>5. Alone
  BY DEF Alone, InAppend, Whole, Arrays, NewSize
<1> QED
  BY <1>2, <1>4, <1>5 DEF Inv

\* How many have lengthened the list.
LEMMA Lengths ==
  ASSUME TypeOK
  PROVE  /\ IsFiniteSet(Lengthened)
         /\ Cardinality(Lengthened) \in Nat
         /\ Cardinality(Lengthened) <= Cardinality(Statements)
         /\ \A s \in Statements \ Lengthened :
                /\ Cardinality(Lengthened) + 1 <= Cardinality(Statements)
                /\ Cardinality(Lengthened \cup {s}) = Cardinality(Lengthened) + 1
<1>1. Lengthened \subseteq Statements
  BY DEF Lengthened
<1>2. /\ IsFiniteSet(Lengthened) /\ Cardinality(Lengthened) \in Nat
      /\ Cardinality(Lengthened) <= Cardinality(Statements)
  BY <1>1, FS_Subset, FS_CardinalityType
<1>3. ASSUME NEW s \in Statements \ Lengthened
      PROVE  /\ Cardinality(Lengthened) + 1 <= Cardinality(Statements)
             /\ Cardinality(Lengthened \cup {s}) = Cardinality(Lengthened) + 1
  <2>1. Cardinality(Lengthened \cup {s}) = Cardinality(Lengthened) + 1
    BY <1>2, FS_AddElement
  <2>2. Cardinality(Lengthened \cup {s}) <= Cardinality(Statements)
    BY <1>1, FS_Subset
  <2> QED
    BY <2>1, <2>2
<1> QED
  BY <1>2, <1>3

\* Nobody comes back from having lengthened the list.
LEMMA LengthsGrow ==
  ASSUME TypeOK, TypeOK', Lengthened \subseteq Lengthened'
  PROVE  Cardinality(Lengthened) <= Cardinality(Lengthened')
<1>1. IsFiniteSet(Lengthened')
  BY FS_Subset DEF Lengthened
<1> QED
  BY <1>1, FS_Subset

LEMMA MaxOfTwo ==
  ASSUME NEW m \in Nat, NEW n \in Nat
  PROVE  Max({m, n}) \in Nat /\ m <= Max({m, n}) /\ n <= Max({m, n})
<1>1. CASE m <= n
  <2>1. Max({m, n}) = n
    BY <1>1 DEF Max
  <2> QED
    BY <1>1, <2>1
<1>2. CASE n < m
  <2>1. Max({m, n}) = m
    BY <1>2 DEF Max
  <2> QED
    BY <1>2, <2>1
<1> QED
  BY <1>1, <1>2

\* The types, under what every append is bounded by.
LEMMA TypeSampler ==
  ASSUME TypeOK, Bounded, NEW s \in Statements, Sampler(s)
  PROVE  TypeOK'
<1>1. /\ Cardinality(Statements) \in Nat
      /\ slice[s].array \in Arrays /\ slice[s].len \in 0 .. Cardinality(Statements)
      /\ pc[s] \in {"write", "longer"} => Slot(s) \in Slots
  <2>1. Cardinality(Statements) \in Nat
    BY FS_CardinalityType
  <2>2. slice[s].array \in Arrays /\ slice[s].len \in 0 .. Cardinality(Statements)
    BY DEF TypeOK
  <2>3. ASSUME pc[s] = "write"
        PROVE  Slot(s) \in Slots
    <3>1. s \notin Lengthened
      BY <2>3 DEF Lengthened
    <3>2. slice[s].len <= Cardinality(Lengthened)
      BY <2>3 DEF Bounded
    <3>3. Cardinality(Lengthened) \in Nat /\ Cardinality(Lengthened) + 1 <= Cardinality(Statements)
      BY <3>1, Lengths
    <3> QED
      BY <2>1, <2>2, <3>2, <3>3 DEF Slot, Slots
  <2>4. ASSUME pc[s] = "longer"
        PROVE  Slot(s) \in Slots
    <3>1. Slot(s) <= Cardinality(Lengthened)
      BY <2>4 DEF Bounded
    <3>2. Cardinality(Lengthened) \in Nat /\ Cardinality(Lengthened) <= Cardinality(Statements)
      BY Lengths
    <3> QED
      BY <2>1, <2>2, <3>1, <3>2 DEF Slot, Slots
  <2> QED
    BY <2>1, <2>2, <2>3, <2>4
<1> USE DEF TypeOK, Goto, InQueries, appending, header
<1>2. CASE Logged(s) \/ Look(s) \/ Mark(s)
  BY <1>2 DEF Logged, Look, Mark
<1>3. CASE ReadSlice(s)
  <2>1. raced' \in BOOLEAN
    BY <1>3, Zenon DEF ReadSlice
  <2>2. CASE Grow(s)
    <3>1. Max({2 * cap, len + 1}) \in Nat
      <4>1. 2 * cap \in Nat /\ len + 1 \in Nat
        BY <1>1
      <4> HIDE DEF TypeOK
      <4> QED
        BY <4>1, MaxOfTwo
    <3>2. size' \in [Arrays -> Nat]
      BY <2>2, <3>1 DEF Grow
    <3>3. cell' \in [Arrays -> [Slots -> Statements \cup {None}]]
      <4>1. \A i \in Slots : cell[array][i] \in Statements \cup {None}
        OBVIOUS
      <4>2. [i \in Slots |-> IF i <= len THEN cell[array][i] ELSE None]
                \in [Slots -> Statements \cup {None}]
        BY <4>1, Zenon
      <4> QED
        BY <2>2, <4>2 DEF Grow
    <3>4. slice' \in [Statements -> [array : Arrays, len : 0 .. Cardinality(Statements)]]
      BY <2>2 DEF Grow, Arrays
    <3> QED
      BY <1>3, <2>1, <2>2, <3>2, <3>3, <3>4 DEF ReadSlice, Grow
  <2>3. CASE ~ Grow(s)
    <3>1. slice' = [slice EXCEPT ![s] = [array |-> array, len |-> len]]
      BY <1>3, <2>3 DEF ReadSlice
    <3> QED
      BY <1>3, <2>1, <2>3, <3>1 DEF ReadSlice
  <2> QED
    BY <2>2, <2>3
<1>4. CASE WriteCapacity(s) \/ WritePointer(s)
  <2>1. size[s] \in Nat /\ s \in Arrays
    BY DEF Arrays
  <2>2. CASE WriteCapacity(s)
    BY <2>1, <2>2 DEF WriteCapacity
  <2>3. CASE WritePointer(s)
    BY <2>1, <2>3 DEF WritePointer
  <2> QED
    BY <1>4, <2>2, <2>3
<1>5. CASE WriteLength(s)
  BY <1>1, <1>5 DEF WriteLength, Slot, Slots
<1>6. CASE WriteElement(s)
  <2>1. slice' \in [Statements -> [array : Arrays, len : 0 .. Cardinality(Statements)]]
    BY <1>1, <1>6 DEF WriteElement, Arrays
  <2>2. cell' \in [Arrays -> [Slots -> Statements \cup {None}]]
    BY <1>1, <1>6 DEF WriteElement
  <2> QED
    BY <1>6, <2>1, <2>2 DEF WriteElement
<1> QED
  BY <1>2, <1>3, <1>4, <1>5, <1>6 DEF Sampler

LEMMA TypeWriter ==
  ASSUME TypeOK, NEW k \in Writers, Writer(k)
  PROVE  TypeOK'
<1> USE DEF TypeOK, sampling, appending, header
<1>1. Cardinality(Statements) \in Nat
  BY FS_CardinalityType
<1>2. CASE WriteExplain(k)
  <2> DEFINE Line == [statement : Statements, outcome : Outcomes]
  <2>1. \A i \in 1 .. len : Queries[i] \in Statements
    BY <1>1, <1>2 DEF WriteExplain, HasNil, Queries, ToSet, Slots
  <2>2. \A i \in 1 .. len : \A failed : Explained(Queries[i], i = failed) \in Line
    BY <2>1 DEF Explained, Outcomes
  <2>3. \A i \in 1 .. len : Explained(Queries[i], FALSE) \in Line
    BY <2>1 DEF Explained, Outcomes
  <2>4. len \in Nat
    BY <1>1
  <2>5. explain' \in [1 .. len -> Line]
    <3>1. CASE explain' = [i \in 1 .. len |-> Explained(Queries[i], FALSE)]
      <4> HIDE DEF Line, TypeOK
      <4> QED
        BY <2>3, <3>1
    <3>2. ASSUME NEW failed \in 1 .. len,
                 explain' = [i \in 1 .. len |-> Explained(Queries[i], i = failed)]
          PROVE  explain' \in [1 .. len -> Line]
      <4> HIDE DEF Line, TypeOK
      <4> QED
        BY <2>2, <3>2
    <3> QED
      BY <1>2, <3>1, <3>2, Zenon DEF WriteExplain
  <2>6. explain' \in Seq(Line)
    <3> HIDE DEF Line, TypeOK
    <3> QED
      BY <2>4, <2>5
  <2>7. faults' \in 0 .. MaxFaults
    <3>1. faults' = faults \/ Fault
      BY <1>2, Zenon DEF WriteExplain
    <3> QED
      BY <3>1 DEF Fault
  <2>8. UNCHANGED <<sampling, starting, starts>> /\ writer' = [writer EXCEPT ![k] = "done"]
    BY <1>2 DEF WriteExplain
  <2> QED
    BY <2>6, <2>7, <2>8
<1>3. CASE CreateFails(k)
  BY <1>3 DEF CreateFails, Fault
<1>4. CASE WriterPanics(k)
  <2>1. raced' \in BOOLEAN
    BY <1>4, Zenon DEF WriterPanics
  <2> QED
    BY <1>1, <1>4, <2>1 DEF WriterPanics, NewCell, NewSize, NewSlice, Arrays
<1> QED
  BY <1>2, <1>3, <1>4 DEF Writer

LEMMA TypeStart ==
  ASSUME TypeOK, StartTrace \/ ReplaceSampled \/ UNCHANGED vars
  PROVE  TypeOK'
<1> USE DEF TypeOK, sampling, appending, header
<1>1. Cardinality(Statements) \in Nat
  BY FS_CardinalityType
<1>2. CASE StartTrace
  BY <1>1, <1>2 DEF StartTrace
<1>3. CASE ReplaceSampled
  <2>1. raced' \in BOOLEAN
    BY <1>3, Zenon DEF ReplaceSampled
  <2> QED
    BY <1>3, <2>1 DEF ReplaceSampled
<1>4. CASE UNCHANGED vars
  BY <1>4 DEF vars
<1> QED
  BY <1>2, <1>3, <1>4

LEMMA TypeNext == TypeOK /\ Bounded /\ [Next]_vars => TypeOK'
  BY TypeSampler, TypeWriter, TypeStart DEF Next

-----------------------------------------------------------------------------
\* The rest of the invariant.

LEMMA BoundedNext ==
  ASSUME TypeOK, TypeOK', Bounded, [Next]_vars
  PROVE  Bounded'
<1> USE DEF Goto, InQueries, sampling, appending, header
<1>1. /\ Cardinality(Lengthened) \in Nat /\ Cardinality(Lengthened') \in Nat
      /\ len \in Nat /\ len' \in Nat
      /\ \A s \in Statements : slice[s].len \in Nat /\ slice'[s].len \in Nat
  <2>1. Cardinality(Statements) \in Nat
    BY FS_CardinalityType
  <2>2. IsFiniteSet(Lengthened) /\ IsFiniteSet(Lengthened')
    BY FS_Subset DEF Lengthened
  <2>3. Cardinality(Lengthened) \in Nat /\ Cardinality(Lengthened') \in Nat
    BY <2>2, FS_CardinalityType
  <2>4. len \in Nat /\ \A s \in Statements : slice[s].len \in Nat
    BY <2>1 DEF TypeOK
  <2>5. len' \in Nat /\ \A s \in Statements : slice'[s].len \in Nat
    BY <2>1 DEF TypeOK
  <2> QED
    BY <2>3, <2>4, <2>5
<1>2. ASSUME Lengthened \subseteq Lengthened'
      PROVE  Cardinality(Lengthened) <= Cardinality(Lengthened')
  BY <1>2, LengthsGrow
\* A length is read that was written, or forgotten with the statement.
<1> DEFINE Known(s) ==
             \/ pc'[s] \notin {"grown", "larger", "write", "longer"}
             \/ pc'[s] \in {"grown", "write"} /\ slice'[s].len = len
             \/ /\ \/ pc'[s] = pc[s]
                   \/ pc[s] \in {"grown", "larger"} /\ pc'[s] # "longer"
                /\ slice'[s].len = slice[s].len
<1>3. ASSUME Lengthened \subseteq Lengthened', len' \in {0, len}, \A s \in Statements : Known(s)
      PROVE  Bounded'
  <2> HIDE DEF Goto, InQueries, sampling, appending, header
  <2> QED
    BY <1>1, <1>2, <1>3 DEF Bounded, Slot
<1>4. ASSUME NEW s \in Statements,
             Logged(s) \/ Look(s) \/ Mark(s) \/ WriteCapacity(s) \/ WritePointer(s)
      PROVE  Bounded'
  <2>1. /\ \A t \in Statements : t # s => pc'[t] = pc[t]
        /\ Lengthened \subseteq Lengthened'
        /\ len' = len /\ slice' = slice
    BY <1>4 DEF TypeOK, Lengthened, Logged, Look, Mark, WriteCapacity, WritePointer
  <2>2. \/ pc'[s] \notin {"grown", "larger", "write", "longer"}
        \/ pc[s] \in {"grown", "larger"} /\ pc'[s] # "longer"
    BY <1>4 DEF TypeOK, Logged, Look, Mark, WriteCapacity, WritePointer
  <2> HIDE DEF Goto, InQueries, sampling, appending, header
  <2>3. ASSUME NEW t \in Statements
        PROVE  Known(t)
    <3>1. CASE t = s
      BY <2>1, <2>2, <3>1
    <3>2. CASE t # s
      BY <2>1, <3>2
    <3> QED
      BY <3>1, <3>2
  <2> HIDE DEF Known
  <2> QED
    BY <1>3, <2>1, <2>3
<1>5. ASSUME NEW s \in Statements, ReadSlice(s) \/ WriteElement(s)
      PROVE  Bounded'
  <2>1. /\ \A t \in Statements : t # s => pc'[t] = pc[t] /\ slice'[t] = slice[t]
        /\ Lengthened \subseteq Lengthened'
        /\ len' = len
    <3>1. /\ pc' = [pc EXCEPT ![s] = pc'[s]] /\ pc[s] \in {"append", "longer"}
          /\ pc[s] = "longer" => pc'[s] = "done"
          /\ slice' = [slice EXCEPT ![s] = slice'[s]]
          /\ len' = len
      BY <1>5 DEF TypeOK, ReadSlice, Grow, WriteElement
    <3> HIDE DEF Goto, InQueries, sampling, appending, header
    <3> QED
      BY <3>1 DEF TypeOK, Lengthened
  <2>2. \/ pc'[s] = "done"
        \/ pc'[s] \in {"grown", "write"} /\ slice'[s].len = len
    BY <1>5 DEF TypeOK, ReadSlice, Grow, WriteElement
  <2> HIDE DEF Goto, InQueries, sampling, appending, header
  <2>3. \A t \in Statements : Known(t)
    BY <2>1, <2>2
  <2> HIDE DEF Known
  <2> QED
    BY <1>3, <2>1, <2>3
<1>6. ASSUME NEW s \in Statements, WriteLength(s)
      PROVE  Bounded'
  <2>1. pc[s] = "write" /\ pc' = [pc EXCEPT ![s] = "longer"] /\ slice' = slice
        /\ len' = slice[s].len + 1
    BY <1>6 DEF WriteLength
  <2>4. \A t \in Statements : pc'[t] = IF t = s THEN "longer" ELSE pc[t]
    BY <2>1 DEF TypeOK
  <2>2. s \in Statements \ Lengthened /\ Lengthened' = Lengthened \cup {s}
    <3> HIDE DEF Goto, InQueries, sampling, appending, header
    <3> QED
      BY <2>1, <2>4 DEF Lengthened
  <2>3. Cardinality(Lengthened') = Cardinality(Lengthened) + 1
    BY <2>2, Lengths
  <2> QED
    BY <1>1, <2>1, <2>3, <2>4 DEF Bounded, Slot
<1>7. ASSUME StartTrace \/ ReplaceSampled \/ UNCHANGED vars
      PROVE  Bounded'
  <2>1. UNCHANGED <<pc, slice>> /\ len' \in {0, len}
    BY <1>7 DEF StartTrace, ReplaceSampled, vars
  <2> HIDE DEF Goto, InQueries, sampling, appending, header
  <2>2. Lengthened' = Lengthened /\ \A t \in Statements : Known(t)
    BY <2>1 DEF Lengthened
  <2> HIDE DEF Known
  <2> QED
    BY <1>3, <2>1, <2>2
<1>8. ASSUME NEW k \in Writers, Writer(k)
      PROVE  Bounded'
  <2>1. CASE WriterPanics(k)
    BY <1>3, <2>1 DEF WriterPanics, TypeOK, Lengthened
  <2>2. CASE UNCHANGED sampling
    <3>1. UNCHANGED <<pc, slice, len>>
      BY <2>2
    <3> HIDE DEF Goto, InQueries, sampling, appending, header
    <3>2. Lengthened' = Lengthened /\ len' = len /\ \A t \in Statements : Known(t)
      BY <3>1 DEF Lengthened
    <3> HIDE DEF Known
    <3> QED
      BY <1>3, <3>2
  <2> QED
    BY <1>8, <2>1, <2>2, Zenon DEF Writer, WriteExplain, CreateFails
<1> QED
  BY <1>4, <1>5, <1>6, <1>7, <1>8 DEF Next, Sampler

LEMMA OnePlaceNext ==
  ASSUME TypeOK, TypeOK', OnePlace, [Next]_vars
  PROVE  OnePlace'
<1> USE DEF TypeOK, OnePlace, Goto, InQueries, sampling, appending, header
<1>1. ASSUME NEW s \in Statements,
             Logged(s) \/ Look(s) \/ Mark(s) \/ WriteCapacity(s) \/ WritePointer(s) \/ WriteLength(s)
      PROVE  OnePlace'
  <2>1. UNCHANGED cell /\ pc[s] # "done" /\ \A t \in Statements : t # s => pc'[t] = pc[t]
    BY <1>1 DEF Logged, Look, Mark, WriteCapacity, WritePointer, WriteLength
  <2>2. \A a \in Arrays, i \in Slots : cell[a][i] \in Statements \cup {None}
    OBVIOUS
  <2> HIDE DEF TypeOK, Goto, InQueries, sampling, appending, header
  <2> QED
    BY <2>1, <2>2
<1>2. ASSUME NEW s \in Statements, ReadSlice(s)
      PROVE  OnePlace'
  <2>1. pc[s] = "append" /\ \A t \in Statements : t # s => pc'[t] = pc[t]
    BY <1>2, SMTT(30) DEF ReadSlice, Grow
  \* What is copied keeps its place.
  <2>2. \A a \in Arrays, i \in Slots :
            cell'[a][i] # None => \E b \in Arrays : cell'[a][i] = cell[b][i]
    <3>1. CASE Grow(s)
      <4>1. \A i \in Slots : cell'[s][i] = IF i <= len THEN cell[array][i] ELSE None
        BY <3>1 DEF Grow, Arrays
      <4>2. \A a \in Arrays : a # s => cell'[a] = cell[a]
        BY <3>1 DEF Grow
      <4> QED
        BY <4>1, <4>2
    <3>2. CASE UNCHANGED cell
      BY <3>2
    <3> QED
      BY <1>2, <3>1, <3>2 DEF ReadSlice
  <2>3. \A a \in Arrays, i \in Slots : cell'[a][i] # None => pc'[cell'[a][i]] = "done"
    <3> SUFFICES ASSUME NEW a \in Arrays, NEW i \in Slots, cell'[a][i] # None
                 PROVE  pc'[cell'[a][i]] = "done"
      OBVIOUS
    <3>1. PICK b \in Arrays : cell'[a][i] = cell[b][i]
      BY <2>2
    <3>2. cell[b][i] \in Statements /\ pc[cell[b][i]] = "done"
      BY <3>1
    <3> QED
      BY <2>1, <3>1, <3>2
  <2>4. \A a, b \in Arrays, i, j \in Slots :
            cell'[a][i] # None /\ cell'[a][i] = cell'[b][j] => i = j
    <3> SUFFICES ASSUME NEW a \in Arrays, NEW b \in Arrays, NEW i \in Slots, NEW j \in Slots,
                        cell'[a][i] # None, cell'[a][i] = cell'[b][j]
                 PROVE  i = j
      BY SMTT(30)
    <3>1. PICK d \in Arrays : cell'[a][i] = cell[d][i]
      BY <2>2
    <3>2. PICK e \in Arrays : cell'[b][j] = cell[e][j]
      BY <2>2
    <3>3. cell[d][i] # None /\ cell[d][i] = cell[e][j]
      BY <3>1, <3>2
    <3> HIDE DEF TypeOK, Goto, InQueries, sampling, appending, header
    <3> QED
      BY <3>3
  <2> QED
    BY <2>3, <2>4
<1>3. ASSUME NEW s \in Statements, WriteElement(s)
      PROVE  OnePlace'
  <2>1. pc[s] = "longer" /\ pc' = [pc EXCEPT ![s] = "done"]
    BY <1>3 DEF WriteElement
  <2>2. \A a \in Arrays, i \in Slots : cell[a][i] # s
    BY <2>1
  <2>3. \A a \in Arrays, i \in Slots :
            \/ cell'[a][i] = cell[a][i]
            \/ cell'[a][i] = s /\ i = Slot(s)
    BY <1>3 DEF WriteElement
  <2> HIDE DEF Goto, InQueries, sampling, appending, header
  <2>4. \A a \in Arrays, i \in Slots : cell'[a][i] # None => pc'[cell'[a][i]] = "done"
    BY <2>1, <2>2, <2>3, SMTT(30)
  <2>5. \A a, b \in Arrays, i, j \in Slots :
            cell'[a][i] # None /\ cell'[a][i] = cell'[b][j] => i = j
    <3> HIDE DEF TypeOK
    <3> SUFFICES ASSUME NEW a \in Arrays, NEW b \in Arrays, NEW i \in Slots, NEW j \in Slots,
                        cell'[a][i] # None, cell'[a][i] = cell'[b][j]
                 PROVE  i = j
      OBVIOUS
    <3>1. CASE cell'[a][i] = s
      <4>1. i = Slot(s)
        BY <2>2, <2>3, <3>1
      <4>2. cell'[b][j] = s /\ cell[b][j] # s
        BY <2>2, <3>1
      <4>3. j = Slot(s)
        BY <2>3, <4>2
      <4> QED
        BY <4>1, <4>3
    <3>2. CASE cell'[a][i] # s
      <4>1. cell'[a][i] = cell[a][i] /\ cell'[b][j] = cell[b][j]
        BY <2>3, <3>2
      <4>2. cell[a][i] # None /\ cell[a][i] = cell[b][j]
        BY <4>1
      <4> QED
        BY <4>2
    <3> QED
      BY <3>1, <3>2
  <2> QED
    BY <2>4, <2>5
<1>4. ASSUME StartTrace \/ ReplaceSampled \/ UNCHANGED vars
      PROVE  OnePlace'
  BY <1>4, SMTT(30) DEF StartTrace, ReplaceSampled, vars
<1>5. ASSUME NEW k \in Writers, Writer(k)
      PROVE  OnePlace'
  <2>1. CASE WriterPanics(k)
    BY <2>1 DEF WriterPanics, NewCell
  <2>2. CASE UNCHANGED sampling
    BY <2>2
  <2> QED
    BY <1>5, <2>1, <2>2, Zenon DEF Writer, WriteExplain, CreateFails
<1> QED
  BY <1>1, <1>2, <1>3, <1>4, <1>5 DEF Next, Sampler

LEMMA MarkedOnceNext ==
  ASSUME TypeOK, MarkedOnce, [Next]_vars
  PROVE  MarkedOnce'
<1> USE DEF TypeOK, MarkedOnce, Goto, InQueries, sampling, appending, header
<1>1. ASSUME NEW s \in Statements, Logged(s) \/ Look(s)
      PROVE  MarkedOnce'
  BY <1>1 DEF Logged, Look
<1>2. ASSUME NEW s \in Statements,
             \/ ReadSlice(s) \/ WriteCapacity(s) \/ WritePointer(s)
             \/ WriteLength(s) \/ WriteElement(s)
      PROVE  MarkedOnce'
  BY <1>2 DEF ReadSlice, Grow, WriteCapacity, WritePointer, WriteLength, WriteElement
<1>3. ASSUME NEW s \in Statements, Mark(s)
      PROVE  MarkedOnce'
  BY <1>3 DEF Mark
<1>4. ASSUME StartTrace \/ ReplaceSampled \/ UNCHANGED vars
      PROVE  MarkedOnce'
  BY <1>4 DEF StartTrace, ReplaceSampled, vars
<1>5. ASSUME NEW k \in Writers, Writer(k)
      PROVE  MarkedOnce'
  BY <1>5 DEF Writer, WriteExplain, CreateFails, WriterPanics
<1> QED
  BY <1>1, <1>2, <1>3, <1>4, <1>5 DEF Next, Sampler

LEMMA AloneNext ==
  ASSUME TypeOK, TypeOK', MarkedOnce, Alone, [Next]_vars
  PROVE  Alone'
<1> USE DEF Goto, InQueries, sampling, appending, header
<1>1. /\ Cardinality(Statements) \in Nat /\ len \in Nat /\ cap \in Nat
      /\ \A a \in Arrays : size[a] \in Nat
      /\ \A s \in Statements : slice[s].len \in Nat /\ slice[s].array \in Arrays
      /\ Slots = 1 .. Cardinality(Statements)
      /\ array \in Arrays
  <2>1. Cardinality(Statements) \in Nat
    BY FS_CardinalityType
  <2>2. len \in Nat /\ cap \in Nat /\ array \in Arrays /\ \A a \in Arrays : size[a] \in Nat
    BY <2>1 DEF TypeOK
  <2>3. ASSUME NEW s \in Statements
        PROVE  slice[s].len \in Nat /\ slice[s].array \in Arrays
    <3>1. slice[s] \in [array : Arrays, len : 0 .. Cardinality(Statements)]
      BY DEF TypeOK
    <3> QED
      BY <2>1, <3>1
  <2> QED
    BY <2>1, <2>2, <2>3 DEF Slots
<1>2. ASSUME NEW s \in Statements, Logged(s) \/ Look(s) \/ Mark(s)
      PROVE  Alone'
  <2> SUFFICES ASSUME starting = "no", ~raced
               PROVE  Alone'
    BY <1>2 DEF Alone, Logged, Look, Mark
  <2>1. /\ InAppend' = InAppend
        /\ \A t \in InAppend : pc'[t] = pc[t]
        /\ UNCHANGED <<array, len, cap, cell, size, slice, starting, raced>>
    BY <1>2 DEF Logged, Look, Mark, InAppend, TypeOK
  <2>2. \A t \in fresh' : pc'[t] = "done" /\ Text[t] # "empty" => t \in fresh /\ pc[t] = "done"
    BY <1>2, ZenonT(30) DEF Logged, Look, Mark, MarkedOnce, TypeOK
  <2>3. \A x, i : Has(x, i)' = Has(x, i)
    BY <2>1 DEF Has
  <2>4. \A t \in InAppend : Amid(t) => Amid(t)'
    BY <2>1 DEF Amid, Slot, Fits
  <2> QED
    BY <2>1, <2>2, <2>3, <2>4 DEF Alone, Whole
<1>3. ASSUME NEW s \in Statements, ReadSlice(s)
      PROVE  Alone'
  <2> SUFFICES ASSUME starting = "no", ~raced'
               PROVE  Alone'
    BY <1>3 DEF Alone, ReadSlice
  <2>1. ~raced /\ InAppend = {} /\ Whole
    <3>1. pc[s] = "append" /\ ~raced /\ \A t \in Appending \ {s} : pc[t] = "append"
      BY <1>3 DEF ReadSlice
    <3>2. InAppend = {}
      BY <3>1 DEF InAppend, Appending
    <3> QED
      BY <3>1, <3>2 DEF Alone
  <2>2. /\ UNCHANGED <<array, len, cap, fresh, starting>>
        /\ \A t \in Statements : t # s => pc'[t] = pc[t]
        /\ pc'[s] \in {"grown", "write"}
    BY <1>3 DEF ReadSlice, Grow, TypeOK
  <2>3. InAppend' = {s}
    BY <2>1, <2>2 DEF InAppend
  <2>4. Amid(s)'
    <3>1. CASE Grow(s)
      <4>1. slice'[s] = [array |-> s, len |-> len] /\ size'[s] = Max({2 * cap, len + 1})
            /\ pc'[s] = "grown"
        BY <3>1 DEF Grow, TypeOK, Arrays
      <4>2. len + 1 <= size'[s]
        BY <1>1, <4>1, MaxOfTwo
      <4> QED
        BY <2>2, <4>1, <4>2 DEF Amid, Slot, Fits
    <3>2. CASE /\ len + 1 <= cap /\ UNCHANGED size
               /\ slice' = [slice EXCEPT ![s] = [array |-> array, len |-> len]]
               /\ Goto(s, "write")
      <4>1. slice'[s] = [array |-> array, len |-> len] /\ pc'[s] = "write"
        BY <3>2 DEF TypeOK
      <4> QED
        BY <2>1, <2>2, <3>2, <4>1 DEF Amid, Slot, Fits, Whole
    <3> QED
      BY <1>3, <3>1, <3>2 DEF ReadSlice
  <2>5. ASSUME NEW x, NEW i \in 1 .. len, Has(x, i)
        PROVE  Has(x, i)'
    <3>1. i \in Slots /\ cell[array][i] = x
      BY <1>1, <2>5 DEF TypeOK, Has
    <3>2. cell'[array][i] = x /\ cell'[slice'[s].array][i] = x /\ slice'[s].len = len
      <4>1. CASE Grow(s)
        BY <2>5, <3>1, <4>1 DEF Grow, TypeOK, Arrays
      <4>2. CASE UNCHANGED cell /\ slice' = [slice EXCEPT ![s] = [array |-> array, len |-> len]]
        BY <3>1, <4>2 DEF TypeOK
      <4> QED
        BY <1>3, <4>1, <4>2 DEF ReadSlice
    <3> QED
      BY <2>2, <2>3, <3>2 DEF Has
  <2>6. ASSUME NEW x \in fresh', pc'[x] = "done", Text[x] # "empty"
        PROVE  \E i \in 1 .. len' : Has(x, i)'
    <3>1. x \in fresh /\ pc[x] = "done"
      BY <2>2, <2>6 DEF TypeOK
    <3>2. PICK i \in 1 .. len : Has(x, i)
      BY <2>1, <2>6, <3>1 DEF Alone
    <3> QED
      BY <2>2, <2>5, <3>2
  <2> QED
    BY <2>3, <2>4, <2>6 DEF Alone
<1>4. ASSUME NEW s \in Statements, WriteCapacity(s) \/ WritePointer(s)
      PROVE  Alone'
  <2> SUFFICES ASSUME starting = "no", ~raced
               PROVE  Alone'
    BY <1>4 DEF Alone, WriteCapacity, WritePointer
  <2>1. /\ UNCHANGED <<len, cell, size, slice, fresh, starting, raced>>
        /\ \A t \in Statements : t # s => pc'[t] = pc[t]
        /\ pc[s] \in {"grown", "larger"} /\ pc'[s] \in {"larger", "write"}
    BY <1>4 DEF WriteCapacity, WritePointer, TypeOK
  <2>2. InAppend = {s} /\ InAppend' = {s} /\ Amid(s)
    BY <2>1 DEF InAppend, Alone
  <2>3. slice[s].array = s
    BY <2>1, <2>2 DEF Amid
  <2>4. Amid(s)'
    <3>1. CASE WriteCapacity(s)
      <4>1. pc[s] = "grown" /\ pc'[s] = "larger" /\ cap' = size[s]
        BY <3>1 DEF WriteCapacity, TypeOK
      <4> QED
        BY <2>1, <2>2, <2>3, <4>1 DEF Amid, Slot, Fits
    <3>2. CASE WritePointer(s)
      <4>1. pc[s] = "larger" /\ pc'[s] = "write" /\ array' = s /\ cap' = cap
        BY <3>2 DEF WritePointer, TypeOK
      <4> QED
        BY <2>1, <2>2, <2>3, <4>1 DEF Amid, Slot, Fits
    <3> QED
      BY <1>4, <3>1, <3>2
  <2>5. \A x, i : Has(x, i) => Has(x, i)'
    <3>1. array' = array \/ array' = slice[s].array
      BY <1>4, <2>3 DEF WriteCapacity, WritePointer
    <3> QED
      BY <2>1, <2>2, <3>1 DEF Has
  <2>6. \A x \in fresh' : pc'[x] = "done" => x \in fresh /\ pc[x] = "done"
    <3>1. fresh' \subseteq Statements
      BY DEF TypeOK
    <3> QED
      BY <2>1, <3>1
  <2> QED
    BY <2>1, <2>2, <2>4, <2>5, <2>6 DEF Alone
<1>5. ASSUME NEW s \in Statements, WriteLength(s)
      PROVE  Alone'
  <2> SUFFICES ASSUME starting = "no", ~raced
               PROVE  Alone'
    BY <1>5 DEF Alone, WriteLength
  <2>1. /\ pc[s] = "write" /\ pc'[s] = "longer" /\ len' = slice[s].len + 1
        /\ \A t \in Statements : t # s => pc'[t] = pc[t]
        /\ UNCHANGED <<array, cap, cell, size, slice, fresh, starting, raced>>
    BY <1>5 DEF WriteLength, TypeOK
  <2>2. InAppend = {s} /\ InAppend' = {s} /\ Amid(s) /\ len = slice[s].len
    BY <2>1 DEF InAppend, Alone, Amid
  <2>3. Amid(s)'
    BY <2>1, <2>2 DEF Amid, Slot, Fits
  <2>4. \A x, i : Has(x, i) => Has(x, i)'
    BY <2>1, <2>2 DEF Has
  <2>5. ASSUME NEW x \in fresh', pc'[x] = "done", Text[x] # "empty"
        PROVE  \E i \in 1 .. len' : Has(x, i)'
    <3>1. x \in fresh /\ pc[x] = "done"
      <4>1. x \in Statements /\ pc'[s] # "done"
        BY <1>5, <2>5 DEF TypeOK, WriteLength
      <4> QED
        BY <2>1, <2>5, <4>1
    <3>2. PICK i \in 1 .. len : Has(x, i)
      BY <2>5, <3>1 DEF Alone
    <3>3. i \in 1 .. len'
      BY <1>1, <2>1, <2>2, <3>2
    <3> QED
      BY <2>4, <3>2, <3>3
  <2> QED
    BY <2>2, <2>3, <2>5 DEF Alone
<1>6. ASSUME NEW s \in Statements, WriteElement(s)
      PROVE  Alone'
  <2> SUFFICES ASSUME starting = "no", ~raced
               PROVE  Alone'
    BY <1>6 DEF Alone, WriteElement
  <2>1. /\ pc[s] = "longer" /\ pc'[s] = "done"
        /\ \A t \in Statements : t # s => pc'[t] = pc[t]
        /\ UNCHANGED <<array, len, cap, size, fresh, starting, raced>>
    BY <1>6 DEF WriteElement, TypeOK
  <2>2. InAppend = {s} /\ InAppend' = {} /\ Amid(s)
    BY <2>1 DEF InAppend, Alone
  <2>3. /\ len = Slot(s) /\ Fits(s) /\ slice[s].array = array /\ cap = size[array]
        /\ len = slice[s].len + 1
    BY <2>1, <2>2 DEF Amid, Slot
  <2>4. Whole'
    BY <2>1, <2>3 DEF Whole, Fits
  <2>5. len \in Slots
    <3>1. len <= Cardinality(Statements)
      BY <1>1 DEF TypeOK
    <3> QED
      BY <1>1, <2>3, <3>1
  <2>6. cell'[array] = [cell[array] EXCEPT ![len] = s]
    BY <1>1, <1>6, <2>3 DEF WriteElement, TypeOK
  <2>7. cell'[array][len] = s /\ \A i \in Slots : i # len => cell'[array][i] = cell[array][i]
    BY <1>1, <2>5, <2>6 DEF TypeOK
  <2>8. ASSUME NEW x \in fresh', pc'[x] = "done", Text[x] # "empty"
        PROVE  \E i \in 1 .. len' : Has(x, i)'
    <3>1. CASE x = s
      <4>1. Has(s, len)'
        BY <2>1, <2>2, <2>7 DEF Has
      <4> QED
        BY <1>1, <2>1, <2>3, <3>1, <4>1
    <3>2. CASE x # s
      <4>1. x \in fresh /\ pc[x] = "done"
        BY <2>1, <2>8, <3>2 DEF TypeOK
      <4>2. PICK i \in 1 .. len : Has(x, i)
        BY <2>8, <4>1 DEF Alone
      <4>3. i <= slice[s].len /\ cell[array][i] = x
        BY <2>2, <4>2 DEF Has
      <4>4. i \in Slots /\ i # len
        BY <1>1, <2>3, <2>5, <4>2, <4>3
      <4> QED
        BY <2>1, <2>2, <2>7, <4>2, <4>3, <4>4 DEF Has
    <3> QED
      BY <3>1, <3>2
  <2> QED
    BY <2>2, <2>4, <2>8 DEF Alone
<1>7. CASE StartTrace
  BY <1>7 DEF Alone, StartTrace
<1>8. CASE ReplaceSampled
  <2> SUFFICES ASSUME ~raced'
               PROVE  Alone'
    BY DEF Alone
  <2>1. Appending = {} /\ Whole /\ fresh' = {} /\ UNCHANGED <<array, len, cap, size, pc>>
    BY <1>8, Zenon DEF ReplaceSampled
  <2>2. InAppend' = {} /\ Whole'
    BY <2>1 DEF InAppend, Appending, Whole
  <2> QED
    BY <2>1, <2>2 DEF Alone
<1>9. ASSUME NEW k \in Writers, Writer(k)
      PROVE  Alone'
  <2>1. CASE WriterPanics(k)
    <3>1. InAppend' = {} /\ fresh' = {} /\ Whole'
      BY <2>1 DEF WriterPanics, InAppend, Whole, NewSize, Arrays
    <3> QED
      BY <3>1 DEF Alone
  <2>2. CASE UNCHANGED <<sampling, starting>>
    BY <2>2 DEF Alone, InAppend, Amid, Has, Whole, Slot, Fits
  <2> QED
    BY <1>9, <2>1, <2>2, Zenon DEF Writer, WriteExplain, CreateFails
<1>10. CASE UNCHANGED vars
  BY <1>10 DEF Alone, InAppend, Amid, Has, Whole, Slot, Fits, vars
<1> QED
  BY <1>2, <1>3, <1>4, <1>5, <1>6, <1>7, <1>8, <1>9, <1>10 DEF Next, Sampler

LEMMA InvNext == Inv /\ [Next]_vars => Inv'
  BY TypeNext, BoundedNext, OnePlaceNext, MarkedOnceNext, AloneNext DEF Inv

-----------------------------------------------------------------------------
\* Every variable keeps its type: however appends overtake one another, no length
\* exceeds what has been appended, and no nil gets into the file of EXPLAINs.
THEOREM TypeCorrect == Spec => []TypeOK
<1>1. Inv => TypeOK
  BY DEF Inv
<1> QED
  BY <1>1, InvInit, InvNext, PTL DEF Spec

\* Of the queries in the list that were marked since StartTrace no two have one
\* alias (bindedQuery looks at the set again under the write lock), also while the
\* list is copied to a larger array.
THEOREM OneSampleOfEachAlias == Spec => []SampledOnce
<1>1. Inv => SampledOnce
  <2> SUFFICES ASSUME Inv, NEW i \in 1 .. len, NEW j \in 1 .. len, i # j,
                      Queries[i] \in fresh, Queries[j] \in fresh
               PROVE  Alias[Queries[i]] # Alias[Queries[j]]
    BY DEF SampledOnce
  <2>1. i \in Slots /\ j \in Slots /\ array \in Arrays
    BY FS_CardinalityType DEF Inv, TypeOK, Slots
  <2>2. Queries[i] = cell[array][i] /\ Queries[j] = cell[array][j]
    BY DEF Queries
  <2>3. cell[array][i] # None
    BY <2>2 DEF Inv, TypeOK
  <2>4. cell[array][i] # cell[array][j]
    BY <2>1, <2>3 DEF Inv, OnePlace
  <2> QED
    BY <2>2, <2>4 DEF Inv, MarkedOnce
<1> QED
  BY <1>1, InvInit, InvNext, PTL DEF Spec

\* What is marked stays in the list, and every append writes in its array, for any
\* capacity and however often the list outgrows it, unless appends come between the
\* steps of one another or of StartTrace (bindedQuery appends with no lock held).
THEOREM SamplesAreKept == Spec => []SampledKept
<1>1. Inv => SampledKept
  <2> SUFFICES ASSUME Inv, starting = "no", ~raced
               PROVE  /\ \A s \in Statements : pc[s] = "longer" => Fits(s)
                      /\ \A s \in fresh \ Appending : Text[s] # "empty" => s \in ToSet(Queries)
    BY DEF SampledKept
  <2>1. ASSUME NEW s \in Statements, pc[s] = "longer"
        PROVE  Fits(s)
    <3>1. s \in InAppend
      BY <2>1 DEF InAppend
    <3> QED
      BY <3>1 DEF Inv, Alone, Amid
  <2>2. ASSUME NEW s \in fresh \ Appending, Text[s] # "empty"
        PROVE  s \in ToSet(Queries)
    <3>1. pc[s] = "done"
      BY <2>2 DEF Inv, TypeOK, MarkedOnce, Appending
    <3>2. PICK i \in 1 .. len : Has(s, i)
      BY <2>2, <3>1 DEF Inv, Alone
    <3> QED
      BY <3>2 DEF ToSet, Queries, Has
  <2> QED
    BY <2>1, <2>2
<1> QED
  BY <1>1, InvInit, InvNext, PTL DEF Spec
=============================================================================
