------------------------------ MODULE MutexMap ------------------------------
(***************************************************************************)
(* RWMutexMap of mutexmap/mutexmap.go: a map from keys to sync.RWMutex,      *)
(* itself under one, in which the first user of a key puts the key's mutex. *)
(* MutexMap is the same code with a sync.Mutex: the threads that only write.*)
(*                                                                          *)
(* The critical sections of the map's own mutex are one step each.  A       *)
(* thread locks one key at a time and unlocks what it has locked, as        *)
(* flockByTenantID2 and flockByTenantID2Write make their callers do.        *)
(***************************************************************************)
EXTENDS FiniteSets

CONSTANTS Threads, Keys,
          Mutexes,      \* the mutexes that &sync.RWMutex{} can return
          NoThread, NoMutex

ASSUME ConstantsAssumption == NoThread \notin Threads /\ NoMutex \notin Mutexes

VARIABLES
    mutexMap,       \* mutexMap[key], NoMutex where there is no entry
    pc,             \* the step each thread is at
    key, mode,      \* what it locks, and how
    m,              \* the mutex it has from getOrSet or get
    \* of each sync.RWMutex:
    writer,         \* who holds it to write, or waits for its readers to leave
    readers,        \* who holds it to read
    waiting         \* who asked to read it after the writer came

vars == <<mutexMap, pc, key, mode, m, writer, readers, waiting>>

Modes == {"read", "write"}

TypeOK ==
    /\ mutexMap \in [Keys -> Mutexes \cup {NoMutex}]
    /\ pc \in [Threads -> {"out", "look", "create", "lock", "wait", "drain", "in",
                           "find", "unlock"}]
    /\ key \in [Threads -> Keys]
    /\ mode \in [Threads -> Modes]
    /\ m \in [Threads -> Mutexes \cup {NoMutex}]
    /\ writer \in [Mutexes -> Threads \cup {NoThread}]
    /\ readers \in [Mutexes -> SUBSET Threads]
    /\ waiting \in [Mutexes -> SUBSET Threads]
    /\ \A x \in Mutexes, t \in Threads :
           writer[x] = t \/ t \in readers[x] \cup waiting[x] => m[t] = x

Made == {mutexMap[k] : k \in Keys} \cup {m[t] : t \in Threads}

Init ==
    /\ mutexMap = [k \in Keys |-> NoMutex]
    /\ pc = [t \in Threads |-> "out"]
    /\ key \in [Threads -> Keys]
    /\ mode = [t \in Threads |-> "read"]
    /\ m = [t \in Threads |-> NoMutex]
    /\ writer = [x \in Mutexes |-> NoThread]
    /\ readers = [x \in Mutexes |-> {}]
    /\ waiting = [x \in Mutexes |-> {}]

Goto(t, step) == pc' = [pc EXCEPT ![t] = step]

-----------------------------------------------------------------------------
\* Lock(key) and RLock(key): getOrSet(key), then the mutex.

Call(t, k, rw) ==
    /\ pc[t] = "out"
    /\ key' = [key EXCEPT ![t] = k]
    /\ mode' = [mode EXCEPT ![t] = rw]
    /\ Goto(t, "look")
    /\ UNCHANGED <<mutexMap, m, writer, readers, waiting>>

Look(t) ==
    /\ pc[t] = "look"
    /\ m' = [m EXCEPT ![t] = mutexMap[key[t]]]
    /\ Goto(t, IF mutexMap[key[t]] = NoMutex THEN "create" ELSE "lock")
    /\ UNCHANGED <<mutexMap, key, mode, writer, readers, waiting>>

\* Mutant: the map is not looked at again under the write lock.
CreateAnyway(t) ==
    /\ pc[t] = "create"
    /\ \E x \in Mutexes \ Made :
           /\ mutexMap' = [mutexMap EXCEPT ![key[t]] = x]
           /\ m' = [m EXCEPT ![t] = x]
    /\ Goto(t, "lock")
    /\ UNCHANGED <<key, mode, writer, readers, waiting>>

\* The map is looked at again: somebody may have come first.
Create(t) ==
    /\ pc[t] = "create"
    /\ \/ /\ mutexMap[key[t]] # NoMutex
          /\ m' = [m EXCEPT ![t] = mutexMap[key[t]]]
          /\ UNCHANGED mutexMap
       \/ /\ mutexMap[key[t]] = NoMutex
          /\ \E x \in Mutexes \ Made :
                 /\ mutexMap' = [mutexMap EXCEPT ![key[t]] = x]
                 /\ m' = [m EXCEPT ![t] = x]
    /\ Goto(t, "lock")
    /\ UNCHANGED <<key, mode, writer, readers, waiting>>

\* sync.RWMutex: a reader that comes after a writer waits for it, and the writer
\* waits for the readers that were there before.
LockWrite(t) ==
    /\ pc[t] = "lock" /\ mode[t] = "write"
    /\ writer[m[t]] = NoThread
    /\ writer' = [writer EXCEPT ![m[t]] = t]
    /\ Goto(t, "drain")
    /\ UNCHANGED <<mutexMap, key, mode, m, readers, waiting>>

Drained(t) ==
    /\ pc[t] = "drain"
    /\ readers[m[t]] = {}
    /\ Goto(t, "in")
    /\ UNCHANGED <<mutexMap, key, mode, m, writer, readers, waiting>>

LockRead(t) ==
    /\ pc[t] = "lock" /\ mode[t] = "read"
    /\ \/ /\ writer[m[t]] = NoThread
          /\ readers' = [readers EXCEPT ![m[t]] = @ \cup {t}]
          /\ Goto(t, "in")
          /\ UNCHANGED waiting
       \/ /\ writer[m[t]] # NoThread
          /\ waiting' = [waiting EXCEPT ![m[t]] = @ \cup {t}]
          /\ Goto(t, "wait")
          /\ UNCHANGED readers
    /\ UNCHANGED <<mutexMap, key, mode, m, writer>>

Woken(t) ==
    /\ pc[t] = "wait"
    /\ t \in readers[m[t]]
    /\ Goto(t, "in")
    /\ UNCHANGED <<mutexMap, key, mode, m, writer, readers, waiting>>

-----------------------------------------------------------------------------
\* Unlock(key) and RUnlock(key).

\* get(key).
Find(t) ==
    /\ pc[t] = "in"
    /\ m' = [m EXCEPT ![t] = mutexMap[key[t]]]
    /\ Goto(t, "unlock")
    /\ UNCHANGED <<mutexMap, key, mode, writer, readers, waiting>>

\* Mutant: the entry goes when its key is unlocked.
UnlockDeletes(t) ==
    /\ pc[t] = "unlock"
    /\ m[t] # NoMutex
    /\ mutexMap' = [mutexMap EXCEPT ![key[t]] = NoMutex]
    /\ IF mode[t] = "write"
       THEN /\ writer' = [writer EXCEPT ![m[t]] = NoThread]
            /\ readers' = [readers EXCEPT ![m[t]] = waiting[m[t]]]
            /\ waiting' = [waiting EXCEPT ![m[t]] = {}]
       ELSE /\ readers' = [readers EXCEPT ![m[t]] = @ \ {t}]
            /\ UNCHANGED <<writer, waiting>>
    /\ m' = [m EXCEPT ![t] = NoMutex]
    /\ Goto(t, "out")
    /\ UNCHANGED <<key, mode>>

\* Mutant: a writer is unlocked like a reader.
UnlockRead(t) ==
    /\ pc[t] = "unlock"
    /\ m[t] # NoMutex
    /\ readers' = [readers EXCEPT ![m[t]] = @ \ {t}]
    /\ m' = [m EXCEPT ![t] = NoMutex]
    /\ Goto(t, "out")
    /\ UNCHANGED <<mutexMap, key, mode, writer, waiting>>

\* With no entry there would be nothing to unlock.
Unlock(t) ==
    /\ pc[t] = "unlock"
    /\ \/ /\ m[t] # NoMutex /\ mode[t] = "write"
          /\ writer' = [writer EXCEPT ![m[t]] = NoThread]
          /\ readers' = [readers EXCEPT ![m[t]] = waiting[m[t]]]
          /\ waiting' = [waiting EXCEPT ![m[t]] = {}]
       \/ /\ m[t] # NoMutex /\ mode[t] = "read"
          /\ readers' = [readers EXCEPT ![m[t]] = @ \ {t}]
          /\ UNCHANGED <<writer, waiting>>
    /\ m' = [m EXCEPT ![t] = NoMutex]
    /\ Goto(t, "out")
    /\ UNCHANGED <<mutexMap, key, mode>>

Step(t) == \/ Look(t) \/ Create(t) \/ LockRead(t) \/ Woken(t) \/ Drained(t)
           \/ Find(t) \/ Unlock(t)

Next ==
    \E t \in Threads :
        \/ \E k \in Keys, rw \in Modes : Call(t, k, rw)
        \/ LockWrite(t)
        \/ Step(t)

\* A goroutine that can run does, a thread that has a key gives it back, and a
\* sync.Mutex (the writers of a sync.RWMutex queue for one) starves nobody: one
\* who has waited for 1 ms is next.
Fairness == \A t \in Threads : WF_vars(Step(t)) /\ SF_vars(LockWrite(t))

Spec == Init /\ [][Next]_vars
FairSpec == Spec /\ Fairness

-----------------------------------------------------------------------------
\* Whoever is between getOrSet and the end of Unlock has the mutex of the key in
\* the map, and a mutex serves one key: for all the threads that came first
\* together there is one lock for each key.
OneMutexPerKey ==
    /\ \A t \in Threads :
           pc[t] \in {"lock", "wait", "drain", "in", "unlock"} =>
               m[t] # NoMutex /\ m[t] = mutexMap[key[t]]
    /\ \A k, l \in Keys :
           k # l /\ mutexMap[k] # NoMutex => mutexMap[k] # mutexMap[l]

\* Nobody has a key together with one who writes.
Has(t) == pc[t] \in {"in", "unlock"}

Exclusion ==
    \A t, u \in Threads :
        t # u /\ Has(t) /\ Has(u) /\ key[t] = key[u] =>
            mode[t] = "read" /\ mode[u] = "read"

\* Every call of Lock and RLock returns, whoever else locks and unlocks.
EverybodyServed == \A t \in Threads : pc[t] = "look" ~> pc[t] = "in"

-----------------------------------------------------------------------------
\* A thread has its key from the moment the mutex is its own until Unlock has
\* unlocked the mutex.
Position(t) ==
    CASE pc[t] = "out" -> [state |-> "out"]
      [] Has(t)        -> [state |-> "has", key |-> key[t], mode |-> mode[t]]
      [] OTHER         -> [state |-> "asks", key |-> key[t], mode |-> mode[t]]

Abstract == INSTANCE KeyedLock WITH at <- [t \in Threads |-> Position(t)]

\* mutexmap.go is a readers-writer lock for each key.
ImplementsKeyedLock == Abstract!Spec
=============================================================================
