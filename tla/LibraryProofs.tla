--------------------------- MODULE LibraryProofs ---------------------------
(***************************************************************************)
(* The two libraries of the server, which share no state and are here one    *)
(* after the other: AsyncExecute, the queue, and MutexMap, the locks.        *)
(*                                                                          *)
(* The queue, for any values, channels, batches and bound.  Its inductive   *)
(* invariant says where a channel can be (queued, taken, or signalled) and  *)
(* how far execution has got when it is there.                              *)
(*                                                                          *)
(* The locks, for any threads, keys and mutexes: one mutex per key,         *)
(* exclusion, and the refinement of KeyedLock.  Holding says who is where   *)
(* when a sync.RWMutex is taken; with one mutex per key, exclusion on the   *)
(* mutex is exclusion on the key.                                           *)
(***************************************************************************)
EXTENDS AsyncExecuteHistory, MutexMap, SequenceTheorems, TLAPS

-----------------------------------------------------------------------------
\* What every operation of AsyncExecute preserves, whoever calls it: the types,
\* and where a channel can be.  The proofs about visitHistoryExec inside the
\* server (CompetitionProofs) start from these too.

\* Queued and taken channels are distinct and none of them has been signalled.
ChannelsApart ==
    /\ \A i \in DOMAIN waited : chan[waited[i]] = "empty"
    /\ \A i \in DOMAIN signals : chan[signals[i]] = "empty"
    /\ \A i, j \in DOMAIN waited : waited[i] = waited[j] => i = j
    /\ \A i, j \in DOMAIN signals : signals[i] = signals[j] => i = j
    /\ \A i \in DOMAIN waited, j \in DOMAIN signals : waited[i] # signals[j]

\* Between rounds nothing is in the executor's hands.
RoundOver == round \in {"get", "tick"} => signals = <<>>

QueueOK == QueueTypeOK /\ ChannelsApart /\ RoundOver

LEMMA NewOK == New => QueueOK
  BY DEF New, QueueOK, QueueTypeOK, ChannelsApart, RoundOver

LEMMA SetOK == \A vs \in Seq(Values) : QueueOK /\ Set(vs) => QueueOK'
  BY DEF Set, QueueOK, QueueTypeOK, ChannelsApart, RoundOver

LEMMA WaitOK == \A c \in Channels : QueueOK /\ Wait(c) => QueueOK'
<1> SUFFICES ASSUME NEW c \in Channels, QueueOK, Wait(c)
             PROVE  QueueOK'
  OBVIOUS
<1> USE DEF QueueOK, QueueTypeOK, Wait
<1>1. waited' \in Seq(Channels) /\ Len(waited') = Len(waited) + 1
  BY AppendProperties
<1>2. \A i \in DOMAIN waited' :
          IF i = Len(waited) + 1 THEN waited'[i] = c
                                 ELSE i \in DOMAIN waited /\ waited'[i] = waited[i]
  BY AppendProperties
<1>3. /\ \A i \in DOMAIN waited : waited[i] # c
      /\ \A i \in DOMAIN signals : signals[i] # c
  BY DEF ChannelsApart
<1>4. /\ \A i \in DOMAIN waited' : chan'[waited'[i]] = "empty"
      /\ \A i \in DOMAIN signals : chan'[signals[i]] = "empty"
  BY <1>1, <1>2, <1>3 DEF ChannelsApart
<1>5. \A i, j \in DOMAIN waited' : waited'[i] = waited'[j] => i = j
  BY <1>1, <1>2, <1>3 DEF ChannelsApart
<1>6. \A i \in DOMAIN waited', j \in DOMAIN signals : waited'[i] # signals[j]
  BY <1>1, <1>2, <1>3 DEF ChannelsApart
<1>7. QueueTypeOK' /\ RoundOver'
  BY DEF RoundOver
<1> QED
  BY <1>4, <1>5, <1>6, <1>7 DEF ChannelsApart

LEMMA ReceiveOK == \A c \in Channels : QueueOK /\ Receive(c) => QueueOK'
  BY DEF Receive, QueueOK, QueueTypeOK, ChannelsApart, RoundOver

LEMMA GetOK == QueueOK /\ Get => QueueOK'
  BY DEF Get, QueueOK, QueueTypeOK, ChannelsApart, RoundOver

LEMMA ExecOK == QueueOK /\ Exec => QueueOK'
  BY DEF Exec, QueueOK, QueueTypeOK, ChannelsApart, RoundOver

LEMMA SignalOK == QueueOK /\ Signal => QueueOK'
<1> SUFFICES ASSUME QueueOK, Signal
             PROVE  QueueOK'
  OBVIOUS
<1> USE DEF QueueOK, QueueTypeOK, Signal
<1>1. /\ signals' \in Seq(Channels) /\ Len(signals') = Len(signals) - 1
      /\ \A i \in DOMAIN signals' : i + 1 \in DOMAIN signals /\ signals'[i] = signals[i + 1]
  BY HeadTailProperties
<1>2. 1 \in DOMAIN signals /\ Head(signals) = signals[1]
  OBVIOUS
<1>3. /\ \A i \in DOMAIN waited : waited[i] # Head(signals)
      /\ \A i \in DOMAIN signals' : signals'[i] # Head(signals)
  <2>1. \A i \in DOMAIN waited : waited[i] # Head(signals)
    BY <1>2 DEF ChannelsApart
  <2>2. ASSUME NEW i \in DOMAIN signals'
        PROVE  signals'[i] # Head(signals)
    <3>1. i + 1 \in DOMAIN signals /\ i + 1 # 1 /\ signals'[i] = signals[i + 1]
      BY <1>1
    <3> QED
      BY <1>2, <3>1 DEF ChannelsApart
  <2> QED
    BY <2>1, <2>2
<1>4. /\ \A i \in DOMAIN waited : chan'[waited[i]] = "empty"
      /\ \A i \in DOMAIN signals' : chan'[signals'[i]] = "empty"
  BY <1>1, <1>3 DEF ChannelsApart
<1>5. \A i, j \in DOMAIN signals' : signals'[i] = signals'[j] => i = j
  BY <1>1 DEF ChannelsApart
<1>6. ChannelsApart'
  BY <1>1, <1>4, <1>5 DEF ChannelsApart
<1>7. QueueTypeOK' /\ RoundOver'
  BY <1>1 DEF RoundOver
<1> QED
  BY <1>6, <1>7

LEMMA RestOK == QueueOK /\ (EndRound \/ Tick) => QueueOK'
  BY DEF EndRound, Tick, QueueOK, QueueTypeOK, ChannelsApart, RoundOver

LEMMA UnchangedOK == QueueOK /\ UNCHANGED queueVars => QueueOK'
  BY DEF queueVars, QueueOK, QueueTypeOK, ChannelsApart, RoundOver

-----------------------------------------------------------------------------

\* A taken channel waits for nothing beyond the batch taken with it.
Covered ==
    /\ \A c \in Channels : mark[c] <= Len(accepted)
    /\ \A i \in DOMAIN signals : mark[signals[i]] <= Len(executed) + Len(batch)

QueueInv ==
    /\ HistoryTypeOK
    /\ QueueOK
    /\ NothingLost
    /\ Covered
    /\ Barrier

LEMMA ConcatRegroups ==
  \A a, b, c \in Seq(Values) : (a \o b) \o c = a \o (b \o c)
  BY ConcatAssociative

LEMMA QueueInvInit == HistoryInit => QueueInv
  BY NewOK DEF HistoryInit, New, QueueInv, HistoryTypeOK, QueueTypeOK, NothingLost,
                Covered, Barrier

LEMMA QueueInvNext == QueueInv /\ [HistoryNext]_allVars => QueueInv'
<1> SUFFICES ASSUME QueueInv, [HistoryNext]_allVars
             PROVE  QueueInv'
  OBVIOUS
<1> USE DEF QueueInv, HistoryTypeOK, QueueTypeOK
<1>1. ASSUME NEW vs \in Batches, CallSet(vs)
      PROVE  QueueInv'
  <2> USE <1>1, BatchesAssumption DEF CallSet, Set
  <2>1. HistoryTypeOK'
    OBVIOUS
  <2>2. QueueOK'
    BY SetOK
  <2>3. NothingLost'
    <3> DEFINE taken == executed \o batch
    <3>1. vs \in Seq(Values) /\ data \in Seq(Values)
      OBVIOUS
    <3>2. taken \in Seq(Values)
      BY ConcatProperties
    <3>3. accepted = taken \o data /\ accepted' = accepted \o vs /\ data' = data \o vs
      BY DEF NothingLost
    <3>4. taken' = taken
      OBVIOUS
    <3> HIDE DEF taken
    <3>5. (taken \o data) \o vs = taken \o (data \o vs)
      BY ONLY <3>1, <3>2, ConcatRegroups
    <3>6. accepted' = taken' \o data'
      BY ONLY <3>3, <3>4, <3>5
    <3> QED
      BY <3>6 DEF NothingLost, taken
  <2>4. Covered' /\ Barrier'
    BY DEF Covered, Barrier
  <2> QED
    BY <2>1, <2>2, <2>3, <2>4
<1>2. ASSUME NEW c \in Channels, CallWait(c)
      PROVE  QueueInv'
  <2> USE <1>2 DEF CallWait, Wait
  <2>1. HistoryTypeOK' /\ NothingLost'
    BY DEF NothingLost
  <2>2. QueueOK'
    BY WaitOK
  <2>3. Covered' /\ Barrier'
    BY DEF Covered, Barrier, QueueOK, ChannelsApart
  <2> QED
    BY <2>1, <2>2, <2>3
<1>3. ASSUME NEW c \in Channels, CallReceive(c)
      PROVE  QueueInv'
  <2> USE <1>3 DEF CallReceive, Receive
  <2>1. HistoryTypeOK' /\ NothingLost'
    BY DEF NothingLost
  <2>2. QueueOK'
    BY ReceiveOK
  <2>3. Covered' /\ Barrier'
    BY DEF Covered, Barrier, QueueOK, ChannelsApart
  <2> QED
    BY <2>1, <2>2, <2>3
<1>4. CASE RunExec
  <2> USE <1>4 DEF RunExec, Exec
  <2>1. HistoryTypeOK'
    OBVIOUS
  <2>2. QueueOK'
    BY ExecOK
  <2>3. NothingLost'
    BY DEF NothingLost
  <2>4. Covered' /\ Barrier'
    BY DEF Covered, Barrier
  <2> QED
    BY <2>1, <2>2, <2>3, <2>4
<1>5. CASE Get /\ UNCHANGED history
  <2> USE <1>5 DEF Get, history
  <2>1. HistoryTypeOK'
    OBVIOUS
  <2>2. QueueOK'
    BY GetOK
  <2>3. NothingLost'
    BY DEF NothingLost
  <2>4. Covered' /\ Barrier'
    BY DEF Covered, Barrier, NothingLost
  <2> QED
    BY <2>1, <2>2, <2>3, <2>4
<1>6. CASE Signal /\ UNCHANGED history
  <2> USE <1>6 DEF Signal, history
  <2>1. HistoryTypeOK' /\ NothingLost'
    BY DEF NothingLost
  <2>2. QueueOK'
    BY SignalOK
  <2>3. Covered'
    BY DEF Covered
  <2>4. Barrier'
    BY DEF Barrier, Covered
  <2> QED
    BY <2>1, <2>2, <2>3, <2>4
<1>7. CASE (EndRound \/ Tick) /\ UNCHANGED history
  BY <1>7, RestOK DEF EndRound, Tick, history, NothingLost, Covered, Barrier
<1>8. CASE UNCHANGED allVars
  BY <1>8, UnchangedOK DEF allVars, queueVars, history, NothingLost, Covered, Barrier
<1> QED
  BY <1>1, <1>2, <1>3, <1>4, <1>5, <1>6, <1>7, <1>8 DEF HistoryNext, RunQueue

-----------------------------------------------------------------------------
\* The queue, the taken batch and the channels of asyncexecute.go satisfy the
\* inductive invariant in every reachable state.
THEOREM QueueInvariant == HistorySpec => []QueueInv
  BY QueueInvInit, QueueInvNext, PTL DEF HistorySpec

\* Every reachable state has the types of HistoryTypeOK, and exec is never
\* called with an empty batch.
THEOREM QueueTypeCorrect == HistorySpec => []HistoryTypeOK
  BY QueueInvariant, PTL DEF QueueInv

\* No value given to Set is lost, executed twice or executed out of order.
THEOREM NothingIsLost == HistorySpec => []NothingLost
  BY QueueInvariant, PTL DEF QueueInv

\* A signalled caller finds everything set before its Wait executed.
THEOREM BarrierHolds == HistorySpec => []Barrier
  BY QueueInvariant, PTL DEF QueueInv

\* The executor can always send: abandoned channels do not stop it.
THEOREM ExecutorNeverBlocks == HistorySpec => []SendNeverBlocks
<1>1. QueueInv => SendNeverBlocks
  BY DEF QueueInv, HistoryTypeOK, QueueTypeOK, QueueOK, ChannelsApart, SendNeverBlocks
<1> QED
  BY <1>1, QueueInvariant, PTL

-----------------------------------------------------------------------------
\* AsyncExecute, with its rounds and its goroutine, is a FlushBarrier: every
\* step of asyncexecute.go is one of its steps or none.
THEOREM QueueIsFlushBarrier == HistorySpec => ImplementsFlushBarrier
<1>1. HistoryInit => Promise!Init
  BY DEF HistoryInit, New, Promise!Init, CallerState
<1>2. QueueInv /\ QueueInv' /\ [HistoryNext]_allVars => [Promise!Next]_(Promise!vars)
  <2> SUFFICES ASSUME QueueInv, QueueInv', [HistoryNext]_allVars
               PROVE  Promise!Next \/ UNCHANGED Promise!vars
    OBVIOUS
  <2> USE DEF QueueInv, HistoryTypeOK, QueueTypeOK
  <2>1. ASSUME NEW vs \in Batches, CallSet(vs)
        PROVE  Promise!Accept
    <3>1. vs \in Seq(Values)
      BY BatchesAssumption
    <3> QED
      BY <2>1, <3>1 DEF CallSet, Set, Promise!Accept, CallerState
  <2>2. ASSUME NEW c \in Channels, CallWait(c)
        PROVE  Promise!Ask(c)
    BY <2>2 DEF CallWait, Wait, Promise!Ask, CallerState
  <2>3. ASSUME NEW c \in Channels, CallReceive(c)
        PROVE  Promise!Leave(c)
    BY <2>3 DEF CallReceive, Receive, Promise!Leave, CallerState
  <2>4. CASE RunExec
    <3>1. executed \o batch = SubSeq(accepted, 1, Len(executed) + Len(batch))
      BY DEF NothingLost
    <3>2. Len(executed) + Len(batch) \in Len(executed) .. Len(accepted)
      BY DEF NothingLost
    <3>3. executed' = executed \o batch /\ UNCHANGED <<accepted, CallerState, mark>>
      BY <2>4 DEF RunExec, Exec, CallerState
    <3>4. \E n \in Len(executed) .. Len(accepted) : executed' = SubSeq(accepted, 1, n)
      BY ONLY <3>1, <3>2, <3>3
    <3> QED
      BY ONLY <3>3, <3>4 DEF Promise!Flush, Promise!Next
  <2>5. CASE Signal /\ UNCHANGED history
    <3> DEFINE c == Head(signals)
    <3>1. c \in Channels /\ chan[c] = "empty" /\ chan' = [chan EXCEPT ![c] = "full"]
      BY <2>5 DEF Signal
    <3>2. mark[c] <= Len(executed)
      BY <2>5, <3>1 DEF Signal, history, Barrier
    <3> HIDE DEF c
    <3>3. Promise!Release(c)
      BY <2>5, <3>1, <3>2 DEF history, Promise!Release, CallerState
    <3> QED
      BY <3>1, <3>3 DEF Promise!Next
  <2>6. CASE (Get \/ EndRound \/ Tick) /\ UNCHANGED history
    BY <2>6 DEF Get, EndRound, Tick, history, Promise!vars, CallerState
  <2>7. CASE UNCHANGED allVars
    BY <2>7 DEF allVars, queueVars, history, Promise!vars, CallerState
  <2> QED
    BY <2>1, <2>2, <2>3, <2>4, <2>5, <2>6, <2>7
    DEF HistoryNext, RunQueue, Promise!Next
<1> QED
  BY <1>1, <1>2, QueueInvariant, PTL
  DEF HistorySpec, ImplementsFlushBarrier, Promise!Spec

-----------------------------------------------------------------------------
\* The locks.

\* What the threads have at each step.
Holding ==
    \A t \in Threads :
        /\ pc[t] \in {"out", "look", "create"} => m[t] = NoMutex
        /\ pc[t] = "drain" => mode[t] = "write" /\ writer[m[t]] = t
        /\ pc[t] = "wait" => mode[t] = "read" /\ t \in readers[m[t]] \cup waiting[m[t]]
        /\ Has(t) /\ mode[t] = "write" => writer[m[t]] = t /\ readers[m[t]] = {}
        /\ Has(t) /\ mode[t] = "read" => t \in readers[m[t]]

\* Who can be at a mutex.
HeldBy ==
    \A x \in Mutexes, t \in Threads :
        /\ writer[x] = t => mode[t] = "write" /\ pc[t] \in {"drain", "in", "unlock"}
        /\ t \in readers[x] => mode[t] = "read" /\ pc[t] \in {"wait", "in", "unlock"}
        /\ t \in waiting[x] =>
               pc[t] = "wait" /\ writer[x] # NoThread /\ t \notin readers[x]

Inv == TypeOK /\ OneMutexPerKey /\ Holding /\ HeldBy

USE ConstantsAssumption DEF Modes, Goto, Has

LEMMA InvInit == Init => Inv
  BY DEF Init, Inv, TypeOK, OneMutexPerKey, Holding, HeldBy

LEMMA InvCall ==
  ASSUME Inv, NEW t \in Threads, NEW k \in Keys, NEW rw \in Modes, Call(t, k, rw)
  PROVE  Inv'
<1> USE DEF Inv, Call
<1>1. TypeOK'
  BY DEF TypeOK, Holding, HeldBy
<1>2. OneMutexPerKey' /\ Holding' /\ HeldBy'
  BY DEF TypeOK, OneMutexPerKey, Holding, HeldBy
<1> QED
  BY <1>1, <1>2

LEMMA InvGetOrSet ==
  ASSUME Inv, NEW t \in Threads, Look(t) \/ Create(t)
  PROVE  Inv'
<1> USE DEF Inv
<1>1. CASE Look(t)
  <2>1. TypeOK'
    BY <1>1 DEF Look, TypeOK, Holding, HeldBy
  <2>2. OneMutexPerKey' /\ Holding' /\ HeldBy'
    BY <1>1 DEF Look, TypeOK, OneMutexPerKey, Holding, HeldBy
  <2> QED
    BY <2>1, <2>2
<1>2. CASE Create(t)
  <2>1. m[t] = NoMutex /\ pc[t] = "create" /\ pc' = [pc EXCEPT ![t] = "lock"]
        /\ UNCHANGED <<key, mode, writer, readers, waiting>>
    BY <1>2 DEF Create, Holding, HeldBy
  <2>2. PICK x \in Mutexes :
            /\ mutexMap' = [mutexMap EXCEPT ![key[t]] = x]
            /\ m' = [m EXCEPT ![t] = x]
            /\ mutexMap[key[t]] = x \/ (mutexMap[key[t]] = NoMutex /\ x \notin Made)
    <3>1. CASE mutexMap[key[t]] # NoMutex
      <4>1. /\ mutexMap' = [mutexMap EXCEPT ![key[t]] = mutexMap[key[t]]]
            /\ m' = [m EXCEPT ![t] = mutexMap[key[t]]]
        BY <1>2, <3>1 DEF Create, TypeOK
      <4> QED
        BY <4>1, <3>1 DEF TypeOK
    <3>2. CASE mutexMap[key[t]] = NoMutex
      BY <1>2, <3>2 DEF Create
    <3> QED
      BY <3>1, <3>2
  <2>3. TypeOK'
    BY <2>1, <2>2 DEF TypeOK, Holding, HeldBy
  <2>4. OneMutexPerKey'
    <3>1. \A k \in Keys : mutexMap[k] = x => k = key[t]
      BY <2>2 DEF OneMutexPerKey, TypeOK, Made
    <3>2. \A u \in Threads : m[u] # NoMutex => m'[u] = m[u]
      BY <2>1, <2>2 DEF TypeOK
    <3>3. \A k \in Keys : mutexMap[k] # NoMutex => mutexMap'[k] = mutexMap[k]
      BY <2>2 DEF TypeOK
    <3> QED
      BY <2>1, <2>2, <3>1, <3>2, <3>3 DEF OneMutexPerKey, TypeOK
  <2>5. Holding' /\ HeldBy'
    BY <2>1, <2>2 DEF TypeOK, Holding, HeldBy
  <2> QED
    BY <2>3, <2>4, <2>5
<1> QED
  BY <1>1, <1>2

LEMMA InvLock ==
  ASSUME Inv, NEW t \in Threads,
         LockWrite(t) \/ Drained(t) \/ LockRead(t) \/ Woken(t)
  PROVE  Inv'
<1> USE DEF Inv
<1>0. pc[t] \in {"lock", "wait", "drain"} => m[t] \in Mutexes
  BY DEF OneMutexPerKey, TypeOK
<1>1. CASE LockWrite(t)
  <2>1. TypeOK' /\ OneMutexPerKey'
    BY <1>0, <1>1 DEF LockWrite, TypeOK, OneMutexPerKey
  <2>2. Holding' /\ HeldBy'
    BY <1>0, <1>1 DEF LockWrite, TypeOK, Holding, HeldBy
  <2> QED
    BY <2>1, <2>2
<1>2. CASE Drained(t)
  <2>1. TypeOK' /\ OneMutexPerKey'
    BY <1>2 DEF Drained, TypeOK, OneMutexPerKey
  <2>2. Holding' /\ HeldBy'
    BY <1>0, <1>2 DEF Drained, TypeOK, Holding, HeldBy
  <2> QED
    BY <2>1, <2>2
<1>3. CASE LockRead(t)
  <2>1. TypeOK' /\ OneMutexPerKey'
    BY <1>0, <1>3 DEF LockRead, TypeOK, OneMutexPerKey
  <2>2. CASE writer[m[t]] = NoThread
    <3>1. /\ readers' = [readers EXCEPT ![m[t]] = @ \cup {t}]
          /\ pc' = [pc EXCEPT ![t] = "in"]
          /\ mode[t] = "read"
          /\ UNCHANGED <<mutexMap, key, mode, m, writer, waiting>>
      BY <1>3, <2>2 DEF LockRead
    <3>2. Holding'
      BY <1>0, <1>3, <2>2, <3>1 DEF LockRead, TypeOK, Holding
    <3>3. HeldBy'
      BY <1>0, <1>3, <2>2, <3>1 DEF LockRead, TypeOK, HeldBy
    <3> QED
      BY <2>1, <3>2, <3>3
  <2>3. CASE writer[m[t]] # NoThread
    <3>1. /\ waiting' = [waiting EXCEPT ![m[t]] = @ \cup {t}]
          /\ pc' = [pc EXCEPT ![t] = "wait"]
          /\ mode[t] = "read" /\ pc[t] = "lock"
          /\ UNCHANGED <<mutexMap, key, mode, m, writer, readers>>
      BY <1>3, <2>3 DEF LockRead
    <3>2. Holding'
      BY <1>0, <2>3, <3>1 DEF TypeOK, Holding
    <3>3. HeldBy'
      BY <1>0, <2>3, <3>1 DEF TypeOK, HeldBy
    <3> QED
      BY <2>1, <3>2, <3>3
  <2> QED
    BY <2>2, <2>3
<1>4. CASE Woken(t)
  <2>1. TypeOK' /\ OneMutexPerKey'
    BY <1>4 DEF Woken, TypeOK, OneMutexPerKey
  <2>2. Holding' /\ HeldBy'
    BY <1>0, <1>4 DEF Woken, TypeOK, Holding, HeldBy
  <2> QED
    BY <2>1, <2>2
<1> QED
  BY <1>1, <1>2, <1>3, <1>4

LEMMA InvUnlock ==
  ASSUME Inv, NEW t \in Threads, Find(t) \/ Unlock(t)
  PROVE  Inv'
<1> USE DEF Inv
<1>0. pc[t] \in {"in", "unlock"} => m[t] \in Mutexes /\ m[t] = mutexMap[key[t]]
  BY DEF OneMutexPerKey, TypeOK
<1>1. CASE Find(t)
  <2>1. UNCHANGED m
    BY <1>0, <1>1 DEF Find, TypeOK
  <2>2. TypeOK' /\ OneMutexPerKey'
    BY <1>1, <2>1 DEF Find, TypeOK, OneMutexPerKey
  <2>3. Holding' /\ HeldBy'
    BY <1>1, <2>1 DEF Find, TypeOK, Holding, HeldBy
  <2> QED
    BY <2>2, <2>3
<1>2. CASE Unlock(t)
  <2>0. /\ m' = [m EXCEPT ![t] = NoMutex] /\ pc' = [pc EXCEPT ![t] = "out"]
        /\ pc[t] = "unlock" /\ UNCHANGED <<mutexMap, key, mode>>
    BY <1>2 DEF Unlock
  <2>1. OneMutexPerKey'
    BY <2>0 DEF OneMutexPerKey, TypeOK
  <2>2. CASE mode[t] = "write"
    <3>1. /\ writer' = [writer EXCEPT ![m[t]] = NoThread]
          /\ readers' = [readers EXCEPT ![m[t]] = waiting[m[t]]]
          /\ waiting' = [waiting EXCEPT ![m[t]] = {}]
          /\ readers[m[t]] = {} /\ writer[m[t]] = t
      BY <1>2, <2>2 DEF Unlock, Holding
    <3>2. TypeOK'
      BY <1>0, <2>0, <2>2, <3>1 DEF TypeOK, HeldBy
    <3>3. Holding'
      BY <1>0, <2>0, <2>2, <3>1 DEF TypeOK, Holding, HeldBy
    <3>4. HeldBy'
      BY <1>0, <2>0, <2>2, <3>1 DEF TypeOK, Holding, HeldBy
    <3> QED
      BY <2>1, <3>2, <3>3, <3>4
  <2>3. CASE mode[t] = "read"
    <3>1. /\ readers' = [readers EXCEPT ![m[t]] = @ \ {t}]
          /\ UNCHANGED <<writer, waiting>>
      BY <1>2, <2>3 DEF Unlock
    <3>2. TypeOK'
      BY <1>0, <2>0, <2>3, <3>1 DEF TypeOK, HeldBy
    <3>3. Holding'
      BY <1>0, <2>0, <2>3, <3>1 DEF TypeOK, Holding
    <3>4. HeldBy'
      BY <1>0, <2>0, <2>3, <3>1 DEF TypeOK, HeldBy
    <3> QED
      BY <2>1, <3>2, <3>3, <3>4
  <2> QED
    BY <2>2, <2>3 DEF TypeOK
<1> QED
  BY <1>1, <1>2

LEMMA InvNext == Inv /\ [Next]_vars => Inv'
<1> SUFFICES ASSUME Inv, [Next]_vars
             PROVE  Inv'
  OBVIOUS
<1>1. CASE UNCHANGED vars
  BY <1>1 DEF vars, Inv, TypeOK, OneMutexPerKey, Holding, HeldBy
<1> QED
  BY <1>1, InvCall, InvGetOrSet, InvLock, InvUnlock DEF Next, Step

LEMMA InvExcludes == Inv => Exclusion
  BY DEF Inv, TypeOK, OneMutexPerKey, Holding, HeldBy, Exclusion

-----------------------------------------------------------------------------
\* Every variable keeps its type, and a mutex is held by those who are at it.
THEOREM TypeCorrect == Spec => []TypeOK
  BY InvInit, InvNext, PTL DEF Spec, Inv

\* The first users of a key, however many come at once, share one mutex, which
\* no other key has: getOrSet looks at the map again under the write lock.
THEOREM OneMutexForEachKey == Spec => []OneMutexPerKey
  BY InvInit, InvNext, PTL DEF Spec, Inv

\* A writer of a key is alone with it.
THEOREM MutualExclusion == Spec => []Exclusion
  BY InvInit, InvNext, InvExcludes, PTL DEF Spec

-----------------------------------------------------------------------------
\* The refinement.

AbstractAt == [t \in Threads |-> Position(t)]

LEMMA RefinementInit == Init => Abstract!Init
  BY DEF Init, Abstract!Init, Abstract!Out, Position

\* Only the thread that takes the step moves.
LEMMA OnlyOneMoves ==
  ASSUME NEW t \in Threads, TypeOK,
         \A u \in Threads \ {t} : pc'[u] = pc[u] /\ key'[u] = key[u] /\ mode'[u] = mode[u],
         NEW p, Position(t)' = p
  PROVE  AbstractAt' = [AbstractAt EXCEPT ![t] = p]
<1>1. \A u \in Threads \ {t} : Position(u)' = Position(u)
  BY DEF Position
<1> QED
  BY <1>1 DEF AbstractAt

LEMMA Stutters ==
  ASSUME NEW t \in Threads, TypeOK,
         \A u \in Threads \ {t} : pc'[u] = pc[u] /\ key'[u] = key[u] /\ mode'[u] = mode[u],
         Position(t)' = Position(t)
  PROVE  AbstractAt' = AbstractAt
  BY DEF AbstractAt, Position

LEMMA EntersAlone ==
  ASSUME Inv, Inv', NEW t \in Threads, pc[t] \in {"lock", "wait", "drain"},
         pc' = [pc EXCEPT ![t] = "in"], UNCHANGED <<key, mode>>
  PROVE  Abstract!Enter(t)
<1> DEFINE k == key[t]
           rw == mode[t]
<1>1. k \in Keys /\ rw \in Modes
  BY DEF Inv, TypeOK
<1>2. Position(t) = Abstract!Asking(k, rw) /\ Position(t)' = Abstract!Having(k, rw)
  BY DEF Position, Abstract!Asking, Abstract!Having, Inv, TypeOK
<1>3. AbstractAt' = [AbstractAt EXCEPT ![t] = Abstract!Having(k, rw)]
  BY <1>2, OnlyOneMoves DEF Inv, TypeOK
<1>4. ASSUME NEW u \in Threads \ {t}
      PROVE  /\ Position(u) # Abstract!Having(k, "write")
             /\ Position(u) = Abstract!Having(k, "read") => rw = "read"
  <2>1. Has(u) /\ key[u] = k => mode[u] = "read" /\ rw = "read"
    <3>1. Exclusion'
      BY InvExcludes, PTL
    <3> QED
      BY <3>1 DEF Exclusion, Inv, TypeOK
  <2>2. ASSUME NEW w \in Modes, Position(u) = Abstract!Having(k, w)
        PROVE  Has(u) /\ key[u] = k /\ mode[u] = w
    BY <2>2 DEF Position, Abstract!Having
  <2> QED
    BY <2>1, <2>2
<1>5. /\ AbstractAt[t] = Abstract!Asking(k, rw)
      /\ \A u \in Threads \ {t} : AbstractAt[u] = Position(u)
  BY <1>2 DEF AbstractAt
<1> HIDE DEF k, rw
<1> QED
  BY <1>1, <1>3, <1>4, <1>5 DEF Abstract!Enter, AbstractAt, Abstract!Modes

LEMMA RefinementNext ==
  ASSUME Inv, Inv', [Next]_vars
  PROVE  [Abstract!Next]_AbstractAt
<1> USE DEF Inv, TypeOK
<1>1. ASSUME NEW t \in Threads, NEW k \in Keys, NEW rw \in Modes, Call(t, k, rw)
      PROVE  Abstract!Ask(t)
  <2>1. Position(t) = Abstract!Out /\ Position(t)' = Abstract!Asking(k, rw)
    BY <1>1 DEF Call, Position, Abstract!Out, Abstract!Asking
  <2>2. AbstractAt' = [AbstractAt EXCEPT ![t] = Abstract!Asking(k, rw)]
    BY <1>1, <2>1, OnlyOneMoves DEF Call
  <2> QED
    BY <2>1, <2>2 DEF Abstract!Ask, AbstractAt, Abstract!Modes
<1>2. ASSUME NEW t \in Threads, Look(t) \/ Create(t) \/ LockWrite(t) \/ Find(t)
      PROVE  AbstractAt' = AbstractAt
  <2>1. Position(t)' = Position(t)
    BY <1>2 DEF Look, Create, LockWrite, Find, Position
  <2> QED
    BY <1>2, <2>1, Stutters DEF Look, Create, LockWrite, Find
<1>3. ASSUME NEW t \in Threads, Drained(t) \/ Woken(t)
      PROVE  Abstract!Enter(t)
  BY <1>3, EntersAlone DEF Drained, Woken
<1>4. ASSUME NEW t \in Threads, LockRead(t)
      PROVE  Abstract!Enter(t) \/ AbstractAt' = AbstractAt
  <2>1. CASE pc' = [pc EXCEPT ![t] = "in"]
    BY <1>4, <2>1, EntersAlone DEF LockRead
  <2>2. CASE pc' = [pc EXCEPT ![t] = "wait"]
    <3>1. Position(t)' = Position(t)
      BY <1>4, <2>2 DEF LockRead, Position
    <3> QED
      BY <1>4, <2>2, <3>1, Stutters DEF LockRead
  <2> QED
    BY <1>4, <2>1, <2>2 DEF LockRead
<1>5. ASSUME NEW t \in Threads, Unlock(t)
      PROVE  Abstract!Leave(t)
  <2>1. /\ Position(t) = Abstract!Having(key[t], mode[t])
        /\ Position(t)' = Abstract!Out
    BY <1>5 DEF Unlock, Position, Abstract!Having, Abstract!Out
  <2>2. AbstractAt' = [AbstractAt EXCEPT ![t] = Abstract!Out]
    BY <1>5, <2>1, OnlyOneMoves DEF Unlock
  <2> QED
    BY <2>1, <2>2 DEF Abstract!Leave, AbstractAt, Abstract!Modes
<1>6. CASE UNCHANGED vars
  BY <1>6 DEF vars, AbstractAt, Position
<1> QED
  BY <1>1, <1>2, <1>3, <1>4, <1>5, <1>6 DEF Next, Step, Abstract!Next

\* RWMutexMap is a readers-writer lock for each key: whatever its users see,
\* KeyedLock allows.
THEOREM Refinement == Spec => ImplementsKeyedLock
<1>1. Inv /\ Inv' /\ [Next]_vars => [Abstract!Next]_AbstractAt
  BY RefinementNext
<1> QED
  BY <1>1, InvInit, InvNext, RefinementInit, PTL
  DEF Spec, ImplementsKeyedLock, Abstract!Spec, AbstractAt
=============================================================================
