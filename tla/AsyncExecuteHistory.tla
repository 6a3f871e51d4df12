------------------------ MODULE AsyncExecuteHistory ------------------------
(***************************************************************************)
(* An AsyncExecute with any number of goroutines calling Set and Wait, and  *)
(* three history variables that record what the callers saw: the closed     *)
(* system in which the queue's promises are stated.  A caller of Wait may   *)
(* never receive (competitionFinishHandler returns without receiving when   *)
(* its UPDATE fails), so nothing here forces Receive.                       *)
(***************************************************************************)
EXTENDS AsyncExecute

CONSTANTS Batches,   \* the argument lists callers give to Set
          MaxValues  \* bound on the number of values ever accepted

ASSUME BatchesAssumption ==
    /\ Batches \subseteq Seq(Values)
    /\ MaxValues \in Nat

VARIABLES accepted,  \* history: every value given to Set, in lock order
          executed,  \* history: every value given to exec, in order
          mark       \* history: Len(accepted) when the channel was queued

history == <<accepted, executed, mark>>
allVars == <<queueVars, history>>

HistoryTypeOK ==
    /\ QueueTypeOK
    /\ accepted \in Seq(Values)
    /\ executed \in Seq(Values)
    /\ mark \in [Channels -> Nat]

HistoryInit ==
    /\ New
    /\ accepted = <<>>
    /\ executed = <<>>
    /\ mark = [c \in Channels |-> 0]

CallSet(vs) ==
    /\ Len(accepted) + Len(vs) <= MaxValues
    /\ Set(vs)
    /\ accepted' = accepted \o vs
    /\ UNCHANGED <<executed, mark>>

CallWait(c) ==
    /\ Wait(c)
    /\ mark' = [mark EXCEPT ![c] = Len(accepted)]
    /\ UNCHANGED <<accepted, executed>>

CallReceive(c) ==
    /\ Receive(c)
    /\ mark' = [mark EXCEPT ![c] = 0]
    /\ UNCHANGED <<accepted, executed>>

RunExec ==
    /\ Exec
    /\ executed' = executed \o batch
    /\ UNCHANGED <<accepted, mark>>

RunQueue ==
    /\ Get \/ Signal \/ EndRound \/ Tick
    /\ UNCHANGED history

HistoryNext ==
    \/ \E vs \in Batches : CallSet(vs)
    \/ \E c \in Channels : CallWait(c) \/ CallReceive(c)
    \/ RunExec
    \/ RunQueue

\* The goroutine of execute() is always scheduled again, exec returns, and the
\* ticker ticks.  No caller is obliged to call anything.
HistorySpec ==
    /\ HistoryInit
    /\ [][HistoryNext]_allVars
    /\ WF_allVars(RunExec \/ RunQueue)

-----------------------------------------------------------------------------
\* No value is lost, duplicated or reordered between Set and exec: what was
\* accepted is exactly what was executed, then what execute() holds, then what
\* is still queued.
NothingLost == accepted = executed \o batch \o data

\* When a channel has been signalled, everything given to Set before the Wait
\* that made it has been through exec; the caller may rely on the effects.
Barrier ==
    \A c \in Channels : chan[c] = "full" => mark[c] <= Len(executed)

\* The executor never blocks on a send, even when a caller has abandoned its
\* channel: each channel is sent to once and has room for it.
SendNeverBlocks ==
    \A i \in 1 .. Len(signals) : chan[signals[i]] = "empty"

\* Every Wait is answered, whether or not anything was queued with it.
WaitIsAnswered ==
    \A c \in Channels : (chan[c] = "empty") ~> (chan[c] = "full")

\* A caller is released once its channel holds a signal.
CallerState ==
    [c \in Channels |-> CASE chan[c] = "none"  -> "idle"
                          [] chan[c] = "empty" -> "asked"
                          [] chan[c] = "full"  -> "released"]

Promise == INSTANCE FlushBarrier WITH log <- accepted, state <- CallerState

\* The queue implements the barrier its users rely on.
ImplementsFlushBarrier == Promise!Spec
=============================================================================
