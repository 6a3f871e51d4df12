---------------------------- MODULE AsyncExecute ----------------------------
(***************************************************************************)
(* go/asyncexecute/asyncexecute.go: a queue that collects values under a    *)
(* mutex and hands them in batches to a callback, run by one goroutine in   *)
(* a loop paced by a ticker.  Wait() returns a channel that is signalled    *)
(* at the end of the round that took it.                                    *)
(*                                                                          *)
(* Every critical section of aq.m is one action.  The actions name only the *)
(* queue's own variables, so that a module that uses a queue can INSTANCE   *)
(* this one and conjoin them with its own steps.                            *)
(***************************************************************************)
EXTENDS Naturals, Sequences

CONSTANTS Values,    \* what Set may be given (type parameter V)
          Channels   \* channels Wait may make

VARIABLES data,      \* AsyncExecute.data
          waited,    \* AsyncExecute.waited
          round,     \* where the goroutine of execute() is
          batch,     \* execute()'s local data, taken and not yet given to exec
          signals,   \* execute()'s local waited, the channels left to signal
          chan       \* each channel: "none", "empty", "full"

queueVars == <<data, waited, round, batch, signals, chan>>

\* The types, and that exec is only reached with something to execute: the
\* callback of visitHistoryExec would build an INSERT with no rows.
QueueTypeOK ==
    /\ data \in Seq(Values)
    /\ waited \in Seq(Channels)
    /\ round \in {"get", "exec", "signal", "tick"}
    /\ batch \in Seq(Values)
    /\ signals \in Seq(Channels)
    /\ chan \in [Channels -> {"none", "empty", "full"}]
    /\ round = "exec" <=> batch # <<>>

\* The goroutine is started and its first get() does not wait for a tick.
New ==
    /\ data = <<>>
    /\ waited = <<>>
    /\ round = "get"
    /\ batch = <<>>
    /\ signals = <<>>
    /\ chan = [c \in Channels |-> "none"]

-----------------------------------------------------------------------------
\* Callers.

Set(vs) ==
    /\ data' = data \o vs
    /\ UNCHANGED <<waited, round, batch, signals, chan>>

\* Wait makes a fresh channel with a buffer of one and queues it.
Wait(c) ==
    /\ chan[c] = "none"
    /\ chan' = [chan EXCEPT ![c] = "empty"]
    /\ waited' = Append(waited, c)
    /\ UNCHANGED <<data, round, batch, signals>>

\* The caller's receive from the channel Wait returned; the channel is garbage
\* afterwards and its name is free for the next one.
Receive(c) ==
    /\ chan[c] = "full"
    /\ chan' = [chan EXCEPT ![c] = "none"]
    /\ UNCHANGED <<data, waited, round, batch, signals>>

-----------------------------------------------------------------------------
\* The goroutine: get, exec, one send per channel, then the ticker.

\* Mutants of get() and of the loop body: the taken values stay queued; the
\* round ends early when there is nothing to execute; exec is called with no
\* values; the taken channels stay queued; values are taken only for a waiter.
GetKeepsData ==
    /\ round = "get"
    /\ batch' = data
    /\ signals' = waited
    /\ waited' = <<>>
    /\ round' = IF data # <<>> THEN "exec" ELSE "signal"
    /\ UNCHANGED <<data, chan>>

GetSkipsEmptyRound ==
    /\ round = "get"
    /\ batch' = data
    /\ data' = <<>>
    /\ signals' = IF data # <<>> THEN waited ELSE <<>>
    /\ waited' = <<>>
    /\ round' = IF data # <<>> THEN "exec" ELSE "tick"
    /\ UNCHANGED chan

GetAlwaysExecs ==
    /\ round = "get"
    /\ batch' = data
    /\ data' = <<>>
    /\ signals' = waited
    /\ waited' = <<>>
    /\ round' = "exec"
    /\ UNCHANGED chan

GetKeepsWaited ==
    /\ round = "get"
    /\ batch' = data
    /\ data' = <<>>
    /\ signals' = waited
    /\ round' = IF data # <<>> THEN "exec" ELSE "signal"
    /\ UNCHANGED <<waited, chan>>

GetOnDemand ==
    /\ round = "get"
    /\ IF waited # <<>> THEN batch' = data /\ data' = <<>>
                        ELSE UNCHANGED <<batch, data>>
    /\ signals' = waited
    /\ waited' = <<>>
    /\ round' = IF batch' # <<>> THEN "exec" ELSE "signal"
    /\ UNCHANGED chan

Get ==
    /\ round = "get"
    /\ batch' = data
    /\ data' = <<>>
    /\ signals' = waited
    /\ waited' = <<>>
    /\ round' = IF data # <<>> THEN "exec" ELSE "signal"
    /\ UNCHANGED chan

\* aq.exec(data): what the callback does with batch is its owner's business.
Exec ==
    /\ round = "exec"
    /\ round' = "signal"
    /\ batch' = <<>>
    /\ UNCHANGED <<data, waited, signals, chan>>

\* Mutant of execute(): the channels are signalled before exec has returned.
SignalBeforeExec ==
    /\ round \in {"exec", "signal"}
    /\ signals # <<>>
    /\ chan[Head(signals)] = "empty"
    /\ chan' = [chan EXCEPT ![Head(signals)] = "full"]
    /\ signals' = Tail(signals)
    /\ UNCHANGED <<data, waited, round, batch>>

\* ch <- struct{}{} goes through while the buffer of ch has room.
Signal ==
    /\ round = "signal"
    /\ signals # <<>>
    /\ chan[Head(signals)] = "empty"
    /\ chan' = [chan EXCEPT ![Head(signals)] = "full"]
    /\ signals' = Tail(signals)
    /\ UNCHANGED <<data, waited, round, batch>>

EndRound ==
    /\ round = "signal"
    /\ signals = <<>>
    /\ round' = "tick"
    /\ UNCHANGED <<data, waited, batch, signals, chan>>

\* <-c.C: the ticker always delivers another tick.
Tick ==
    /\ round = "tick"
    /\ round' = "get"
    /\ UNCHANGED <<data, waited, batch, signals, chan>>

Executor == Get \/ Exec \/ Signal \/ EndRound \/ Tick
=============================================================================
