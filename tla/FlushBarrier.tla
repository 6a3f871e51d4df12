---------------------------- MODULE FlushBarrier ----------------------------
(***************************************************************************)
(* What a user of AsyncExecute relies on, with no queue, no goroutine and   *)
(* no rounds: values are accepted into a log and executed in that order,    *)
(* each once, in prefixes; a caller that asks for a barrier is released     *)
(* only when everything accepted before it asked has been executed.         *)
(* competitionFinishHandler is that user: the visits queued before its      *)
(* Wait() have to be in visit_history_2 when it reads the table.            *)
(***************************************************************************)
EXTENDS Naturals, Sequences

CONSTANTS Values, Channels

VARIABLES log,      \* every value accepted, in order
          executed, \* the values executed, in order
          state,    \* each caller: "idle", "asked", "released"
          mark      \* how much of the log each caller asked for

vars == <<log, executed, state, mark>>

Init ==
    /\ log = <<>>
    /\ executed = <<>>
    /\ state = [c \in Channels |-> "idle"]
    /\ mark = [c \in Channels |-> 0]

\* The log only grows.
Accept ==
    /\ log' \in Seq(Values)
    /\ Len(log) <= Len(log')
    /\ \A i \in 1 .. Len(log) : log'[i] = log[i]
    /\ UNCHANGED <<executed, state, mark>>

Flush ==
    /\ \E n \in Len(executed) .. Len(log) : executed' = SubSeq(log, 1, n)
    /\ UNCHANGED <<log, state, mark>>

Ask(c) ==
    /\ state[c] = "idle"
    /\ state' = [state EXCEPT ![c] = "asked"]
    /\ mark' = [mark EXCEPT ![c] = Len(log)]
    /\ UNCHANGED <<log, executed>>

Release(c) ==
    /\ state[c] = "asked"
    /\ mark[c] <= Len(executed)
    /\ state' = [state EXCEPT ![c] = "released"]
    /\ UNCHANGED <<log, executed, mark>>

Leave(c) ==
    /\ state[c] = "released"
    /\ state' = [state EXCEPT ![c] = "idle"]
    /\ mark' = [mark EXCEPT ![c] = 0]
    /\ UNCHANGED <<log, executed>>

Next ==
    \/ Accept
    \/ Flush
    \/ \E c \in Channels : Ask(c) \/ Release(c) \/ Leave(c)

Spec == Init /\ [][Next]_vars
=============================================================================
