----------------------------- MODULE KeyedLock -----------------------------
(***************************************************************************)
(* What mutexmap.go promises: a readers-writer lock for every key.  A       *)
(* thread asks for a key to read or to write, has it for a while, and       *)
(* leaves.  Two threads have a key at the same time only to read, and which *)
(* other keys are taken plays no part.                                      *)
(***************************************************************************)
CONSTANTS Threads, Keys

VARIABLE at     \* where a thread is, and its key and mode when it has one

Modes == {"read", "write"}
Out == [state |-> "out"]
Asking(k, m) == [state |-> "asks", key |-> k, mode |-> m]
Having(k, m) == [state |-> "has", key |-> k, mode |-> m]

Init == at = [t \in Threads |-> Out]

Ask(t) ==
    /\ at[t] = Out
    /\ \E k \in Keys, m \in Modes : at' = [at EXCEPT ![t] = Asking(k, m)]

Enter(t) ==
    \E k \in Keys, m \in Modes :
        /\ at[t] = Asking(k, m)
        /\ \A u \in Threads \ {t} :
               at[u] # Having(k, "write") /\ (at[u] = Having(k, "read") => m = "read")
        /\ at' = [at EXCEPT ![t] = Having(k, m)]

Leave(t) ==
    /\ \E k \in Keys, m \in Modes : at[t] = Having(k, m)
    /\ at' = [at EXCEPT ![t] = Out]

Next == \E t \in Threads : Ask(t) \/ Enter(t) \/ Leave(t)

Spec == Init /\ [][Next]_at
=============================================================================
