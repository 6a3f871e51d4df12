------------------------------- MODULE Cache -------------------------------
(***************************************************************************)
(* cache.Cache of cache/cache.go: a map and an RWMutex.  Every operation    *)
(* that handlers use is one critical section, hence one step here, except   *)
(* GetOrSet: it looks (Has), runs its function with no lock held, and sets  *)
(* the result (Set), which are three steps of the handler that calls it.    *)
(*                                                                          *)
(* A component: the modules of handlers instantiate it, one instance for    *)
(* each of the process's caches.                                            *)
(***************************************************************************)
CONSTANTS Keys,
          Absent    \* what a key that is not in the map has here

VARIABLE valueMap

Empty == [k \in Keys |-> Absent]

New == valueMap' = Empty

Has(k) == valueMap[k] # Absent

Set(k, v) == valueMap' = [valueMap EXCEPT ![k] = v]

\* Update(k, fn), with v what fn makes of the current value.
Update(k, v) ==
    \/ /\ Has(k)
       /\ Set(k, v)
    \/ /\ ~Has(k)
       /\ UNCHANGED valueMap
=============================================================================
