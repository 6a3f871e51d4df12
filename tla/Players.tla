------------------------------ MODULE Players ------------------------------
(***************************************************************************)
(* The players of a tenant in go/isuports.go: adding and disqualifying      *)
(* them, and every request that looks one up through playerCache, be it to  *)
(* authorize the player, to show a player, or to accept a row of a score    *)
(* file.  A handler is interrupted at every database call and every         *)
(* critical section of the cache.                                           *)
(*                                                                          *)
(* Player ids are unique over all tenants, so one tenant is enough.         *)
(***************************************************************************)
EXTENDS Naturals

CONSTANTS Enrolled,     \* players that are in the table when the process starts
          Newcomers,    \* the ids dispensed later
          Strangers,    \* ids that are nobody's
          Lookups,      \* concurrent requests that look players up
          Banners,      \* concurrent disqualifications
          Adders,       \* concurrent additions
          MaxRestarts,  \* bound: restarts of the process
          MaxFaults     \* bound: failing INSERTs and UPDATEs

Ids == Enrolled \cup Newcomers \cup Strangers
Requests == Lookups \cup Banners \cup Adders

\* is_disqualified of a row or an entry; "none" when there is none.
Standing == {"none", "active", "disqualified"}

\* What a lookup is for: /api/me, a row of a score file, the authorization of a
\* player, the same ahead of showing another player, and showing that one.
Kinds == {"me", "row", "player", "visitor", "shown"}

ASSUME ConstantsAssumption ==
    /\ Ids # {}
    /\ Enrolled \cap Newcomers = {} /\ Enrolled \cap Strangers = {}
    /\ Newcomers \cap Strangers = {}
    /\ Lookups \cap Banners = {} /\ Lookups \cap Adders = {}
    /\ Banners \cap Adders = {}
    /\ {MaxRestarts, MaxFaults} \subseteq Nat

VARIABLES
    row,            \* the player table
    playerCache,
    pc,             \* the step each request is at
    kind,           \* what a lookup is for
    who,            \* the id looked up or disqualified
    target,         \* the id to be shown once the visitor is authorized
    got,            \* the row a request has in hand
    batch,          \* the players an addition is about
    uncached        \* those of them it has not yet put into the cache

\* History variables.
VARIABLES
    told,           \* players whose disqualification was answered
    barred,         \* see Mark
    late,           \* what was barred when a request arrived (Mark, for Banners)
    restarts, faults

PlayerCache == INSTANCE Cache WITH Keys <- Ids, Absent <- "none",
                                   valueMap <- playerCache

locals == <<pc, kind, who, target, got, batch, uncached>>
history == <<told, barred, late, restarts, faults>>
vars == <<row, playerCache, locals, history>>

TypeOK ==
    /\ row \in [Ids -> Standing]
    /\ playerCache \in [Ids -> Standing]
    /\ pc \in [Requests -> {"idle", "get", "select", "fill", "answer",
                            "update", "mark", "cache", "insert"}]
    /\ kind \in [Lookups -> Kinds]
    /\ who \in [Lookups \cup Banners -> Ids]
    /\ target \in [Lookups -> Ids]
    /\ got \in [Lookups \cup Banners -> Standing]
    /\ \A r \in Lookups \cup Banners : pc[r] = "fill" => got[r] # "none"
    /\ batch \in [Adders -> SUBSET Newcomers]
    /\ uncached \in [Adders -> SUBSET Newcomers]
    /\ told \subseteq Ids
    /\ barred \subseteq Ids
    /\ late \in [Lookups \cup Banners -> SUBSET Ids]
    /\ restarts \in 0 .. MaxRestarts
    /\ faults \in 0 .. MaxFaults

Nobody == CHOOSE i \in Ids : TRUE

Init ==
    /\ row \in {r \in [Ids -> Standing] :
                   \A i \in Ids : i \in Enrolled <=> r[i] # "none"}
    /\ playerCache = PlayerCache!Empty
    /\ pc = [r \in Requests |-> "idle"]
    /\ kind = [r \in Lookups |-> "me"]
    /\ who = [r \in Lookups \cup Banners |-> Nobody]
    /\ target = [r \in Lookups |-> Nobody]
    /\ got = [r \in Lookups \cup Banners |-> "none"]
    /\ batch = [a \in Adders |-> {}]
    /\ uncached = [a \in Adders |-> {}]
    /\ told = {}
    /\ barred = {i \in Ids : row[i] = "disqualified"}
    /\ late = [r \in Lookups \cup Banners |-> {}]
    /\ restarts = 0
    /\ faults = 0

-----------------------------------------------------------------------------
Goto(r, step) == pc' = [pc EXCEPT ![r] = step]

Fault == /\ faults < MaxFaults
         /\ faults' = faults + 1

\* playersListHandler: whoever is in the table.
PlayersList == {i \in Ids : row[i] # "none"}

\* An id gets known by being listed; a request may also name one that is not.
Nameable == PlayersList \cup Strangers

\* A request that has been answered holds nothing any more.
Return(r) ==
    /\ Goto(r, "idle")
    /\ who' = [who EXCEPT ![r] = Nobody]
    /\ got' = [got EXCEPT ![r] = "none"]
    /\ late' = [late EXCEPT ![r] = {}]
    /\ UNCHANGED <<row, playerCache, batch, uncached, barred, restarts>>

-----------------------------------------------------------------------------
\* retrievePlayer: playerCache.GetOrSet around a SELECT.

Get(r) ==
    /\ pc[r] = "get"
    /\ got' = [got EXCEPT ![r] = playerCache[who[r]]]
    /\ Goto(r, IF PlayerCache!Has(who[r]) THEN "answer" ELSE "select")
    /\ UNCHANGED <<row, playerCache, kind, who, target, batch, uncached, history>>

\* Mutant: that there is no row is cached like a row.
SelectAnything(r) ==
    /\ pc[r] = "select"
    /\ got' = [got EXCEPT ![r] = row[who[r]]]
    /\ Goto(r, "fill")
    /\ UNCHANGED <<row, playerCache, kind, who, target, batch, uncached, history>>

\* No row is an error, and then nothing is cached.
Select(r) ==
    /\ pc[r] = "select"
    /\ got' = [got EXCEPT ![r] = row[who[r]]]
    /\ Goto(r, IF row[who[r]] = "none" THEN "answer" ELSE "fill")
    /\ UNCHANGED <<row, playerCache, kind, who, target, batch, uncached, history>>

Fill(r) ==
    /\ pc[r] = "fill"
    /\ PlayerCache!Set(who[r], got[r])
    /\ Goto(r, "answer")
    /\ UNCHANGED <<row, kind, who, target, got, batch, uncached, history>>

Retrieve(r) == Get(r) \/ Select(r) \/ Fill(r)

-----------------------------------------------------------------------------
\* The requests that look a player up.

LookupRequest(r, k, i, j) ==
    /\ pc[r] = "idle"
    /\ Goto(r, "get")
    /\ kind' = [kind EXCEPT ![r] = k]
    /\ who' = [who EXCEPT ![r] = i]
    /\ target' = [target EXCEPT ![r] = j]
    /\ late' = [late EXCEPT ![r] = barred]
    /\ UNCHANGED <<row, playerCache, got, batch, uncached,
                   told, barred, restarts, faults>>

\* Mutant: a disqualified player is authorized.
AuthorizeAnybody(standing) ==
    IF standing = "none" THEN "unauthorized" ELSE "ok"

\* authorizePlayer.
AuthorizePlayer(standing) ==
    CASE standing = "none"         -> "unauthorized"
      [] standing = "disqualified" -> "forbidden"
      [] standing = "active"       -> "ok"

\* playerHandler goes on to the player it is asked to show.
Authorized(r) ==
    /\ pc[r] = "answer"
    /\ kind[r] = "visitor"
    /\ AuthorizePlayer(got[r]) = "ok"
    /\ kind' = [kind EXCEPT ![r] = "shown"]
    /\ who' = [who EXCEPT ![r] = target[r]]
    /\ got' = [got EXCEPT ![r] = "none"]
    /\ Goto(r, "get")
    /\ UNCHANGED <<row, playerCache, target, batch, uncached, history>>

\* The answer, with the player's standing where it shows it.
Answer(r) ==
    CASE kind[r] \in {"player", "visitor"} -> AuthorizePlayer(got[r])
      [] kind[r] = "me"    -> IF got[r] = "none" THEN "not logged in" ELSE got[r]
      [] kind[r] = "shown" -> IF got[r] = "none" THEN "not found" ELSE got[r]
      [] kind[r] = "row"   -> IF got[r] = "none" THEN "bad request" ELSE "ok"

LookupAnswer(r) ==
    /\ pc[r] = "answer"
    /\ kind[r] = "visitor" => Answer(r) # "ok"
    /\ Return(r)
    /\ kind' = [kind EXCEPT ![r] = "me"]
    /\ target' = [target EXCEPT ![r] = Nobody]
    /\ UNCHANGED <<told, faults>>

-----------------------------------------------------------------------------
\* playersAddHandler: every player into the cache, then all into the table by
\* one INSERT.  An id is known to nobody before.

AddRequest(a, players) ==
    /\ pc[a] = "idle"
    /\ players # {}
    /\ \A i \in players : /\ row[i] = "none" /\ ~PlayerCache!Has(i)
                          /\ \A b \in Adders : i \notin batch[b]
    /\ batch' = [batch EXCEPT ![a] = players]
    /\ uncached' = [uncached EXCEPT ![a] = players]
    /\ Goto(a, "cache")
    /\ UNCHANGED <<row, playerCache, kind, who, target, got, history>>

\* Mutant: the players go straight to the table.
AddUncached(a, i) ==
    /\ pc[a] = "cache"
    /\ i \in uncached[a]
    /\ uncached' = [uncached EXCEPT ![a] = {}]
    /\ Goto(a, "insert")
    /\ UNCHANGED <<row, playerCache, kind, who, target, got, batch, history>>

AddCache(a, i) ==
    /\ pc[a] = "cache"
    /\ i \in uncached[a]
    /\ PlayerCache!Set(i, "active")
    /\ uncached' = [uncached EXCEPT ![a] = @ \ {i}]
    /\ Goto(a, IF uncached[a] = {i} THEN "insert" ELSE "cache")
    /\ UNCHANGED <<row, kind, who, target, got, batch, history>>

AddReturn(a) ==
    /\ batch' = [batch EXCEPT ![a] = {}]
    /\ uncached' = [uncached EXCEPT ![a] = {}]
    /\ Goto(a, "idle")
    /\ UNCHANGED <<playerCache, kind, who, target, got, told, barred, late, restarts>>

AddInsert(a) ==
    /\ pc[a] = "insert"
    /\ row' = [i \in Ids |-> IF i \in batch[a] THEN "active" ELSE row[i]]
    /\ AddReturn(a)
    /\ UNCHANGED faults

\* 500, for want of another id or because of the INSERT: what is in the cache
\* stays there, under ids that are never heard of.
AddFails(a) ==
    /\ pc[a] \in {"cache", "insert"}
    /\ Fault
    /\ AddReturn(a)
    /\ UNCHANGED row

-----------------------------------------------------------------------------
\* playerDisqualifiedHandler.

BanRequest(b, i) ==
    /\ pc[b] = "idle"
    /\ who' = [who EXCEPT ![b] = i]
    /\ Goto(b, "update")
    /\ UNCHANGED <<row, playerCache, kind, target, got, batch, uncached, history>>

\* UPDATE player SET is_disqualified: no row is not an error.
BanUpdate(b) ==
    /\ pc[b] = "update"
    /\ row' = [row EXCEPT ![who[b]] = IF @ = "none" THEN "none" ELSE "disqualified"]
    /\ Goto(b, "mark")
    /\ UNCHANGED <<playerCache, kind, who, target, got, batch, uncached, history>>

\* Mutant: a failed UPDATE does not end the handler.
BanGoesOn(b) ==
    /\ pc[b] = "update"
    /\ Fault
    /\ Goto(b, "mark")
    /\ UNCHANGED <<row, playerCache, kind, who, target, got, batch, uncached,
                   told, barred, late, restarts>>

BanFails(b) ==
    /\ pc[b] = "update"
    /\ Fault
    /\ Return(b)
    /\ UNCHANGED <<kind, target, told>>

\* Requests that have read the row of i before its disqualification and are
\* about to cache it.
Outdated(i) ==
    {r \in Lookups \cup Banners :
        pc[r] = "fill" /\ who[r] = i /\ got[r] = "active"}

\* Mutant: the cache is left to be filled from the table.
MarkNothing(b) ==
    /\ pc[b] = "mark"
    /\ barred' = IF Outdated(who[b]) = {} /\ row[who[b]] # "none"
                 THEN barred \cup {who[b]} ELSE barred
    /\ late' = [late EXCEPT ![b] = barred']
    /\ Goto(b, "get")
    /\ UNCHANGED <<row, playerCache, kind, who, target, got, batch, uncached,
                   told, restarts, faults>>

\* playerCache.Update does nothing when there is no entry.  With no outdated
\* row on its way into the cache, i is barred from here on.
Mark(b) ==
    /\ pc[b] = "mark"
    /\ PlayerCache!Update(who[b], "disqualified")
    /\ barred' = IF Outdated(who[b]) = {} /\ row[who[b]] # "none"
                 THEN barred \cup {who[b]} ELSE barred
    /\ late' = [late EXCEPT ![b] = barred']
    /\ Goto(b, "get")
    /\ UNCHANGED <<row, kind, who, target, got, batch, uncached,
                   told, restarts, faults>>

\* The answer shows is_disqualified as it was retrieved; no row is a 404.
BanAnswer(b) ==
    /\ pc[b] = "answer"
    /\ told' = IF got[b] = "none" THEN told ELSE told \cup {who[b]}
    /\ Return(b)
    /\ UNCHANGED <<kind, target, faults>>

-----------------------------------------------------------------------------
\* The process ends and is started again with an empty cache: whoever is
\* disqualified in the table is barred.
Restart ==
    /\ restarts < MaxRestarts
    /\ restarts' = restarts + 1
    /\ PlayerCache!New
    /\ pc' = [r \in Requests |-> "idle"]
    /\ kind' = [r \in Lookups |-> "me"]
    /\ who' = [r \in Lookups \cup Banners |-> Nobody]
    /\ target' = [r \in Lookups |-> Nobody]
    /\ got' = [r \in Lookups \cup Banners |-> "none"]
    /\ batch' = [a \in Adders |-> {}]
    /\ uncached' = [a \in Adders |-> {}]
    /\ barred' = {i \in Ids : row[i] = "disqualified"}
    /\ late' = [r \in Lookups \cup Banners |-> {}]
    /\ UNCHANGED <<row, told, faults>>

LookupStep(r) ==
    \/ \E k \in {"me", "row", "player"}, i \in Nameable :
           LookupRequest(r, k, i, Nobody)
    \/ \E i, j \in Nameable : LookupRequest(r, "visitor", i, j)
    \/ Retrieve(r) \/ Authorized(r) \/ LookupAnswer(r)

BanStep(b) ==
    \/ \E i \in Nameable : BanRequest(b, i)
    \/ BanUpdate(b) \/ BanFails(b) \/ Mark(b) \/ Retrieve(b) \/ BanAnswer(b)

AddStep(a) ==
    \/ \E players \in SUBSET Newcomers : AddRequest(a, players)
    \/ \E i \in Newcomers : AddCache(a, i)
    \/ AddInsert(a) \/ AddFails(a)

Next ==
    \/ \E r \in Lookups : LookupStep(r)
    \/ \E b \in Banners : BanStep(b)
    \/ \E a \in Adders : AddStep(a)
    \/ Restart

Spec == Init /\ [][Next]_vars

-----------------------------------------------------------------------------
\* "When a disqualified participant makes a request it fails with 403", and
\* there is no way back (specification.md): once a player is barred, every
\* later request of the player is refused and shows the player disqualified to
\* others, whatever comes between, restarts included.
TurnedAway ==
    \A r \in Lookups : pc[r] = "answer" /\ who[r] \in late[r] =>
        /\ kind[r] \in {"player", "visitor"} => Answer(r) = "forbidden"
        /\ kind[r] \in {"me", "shown"} => Answer(r) = "disqualified"

\* Disqualifying a player who can be barred is answered with is_disqualified
\* "always true" (specification.md).
ToldTrue ==
    \A b \in Banners :
        pc[b] = "answer" /\ who[b] \in late[b] => got[b] = "disqualified"

\* A player this process has added is barred by the first disqualification that
\* is answered: there is an entry in the cache before anybody can know the id,
\* so no request ever reads the row of such a player.
NewcomersBarred == restarts = 0 => told \cap Newcomers \subseteq barred

\* Nobody is refused or shown as disqualified who is not so in the table, also
\* when the UPDATE has failed.
RefusedOnRecord ==
    \A r \in Lookups \cup Banners :
        pc[r] = "answer" /\ got[r] = "disqualified" => row[who[r]] = "disqualified"
=============================================================================
