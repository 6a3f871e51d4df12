------------------------------ MODULE Tenants ------------------------------
(***************************************************************************)
(* The tenants of go/isuports.go: adding them, finding them by the host of  *)
(* a request, their bills and the pages the administrator reads of them,    *)
(* and initialize, which puts everything back to the initial data.          *)
(*                                                                          *)
(* A handler is interrupted at every statement and at every critical        *)
(* section of a cache.  A tenant's row is its id and its name.  What a      *)
(* competition costs is Competition's subject: here it is the number Yen    *)
(* gives it.  Initialize is called when nothing else is going on ("called   *)
(* first when the benchmarker starts").                                     *)
(***************************************************************************)
EXTENDS Naturals, FiniteSets

CONSTANTS
    Initial,        \* the number of tenants in the initial data (100)
    MaxTenants,     \* bound: ids dispensed
    Names,          \* names tenants have or may get
    NoName,
    InitialName,    \* the names of the initial tenants
    Numbers,        \* the competitions of one tenant
    InitialComps,   \* the initial competitions: [Comps -> Status]
    Yen,            \* what the report of each competition comes to
    NoBill,
    PageSize,       \* tenants in a page (10)
    Adders,         \* concurrent requests to add a tenant
    Requests,       \* concurrent requests to a tenant's host
    Pagers,         \* administrators reading the pages
    MaxInits,       \* bound: calls of initialize
    MaxRestarts,    \* bound: restarts of the process
    MaxFaults       \* bound: failing statements and commands

Ids == 1 .. MaxTenants
Comps == Ids \X Numbers
Status == {"none", "open", "finished"}

ASSUME ConstantsAssumption ==
    /\ Initial \in Nat /\ MaxTenants \in Nat /\ Initial <= MaxTenants
    /\ Names # {} /\ Numbers # {}
    /\ NoName \notin Names /\ NoBill \notin Nat
    /\ InitialName \in [1 .. Initial -> Names]
    /\ \A i, j \in 1 .. Initial : i # j => InitialName[i] # InitialName[j]
    /\ InitialComps \in [Comps -> Status]
    /\ \A c \in Comps : InitialComps[c] # "none" => c[1] <= Initial
    /\ Yen \in [Comps -> Nat]
    /\ PageSize \in Nat \ {0}
    /\ {MaxInits, MaxRestarts, MaxFaults} \subseteq Nat
    /\ Adders \cap Requests = {} /\ Adders \cap Pagers = {} /\ Requests \cap Pagers = {}

VARIABLES
    tenant,             \* the tenant table: [Ids -> Names \cup {NoName}]
    nextId,             \* its AUTO_INCREMENT
    db,                 \* the ids that have a file in tenant_db
    competition,        \* the competition tables of those
    billing,            \* the billing table
    tenantNameCache,    \* the id of the row cached under a name, or 0
    tenantIDCache,      \* the name in the row cached under an id
    pc,
    host, aud,          \* the tenant a request names, and that of its token, if any
    comp,               \* the competition it has finished
    tid,                \* the tenant's id as the request has found it
    name,               \* the name in the row a ranking request has in hand
    before, shown,      \* of a pager: where the next page starts, and who was seen
    init                \* where initialize is

\* History variables.
VARIABLES
    added,              \* additions that were answered
    due,                \* who had a bill when a pager started
    again,              \* pagers who were shown a tenant twice
    clean,              \* the last initialize has succeeded
    interrupted,        \* competitions whose finish ended before its INSERT
    inits, restarts, faults

NameCache == INSTANCE Cache WITH Keys <- Names, Absent <- 0,
                                 valueMap <- tenantNameCache
IDCache == INSTANCE Cache WITH Keys <- Ids, Absent <- NoName,
                               valueMap <- tenantIDCache

database == <<tenant, nextId, db, competition, billing>>
caches == <<tenantNameCache, tenantIDCache>>
request == <<pc, host, aud, comp, tid, name>>
paging == <<before, shown, due, again>>
bounds == <<inits, restarts, faults>>
vars == <<database, caches, request, paging, init, added, clean, interrupted, bounds>>

\* A request that is answered keeps nothing of what it was about.
Nothing == [host |-> CHOOSE n \in Names : TRUE, comp |-> CHOOSE n \in Numbers : TRUE]

Handlers == Adders \cup Requests

\* Which competitions initialize bills with nothing, for they are open.
OpenAtFirst(c) == InitialComps[c] = "open"

InitialBill(c) ==
    CASE InitialComps[c] = "none"     -> NoBill
      [] InitialComps[c] = "open"     -> 0
      [] InitialComps[c] = "finished" -> Yen[c]

Steps == {"idle", "create", "get", "select", "fill", "set", "go", "bill", "selectid",
          "fillid", "nameset", "paging"}

TypeOK ==
    /\ tenant \in [Ids -> Names \cup {NoName}]
    /\ nextId \in 1 .. MaxTenants + 1
    /\ db \subseteq Ids
    /\ competition \in [Comps -> Status]
    /\ billing \in [Comps -> Nat \cup {NoBill}]
    /\ tenantNameCache \in [Names -> {0} \cup Ids]
    /\ tenantIDCache \in [Ids -> Names \cup {NoName}]
    /\ pc \in [Handlers \cup Pagers -> Steps]
    /\ host \in [Handlers -> Names] /\ aud \in [Requests -> Names \cup {NoName}]
    /\ comp \in [Requests -> Numbers]
    /\ tid \in [Handlers -> {0} \cup Ids]
    /\ name \in [Requests -> Names \cup {NoName}]
    /\ \A r \in Requests : pc[r] \notin {"idle", "get", "select"} => tid[r] # 0
    /\ before \in [Pagers -> {0} \cup Ids]
    /\ shown \in [Pagers -> SUBSET Ids]
    /\ init \in {"idle", "files", "caches", "reports"}
    /\ added \subseteq Ids
    /\ due \in [Pagers -> SUBSET Ids]
    /\ again \subseteq Pagers
    /\ clean \in BOOLEAN
    /\ interrupted \subseteq Comps
    /\ inits \in 0 .. MaxInits /\ restarts \in 0 .. MaxRestarts
    /\ faults \in 0 .. MaxFaults

\* An initialize has been made before.
Init ==
    /\ tenant = [i \in Ids |-> IF i <= Initial THEN InitialName[i] ELSE NoName]
    /\ nextId = Initial + 1
    /\ db = 1 .. Initial
    /\ competition = InitialComps
    /\ billing = [c \in Comps |-> InitialBill(c)]
    /\ tenantNameCache = NameCache!Empty
    /\ tenantIDCache = IDCache!Empty
    /\ pc = [r \in Handlers \cup Pagers |-> "idle"]
    /\ host = [r \in Handlers |-> Nothing.host]
    /\ aud = [r \in Requests |-> Nothing.host]
    /\ comp = [r \in Requests |-> Nothing.comp]
    /\ tid = [r \in Handlers |-> 0]
    /\ name = [r \in Requests |-> NoName]
    /\ before = [p \in Pagers |-> 0]
    /\ shown = [p \in Pagers |-> {}]
    /\ init = "idle"
    /\ added = {}
    /\ due = [p \in Pagers |-> {}]
    /\ again = {}
    /\ clean = TRUE
    /\ interrupted = {}
    /\ inits = 0
    /\ restarts = 0
    /\ faults = 0

Goto(r, step) == pc' = [pc EXCEPT ![r] = step]

Fault == faults < MaxFaults /\ faults' = faults + 1

Return(r) ==
    /\ Goto(r, "idle")
    /\ host' = [host EXCEPT ![r] = Nothing.host]
    /\ aud' = [x \in Requests |-> IF x = r THEN Nothing.host ELSE aud[x]]
    /\ comp' = [x \in Requests |-> IF x = r THEN Nothing.comp ELSE comp[x]]
    /\ tid' = [tid EXCEPT ![r] = 0]
    /\ name' = [x \in Requests |-> IF x = r THEN NoName ELSE name[x]]

-----------------------------------------------------------------------------
\* tenantsAddHandler.

AddRequest(a, n) ==
    /\ pc[a] = "idle" /\ init = "idle"
    /\ nextId <= MaxTenants
    /\ \A i \in Ids : tenant[i] # n            \* else 400: duplicate
    /\ tenant' = [tenant EXCEPT ![nextId] = n]
    /\ nextId' = nextId + 1
    /\ host' = [host EXCEPT ![a] = n]
    /\ tid' = [tid EXCEPT ![a] = nextId]
    /\ Goto(a, "create")
    /\ UNCHANGED <<db, competition, billing, caches, aud, comp, name, paging,
                   init, added, clean, interrupted, bounds>>

\* Mutant: the failure of sqlite3 is not looked at.
AddFailsUnseen(a) ==
    /\ pc[a] = "create"
    /\ Fault
    /\ added' = added \cup {tid[a]}
    /\ Return(a)
    /\ UNCHANGED <<database, caches, paging, init, clean, interrupted, inits,
                   restarts>>

\* 500: the tenant stays in the table, without a database.
AddFails(a) ==
    /\ pc[a] = "create"
    /\ Fault
    /\ Return(a)
    /\ UNCHANGED <<database, caches, paging, init, added, clean, interrupted, inits,
                   restarts>>

CreateTenantDB(a) ==
    /\ pc[a] = "create"
    /\ db' = db \cup {tid[a]}
    /\ added' = added \cup {tid[a]}
    /\ Return(a)
    /\ UNCHANGED <<tenant, nextId, competition, billing, caches, paging, init,
                   clean, interrupted, bounds>>

-----------------------------------------------------------------------------
\* parseViewer and retrieveTenantRowFromHeader: the host's tenant, by way of
\* the cache, has to be the one in the token.

Request(r, h, a) ==
    /\ pc[r] = "idle" /\ init = "idle"
    /\ host' = [host EXCEPT ![r] = h]
    /\ aud' = [aud EXCEPT ![r] = a]
    /\ Goto(r, "get")
    /\ UNCHANGED <<database, caches, comp, tid, name, paging, init, added, clean,
                   interrupted, bounds>>

\* ... unless the header Viewer names the tenant: the request comes from another
\* instance (Proxy, commented out), which has looked at the token.
Forwarded(r, i) ==
    /\ pc[r] = "idle" /\ init = "idle"
    /\ tid' = [tid EXCEPT ![r] = i]
    /\ aud' = [aud EXCEPT ![r] = NoName]
    /\ Goto(r, "go")
    /\ UNCHANGED <<database, caches, host, comp, name, paging, init, added, clean,
                   interrupted, bounds>>

\* A handler's step that changes nothing but the two caches.
InCaches == UNCHANGED <<database, host, aud, comp, name, paging, init, added,
                        clean, interrupted, bounds>>

GetName(r) ==
    /\ pc[r] = "get"
    /\ tid' = [tid EXCEPT ![r] = tenantNameCache[host[r]]]
    /\ Goto(r, IF NameCache!Has(host[r]) THEN "set" ELSE "select")
    /\ UNCHANGED caches /\ InCaches

SelectName(r) ==
    /\ pc[r] = "select"
    /\ \E i \in Ids :
           /\ tenant[i] = host[r]
           /\ tid' = [tid EXCEPT ![r] = i]
    /\ Goto(r, "fill")
    /\ UNCHANGED caches /\ InCaches

\* Mutant: the row that is not there is cached.
UnknownCached(r) ==
    /\ pc[r] = "select"
    /\ \A i \in Ids : tenant[i] # host[r]
    /\ Goto(r, "fill")
    /\ UNCHANGED <<caches, tid>> /\ InCaches

\* 401: tenant not found.
Unknown(r) ==
    /\ pc[r] = "select"
    /\ \A i \in Ids : tenant[i] # host[r]
    /\ Return(r)
    /\ UNCHANGED <<database, caches, paging, init, added, clean, interrupted, bounds>>

FillName(r) ==
    /\ pc[r] = "fill"
    /\ NameCache!Set(host[r], tid[r])
    /\ Goto(r, "set")
    /\ UNCHANGED <<tenantIDCache, tid>> /\ InCaches

\* The row has the host's name: the comparison with the token is with that.
SetID(r) ==
    /\ pc[r] = "set"
    /\ IDCache!Set(tid[r], host[r])
    /\ \/ /\ host[r] = aud[r]
          /\ Goto(r, "go")
          /\ UNCHANGED <<host, aud, comp, tid, name>>
       \/ /\ host[r] # aud[r]
          /\ Return(r)
    /\ UNCHANGED <<database, tenantNameCache, paging, init, added, clean, interrupted, bounds>>

-----------------------------------------------------------------------------
\* What the viewer then asks for: a competition to be added or finished, or a
\* ranking.

Competition(r) == <<tid[r], comp[r]>>

\* An error: there is no database, no such player or competition, or tenant 1 may
\* not add any.
Refused(r) ==
    /\ pc[r] = "go"
    /\ Return(r)
    /\ UNCHANGED <<database, caches, paging, init, added, clean, interrupted, bounds>>

\* competitionsAddHandler, with an id nobody has had.
CompetitionsAdd(r, n) ==
    /\ pc[r] = "go"
    /\ tid[r] \in db /\ tid[r] # 1
    /\ competition[<<tid[r], n>>] = "none"
    /\ competition' = [competition EXCEPT ![<<tid[r], n>>] = "open"]
    /\ Return(r)
    /\ UNCHANGED <<tenant, nextId, db, billing, caches, paging, init, added, clean,
                   interrupted, bounds>>

\* competitionFinishHandler: the UPDATE, and later the INSERT INTO billing.
Finish(r, n) ==
    /\ pc[r] = "go"
    /\ tid[r] \in db /\ competition[<<tid[r], n>>] # "none"
    /\ competition' = [competition EXCEPT ![<<tid[r], n>>] = "finished"]
    /\ comp' = [comp EXCEPT ![r] = n]
    /\ Goto(r, "bill")
    /\ UNCHANGED <<tenant, nextId, db, billing, caches, host, aud, tid, name, paging,
                   init, added, clean, interrupted, bounds>>

\* Mutant: the report is made of the competition as it was looked up, unfinished.
BillNothing(r) ==
    /\ pc[r] = "bill"
    /\ billing' = [billing EXCEPT ![Competition(r)] = IF @ = NoBill THEN 0 ELSE @]
    /\ Return(r)
    /\ UNCHANGED <<tenant, nextId, db, competition, caches, paging, init, added,
                   clean, interrupted, bounds>>

\* A second bill of a competition is a duplicate key: 500.
Bill(r) ==
    /\ pc[r] = "bill"
    /\ billing' = [billing EXCEPT
                       ![Competition(r)] = IF @ = NoBill THEN Yen[Competition(r)] ELSE @]
    /\ Return(r)
    /\ UNCHANGED <<tenant, nextId, db, competition, caches, paging, init, added,
                   clean, interrupted, bounds>>

\* The report cannot be made, or the INSERT fails: 500, and it can be finished
\* again.
BillFails(r) ==
    /\ pc[r] = "bill"
    /\ Fault
    /\ interrupted' = interrupted \cup {Competition(r)}
    /\ Return(r)
    /\ UNCHANGED <<database, caches, paging, init, added, clean, inits, restarts>>

\* competitionRankingHandler: tenantIDCache.GetOrSet, and what it returns is put
\* into tenantNameCache.  A request let in by its token finds what parseViewer
\* has just set.
GetID(r) ==
    /\ pc[r] = "go"
    /\ name' = [name EXCEPT ![r] = tenantIDCache[tid[r]]]
    /\ Goto(r, IF IDCache!Has(tid[r]) THEN "nameset" ELSE "selectid")
    /\ UNCHANGED <<database, caches, host, aud, comp, tid, paging, init, added,
                   clean, interrupted, bounds>>

SelectID(r) ==
    /\ pc[r] = "selectid"
    /\ tenant[tid[r]] # NoName
    /\ name' = [name EXCEPT ![r] = tenant[tid[r]]]
    /\ Goto(r, "fillid")
    /\ UNCHANGED <<database, caches, host, aud, comp, tid, paging, init, added,
                   clean, interrupted, bounds>>

\* 500: no rows.
UnknownID(r) ==
    /\ pc[r] = "selectid"
    /\ tenant[tid[r]] = NoName
    /\ Return(r)
    /\ UNCHANGED <<database, caches, paging, init, added, clean, interrupted, bounds>>

FillID(r) ==
    /\ pc[r] = "fillid"
    /\ IDCache!Set(tid[r], name[r])
    /\ Goto(r, "nameset")
    /\ UNCHANGED <<tenantNameCache, tid>> /\ InCaches

SetName(r) ==
    /\ pc[r] = "nameset"
    /\ NameCache!Set(name[r], tid[r])
    /\ Return(r)
    /\ UNCHANGED <<database, tenantIDCache, paging, init, added, clean, interrupted, bounds>>

\* billingHandler: what the organizer is shown of a competition.
ShownBill(c) == IF billing[c] = NoBill THEN 0 ELSE billing[c]

-----------------------------------------------------------------------------
\* tenantsBillingHandler: tenants that have a row in billing, by descending id,
\* from below the last one of the page before.

Billed == {i \in Ids : /\ tenant[i] # NoName
                       /\ \E n \in Numbers : billing[<<i, n>>] # NoBill}

\* Mutant: id <= before.
UpTo(b) == IF b = 0 THEN Billed ELSE {i \in Billed : i <= b}

Below(b) == IF b = 0 THEN Billed ELSE {i \in Billed : i < b}

Page(b) == {i \in Below(b) : Cardinality({j \in Below(b) : j > i}) < PageSize}

FirstPage(p) ==
    /\ pc[p] = "idle" /\ init = "idle"
    /\ due' = [due EXCEPT ![p] = Billed]
    /\ Goto(p, "paging")
    /\ UNCHANGED <<database, caches, host, aud, comp, tid, name, before, shown,
                   again, init, added, clean, interrupted, bounds>>

NextPage(p) ==
    /\ pc[p] = "paging"
    /\ \E last \in Page(before[p]) :
           /\ \A i \in Page(before[p]) : last <= i
           /\ before' = [before EXCEPT ![p] = last]
    /\ shown' = [shown EXCEPT ![p] = @ \cup Page(before[p])]
    /\ again' = IF shown[p] \cap Page(before[p]) = {} THEN again ELSE again \cup {p}
    /\ UNCHANGED <<database, caches, request, due, init, added, clean, interrupted, bounds>>

LastPage(p) ==
    /\ pc[p] = "paging"
    /\ Page(before[p]) = {}
    /\ Goto(p, "idle")
    /\ before' = [before EXCEPT ![p] = 0]
    /\ shown' = [shown EXCEPT ![p] = {}]
    /\ due' = [due EXCEPT ![p] = {}]
    /\ UNCHANGED <<database, caches, host, aud, comp, tid, name, again, init,
                   added, clean, interrupted, bounds>>

-----------------------------------------------------------------------------
\* initializeHandler.

\* init.sql: later tenants are deleted, which does not reset AUTO_INCREMENT, and
\* billing is made anew.
InitSQL ==
    /\ init = "idle" /\ \A r \in Handlers \cup Pagers : pc[r] = "idle"
    /\ inits < MaxInits
    /\ inits' = inits + 1
    /\ tenant' = [i \in Ids |-> IF i <= Initial THEN tenant[i] ELSE NoName]
    /\ billing' = [c \in Comps |-> NoBill]
    /\ init' = "files"
    /\ clean' = FALSE
    /\ added' = {}
    /\ interrupted' = {}
    /\ UNCHANGED <<nextId, db, competition, caches, request, paging, restarts, faults>>

\* init.sh: rm and cp.
InitFiles ==
    /\ init = "files"
    /\ db' = 1 .. Initial
    /\ competition' = InitialComps
    /\ init' = "caches"
    /\ UNCHANGED <<tenant, nextId, billing, caches, request, paging, added, clean,
                   interrupted, bounds>>

\* Mutant: the caches are kept.
InitKeepsCaches ==
    /\ init = "caches"
    /\ init' = "reports"
    /\ UNCHANGED <<database, caches, request, paging, added, clean, interrupted, bounds>>

InitCaches ==
    /\ init = "caches"
    /\ NameCache!New
    /\ IDCache!New
    /\ init' = "reports"
    /\ UNCHANGED <<database, request, paging, added, clean, interrupted, bounds>>

\* The reports of all competitions go into billing by one INSERT.
InitReports ==
    /\ init = "reports"
    /\ billing' = [c \in Comps |->
           IF tenant[c[1]] = NoName \/ competition[c] = "none" THEN NoBill
           ELSE IF competition[c] = "finished" THEN Yen[c] ELSE 0]
    /\ init' = "idle"
    /\ clean' = TRUE
    /\ UNCHANGED <<tenant, nextId, db, competition, caches, request, paging, added,
                   interrupted, bounds>>

\* 500, with what is done so far: files may be gone, caches may be old.
InitFails ==
    /\ init \in {"files", "reports"}
    /\ Fault
    /\ db' \in IF init = "files" THEN {db, {}} ELSE {db}
    /\ init' = "idle"
    /\ UNCHANGED <<tenant, nextId, competition, billing, caches, request, paging, added,
                   clean, interrupted, inits, restarts>>

Initialize == InitSQL \/ InitFiles \/ InitCaches \/ InitReports \/ InitFails

-----------------------------------------------------------------------------
\* The process ends and is started again: the databases are what is left, and the
\* pages the administrators have read.  An initialize may be cut off anywhere.
Creating == {tid[a] : a \in {x \in Adders : pc[x] = "create"}}

Billing == {Competition(r) : r \in {x \in Requests : pc[x] = "bill"}}

Restart ==
    /\ restarts < MaxRestarts
    /\ restarts' = restarts + 1
    /\ NameCache!New
    /\ IDCache!New
    /\ interrupted' = interrupted \cup Billing
    /\ \/ \E made \in SUBSET Creating : db' = db \cup made
       \/ init = "files" /\ db' = {}
    /\ init' = "idle"
    /\ pc' = [r \in Handlers \cup Pagers |-> IF r \in Pagers THEN pc[r] ELSE "idle"]
    /\ host' = [r \in Handlers |-> Nothing.host]
    /\ aud' = [r \in Requests |-> Nothing.host]
    /\ comp' = [r \in Requests |-> Nothing.comp]
    /\ tid' = [r \in Handlers |-> 0]
    /\ name' = [r \in Requests |-> NoName]
    /\ UNCHANGED <<tenant, nextId, competition, billing, paging, added, clean, inits,
                   faults>>

-----------------------------------------------------------------------------
AdderStep(a) ==
    \/ \E n \in Names : AddRequest(a, n)
    \/ AddFails(a) \/ CreateTenantDB(a)

RequestStep(r) ==
    \/ \E h, a \in Names : Request(r, h, a)
    \/ \E i \in Ids : Forwarded(r, i)
    \/ GetName(r) \/ SelectName(r) \/ Unknown(r) \/ FillName(r) \/ SetID(r)
    \/ Refused(r) \/ (\E n \in Numbers : CompetitionsAdd(r, n) \/ Finish(r, n))
    \/ Bill(r) \/ BillFails(r)
    \/ GetID(r) \/ SelectID(r) \/ UnknownID(r) \/ FillID(r) \/ SetName(r)

PagerStep(p) == FirstPage(p) \/ NextPage(p) \/ LastPage(p)

Next ==
    \/ \E a \in Adders : AdderStep(a)
    \/ \E r \in Requests : RequestStep(r)
    \/ \E p \in Pagers : PagerStep(p)
    \/ Initialize
    \/ Restart

Spec == Init /\ [][Next]_vars

-----------------------------------------------------------------------------
\* "Does the tenant name in the JWT match that of the Host header" (a comment of
\* retrieveTenantRowFromHeader): a request that its token lets in works on the
\* tenant the token is for, through caches, deletions, restarts and names given out
\* again, and whatever forwarded requests put into the caches; and a ranking
\* request finds that tenant in tenantIDCache.
ViewersAtHome ==
    clean => \A r \in Requests :
        pc[r] \in {"go", "bill", "selectid", "fillid", "nameset"} /\ aud[r] # NoName =>
            /\ tenant[tid[r]] = aud[r]
            /\ tenantIDCache[tid[r]] = aud[r]

\* A tenant whose addition was answered has a database to work on.
UsableTenants == \A i \in added : tenant[i] # NoName /\ i \in db

\* The organizer is shown what a finished competition comes to (specification.md:
\* "billing_yen, the amount of each competition") unless it was open in the
\* initial data, for which initialize has taken the primary key, or has never
\* been finished without an error or a restart before the INSERT.
BilledInFull ==
    clean => \A c \in Comps :
        /\ competition[c] = "finished"
        /\ c \notin Billing
        => \/ ShownBill(c) = Yen[c]
           \/ OpenAtFirst(c)
           \/ billing[c] = NoBill /\ c \in interrupted

\* "At most ten, by descending id; with before, those of smaller ids": pages read
\* one after the other show every tenant that had a bill at the start, and
\* nobody twice, whatever is added and finished meanwhile.
PagesTile ==
    \A p \in Pagers : pc[p] = "paging" =>
        /\ p \notin again
        /\ Page(before[p]) = {} => due[p] \subseteq shown[p]
=============================================================================
