--------------------------- MODULE TenantsProofs ---------------------------
(***************************************************************************)
(* Requests stay with the tenant of their token, an added tenant has its    *)
(* database, a finished competition is billed, and the pages of bills leave *)
(* nobody out: for any tenants, requests and calls of initialize.           *)
(*                                                                          *)
(* The invariant is a conjunction of one part for each of these, with what  *)
(* the table (Table) and a running initialize (Quiet) add to them.          *)
(***************************************************************************)
EXTENDS Tenants, FiniteSetTheorems, WellFoundedInduction, TLAPS

Table ==
    /\ nextId > Initial
    /\ \A i \in Ids : i >= nextId => tenant[i] = NoName
    /\ \A i \in 1 .. Initial : tenant[i] = InitialName[i]

\* Initialize runs alone, on what its last step left.
Quiet ==
    init # "idle" =>
        /\ added = {} /\ ~clean
        /\ \A r \in Handlers \cup Pagers : pc[r] = "idle"
        /\ init # "files" => competition = InitialComps /\ db = 1 .. Initial
        /\ init = "reports" =>
            /\ tenantNameCache = NameCache!Empty
            /\ tenantIDCache = IDCache!Empty

Cached ==
    clean =>
        /\ \A n \in Names :
               tenantNameCache[n] # 0 => tenant[tenantNameCache[n]] = n
        /\ \A i \in Ids : tenantIDCache[i] # NoName => tenant[i] = tenantIDCache[i]

\* A request at one of these works on the tenant it has found.
LetIn == {"go", "bill", "selectid", "fillid", "nameset"}

AtHome ==
    clean => \A r \in Requests :
        /\ pc[r] \in {"fill", "set"} => tenant[tid[r]] = host[r]
        /\ pc[r] \in LetIn /\ aud[r] # NoName =>
               tenant[tid[r]] = aud[r] /\ tenantIDCache[tid[r]] = aud[r]
        /\ pc[r] \in {"fillid", "nameset"} =>
               name[r] # NoName /\ tenant[tid[r]] = name[r]

Usable ==
    /\ UsableTenants
    /\ \A a \in Adders : pc[a] = "create" => tid[a] # 0 /\ tenant[tid[a]] # NoName

Bills ==
    clean => \A c \in Comps :
        \/ OpenAtFirst(c)
        \/ billing[c] = Yen[c]
        \/ /\ billing[c] = NoBill
           /\ competition[c] = "finished" =>
                  \/ c \in interrupted
                  \/ \E r \in Requests : pc[r] = "bill" /\ Competition(r) = c

Walks ==
    \A p \in Pagers :
        /\ p \notin again
        /\ pc[p] = "idle" => before[p] = 0
        /\ before[p] = 0 => shown[p] = {}
        /\ pc[p] = "paging" =>
            /\ due[p] \subseteq Billed
            /\ \A i \in shown[p] : i >= before[p]
            /\ before[p] # 0 => \A i \in due[p] : i >= before[p] => i \in shown[p]

Inv == TypeOK /\ Table /\ Quiet /\ Cached /\ AtHome /\ Usable /\ Bills /\ Walks

USE ConstantsAssumption DEF Ids, Comps, Status, Handlers, Goto,
    NameCache!Set, NameCache!Has, NameCache!New, NameCache!Empty,
    IDCache!Set, IDCache!Has, IDCache!New, IDCache!Empty,
    database, caches, request, paging, bounds

-----------------------------------------------------------------------------
\* Type correctness.

LEMMA SomeNames == Nothing.host \in Names /\ Nothing.comp \in Numbers
  BY DEF Nothing

LEMMA TypeReturn ==
  ASSUME TypeOK, NEW r \in Handlers, Return(r)
  PROVE  /\ pc' \in [Handlers \cup Pagers -> Steps]
         /\ host' \in [Handlers -> Names] /\ aud' \in [Requests -> Names \cup {NoName}]
         /\ comp' \in [Requests -> Numbers]
         /\ tid' \in [Handlers -> {0} \cup Ids]
         /\ name' \in [Requests -> Names \cup {NoName}]
         /\ \A x \in Requests : pc'[x] \notin {"idle", "get", "select"} => tid'[x] # 0
  BY SomeNames DEF TypeOK, Return, Steps

LEMMA TypeAdder ==
  ASSUME TypeOK, Usable, NEW a \in Adders, AdderStep(a)
  PROVE  TypeOK'
<1> USE DEF TypeOK, Steps
<1>1. ASSUME NEW n \in Names, AddRequest(a, n)
      PROVE  TypeOK'
  BY <1>1, SMTT(30) DEF AddRequest
<1>2. CASE AddFails(a)
  <2>1. Return(a) /\ faults' \in 0 .. MaxFaults
    BY <1>2 DEF AddFails, Fault
  <2> QED
    BY <1>2, <2>1, TypeReturn DEF AddFails
<1>3. CASE CreateTenantDB(a)
  <2>1. Return(a) /\ tid[a] \in Ids
    BY <1>3 DEF CreateTenantDB, Usable
  <2> QED
    BY <1>3, <2>1, TypeReturn DEF CreateTenantDB
<1> QED
  BY <1>1, <1>2, <1>3 DEF AdderStep

LEMMA TypeViewer ==
  ASSUME TypeOK, NEW r \in Requests,
         GetName(r) \/ SelectName(r) \/ Unknown(r) \/ FillName(r) \/ SetID(r)
  PROVE  TypeOK'
<1> USE DEF TypeOK, InCaches, Steps
<1>1. CASE GetName(r)
  BY <1>1 DEF GetName
<1>2. CASE SelectName(r)
  <2>1. tid' \in [Handlers -> {0} \cup Ids]
    BY <1>2 DEF SelectName
  <2>2. /\ pc' = [pc EXCEPT ![r] = "fill"]
        /\ tid'[r] \in Ids /\ \A x \in Requests \ {r} : tid'[x] = tid[x]
    BY <1>2 DEF SelectName, Goto, Handlers
  <2>3. \A x \in Requests : pc'[x] \notin {"idle", "get", "select"} => tid'[x] # 0
    BY <2>2 DEF Ids, Handlers
  <2> QED
    BY <1>2, <2>1, <2>2, <2>3, SMTT(30) DEF SelectName
<1>3. CASE Unknown(r)
  BY <1>3, TypeReturn DEF Unknown
<1>4. CASE FillName(r)
  BY <1>4 DEF FillName
<1>5. CASE SetID(r)
  <2>1. CASE host[r] = aud[r]
    BY <1>5, <2>1 DEF SetID
  <2>2. CASE host[r] # aud[r]
    BY <1>5, <2>2, TypeReturn DEF SetID
  <2> QED
    BY <2>1, <2>2
<1> QED
  BY <1>1, <1>2, <1>3, <1>4, <1>5

LEMMA TypeServed ==
  ASSUME TypeOK, NEW r \in Requests,
         \/ Refused(r) \/ (\E n \in Numbers : CompetitionsAdd(r, n) \/ Finish(r, n))
         \/ Bill(r) \/ BillFails(r)
         \/ GetID(r) \/ SelectID(r) \/ UnknownID(r) \/ FillID(r) \/ SetName(r)
  PROVE  TypeOK'
<1> USE DEF TypeOK, Steps
<1>1. CASE Refused(r) \/ UnknownID(r)
  BY <1>1, TypeReturn DEF Refused, UnknownID
<1>2. ASSUME NEW n \in Numbers, CompetitionsAdd(r, n)
      PROVE  TypeOK'
  BY <1>2, TypeReturn DEF CompetitionsAdd
<1>3. ASSUME NEW n \in Numbers, Finish(r, n)
      PROVE  TypeOK'
  BY <1>3 DEF Finish
<1>4. CASE Bill(r)
  BY <1>4, TypeReturn DEF Bill, Competition
<1>5. CASE BillFails(r)
  <2>1. Return(r) /\ faults' \in 0 .. MaxFaults
    BY <1>5 DEF BillFails, Fault
  <2>2. Competition(r) \in Comps
    <3>1. pc[r] = "bill"
      BY <1>5 DEF BillFails
    <3>2. tid[r] \in Ids /\ comp[r] \in Numbers
      BY <3>1
    <3> QED
      BY <3>2 DEF Competition
  <2> QED
    BY <1>5, <2>1, <2>2, TypeReturn DEF BillFails
<1>6. CASE GetID(r) \/ SelectID(r)
  <2>1. pc[r] \in {"go", "selectid"}
    BY <1>6 DEF GetID, SelectID
  <2>2. tid[r] \in Ids
    BY <2>1
  <2>3. name' \in [Requests -> Names \cup {NoName}]
    <3>1. tenantIDCache[tid[r]] \in Names \cup {NoName} /\ tenant[tid[r]] \in Names \cup {NoName}
      BY <2>2
    <3>2. \/ name' = [name EXCEPT ![r] = tenantIDCache[tid[r]]]
          \/ name' = [name EXCEPT ![r] = tenant[tid[r]]]
      BY <1>6 DEF GetID, SelectID
    <3> QED
      BY <3>1, <3>2
  <2> QED
    BY <1>6, <2>2, <2>3, ZenonT(30) DEF GetID, SelectID
<1>7. CASE FillID(r)
  BY <1>7 DEF FillID, InCaches
<1>8. CASE SetName(r)
  BY <1>8, TypeReturn DEF SetName
<1> QED
  BY <1>1, <1>2, <1>3, <1>4, <1>5, <1>6, <1>7, <1>8

LEMMA TypePager ==
  ASSUME TypeOK, NEW p \in Pagers, PagerStep(p)
  PROVE  TypeOK'
<1> USE DEF TypeOK, Steps
<1>1. Billed \subseteq Ids /\ Page(before[p]) \subseteq Ids
  BY DEF Billed, Page, Below
<1>2. CASE FirstPage(p)
  BY <1>1, <1>2, SMTT(30) DEF FirstPage
<1>3. CASE NextPage(p)
  BY <1>1, <1>3 DEF NextPage
<1>4. CASE LastPage(p)
  BY <1>4 DEF LastPage
<1> QED
  BY <1>2, <1>3, <1>4 DEF PagerStep

LEMMA TypeInitialize ==
  ASSUME TypeOK, Initialize
  PROVE  TypeOK'
<1> USE DEF TypeOK
<1>1. CASE InitSQL
  <2>1. tenant' \in [Ids -> Names \cup {NoName}] /\ billing' \in [Comps -> Nat \cup {NoBill}]
    BY <1>1 DEF InitSQL
  <2>2. inits' \in 0 .. MaxInits
    BY <1>1 DEF InitSQL
  <2> QED
    BY <1>1, <2>1, <2>2 DEF InitSQL
<1>2. CASE InitFiles
  BY <1>2 DEF InitFiles
<1>3. CASE InitCaches
  BY <1>3 DEF InitCaches
<1>4. CASE InitReports
  <2>1. billing' \in [Comps -> Nat \cup {NoBill}]
    BY <1>4 DEF InitReports
  <2> QED
    BY <1>4, <2>1 DEF InitReports
<1>5. CASE InitFails
  <2>1. db' \subseteq Ids
    BY <1>5 DEF InitFails
  <2>2. faults' \in 0 .. MaxFaults
    BY <1>5, ConstantsAssumption DEF InitFails, Fault
  <2> QED
    BY <1>5, <2>1, <2>2 DEF InitFails
<1> QED
  BY <1>1, <1>2, <1>3, <1>4, <1>5 DEF Initialize

LEMMA TypeRequest ==
  ASSUME TypeOK, NEW r \in Requests, RequestStep(r)
  PROVE  TypeOK'
<1>1. ASSUME NEW h \in Names, NEW a \in Names, Request(r, h, a)
      PROVE  TypeOK'
  BY <1>1 DEF TypeOK, Request, Steps
<1>2. ASSUME NEW i \in Ids, Forwarded(r, i)
      PROVE  TypeOK'
  <2>1. /\ tid' \in [Handlers -> {0} \cup Ids] /\ tid'[r] # 0
        /\ \A x \in Requests \ {r} : tid'[x] = tid[x] /\ pc'[x] = pc[x]
    BY <1>2 DEF TypeOK, Forwarded, Goto, Handlers, Ids
  <2>2. aud' \in [Requests -> Names \cup {NoName}] /\ pc' \in [Handlers \cup Pagers -> Steps]
    BY <1>2 DEF TypeOK, Forwarded, Goto, Steps
  <2>3. \A x \in Requests : pc'[x] \notin {"idle", "get", "select"} => tid'[x] # 0
    BY <2>1 DEF TypeOK
  <2> QED
    BY <1>2, <2>1, <2>2, <2>3 DEF TypeOK, Forwarded
<1> QED
  BY <1>1, <1>2, TypeViewer, TypeServed DEF RequestStep

-----------------------------------------------------------------------------
\* What the parts of the system leave alone.

\* Initialize, and a request of its kind, are the only ones that touch these.
LEMMA OthersFrame ==
  ASSUME TypeOK, [\/ \E r \in Requests : RequestStep(r)
                  \/ \E p \in Pagers : PagerStep(p)]_vars
  PROVE  UNCHANGED <<tenant, nextId, db, init, added, clean>>
<1>1. ASSUME NEW r \in Requests, RequestStep(r)
      PROVE  UNCHANGED <<tenant, nextId, db, init, added, clean>>
  BY <1>1 DEF RequestStep, Request, Forwarded, GetName, SelectName, Unknown, FillName, SetID,
     Refused, CompetitionsAdd, Finish, Bill, BillFails, GetID,
     SelectID, UnknownID, FillID, SetName, InCaches
<1>2. ASSUME NEW p \in Pagers, PagerStep(p)
      PROVE  UNCHANGED <<tenant, nextId, db, init, added, clean>>
  BY <1>2 DEF PagerStep, FirstPage, NextPage, LastPage
<1> QED
  BY <1>1, <1>2 DEF vars

\* A step of a handler moves only that handler.
LEMMA OneMoves ==
  ASSUME TypeOK, NEW h \in Handlers \cup Pagers,
         \/ h \in Adders /\ AdderStep(h)
         \/ h \in Requests /\ RequestStep(h)
         \/ h \in Pagers /\ PagerStep(h)
  PROVE  /\ pc' = [pc EXCEPT ![h] = pc'[h]]
         /\ \A x \in Requests \ {h} :
                UNCHANGED <<host[x], aud[x], comp[x], name[x]>>
         /\ \A x \in Handlers \ {h} : tid'[x] = tid[x]
         /\ h \notin Pagers => UNCHANGED paging
<1> USE DEF TypeOK
<1>1. CASE h \in Adders /\ AdderStep(h)
  <2>1. ASSUME NEW n \in Names, AddRequest(h, n)
        PROVE  /\ pc' = [pc EXCEPT ![h] = pc'[h]]
               /\ \A x \in Requests \ {h} :
                      UNCHANGED <<host[x], aud[x], comp[x], name[x]>>
               /\ \A x \in Handlers \ {h} : tid'[x] = tid[x]
               /\ UNCHANGED paging
    BY <2>1, <1>1 DEF AddRequest
  <2>2. CASE AddFails(h)
    BY <2>2, <1>1 DEF AddFails, Return
  <2>3. CASE CreateTenantDB(h)
    BY <2>3, <1>1 DEF CreateTenantDB, Return
  <2> QED
    BY <1>1, <2>1, <2>2, <2>3 DEF AdderStep
<1>2. CASE h \in Requests /\ RequestStep(h)
  <2>1. CASE \/ GetName(h) \/ SelectName(h) \/ Unknown(h) \/ FillName(h) \/ SetID(h)
    BY <2>1, <1>2 DEF GetName, SelectName, Unknown, FillName, SetID, Return, InCaches
  <2>2. CASE Refused(h)
    BY <2>2, <1>2 DEF Refused, Return
  <2>7. CASE \E n \in Numbers : CompetitionsAdd(h, n)
    <3>1. Return(h) /\ UNCHANGED paging
      BY <2>7 DEF CompetitionsAdd
    <3> QED
      BY <3>1, <1>2 DEF Return
  <2>6. CASE \E n \in Numbers : Finish(h, n)
    BY <2>6, <1>2 DEF Finish
  <2>3. CASE \/ Bill(h) \/ BillFails(h) \/ GetID(h) \/ SelectID(h) \/ UnknownID(h)
             \/ FillID(h) \/ SetName(h)
    BY <2>3, <1>2 DEF Bill, BillFails, GetID, SelectID, UnknownID, FillID, SetName, Return,
       InCaches
  <2>5. ASSUME NEW i \in Ids, Forwarded(h, i)
        PROVE  /\ pc' = [pc EXCEPT ![h] = pc'[h]]
               /\ \A z \in Requests \ {h} :
                      UNCHANGED <<host[z], aud[z], comp[z], name[z]>>
               /\ \A z \in Handlers \ {h} : tid'[z] = tid[z]
               /\ UNCHANGED paging
    BY <2>5, <1>2 DEF Forwarded
  <2>4. ASSUME NEW x \in Names, NEW y \in Names, Request(h, x, y)
        PROVE  /\ pc' = [pc EXCEPT ![h] = pc'[h]]
               /\ \A z \in Requests \ {h} :
                      UNCHANGED <<host[z], aud[z], comp[z], name[z]>>
               /\ \A z \in Handlers \ {h} : tid'[z] = tid[z]
               /\ UNCHANGED paging
    BY <2>4, <1>2 DEF Request
  <2> QED
    BY <1>2, <2>1, <2>2, <2>3, <2>4, <2>5, <2>6, <2>7 DEF RequestStep
<1>3. CASE h \in Pagers /\ PagerStep(h)
  BY <1>3 DEF PagerStep, FirstPage, NextPage, LastPage
<1> QED
  BY <1>1, <1>2, <1>3

\* A handler at work means that initialize is not.
LEMMA NobodyMeanwhile ==
  ASSUME TypeOK, Quiet, NEW h \in Handlers \cup Pagers,
         \/ h \in Adders /\ AdderStep(h)
         \/ h \in Requests /\ RequestStep(h)
         \/ h \in Pagers /\ PagerStep(h)
  PROVE  init = "idle" /\ init' = "idle"
<1>1. init = "idle"
  <2>1. pc[h] # "idle" => init = "idle"
    BY DEF Quiet
  <2>2. CASE h \in Adders /\ AdderStep(h)
    BY <2>1, <2>2 DEF AdderStep, AddRequest, AddFails, CreateTenantDB
  <2>3. CASE h \in Requests /\ RequestStep(h)
    BY <2>1, <2>3 DEF RequestStep, Request, Forwarded, GetName, SelectName, Unknown, FillName,
       SetID, Refused, CompetitionsAdd, Finish, Bill, BillFails, GetID,
     SelectID, UnknownID, FillID, SetName
  <2>4. CASE h \in Pagers /\ PagerStep(h)
    BY <2>1, <2>4 DEF PagerStep, FirstPage, NextPage, LastPage
  <2> QED
    BY <2>2, <2>3, <2>4
<1>2. init' = init
  BY OthersFrame DEF AdderStep, AddRequest, AddFails, CreateTenantDB
<1> QED
  BY <1>1, <1>2

\* What the types say of a request that has found its tenant.
LEMMA FoundTenant ==
  ASSUME TypeOK, NEW x \in Requests
  PROVE  /\ host[x] \in Names /\ host[x] # NoName
         /\ pc[x] \in {"fill", "set"} \cup LetIn => tid[x] \in Ids
<1>1. host[x] \in Names /\ tid[x] \in {0} \cup Ids
  BY DEF TypeOK
<1>2. pc[x] \notin {"idle", "get", "select"} => tid[x] # 0
  BY DEF TypeOK
<1> QED
  BY <1>1, <1>2 DEF LetIn

-----------------------------------------------------------------------------
\* The additions.

LEMMA InvAdder ==
  ASSUME Inv, NEW a \in Adders, AdderStep(a)
  PROVE  Inv'
<1> USE DEF Inv
<1>1. TypeOK' /\ init = "idle" /\ init' = "idle"
  BY TypeAdder, NobodyMeanwhile
<1>2. Quiet'
  BY <1>1 DEF Quiet
<1>3. /\ \A x \in (Handlers \cup Pagers) \ {a} : pc'[x] = pc[x]
      /\ \A x \in Requests : UNCHANGED <<host[x], aud[x], comp[x], name[x], tid[x]>>
      /\ \A x \in Adders \ {a} : tid'[x] = tid[x]
      /\ UNCHANGED <<caches, paging, competition, billing, clean, interrupted>>
  <2>1. /\ pc' = [pc EXCEPT ![a] = pc'[a]]
        /\ \A x \in Requests : UNCHANGED <<host[x], aud[x], comp[x], name[x]>>
        /\ \A x \in (Requests \cup Adders) \ {a} : tid'[x] = tid[x]
    BY OneMoves
  <2>2. UNCHANGED <<caches, paging, competition, billing, clean, interrupted>>
    BY DEF AdderStep, AddRequest, AddFails, CreateTenantDB
  <2>3. \A x \in (Handlers \cup Pagers) \ {a} : pc'[x] = pc[x]
    BY <2>1 DEF TypeOK
  <2> QED
    BY <2>1, <2>2, <2>3
<1>4. /\ \A i \in Ids : tenant[i] # NoName => tenant'[i] = tenant[i]
      /\ nextId' >= nextId /\ \A i \in Ids : i >= nextId' => tenant'[i] = NoName
      /\ db \subseteq db'
  BY DEF AdderStep, AddRequest, AddFails, CreateTenantDB, TypeOK, Table
<1>5. Table'
  <2>1. nextId' > Initial
    <3>1. nextId \in Nat /\ nextId' \in Nat
      BY <1>1 DEF TypeOK
    <3>2. nextId > Initial
      BY DEF Table
    <3> QED
      BY <1>4, <3>1, <3>2, ConstantsAssumption
  <2>2. \A i \in Ids : i >= nextId' => tenant'[i] = NoName
    BY <1>4
  <2>3. \A i \in 1 .. Initial : tenant'[i] = InitialName[i]
    <3> TAKE i \in 1 .. Initial
    <3>1. i \in Ids /\ InitialName[i] # NoName
      BY ConstantsAssumption DEF Ids
    <3>2. tenant[i] = InitialName[i]
      BY DEF Table
    <3> QED
      BY <1>4, <3>1, <3>2
  <2> QED
    BY <2>1, <2>2, <2>3 DEF Table
<1>6. Cached'
  <2> SUFFICES ASSUME clean
               PROVE  /\ \A n \in Names :
                             tenantNameCache[n] # 0 => tenant'[tenantNameCache[n]] = n
                      /\ \A i \in Ids :
                             tenantIDCache[i] # NoName => tenant'[i] = tenantIDCache[i]
    BY <1>3 DEF Cached
  <2>1. ASSUME NEW n \in Names, tenantNameCache[n] # 0
        PROVE  tenant'[tenantNameCache[n]] = n
    <3>1. tenantNameCache[n] \in Ids /\ n # NoName
      BY <2>1, ConstantsAssumption DEF TypeOK
    <3>2. tenant[tenantNameCache[n]] = n
      BY <2>1 DEF Cached
    <3> QED
      BY <1>4, <3>1, <3>2
  <2>2. ASSUME NEW i \in Ids, tenantIDCache[i] # NoName
        PROVE  tenant'[i] = tenantIDCache[i]
    BY <1>4, <2>2 DEF Cached
  <2> QED
    BY <2>1, <2>2
<1>7. AtHome'
  <2>1. ASSUME NEW x \in Requests, clean,
               \/ pc[x] \in {"fill", "set"}
               \/ pc[x] \in {"fillid", "nameset"}
               \/ pc[x] \in LetIn /\ aud[x] # NoName
        PROVE  tenant'[tid[x]] = tenant[tid[x]]
    <3>1. tenant[tid[x]] # NoName /\ tid[x] \in Ids
      <4>1. host[x] # NoName /\ tid[x] \in Ids
        BY <2>1, FoundTenant DEF LetIn
      <4>2. CASE pc[x] \in {"fill", "set"}
        BY <2>1, <4>1, <4>2 DEF AtHome
      <4>3. CASE pc[x] \in {"fillid", "nameset"}
        BY <2>1, <4>1, <4>3 DEF AtHome
      <4>4. CASE pc[x] \in LetIn /\ aud[x] # NoName
        BY <2>1, <4>1, <4>4 DEF AtHome
      <4> QED
        BY <2>1, <4>2, <4>3, <4>4
    <3> QED
      BY <1>4, <3>1
  <2>2. ASSUME NEW x \in Requests, clean'
        PROVE  /\ UNCHANGED <<pc[x], host[x], aud[x], name[x], tid[x], tenantIDCache>>
               /\ clean
    BY <1>3, <2>2
  <2>3. ASSUME NEW x \in Requests, clean'
        PROVE  /\ pc[x] \in {"fill", "set"} => tenant'[tid[x]] = host[x]
               /\ pc[x] \in LetIn /\ aud[x] # NoName =>
                      tenant'[tid[x]] = aud[x] /\ tenantIDCache[tid[x]] = aud[x]
               /\ pc[x] \in {"fillid", "nameset"} =>
                      name[x] # NoName /\ tenant'[tid[x]] = name[x]
    <3>1. clean
      BY <2>2, <2>3
    <3>2. /\ pc[x] \in {"fill", "set"} => tenant[tid[x]] = host[x]
          /\ pc[x] \in LetIn /\ aud[x] # NoName =>
                 tenant[tid[x]] = aud[x] /\ tenantIDCache[tid[x]] = aud[x]
          /\ pc[x] \in {"fillid", "nameset"} =>
                 name[x] # NoName /\ tenant[tid[x]] = name[x]
      BY <3>1 DEF AtHome
    <3>3. CASE pc[x] \in {"fill", "set"}
      <4>1. tenant'[tid[x]] = tenant[tid[x]]
        BY <2>1, <3>1, <3>3
      <4> QED
        BY <3>2, <3>3, <4>1 DEF LetIn
    <3>4. CASE pc[x] \in {"fillid", "nameset"}
      <4>1. tenant'[tid[x]] = tenant[tid[x]]
        BY <2>1, <3>1, <3>4
      <4> QED
        BY <3>2, <3>4, <4>1
    <3>5. CASE pc[x] \in LetIn /\ aud[x] # NoName /\ pc[x] \notin {"fillid", "nameset"}
      <4>1. tenant'[tid[x]] = tenant[tid[x]]
        BY <2>1, <3>1, <3>5
      <4> QED
        BY <3>2, <3>5, <4>1 DEF LetIn
    <3> QED
      BY <3>3, <3>4, <3>5
  <2>4. ASSUME NEW x \in Requests, clean'
        PROVE  /\ (pc[x] \in {"fill", "set"} => tenant[tid[x]] = host[x])'
               /\ (pc[x] \in LetIn /\ aud[x] # NoName =>
                      tenant[tid[x]] = aud[x] /\ tenantIDCache[tid[x]] = aud[x])'
               /\ (pc[x] \in {"fillid", "nameset"} =>
                      name[x] # NoName /\ tenant[tid[x]] = name[x])'
    BY <2>2, <2>3, <2>4 DEF LetIn
  <2> QED
    BY <2>4 DEF AtHome
<1>8. Usable'
  <2>1. \A i \in added' : tenant'[i] # NoName /\ i \in db'
    <3>1. \A i \in added : tenant'[i] # NoName /\ i \in db'
      BY <1>4 DEF Usable, UsableTenants, TypeOK
    <3>2. CASE CreateTenantDB(a)
      BY <3>1, <3>2 DEF CreateTenantDB, Usable
    <3>3. CASE added' = added
      BY <3>1, <3>3
    <3> QED
      BY <3>2, <3>3 DEF AdderStep, AddRequest, AddFails
  <2>2. pc'[a] = "create" => tid'[a] # 0 /\ tenant'[tid'[a]] # NoName
    BY DEF AdderStep, AddRequest, AddFails, CreateTenantDB, Return, TypeOK
  <2>3. \A x \in Adders \ {a} : pc'[x] = "create" => tid'[x] # 0 /\ tenant'[tid'[x]] # NoName
    BY <1>3, <1>4 DEF Usable, TypeOK
  <2> QED
    BY <2>1, <2>2, <2>3 DEF Usable, UsableTenants
<1>9. Bills'
  <2>1. \A x \in Requests : pc'[x] = pc[x] /\ Competition(x)' = Competition(x)
    BY <1>3 DEF Competition
  <2> QED
    BY <1>3, <2>1, SMTT(30) DEF Bills, OpenAtFirst
<1>10. Walks'
  <2>1. Billed \subseteq Billed'
    BY <1>3, <1>4 DEF Billed, TypeOK
  <2> QED
    BY <1>3, <2>1 DEF Walks
<1> QED
  BY <1>1, <1>2, <1>5, <1>6, <1>7, <1>8, <1>9, <1>10

-----------------------------------------------------------------------------
\* The requests to a tenant's host.

LEMMA InvRequest ==
  ASSUME Inv, NEW r \in Requests, RequestStep(r)
  PROVE  Inv'
<1> USE DEF Inv
<1>1. TypeOK' /\ init = "idle" /\ init' = "idle"
  BY TypeRequest, NobodyMeanwhile
<1>2. Quiet'
  BY <1>1 DEF Quiet
<1>3. /\ UNCHANGED <<tenant, nextId, db, added, clean, paging>>
      /\ \A x \in (Handlers \cup Pagers) \ {r} : pc'[x] = pc[x]
      /\ \A x \in Requests \ {r} : UNCHANGED <<host[x], aud[x], comp[x], name[x], tid[x]>>
      /\ \A x \in Adders : tid'[x] = tid[x] /\ pc'[x] = pc[x]
  <2>1. UNCHANGED <<tenant, nextId, db, added, clean>>
    BY OthersFrame
  <2>2. /\ pc' = [pc EXCEPT ![r] = pc'[r]]
        /\ \A x \in Requests \ {r} : UNCHANGED <<host[x], aud[x], comp[x], name[x]>>
        /\ \A x \in Handlers \ {r} : tid'[x] = tid[x]
        /\ UNCHANGED paging
    BY OneMoves
  <2>3. \A x \in (Handlers \cup Pagers) \ {r} : pc'[x] = pc[x]
    BY <2>2 DEF TypeOK
  <2> QED
    BY <2>1, <2>2, <2>3
<1>4. Table' /\ Usable'
  BY <1>3, SMTT(30) DEF Table, Usable, UsableTenants
<1>5. clean => /\ tenantNameCache' # tenantNameCache =>
                   \E n \in Names, i \in Ids :
                       /\ tenantNameCache' = [tenantNameCache EXCEPT ![n] = i]
                       /\ tenant[i] = n
               /\ tenantIDCache' # tenantIDCache =>
                   \E n \in Names, i \in Ids :
                       /\ tenantIDCache' = [tenantIDCache EXCEPT ![i] = n]
                       /\ tenant[i] = n
  <2>1. CASE FillName(r)
    <3>1. UNCHANGED tenantIDCache
      BY <2>1 DEF FillName
    <3>2. tenantNameCache' = [tenantNameCache EXCEPT ![host[r]] = tid[r]]
      BY <2>1 DEF FillName
    <3>3. pc[r] = "fill"
      BY <2>1 DEF FillName
    <3>4. tid[r] \in Ids /\ host[r] \in Names
      BY <3>3 DEF TypeOK
    <3>5. clean => tenant[tid[r]] = host[r]
      BY <3>3 DEF AtHome
    <3> QED
      BY <3>1, <3>2, <3>4, <3>5
  <2>2. CASE SetID(r)
    <3>1. UNCHANGED tenantNameCache
      BY <2>2 DEF SetID
    <3>2. tenantIDCache' = [tenantIDCache EXCEPT ![tid[r]] = host[r]]
      BY <2>2 DEF SetID
    <3>3. pc[r] = "set"
      BY <2>2 DEF SetID
    <3>4. tid[r] \in Ids /\ host[r] \in Names
      BY <3>3 DEF TypeOK
    <3>5. clean => tenant[tid[r]] = host[r]
      BY <3>3 DEF AtHome
    <3> QED
      BY <3>1, <3>2, <3>4, <3>5
  <2>3. CASE SetName(r) \/ FillID(r)
    <3>1. tid[r] \in Ids /\ name[r] \in Names \cup {NoName}
      BY <2>3 DEF SetName, FillID, TypeOK
    <3>2. clean => name[r] # NoName /\ tenant[tid[r]] = name[r]
      BY <2>3 DEF SetName, FillID, AtHome
    <3> QED
      BY <2>3, <3>1, <3>2 DEF SetName, FillID
  <2>4. CASE UNCHANGED caches
    BY <2>4
  <2> QED
    BY <2>1, <2>2, <2>3, <2>4 DEF RequestStep, Request, Forwarded, GetName, SelectName, Unknown,
       Refused, CompetitionsAdd, Finish, Bill, BillFails, GetID, SelectID, UnknownID
<1>6. Cached'
  <2>1. ASSUME clean, NEW n \in Names, tenantNameCache'[n] # 0
        PROVE  tenant[tenantNameCache'[n]] = n
    <3>1. tenantNameCache[n] # 0 => tenant[tenantNameCache[n]] = n
      BY <2>1 DEF Cached
    <3>2. CASE tenantNameCache' = tenantNameCache
      BY <2>1, <3>1, <3>2
    <3>3. CASE tenantNameCache' # tenantNameCache
      <4>1. PICK m \in Names, i \in Ids :
                /\ tenantNameCache' = [tenantNameCache EXCEPT ![m] = i]
                /\ tenant[i] = m
        BY <1>5, <2>1, <3>3
      <4> QED
        BY <2>1, <3>1, <4>1 DEF TypeOK
    <3> QED
      BY <3>2, <3>3
  <2>2. ASSUME clean, NEW i \in Ids, tenantIDCache'[i] # NoName
        PROVE  tenant[i] = tenantIDCache'[i]
    <3>1. tenantIDCache[i] # NoName => tenant[i] = tenantIDCache[i]
      BY <2>2 DEF Cached
    <3>2. CASE tenantIDCache' = tenantIDCache
      BY <2>2, <3>1, <3>2
    <3>3. CASE tenantIDCache' # tenantIDCache
      <4>1. PICK m \in Names, j \in Ids :
                /\ tenantIDCache' = [tenantIDCache EXCEPT ![j] = m]
                /\ tenant[j] = m
        BY <1>5, <2>2, <3>3
      <4> QED
        BY <2>2, <3>1, <4>1 DEF TypeOK
    <3> QED
      BY <3>2, <3>3
  <2> QED
    BY <1>3, <2>1, <2>2 DEF Cached
<1>7. AtHome'
  <2>1. ASSUME clean
        PROVE  /\ pc'[r] \in {"fill", "set"} => tenant[tid'[r]] = host'[r]
               /\ pc'[r] \in LetIn /\ aud'[r] # NoName =>
                      tenant[tid'[r]] = aud'[r] /\ tenantIDCache'[tid'[r]] = aud'[r]
               /\ pc'[r] \in {"fillid", "nameset"} =>
                      name'[r] # NoName /\ tenant[tid'[r]] = name'[r]
    <3>0. CASE GetName(r)
      <4>1. /\ tid'[r] = tenantNameCache[host[r]] /\ UNCHANGED <<host, tenant>>
            /\ pc'[r] = IF NameCache!Has(host[r]) THEN "set" ELSE "select"
            /\ host[r] \in Names
        BY <3>0 DEF GetName, InCaches, TypeOK
      <4> QED
        BY <2>1, <4>1 DEF Cached, LetIn
    <3>1. CASE SelectName(r)
      BY <2>1, <3>1 DEF SelectName, InCaches, TypeOK, LetIn
    <3>5. CASE FillName(r)
      BY <2>1, <3>5 DEF FillName, InCaches, AtHome, TypeOK, LetIn
    <3>2. CASE SetID(r)
      <4>1. CASE host[r] = aud[r]
        <5>1. /\ pc[r] = "set" /\ pc'[r] = "go" /\ tid[r] \in Ids
              /\ UNCHANGED <<tid, host, aud, tenant>>
              /\ tenantIDCache' = [tenantIDCache EXCEPT ![tid[r]] = host[r]]
          BY <3>2, <4>1 DEF SetID, Goto, TypeOK
        <5>2. tenant[tid[r]] = host[r]
          BY <2>1, <5>1 DEF AtHome
        <5> QED
          BY <4>1, <5>1, <5>2 DEF TypeOK
      <4>2. CASE host[r] # aud[r]
        <5>1. pc'[r] = "idle"
          BY <3>2, <4>2 DEF SetID, Return, Goto, TypeOK
        <5> QED
          BY <5>1 DEF LetIn
      <4> QED
        BY <4>1, <4>2
    <3>3. CASE \E n \in Numbers : Finish(r, n)
      BY <2>1, <3>3 DEF Finish, AtHome, TypeOK, LetIn
    <3>6. CASE GetID(r)
      <4>1. /\ pc[r] = "go" /\ tid[r] \in Ids
            /\ name'[r] = tenantIDCache[tid[r]] /\ UNCHANGED <<tid, aud, tenantIDCache>>
            /\ pc'[r] = IF IDCache!Has(tid[r]) THEN "nameset" ELSE "selectid"
        BY <3>6 DEF GetID, TypeOK
      <4> QED
        BY <2>1, <4>1 DEF AtHome, Cached, LetIn
    <3>7. CASE SelectID(r)
      <4>1. /\ pc[r] = "selectid" /\ tenant[tid[r]] # NoName
            /\ name'[r] = tenant[tid[r]] /\ UNCHANGED <<tid, aud, tenantIDCache>>
            /\ pc'[r] = "fillid"
        BY <3>7 DEF SelectID, TypeOK
      <4> QED
        BY <2>1, <4>1 DEF AtHome, LetIn
    <3>8. CASE FillID(r)
      <4>1. /\ pc[r] = "fillid" /\ tid[r] \in Ids
            /\ tenantIDCache' = [tenantIDCache EXCEPT ![tid[r]] = name[r]]
            /\ UNCHANGED <<tid, aud, name>> /\ pc'[r] = "nameset"
        BY <3>8 DEF FillID, InCaches, TypeOK
      <4>2. tenantIDCache'[tid[r]] = name[r]
        BY <4>1 DEF TypeOK
      <4> QED
        BY <2>1, <4>1, <4>2 DEF AtHome, LetIn
    <3>9. CASE \E i \in Ids : Forwarded(r, i)
      BY <3>9 DEF Forwarded, TypeOK, LetIn
    <3>4. CASE pc'[r] \in {"idle", "get"}
      BY <3>4 DEF LetIn
    <3> QED
      BY <3>0, <3>1, <3>2, <3>3, <3>4, <3>5, <3>6, <3>7, <3>8, <3>9 DEF RequestStep, Request,
         Unknown, Refused, CompetitionsAdd, Bill, BillFails, UnknownID, SetName, Return, TypeOK
  <2>2. ASSUME clean, NEW x \in Requests \ {r}, pc[x] \in LetIn, aud[x] # NoName
        PROVE  tenantIDCache'[tid[x]] = aud[x]
    <3>1. /\ tid[x] \in Ids /\ tenant[tid[x]] = aud[x]
          /\ tenantIDCache[tid[x]] = aud[x]
      BY <2>2, FoundTenant DEF AtHome
    <3>2. CASE tenantIDCache' = tenantIDCache
      BY <3>1, <3>2
    <3>3. CASE tenantIDCache' # tenantIDCache
      <4>1. PICK m \in Names, j \in Ids :
                /\ tenantIDCache' = [tenantIDCache EXCEPT ![j] = m]
                /\ tenant[j] = m
        BY <1>5, <2>2, <3>3
      <4> QED
        BY <3>1, <4>1 DEF TypeOK
    <3> QED
      BY <3>2, <3>3
  <2>3. ASSUME clean', NEW x \in Requests \ {r}
        PROVE  /\ UNCHANGED <<pc[x], host[x], aud[x], name[x], tid[x], tenant>>
               /\ clean
    BY <1>3, <2>3
  <2>4. clean' = clean /\ tenant' = tenant
    BY <1>3
  <2> QED
    BY <2>1, <2>2, <2>3, <2>4 DEF AtHome
<1>8. Bills'
  <2>1. \A x \in Requests \ {r} : pc'[x] = pc[x] /\ Competition(x)' = Competition(x)
    BY <1>3 DEF Competition
  <2>0. interrupted \subseteq interrupted'
    BY DEF RequestStep, Request, Forwarded, GetName, SelectName, Unknown, FillName, SetID,
       Refused, CompetitionsAdd, Finish, Bill, BillFails, GetID, SelectID, UnknownID, FillID,
       SetName, InCaches
  <2> DEFINE BillOK(c) == \/ OpenAtFirst(c)
                          \/ billing'[c] = Yen[c]
                          \/ /\ billing'[c] = NoBill
                             /\ competition'[c] = "finished" =>
                                    \/ c \in interrupted'
                                    \/ \E x \in Requests : pc'[x] = "bill" /\ Competition(x)' = c
  <2>6. ASSUME NEW c \in Comps, clean, billing'[c] = billing[c],
               competition'[c] = "finished" => competition[c] = "finished",
               pc[r] # "bill" \/ Competition(r) # c
        PROVE  BillOK(c)
    BY <2>0, <2>1, <2>6 DEF Bills
  <2>2. CASE Bill(r) \/ BillFails(r)
    <3>1. /\ UNCHANGED competition
          /\ Competition(r) \in Comps
          /\ \A c \in Comps : c # Competition(r) => billing'[c] = billing[c]
      BY <2>2 DEF Bill, BillFails, Competition, TypeOK
    <3>2. ASSUME clean
          PROVE  BillOK(Competition(r))
      <4>1. CASE Bill(r)
        <5>1. billing'[Competition(r)] = IF billing[Competition(r)] = NoBill
                                         THEN Yen[Competition(r)] ELSE billing[Competition(r)]
          BY <3>1, <4>1 DEF Bill, TypeOK
        <5> QED
          BY <3>1, <3>2, <5>1 DEF Bills
      <4>2. CASE BillFails(r)
        BY <3>1, <3>2, <4>2 DEF BillFails, Bills
      <4> QED
        BY <2>2, <4>1, <4>2
    <3>3. ASSUME NEW c \in Comps, clean
          PROVE  BillOK(c)
      BY <2>6, <3>1, <3>2, <3>3
    <3> QED
      BY <1>3, <3>3 DEF Bills, OpenAtFirst
  <2>3. ASSUME NEW n \in Numbers, Finish(r, n)
        PROVE  Bills'
    <3> DEFINE f == <<tid[r], n>>
    <3>1. /\ competition' = [competition EXCEPT ![f] = "finished"]
          /\ UNCHANGED <<billing, interrupted>>
          /\ pc'[r] = "bill" /\ pc[r] # "bill" /\ Competition(r)' = f /\ f \in Comps
      BY <2>3 DEF Finish, Competition, TypeOK
    <3> HIDE DEF f
    <3>2. ASSUME NEW c \in Comps, clean
          PROVE  BillOK(c)
      <4>1. CASE c = f
        BY <3>1, <3>2, <4>1 DEF Bills
      <4>2. CASE c # f
        <5>1. competition'[c] = competition[c]
          BY <3>1, <4>2 DEF TypeOK
        <5> QED
          BY <2>6, <3>1, <3>2, <5>1
      <4> QED
        BY <4>1, <4>2
    <3> QED
      BY <1>3, <3>2 DEF Bills, OpenAtFirst
  <2>4. CASE \E n \in Numbers : CompetitionsAdd(r, n)
    <3>1. /\ \A c \in Comps : competition'[c] = "finished" => competition[c] = "finished"
          /\ UNCHANGED billing /\ pc[r] # "bill"
      BY <2>4 DEF CompetitionsAdd, TypeOK
    <3>2. ASSUME NEW c \in Comps, clean
          PROVE  BillOK(c)
      BY <2>6, <3>1, <3>2
    <3> QED
      BY <1>3, <3>2 DEF Bills, OpenAtFirst
  <2>5. CASE UNCHANGED <<competition, billing>> /\ pc[r] # "bill"
    <3>1. ASSUME NEW c \in Comps, clean
          PROVE  BillOK(c)
      BY <2>5, <2>6, <3>1
    <3> QED
      BY <1>3, <3>1 DEF Bills, OpenAtFirst
  <2> QED
    BY <2>2, <2>3, <2>4, <2>5 DEF RequestStep, Request, Forwarded, GetName, SelectName, Unknown,
       FillName, SetID, Refused, GetID, SelectID, UnknownID, FillID, SetName, InCaches
<1>9. Walks'
  <2>1. \A c \in Comps : billing[c] # NoBill => billing'[c] # NoBill
    BY DEF RequestStep, Request, Forwarded, GetName, SelectName, Unknown, FillName, SetID,
       Refused, CompetitionsAdd, Finish, Bill, BillFails, GetID,
     SelectID, UnknownID, FillID, SetName, InCaches, TypeOK
  <2>2. Billed \subseteq Billed'
    BY <1>3, <2>1 DEF Billed
  <2> QED
    BY <1>3, <2>2 DEF Walks
<1> QED
  BY <1>1, <1>2, <1>4, <1>6, <1>7, <1>8, <1>9

-----------------------------------------------------------------------------
\* The pages.

\* There is a largest one in every set of ids.
LEMMA Largest ==
  ASSUME NEW S \in SUBSET Ids, S # {}
  PROVE  \E m \in S : \A i \in S : i <= m
<1> DEFINE T == {MaxTenants - i : i \in S}
<1>1. T \subseteq Nat /\ T # {}
  <2>1. MaxTenants \in Nat /\ S \subseteq 1 .. MaxTenants
    OBVIOUS
  <2>2. \A i \in S : MaxTenants - i \in Nat
    BY <2>1
  <2>3. T \subseteq Nat
    BY <2>2
  <2>4. PICK i \in S : TRUE
    OBVIOUS
  <2>5. MaxTenants - i \in T
    BY <2>4
  <2> QED
    BY <2>3, <2>5
<1>2. PICK x \in T : \A y \in T : ~(<<y, x>> \in OpToRel(<, Nat))
  BY <1>1, WFMin, NatLessThanWellFounded, Zenon
<1>3. \A y \in T : y >= x
  <2> HIDE DEF T
  <2>1. \A y \in T : ~(y < x)
    BY <1>1, <1>2, Zenon DEF OpToRel
  <2> QED
    BY <1>1, <2>1
<1>4. PICK m \in S : x = MaxTenants - m
  OBVIOUS
<1>5. ASSUME NEW i \in S
      PROVE  i <= m
  <2>1. MaxTenants - i \in T
    OBVIOUS
  <2>2. MaxTenants - i >= MaxTenants - m
    BY <1>3, <1>4, <2>1
  <2> QED
    BY <2>2
<1> QED
  BY <1>5

\* A page goes on without a gap: of the ids below b it has all from its last on.
LEMMA NoGap ==
  ASSUME NEW b \in {0} \cup Ids, NEW last \in Page(b), NEW i \in Below(b), i >= last
  PROVE  i \in Page(b)
<1> DEFINE Over(k) == {j \in Below(b) : j > k}
<1>1. Below(b) \subseteq Ids /\ last \in Ids /\ i \in Ids
  BY DEF Below, Billed, Page
<1>2. Over(i) \subseteq Over(last) /\ Over(last) \subseteq Ids
  BY <1>1
<1>3. IsFiniteSet(Over(last))
  <2>1. 1 \in Int /\ MaxTenants \in Int
    OBVIOUS
  <2>2. IsFiniteSet(1 .. MaxTenants)
    BY <2>1, FS_Interval
  <2> QED
    BY <1>2, <2>2, FS_Subset
<1>4. /\ Cardinality(Over(i)) <= Cardinality(Over(last))
      /\ Cardinality(Over(i)) \in Nat /\ Cardinality(Over(last)) \in Nat
  BY <1>2, <1>3, FS_Subset, FS_CardinalityType
<1>5. Cardinality(Over(last)) < PageSize
  BY DEF Page
<1> QED
  BY <1>4, <1>5 DEF Page

\* A page is empty only when there is nobody left.
LEMMA NothingLeft ==
  ASSUME NEW b \in {0} \cup Ids, Page(b) = {}
  PROVE  Below(b) = {}
<1> SUFFICES ASSUME Below(b) # {}
             PROVE  FALSE
  OBVIOUS
<1>1. Below(b) \subseteq Ids
  BY DEF Below, Billed
<1>2. PICK m \in Below(b) : \A i \in Below(b) : i <= m
  BY <1>1, Largest
<1>3. {j \in Below(b) : j > m} = {}
  BY <1>1, <1>2
<1>4. Cardinality({j \in Below(b) : j > m}) = 0
  BY <1>3, FS_EmptySet
<1> QED
  BY <1>4 DEF Page

LEMMA InvPager ==
  ASSUME Inv, NEW p \in Pagers, PagerStep(p)
  PROVE  Inv'
<1> USE DEF Inv
<1>1. TypeOK' /\ init = "idle" /\ init' = "idle"
  BY TypePager, NobodyMeanwhile
<1>2. /\ UNCHANGED <<database, caches, host, aud, comp, tid, name, added, clean, interrupted>>
      /\ \A x \in (Handlers \cup Pagers) \ {p} : pc'[x] = pc[x]
      /\ \A q \in Pagers \ {p} : UNCHANGED <<before[q], shown[q], due[q]>>
  BY DEF PagerStep, FirstPage, NextPage, LastPage, TypeOK
<1>3. \A x \in Handlers : pc'[x] = pc[x]
  BY <1>2
<1>4. /\ Quiet' /\ Table' /\ Cached' /\ AtHome' /\ Usable' /\ Bills'
      /\ Billed' = Billed
  <2>1. Quiet' /\ Table' /\ Cached'
    BY <1>1, <1>2 DEF Quiet, Table, Cached
  <2>2. AtHome' /\ Usable'
    <3>1. AtHome'
      BY <1>2, <1>3, SMTT(30) DEF AtHome
    <3>2. Usable'
      BY <1>2, <1>3, SMTT(30) DEF Usable, UsableTenants
    <3> QED
      BY <3>1, <3>2
  <2>3. \A x \in Requests : pc'[x] = pc[x] /\ Competition(x)' = Competition(x)
    BY <1>2, <1>3 DEF Competition
  <2>4. Bills'
    <3>1. UNCHANGED <<competition, billing, clean, interrupted>>
      BY <1>2
    <3> QED
      BY <2>3, <3>1, SMTT(30) DEF Bills, OpenAtFirst
  <2>5. Billed' = Billed
    BY <1>2 DEF Billed
  <2> QED
    BY <2>1, <2>2, <2>4, <2>5
<1>5. Walks'
  <2>1. CASE FirstPage(p)
    BY <1>4, <2>1 DEF FirstPage, Walks, TypeOK
  <2>2. CASE LastPage(p)
    BY <1>4, <2>2 DEF LastPage, Walks, TypeOK
  <2>3. CASE NextPage(p)
    <3> DEFINE b == before[p]
    <3>1. PICK last \in Page(b) :
              /\ \A i \in Page(b) : last <= i
              /\ before' = [before EXCEPT ![p] = last]
      BY <2>3 DEF NextPage
    <3>2. /\ b \in {0} \cup Ids /\ last \in Ids /\ Page(b) \subseteq Ids
          /\ shown[p] \subseteq Ids /\ due[p] \subseteq Ids
          /\ before'[p] = last /\ shown'[p] = shown[p] \cup Page(b)
          /\ pc'[p] = "paging" /\ due'[p] = due[p]
      BY <2>3, <3>1 DEF NextPage, Page, Below, Billed, TypeOK
    <3>3. /\ b = 0 => shown[p] = {}
          /\ b # 0 => \A i \in Page(b) : i < b
          /\ \A i \in shown[p] : i >= b
          /\ b # 0 => \A i \in due[p] : i >= b => i \in shown[p]
          /\ due[p] \subseteq Billed /\ \A q \in Pagers : q \notin again
      BY <2>3 DEF NextPage, Walks, Page, Below
    <3>4. again' = again
      <4>1. shown[p] \cap Page(b) = {}
        BY <3>2, <3>3
      <4> QED
        BY <2>3, <4>1 DEF NextPage
    <3>5. \A i \in shown'[p] : i >= last
      BY <3>1, <3>2, <3>3
    <3>6. ASSUME NEW i \in due[p], i >= last
          PROVE  i \in shown'[p]
      <4>1. CASE b # 0 /\ i >= b
        BY <3>2, <3>3, <4>1
      <4>2. CASE ~(b # 0 /\ i >= b)
        <5>1. i \in Below(b)
          BY <3>2, <3>3, <4>2 DEF Below
        <5> QED
          BY <3>2, <3>6, <5>1, NoGap
      <4> QED
        BY <4>1, <4>2
    <3>7. /\ p \notin again' /\ pc'[p] # "idle" /\ before'[p] # 0
          /\ due'[p] \subseteq Billed'
          /\ \A i \in due'[p] : i >= before'[p] => i \in shown'[p]
          /\ \A i \in shown'[p] : i >= before'[p]
      BY <1>4, <3>2, <3>3, <3>4, <3>5, <3>6
    <3>8. ASSUME NEW q \in Pagers \ {p}
          PROVE  /\ UNCHANGED <<before[q], shown[q], due[q], pc[q]>>
                 /\ q \notin again'
      BY <1>2, <3>3, <3>4, <3>8
    <3> QED
      BY <1>4, <3>7, <3>8 DEF Walks
  <2> QED
    BY <2>1, <2>2, <2>3 DEF PagerStep
<1> QED
  BY <1>1, <1>4, <1>5

-----------------------------------------------------------------------------
\* Initialize.

LEMMA InvInitialize ==
  ASSUME Inv, Initialize
  PROVE  Inv'
<1> USE DEF Inv
<1>1. TypeOK'
  BY TypeInitialize
<1>2. UNCHANGED <<request, paging>> /\ \A r \in Handlers \cup Pagers : pc[r] = "idle"
  BY DEF Initialize, InitSQL, InitFiles, InitCaches, InitReports, InitFails, Quiet
<1>3. Walks' /\ added' = {} /\ Usable'
  BY <1>2 DEF Initialize, InitSQL, InitFiles, InitCaches, InitReports, InitFails, Quiet,
     Walks, Usable, UsableTenants
<1>4. Table'
  <2>1. CASE InitSQL
    BY <2>1 DEF InitSQL, Table, TypeOK
  <2>2. CASE UNCHANGED <<tenant, nextId>>
    BY <2>2 DEF Table
  <2> QED
    BY <2>1, <2>2 DEF Initialize, InitFiles, InitCaches, InitReports, InitFails
<1>5. CASE InitSQL \/ InitFiles \/ InitCaches
  <2>1. ~clean'
    BY <1>5 DEF InitSQL, InitFiles, InitCaches, Quiet
  <2>2. Quiet'
    BY <1>2, <1>3, <1>5, <2>1 DEF InitSQL, InitFiles, InitCaches, Quiet
  <2> QED
    BY <1>1, <1>3, <1>4, <2>1, <2>2 DEF Cached, AtHome, Bills
<1>6. CASE InitFails
  <2>1. ~clean' /\ init' = "idle"
    BY <1>6 DEF InitFails, Quiet
  <2> QED
    BY <1>1, <1>3, <1>4, <2>1 DEF Quiet, Cached, AtHome, Bills
<1>7. CASE InitReports
  <2>1. /\ init' = "idle" /\ competition = InitialComps
        /\ tenantNameCache = NameCache!Empty /\ tenantIDCache = IDCache!Empty
        /\ UNCHANGED <<tenant, competition, caches>>
    BY <1>7 DEF InitReports, Quiet
  <2>2. Quiet' /\ Cached' /\ AtHome'
    BY <1>2, <2>1 DEF Quiet, Cached, AtHome, LetIn
  <2>3. ASSUME NEW c \in Comps
        PROVE  \/ OpenAtFirst(c)
               \/ billing'[c] = Yen[c]
               \/ billing'[c] = NoBill /\ competition[c] # "finished"
    <3>1. billing'[c] = IF tenant[c[1]] = NoName \/ competition[c] = "none" THEN NoBill
                        ELSE IF competition[c] = "finished" THEN Yen[c] ELSE 0
      BY <1>7 DEF InitReports
    <3>2. competition[c] \in Status /\ c[1] \in Ids
      BY DEF TypeOK
    <3>3. InitialComps[c] # "none" => tenant[c[1]] # NoName
      <4>1. InitialComps[c] # "none" => c[1] \in 1 .. Initial
        BY <3>2
      <4> QED
        BY <4>1 DEF Table
    <3> QED
      BY <2>1, <3>1, <3>2, <3>3 DEF OpenAtFirst
  <2>4. Bills'
    BY <2>1, <2>3 DEF Bills, OpenAtFirst
  <2> QED
    BY <1>1, <1>3, <1>4, <2>2, <2>4
<1> QED
  BY <1>5, <1>6, <1>7 DEF Initialize

-----------------------------------------------------------------------------
\* A restart.

LEMMA InvRestart ==
  ASSUME Inv, Restart
  PROVE  Inv'
<1> USE DEF Inv
<1>1. Creating \subseteq Ids
  <2>1. \A a \in Adders : pc[a] = "create" => tid[a] \in Ids
    BY DEF Usable, TypeOK
  <2> QED
    BY <2>1 DEF Creating
<1>2. Billing \subseteq Comps
  <2>1. \A r \in Requests : pc[r] = "bill" => tid[r] \in Ids /\ comp[r] \in Numbers
    BY DEF TypeOK
  <2> QED
    BY <2>1 DEF Billing, Competition
<1>3. db' \subseteq Ids
  BY <1>1 DEF Restart, TypeOK
<1>4. \A r \in Handlers \cup Pagers : r \notin Pagers => pc'[r] = "idle"
  BY DEF Restart
<1>5. \A p \in Pagers : pc'[p] = pc[p]
  BY DEF Restart
<1>6. \A r \in Handlers : pc'[r] = "idle"
  BY <1>4
<1>7. TypeOK'
  <2>1. pc' \in [Handlers \cup Pagers -> Steps]
    BY <1>5, <1>6 DEF Restart, TypeOK, Steps
  <2>2. interrupted' \subseteq Comps /\ restarts' \in 0 .. MaxRestarts
    BY <1>2 DEF Restart, TypeOK
  <2> QED
    BY <1>3, <1>6, <2>1, <2>2, SomeNames DEF Restart, TypeOK
<1>8. Table' /\ Quiet' /\ Cached'
  BY DEF Restart, Table, Quiet, Cached
<1>9. AtHome'
  BY <1>6 DEF AtHome, LetIn
<1>10. Usable'
  <2>1. init = "files" => added = {}
    BY DEF Quiet
  <2>2. UNCHANGED <<tenant, added>> /\ (init # "files" => db \subseteq db')
    BY DEF Restart
  <2> QED
    BY <1>6, <2>1, <2>2 DEF Usable, UsableTenants
<1>11. Bills'
  <2>1. UNCHANGED <<competition, billing, clean>> /\ interrupted' = interrupted \cup Billing
    BY DEF Restart
  <2> QED
    BY <2>1 DEF Bills, Billing, OpenAtFirst
<1>12. Walks'
  <2>1. Billed' = Billed
    BY DEF Restart, Billed
  <2>2. UNCHANGED <<before, shown, due, again>>
    BY DEF Restart
  <2> QED
    BY <1>5, <2>1, <2>2 DEF Walks
<1> QED
  BY <1>7, <1>8, <1>9, <1>10, <1>11, <1>12

-----------------------------------------------------------------------------
LEMMA InvInit ==
  ASSUME Init
  PROVE  Inv
<1>1. TypeOK
  <2>1. billing \in [Comps -> Nat \cup {NoBill}]
    BY DEF Init, InitialBill
  <2>2. tenant \in [Ids -> Names \cup {NoName}]
    BY DEF Init
  <2> QED
    BY <2>1, <2>2, SomeNames DEF Init, TypeOK, Steps
<1>2. Table /\ Quiet /\ Cached
  BY DEF Init, Table, Quiet, Cached
<1>3. AtHome /\ Usable /\ Walks
  BY DEF Init, AtHome, LetIn, Usable, UsableTenants, Walks
<1>4. Bills
  BY DEF Init, Bills, OpenAtFirst, InitialBill
<1> QED
  BY <1>1, <1>2, <1>3, <1>4 DEF Inv

LEMMA InvNext ==
  ASSUME Inv, [Next]_vars
  PROVE  Inv'
<1>1. CASE UNCHANGED vars
  <2>1. TypeOK' /\ Table' /\ Quiet' /\ Cached'
    BY <1>1 DEF vars, Inv, TypeOK, Table, Quiet, Cached
  <2>2. AtHome' /\ Usable'
    BY <1>1 DEF vars, Inv, AtHome, Usable, UsableTenants
  <2>3. \A x \in Requests : Competition(x)' = Competition(x)
    BY <1>1 DEF vars, Competition
  <2>4. Bills'
    BY <1>1, <2>3 DEF vars, Inv, Bills, OpenAtFirst
  <2>5. Billed' = Billed
    BY <1>1 DEF vars, Billed
  <2>6. Walks'
    BY <1>1, <2>5 DEF vars, Inv, Walks
  <2> QED
    BY <2>1, <2>2, <2>4, <2>6 DEF Inv
<1> QED
  BY <1>1, InvAdder, InvRequest, InvPager, InvInitialize, InvRestart DEF Next

LEMMA Invariance == Spec => []Inv
<1>1. Init => Inv
  BY InvInit
<1>2. Inv /\ [Next]_vars => Inv'
  BY InvNext
<1> QED
  BY <1>1, <1>2, PTL DEF Spec

\* The variables have their types, which says of a request that it has found a
\* tenant's id before it goes on (parseViewer).
THEOREM TypeCorrect == Spec => []TypeOK
<1>1. Inv => TypeOK
  BY DEF Inv
<1> QED
  BY <1>1, Invariance, PTL

\* A request that its token lets in works on the tenant the token is for (the
\* comparison in parseViewer and the tenant caches), whoever is added, forwarded
\* and restarted, and however often all is initialized.
THEOREM StayHome == Spec => []ViewersAtHome
<1>1. Inv => ViewersAtHome
  BY DEF Inv, AtHome, LetIn, ViewersAtHome
<1> QED
  BY <1>1, Invariance, PTL

\* A tenant whose addition was answered is in the table and has a database
\* (tenantsAddHandler and createTenantDB).
THEOREM AddedAreUsable == Spec => []UsableTenants
<1>1. Inv => UsableTenants
  BY DEF Inv, Usable
<1> QED
  BY <1>1, Invariance, PTL

\* The organizer is shown the bill of every finished competition that was not open
\* in the initial data, unless every finish of it has ended with an error or a
\* restart before the INSERT (competitionFinishHandler, initializeHandler).
THEOREM FinishedAreBilled == Spec => []BilledInFull
<1>1. ASSUME Inv
      PROVE  BilledInFull
  BY <1>1 DEF Inv, Bills, Billing, BilledInFull, ShownBill
<1> QED
  BY <1>1, Invariance, PTL

\* The pages of tenantsBillingHandler, read one after the other, show everybody
\* who had a bill at the start, and nobody twice.
THEOREM PagesLeaveNobodyOut == Spec => []PagesTile
<1>1. ASSUME Inv, NEW p \in Pagers, pc[p] = "paging"
      PROVE  /\ p \notin again
             /\ Page(before[p]) = {} => due[p] \subseteq shown[p]
  <2>1. before[p] \in {0} \cup Ids /\ due[p] \subseteq Ids
    BY <1>1 DEF Inv, TypeOK
  <2>2. ASSUME Page(before[p]) = {}
        PROVE  due[p] \subseteq shown[p]
    <3>1. Below(before[p]) = {}
      BY <2>1, <2>2, NothingLeft
    <3> QED
      BY <1>1, <2>1, <3>1 DEF Inv, Walks, Below
  <2> QED
    BY <1>1, <2>2 DEF Inv, Walks
<1>2. Inv => PagesTile
  BY <1>1 DEF PagesTile
<1> QED
  BY <1>2, Invariance, PTL
=============================================================================
