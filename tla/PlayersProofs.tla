--------------------------- MODULE PlayersProofs ---------------------------
(***************************************************************************)
(* Who is barred stays barred, and a player this process has added is       *)
(* barred by the first disqualification, for any players and any requests.  *)
(*                                                                          *)
(* The invariant has three parts: what the cache says against the table     *)
(* (OnRecord), what keeps barred players out (Barred), and why nobody ever  *)
(* reads the row of a player this process has added (Fresh).                *)
(***************************************************************************)
EXTENDS Players, TLAPS

Handlers == Lookups \cup Banners

Known(i) == row[i] # "none" \/ i \in Strangers

OnRecord ==
    /\ \A i \in Ids : playerCache[i] = "disqualified" => row[i] = "disqualified"
    /\ \A i \in Strangers : row[i] = "none" /\ playerCache[i] = "none"
    /\ \A r \in Handlers :
        /\ pc[r] # "idle" => Known(who[r])
        /\ pc[r] = "fill" => row[who[r]] # "none"
        /\ pc[r] \in {"fill", "answer"} /\ got[r] = "disqualified" =>
               row[who[r]] = "disqualified"
    /\ \A r \in Lookups : pc[r] # "idle" /\ kind[r] = "visitor" => Known(target[r])
    /\ \A b \in Banners : pc[b] = "mark" => row[who[b]] \in {"none", "disqualified"}

\* An addition's players are its own, and in nobody's table yet.
Adding ==
    \A a \in Adders :
        /\ uncached[a] \subseteq batch[a]
        /\ pc[a] = "insert" => uncached[a] = {}
        /\ \A i \in batch[a] :
            /\ row[i] = "none"
            /\ i \notin uncached[a] => playerCache[i] # "none"
            /\ \A b \in Adders : b # a => i \notin batch[b]

Barred ==
    /\ \A i \in barred :
        /\ row[i] = "disqualified"
        /\ playerCache[i] # "active"
        /\ \A r \in Handlers : pc[r] = "fill" /\ who[r] = i => got[r] # "active"
    /\ \A r \in Handlers :
        /\ late[r] \subseteq barred
        /\ pc[r] \in {"fill", "answer"} /\ who[r] \in late[r] => got[r] = "disqualified"

Fresh ==
    restarts = 0 =>
        /\ \A i \in Newcomers : row[i] # "none" => playerCache[i] # "none"
        /\ \A r \in Handlers : pc[r] \in {"select", "fill"} => who[r] \notin Newcomers
        /\ \A b \in Banners :
               pc[b] \in {"get", "answer"} /\ who[b] \in Newcomers => who[b] \in barred
        /\ told \cap Newcomers \subseteq barred

Inv == TypeOK /\ OnRecord /\ Adding /\ Barred /\ Fresh

USE ConstantsAssumption DEF Ids, Requests, Standing, Kinds, Handlers,
    PlayerCache!Set, PlayerCache!Has, PlayerCache!Update, PlayerCache!New, PlayerCache!Empty

-----------------------------------------------------------------------------
\* Type correctness.

LEMMA SomebodyIsNobody == Nobody \in Ids
  BY DEF Nobody

LEMMA TypeRetrieve ==
  ASSUME TypeOK, NEW r \in Handlers, Retrieve(r)
  PROVE  TypeOK'
<1> USE DEF TypeOK, Goto, history
<1>1. CASE Get(r)
  BY <1>1 DEF Get
<1>2. CASE Select(r)
  BY <1>2 DEF Select
<1>3. CASE Fill(r)
  BY <1>3 DEF Fill
<1> QED
  BY <1>1, <1>2, <1>3 DEF Retrieve

LEMMA TypeLookup ==
  ASSUME TypeOK, NEW r \in Lookups, LookupStep(r)
  PROVE  TypeOK'
<1> USE SomebodyIsNobody DEF TypeOK, Goto, history
<1>1. ASSUME NEW k \in Kinds, NEW i \in Nameable, NEW j \in Nameable \cup {Nobody},
             LookupRequest(r, k, i, j)
      PROVE  TypeOK'
  BY <1>1 DEF LookupRequest, Nameable, PlayersList
<1>2. CASE Retrieve(r)
  BY <1>2, TypeRetrieve
<1>3. CASE Authorized(r)
  BY <1>3 DEF Authorized
<1>4. CASE LookupAnswer(r)
  BY <1>4 DEF LookupAnswer, Return
<1> QED
  BY <1>1, <1>2, <1>3, <1>4, SMTT(30) DEF LookupStep

LEMMA TypeBan ==
  ASSUME TypeOK, NEW b \in Banners, BanStep(b)
  PROVE  TypeOK'
<1> USE SomebodyIsNobody DEF TypeOK, Goto, history
<1>1. ASSUME NEW i \in Nameable, BanRequest(b, i)
      PROVE  TypeOK'
  BY <1>1 DEF BanRequest, Nameable, PlayersList
<1>2. CASE BanUpdate(b)
  BY <1>2 DEF BanUpdate
<1>3. CASE BanFails(b)
  BY <1>3 DEF BanFails, Fault, Return
<1>4. CASE Mark(b)
  BY <1>4 DEF Mark
<1>5. CASE Retrieve(b)
  BY <1>5, TypeRetrieve
<1>6. CASE BanAnswer(b)
  BY <1>6 DEF BanAnswer, Return
<1> QED
  BY <1>1, <1>2, <1>3, <1>4, <1>5, <1>6 DEF BanStep

LEMMA TypeAdd ==
  ASSUME TypeOK, NEW a \in Adders, AddStep(a)
  PROVE  TypeOK'
<1> USE DEF TypeOK, Goto, history
<1>1. ASSUME NEW players \in SUBSET Newcomers, AddRequest(a, players)
      PROVE  TypeOK'
  BY <1>1 DEF AddRequest
<1>2. ASSUME NEW i \in Newcomers, AddCache(a, i)
      PROVE  TypeOK'
  BY <1>2 DEF AddCache
<1>3. CASE AddInsert(a)
  BY <1>3 DEF AddInsert, AddReturn
<1>4. CASE AddFails(a)
  BY <1>4 DEF AddFails, AddReturn, Fault
<1> QED
  BY <1>1, <1>2, <1>3, <1>4 DEF AddStep

LEMMA TypeInit == Init => TypeOK
  BY SomebodyIsNobody DEF Init, TypeOK

LEMMA TypeNext == TypeOK /\ [Next]_vars => TypeOK'
<1> SUFFICES ASSUME TypeOK, [Next]_vars
             PROVE  TypeOK'
  OBVIOUS
<1>1. CASE Restart
  BY <1>1, SomebodyIsNobody DEF Restart, TypeOK
<1>2. CASE UNCHANGED vars
  BY <1>2 DEF vars, locals, history, TypeOK
<1> QED
  BY <1>1, <1>2, TypeLookup, TypeBan, TypeAdd DEF Next

\* Every variable keeps its type, and what a lookup is about to put into the
\* cache is a row.
THEOREM TypeCorrect == Spec => []TypeOK
  BY TypeInit, TypeNext, PTL DEF Spec

-----------------------------------------------------------------------------
\* The invariant.

LEMMA InvInit == Init => Inv
<1> SUFFICES ASSUME Init
             PROVE  Inv
  OBVIOUS
<1>1. OnRecord
  BY DEF Init, OnRecord
<1>2. Adding /\ Barred /\ Fresh
  BY DEF Init, Adding, Barred, Fresh
<1> QED
  BY <1>1, <1>2, TypeInit DEF Inv

LEMMA InvRetrieve ==
  ASSUME Inv, NEW r \in Handlers, Retrieve(r)
  PROVE  OnRecord' /\ Adding' /\ Barred' /\ Fresh'
<1> USE DEF Inv, TypeOK, Goto, history, Known
<1>1. CASE Get(r)
  <2>1. OnRecord' /\ Adding'
    BY <1>1 DEF Get, OnRecord, Adding
  <2>2. Barred'
    BY <1>1 DEF Get, Barred
  <2>3. Fresh'
    BY <1>1 DEF Get, Fresh, OnRecord
  <2> QED
    BY <2>1, <2>2, <2>3
<1>2. CASE Select(r)
  <2>1. OnRecord' /\ Adding'
    BY <1>2 DEF Select, OnRecord, Adding
  <2>2. Barred'
    BY <1>2 DEF Select, Barred
  <2>3. Fresh'
    BY <1>2 DEF Select, Fresh
  <2> QED
    BY <2>1, <2>2, <2>3
<1>3. CASE Fill(r)
  <2>1. OnRecord'
    BY <1>3 DEF Fill, OnRecord
  <2>2. Adding'
    BY <1>3 DEF Fill, Adding
  <2>3. Barred'
    BY <1>3 DEF Fill, Barred
  <2>4. Fresh'
    BY <1>3 DEF Fill, Fresh
  <2> QED
    BY <2>1, <2>2, <2>3, <2>4
<1> QED
  BY <1>1, <1>2, <1>3 DEF Retrieve

LEMMA InvLookup ==
  ASSUME Inv, NEW r \in Lookups, LookupStep(r)
  PROVE  OnRecord' /\ Adding' /\ Barred' /\ Fresh'
<1> USE SomebodyIsNobody DEF Inv, TypeOK, Goto, history, Known
<1>1. ASSUME NEW k \in Kinds, NEW i \in Nameable, NEW j \in Nameable \cup {Nobody},
             k = "visitor" => j \in Nameable, LookupRequest(r, k, i, j)
      PROVE  OnRecord' /\ Adding' /\ Barred' /\ Fresh'
  <2>1. Known(i) /\ i \in Ids /\ j \in Ids /\ (k = "visitor" => Known(j))
    BY <1>1 DEF Nameable, PlayersList
  <2>2. OnRecord'
    BY <1>1, <2>1 DEF LookupRequest, OnRecord
  <2>3. Adding' /\ Barred' /\ Fresh'
    BY <1>1, <2>1 DEF LookupRequest, Adding, Barred, Fresh
  <2> QED
    BY <2>2, <2>3
<1>2. CASE Retrieve(r)
  BY <1>2, InvRetrieve
<1>3. CASE Authorized(r)
  <2>1. OnRecord'
    BY <1>3 DEF Authorized, OnRecord
  <2>2. Adding' /\ Barred' /\ Fresh'
    BY <1>3 DEF Authorized, Adding, Barred, Fresh
  <2> QED
    BY <2>1, <2>2
<1>4. CASE LookupAnswer(r)
  <2>1. OnRecord'
    BY <1>4 DEF LookupAnswer, Return, OnRecord
  <2>2. Adding' /\ Barred' /\ Fresh'
    BY <1>4 DEF LookupAnswer, Return, Adding, Barred, Fresh
  <2> QED
    BY <2>1, <2>2
<1> QED
  BY <1>1, <1>2, <1>3, <1>4 DEF LookupStep

LEMMA InvBan ==
  ASSUME Inv, NEW b \in Banners, BanStep(b)
  PROVE  OnRecord' /\ Adding' /\ Barred' /\ Fresh'
<1> USE SomebodyIsNobody DEF Inv, TypeOK, Goto, history, Known
<1>1. ASSUME NEW i \in Nameable, BanRequest(b, i)
      PROVE  OnRecord' /\ Adding' /\ Barred' /\ Fresh'
  <2>1. Known(i) /\ i \in Ids
    BY <1>1 DEF Nameable, PlayersList
  <2>2. OnRecord'
    BY <1>1, <2>1 DEF BanRequest, OnRecord
  <2>3. Adding' /\ Barred' /\ Fresh'
    BY <1>1, <2>1 DEF BanRequest, Adding, Barred, Fresh
  <2> QED
    BY <2>2, <2>3
<1>2. CASE BanUpdate(b)
  <2>1. /\ \A i \in Ids : row[i] = "none" <=> row'[i] = "none"
        /\ \A i \in Ids : row[i] = "disqualified" => row'[i] = "disqualified"
        /\ row'[who[b]] \in {"none", "disqualified"}
    BY <1>2 DEF BanUpdate
  <2>2. OnRecord'
    BY <1>2, <2>1 DEF BanUpdate, OnRecord
  <2>3. Adding'
    BY <1>2, <2>1 DEF BanUpdate, Adding
  <2>4. Barred' /\ Fresh'
    BY <1>2, <2>1 DEF BanUpdate, Barred, Fresh
  <2> QED
    BY <2>2, <2>3, <2>4
<1>3. CASE BanFails(b)
  <2>1. OnRecord'
    BY <1>3 DEF BanFails, Return, OnRecord
  <2>2. Adding' /\ Barred' /\ Fresh'
    BY <1>3 DEF BanFails, Return, Adding, Barred, Fresh
  <2> QED
    BY <2>1, <2>2
<1>4. CASE Mark(b)
  <2>1. \A i \in Ids : playerCache'[i] =
            IF i = who[b] /\ playerCache[i] # "none" THEN "disqualified" ELSE playerCache[i]
    BY <1>4 DEF Mark
  <2>2. OnRecord'
    BY <1>4, <2>1 DEF Mark, OnRecord
  <2>3. Adding'
    BY <1>4, <2>1 DEF Mark, Adding
  <2>4. /\ barred' \subseteq barred \cup {who[b]} /\ barred \subseteq barred'
        /\ who[b] \in barred' \ barred => Outdated(who[b]) = {} /\ row[who[b]] # "none"
    BY <1>4 DEF Mark
  <2>5. Barred'
    <3>1. /\ \A r \in Handlers : pc'[r] = "fill" => pc[r] = "fill"
          /\ \A r \in Handlers : late'[r] = IF r = b THEN barred' ELSE late[r]
          /\ pc'[b] = "get" /\ pc[b] = "mark"
          /\ UNCHANGED <<who, got, row>>
      BY <1>4 DEF Mark
    <3>2. ASSUME NEW i \in barred'
          PROVE  /\ row'[i] = "disqualified"
                 /\ playerCache'[i] # "active"
                 /\ \A r \in Handlers : pc'[r] = "fill" /\ who'[r] = i => got'[r] # "active"
      <4>1. CASE i \in barred
        BY <4>1, <3>1, <2>1 DEF Barred
      <4>2. CASE i \notin barred
        BY <4>2, <3>2, <3>1, <2>1, <2>4 DEF Outdated, OnRecord
      <4> QED
        BY <4>1, <4>2
    <3>3. \A r \in Handlers :
              /\ late'[r] \subseteq barred'
              /\ pc'[r] \in {"fill", "answer"} /\ who'[r] \in late'[r] =>
                     got'[r] = "disqualified"
      BY <1>4, <3>1, <2>4 DEF Mark, Barred
    <3> QED
      BY <3>2, <3>3 DEF Barred
  <2>6. Fresh'
    <3>1. restarts = 0 /\ who[b] \in Newcomers => who[b] \in barred'
      BY <1>4 DEF Mark, Outdated, Fresh, OnRecord
    <3> QED
      BY <1>4, <3>1, <2>1, <2>4 DEF Mark, Fresh
  <2> QED
    BY <2>2, <2>3, <2>5, <2>6
<1>5. CASE Retrieve(b)
  BY <1>5, InvRetrieve
<1>6. CASE BanAnswer(b)
  <2>1. OnRecord'
    BY <1>6 DEF BanAnswer, Return, OnRecord
  <2>2. Adding' /\ Barred' /\ Fresh'
    BY <1>6 DEF BanAnswer, Return, Adding, Barred, Fresh
  <2> QED
    BY <2>1, <2>2
<1> QED
  BY <1>1, <1>2, <1>3, <1>4, <1>5, <1>6 DEF BanStep

LEMMA InvAdd ==
  ASSUME Inv, NEW a \in Adders, AddStep(a)
  PROVE  OnRecord' /\ Adding' /\ Barred' /\ Fresh'
<1> USE DEF Inv, TypeOK, Goto, history, Known
<1>1. ASSUME NEW players \in SUBSET Newcomers, AddRequest(a, players)
      PROVE  OnRecord' /\ Adding' /\ Barred' /\ Fresh'
  <2>1. Adding'
    BY <1>1 DEF AddRequest, Adding
  <2>2. OnRecord' /\ Barred' /\ Fresh'
    BY <1>1 DEF AddRequest, OnRecord, Barred, Fresh
  <2> QED
    BY <2>1, <2>2
<1>2. ASSUME NEW i \in Newcomers, AddCache(a, i)
      PROVE  OnRecord' /\ Adding' /\ Barred' /\ Fresh'
  <2>1. \A r \in Handlers : pc'[r] = pc[r]
    BY <1>2 DEF AddCache
  <2>2. OnRecord'
    BY <1>2, <2>1 DEF AddCache, OnRecord
  <2>3. Adding'
    BY <1>2 DEF AddCache, Adding
  <2>4. Barred' /\ Fresh'
    BY <1>2, <2>1 DEF AddCache, Barred, Fresh, Adding
  <2> QED
    BY <2>2, <2>3, <2>4
<1>3. CASE AddInsert(a)
  <2>1. /\ \A r \in Handlers : pc'[r] = pc[r]
        /\ \A i \in Ids : row'[i] = row[i] \/ (i \in batch[a] /\ row'[i] = "active")
        /\ \A i \in batch[a] : row[i] = "none" /\ playerCache[i] # "none"
    BY <1>3 DEF AddInsert, AddReturn, Adding
  <2>2. OnRecord'
    BY <1>3, <2>1 DEF AddInsert, AddReturn, OnRecord
  <2>3. Adding'
    BY <1>3, <2>1 DEF AddInsert, AddReturn, Adding
  <2>4. Barred' /\ Fresh'
    BY <1>3, <2>1 DEF AddInsert, AddReturn, Barred, Fresh
  <2> QED
    BY <2>2, <2>3, <2>4
<1>4. CASE AddFails(a)
  <2>1. \A r \in Handlers : pc'[r] = pc[r]
    BY <1>4 DEF AddFails, AddReturn
  <2>2. Adding'
    BY <1>4 DEF AddFails, AddReturn, Adding
  <2>3. OnRecord' /\ Barred' /\ Fresh'
    BY <1>4, <2>1 DEF AddFails, AddReturn, OnRecord, Barred, Fresh
  <2> QED
    BY <2>2, <2>3
<1> QED
  BY <1>1, <1>2, <1>3, <1>4 DEF AddStep

LEMMA InvRestart ==
  ASSUME Inv, Restart
  PROVE  OnRecord' /\ Adding' /\ Barred' /\ Fresh'
<1> USE DEF Inv, TypeOK, Restart
<1>1. OnRecord' /\ Adding' /\ Barred'
  BY DEF OnRecord, Adding, Barred
<1>2. Fresh'
  BY DEF Fresh
<1> QED
  BY <1>1, <1>2

LEMMA InvNext == Inv /\ [Next]_vars => Inv'
<1> SUFFICES ASSUME Inv, [Next]_vars
             PROVE  Inv'
  OBVIOUS
<1>1. TypeOK'
  BY TypeNext DEF Inv
<1>2. OnRecord' /\ Adding' /\ Barred' /\ Fresh'
  <2>1. CASE UNCHANGED vars
    BY <2>1 DEF Inv, vars, locals, history, OnRecord, Known, Adding, Barred, Fresh
  <2> QED
    BY <2>1, InvLookup, InvBan, InvAdd, InvRestart DEF Next
<1> QED
  BY <1>1, <1>2 DEF Inv

\* Once a disqualification is in force, no request that arrives later is
\* authorized for the player or shows the player as active: for any requests in
\* any order, failing statements and restarts.
THEOREM BarredAreTurnedAway == Spec => []TurnedAway
<1>1. Inv => TurnedAway
  BY DEF Inv, Barred, TurnedAway, Answer, AuthorizePlayer
<1> QED
  BY <1>1, InvInit, InvNext, PTL DEF Spec

\* ... and an organizer who disqualifies a player that can be barred is told so
\* (playerDisqualifiedHandler), whatever lookups are in between.
THEOREM OrganizersToldTrue == Spec => []ToldTrue
<1>1. Inv => ToldTrue
  BY DEF Inv, Barred, ToldTrue
<1> QED
  BY <1>1, InvInit, InvNext, PTL DEF Spec

\* While the process that added a player runs, an answered disqualification of
\* the player is in force: playersAddHandler fills the cache before the table.
THEOREM NewcomersAreBarred == Spec => []NewcomersBarred
<1>1. Inv => NewcomersBarred
  BY DEF Inv, Fresh, NewcomersBarred
<1> QED
  BY <1>1, InvInit, InvNext, PTL DEF Spec

\* The cache never says disqualified of a player the table has as active:
\* playerDisqualifiedHandler updates it only after its UPDATE.
THEOREM NobodyRefusedUnjustly == Spec => []RefusedOnRecord
<1>1. Inv => RefusedOnRecord
  BY DEF Inv, OnRecord, RefusedOnRecord
<1> QED
  BY <1>1, InvInit, InvNext, PTL DEF Spec
=============================================================================
