-------------------------- MODULE UrlServiceProofs --------------------------
(***************************************************************************)
(* What UrlService promises for any number of codes, requests and keys,    *)
(* any limits and lifetimes: where a redirect goes, who has a link, how    *)
(* long a cache entry lives, and how many links an account gets.           *)
(***************************************************************************)
EXTENDS UrlService, FiniteSetTheorems, TLAPS

CreatorPlaces == {"new", "reserve", "rollback", "draw", "create", "prime", "store", "done"}
VisitorPlaces == {"new", "query", "check", "fill", "store", "fill not found",
                  "fill expired", "done"}
ClaimantPlaces == {"new", "reserve", "rollback", "update", "done"}

\* Each handler is in its own code, and has not answered before its end.
PlaceInv ==
  /\ \A p \in Creators : /\ pc[p] \in CreatorPlaces
                         /\ pc[p] # "done" => answer[p] = "none"
  /\ \A v \in Visitors : pc[v] \in VisitorPlaces
  /\ \A u \in Claimants : pc[u] \in ClaimantPlaces

\* A handler that needs a code has one.
CodeInv ==
  /\ \A p \in Creators :
       /\ Alias[p] # NoCode => code[p] = Alias[p]
       /\ pc[p] \in {"create", "prime", "store"} \/ answer[p] = "created" => code[p] \in Codes
  /\ \A v \in Visitors : pc[v] \notin {"new", "done"} \/ answer[v] \in Creators
                           => code[v] \in Codes
  /\ \A u \in Claimants : pc[u] \notin {"new", "done"} => code[u] \in Codes

\* What a handler knows of the urls table when it acts on it.
CreatorKnows(p) ==
  /\ pc[p] \in {"prime", "store"} => rows[code[p]] = p
  /\ pc[p] \notin {"prime", "store", "done"} => \A c \in Codes : rows[c] # p
VisitorKnows(v) == pc[v] \in {"check", "fill", "store", "fill expired"} => rows[code[v]] # NoRow
ClaimantKnows(u) == pc[u] \notin {"new", "done"} => rows[code[u]] # NoRow

RowInv ==
  /\ \A c \in Codes : rows[c] = NoRow => owner[c] = Nobody
  /\ \A p \in Creators : CreatorKnows(p)
  /\ \A v \in Visitors : VisitorKnows(v)
  /\ \A u \in Claimants : ClaimantKnows(u)

\* An entry is gone when its time is over.
EntryInv == \A c \in Codes : cache[c].val # Absent
              => cache[c].ttl = Never \/ cache[c].ttl \in Nat \ {0}

Writers == Creators \cup Visitors

\* A TTL on its way to Redis is too long by no more than its own delay.
StoreInv == \A r \in Writers : pc[r] = "store" /\ left[LinkOf(r)] # Never
              => ttl[r] <= left[LinkOf(r)] + delay[r]

\* The requests of key k that are at one of the places P, when f says where
\* each request is.
At(f, P, k) == {r \in Charged : f[r] \in P /\ Key[r] = k}

RollingBack(k) == At(pc, {"rollback"}, k)

\* The requests that hold a reservation and have not used it yet.
Holding == {"draw", "create", "update"}
Reserved(k) == At(pc, Holding, k)

\* Until the limit has been granted the counter is no higher than the grants;
\* it is lower only by the DECRs that were sent again, and nobody is being
\* refused.
QuotaOf(k) ==
  /\ granted[k] <= Limit[k] + repeated[k]
  /\ granted[k] < Limit[k] => used[k] <= granted[k]
  /\ granted[k] < Limit[k] => Cardinality(RollingBack(k)) = 0
  /\ granted[k] + Cardinality(RollingBack(k)) <= used[k] + repeated[k]
  /\ k \in Users => Cardinality(LinksOf(k)) + Cardinality(Reserved(k)) <= granted[k]

QuotaInv == \A k \in Keys : QuotaOf(k)

IInv == /\ TypeOK
        /\ PlaceInv
        /\ CodeInv
        /\ RowInv
        /\ EntryInv
        /\ CacheAgreesWithTable
        /\ RedirectsAgreeWithTable
        /\ CreatedLinkIsStored
        /\ StoreInv
        /\ EntryWithinDelay
        /\ QuotaInv

-----------------------------------------------------------------------------
(* Counting requests and links *)

LEMMA AtFinite ==
  ASSUME NEW f, NEW P, NEW k
  PROVE  IsFiniteSet(At(f, P, k)) /\ Cardinality(At(f, P, k)) \in Nat
<1>1. IsFiniteSet(Charged)
  BY FiniteAssumption, FS_Union DEF Charged
<1>2. At(f, P, k) \subseteq Charged
  BY DEF At
<1> QED BY <1>1, <1>2, FS_Subset, FS_CardinalityType

\* A request that moves leaves one place and enters another.
LEMMA AtMoves ==
  ASSUME NEW f, NEW g, NEW r \in Charged, \A s \in Charged \ {r} : g[s] = f[s],
         NEW P, NEW k
  PROVE  /\ Key[r] = k /\ g[r] \in P /\ f[r] \notin P
              => Cardinality(At(g, P, k)) = Cardinality(At(f, P, k)) + 1
         /\ Key[r] = k /\ g[r] \notin P /\ f[r] \in P
              => Cardinality(At(f, P, k)) = Cardinality(At(g, P, k)) + 1
         /\ Key[r] # k \/ (g[r] \in P <=> f[r] \in P)
              => At(g, P, k) = At(f, P, k)
<1>1. ASSUME NEW h, NEW Q
      PROVE  IsFiniteSet(At(h, Q, k)) /\ Cardinality(At(h, Q, k)) \in Nat
  BY AtFinite
<1>2. CASE Key[r] = k /\ g[r] \in P /\ f[r] \notin P
  <2>1. At(g, P, k) = At(f, P, k) \cup {r} /\ r \notin At(f, P, k)
    BY <1>2 DEF At
  <2>2. Cardinality(At(g, P, k)) = Cardinality(At(f, P, k)) + 1
    BY <1>1, <2>1, FS_AddElement
  <2> QED BY <1>2, <2>2
<1>3. CASE Key[r] = k /\ g[r] \notin P /\ f[r] \in P
  <2>1. At(f, P, k) = At(g, P, k) \cup {r} /\ r \notin At(g, P, k)
    BY <1>3 DEF At
  <2>2. Cardinality(At(f, P, k)) = Cardinality(At(g, P, k)) + 1
    BY <1>1, <2>1, FS_AddElement
  <2> QED BY <1>3, <2>2
<1>4. CASE Key[r] # k \/ (g[r] \in P <=> f[r] \in P)
  <2>1. At(g, P, k) = At(f, P, k)
    BY <1>4 DEF At
  <2> QED BY <1>4, <2>1
<1> QED BY <1>2, <1>3, <1>4

LEMMA AtIgnores ==
  ASSUME NEW f, NEW g, \A s \in Charged : g[s] = f[s], NEW P, NEW k
  PROVE  At(g, P, k) = At(f, P, k)
BY DEF At

LEMMA LinksFinite ==
  ASSUME NEW k
  PROVE  IsFiniteSet(LinksOf(k)) /\ Cardinality(LinksOf(k)) \in Nat
<1>1. LinksOf(k) \subseteq Codes
  BY DEF LinksOf
<1> QED BY <1>1, FiniteAssumption, FS_Subset, FS_CardinalityType

\* A link that had no owner adds one to its new owner's links, and nothing
\* to anybody else's.
LEMMA LinksGrow ==
  ASSUME owner \in [Codes -> Users \cup {Nobody}], NEW c \in Codes, owner[c] = Nobody,
         NEW k \in Users, NEW u, owner' = [owner EXCEPT ![c] = u]
  PROVE  Cardinality(LinksOf(k)') = Cardinality(LinksOf(k)) + (IF u = k THEN 1 ELSE 0)
<1>1. IsFiniteSet(LinksOf(k)) /\ Cardinality(LinksOf(k)) \in Nat
  BY LinksFinite
<1>2. CASE u = k
  <2>1. LinksOf(k)' = LinksOf(k) \cup {c} /\ c \notin LinksOf(k)
    BY <1>2, KeyAssumption DEF LinksOf
  <2> QED BY <1>1, <1>2, <2>1, FS_AddElement
<1>3. CASE u # k
  <2>1. LinksOf(k)' = LinksOf(k)
    BY <1>3, KeyAssumption DEF LinksOf
  <2> QED BY <1>1, <1>3, <2>1
<1> QED BY <1>2, <1>3

-----------------------------------------------------------------------------
LEMMA InitInv == Init => IInv
<1> SUFFICES ASSUME Init PROVE IInv
  OBVIOUS
<1> USE KeyAssumption, AliasAssumption, TimeAssumption, ValueAssumption,
        ResponseAssumption, RequestAssumption DEF Init
<1>1. TypeOK
  <2>1. rows \in [Codes -> Creators \cup {NoRow}] /\ owner \in [Codes -> Users \cup {Nobody}]
    OBVIOUS
  <2>2. left \in [Creators -> Int \cup {Never}] /\ cache \in [Codes -> Entries]
    BY DEF Entries, Empty
  <2>3. /\ used \in [Keys -> Int] /\ granted \in [Keys -> Nat] /\ repeated \in [Keys -> Nat]
        /\ drawn \subseteq Codes
    OBVIOUS
  <2>4. retries \in 0..MaxRetries
    OBVIOUS
  <2>5. code \in [Requests -> Codes \cup {NoCode}]
    OBVIOUS
  <2>6. pc \in [Requests -> Places] /\ answer \in [Requests -> Responses]
    BY DEF Places, Responses, Outcomes
  <2>7. ttl \in [Requests -> Int] /\ delay \in [Requests -> Nat]
    OBVIOUS
  <2> QED BY <2>1, <2>2, <2>3, <2>4, <2>5, <2>6, <2>7 DEF TypeOK
<1>2. PlaceInv /\ CodeInv /\ RowInv
  BY DEF PlaceInv, CodeInv, RowInv, CreatorKnows, VisitorKnows, ClaimantKnows, CreatorPlaces, VisitorPlaces, ClaimantPlaces,
         Requests, Outcomes
<1>3. EntryInv /\ CacheAgreesWithTable /\ EntryWithinDelay /\ StoreInv
  BY DEF EntryInv, CacheAgreesWithTable, EntryWithinDelay, Empty, StoreInv, Writers, Requests
<1>4. RedirectsAgreeWithTable /\ CreatedLinkIsStored
  BY DEF RedirectsAgreeWithTable, CreatedLinkIsStored, Requests, Outcomes
<1>5. ASSUME NEW k \in Keys
      PROVE  /\ Cardinality(RollingBack(k)) = 0
             /\ Cardinality(Reserved(k)) = 0
             /\ k \in Users => Cardinality(LinksOf(k)) = 0
  <2>1. RollingBack(k) = {} /\ Reserved(k) = {}
    BY DEF RollingBack, Reserved, Holding, At, Requests, Charged
  <2>2. k \in Users => LinksOf(k) = {}
    BY DEF LinksOf
  <2> QED BY <2>1, <2>2, FS_EmptySet
<1>6. QuotaInv
  BY <1>5 DEF QuotaInv, QuotaOf
<1> QED BY <1>1, <1>2, <1>3, <1>4, <1>6 DEF IInv

LEMMA RequestsApart ==
  /\ \A p \in Creators : p \in Charged /\ p \in Requests /\ p \notin Visitors \cup Claimants
  /\ \A v \in Visitors : v \in Requests /\ v \notin Creators \cup Claimants
  /\ \A u \in Claimants : u \in Charged /\ u \in Requests /\ u \notin Creators \cup Visitors
  /\ \A r \in Charged : Key[r] \in Keys /\ r \in Requests
BY RequestAssumption DEF Charged, Requests, Keys

\* The steps of the system, one by one.
LEMMA Steps ==
  ASSUME [Next]_vars
  PROVE  \/ \E p \in Creators : CheckAlias(p)
         \/ \E p \in Creators : Reserve(p, "draw")
         \/ \E u \in Claimants : Reserve(u, "update")
         \/ \E r \in Charged : ReserveReplyLost(r)
         \/ \E r \in Charged : RollbackReplyLost(r)
         \/ \E r \in Charged : Rollback(r)
         \/ \E p \in Creators : DrawCode(p)
         \/ \E p \in Creators : Create(p)
         \/ \E p \in Creators : Prime(p)
         \/ \E v \in Visitors : \E c \in Codes : Lookup(v, c)
         \/ \E v \in Visitors : Query(v)
         \/ \E v \in Visitors : CheckExpiry(v)
         \/ \E v \in Visitors : Fill(v)
         \/ \E r \in Writers : Store(r)
         \/ \E r \in Writers : SetReplyLost(r)
         \/ \E u \in Claimants : \E c \in Codes : FetchForClaim(u, c)
         \/ \E u \in Claimants : Claim(u)
         \/ \E r \in Requests : Abort(r)
         \/ Tick
         \/ UNCHANGED vars
<1>1. ASSUME NEW p \in Creators
      PROVE  Shorten(p) => \/ CheckAlias(p) \/ Reserve(p, "draw") \/ ReserveReplyLost(p)
                           \/ RollbackReplyLost(p) \/ Rollback(p) \/ DrawCode(p)
                           \/ Create(p) \/ Prime(p) \/ SetReplyLost(p) \/ Store(p)
  BY DEF Shorten
<1>2. ASSUME NEW v \in Visitors
      PROVE  Resolve(v) => \/ \E c \in Codes : Lookup(v, c)
                           \/ Query(v) \/ CheckExpiry(v) \/ Fill(v)
                           \/ SetReplyLost(v) \/ Store(v)
  BY DEF Resolve
<1>3. ASSUME NEW u \in Claimants
      PROVE  ClaimURL(u) => \/ \E c \in Codes : FetchForClaim(u, c)
                            \/ Reserve(u, "update") \/ ReserveReplyLost(u)
                            \/ RollbackReplyLost(u) \/ Rollback(u) \/ Claim(u)
  BY DEF ClaimURL
<1> QED BY <1>1, <1>2, <1>3, RequestsApart DEF Next, Writers

\* What a SET finds: the link of its code, or a visitor that has none.
LEMMA SetFinds ==
  ASSUME TypeOK, PlaceInv, CodeInv, RowInv, NEW r \in Writers, pc[r] \in SetPlaces
  PROVE  /\ r \in Requests /\ code[r] \in Codes
         /\ pc[r] = "store" => LinkOf(r) \in Creators /\ LinkOf(r) = rows[code[r]]
         /\ pc[r] # "store" => r \in Visitors
<1>1. CASE r \in Creators
  <2>1. pc[r] = "store"
    BY <1>1 DEF PlaceInv, CreatorPlaces, SetPlaces
  <2>2. code[r] \in Codes /\ rows[code[r]] = r
    BY <1>1, <2>1 DEF CodeInv, RowInv, CreatorKnows
  <2> QED BY <1>1, <2>1, <2>2, RequestsApart DEF LinkOf
<1>2. CASE r \in Visitors
  <2>1. code[r] \in Codes
    BY <1>2 DEF CodeInv, SetPlaces
  <2>2. pc[r] = "store" => rows[code[r]] \in Creators
    BY <1>2, <2>1 DEF RowInv, VisitorKnows, TypeOK
  <2> QED BY <1>2, <2>1, <2>2, RequestsApart DEF LinkOf
<1> QED BY <1>1, <1>2 DEF Writers

LEMMA SetType ==
  ASSUME TypeOK, PlaceInv, CodeInv, RowInv, NEW r \in Writers, pc[r] \in SetPlaces, Set(r)
  PROVE  cache' \in [Codes -> Entries]
<1>1. /\ code[r] \in Codes /\ cache \in [Codes -> Entries]
      /\ NotFoundTTL \in Int /\ ttl[r] \in Int /\ delay[r] \in Nat
  BY SetFinds, TimeAssumption DEF TypeOK
<1>2. ASSUME NEW val \in Creators \cup {NotFound}, NEW t \in Int, NEW late \in Nat,
             CacheSet(code[r], val, t, late)
      PROVE  cache' \in [Codes -> Entries]
  BY <1>1, <1>2 DEF CacheSet, Entries
<1>3. CASE pc[r] = "store"
  BY <1>1, <1>2, <1>3, SetFinds DEF Set
<1>4. CASE pc[r] # "store"
  BY <1>1, <1>2, <1>4 DEF Set
<1> QED BY <1>3, <1>4

LEMMA MoveType ==
  ASSUME TypeOK, NEW r \in Requests
  PROVE  /\ \A to \in Places : Goto(r, to) =>
              pc' \in [Requests -> Places] /\ answer' \in [Requests -> Responses]
         /\ \A val \in Responses : Respond(r, val) =>
              pc' \in [Requests -> Places] /\ answer' \in [Requests -> Responses]
<1>1. pc \in [Requests -> Places] /\ answer \in [Requests -> Responses]
  BY DEF TypeOK
<1>2. ASSUME NEW to \in Places, Goto(r, to)
      PROVE  pc' \in [Requests -> Places] /\ answer' \in [Requests -> Responses]
  BY <1>1, <1>2 DEF Goto
<1>3. "done" \in Places
  BY DEF Places
<1>4. ASSUME NEW val \in Responses, Respond(r, val)
      PROVE  pc' \in [Requests -> Places] /\ answer' \in [Requests -> Responses]
  BY <1>1, <1>3, <1>4 DEF Respond
<1> QED BY <1>2, <1>4

LEMMA ResetType ==
  ASSUME TypeOK, NEW r \in Requests
  PROVE  [ttl EXCEPT ![r] = 0] \in [Requests -> Int] /\ [delay EXCEPT ![r] = 0] \in [Requests -> Nat]
<1>1. ASSUME NEW f \in [Requests -> Int] PROVE [f EXCEPT ![r] = 0] \in [Requests -> Int]
  OBVIOUS
<1>2. ASSUME NEW f \in [Requests -> Nat] PROVE [f EXCEPT ![r] = 0] \in [Requests -> Nat]
  OBVIOUS
<1>3. ttl \in [Requests -> Int] /\ delay \in [Requests -> Nat]
  BY DEF TypeOK
<1> QED BY <1>1, <1>2, <1>3

LEMMA TypeNext == ASSUME TypeOK, PlaceInv, CodeInv, RowInv, [Next]_vars PROVE TypeOK'
<1>b. Places = {"new", "reserve", "rollback", "draw", "create", "prime", "store",
                "query", "check", "fill", "fill not found", "fill expired", "update", "done"}
      /\ Creators \subseteq Responses /\ Outcomes \subseteq Responses
      /\ Outcomes = {"none", "error", "quota exceeded", "alias in use", "created",
                     "not found", "expired", "already owned", "claimed"}
  BY DEF Places, Responses, Outcomes
<1>c. \A r \in Charged : Key[r] \in Keys /\ used[Key[r]] \in Int /\ granted[Key[r]] \in Nat
                         /\ repeated[Key[r]] \in Nat
  BY RequestsApart DEF TypeOK
<1>d. \A r \in Requests :
        /\ \A to \in Places : Goto(r, to) =>
             pc' \in [Requests -> Places] /\ answer' \in [Requests -> Responses]
        /\ \A val \in Responses : Respond(r, val) =>
             pc' \in [Requests -> Places] /\ answer' \in [Requests -> Responses]
  BY MoveType
<1> USE DEF TypeOK, db, quota, lease
<1>1. ASSUME NEW p \in Creators, CheckAlias(p) PROVE TypeOK'
  BY <1>1, <1>b, <1>d, RequestsApart DEF CheckAlias
<1>2. ASSUME NEW r \in Charged, NEW next \in {"draw", "update"}, Reserve(r, next)
      PROVE  TypeOK'
  <2>1. used' \in [Keys -> Int] /\ granted' \in [Keys -> Nat]
    BY <1>2, <1>c DEF Reserve
  <2>2. pc' \in [Requests -> Places] /\ answer' \in [Requests -> Responses]
    BY <1>2, <1>b, <1>d, RequestsApart DEF Reserve
  <2> QED BY <1>2, <2>1, <2>2 DEF Reserve
<1>3. ASSUME NEW r \in Charged, ReserveReplyLost(r) PROVE TypeOK'
  <2>1. used' \in [Keys -> Int] /\ granted' \in [Keys -> Nat]
    BY <1>3, <1>c DEF ReserveReplyLost
  <2>2. pc' \in [Requests -> Places] /\ answer' \in [Requests -> Responses]
    BY <1>3, <1>b, <1>d, RequestsApart DEF ReserveReplyLost
  <2>3. retries' \in 0..MaxRetries
    BY <1>3, ValueAssumption DEF ReserveReplyLost
  <2> QED BY <1>3, <2>1, <2>2, <2>3 DEF ReserveReplyLost
<1>4. ASSUME NEW r \in Charged, Rollback(r) PROVE TypeOK'
  <2>1. used' \in [Keys -> Int]
    <3>1. Key[r] \in Keys /\ used[Key[r]] - 1 \in Int
      BY <1>4, <1>c
    <3>2. [used EXCEPT ![Key[r]] = @ - 1] \in [Keys -> Int]
      BY <3>1
    <3> QED BY <1>4, <3>2 DEF Rollback
  <2> QED BY <1>4, <1>b, <1>d, <2>1, RequestsApart DEF Rollback
<1>5. ASSUME NEW p \in Creators, DrawCode(p) PROVE TypeOK'
  <2>1. left' \in [Creators -> Int \cup {Never}]
    BY <1>5, TimeAssumption DEF DrawCode
  <2>2. pc' \in [Requests -> Places] /\ answer' \in [Requests -> Responses]
    BY <1>5, <1>b, <1>d, RequestsApart DEF DrawCode
  <2>3. code' \in [Requests -> Codes \cup {NoCode}] /\ drawn' \subseteq Codes
    BY <1>5, RequestsApart DEF DrawCode
  <2> QED BY <1>5, <2>1, <2>2, <2>3 DEF DrawCode
<1>6. ASSUME NEW p \in Creators, Create(p) PROVE TypeOK'
  <2>1. rows' \in [Codes -> Creators \cup {NoRow}] /\ owner' \in [Codes -> Users \cup {Nobody}]
    BY <1>6 DEF Create, Insert
  <2>2. pc' \in [Requests -> Places] /\ answer' \in [Requests -> Responses]
    BY <1>6, <1>b, <1>d, RequestsApart DEF Create
  <2> QED BY <1>6, <2>1, <2>2 DEF Create
<1>7. ASSUME NEW p \in Creators, Prime(p) PROVE TypeOK'
  <2>1. ttl' \in [Requests -> Int]
    <3>1. (IF left[p] = Never THEN CacheTTL ELSE left[p]) \in Int
      BY TimeAssumption
    <3> QED BY <1>7, <3>1 DEF Prime, TakeTTL
  <2> QED BY <1>7, <1>b, <1>d, <2>1, RequestsApart DEF Prime, TakeTTL
<1>8. ASSUME NEW v \in Visitors, NEW c \in Codes, Lookup(v, c) PROVE TypeOK'
  BY <1>8, <1>b, <1>d, RequestsApart DEF Lookup
<1>9. ASSUME NEW v \in Visitors, Query(v) PROVE TypeOK'
  BY <1>9, <1>b, <1>d, RequestsApart DEF Query
<1>10. ASSUME NEW v \in Visitors, CheckExpiry(v) PROVE TypeOK'
  BY <1>10, <1>b, <1>d, RequestsApart DEF CheckExpiry
<1>11. ASSUME NEW v \in Visitors, Fill(v) PROVE TypeOK'
  <2>1. rows[code[v]] \in Creators
    <3>1. pc[v] = "fill" /\ code[v] \in Codes
      BY <1>11 DEF Fill, CodeInv
    <3>2. rows[code[v]] # NoRow
      BY <3>1 DEF RowInv, VisitorKnows
    <3> QED BY <3>1, <3>2
  <2>2. ttl' \in [Requests -> Int]
    <3> DEFINE p == rows[code[v]]
    <3>1. (IF left[p] = Never THEN CacheTTL ELSE left[p]) \in Int
      BY <2>1, TimeAssumption
    <3> QED BY <1>11, <3>1 DEF Fill, TakeTTL
  <2> QED BY <1>11, <1>b, <1>d, <2>2, RequestsApart DEF Fill, TakeTTL
<1>12. ASSUME NEW r \in Writers, Store(r) PROVE TypeOK'
  <2>1. pc[r] \in SetPlaces /\ r \in Requests
    BY <1>12, SetFinds DEF Store
  <2>2. cache' \in [Codes -> Entries]
    BY <1>12, <2>1, SetType DEF Store
  <2>3. Reply(r) \in Responses
    BY <1>b, <2>1, SetFinds DEF Reply, SetPlaces
  <2>4. pc' \in [Requests -> Places] /\ answer' \in [Requests -> Responses]
    BY <1>12, <1>d, <2>1, <2>3 DEF Store
  <2>5. ttl' \in [Requests -> Int] /\ delay' \in [Requests -> Nat]
    BY <1>12, <2>1, ResetType DEF Store
  <2> QED BY <1>12, <2>2, <2>4, <2>5 DEF Store
<1>18. ASSUME NEW r \in Writers, SetReplyLost(r) PROVE TypeOK'
  <2>1. cache' \in [Codes -> Entries]
    BY <1>18, SetType DEF SetReplyLost
  <2>2. retries' \in 0..MaxRetries
    BY <1>18, ValueAssumption DEF SetReplyLost
  <2> QED BY <1>18, <2>1, <2>2 DEF SetReplyLost
<1>19. ASSUME NEW r \in Charged, RollbackReplyLost(r) PROVE TypeOK'
  <2>1. used' \in [Keys -> Int] /\ repeated' \in [Keys -> Nat]
    BY <1>19, <1>c DEF RollbackReplyLost
  <2>2. retries' \in 0..MaxRetries
    BY <1>19, ValueAssumption DEF RollbackReplyLost
  <2> QED BY <1>19, <2>1, <2>2 DEF RollbackReplyLost
<1>13. ASSUME NEW u \in Claimants, NEW c \in Codes, FetchForClaim(u, c) PROVE TypeOK'
  BY <1>13, <1>b, <1>d, RequestsApart DEF FetchForClaim
<1>14. ASSUME NEW u \in Claimants, Claim(u) PROVE TypeOK'
  BY <1>14, <1>b, <1>d, RequestsApart, KeyAssumption DEF Claim
<1>15. ASSUME NEW r \in Requests, Abort(r) PROVE TypeOK'
  <2>1. pc' \in [Requests -> Places] /\ answer' \in [Requests -> Responses]
    BY <1>15, <1>b, <1>d DEF Abort
  <2>2. ttl' \in [Requests -> Int] /\ delay' \in [Requests -> Nat]
    BY <1>15, ResetType DEF Abort
  <2> QED BY <1>15, <2>1, <2>2 DEF Abort
<1>16. CASE Tick
  <2>1. \A t \in Int \cup {Never} : Age(t) \in Int \cup {Never}
    BY DEF Age
  <2>2. left' \in [Creators -> Int \cup {Never}]
    BY <1>16, <2>1 DEF Tick
  <2>3. cache' \in [Codes -> Entries]
    <3>1. Empty \in Entries
      BY DEF Empty, Entries
    <3>2. ASSUME NEW c \in Codes PROVE [cache[c] EXCEPT !.ttl = Age(@)] \in Entries
      <4>1. cache[c] \in Entries /\ Age(cache[c].ttl) \in Int \cup {Never}
        BY <2>1 DEF Entries
      <4> QED BY <4>1 DEF Entries
    <3> QED BY <1>16, <3>1, <3>2 DEF Tick
  <2>4. delay' \in [Requests -> Nat]
    BY <1>16 DEF Tick
  <2> QED BY <1>16, <2>2, <2>3, <2>4 DEF Tick
<1>17. CASE UNCHANGED vars
  BY <1>17 DEF vars
<1> QED BY <1>1, <1>2, <1>3, <1>4, <1>5, <1>6, <1>7, <1>8, <1>9, <1>10, <1>11, <1>12,
           <1>13, <1>14, <1>15, <1>16, <1>17, <1>18, <1>19, Steps, RequestsApart

\* A step of request r leaves the other requests where they are.
Alone(r) == \A s \in Requests \ {r} : /\ pc'[s] = pc[s]
                                      /\ code'[s] = code[s]
                                      /\ answer'[s] = answer[s]
                                      /\ ttl'[s] = ttl[s]
                                      /\ delay'[s] = delay[s]

LEMMA StepAlone ==
  ASSUME TypeOK, NEW r \in Requests
  PROVE  /\ CheckAlias(r) \/ DrawCode(r) \/ Create(r) \/ Prime(r) => Alone(r)
         /\ \A next : Reserve(r, next) => Alone(r)
         /\ ReserveReplyLost(r) \/ RollbackReplyLost(r) \/ Rollback(r) => Alone(r)
         /\ \A c : Lookup(r, c) \/ FetchForClaim(r, c) => Alone(r)
         /\ Query(r) \/ CheckExpiry(r) \/ Fill(r) => Alone(r)
         /\ Store(r) \/ SetReplyLost(r) => Alone(r)
         /\ Claim(r) \/ Abort(r) => Alone(r)
<1>1. ASSUME NEW to, Goto(r, to), UNCHANGED <<code, lease>> PROVE Alone(r)
  BY <1>1 DEF Goto, Alone, TypeOK, lease
<1>2. ASSUME NEW val, Respond(r, val), UNCHANGED <<code, lease>> PROVE Alone(r)
  BY <1>2 DEF Respond, Alone, TypeOK, lease
<1>3. ASSUME CheckAlias(r) PROVE Alone(r)
  BY <1>1, <1>2, <1>3 DEF CheckAlias
<1>4. ASSUME DrawCode(r) PROVE Alone(r)
  BY <1>4 DEF DrawCode, Goto, Alone, TypeOK, lease
<1>5. ASSUME Create(r) PROVE Alone(r)
  BY <1>1, <1>2, <1>5 DEF Create
<1>6. ASSUME Prime(r) PROVE Alone(r)
  BY <1>6 DEF Prime, TakeTTL, Goto, Alone, TypeOK
<1>7. ASSUME NEW next, Reserve(r, next) PROVE Alone(r)
  BY <1>1, <1>7 DEF Reserve
<1>8. ASSUME ReserveReplyLost(r) PROVE Alone(r)
  BY <1>2, <1>8 DEF ReserveReplyLost, Alone, lease
<1>9. ASSUME Rollback(r) PROVE Alone(r)
  BY <1>2, <1>9 DEF Rollback
<1>10. ASSUME NEW c, Lookup(r, c) PROVE Alone(r)
  BY <1>10 DEF Lookup, Respond, Alone, TypeOK, lease
<1>11. ASSUME Query(r) PROVE Alone(r)
  BY <1>1, <1>11 DEF Query
<1>12. ASSUME CheckExpiry(r) PROVE Alone(r)
  BY <1>1, <1>12 DEF CheckExpiry
<1>13. ASSUME Store(r) PROVE Alone(r)
  BY <1>13 DEF Store, Respond, Alone, TypeOK
<1>14. ASSUME Fill(r) PROVE Alone(r)
  BY <1>14 DEF Fill, TakeTTL, Goto, Alone, TypeOK
<1>15. ASSUME NEW c, FetchForClaim(r, c) PROVE Alone(r)
  BY <1>15 DEF FetchForClaim, Respond, Goto, Alone, TypeOK, lease
<1>16. ASSUME Claim(r) PROVE Alone(r)
  BY <1>2, <1>16 DEF Claim
<1>17. ASSUME Abort(r) PROVE Alone(r)
  BY <1>17 DEF Abort, Respond, Alone, TypeOK
<1>18. ASSUME SetReplyLost(r) PROVE Alone(r)
  BY <1>18 DEF SetReplyLost, Alone, lease
<1>19. ASSUME RollbackReplyLost(r) PROVE Alone(r)
  BY <1>19 DEF RollbackReplyLost, Alone, lease
<1> QED BY <1>3, <1>4, <1>5, <1>6, <1>7, <1>8, <1>9, <1>10, <1>11, <1>12, <1>13, <1>14,
           <1>15, <1>16, <1>17, <1>18, <1>19

LEMMA CheckAliasMoves ==
  ASSUME TypeOK, NEW p \in Creators, CheckAlias(p)
  PROVE  /\ pc[p] = "new" /\ code' = code /\ Alone(p)
         /\ \/ pc'[p] = "reserve" /\ answer' = answer
            \/ pc'[p] = "done" /\ answer'[p] = "alias in use"
<1>1. pc[p] = "new" /\ code' = code /\ Alone(p)
  BY StepAlone, RequestsApart DEF CheckAlias
<1>2. pc \in [Requests -> Places] /\ answer \in [Requests -> Responses] /\ p \in Requests
  BY RequestsApart DEF TypeOK
<1>3. Goto(p, "reserve") => pc'[p] = "reserve" /\ answer' = answer
  BY <1>2 DEF Goto
<1>4. Respond(p, "alias in use") => pc'[p] = "done" /\ answer'[p] = "alias in use"
  BY <1>2 DEF Respond
<1> QED BY <1>1, <1>3, <1>4 DEF CheckAlias

\* One lemma per part of the invariant, one step of it per action.
LEMMA PlaceNext == ASSUME TypeOK, PlaceInv, [Next]_vars PROVE PlaceInv'
<1>a. ASSUME NEW p \in Creators, CheckAlias(p)
      PROVE  /\ pc[p] = "new" /\ code' = code
             /\ \A r \in Requests \ {p} : pc'[r] = pc[r] /\ answer'[r] = answer[r]
             /\ \/ pc'[p] = "reserve" /\ answer' = answer
                \/ pc'[p] = "done" /\ answer'[p] = "alias in use"
  BY <1>a, CheckAliasMoves DEF Alone
<1>1. ASSUME NEW p \in Creators, CheckAlias(p) PROVE PlaceInv'
  <2>1. \A q \in Creators \ {p} : pc'[q] = pc[q] /\ answer'[q] = answer[q]
    BY <1>a, <1>1, RequestsApart
  <2>2. \A v \in Visitors \cup Claimants : pc'[v] = pc[v]
    BY <1>a, <1>1, RequestsApart
  <2>3. pc[p] = "new" /\ answer[p] = "none"
    BY <1>a, <1>1 DEF PlaceInv
  <2>4. (pc'[p] = "reserve" /\ answer'[p] = "none") \/ pc'[p] = "done"
    BY <1>a, <1>1, <2>3
  <2> QED BY <2>1, <2>2, <2>4 DEF PlaceInv, CreatorPlaces
<1> USE RequestsApart
    DEF TypeOK, PlaceInv, CreatorPlaces, VisitorPlaces, ClaimantPlaces, Goto, Respond, db, quota
<1>2. ASSUME NEW p \in Creators, Reserve(p, "draw") PROVE PlaceInv'
  BY <1>2 DEF Reserve
<1>3. ASSUME NEW u \in Claimants, Reserve(u, "update") PROVE PlaceInv'
  BY <1>3 DEF Reserve
<1>4. ASSUME NEW r \in Charged, ReserveReplyLost(r) PROVE PlaceInv'
  BY <1>4 DEF ReserveReplyLost
<1>5. ASSUME NEW r \in Charged, Rollback(r) PROVE PlaceInv'
  BY <1>5 DEF Rollback
<1>6. ASSUME NEW p \in Creators, DrawCode(p) PROVE PlaceInv'
  BY <1>6 DEF DrawCode
<1>7. ASSUME NEW p \in Creators, Create(p) PROVE PlaceInv'
  BY <1>7 DEF Create
<1>8. ASSUME NEW p \in Creators, Prime(p) PROVE PlaceInv'
  BY <1>8 DEF Prime
<1>9. ASSUME NEW v \in Visitors, NEW c \in Codes, Lookup(v, c) PROVE PlaceInv'
  <2>1. pc'[v] \in {"query", "done"}
    BY <1>9 DEF Lookup
  <2>2. Alone(v)
    BY <1>9, StepAlone
  <2> QED BY <2>1, <2>2 DEF Alone
<1>10. ASSUME NEW v \in Visitors, Query(v) PROVE PlaceInv'
  BY <1>10 DEF Query
<1>11. ASSUME NEW v \in Visitors, CheckExpiry(v) PROVE PlaceInv'
  BY <1>11 DEF CheckExpiry
<1>12. ASSUME NEW r \in Writers, Store(r) PROVE PlaceInv'
  <2>1. r \in Requests /\ pc'[r] = "done"
    BY <1>12 DEF Store, Writers
  <2>2. Alone(r)
    BY <1>12, <2>1, StepAlone
  <2> QED BY <2>1, <2>2 DEF Alone
<1>13. ASSUME NEW v \in Visitors, Fill(v) PROVE PlaceInv'
  BY <1>13 DEF Fill
<1>14. ASSUME NEW u \in Claimants, NEW c \in Codes, FetchForClaim(u, c) PROVE PlaceInv'
  <2>1. pc'[u] \in {"reserve", "done"}
    BY <1>14 DEF FetchForClaim
  <2>2. Alone(u)
    BY <1>14, StepAlone
  <2> QED BY <2>1, <2>2 DEF Alone
<1>15. ASSUME NEW u \in Claimants, Claim(u) PROVE PlaceInv'
  BY <1>15 DEF Claim
<1>16. ASSUME NEW r \in Requests, Abort(r) PROVE PlaceInv'
  BY <1>16 DEF Abort
<1>19. ASSUME NEW r \in Writers, SetReplyLost(r) PROVE PlaceInv'
  BY <1>19 DEF SetReplyLost
<1>20. ASSUME NEW r \in Charged, RollbackReplyLost(r) PROVE PlaceInv'
  BY <1>20 DEF RollbackReplyLost
<1>17. CASE Tick
  BY <1>17 DEF Tick
<1>18. CASE UNCHANGED vars
  BY <1>18 DEF vars
<1> QED BY <1>1, <1>2, <1>3, <1>4, <1>5, <1>6, <1>7, <1>8, <1>9, <1>10, <1>11, <1>12,
           <1>13, <1>14, <1>15, <1>16, <1>17, <1>18, <1>19, <1>20, Steps

LEMMA CodeFrame ==
  ASSUME CodeInv, NEW r \in Visitors \cup Claimants, Alone(r), code'[r] \in Codes
  PROVE  CodeInv'
<1>1. \A s \in Requests \ {r} : pc'[s] = pc[s] /\ code'[s] = code[s] /\ answer'[s] = answer[s]
  BY DEF Alone
<1>2. \A p \in Creators :
        pc'[p] = pc[p] /\ code'[p] = code[p] /\ answer'[p] = answer[p]
  BY <1>1, RequestsApart
<1>3. \A s \in Visitors \cup Claimants :
        \/ code'[s] \in Codes
        \/ pc'[s] = pc[s] /\ code'[s] = code[s] /\ answer'[s] = answer[s]
  BY <1>1, RequestsApart
<1> QED BY <1>2, <1>3 DEF CodeInv

LEMMA CodeNext == ASSUME TypeOK, PlaceInv, CodeInv, RowInv, [Next]_vars PROVE CodeInv'
<1>a. ASSUME NEW p \in Creators, CheckAlias(p)
      PROVE  /\ pc[p] = "new" /\ code' = code
             /\ \A r \in Requests \ {p} : pc'[r] = pc[r] /\ answer'[r] = answer[r]
             /\ \/ pc'[p] = "reserve" /\ answer' = answer
                \/ pc'[p] = "done" /\ answer'[p] = "alias in use"
  BY <1>a, CheckAliasMoves DEF Alone
<1>b. ASSUME NEW r \in Charged, ReserveReplyLost(r)
      PROVE  /\ Alone(r) /\ code' = code /\ pc[r] = "reserve"
             /\ \/ pc'[r] = pc[r] /\ answer'[r] = answer[r]
                \/ pc'[r] = "done" /\ answer'[r] = "error"
  <2>1. Alone(r) /\ code' = code /\ pc[r] = "reserve"
    BY <1>b, StepAlone, RequestsApart DEF ReserveReplyLost
  <2>2. \/ pc'[r] = pc[r] /\ answer'[r] = answer[r]
        \/ pc'[r] = "done" /\ answer'[r] = "error"
    BY <1>b, RequestsApart DEF ReserveReplyLost, Respond, TypeOK
  <2> QED BY <2>1, <2>2
<1>1. ASSUME NEW p \in Creators, CheckAlias(p) PROVE CodeInv'
  <2>1. /\ \A c \in Creators : code'[c] = code[c] /\ (c # p => pc'[c] = pc[c] /\ answer'[c] = answer[c])
        /\ \A v \in Visitors \cup Claimants :
             code'[v] = code[v] /\ pc'[v] = pc[v] /\ answer'[v] = answer[v]
    BY <1>a, <1>1, RequestsApart
  <2>2. pc[p] = "new" /\ answer[p] = "none"
    BY <1>a, <1>1 DEF PlaceInv
  <2>3. pc'[p] \notin {"create", "prime", "store"} /\ answer'[p] # "created"
    BY <1>a, <1>1, <2>2
  <2> QED BY <2>1, <2>3 DEF CodeInv
<1>4. ASSUME NEW r \in Charged, ReserveReplyLost(r) PROVE CodeInv'
  <2>1. \A s \in Requests : code'[s] = code[s] /\ (s # r => pc'[s] = pc[s] /\ answer'[s] = answer[s])
    BY <1>b, <1>4 DEF Alone
  <2>2. pc[r] = "reserve"
        /\ ((pc'[r] = "reserve" /\ answer'[r] = answer[r]) \/ (pc'[r] = "done" /\ answer'[r] = "error"))
    BY <1>b, <1>4
  <2>3. /\ \A p \in Creators : /\ code'[p] = code[p]
                               /\ pc'[p] \in {"create", "prime", "store"} => pc[p] \in {"create", "prime", "store"}
                               /\ answer'[p] = "created" => answer[p] = "created"
        /\ \A u \in Claimants : /\ code'[u] = code[u]
                                /\ pc'[u] \notin {"new", "done"} => pc[u] \notin {"new", "done"}
    BY <2>1, <2>2, RequestsApart
  <2>4. \A v \in Visitors : code'[v] = code[v] /\ pc'[v] = pc[v] /\ answer'[v] = answer[v]
    BY <2>1, RequestsApart, RequestAssumption DEF Charged
  <2> QED BY <2>3, <2>4 DEF CodeInv
<1>c. ASSUME NEW p \in Creators, DrawCode(p), Alias[p] = NoCode PROVE code'[p] \in Codes
  <2>1. PICK c \in Codes : code' = [code EXCEPT ![p] = c]
    BY <1>c DEF DrawCode
  <2> QED BY <2>1, RequestsApart DEF TypeOK
<1> USE RequestsApart, ResponseAssumption, AliasAssumption
    DEF TypeOK, PlaceInv, CreatorPlaces, VisitorPlaces, ClaimantPlaces, CodeInv,
        Goto, Respond, Outcomes, db, quota
<1>2. ASSUME NEW p \in Creators, Reserve(p, "draw") PROVE CodeInv'
  BY <1>2 DEF Reserve
<1>3. ASSUME NEW u \in Claimants, Reserve(u, "update") PROVE CodeInv'
  BY <1>3 DEF Reserve
<1>5. ASSUME NEW r \in Charged, Rollback(r) PROVE CodeInv'
  BY <1>5 DEF Rollback
<1>6. ASSUME NEW p \in Creators, DrawCode(p) PROVE CodeInv'
  <2>1. pc'[p] = "create" /\ answer' = answer
    BY <1>6 DEF DrawCode
  <2>2. Alias[p] # NoCode => code'[p] = Alias[p] /\ code'[p] \in Codes
    <3>1. Alias[p] # NoCode => Alias[p] \in Codes /\ code[p] = Alias[p]
      OBVIOUS
    <3>2. Alias[p] # NoCode => code' = code
      BY <1>6 DEF DrawCode
    <3> QED BY <3>1, <3>2
  <2>3. Alias[p] = NoCode => code'[p] \in Codes
    BY <1>6, <1>c
  <2>4. Alone(p)
    BY <1>6, StepAlone
  <2> QED BY <2>1, <2>2, <2>3, <2>4 DEF Alone
<1>7. ASSUME NEW p \in Creators, Create(p) PROVE CodeInv'
  <2>1. code[p] \in Codes /\ code' = code
    BY <1>7 DEF Create
  <2>2. pc'[p] \in {"prime", "done"} /\ answer'[p] \in {"none", "error"}
    BY <1>7 DEF Create
  <2>3. Alone(p)
    BY <1>7, StepAlone
  <2> QED BY <2>1, <2>2, <2>3 DEF Alone
<1>8. ASSUME NEW p \in Creators, Prime(p) PROVE CodeInv'
  BY <1>8 DEF Prime
<1>9. ASSUME NEW v \in Visitors, NEW c \in Codes, Lookup(v, c) PROVE CodeInv'
  <2>1. code'[v] = c
    BY <1>9 DEF Lookup
  <2>2. Alone(v)
    BY <1>9, StepAlone
  <2> QED BY <2>1, <2>2, CodeFrame
<1>10. ASSUME NEW v \in Visitors, Query(v) PROVE CodeInv'
  BY <1>10 DEF Query
<1>11. ASSUME NEW v \in Visitors, CheckExpiry(v) PROVE CodeInv'
  BY <1>11 DEF CheckExpiry
<1>12. ASSUME NEW r \in Writers, Store(r) PROVE CodeInv'
  <2>1. r \in Requests /\ code[r] \in Codes
    BY <1>12, SetFinds DEF Store
  <2>2. pc'[r] = "done" /\ code' = code
    BY <1>12, <2>1 DEF Store
  <2>3. Alone(r)
    BY <1>12, <2>1, StepAlone
  <2> QED BY <2>1, <2>2, <2>3 DEF Alone
<1>13. ASSUME NEW v \in Visitors, Fill(v) PROVE CodeInv'
  BY <1>13 DEF Fill
<1>14. ASSUME NEW u \in Claimants, NEW c \in Codes, FetchForClaim(u, c) PROVE CodeInv'
  <2>1. code'[u] = c
    BY <1>14 DEF FetchForClaim
  <2>2. Alone(u)
    BY <1>14, StepAlone
  <2> QED BY <2>1, <2>2, CodeFrame
<1>15. ASSUME NEW u \in Claimants, Claim(u) PROVE CodeInv'
  <2>1. code[u] \in Codes /\ code' = code
    BY <1>15 DEF Claim
  <2>2. Alone(u)
    BY <1>15, StepAlone
  <2> QED BY <2>1, <2>2, CodeFrame
<1>16. ASSUME NEW r \in Requests, Abort(r) PROVE CodeInv'
  BY <1>16 DEF Abort
<1>19. ASSUME NEW r \in Writers, SetReplyLost(r) PROVE CodeInv'
  BY <1>19 DEF SetReplyLost
<1>20. ASSUME NEW r \in Charged, RollbackReplyLost(r) PROVE CodeInv'
  BY <1>20 DEF RollbackReplyLost
<1>17. CASE Tick
  BY <1>17 DEF Tick
<1>18. CASE UNCHANGED vars
  BY <1>18 DEF vars
<1> QED BY <1>1, <1>2, <1>3, <1>4, <1>5, <1>6, <1>7, <1>8, <1>9, <1>10, <1>11, <1>12,
           <1>13, <1>14, <1>15, <1>16, <1>17, <1>18, <1>19, <1>20, Steps

LEMMA RowFrame ==
  ASSUME TypeOK, RowInv, NEW r \in Requests, Alone(r), UNCHANGED <<rows, owner>>,
         r \in Creators => CreatorKnows(r)',
         r \in Visitors => VisitorKnows(r)',
         r \in Claimants => ClaimantKnows(r)'
  PROVE  RowInv'
<1>1. ASSUME NEW p \in Creators PROVE CreatorKnows(p)'
  BY RequestsApart DEF RowInv, CreatorKnows, Alone
<1>2. ASSUME NEW v \in Visitors PROVE VisitorKnows(v)'
  BY RequestsApart DEF RowInv, VisitorKnows, Alone
<1>3. ASSUME NEW u \in Claimants PROVE ClaimantKnows(u)'
  BY RequestsApart DEF RowInv, ClaimantKnows, Alone
<1> QED BY <1>1, <1>2, <1>3 DEF RowInv

\* A request that has answered is owed nothing.
LEMMA RespondKnows ==
  ASSUME TypeOK, NEW r \in Requests, NEW val, Respond(r, val)
  PROVE  CreatorKnows(r)' /\ VisitorKnows(r)' /\ ClaimantKnows(r)'
<1>1. pc'[r] = "done"
  BY DEF Respond, TypeOK
<1> QED BY <1>1 DEF CreatorKnows, VisitorKnows, ClaimantKnows

LEMMA RowNext == ASSUME TypeOK, PlaceInv, CodeInv, RowInv, [Next]_vars PROVE RowInv'
<1>1. ASSUME NEW p \in Creators, CheckAlias(p) PROVE RowInv'
  <2>1. CreatorKnows(p)'
    <3>1. CASE Goto(p, "reserve")
      BY <1>1, <3>1, RequestsApart DEF CheckAlias, Goto, TypeOK, RowInv, CreatorKnows
    <3>2. CASE Respond(p, "alias in use")
      BY <3>2, RespondKnows, RequestsApart
    <3> QED BY <1>1, <3>1, <3>2 DEF CheckAlias
  <2>2. Alone(p)
    BY <1>1, StepAlone, RequestsApart
  <2> QED BY <1>1, <2>1, <2>2, RowFrame, RequestsApart DEF CheckAlias, db, quota
<1>2. ASSUME NEW p \in Creators, Reserve(p, "draw") PROVE RowInv'
  <2>1. CreatorKnows(p)'
    BY <1>2, RespondKnows, RequestsApart DEF Reserve, Goto, TypeOK, RowInv, CreatorKnows
  <2>2. Alone(p)
    BY <1>2, StepAlone, RequestsApart
  <2> QED BY <1>2, <2>1, <2>2, RowFrame, RequestsApart DEF Reserve, db, quota
<1>3. ASSUME NEW u \in Claimants, Reserve(u, "update") PROVE RowInv'
  <2>1. ClaimantKnows(u)'
    BY <1>3, RespondKnows, RequestsApart DEF Reserve, Goto, TypeOK, RowInv, ClaimantKnows
  <2>2. Alone(u)
    BY <1>3, StepAlone, RequestsApart
  <2> QED BY <1>3, <2>1, <2>2, RowFrame, RequestsApart DEF Reserve, db, quota
<1>4. ASSUME NEW r \in Charged, ReserveReplyLost(r) PROVE RowInv'
  <2>1. r \in Requests /\ Alone(r)
    BY <1>4, StepAlone, RequestsApart
  <2>2. UNCHANGED pc \/ \E val : Respond(r, val)
    BY <1>4 DEF ReserveReplyLost
  <2>3. (r \in Creators => CreatorKnows(r)') /\ (r \in Visitors => VisitorKnows(r)')
        /\ (r \in Claimants => ClaimantKnows(r)')
    BY <1>4, <2>1, <2>2, RespondKnows
       DEF ReserveReplyLost, RowInv, CreatorKnows, VisitorKnows, ClaimantKnows
  <2> QED BY <1>4, <2>1, <2>3, RowFrame DEF ReserveReplyLost
<1>5. ASSUME NEW r \in Charged, Rollback(r) PROVE RowInv'
  <2>1. r \in Requests /\ Alone(r)
    BY <1>5, StepAlone, RequestsApart
  <2>2. UNCHANGED pc \/ \E val : Respond(r, val)
    BY <1>5 DEF Rollback
  <2>3. (r \in Creators => CreatorKnows(r)') /\ (r \in Visitors => VisitorKnows(r)')
        /\ (r \in Claimants => ClaimantKnows(r)')
    BY <1>5, <2>1, <2>2, RespondKnows
       DEF Rollback, RowInv, CreatorKnows, VisitorKnows, ClaimantKnows
  <2> QED BY <1>5, <2>1, <2>3, RowFrame DEF Rollback
<1>6. ASSUME NEW p \in Creators, DrawCode(p) PROVE RowInv'
  <2>1. CreatorKnows(p)'
    BY <1>6, RespondKnows, RequestsApart DEF DrawCode, Goto, TypeOK, RowInv, CreatorKnows
  <2>2. Alone(p)
    BY <1>6, StepAlone, RequestsApart
  <2> QED BY <1>6, <2>1, <2>2, RowFrame, RequestsApart DEF DrawCode, db, quota
<1>7. ASSUME NEW p \in Creators, Create(p) PROVE RowInv'
  <2>1. Alone(p)
    BY <1>7, StepAlone, RequestsApart
  <2>2. CASE UNCHANGED db /\ Respond(p, "error")
    BY <1>7, <2>1, <2>2, RowFrame, RespondKnows, RequestsApart DEF db
  <2>3. CASE rows[code[p]] = NoRow /\ Insert(p) /\ pc'[p] \in {"prime", "done"}
    <3>1. code[p] \in Codes /\ code'[p] = code[p]
      BY <1>7 DEF Create, CodeInv
    <3>2. /\ rows'[code[p]] = p
          /\ \A c \in Codes \ {code[p]} : rows'[c] = rows[c] /\ owner'[c] = owner[c]
      BY <2>3, <3>1 DEF Insert, TypeOK
    <3>3. \A c \in Codes : rows'[c] = NoRow => owner'[c] = Nobody
      BY <3>2, ValueAssumption DEF RowInv
    <3>4. CreatorKnows(p)'
      BY <2>3, <3>1, <3>2 DEF CreatorKnows
    <3>5. ASSUME NEW q \in Creators \ {p} PROVE CreatorKnows(q)'
      <4>1. pc'[q] = pc[q] /\ code'[q] = code[q] /\ CreatorKnows(q)
        BY <2>1, RequestsApart DEF Alone, RowInv
      <4>2. pc[q] \in {"prime", "store"} => code[q] \in Codes /\ code[q] # code[p]
        BY <2>3, <4>1, ValueAssumption DEF CodeInv, CreatorKnows
      <4> QED BY <3>2, <4>1, <4>2 DEF CreatorKnows
    <3>6. ASSUME NEW v \in Visitors PROVE VisitorKnows(v)'
      <4>1. pc'[v] = pc[v] /\ code'[v] = code[v] /\ VisitorKnows(v)
        BY <2>1, RequestsApart DEF Alone, RowInv
      <4>2. pc[v] \in {"check", "fill", "store", "fill expired"} => code[v] \in Codes
        BY DEF CodeInv
      <4> QED BY <3>2, <4>1, <4>2, ValueAssumption DEF VisitorKnows
    <3>7. ASSUME NEW u \in Claimants PROVE ClaimantKnows(u)'
      <4>1. pc'[u] = pc[u] /\ code'[u] = code[u] /\ ClaimantKnows(u)
        BY <2>1, RequestsApart DEF Alone, RowInv
      <4>2. pc[u] \notin {"new", "done"} => code[u] \in Codes
        BY DEF CodeInv
      <4> QED BY <3>2, <4>1, <4>2, ValueAssumption DEF ClaimantKnows
    <3> QED BY <3>3, <3>4, <3>5, <3>6, <3>7 DEF RowInv
  <2>4. pc'[p] \in {"prime", "done"}
    BY <1>7, RequestsApart DEF Create, Goto, Respond, TypeOK
  <2> QED BY <1>7, <2>2, <2>3, <2>4 DEF Create, db
<1>8. ASSUME NEW p \in Creators, Prime(p) PROVE RowInv'
  <2>1. CreatorKnows(p)'
    BY <1>8, RespondKnows, RequestsApart DEF Prime, TakeTTL, Goto, TypeOK, RowInv, CreatorKnows
  <2>2. Alone(p)
    BY <1>8, StepAlone, RequestsApart
  <2> QED BY <1>8, <2>1, <2>2, RowFrame, RequestsApart DEF Prime, db, quota
<1>9. ASSUME NEW v \in Visitors, NEW c \in Codes, Lookup(v, c) PROVE RowInv'
  <2>1. VisitorKnows(v)'
    BY <1>9, RespondKnows, RequestsApart DEF Lookup, Goto, TypeOK, RowInv, VisitorKnows
  <2>2. Alone(v)
    BY <1>9, StepAlone, RequestsApart
  <2> QED BY <1>9, <2>1, <2>2, RowFrame, RequestsApart DEF Lookup, db, quota
<1>10. ASSUME NEW v \in Visitors, Query(v) PROVE RowInv'
  <2>1. VisitorKnows(v)'
    BY <1>10, RespondKnows, RequestsApart DEF Query, Goto, TypeOK, RowInv, VisitorKnows
  <2>2. Alone(v)
    BY <1>10, StepAlone, RequestsApart
  <2> QED BY <1>10, <2>1, <2>2, RowFrame, RequestsApart DEF Query, db, quota
<1>11. ASSUME NEW v \in Visitors, CheckExpiry(v) PROVE RowInv'
  <2>1. VisitorKnows(v)'
    BY <1>11, RespondKnows, RequestsApart DEF CheckExpiry, Goto, TypeOK, RowInv, VisitorKnows
  <2>2. Alone(v)
    BY <1>11, StepAlone, RequestsApart
  <2> QED BY <1>11, <2>1, <2>2, RowFrame, RequestsApart DEF CheckExpiry, db, quota
<1>12. ASSUME NEW r \in Writers, Store(r) PROVE RowInv'
  <2>1. r \in Requests /\ Respond(r, Reply(r)) /\ Alone(r)
    BY <1>12, StepAlone, RequestsApart DEF Store, Writers
  <2> QED BY <1>12, <2>1, RowFrame, RespondKnows DEF Store
<1>13. ASSUME NEW v \in Visitors, Fill(v) PROVE RowInv'
  <2>1. VisitorKnows(v)'
    BY <1>13, RespondKnows, RequestsApart DEF Fill, TakeTTL, Goto, TypeOK, RowInv, VisitorKnows
  <2>2. Alone(v)
    BY <1>13, StepAlone, RequestsApart
  <2> QED BY <1>13, <2>1, <2>2, RowFrame, RequestsApart DEF Fill, db, quota
<1>14. ASSUME NEW u \in Claimants, NEW c \in Codes, FetchForClaim(u, c) PROVE RowInv'
  <2>1. ClaimantKnows(u)'
    BY <1>14, RespondKnows, RequestsApart DEF FetchForClaim, Goto, TypeOK, RowInv, ClaimantKnows
  <2>2. Alone(u)
    BY <1>14, StepAlone, RequestsApart
  <2> QED BY <1>14, <2>1, <2>2, RowFrame, RequestsApart DEF FetchForClaim, db, quota
<1>15. ASSUME NEW u \in Claimants, Claim(u) PROVE RowInv'
  <2>1. Alone(u) /\ u \in Requests
    BY <1>15, StepAlone, RequestsApart
  <2>2. code[u] \in Codes /\ rows[code[u]] # NoRow
    BY <1>15 DEF Claim, CodeInv, RowInv, ClaimantKnows
  <2>3. \A c \in Codes : rows'[c] = NoRow => owner'[c] = Nobody
    BY <1>15, <2>2 DEF Claim, RowInv, TypeOK
  <2>4. ClaimantKnows(u)'
    BY <1>15, <2>1, RespondKnows DEF Claim
  <2>5. rows' = rows
    BY <1>15 DEF Claim
  <2>6. ASSUME NEW p \in Creators PROVE CreatorKnows(p)'
    BY <2>1, <2>5, RequestsApart DEF Alone, RowInv, CreatorKnows
  <2>7. ASSUME NEW v \in Visitors PROVE VisitorKnows(v)'
    BY <2>1, <2>5, RequestsApart DEF Alone, RowInv, VisitorKnows
  <2>8. ASSUME NEW w \in Claimants, w # u PROVE ClaimantKnows(w)'
    BY <2>1, <2>5, <2>8, RequestsApart DEF Alone, RowInv, ClaimantKnows
  <2> QED BY <2>3, <2>4, <2>6, <2>7, <2>8 DEF RowInv
<1>16. ASSUME NEW r \in Requests, Abort(r) PROVE RowInv'
  <2>1. r \in Requests /\ Alone(r)
    BY <1>16, StepAlone, RequestsApart
  <2>2. UNCHANGED pc \/ \E val : Respond(r, val)
    BY <1>16 DEF Abort
  <2>3. (r \in Creators => CreatorKnows(r)') /\ (r \in Visitors => VisitorKnows(r)')
        /\ (r \in Claimants => ClaimantKnows(r)')
    BY <1>16, <2>1, <2>2, RespondKnows
       DEF Abort, RowInv, CreatorKnows, VisitorKnows, ClaimantKnows
  <2> QED BY <1>16, <2>1, <2>3, RowFrame DEF Abort
<1>19. ASSUME NEW r \in Writers, SetReplyLost(r) PROVE RowInv'
  BY <1>19 DEF SetReplyLost, RowInv, CreatorKnows, VisitorKnows, ClaimantKnows
<1>20. ASSUME NEW r \in Charged, RollbackReplyLost(r) PROVE RowInv'
  BY <1>20 DEF RollbackReplyLost, RowInv, CreatorKnows, VisitorKnows, ClaimantKnows
<1>17. CASE Tick
  BY <1>17 DEF Tick, RowInv, CreatorKnows, VisitorKnows, ClaimantKnows, db
<1>18. CASE UNCHANGED vars
  BY <1>18 DEF vars, RowInv, CreatorKnows, VisitorKnows, ClaimantKnows
<1> QED BY <1>1, <1>2, <1>3, <1>4, <1>5, <1>6, <1>7, <1>8, <1>9, <1>10, <1>11, <1>12,
           <1>13, <1>14, <1>15, <1>16, <1>17, <1>18, <1>19, <1>20, Steps

-----------------------------------------------------------------------------
(* Links and cache entries *)

\* A link that is stored stays as it is.
LEMMA RowsAreKept ==
  ASSUME TypeOK, CodeInv, RowInv, [Next]_vars
  PROVE  /\ \A c \in Codes : rows[c] # NoRow => rows'[c] = rows[c]
         /\ \A c \in Codes : owner[c] # Nobody => owner'[c] = owner[c]
<1> USE DEF db, quota
<1>1. ASSUME NEW p \in Creators, Create(p)
      PROVE  /\ \A c \in Codes : rows[c] # NoRow => rows'[c] = rows[c]
             /\ \A c \in Codes : owner[c] # Nobody => owner'[c] = owner[c]
  <2>1. CASE UNCHANGED db
    BY <2>1
  <2>2. CASE rows[code[p]] = NoRow /\ Insert(p)
    BY <2>2 DEF Insert, TypeOK, RowInv
  <2> QED BY <1>1, <2>1, <2>2 DEF Create
<1>2. ASSUME NEW u \in Claimants, Claim(u)
      PROVE  /\ \A c \in Codes : rows[c] # NoRow => rows'[c] = rows[c]
             /\ \A c \in Codes : owner[c] # Nobody => owner'[c] = owner[c]
  BY <1>2 DEF Claim, TypeOK
<1>3. \/ UNCHANGED <<rows, owner>>
      \/ \E p \in Creators : Create(p)
      \/ \E u \in Claimants : Claim(u)
  BY Steps DEF CheckAlias, Reserve, ReserveReplyLost, RollbackReplyLost, Rollback, DrawCode, Prime,
     Lookup, Query, CheckExpiry, Fill, Store, SetReplyLost, FetchForClaim, Abort, Tick, vars
<1> QED BY <1>1, <1>2, <1>3

\* Only the end of Shorten answers 201, and the answer stays with its code.
LEMMA CreatedByStore ==
  ASSUME TypeOK, PlaceInv, NEW q \in Creators, answer'[q] = "created", [Next]_vars
  PROVE  (pc[q] = "store" \/ answer[q] = "created") /\ code'[q] = code[q]
<1> DEFINE Goal == (pc[q] = "store" \/ answer[q] = "created") /\ code'[q] = code[q]
<1> USE RequestsApart DEF TypeOK, PlaceInv, Goto, Respond, db, quota
<1>1. ASSUME NEW p \in Creators, CheckAlias(p) PROVE Goal
  BY <1>1, CheckAliasMoves DEF Alone
<1>2. ASSUME NEW p \in Creators, Reserve(p, "draw") PROVE Goal
  BY <1>2 DEF Reserve
<1>3. ASSUME NEW u \in Claimants, Reserve(u, "update") PROVE Goal
  BY <1>3 DEF Reserve
<1>4. ASSUME NEW r \in Charged, ReserveReplyLost(r) PROVE Goal
  <2>1. code' = code /\ (answer'[q] = answer[q] \/ answer'[q] = "error")
    BY <1>4 DEF ReserveReplyLost
  <2> QED BY <2>1
<1>5. ASSUME NEW r \in Charged, Rollback(r) PROVE Goal
  BY <1>5 DEF Rollback
<1>6. ASSUME NEW p \in Creators, DrawCode(p) PROVE Goal
  BY <1>6 DEF DrawCode
<1>7. ASSUME NEW p \in Creators, Create(p) PROVE Goal
  <2>1. code' = code /\ (answer'[q] = answer[q] \/ answer'[q] = "error")
    BY <1>7 DEF Create
  <2> QED BY <2>1
<1>8. ASSUME NEW p \in Creators, Prime(p) PROVE Goal
  BY <1>8 DEF Prime
<1>9. ASSUME NEW v \in Visitors, NEW c \in Codes, Lookup(v, c) PROVE Goal
  BY <1>9, StepAlone DEF Alone
<1>10. ASSUME NEW v \in Visitors, Query(v) PROVE Goal
  BY <1>10 DEF Query
<1>11. ASSUME NEW v \in Visitors, CheckExpiry(v) PROVE Goal
  BY <1>11 DEF CheckExpiry
<1>12. ASSUME NEW r \in Writers, Store(r) PROVE Goal
  <2>1. q # r => answer'[q] = answer[q]
    BY <1>12 DEF Store
  <2>2. q = r => pc[q] = "store"
    BY <1>12 DEF Store, SetPlaces, CreatorPlaces
  <2> QED BY <1>12, <2>1, <2>2 DEF Store
<1>13. ASSUME NEW v \in Visitors, Fill(v) PROVE Goal
  BY <1>13 DEF Fill
<1>14. ASSUME NEW u \in Claimants, NEW c \in Codes, FetchForClaim(u, c) PROVE Goal
  BY <1>14, StepAlone DEF Alone
<1>15. ASSUME NEW u \in Claimants, Claim(u) PROVE Goal
  BY <1>15 DEF Claim
<1>16. ASSUME NEW r \in Requests, Abort(r) PROVE Goal
  BY <1>16 DEF Abort
<1>19. ASSUME NEW r \in Writers, SetReplyLost(r) PROVE Goal
  BY <1>19 DEF SetReplyLost
<1>20. ASSUME NEW r \in Charged, RollbackReplyLost(r) PROVE Goal
  BY <1>20 DEF RollbackReplyLost
<1>17. CASE Tick
  BY <1>17 DEF Tick
<1>18. CASE UNCHANGED vars
  BY <1>18 DEF vars
<1> QED BY <1>1, <1>2, <1>3, <1>4, <1>5, <1>6, <1>7, <1>8, <1>9, <1>10, <1>11, <1>12,
           <1>13, <1>14, <1>15, <1>16, <1>17, <1>18, <1>19, <1>20, Steps

LEMMA CreatedNext ==
  ASSUME TypeOK, CodeInv, RowInv, PlaceInv, CreatedLinkIsStored, [Next]_vars
  PROVE  CreatedLinkIsStored'
<1> SUFFICES ASSUME NEW p \in Creators, answer'[p] = "created" PROVE rows'[code'[p]] = p
  BY DEF CreatedLinkIsStored
<1>1. CASE pc[p] = "store" /\ code'[p] = code[p]
  BY <1>1, RowsAreKept, ValueAssumption DEF RowInv, CreatorKnows, CodeInv
<1>2. CASE answer[p] = "created" /\ code'[p] = code[p]
  BY <1>2, RowsAreKept, ValueAssumption DEF CreatedLinkIsStored, CodeInv
<1> QED BY <1>1, <1>2, CreatedByStore

\* Where a visitor's redirect comes from.
LEMMA RedirectComesFromTable ==
  ASSUME TypeOK, PlaceInv, CodeInv, RowInv, CacheAgreesWithTable,
         NEW w \in Visitors, answer'[w] \in Creators, [Next]_vars
  PROVE  \/ answer'[w] = answer[w] /\ code'[w] = code[w]
         \/ code'[w] \in Codes /\ answer'[w] = rows[code'[w]]
<1> DEFINE Goal == \/ answer'[w] = answer[w] /\ code'[w] = code[w]
                   \/ code'[w] \in Codes /\ answer'[w] = rows[code'[w]]
<1>a. ASSUME NEW r \in Charged, Alone(r) PROVE Goal
  BY <1>a, RequestsApart, RequestAssumption DEF Alone, Charged
<1>b. ASSUME NEW v \in Visitors \ {w}, Alone(v) PROVE Goal
  BY <1>b, RequestsApart DEF Alone
<1> USE RequestsApart, ResponseAssumption DEF TypeOK, PlaceInv, Goto, Respond, Outcomes, db, quota
<1>1. ASSUME NEW p \in Creators, CheckAlias(p) PROVE Goal
  BY <1>1, <1>a, StepAlone
<1>2. ASSUME NEW p \in Creators, Reserve(p, "draw") PROVE Goal
  BY <1>2, <1>a, StepAlone
<1>3. ASSUME NEW u \in Claimants, Reserve(u, "update") PROVE Goal
  BY <1>3, <1>a, StepAlone
<1>4. ASSUME NEW r \in Charged, ReserveReplyLost(r) PROVE Goal
  BY <1>4, <1>a, StepAlone
<1>5. ASSUME NEW r \in Charged, Rollback(r) PROVE Goal
  BY <1>5, <1>a, StepAlone
<1>6. ASSUME NEW p \in Creators, DrawCode(p) PROVE Goal
  BY <1>6, <1>a, StepAlone
<1>7. ASSUME NEW p \in Creators, Create(p) PROVE Goal
  BY <1>7, <1>a, StepAlone
<1>8. ASSUME NEW p \in Creators, Prime(p) PROVE Goal
  BY <1>8, <1>a, StepAlone
<1>9. ASSUME NEW v \in Visitors, NEW c \in Codes, Lookup(v, c) PROVE Goal
  <2>1. CASE w # v
    BY <1>9, <2>1, <1>b, StepAlone
  <2>2. CASE w = v
    <3>1. code'[v] = c
      BY <1>9 DEF Lookup
    <3>2. \/ answer'[v] \in {"not found", "none"}
          \/ cache[c].val \in Creators /\ answer'[v] = cache[c].val
      BY <1>9 DEF Lookup
    <3> QED BY <2>2, <3>1, <3>2 DEF CacheAgreesWithTable
  <2> QED BY <2>1, <2>2
<1>10. ASSUME NEW v \in Visitors, Query(v) PROVE Goal
  BY <1>10 DEF Query
<1>11. ASSUME NEW v \in Visitors, CheckExpiry(v) PROVE Goal
  BY <1>11 DEF CheckExpiry
<1>12. ASSUME NEW r \in Writers, Store(r) PROVE Goal
  <2>1. CASE r # w
    BY <1>12, <2>1 DEF Store
  <2>2. CASE r = w
    <3>1. /\ code[w] \in Codes /\ code' = code /\ answer'[w] = Reply(w)
          /\ pc[w] = "store" => LinkOf(w) = rows[code[w]]
      BY <1>12, <2>2, SetFinds DEF Store
    <3>2. Reply(w) \in {"expired", "not found"} \/ (pc[w] = "store" /\ Reply(w) = LinkOf(w))
      BY <1>12, <2>2 DEF Store, SetPlaces, Reply
    <3> QED BY <3>1, <3>2
  <2> QED BY <2>1, <2>2
<1>13. ASSUME NEW v \in Visitors, Fill(v) PROVE Goal
  BY <1>13 DEF Fill
<1>14. ASSUME NEW u \in Claimants, NEW c \in Codes, FetchForClaim(u, c) PROVE Goal
  BY <1>14, <1>a, StepAlone
<1>15. ASSUME NEW u \in Claimants, Claim(u) PROVE Goal
  BY <1>15, <1>a, StepAlone
<1>16. ASSUME NEW r \in Requests, Abort(r) PROVE Goal
  BY <1>16 DEF Abort
<1>19. ASSUME NEW r \in Writers, SetReplyLost(r) PROVE Goal
  BY <1>19 DEF SetReplyLost
<1>20. ASSUME NEW r \in Charged, RollbackReplyLost(r) PROVE Goal
  BY <1>20, <1>a, StepAlone
<1>17. CASE Tick
  BY <1>17 DEF Tick
<1>18. CASE UNCHANGED vars
  BY <1>18 DEF vars
<1> QED BY <1>1, <1>2, <1>3, <1>4, <1>5, <1>6, <1>7, <1>8, <1>9, <1>10, <1>11, <1>12,
           <1>13, <1>14, <1>15, <1>16, <1>17, <1>18, <1>19, <1>20, Steps

LEMMA RedirectsNext ==
  ASSUME TypeOK, PlaceInv, CodeInv, RowInv, CacheAgreesWithTable, RedirectsAgreeWithTable,
         [Next]_vars
  PROVE  RedirectsAgreeWithTable'
<1> SUFFICES ASSUME NEW v \in Visitors, answer'[v] \in Creators
             PROVE  answer'[v] = rows'[code'[v]]
  BY DEF RedirectsAgreeWithTable
<1>1. code'[v] \in Codes /\ answer'[v] = rows[code'[v]]
  BY RedirectComesFromTable DEF RedirectsAgreeWithTable, CodeInv
<1> QED BY <1>1, RowsAreKept, ValueAssumption

\* What a write to the cache may leave in it: a 404 marker, or the link that
\* has the code, with the TTL and the delay of a request that stores it.
Written(c) ==
  \/ cache'[c].val = NotFound /\ cache'[c].ttl = NotFoundTTL
  \/ \E r \in Writers :
       /\ pc[r] = "store" /\ LinkOf(r) = rows[c]
       /\ rows[c] \in Creators /\ cache'[c].val = rows[c]
       /\ \/ cache'[c].ttl = Never
          \/ ttl[r] > 0 /\ cache'[c].ttl = ttl[r] /\ cache'[c].late = delay[r]

LEMMA SetWrites ==
  ASSUME TypeOK, PlaceInv, CodeInv, RowInv, NEW r \in Writers, pc[r] \in SetPlaces, Set(r),
         NEW c \in Codes
  PROVE  cache'[c] = cache[c] \/ Written(c)
<1>1. code[r] \in Codes /\ cache \in [Codes -> Entries] /\ ttl[r] \in Int
  BY SetFinds DEF TypeOK
<1>2. CASE c # code[r]
  <2>1. ASSUME NEW val, NEW t, NEW late, CacheSet(code[r], val, t, late)
        PROVE  cache'[c] = cache[c]
    BY <1>1, <1>2, <2>1 DEF CacheSet
  <2> QED BY <2>1 DEF Set
<1>3. CASE c = code[r] /\ pc[r] = "store"
  <2>1. CacheSet(c, LinkOf(r), ttl[r], delay[r])
    BY <1>3 DEF Set
  <2>2. cache'[c] = [val |-> LinkOf(r), ttl |-> IF ttl[r] <= 0 THEN Never ELSE ttl[r],
                     late |-> delay[r]]
    BY <1>1, <2>1 DEF CacheSet
  <2>3. LinkOf(r) \in Creators /\ LinkOf(r) = rows[c]
    BY <1>3, SetFinds
  <2>4. /\ cache'[c].val = LinkOf(r) /\ cache'[c].late = delay[r]
        /\ cache'[c].ttl = IF ttl[r] <= 0 THEN Never ELSE ttl[r]
    BY <2>2
  <2> QED BY <1>1, <1>3, <2>3, <2>4 DEF Written
<1>4. CASE c = code[r] /\ pc[r] # "store"
  <2>1. CacheSet(c, NotFound, NotFoundTTL, 0)
    BY <1>4 DEF Set
  <2>2. NotFoundTTL \in Nat \ {0}
    BY TimeAssumption
  <2> QED BY <1>1, <2>1, <2>2 DEF CacheSet, Written
<1> QED BY <1>2, <1>3, <1>4

LEMMA CacheIsWritten ==
  ASSUME TypeOK, PlaceInv, CodeInv, RowInv, [Next]_vars, ~Tick, NEW c \in Codes
  PROVE  cache'[c] = cache[c] \/ Written(c)
<1>1. ASSUME NEW r \in Writers, Store(r) PROVE cache'[c] = cache[c] \/ Written(c)
  BY <1>1, SetWrites DEF Store
<1>2. ASSUME NEW r \in Writers, SetReplyLost(r) PROVE cache'[c] = cache[c] \/ Written(c)
  BY <1>2, SetWrites DEF SetReplyLost
<1>3. \/ cache' = cache
      \/ \E r \in Writers : Store(r) \/ SetReplyLost(r)
  BY Steps DEF CheckAlias, Reserve, ReserveReplyLost, RollbackReplyLost, Rollback, DrawCode,
     Create, Prime, Lookup, Query, CheckExpiry, Fill, FetchForClaim, Claim, Abort, vars
<1> QED BY <1>1, <1>2, <1>3

LEMMA AgeType ==
  /\ \A t \in Int : Age(t) = t - 1
  /\ Age(Never) = Never /\ Age(Never) \notin {0, -1}
BY TimeAssumption DEF Age

\* Time empties an entry or leaves what it says.
LEMMA CacheAges ==
  ASSUME TypeOK, EntryInv, Tick, NEW c \in Codes, cache[c].val # Absent
  PROVE  \/ cache'[c] = Empty
         \/ /\ cache'[c].val = cache[c].val /\ cache'[c].late = cache[c].late
            /\ \/ cache[c].ttl = Never /\ cache'[c].ttl = Never
               \/ /\ cache[c].ttl \in Nat \ {0}
                  /\ cache'[c].ttl \in Nat \ {0} /\ cache'[c].ttl = cache[c].ttl - 1
<1>1. cache'[c] = IF Age(cache[c].ttl) \in {0, -1} THEN Empty
                  ELSE [cache[c] EXCEPT !.ttl = Age(@)]
  BY DEF Tick
<1>2. cache[c] \in Entries
  BY DEF TypeOK
<1>3. CASE cache[c].ttl = Never
  BY <1>1, <1>2, <1>3, AgeType DEF Entries
<1>4. CASE cache[c].ttl \in Int /\ Age(cache[c].ttl) \in {0, -1}
  BY <1>1, <1>4
<1>5. CASE cache[c].ttl \in Int /\ Age(cache[c].ttl) \notin {0, -1}
  <2>1. /\ cache'[c].val = cache[c].val /\ cache'[c].late = cache[c].late
        /\ cache'[c].ttl = cache[c].ttl - 1
    BY <1>1, <1>2, <1>5, AgeType DEF Entries
  <2>2. cache[c].ttl \in Nat \ {0}
    BY <1>5, TimeAssumption DEF EntryInv
  <2>3. cache[c].ttl - 1 \in Nat \ {0}
    BY <1>5, <2>2, AgeType
  <2> QED BY <2>1, <2>2, <2>3
<1> QED BY <1>2, <1>3, <1>4, <1>5 DEF Entries

LEMMA EntryNext ==
  ASSUME TypeOK, PlaceInv, CodeInv, RowInv, EntryInv, [Next]_vars
  PROVE  EntryInv'
<1> SUFFICES ASSUME NEW c \in Codes, cache'[c].val # Absent
             PROVE  cache'[c].ttl = Never \/ cache'[c].ttl \in Nat \ {0}
  BY DEF EntryInv
<1>1. CASE Tick
  <2>1. cache[c].val # Absent
    BY <1>1 DEF Tick, Empty, TypeOK, Entries
  <2> QED BY <1>1, <2>1, CacheAges DEF Empty
<1>2. CASE ~Tick
  <2>1. CASE cache'[c] = cache[c]
    BY <2>1 DEF EntryInv
  <2>2. CASE Written(c)
    <3>1. \A r \in Writers : ttl[r] \in Int
      BY RequestsApart DEF Writers, TypeOK
    <3> QED BY <2>2, <3>1, TimeAssumption DEF Written
  <2> QED BY <1>2, <2>1, <2>2, CacheIsWritten
<1> QED BY <1>1, <1>2

LEMMA CacheAgreesNext ==
  ASSUME TypeOK, PlaceInv, CodeInv, RowInv, EntryInv, CacheAgreesWithTable, [Next]_vars
  PROVE  CacheAgreesWithTable'
<1> SUFFICES ASSUME NEW c \in Codes, cache'[c].val \in Creators
             PROVE  cache'[c].val = rows'[c]
  BY DEF CacheAgreesWithTable
<1>1. cache'[c].val = rows[c]
  <2>1. CASE Tick
    <3>1. cache[c].val # Absent
      BY <2>1, ValueAssumption DEF Tick, Empty, TypeOK, Entries
    <3>2. cache'[c].val = cache[c].val
      BY <2>1, <3>1, CacheAges, ValueAssumption DEF Empty
    <3> QED BY <3>2 DEF CacheAgreesWithTable
  <2>2. CASE ~Tick
    BY <2>2, CacheIsWritten, ValueAssumption DEF Written, CacheAgreesWithTable
  <2> QED BY <2>1, <2>2
<1> QED BY <1>1, RowsAreKept, ValueAssumption

\* The clock of a link that is stored is not set again.
LEMMA LeftIsKept ==
  ASSUME TypeOK, RowInv, [Next]_vars, ~Tick, NEW c \in Codes, NEW p \in Creators, rows[c] = p
  PROVE  left'[p] = left[p]
<1>1. ASSUME NEW q \in Creators, DrawCode(q) PROVE left'[p] = left[p]
  <2>1. p # q
    BY <1>1 DEF DrawCode, RowInv, CreatorKnows
  <2> QED BY <1>1, <2>1 DEF DrawCode, TypeOK
<1>2. UNCHANGED left \/ \E q \in Creators : DrawCode(q)
  BY Steps DEF CheckAlias, Reserve, ReserveReplyLost, RollbackReplyLost, Rollback, Create, Prime,
     Lookup, Query, CheckExpiry, Fill, Store, SetReplyLost, FetchForClaim, Claim, Abort, vars
<1> QED BY <1>1, <1>2

LEMMA ClockTicks ==
  ASSUME TypeOK, Tick, NEW p \in Creators, left'[p] # Never
  PROVE  /\ left[p] \in Int /\ left[p] # Never
         /\ ~Expired(p) => left'[p] = left[p] - 1
         /\ Expired(p) => left'[p] = left[p]
<1>1. left'[p] = IF Expired(p) THEN left[p] ELSE Age(left[p])
  BY DEF Tick
<1>2. left[p] # Never /\ left[p] \in Int
  BY <1>1, AgeType DEF TypeOK
<1> QED BY <1>1, <1>2, AgeType

\* Who is at the SET after a step was there before, or has just read the clock.
LEMMA StoreMoves ==
  ASSUME TypeOK, PlaceInv, [Next]_vars, ~Tick, NEW r \in Writers, pc'[r] = "store"
  PROVE  \/ r \in Creators /\ Prime(r)
         \/ r \in Visitors /\ Fill(r)
         \/ /\ pc[r] = "store" /\ code'[r] = code[r]
            /\ ttl'[r] = ttl[r] /\ delay'[r] = delay[r]
<1> DEFINE Kept == /\ pc[r] = "store" /\ code'[r] = code[r]
                   /\ ttl'[r] = ttl[r] /\ delay'[r] = delay[r]
           Goal == (r \in Creators /\ Prime(r)) \/ (r \in Visitors /\ Fill(r)) \/ Kept
<1>a. r \in Requests
  BY RequestsApart DEF Writers
<1>b. ASSUME NEW s \in Requests, Alone(s), s # r PROVE Goal
  BY <1>a, <1>b DEF Alone
<1>c. ASSUME Respond(r, answer'[r]) PROVE FALSE
  BY <1>a, <1>c DEF Respond, TypeOK
<1>d. ASSUME NEW s \in Requests, NEW to, Goto(s, to), Alone(s), to # "store" PROVE Goal
  BY <1>a, <1>b, <1>d DEF Goto, TypeOK
<1>e. ASSUME NEW s \in Requests, NEW val, Respond(s, val), Alone(s) PROVE Goal
  BY <1>a, <1>b, <1>e DEF Respond, TypeOK
<1> USE RequestsApart DEF Writers
<1>1. ASSUME NEW p \in Creators, CheckAlias(p) PROVE Goal
  BY <1>1, <1>d, <1>e, StepAlone DEF CheckAlias
<1>2. ASSUME NEW p \in Creators, Reserve(p, "draw") PROVE Goal
  BY <1>2, <1>d, StepAlone DEF Reserve
<1>3. ASSUME NEW u \in Claimants, Reserve(u, "update") PROVE Goal
  BY <1>3, <1>d, StepAlone DEF Reserve
<1>4. ASSUME NEW q \in Charged, ReserveReplyLost(q) PROVE Goal
  BY <1>4, <1>e, StepAlone DEF ReserveReplyLost, lease
<1>5. ASSUME NEW q \in Charged, Rollback(q) PROVE Goal
  BY <1>5, <1>e, StepAlone DEF Rollback
<1>6. ASSUME NEW p \in Creators, DrawCode(p) PROVE Goal
  BY <1>6, <1>d, StepAlone DEF DrawCode
<1>7. ASSUME NEW p \in Creators, Create(p) PROVE Goal
  BY <1>7, <1>d, <1>e, StepAlone DEF Create
<1>8. ASSUME NEW p \in Creators, Prime(p) PROVE Goal
  BY <1>8, <1>b, StepAlone
<1>9. ASSUME NEW v \in Visitors, NEW c \in Codes, Lookup(v, c) PROVE Goal
  <2>1. pc'[v] # "store"
    BY <1>9 DEF Lookup, Respond, TypeOK
  <2> QED BY <1>9, <2>1, <1>b, StepAlone
<1>10. ASSUME NEW v \in Visitors, Query(v) PROVE Goal
  BY <1>10, <1>d, StepAlone DEF Query
<1>11. ASSUME NEW v \in Visitors, CheckExpiry(v) PROVE Goal
  BY <1>11, <1>d, StepAlone DEF CheckExpiry
<1>12. ASSUME NEW s \in Writers, Store(s) PROVE Goal
  BY <1>12, <1>e, StepAlone DEF Store
<1>13. ASSUME NEW v \in Visitors, Fill(v) PROVE Goal
  BY <1>13, <1>b, StepAlone
<1>14. ASSUME NEW u \in Claimants, NEW c \in Codes, FetchForClaim(u, c) PROVE Goal
  BY <1>14, <1>b, StepAlone
<1>15. ASSUME NEW u \in Claimants, Claim(u) PROVE Goal
  BY <1>15, <1>e, StepAlone DEF Claim
<1>16. ASSUME NEW s \in Requests, Abort(s) PROVE Goal
  BY <1>16, <1>e, StepAlone DEF Abort
<1>18. CASE UNCHANGED vars
  BY <1>18 DEF vars
<1>19. ASSUME NEW s \in Writers, SetReplyLost(s) PROVE Goal
  BY <1>19 DEF SetReplyLost, lease
<1>20. ASSUME NEW q \in Charged, RollbackReplyLost(q) PROVE Goal
  BY <1>20 DEF RollbackReplyLost, lease
<1> QED BY <1>1, <1>2, <1>3, <1>4, <1>5, <1>6, <1>7, <1>8, <1>9, <1>10, <1>11, <1>12,
           <1>13, <1>14, <1>15, <1>16, <1>18, <1>19, <1>20, Steps

LEMMA StoreNext ==
  ASSUME TypeOK, PlaceInv, CodeInv, RowInv, StoreInv, [Next]_vars
  PROVE  StoreInv'
<1> SUFFICES ASSUME NEW r \in Writers, pc'[r] = "store", left'[LinkOf(r)'] # Never
             PROVE  ttl'[r] <= left'[LinkOf(r)'] + delay'[r]
  BY DEF StoreInv
<1>a. r \in Requests /\ delay[r] \in Nat
  BY RequestsApart DEF Writers, TypeOK
<1>1. CASE Tick
  <2>1. /\ pc[r] = "store" /\ LinkOf(r)' = LinkOf(r) /\ ttl' = ttl
        /\ delay'[r] = delay[r] + IF Waiting(r) THEN 1 ELSE 0
    BY <1>1, <1>a DEF Tick, db, LinkOf
  <2>2. LinkOf(r) \in Creators
    BY <2>1, SetFinds DEF SetPlaces
  <2>3. left[LinkOf(r)] # Never /\ left[LinkOf(r)] \in Int
    BY <1>1, <2>1, <2>2, ClockTicks
  <2>4. ttl[r] <= left[LinkOf(r)] + delay[r] /\ ttl[r] \in Int
    BY <1>a, <2>1, <2>3 DEF StoreInv, TypeOK
  <2>5. CASE Expired(LinkOf(r))
    BY <1>1, <1>a, <2>1, <2>2, <2>4, <2>5, ClockTicks DEF Waiting
  <2>6. CASE ~Expired(LinkOf(r))
    <3>1. left'[LinkOf(r)] = left[LinkOf(r)] - 1
      BY <1>1, <2>1, <2>2, <2>6, ClockTicks
    <3>2. delay'[r] = delay[r] + 1
      BY <2>1, <2>3, <2>6 DEF Waiting
    <3> QED BY <1>a, <2>1, <2>3, <2>4, <3>1, <3>2
  <2> QED BY <2>5, <2>6
<1>2. CASE ~Tick /\ r \in Creators /\ Prime(r)
  BY <1>2, <1>a DEF Prime, TakeTTL, LinkOf, TypeOK
<1>3. CASE ~Tick /\ r \in Visitors /\ Fill(r)
  <2>1. rows[code[r]] \in Creators
    BY <1>3 DEF Fill, CodeInv, RowInv, VisitorKnows, TypeOK
  <2>2. LinkOf(r)' = rows[code[r]]
    BY <1>3, RequestsApart DEF Fill, LinkOf
  <2> QED BY <1>3, <1>a, <2>1, <2>2 DEF Fill, TakeTTL, TypeOK
<1>4. CASE /\ ~Tick /\ pc[r] = "store" /\ code'[r] = code[r]
           /\ ttl'[r] = ttl[r] /\ delay'[r] = delay[r]
  <2>1. code[r] \in Codes /\ LinkOf(r) \in Creators /\ LinkOf(r) = rows[code[r]]
    BY <1>4, SetFinds DEF SetPlaces
  <2>2. rows'[code[r]] = rows[code[r]]
    BY <2>1, RowsAreKept, ValueAssumption
  <2>3. LinkOf(r)' = LinkOf(r)
    BY <1>4, <2>2 DEF LinkOf
  <2>4. left'[LinkOf(r)] = left[LinkOf(r)]
    BY <1>4, <2>1, LeftIsKept
  <2> QED BY <1>4, <2>3, <2>4 DEF StoreInv
<1> QED BY <1>1, <1>2, <1>3, <1>4, StoreMoves

LEMMA DelayNext ==
  ASSUME TypeOK, PlaceInv, CodeInv, RowInv, EntryInv, CacheAgreesWithTable, StoreInv,
         EntryWithinDelay, [Next]_vars
  PROVE  EntryWithinDelay'
<1> SUFFICES ASSUME NEW c \in Codes, NEW p \in Creators,
                    cache'[c].val = p, cache'[c].ttl # Never, left'[p] # Never
             PROVE  cache'[c].ttl <= left'[p] + cache'[c].late
  BY DEF EntryWithinDelay
<1>1. CASE Tick
  <2>1. cache[c].val # Absent
    BY <1>1, ValueAssumption DEF Tick, Empty, TypeOK, Entries
  <2>2. /\ cache[c].val = p /\ cache[c].ttl \in Nat \ {0}
        /\ cache'[c].ttl = cache[c].ttl - 1 /\ cache'[c].late = cache[c].late
    BY <1>1, <2>1, CacheAges, ValueAssumption DEF Empty
  <2>3. /\ left[p] \in Int /\ left[p] # Never
        /\ left'[p] = left[p] - 1 \/ left'[p] = left[p]
    BY <1>1, ClockTicks
  <2>4. cache[c].late \in Nat
    BY DEF TypeOK, Entries
  <2>5. cache[c].ttl <= left[p] + cache[c].late
    BY <2>2, <2>3, TimeAssumption DEF EntryWithinDelay
  <2> QED BY <2>2, <2>3, <2>4, <2>5
<1>2. CASE ~Tick
  <2>1. rows[c] = p
    BY <1>2, CacheIsWritten, ValueAssumption DEF Written, CacheAgreesWithTable
  <2>2. left'[p] = left[p]
    BY <1>2, <2>1, LeftIsKept
  <2>3. CASE cache'[c] = cache[c]
    BY <2>2, <2>3 DEF EntryWithinDelay
  <2>4. CASE Written(c)
    <3>1. PICK r \in Writers : /\ pc[r] = "store" /\ LinkOf(r) = p
                               /\ cache'[c].ttl = ttl[r] /\ cache'[c].late = delay[r]
      BY <2>1, <2>4, ValueAssumption DEF Written
    <3> QED BY <2>2, <3>1 DEF StoreInv
  <2> QED BY <1>2, <2>3, <2>4, CacheIsWritten
<1> QED BY <1>1, <1>2

-----------------------------------------------------------------------------
(* The quota *)

LEMMA Counts ==
  ASSUME NEW k
  PROVE  /\ Cardinality(RollingBack(k)) \in Nat
         /\ Cardinality(Reserved(k)) \in Nat
         /\ Cardinality(LinksOf(k)) \in Nat
BY AtFinite, LinksFinite DEF RollingBack, Reserved

\* What a move of r changes in the counts of key k.
LEMMA MoveCounts ==
  ASSUME NEW r \in Charged, NEW to, pc'[r] = to, \A s \in Charged \ {r} : pc'[s] = pc[s],
         NEW k
  PROVE  /\ Key[r] # k => RollingBack(k)' = RollingBack(k) /\ Reserved(k)' = Reserved(k)
         /\ Key[r] = k =>
              /\ to = "rollback" /\ pc[r] # "rollback"
                   => Cardinality(RollingBack(k)') = Cardinality(RollingBack(k)) + 1
              /\ to # "rollback" /\ pc[r] = "rollback"
                   => Cardinality(RollingBack(k)) = Cardinality(RollingBack(k)') + 1
              /\ (to = "rollback" <=> pc[r] = "rollback") => RollingBack(k)' = RollingBack(k)
              /\ to \in Holding /\ pc[r] \notin Holding
                   => Cardinality(Reserved(k)') = Cardinality(Reserved(k)) + 1
              /\ to \notin Holding /\ pc[r] \in Holding
                   => Cardinality(Reserved(k)) = Cardinality(Reserved(k)') + 1
              /\ (to \in Holding <=> pc[r] \in Holding) => Reserved(k)' = Reserved(k)
         /\ Cardinality(RollingBack(k)') \in Nat
         /\ Cardinality(Reserved(k)') \in Nat
<1> DEFINE back == {"rollback"}
<1>1. /\ RollingBack(k)' = At(pc', back, k) /\ RollingBack(k) = At(pc, back, k)
      /\ Reserved(k)' = At(pc', Holding, k) /\ Reserved(k) = At(pc, Holding, k)
  BY DEF RollingBack, Reserved, At, Holding
<1>2. \A x : x \in back <=> x = "rollback"
  OBVIOUS
<1> HIDE DEF back
<1>3. ASSUME NEW P
      PROVE  /\ Key[r] = k /\ to \in P /\ pc[r] \notin P
                  => Cardinality(At(pc', P, k)) = Cardinality(At(pc, P, k)) + 1
             /\ Key[r] = k /\ to \notin P /\ pc[r] \in P
                  => Cardinality(At(pc, P, k)) = Cardinality(At(pc', P, k)) + 1
             /\ Key[r] # k \/ (to \in P <=> pc[r] \in P) => At(pc', P, k) = At(pc, P, k)
             /\ Cardinality(At(pc', P, k)) \in Nat
  BY AtMoves, AtFinite
<1>4. /\ Key[r] # k => RollingBack(k)' = RollingBack(k) /\ Reserved(k)' = Reserved(k)
      /\ Cardinality(RollingBack(k)') \in Nat /\ Cardinality(Reserved(k)') \in Nat
  BY <1>1, <1>3
<1>5. ASSUME Key[r] = k
      PROVE  /\ to = "rollback" /\ pc[r] # "rollback"
                  => Cardinality(RollingBack(k)') = Cardinality(RollingBack(k)) + 1
             /\ to # "rollback" /\ pc[r] = "rollback"
                  => Cardinality(RollingBack(k)) = Cardinality(RollingBack(k)') + 1
             /\ (to = "rollback" <=> pc[r] = "rollback") => RollingBack(k)' = RollingBack(k)
  BY <1>1, <1>2, <1>3, <1>5
<1>6. ASSUME Key[r] = k
      PROVE  /\ to \in Holding /\ pc[r] \notin Holding
                  => Cardinality(Reserved(k)') = Cardinality(Reserved(k)) + 1
             /\ to \notin Holding /\ pc[r] \in Holding
                  => Cardinality(Reserved(k)) = Cardinality(Reserved(k)') + 1
             /\ (to \in Holding <=> pc[r] \in Holding) => Reserved(k)' = Reserved(k)
  BY <1>1, <1>3, <1>6
<1> QED BY <1>4, <1>5, <1>6

\* A step that gives up a reservation or holds none leaves the quota alone.
LEMMA QuotaFrame ==
  ASSUME TypeOK, QuotaInv, NEW r \in Requests, NEW to, pc' = [pc EXCEPT ![r] = to],
         to \in Holding => pc[r] \in Holding,
         to # "rollback", UNCHANGED <<owner, used, granted, repeated>>
  PROVE  QuotaInv'
<1> SUFFICES ASSUME NEW k \in Keys PROVE QuotaOf(k)'
  BY DEF QuotaInv
<1>1. LinksOf(k)' = LinksOf(k)
  BY DEF LinksOf
<1>2. QuotaOf(k) /\ granted[k] \in Nat /\ used[k] \in Int /\ Limit[k] \in Nat
      /\ repeated[k] \in Nat
  BY KeyAssumption DEF QuotaInv, TypeOK
<1>3. CASE r \in Visitors
  <2>1. RollingBack(k)' = RollingBack(k) /\ Reserved(k)' = Reserved(k)
    <3>1. \A s \in Charged : pc'[s] = pc[s]
      BY <1>3, RequestsApart DEF TypeOK, Charged
    <3> QED BY <3>1 DEF RollingBack, Reserved, At
  <2> QED BY <1>1, <1>2, <2>1 DEF QuotaOf
<1>4. CASE r \in Charged
  <2>a. pc'[r] = to /\ \A s \in Charged \ {r} : pc'[s] = pc[s]
    BY <1>4, RequestsApart DEF TypeOK
  <2>1. /\ Cardinality(RollingBack(k)') <= Cardinality(RollingBack(k))
        /\ Cardinality(Reserved(k)') <= Cardinality(Reserved(k))
        /\ Cardinality(RollingBack(k)') \in Nat /\ Cardinality(Reserved(k)') \in Nat
    BY <1>4, <2>a, MoveCounts, Counts DEF Holding
  <2> QED BY <1>1, <1>2, <2>1, Counts DEF QuotaOf
<1> QED BY <1>3, <1>4 DEF Requests, Charged

LEMMA GrantNext ==
  ASSUME TypeOK, QuotaInv, NEW r \in Charged, NEW to, pc[r] = "reserve",
         pc' = [pc EXCEPT ![r] = to], UNCHANGED <<owner, repeated>>,
         used' = [used EXCEPT ![Key[r]] = @ + 1],
         granted' = IF used[Key[r]] + 1 <= Limit[Key[r]]
                      THEN [granted EXCEPT ![Key[r]] = @ + 1] ELSE granted,
         to \in {"draw", "update"} => used[Key[r]] + 1 <= Limit[Key[r]],
         to = "rollback" => ~(used[Key[r]] + 1 <= Limit[Key[r]]),
         to # "create"
  PROVE  QuotaInv'
<1> SUFFICES ASSUME NEW k \in Keys PROVE QuotaOf(k)'
  BY DEF QuotaInv
<1>a. pc'[r] = to /\ \A s \in Charged \ {r} : pc'[s] = pc[s]
  BY RequestsApart DEF TypeOK
<1>1. LinksOf(k)' = LinksOf(k)
  BY DEF LinksOf
<1>2. QuotaOf(k) /\ granted[k] \in Nat /\ used[k] \in Int /\ Limit[k] \in Nat
      /\ repeated[k] \in Nat
  BY KeyAssumption DEF QuotaInv, TypeOK
<1>3. /\ Cardinality(RollingBack(k)') =
           Cardinality(RollingBack(k)) + (IF Key[r] = k /\ to = "rollback" THEN 1 ELSE 0)
      /\ Cardinality(Reserved(k)') =
           Cardinality(Reserved(k)) + (IF Key[r] = k /\ to \in {"draw", "update"} THEN 1 ELSE 0)
  BY <1>a, MoveCounts, Counts DEF Holding
<1>4. CASE k # Key[r]
  <2>1. used'[k] = used[k] /\ granted'[k] = granted[k]
    BY <1>4 DEF TypeOK
  <2> QED BY <1>1, <1>2, <1>3, <1>4, <2>1, Counts DEF QuotaOf
<1>5. CASE k = Key[r] /\ used[k] + 1 <= Limit[k]
  <2>1. used'[k] = used[k] + 1 /\ granted'[k] = granted[k] + 1
    BY <1>5 DEF TypeOK
  <2>2. granted[k] <= used[k] + repeated[k]
    BY <1>2, Counts DEF QuotaOf
  <2>3. to # "rollback"
    BY <1>5
  <2> QED BY <1>1, <1>2, <1>3, <1>5, <2>1, <2>2, <2>3, Counts DEF QuotaOf
<1>6. CASE k = Key[r] /\ ~(used[k] + 1 <= Limit[k])
  <2>1. used'[k] = used[k] + 1 /\ granted'[k] = granted[k]
    BY <1>6 DEF TypeOK
  <2>2. granted[k] >= Limit[k]
    BY <1>2, <1>6 DEF QuotaOf
  <2> QED BY <1>1, <1>2, <1>3, <1>6, <2>1, <2>2, Counts DEF QuotaOf
<1> QED BY <1>4, <1>5, <1>6

LEMMA RollbackNext ==
  ASSUME TypeOK, QuotaInv, NEW r \in Charged, Rollback(r)
  PROVE  QuotaInv'
<1> SUFFICES ASSUME NEW k \in Keys PROVE QuotaOf(k)'
  BY DEF QuotaInv
<1>a. pc[r] = "rollback" /\ pc'[r] = "done" 
      /\ \A s \in Charged \ {r} : pc'[s] = pc[s]
  BY RequestsApart DEF Rollback, Respond, TypeOK
<1>1. LinksOf(k)' = LinksOf(k) /\ granted' = granted /\ repeated' = repeated
  BY DEF Rollback, LinksOf
<1>2. QuotaOf(k) /\ granted[k] \in Nat /\ used[k] \in Int /\ Limit[k] \in Nat
      /\ repeated[k] \in Nat
  BY KeyAssumption DEF QuotaInv, TypeOK
<1>3. /\ Cardinality(RollingBack(k)') =
           Cardinality(RollingBack(k)) - (IF Key[r] = k THEN 1 ELSE 0)
      /\ Cardinality(Reserved(k)') = Cardinality(Reserved(k))
  BY <1>a, MoveCounts, Counts DEF Holding
<1>4. CASE k # Key[r]
  <2>1. used'[k] = used[k]
    BY <1>4 DEF Rollback, TypeOK
  <2> QED BY <1>1, <1>2, <1>3, <1>4, <2>1, Counts DEF QuotaOf
<1>5. CASE k = Key[r]
  <2>1. used'[k] \in {used[k], used[k] - 1}
    BY <1>5 DEF Rollback, TypeOK
  <2>2. r \in RollingBack(k)
    BY <1>5 DEF RollingBack, At, Rollback
  <2>3. Cardinality(RollingBack(k)) # 0
    BY <2>2, AtFinite, FS_EmptySet DEF RollingBack
  <2>4. granted[k] >= Limit[k]
    BY <1>2, <2>3, Counts DEF QuotaOf
  <2> QED BY <1>1, <1>2, <1>3, <1>5, <2>1, <2>4, Counts DEF QuotaOf
<1> QED BY <1>4, <1>5

\* A DECR that is sent again lowers the counter, and is counted.
LEMMA RepeatNext ==
  ASSUME TypeOK, QuotaInv, NEW r \in Charged, RollbackReplyLost(r)
  PROVE  QuotaInv'
<1> SUFFICES ASSUME NEW k \in Keys PROVE QuotaOf(k)'
  BY DEF QuotaInv
<1>1. /\ LinksOf(k)' = LinksOf(k) /\ granted' = granted
      /\ RollingBack(k)' = RollingBack(k) /\ Reserved(k)' = Reserved(k)
  BY DEF RollbackReplyLost, LinksOf, RollingBack, Reserved, At
<1>2. QuotaOf(k) /\ granted[k] \in Nat /\ used[k] \in Int /\ Limit[k] \in Nat
      /\ repeated[k] \in Nat
  BY KeyAssumption DEF QuotaInv, TypeOK
<1>3. \/ used'[k] = used[k] /\ repeated'[k] = repeated[k]
      \/ used'[k] = used[k] - 1 /\ repeated'[k] = repeated[k] + 1
  BY DEF RollbackReplyLost, TypeOK
<1> QED BY <1>1, <1>2, <1>3, Counts DEF QuotaOf

\* A reservation becomes a link.
LEMMA SpendNext ==
  ASSUME TypeOK, QuotaInv, NEW r \in Charged, pc[r] \in {"create", "update"},
         NEW to \in {"prime", "done"}, pc' = [pc EXCEPT ![r] = to],
         UNCHANGED <<used, granted, repeated>>,
         NEW c \in Codes, owner[c] = Nobody, NEW u \in {Key[r], Nobody},
         owner' = [owner EXCEPT ![c] = u]
  PROVE  QuotaInv'
<1> SUFFICES ASSUME NEW k \in Keys PROVE QuotaOf(k)'
  BY DEF QuotaInv
<1>a. pc'[r] = to /\ \A s \in Charged \ {r} : pc'[s] = pc[s]
  BY RequestsApart DEF TypeOK
<1>1. QuotaOf(k) /\ granted[k] \in Nat /\ used[k] \in Int /\ Limit[k] \in Nat
      /\ repeated[k] \in Nat
  BY KeyAssumption DEF QuotaInv, TypeOK
<1>2. /\ Cardinality(RollingBack(k)') = Cardinality(RollingBack(k))
      /\ Cardinality(Reserved(k)') = Cardinality(Reserved(k)) - (IF Key[r] = k THEN 1 ELSE 0)
  BY <1>a, MoveCounts, Counts DEF Holding
<1>3. k \in Users => Cardinality(LinksOf(k)') = Cardinality(LinksOf(k)) + (IF u = k THEN 1 ELSE 0)
  BY LinksGrow DEF TypeOK
<1>4. k \in Users /\ u = k => Key[r] = k
  BY KeyAssumption
<1> QED BY <1>1, <1>2, <1>3, <1>4, Counts DEF QuotaOf

LEMMA QuotaNext == ASSUME TypeOK, PlaceInv, CodeInv, RowInv, QuotaInv, [Next]_vars PROVE QuotaInv'
<1>1. ASSUME NEW p \in Creators, CheckAlias(p) PROVE QuotaInv'
  BY <1>1, QuotaFrame, RequestsApart DEF CheckAlias, Goto, Respond, Holding, db, quota
<1>2. ASSUME NEW p \in Creators, Reserve(p, "draw") PROVE QuotaInv'
  BY <1>2, GrantNext, RequestsApart DEF Reserve, Goto
<1>3. ASSUME NEW u \in Claimants, Reserve(u, "update") PROVE QuotaInv'
  BY <1>3, GrantNext, RequestsApart DEF Reserve, Goto
<1>4. ASSUME NEW r \in Charged, ReserveReplyLost(r) PROVE QuotaInv'
  <2>1. CASE UNCHANGED <<pc, answer>>
    <3>1. pc' = [pc EXCEPT ![r] = "reserve"]
      BY <1>4, <2>1 DEF ReserveReplyLost, TypeOK
    <3> QED BY <1>4, <3>1, GrantNext DEF ReserveReplyLost
  <2>2. CASE Respond(r, "error")
    BY <1>4, <2>2, GrantNext DEF ReserveReplyLost, Respond
  <2> QED BY <1>4, <2>1, <2>2 DEF ReserveReplyLost
<1>5. ASSUME NEW r \in Charged, Rollback(r) PROVE QuotaInv'
  BY <1>5, RollbackNext
<1>6. ASSUME NEW p \in Creators, DrawCode(p) PROVE QuotaInv'
  BY <1>6, QuotaFrame, RequestsApart DEF DrawCode, Goto, Respond, Holding, db, quota
<1>7. ASSUME NEW p \in Creators, Create(p) PROVE QuotaInv'
  <2>1. CASE UNCHANGED db /\ Respond(p, "error")
    BY <1>7, <2>1, QuotaFrame, RequestsApart DEF Create, Respond, Holding, db, quota
  <2>2. CASE rows[code[p]] = NoRow /\ Insert(p) /\ (Goto(p, "prime") \/ Respond(p, "error"))
    <3>1. code[p] \in Codes /\ owner[code[p]] = Nobody
      BY <1>7, <2>2 DEF Create, CodeInv, RowInv
    <3>2. pc' = [pc EXCEPT ![p] = "prime"] \/ pc' = [pc EXCEPT ![p] = "done"]
      BY <2>2 DEF Goto, Respond
    <3> QED BY <1>7, <2>2, <3>1, <3>2, SpendNext, RequestsApart DEF Create, Insert, quota
  <2> QED BY <1>7, <2>1, <2>2 DEF Create
<1>8. ASSUME NEW p \in Creators, Prime(p) PROVE QuotaInv'
  BY <1>8, QuotaFrame, RequestsApart DEF Prime, TakeTTL, Goto, Respond, Holding, db, quota
<1>9. ASSUME NEW v \in Visitors, NEW c \in Codes, Lookup(v, c) PROVE QuotaInv'
  BY <1>9, QuotaFrame, RequestsApart DEF Lookup, Goto, Respond, Holding, db, quota
<1>10. ASSUME NEW v \in Visitors, Query(v) PROVE QuotaInv'
  BY <1>10, QuotaFrame, RequestsApart DEF Query, Goto, Respond, Holding, db, quota
<1>11. ASSUME NEW v \in Visitors, CheckExpiry(v) PROVE QuotaInv'
  BY <1>11, QuotaFrame, RequestsApart DEF CheckExpiry, Goto, Respond, Holding, db, quota
<1>12. ASSUME NEW r \in Writers, Store(r) PROVE QuotaInv'
  BY <1>12, QuotaFrame, RequestsApart DEF Store, Respond, Holding, quota, Writers
<1>13. ASSUME NEW v \in Visitors, Fill(v) PROVE QuotaInv'
  BY <1>13, QuotaFrame, RequestsApart DEF Fill, TakeTTL, Goto, Respond, Holding, db, quota
<1>14. ASSUME NEW u \in Claimants, NEW c \in Codes, FetchForClaim(u, c) PROVE QuotaInv'
  BY <1>14, QuotaFrame, RequestsApart DEF FetchForClaim, Goto, Respond, Holding, db, quota
<1>15. ASSUME NEW u \in Claimants, Claim(u) PROVE QuotaInv'
  <2>1. code[u] \in Codes /\ pc' = [pc EXCEPT ![u] = "done"]
    BY <1>15 DEF Claim, CodeInv, Respond
  <2>2. CASE owner[code[u]] = Nobody
    BY <1>15, <2>1, <2>2, SpendNext, RequestsApart DEF Claim, quota
  <2>3. CASE owner[code[u]] # Nobody
    BY <1>15, <2>1, <2>3, QuotaFrame, RequestsApart DEF Claim, Holding, quota
  <2> QED BY <2>2, <2>3
<1>16. ASSUME NEW r \in Requests, Abort(r) PROVE QuotaInv'
  BY <1>16, QuotaFrame, RequestsApart DEF Abort, Goto, Respond, Holding, db, quota
<1>19. ASSUME NEW r \in Writers, SetReplyLost(r) PROVE QuotaInv'
  BY <1>19 DEF SetReplyLost, QuotaInv, QuotaOf, RollingBack, Reserved, LinksOf, quota
<1>20. ASSUME NEW r \in Charged, RollbackReplyLost(r) PROVE QuotaInv'
  BY <1>20, RepeatNext
<1>17. CASE Tick
  BY <1>17 DEF Tick, QuotaInv, QuotaOf, RollingBack, Reserved, LinksOf, quota
<1>18. CASE UNCHANGED vars
  BY <1>18 DEF vars, QuotaInv, QuotaOf, RollingBack, Reserved, LinksOf
<1> QED BY <1>1, <1>2, <1>3, <1>4, <1>5, <1>6, <1>7, <1>8, <1>9, <1>10, <1>11, <1>12,
           <1>13, <1>14, <1>15, <1>16, <1>17, <1>18, <1>19, <1>20, Steps

-----------------------------------------------------------------------------
LEMMA Invariance == Spec => []IInv
<1>1. Init => IInv
  BY InitInv
<1>2. IInv /\ [Next]_vars => IInv'
  BY TypeNext, PlaceNext, CodeNext, RowNext, EntryNext, CacheAgreesNext, RedirectsNext,
     CreatedNext, StoreNext, DelayNext, QuotaNext DEF IInv
<1> QED BY <1>1, <1>2, PTL DEF Spec

\* Every variable keeps its type: the link that a SET carries and the key that
\* a claim writes are there when they are used, after any other requests' steps.
THEOREM TypeCorrect == Spec => []TypeOK
<1>1. IInv => TypeOK
  BY DEF IInv
<1> QED BY <1>1, Invariance, PTL

\* For any number of creators, visitors and codes the cache never holds the
\* long URL of another link than the one in the urls table (url_service.go).
THEOREM CacheIsRight == Spec => []CacheAgreesWithTable
<1>1. IInv => CacheAgreesWithTable
  BY DEF IInv
<1> QED BY <1>1, Invariance, PTL

\* No redirect goes to another link's URL, whatever a Resolve read before.
THEOREM RedirectsAreRight == Spec => []RedirectsAgreeWithTable
<1>1. IInv => RedirectsAgreeWithTable
  BY DEF IInv
<1> QED BY <1>1, Invariance, PTL

\* A 201 is never taken back: the code belongs to that request for good.
THEOREM CreatedIsStored == Spec => []CreatedLinkIsStored
<1>1. IInv => CreatedLinkIsStored
  BY DEF IInv
<1> QED BY <1>1, Invariance, PTL

\* A cache entry that has a TTL outlives its link by no more than the time
\* between the clock reading and the SET, for every lifetime, CacheTTL, order of
\* clock readings and number of SETs sent again.
THEOREM EntriesOutliveByDelay == Spec => []EntryWithinDelay
<1>1. IInv => EntryWithinDelay
  BY DEF IInv
<1> QED BY <1>1, Invariance, PTL

\* A link that has an owner keeps it, however many claims race.
THEOREM OwnersAreKept == Spec => OwnerIsKept
<1>1. IInv /\ [Next]_vars => [\A c \in Codes : owner[c] # Nobody => owner'[c] = owner[c]]_vars
  BY RowsAreKept DEF IInv
<1> QED BY <1>1, Invariance, PTL DEF Spec, OwnerIsKept

\* No account gets more links than its plan allows and one for every DECR that
\* was executed and sent again, for any number of concurrent requests, aborted
\* or with replies lost (quota_service.go).
THEOREM PlansAreKept == Spec => []LinksWithinQuota
<1>1. IInv => LinksWithinQuota
  <2> SUFFICES ASSUME IInv, NEW k \in Keys \cap Users
               PROVE  Cardinality(LinksOf(k)) <= Limit[k] + repeated[k]
    BY DEF LinksWithinQuota
  <2>1. QuotaOf(k) /\ granted[k] \in Nat /\ Limit[k] \in Nat /\ repeated[k] \in Nat
    BY KeyAssumption DEF IInv, QuotaInv, TypeOK
  <2> QED BY <2>1, Counts DEF QuotaOf
<1> QED BY <1>1, Invariance, PTL

\* A request is refused only when the whole limit has been granted.
THEOREM RefusalsAreDeserved == Spec => []RefusalIsDeserved
<1>1. IInv => RefusalIsDeserved
  <2> SUFFICES ASSUME IInv, NEW r \in Charged, pc[r] = "rollback"
               PROVE  granted[Key[r]] >= Limit[Key[r]]
    BY DEF RefusalIsDeserved
  <2> DEFINE k == Key[r]
  <2>1. QuotaOf(k) /\ granted[k] \in Nat /\ Limit[k] \in Nat /\ repeated[k] \in Nat
    BY KeyAssumption, RequestsApart DEF IInv, QuotaInv, TypeOK
  <2>2. r \in RollingBack(k)
    BY DEF RollingBack, At
  <2>3. Cardinality(RollingBack(k)) # 0
    BY <2>2, AtFinite, FS_EmptySet DEF RollingBack
  <2> QED BY <2>1, <2>3, Counts DEF QuotaOf
<1> QED BY <1>1, Invariance, PTL

\* The counter covers what was granted and what is still to be taken back, but
\* for the DECRs that were executed and sent again.
THEOREM CountersCoverGrants == Spec => []CounterCoversGrants
<1>1. IInv => CounterCoversGrants
  <2> SUFFICES ASSUME IInv, NEW k \in Keys
               PROVE  granted[k] + Cardinality({r \in Charged : pc[r] = "rollback" /\ Key[r] = k})
                        <= used[k] + repeated[k]
    BY DEF CounterCoversGrants
  <2>1. {r \in Charged : pc[r] = "rollback" /\ Key[r] = k} = RollingBack(k)
    BY DEF RollingBack, At
  <2> QED BY <2>1 DEF IInv, QuotaInv, QuotaOf
<1> QED BY <1>1, Invariance, PTL
=============================================================================
