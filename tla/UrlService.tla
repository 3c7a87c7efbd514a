----------------------------- MODULE UrlService -----------------------------
(***************************************************************************)
(* backend/internal/service/url_service.go and quota_service.go with the   *)
(* repository calls they make: Shorten, Resolve and ClaimURL running        *)
(* concurrently over one urls table, one Redis cache and one set of quota   *)
(* counters.  Every call to PostgreSQL or Redis is a step, and any request  *)
(* may be cut off between two calls: the handlers pass the request context  *)
(* down, so a client that hangs up cancels the calls that are left.         *)
(*                                                                         *)
(* Time is relative: left[p] is expires_at - now for the link of p and ttl  *)
(* is what remains of a cache entry, so Tick may run for ever.  A long URL  *)
(* is named by the request that shortens it.  The TTL of the quota keys is  *)
(* left out: a key holds its month or day in its name and is never read     *)
(* after it.                                                                *)
(***************************************************************************)
EXTENDS Integers, FiniteSets

CONSTANTS Codes,         \* short codes
          Creators,      \* POST /api/shorten requests
          Visitors,      \* goroutines serving GET /:code, over and over
          Claimants,     \* POST /api/claim requests
          Key,           \* the quota key a creator or claimant is charged on
          Users,         \* the keys of accounts; the other keys are IP addresses
          Limit,         \* Limit[k]: links per month or day for key k
          Alias,         \* the custom alias of each creator, or NoCode
          Lifetimes,     \* expires_in of a request; Never for 0
          CacheTTL,      \* 24 hours
          NotFoundTTL,   \* 5 minutes
          MaxRetries,    \* bound: Redis replies lost and commands sent again
          NoCode, NoRow, Nobody, Never, NotFound, Absent

Requests == Creators \cup Visitors \cup Claimants
Charged == Creators \cup Claimants
Keys == {Key[r] : r \in Charged}

ASSUME KeyAssumption == /\ DOMAIN Key = Charged
                        /\ \A r \in Claimants : Key[r] \in Users
                        /\ Limit \in [Keys -> Nat]
                        /\ Nobody \notin Users
ASSUME AliasAssumption == Alias \in [Creators -> Codes \cup {NoCode}] /\ NoCode \notin Codes
ASSUME TimeAssumption == /\ Lifetimes \subseteq (Nat \ {0}) \cup {Never}
                         /\ CacheTTL \in Nat \ {0} /\ NotFoundTTL \in Nat \ {0}
                         /\ Never \notin Int
ASSUME ValueAssumption == /\ NoRow \notin Creators
                          /\ NotFound \notin Creators
                          /\ Absent \notin Creators \cup {NotFound}
                          /\ MaxRetries \in Nat
ASSUME FiniteAssumption == /\ IsFiniteSet(Codes)
                           /\ IsFiniteSet(Creators) /\ IsFiniteSet(Claimants)

\* The responses that are not a redirect.
Outcomes == {"none", "error", "quota exceeded", "alias in use", "created",
             "not found", "expired", "already owned", "claimed"}

ASSUME ResponseAssumption == Creators \cap Outcomes = {}
ASSUME RequestAssumption == /\ Creators \cap (Visitors \cup Claimants) = {}
                            /\ Visitors \cap Claimants = {}

VARIABLES rows,      \* urls table: the creator whose link has the code, or NoRow
          owner,     \* urls.user_id
          left,      \* urls.expires_at, as the time that is left
          cache,     \* Redis keys url:<code>
          used,      \* Redis keys quota:<user>:<month> and anon_quota:<ip>:<day>
          granted,   \* history: reservations that were within the limit
          repeated,  \* history: DECRs that Redis executed and go-redis sent again
          drawn,     \* codes that NextID and Encode have produced
          retries,
          pc, code, answer,  \* each request: where it is, its code, its response
          ttl,       \* the TTL that a request has read off the clock for its SET
          delay      \* history: the time since then

db == <<rows, owner>>
quota == <<used, granted, repeated>>
lease == <<ttl, delay>>
vars == <<rows, owner, left, cache, used, granted, repeated, drawn, retries,
          pc, code, answer, ttl, delay>>

\* The field late is history: the delay of the SET that wrote the entry.
Empty == [val |-> Absent, ttl |-> 0, late |-> 0]

Init ==
  /\ rows = [c \in Codes |-> NoRow]
  /\ owner = [c \in Codes |-> Nobody]
  /\ left = [p \in Creators |-> Never]
  /\ cache = [c \in Codes |-> Empty]
  /\ used = [k \in Keys |-> 0]
  /\ granted = [k \in Keys |-> 0]
  /\ repeated = [k \in Keys |-> 0]
  /\ drawn = {}
  /\ retries = 0
  /\ pc = [r \in Requests |-> "new"]
  /\ code = [r \in Requests |-> IF r \in Creators THEN Alias[r] ELSE NoCode]
  /\ answer = [r \in Requests |-> "none"]
  /\ ttl = [r \in Requests |-> 0]
  /\ delay = [r \in Requests |-> 0]

Goto(r, label) == pc' = [pc EXCEPT ![r] = label] /\ UNCHANGED answer

Respond(r, response) ==
  /\ pc' = [pc EXCEPT ![r] = "done"]
  /\ answer' = [answer EXCEPT ![r] = response]

\* Mutant: a SET without an expiry for every entry.
CacheSetForever(c, val, t, late) ==
  cache' = [cache EXCEPT ![c] = [val |-> val, ttl |-> Never, late |-> late]]

\* redis SET with an expiration: go-redis sends no expiry when it is not
\* positive.
CacheSet(c, val, t, late) ==
  cache' = [cache EXCEPT ![c] =
    [val |-> val, ttl |-> IF t <= 0 THEN Never ELSE t, late |-> late]]

Expired(p) == left[p] # Never /\ left[p] < 0

-----------------------------------------------------------------------------
(* quota_service.go: CheckAndReserveUser and CheckAndReserveAnonymous *)

\* Mutant: the count before the INCR is compared with the limit.
ReserveOffByOne(r, next) ==
  LET k == Key[r]
      ok == used[k] <= Limit[k]
  IN /\ pc[r] = "reserve"
     /\ used' = [used EXCEPT ![k] = @ + 1]
     /\ granted' = IF ok THEN [granted EXCEPT ![k] = @ + 1] ELSE granted
     /\ Goto(r, IF ok THEN next ELSE "rollback")
     /\ UNCHANGED <<rows, owner, left, cache, repeated, drawn, retries, code, lease>>

\* Mutant: count >= limit is refused.
ReserveTooStrict(r, next) ==
  LET k == Key[r]
      ok == used[k] + 1 < Limit[k]
  IN /\ pc[r] = "reserve"
     /\ used' = [used EXCEPT ![k] = @ + 1]
     /\ granted' = IF ok THEN [granted EXCEPT ![k] = @ + 1] ELSE granted
     /\ Goto(r, IF ok THEN next ELSE "rollback")
     /\ UNCHANGED <<rows, owner, left, cache, repeated, drawn, retries, code, lease>>

\* INCR, and the decision on its reply.
Reserve(r, next) ==
  LET k == Key[r]
      ok == used[k] + 1 <= Limit[k]
  IN /\ pc[r] = "reserve"
     /\ used' = [used EXCEPT ![k] = @ + 1]
     /\ granted' = IF ok THEN [granted EXCEPT ![k] = @ + 1] ELSE granted
     /\ Goto(r, IF ok THEN next ELSE "rollback")
     /\ UNCHANGED <<rows, owner, left, cache, repeated, drawn, retries, code, lease>>

\* Redis executed the INCR but the reply is lost: go-redis sends it again, or
\* gives up and the request fails.
ReserveReplyLost(r) ==
  LET k == Key[r]
  IN /\ pc[r] = "reserve" /\ retries < MaxRetries
     /\ retries' = retries + 1
     /\ used' = [used EXCEPT ![k] = @ + 1]
     /\ granted' = IF used[k] + 1 <= Limit[k] THEN [granted EXCEPT ![k] = @ + 1] ELSE granted
     /\ \/ UNCHANGED <<pc, answer, lease>>
        \/ Respond(r, "error")
     /\ UNCHANGED <<rows, owner, left, cache, repeated, drawn, code, lease>>

\* The same with the DECR: Redis counts down and go-redis, which has seen no
\* reply, sends the command again.
RollbackReplyLost(r) ==
  LET k == Key[r]
  IN /\ pc[r] = "rollback" /\ retries < MaxRetries
     /\ retries' = retries + 1
     /\ used' = [used EXCEPT ![k] = @ - 1]
     /\ repeated' = [repeated EXCEPT ![k] = @ + 1]
     /\ UNCHANGED <<rows, owner, left, cache, granted, drawn, pc, code, answer, lease>>

\* DECR for the last time, whose error is ignored, and ErrQuotaExceeded.
Rollback(r) ==
  /\ pc[r] = "rollback"
  /\ used' \in {used, [used EXCEPT ![Key[r]] = @ - 1]}
  /\ Respond(r, "quota exceeded")
  /\ UNCHANGED <<rows, owner, left, cache, granted, repeated, drawn, retries, code, lease>>

-----------------------------------------------------------------------------
(* Shorten *)

\* AliasExists runs only for a custom alias.
CheckAlias(p) ==
  /\ pc[p] = "new"
  /\ IF code[p] # NoCode /\ rows[code[p]] # NoRow
       THEN Respond(p, "alias in use")
       ELSE Goto(p, "reserve")
  /\ UNCHANGED <<rows, owner, left, cache, quota, drawn, retries, code, lease>>

\* NextID, Encode and expires_at.  The ID that an alias leaves unused is one
\* whose code is outside Codes.
DrawCode(p) ==
  /\ pc[p] = "draw"
  /\ IF Alias[p] # NoCode
       THEN UNCHANGED <<drawn, code>>
       ELSE \E c \in Codes \ drawn : /\ drawn' = drawn \cup {c}
                                     /\ code' = [code EXCEPT ![p] = c]
  /\ \E life \in Lifetimes : left' = [left EXCEPT ![p] = life]
  /\ Goto(p, "create")
  /\ UNCHANGED <<rows, owner, cache, quota, retries, lease>>

\* Mutant: INSERT ... ON CONFLICT DO UPDATE.
CreateUpserts(p) ==
  /\ pc[p] = "create"
  /\ rows' = [rows EXCEPT ![code[p]] = p]
  /\ owner' = [owner EXCEPT ![code[p]] = IF Key[p] \in Users THEN Key[p] ELSE Nobody]
  /\ Goto(p, "prime")
  /\ UNCHANGED <<left, cache, quota, drawn, retries, code, lease>>

\* Mutant: the error of Create is logged and the request goes on.
CreateIgnoresError(p) ==
  /\ pc[p] = "create"
  /\ IF rows[code[p]] = NoRow
       THEN /\ rows' = [rows EXCEPT ![code[p]] = p]
            /\ owner' = [owner EXCEPT ![code[p]] = IF Key[p] \in Users THEN Key[p] ELSE Nobody]
       ELSE UNCHANGED db
  /\ Goto(p, "prime")
  /\ UNCHANGED <<left, cache, quota, drawn, retries, code, lease>>

\* Mutant: the quota key is stored as the owner, whoever it is.
InsertOwnedByKey(p) ==
  /\ rows' = [rows EXCEPT ![code[p]] = p]
  /\ owner' = [owner EXCEPT ![code[p]] = Key[p]]

Insert(p) ==
  /\ rows' = [rows EXCEPT ![code[p]] = p]
  /\ owner' = [owner EXCEPT ![code[p]] = IF Key[p] \in Users THEN Key[p] ELSE Nobody]

\* INSERT: short_code is UNIQUE.  An error may hide an insert that happened.
Create(p) ==
  /\ pc[p] = "create"
  /\ \/ rows[code[p]] = NoRow /\ Insert(p) /\ Goto(p, "prime")
     \/ rows[code[p]] = NoRow /\ Insert(p) /\ Respond(p, "error")
     \/ rows[code[p]] # NoRow /\ UNCHANGED db /\ Respond(p, "error")
  /\ UNCHANGED <<left, cache, quota, drawn, retries, code, lease>>

\* The TTL of a link's entry is worked out now and sent with the SET later.
TakeTTL(r, p) ==
  /\ ttl' = [ttl EXCEPT ![r] = IF left[p] = Never THEN CacheTTL ELSE left[p]]
  /\ UNCHANGED delay

Prime(p) ==
  /\ pc[p] = "prime"
  /\ TakeTTL(p, p)
  /\ Goto(p, "store")
  /\ UNCHANGED <<rows, owner, left, cache, quota, drawn, retries, code>>

-----------------------------------------------------------------------------
(* Resolve *)

\* A redirect is recorded as the creator whose long URL it goes to.
Lookup(v, c) ==
  /\ pc[v] \in {"new", "done"}
  /\ code' = [code EXCEPT ![v] = c]
  /\ \/ cache[c].val = NotFound /\ Respond(v, "not found")
     \/ cache[c].val \in Creators /\ Respond(v, cache[c].val)
     \/ /\ pc' = [pc EXCEPT ![v] = "query"]   \* a miss, or an error of Redis
        /\ answer' = [answer EXCEPT ![v] = "none"]
  /\ UNCHANGED <<rows, owner, left, cache, quota, drawn, retries, lease>>

Query(v) ==
  /\ pc[v] = "query"
  /\ Goto(v, IF rows[code[v]] = NoRow THEN "fill not found" ELSE "check")
  /\ UNCHANGED <<rows, owner, left, cache, quota, drawn, retries, code, lease>>

\* The first reading of the clock, on the row that Query returned.
CheckExpiry(v) ==
  /\ pc[v] = "check"
  /\ Goto(v, IF Expired(rows[code[v]]) THEN "fill expired" ELSE "fill")
  /\ UNCHANGED <<rows, owner, left, cache, quota, drawn, retries, code, lease>>

\* Mutant: every live link is cached for 24 hours.
FillFullDay(v) ==
  /\ pc[v] = "fill"
  /\ ttl' = [ttl EXCEPT ![v] = CacheTTL]
  /\ Goto(v, "store")
  /\ UNCHANGED <<rows, owner, left, cache, quota, drawn, retries, code, delay>>

\* The second reading of the clock.
Fill(v) ==
  /\ pc[v] = "fill"
  /\ TakeTTL(v, rows[code[v]])
  /\ Goto(v, "store")
  /\ UNCHANGED <<rows, owner, left, cache, quota, drawn, retries, code>>

-----------------------------------------------------------------------------
(* The SETs at the end of Shorten and of Resolve *)

SetPlaces == {"store", "fill not found", "fill expired"}

\* The link that a request at "store" caches.
LinkOf(r) == IF r \in Creators THEN r ELSE rows[code[r]]

Set(r) == IF pc[r] = "store" THEN CacheSet(code[r], LinkOf(r), ttl[r], delay[r])
                             ELSE CacheSet(code[r], NotFound, NotFoundTTL, 0)

Reply(r) == IF pc[r] = "fill expired" THEN "expired"
            ELSE IF pc[r] = "fill not found" THEN "not found"
            ELSE IF r \in Creators THEN "created" ELSE LinkOf(r)

\* The SET, whose error is ignored, and the response.
Store(r) ==
  /\ pc[r] \in SetPlaces
  /\ Set(r) \/ UNCHANGED cache
  /\ Respond(r, Reply(r))
  /\ ttl' = [ttl EXCEPT ![r] = 0]
  /\ delay' = [delay EXCEPT ![r] = 0]
  /\ UNCHANGED <<rows, owner, left, quota, drawn, retries, code>>

\* Redis executed the SET and go-redis sends it again, with the same TTL.
SetReplyLost(r) ==
  /\ pc[r] \in SetPlaces /\ retries < MaxRetries
  /\ retries' = retries + 1
  /\ Set(r)
  /\ UNCHANGED <<rows, owner, left, quota, drawn, pc, code, answer, lease>>

-----------------------------------------------------------------------------
(* handlers.go ClaimURL, with URLService.ClaimURL and the repository's *)

FetchForClaim(u, c) ==
  /\ pc[u] = "new"
  /\ code' = [code EXCEPT ![u] = c]
  /\ \/ rows[c] = NoRow /\ Respond(u, "not found")
     \/ rows[c] # NoRow /\ owner[c] # Nobody /\ Respond(u, "already owned")
     \/ rows[c] # NoRow /\ owner[c] = Nobody /\ Goto(u, "reserve")
  /\ UNCHANGED <<rows, owner, left, cache, quota, drawn, retries, lease>>

\* Mutant: UPDATE without the condition on user_id.
ClaimAnyway(u) ==
  /\ pc[u] = "update"
  /\ owner' = [owner EXCEPT ![code[u]] = Key[u]]
  /\ Respond(u, "claimed")
  /\ UNCHANGED <<rows, left, cache, quota, drawn, retries, code, lease>>

\* UPDATE ... WHERE user_id IS NULL; nobody looks at the rows affected.  An
\* error may hide an update that happened.
Claim(u) ==
  /\ pc[u] = "update"
  /\ owner' = IF owner[code[u]] = Nobody THEN [owner EXCEPT ![code[u]] = Key[u]] ELSE owner
  /\ Respond(u, "claimed") \/ Respond(u, "error")
  /\ UNCHANGED <<rows, left, cache, quota, drawn, retries, code, lease>>

-----------------------------------------------------------------------------
\* Mutant: an INCR that fails is taken back too.
AbortTakesBack(r) ==
  /\ pc[r] \notin {"new", "done"}
  /\ Respond(r, "error")
  /\ used' = IF pc[r] = "reserve" THEN [used EXCEPT ![Key[r]] = @ - 1] ELSE used
  /\ ttl' = [ttl EXCEPT ![r] = 0]
  /\ delay' = [delay EXCEPT ![r] = 0]
  /\ UNCHANGED <<rows, owner, left, cache, granted, repeated, drawn, retries, code>>

\* A call fails without effect, the client hangs up, or the instance dies.
Abort(r) ==
  /\ pc[r] \notin {"new", "done"}
  /\ Respond(r, "error")
  /\ ttl' = [ttl EXCEPT ![r] = 0]
  /\ delay' = [delay EXCEPT ![r] = 0]
  /\ UNCHANGED <<rows, owner, left, cache, quota, drawn, retries, code>>

Age(t) == IF t = Never THEN Never ELSE t - 1

\* left stops once the link has expired, and so does the delay of its SET.
Waiting(r) == /\ pc[r] = "store"
              /\ left[LinkOf(r)] # Never /\ ~Expired(LinkOf(r))

Tick ==
  /\ left' = [p \in Creators |-> IF Expired(p) THEN left[p] ELSE Age(left[p])]
  /\ cache' = [c \in Codes |-> IF Age(cache[c].ttl) \in {0, -1}
                               THEN Empty
                               ELSE [cache[c] EXCEPT !.ttl = Age(@)]]
  /\ delay' = [r \in Requests |-> delay[r] + IF Waiting(r) THEN 1 ELSE 0]
  /\ UNCHANGED <<rows, owner, quota, drawn, retries, pc, code, answer, ttl>>

Shorten(p) == \/ CheckAlias(p) \/ Reserve(p, "draw") \/ ReserveReplyLost(p)
              \/ RollbackReplyLost(p) \/ Rollback(p) \/ DrawCode(p) \/ Create(p)
              \/ Prime(p) \/ SetReplyLost(p) \/ Store(p)
Resolve(v) == \/ \E c \in Codes : Lookup(v, c)
              \/ Query(v) \/ CheckExpiry(v) \/ Fill(v) \/ SetReplyLost(v) \/ Store(v)
ClaimURL(u) == \/ \E c \in Codes : FetchForClaim(u, c)
               \/ Reserve(u, "update") \/ ReserveReplyLost(u)
               \/ RollbackReplyLost(u) \/ Rollback(u) \/ Claim(u)

Next == \/ \E p \in Creators : Shorten(p)
        \/ \E v \in Visitors : Resolve(v)
        \/ \E u \in Claimants : ClaimURL(u)
        \/ \E r \in Requests : Abort(r)
        \/ Tick

\* Time passes.  Nothing is assumed of the requests: a client may hang up.
Spec == Init /\ [][Next]_vars /\ WF_vars(Tick)

-----------------------------------------------------------------------------
(* Properties *)

Responses == Creators \cup Outcomes

Places == {"new", "reserve", "rollback", "draw", "create", "prime", "store",
           "query", "check", "fill", "fill not found", "fill expired", "update", "done"}

Entries == [val : Creators \cup {NotFound, Absent}, ttl : Int \cup {Never}, late : Nat]

TypeOK ==
  /\ rows \in [Codes -> Creators \cup {NoRow}]
  /\ owner \in [Codes -> Users \cup {Nobody}]
  /\ left \in [Creators -> Int \cup {Never}]
  /\ cache \in [Codes -> Entries]
  /\ used \in [Keys -> Int]
  /\ granted \in [Keys -> Nat]
  /\ repeated \in [Keys -> Nat]
  /\ drawn \subseteq Codes
  /\ retries \in 0..MaxRetries
  /\ pc \in [Requests -> Places]
  /\ code \in [Requests -> Codes \cup {NoCode}]
  /\ answer \in [Requests -> Responses]
  /\ ttl \in [Requests -> Int]
  /\ delay \in [Requests -> Nat]

\* The cache never sends a visitor to a URL that is not the one in the urls
\* table: two creators of one alias, the loser of the INSERT and a Resolve in
\* flight included.
CacheAgreesWithTable == \A c \in Codes :
  cache[c].val \in Creators => cache[c].val = rows[c]

\* Whatever mixture of cache, row and clock a Resolve saw, its redirect goes
\* where the table says.
RedirectsAgreeWithTable == \A v \in Visitors :
  answer[v] \in Creators => answer[v] = rows[code[v]]

\* A code that was answered with 201 belongs to that request for good.
CreatedLinkIsStored == \A p \in Creators :
  answer[p] = "created" => rows[code[p]] = p

\* An entry that Redis will drop outlives its link by no more than the time
\* its SET took after the clock was read: nothing else, no second visitor and no
\* SET sent again, keeps a link that has expired in the cache (README: "up to
\* the URL's specific expiration").
EntryWithinDelay == \A c \in Codes : \A p \in Creators :
  cache[c].val = p /\ cache[c].ttl # Never /\ left[p] # Never
     => cache[c].ttl <= left[p] + cache[c].late

\* The 404 marker that a Resolve in flight may put over a new link does not
\* stay: a link without expiry is served in the end, and from then on.
NotFoundHeals == \A c \in Codes : \A p \in Creators :
  [](rows[c] = p /\ left[p] = Never => <>[](cache[c].val # NotFound))

LinksOf(k) == {c \in Codes : owner[c] = k}

\* No interleaving of INCR and DECR gives an account more links than its plan,
\* but for one link with every DECR that was executed and sent again.
LinksWithinQuota == \A k \in Keys \cap Users :
  Cardinality(LinksOf(k)) <= Limit[k] + repeated[k]

\* Nobody is refused on account of somebody else's refusal in progress: all
\* of the limit has been granted whenever a request is turned away.
RefusalIsDeserved == \A r \in Charged :
  pc[r] = "rollback" => granted[Key[r]] >= Limit[Key[r]]

\* The INCRs still to be taken back are on the counter: used is less than what
\* was granted only by the DECRs that were executed and sent again.
CounterCoversGrants == \A k \in Keys :
  granted[k] + Cardinality({r \in Charged : pc[r] = "rollback" /\ Key[r] = k})
    <= used[k] + repeated[k]

\* A link that has an owner keeps it, whoever claims it at the same time.
OwnerIsKept == [][\A c \in Codes : owner[c] # Nobody => owner'[c] = owner[c]]_vars

\* README: cached "with a 24-hour TTL (or up to the URL's specific expiration)".
ExpiredLinkIsDropped == \A c \in Codes : \A p \in Creators :
  (rows[c] = p /\ Expired(p)) ~> (cache[c].val # p)

\* handlers.go: "claimed successfully" is the answer to who owns the link.
ClaimedMeansOwned == \A u \in Claimants :
  answer[u] = "claimed" => owner[code[u]] = Key[u]
=============================================================================
