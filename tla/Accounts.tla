------------------------------ MODULE Accounts ------------------------------
(***************************************************************************)
(* What every API request passes before its handler: the FirebaseAuth and  *)
(* RateLimiter middleware (backend/internal/middleware) as cmd/api/main.go *)
(* chains them, with UserService, UserRepository and the two handlers that *)
(* work on the account itself, GetMe and UpgradePlan.                      *)
(*                                                                         *)
(* Every call to PostgreSQL or Redis is a step.  A user is [plan, email];  *)
(* the id never changes and is identified with the Firebase uid.  A key of *)
(* the rate limiter names its minute and is never read after it, so only   *)
(* the counters of the current minute are kept and EXPIRE is left out.     *)
(***************************************************************************)
EXTENDS Integers

CONSTANTS Requests,      \* goroutines that serve requests, over and over
          Uids,          \* Firebase accounts
          Ips,
          Emails,
          Allowance,     \* requests per minute of each limited route
          UserTTL,       \* 12 hours
          MaxHits,       \* bound: limited requests that arrive in a minute
          MaxChanges,    \* bound: plan and email changes
          MaxFaults,     \* bound: failed or repeated calls
          Nobody, NoUser, NoIp

Plans == {"free", "pro"}
User == [plan : Plans, email : Emails]

\* main.go: the routes with a rate limiter and those that require a token; live,
\* stream and claim, which do too, pass as me does.
Limited == {"shorten", "urls", "analytics"}
Required == {"analytics", "me", "upgrade"}
Routes == Limited \cup Required

ASSUME AllowanceAssumption == Allowance \in [Limited -> Nat]
ASSUME TimeAssumption == UserTTL \in Nat \ {0}
ASSUME BoundAssumption == MaxHits \in Nat /\ MaxChanges \in Nat /\ MaxFaults \in Nat
ASSUME ValueAssumption == Emails # {} /\ Nobody \notin Uids /\ NoUser \notin User

VARIABLES users,       \* users table, by firebase_uid
          claim,       \* the email in the tokens that the account presents
          cache,       \* Redis keys user_sync:<uid>
          hits,        \* Redis keys rate:<ip>:<this minute>
          pc, ask,     \* each request: where it is; route, address and token
          ctx,         \* each request: the user that c.Set put in its context
          within,      \* history: passes this minute on routes that allow as little
          opened,      \* history: errors this minute that let a request through
          suspect,     \* history: accounts whose cache entry may be old
          raced,       \* history: requests whose context may be old
          changes, faults

account == <<users, claim>>
limiter == <<hits, within, opened>>
vars == <<account, cache, pc, ask, ctx, limiter, suspect, raced, changes, faults>>

NoRequest == [route |-> "none", who |-> Nobody, ip |-> NoIp, email |-> NoUser]
Uncached == [val |-> NoUser, ttl |-> 0]

Init ==
  /\ users = [u \in Uids |-> NoUser] /\ claim = [u \in Uids |-> CHOOSE e \in Emails : TRUE]
  /\ cache = [u \in Uids |-> Uncached]
  /\ hits = [i \in Ips |-> 0]
  /\ pc = [r \in Requests |-> "idle"] /\ ask = [r \in Requests |-> NoRequest]
  /\ ctx = [r \in Requests |-> NoUser]
  /\ within = [i \in Ips |-> [q \in Limited |-> 0]] /\ opened = [i \in Ips |-> 0]
  /\ suspect = {} /\ raced = {}
  /\ changes = 0 /\ faults = 0

route(r) == ask[r].route
who(r) == ask[r].who
Row(r) == users[who(r)]

\* The middleware goes on with user as the caller.
Enter(r, label, user) ==
  /\ pc' = [pc EXCEPT ![r] = label]
  /\ ctx' = [ctx EXCEPT ![r] = user]
  /\ UNCHANGED ask

Goto(r, label) == Enter(r, label, ctx[r]) /\ UNCHANGED raced

\* The context ends with its request.
Respond(r) ==
  /\ pc' = [pc EXCEPT ![r] = "idle"]
  /\ ask' = [ask EXCEPT ![r] = NoRequest]
  /\ ctx' = [ctx EXCEPT ![r] = NoUser]

End(r) == Respond(r) /\ raced' = raced \ {r}

Fault == faults < MaxFaults /\ faults' = faults + 1
Change == changes < MaxChanges /\ changes' = changes + 1

AfterAuth(rt) == IF rt \in Limited THEN "limit" ELSE "handle"

\* The requests of account u that have read its row and not cached it yet,
\* and the upgrades that have changed the row and not deleted the entry yet.
Filling(u) == {r \in Requests : who(r) = u /\ pc[r] = "fill"}
Deleting(u) == {r \in Requests : who(r) = u /\ pc[r] = "del"}

-----------------------------------------------------------------------------
(* middleware/auth.go: FirebaseAuth *)

\* Nobody stands for a request without a bearer token, or with one that
\* VerifyIDToken refuses: it goes on as anonymous, unless the route requires a
\* token, where it ends here with 401.
Arrive(r, rt, i, u) ==
  /\ pc[r] = "idle"
  /\ u = Nobody => rt \notin Required
  /\ rt \in Limited => hits[i] < MaxHits
  /\ pc' = [pc EXCEPT ![r] = IF u = Nobody THEN AfterAuth(rt) ELSE "read"]
  /\ ask' = [ask EXCEPT ![r] = [route |-> rt, who |-> u, ip |-> i,
                                email |-> IF u = Nobody THEN NoUser ELSE claim[u]]]
  /\ UNCHANGED <<account, cache, ctx, limiter, suspect, raced, changes, faults>>

\* GET user_sync:<uid> finds a user, who is old if an upgrade has yet to
\* delete the entry.
CacheHit(r) ==
  LET u == who(r)
  IN /\ pc[r] = "read" /\ cache[u].val # NoUser
     /\ Enter(r, AfterAuth(route(r)), cache[u].val)
     /\ raced' = IF u \in suspect \/ Deleting(u) # {} THEN raced \cup {r} ELSE raced
     /\ UNCHANGED <<account, cache, limiter, suspect, changes, faults>>

CacheMiss(r) ==
  /\ pc[r] = "read" /\ cache[who(r)].val = NoUser
  /\ Goto(r, "upsert")
  /\ UNCHANGED <<account, cache, limiter, suspect, changes, faults>>

\* An error of Redis counts as a miss.
ReadCacheFails(r) ==
  /\ pc[r] = "read" /\ Fault
  /\ Goto(r, "upsert")
  /\ UNCHANGED <<account, cache, limiter, suspect, changes>>

\* Mutant: the conflict clause writes the whole row, with the default plan.
UpsertedAfresh(r) == [plan |-> "free", email |-> ask[r].email]

\* Mutant: the column has no default.
UpsertedNoDefault(r) ==
  [plan |-> IF Row(r) = NoUser THEN "" ELSE Row(r).plan, email |-> ask[r].email]

\* INSERT ... ON CONFLICT (firebase_uid) DO UPDATE SET email: a new row gets
\* the default plan, an old row keeps its own.
Upserted(r) ==
  [plan |-> IF Row(r) = NoUser THEN "free" ELSE Row(r).plan, email |-> ask[r].email]

Upsert(r) ==
  /\ pc[r] = "upsert"
  /\ users' = [users EXCEPT ![who(r)] = Upserted(r)]
  /\ Enter(r, "fill", Upserted(r))
  /\ UNCHANGED <<claim, cache, limiter, suspect, raced, changes, faults>>

\* The statement fails, or only its reply is lost: 500.
UpsertFails(r) ==
  /\ pc[r] = "upsert" /\ Fault
  /\ users' \in {users, [users EXCEPT ![who(r)] = Upserted(r)]}
  /\ End(r)
  /\ UNCHANGED <<claim, cache, limiter, suspect, changes>>

\* Mutant: SET without a TTL.
EntryForever(user) == [val |-> user, ttl |-> 0]

\* 12 hours.
Entry(user) == [val |-> user, ttl |-> UserTTL]

\* Fire-and-forget SET.
Fill(r) ==
  /\ pc[r] = "fill"
  /\ cache' = [cache EXCEPT ![who(r)] = Entry(ctx[r])]
  /\ Goto(r, AfterAuth(route(r)))
  /\ UNCHANGED <<account, limiter, suspect, changes, faults>>

FillFails(r) ==
  /\ pc[r] = "fill" /\ Fault
  /\ Goto(r, AfterAuth(route(r)))
  /\ UNCHANGED <<account, cache, limiter, suspect, changes>>

-----------------------------------------------------------------------------
(* middleware/ratelimit.go: RateLimiter.  The key names the address and the *)
(* minute, not the route.                                                   *)

\* A pass counts for every route that allows at least as much as route rt.
Passes(i, rt) ==
  within' = [within EXCEPT ![i] =
    [q \in Limited |-> IF Allowance[rt] <= Allowance[q] THEN @[q] + 1 ELSE @[q]]]

\* Mutant: the limit itself is one too many.
AllowsOneMore(rt, count) == count <= Allowance[rt] + 1

Allows(rt, count) == count <= Allowance[rt]

\* INCR, executed n times because a reply was lost, and the decision on the
\* last reply.
Count(r, n) ==
  LET i == ask[r].ip
  IN /\ pc[r] = "limit"
     /\ hits' = [hits EXCEPT ![i] = @ + n]
     /\ IF Allows(route(r), hits[i] + n)
        THEN Goto(r, "handle") /\ Passes(i, route(r))
        ELSE End(r) /\ UNCHANGED within
     /\ UNCHANGED <<account, cache, opened, suspect, changes>>

RateLimit(r) == Count(r, 1) /\ UNCHANGED faults
RateLimitRetried(r) == Count(r, 2) /\ Fault

\* Redis is unavailable: fail open.
RateLimitFails(r) ==
  LET i == ask[r].ip
  IN /\ pc[r] = "limit" /\ Fault
     /\ hits' \in {hits, [hits EXCEPT ![i] = @ + 1]}
     /\ opened' = [opened EXCEPT ![i] = @ + 1]
     /\ Goto(r, "handle") /\ Passes(i, route(r))
     /\ UNCHANGED <<account, cache, suspect, changes>>

-----------------------------------------------------------------------------
(* handlers.go: GetMe and UpgradePlan; the other handlers, in UrlService and *)
(* LiveStats, only read the context.                                         *)

GetUserPlan(r) == IF ctx[r] = NoUser THEN "free" ELSE ctx[r].plan

\* GetMe answers with the plan of the row and the limit of the plan in the
\* context.
Profile(r) == [plan |-> Row(r).plan, limitOf |-> GetUserPlan(r)]

\* Every handler but UpgradePlan only reads the account, or fails.
Handle(r) ==
  /\ pc[r] = "handle" /\ route(r) # "upgrade"
  /\ End(r)
  /\ UNCHANGED <<account, cache, limiter, suspect, changes, faults>>

\* A plan that is neither free nor pro: 400; or the UPDATE fails: 500.
UpgradeRefused(r) ==
  /\ pc[r] = "handle" /\ route(r) = "upgrade"
  /\ End(r)
  /\ UNCHANGED <<account, cache, limiter, suspect, changes, faults>>

\* UPDATE users SET plan: from here on the contexts of the account may be old.
UpdatePlan(r, plan) ==
  /\ pc[r] = "handle" /\ route(r) = "upgrade" /\ Change
  /\ users' = [users EXCEPT ![who(r)].plan = plan]

Overtaken(r) == {q \in Requests : who(q) = who(r) /\ ctx[q] # NoUser}

Upgrade(r, plan) ==
  /\ UpdatePlan(r, plan)
  /\ suspect' = IF Filling(who(r)) # {} THEN suspect \cup {who(r)} ELSE suspect
  /\ raced' = raced \cup Overtaken(r)
  /\ Enter(r, "del", ctx[r])
  /\ UNCHANGED <<claim, cache, limiter, faults>>

\* The UPDATE was executed and its reply is lost: 500, and the entry stays.
UpgradeReplyLost(r, plan) ==
  /\ UpdatePlan(r, plan) /\ Fault
  /\ suspect' = suspect \cup {who(r)}
  /\ raced' = (raced \cup Overtaken(r)) \ {r}
  /\ Respond(r)
  /\ UNCHANGED <<claim, cache, limiter>>

Deleted(r) ==
  LET u == who(r)
  IN /\ pc[r] = "del"
     /\ suspect' = IF Filling(u) = {} THEN suspect \ {u} ELSE suspect \cup {u}
     /\ End(r)
     /\ UNCHANGED <<account, limiter, changes, faults>>

\* Mutant: the key is built from another id than the one the cache uses.
DelOtherKey(r) == Deleted(r) /\ UNCHANGED cache

\* DEL user_sync:<uid>, with the uid of the context.
Del(r) == Deleted(r) /\ cache' = [cache EXCEPT ![who(r)] = Uncached]

\* The error of DEL is ignored.
DelFails(r) ==
  /\ pc[r] = "del" /\ Fault
  /\ suspect' = suspect \cup {who(r)}
  /\ End(r)
  /\ UNCHANGED <<account, cache, limiter, changes>>

-----------------------------------------------------------------------------
(* The environment *)

\* From here on the account presents tokens with another email address, up to
\* an hour after the user has taken it at the identity provider.
ChangeEmail(u) ==
  /\ Change
  /\ \E e \in Emails \ {claim[u]} : claim' = [claim EXCEPT ![u] = e]
  /\ UNCHANGED <<users, cache, pc, ask, ctx, limiter, suspect, raced, faults>>

\* At 0 Redis drops the entry.
Aged(entry) == IF entry.ttl = 1 THEN Uncached ELSE [entry EXCEPT !.ttl = @ - 1]

\* Time passes for the entry of one account.
Age(u) ==
  /\ cache[u].ttl > 0
  /\ cache' = [cache EXCEPT ![u] = Aged(cache[u])]
  /\ suspect' = IF cache[u].ttl = 1 /\ Filling(u) = {} THEN suspect \ {u} ELSE suspect
  /\ UNCHANGED <<account, pc, ask, ctx, limiter, raced, changes, faults>>

MinuteTurns ==
  /\ hits' = [i \in Ips |-> 0]
  /\ within' = [i \in Ips |-> [q \in Limited |-> 0]]
  /\ opened' = [i \in Ips |-> 0]
  /\ UNCHANGED <<account, cache, pc, ask, ctx, suspect, raced, changes, faults>>

Serve(r) == \/ CacheHit(r) \/ CacheMiss(r) \/ Upsert(r) \/ Fill(r) \/ RateLimit(r)
            \/ Handle(r) \/ UpgradeRefused(r) \/ Del(r)
            \/ \E plan \in Plans : Upgrade(r, plan)

ServeWithFault(r) == \/ ReadCacheFails(r) \/ UpsertFails(r) \/ FillFails(r)
                     \/ RateLimitRetried(r) \/ RateLimitFails(r) \/ DelFails(r)
                     \/ \E plan \in Plans : UpgradeReplyLost(r, plan)

Next == \/ \E r \in Requests : \/ Serve(r) \/ ServeWithFault(r)
                               \/ \E rt \in Routes, i \in Ips, u \in Uids \cup {Nobody} :
                                    Arrive(r, rt, i, u)
        \/ \E u \in Uids : ChangeEmail(u) \/ Age(u)
        \/ MinuteTurns

\* A request that has arrived is served, and Redis expires its keys.
Spec == Init /\ [][Next]_vars
        /\ \A r \in Requests : WF_vars(Serve(r))
        /\ \A u \in Uids : WF_vars(Age(u))

-----------------------------------------------------------------------------
(* Properties *)

Asks == [route : Routes, who : Uids \cup {Nobody}, ip : Ips, email : Emails \cup {NoUser}]

\* Type invariant of the two middlewares and of the account handlers.
TypeOK ==
  /\ users \in [Uids -> User \cup {NoUser}] /\ claim \in [Uids -> Emails]
  /\ cache \in [Uids -> [val : User \cup {NoUser}, ttl : 0..UserTTL]]
  /\ hits \in [Ips -> Nat]
  /\ pc \in [Requests -> {"idle", "read", "upsert", "fill", "limit", "handle", "del"}]
  /\ ask \in [Requests -> {NoRequest} \cup Asks]
  /\ ctx \in [Requests -> User \cup {NoUser}]
  /\ within \in [Ips -> [Limited -> Nat]] /\ opened \in [Ips -> Nat]
  /\ suspect \subseteq Uids /\ raced \subseteq Requests
  /\ changes \in 0..MaxChanges /\ faults \in 0..MaxFaults

\* handlers.go:394, "the next request picks up the new plan", as far as it
\* holds: the cached plan is that of the users table, and a profile shows the
\* limit of its plan, unless an upgrade is about to delete the entry, overtook
\* a request that had read the row, or could not delete it.
PlanIsFresh ==
  /\ \A u \in Uids : cache[u].val # NoUser /\ cache[u].val.plan # users[u].plan
                       => u \in suspect \/ Deleting(u) # {}
  /\ \A r \in Requests : ctx[r] # NoUser /\ Profile(r).plan # Profile(r).limitOf
                            => r \in raced

\* The one counter that shorten, urls and analytics share never lets more
\* requests through than the route with the smaller allowance may have, even
\* when a caller alternates between the routes; only errors of Redis do.
WithinAllowance == \A i \in Ips : \A rt \in Limited :
  within[i][rt] <= Allowance[rt] + opened[i]

\* The row of an account is created once and keeps its plan whatever the
\* concurrent first requests of the account do; only an upgrade changes it.
PlanIsKept == [][\A u \in Uids : users[u] # NoUser =>
  \/ users'[u] # NoUser /\ users'[u].plan = users[u].plan
  \/ \E r \in Requests : who(r) = u /\ route(r) = "upgrade" /\ pc[r] = "handle"
                         /\ pc'[r] # "handle"]_vars

\* An entry that has the wrong plan, or an email the user has given up, is
\* gone in the end, whatever requests and upgrades race: no entry is for ever.
StaleUserEnds == <>[](\A u \in Uids : cache[u].val # NoUser =>
  cache[u].val = [plan |-> users[u].plan, email |-> claim[u]])
=============================================================================
