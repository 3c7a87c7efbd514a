--------------------------- MODULE AccountsProofs ---------------------------
(***************************************************************************)
(* What Accounts promises for any number of requests, accounts and         *)
(* addresses, any allowances and any TTL.                                  *)
(***************************************************************************)
EXTENDS Accounts, TLAPS

\* A request that has a user in its context is that of an account with a row;
\* from the upsert on, every request with a token has one.
PlaceInv == \A r \in Requests :
  /\ pc[r] = "idle" => ctx[r] = NoUser
  /\ pc[r] # "idle" => ask[r] # NoRequest
  /\ pc[r] = "limit" => route(r) \in Limited
  /\ pc[r] \in {"read", "upsert"} => ask[r].email \in Emails
  /\ pc[r] \in {"read", "upsert", "fill", "del"} \/ route(r) = "upgrade" => who(r) \in Uids
  /\ pc[r] \in {"fill", "limit", "handle", "del"} /\ who(r) \in Uids => ctx[r] # NoUser
  /\ ctx[r] # NoUser => who(r) \in Uids /\ users[who(r)] # NoUser

RowInv == \A u \in Uids : users[u] = NoUser => cache[u].val = NoUser

Inv == TypeOK /\ PlaceInv /\ RowInv

LEMMA InitInv == Init => Inv
<1> SUFFICES ASSUME Init PROVE Inv
  OBVIOUS
<1>1. (CHOOSE e \in Emails : TRUE) \in Emails
  BY ValueAssumption
<1>2. TypeOK
  <2>1. claim \in [Uids -> Emails]
    BY <1>1 DEF Init
  <2>2. users \in [Uids -> User \cup {NoUser}] /\ ctx \in [Requests -> User \cup {NoUser}]
    BY DEF Init
  <2>3. cache \in [Uids -> [val : User \cup {NoUser}, ttl : 0..UserTTL]]
    BY TimeAssumption DEF Init, Uncached
  <2>4. hits \in [Ips -> Nat] /\ within \in [Ips -> [Limited -> Nat]] /\ opened \in [Ips -> Nat]
    BY DEF Init
  <2>5. /\ pc \in [Requests -> {"idle", "read", "upsert", "fill", "limit", "handle", "del"}]
        /\ ask \in [Requests -> {NoRequest} \cup Asks]
    BY DEF Init
  <2> QED
    BY <2>1, <2>2, <2>3, <2>4, <2>5, BoundAssumption DEF Init, TypeOK
<1>3. PlaceInv /\ RowInv
  BY DEF Init, PlaceInv, RowInv, NoRequest, Uncached, route, who
<1> QED
  BY <1>2, <1>3 DEF Inv

LEMMA ArriveInv ==
  ASSUME Inv, NEW r \in Requests, 
         NEW rt \in Routes, NEW i \in Ips, NEW u \in Uids \cup {Nobody}, Arrive(r, rt, i, u)
  PROVE  Inv'
<1>1. TypeOK'
  BY DEF Inv, TypeOK, Asks, PlaceInv, Arrive, AfterAuth, Required, limiter, account, who, route
<1>2. PlaceInv'
  <2>1. rt # "none" /\ (rt = "upgrade" => u \in Uids)
    BY DEF Routes, Limited, Required, Arrive
  <2>2. \A q \in Requests \ {r} : pc'[q] = pc[q] /\ ask'[q] = ask[q]
    BY DEF Inv, TypeOK, Arrive
  <2>3. /\ pc'[r] = IF u = Nobody THEN AfterAuth(rt) ELSE "read"
        /\ ask'[r] = [route |-> rt, who |-> u, ip |-> i,
                      email |-> IF u = Nobody THEN NoUser ELSE claim[u]]
    BY DEF Inv, TypeOK, Arrive
  <2>4. u # Nobody => claim[u] \in Emails
    BY DEF Inv, TypeOK
  <2>5. ctx[r] = NoUser /\ ctx' = ctx /\ users' = users
    BY DEF Inv, PlaceInv, Arrive, account
  <2> QED
    BY <2>1, <2>2, <2>3, <2>4, <2>5, ValueAssumption
    DEF Inv, PlaceInv, AfterAuth, NoRequest, who, route
<1>3. RowInv'
  BY DEF Inv, RowInv, Arrive, AfterAuth, Required, limiter, account, who, route
<1> QED
  BY <1>1, <1>2, <1>3 DEF Inv

LEMMA CacheHitInv ==
  ASSUME Inv, NEW r \in Requests, CacheHit(r)
  PROVE  Inv'
<1>1. TypeOK'
  BY DEF Inv, TypeOK, PlaceInv, CacheHit, Enter, AfterAuth, limiter, account, who, route
<1>2. PlaceInv'
  BY DEF Inv, TypeOK, PlaceInv, RowInv, CacheHit, Enter, AfterAuth, limiter, account, who, route
<1>3. RowInv'
  BY DEF Inv, RowInv, CacheHit, Enter, AfterAuth, limiter, account, who, route
<1> QED
  BY <1>1, <1>2, <1>3 DEF Inv

LEMMA CacheMissInv ==
  ASSUME Inv, NEW r \in Requests, CacheMiss(r)
  PROVE  Inv'
<1>1. TypeOK'
  BY DEF Inv, TypeOK, PlaceInv, CacheMiss, Goto, Enter, limiter, account, who, route
<1>2. PlaceInv'
  BY DEF Inv, TypeOK, PlaceInv, RowInv, CacheMiss, Goto, Enter, limiter, account, who, route
<1>3. RowInv'
  BY DEF Inv, RowInv, CacheMiss, Goto, Enter, limiter, account, who, route
<1> QED
  BY <1>1, <1>2, <1>3 DEF Inv

LEMMA ReadCacheFailsInv ==
  ASSUME Inv, NEW r \in Requests, ReadCacheFails(r)
  PROVE  Inv'
<1>1. TypeOK'
  BY BoundAssumption DEF Inv, TypeOK, PlaceInv, ReadCacheFails, Goto, Enter, Fault, limiter, account, who, route
<1>2. PlaceInv'
  BY DEF Inv, TypeOK, PlaceInv, RowInv, ReadCacheFails, Goto, Enter, Fault, limiter, account, who, route
<1>3. RowInv'
  BY DEF Inv, RowInv, ReadCacheFails, Goto, Enter, Fault, limiter, account, who, route
<1> QED
  BY <1>1, <1>2, <1>3 DEF Inv

LEMMA UpsertInv ==
  ASSUME Inv, NEW r \in Requests, Upsert(r)
  PROVE  Inv'
<1>1. TypeOK'
  BY DEF Inv, TypeOK, PlaceInv, Upsert, Upserted, Row, Enter, User, Plans, limiter, account, who, route
<1>2. PlaceInv'
  BY ValueAssumption DEF Inv, TypeOK, PlaceInv, RowInv, Upsert, Upserted, Row, Enter, User, Plans, limiter, account, who, route
<1>3. RowInv'
  BY ValueAssumption DEF Inv, RowInv, Upsert, Upserted, Row, TypeOK, PlaceInv, User, Plans, limiter, account, who, route
<1> QED
  BY <1>1, <1>2, <1>3 DEF Inv

LEMMA UpsertFailsInv ==
  ASSUME Inv, NEW r \in Requests, UpsertFails(r)
  PROVE  Inv'
<1>1. TypeOK'
  BY BoundAssumption DEF Inv, TypeOK, PlaceInv, UpsertFails, Upserted, Row, End, Respond, Fault, User, Plans, limiter, account, who, route
<1>2. PlaceInv'
  BY ValueAssumption DEF Inv, TypeOK, PlaceInv, RowInv, UpsertFails, Upserted, Row, End, Respond, NoRequest, User, Plans, limiter, account, who, route
<1>3. RowInv'
  BY ValueAssumption DEF Inv, RowInv, UpsertFails, Upserted, Row, TypeOK, PlaceInv, User, Plans, limiter, account, who, route
<1> QED
  BY <1>1, <1>2, <1>3 DEF Inv

LEMMA FillInv ==
  ASSUME Inv, NEW r \in Requests, Fill(r)
  PROVE  Inv'
<1>1. TypeOK'
  BY TimeAssumption DEF Inv, TypeOK, PlaceInv, Fill, Entry, Goto, Enter, AfterAuth, limiter, account, who, route
<1>2. PlaceInv'
  BY DEF Inv, TypeOK, PlaceInv, RowInv, Fill, Entry, Goto, Enter, AfterAuth, limiter, account, who, route
<1>3. RowInv'
  BY DEF Inv, RowInv, Fill, Entry, Goto, Enter, AfterAuth, PlaceInv, TypeOK, limiter, account, who, route
<1> QED
  BY <1>1, <1>2, <1>3 DEF Inv

LEMMA FillFailsInv ==
  ASSUME Inv, NEW r \in Requests, FillFails(r)
  PROVE  Inv'
<1>1. TypeOK'
  BY BoundAssumption DEF Inv, TypeOK, PlaceInv, FillFails, Goto, Enter, AfterAuth, Fault, limiter, account, who, route
<1>2. PlaceInv'
  BY DEF Inv, TypeOK, PlaceInv, RowInv, FillFails, Goto, Enter, AfterAuth, Fault, limiter, account, who, route
<1>3. RowInv'
  BY DEF Inv, RowInv, FillFails, Goto, Enter, AfterAuth, Fault, limiter, account, who, route
<1> QED
  BY <1>1, <1>2, <1>3 DEF Inv

\* A request at the limiter is on a limited route and has an address.
LEMMA LimitedPlace ==
  ASSUME Inv, NEW r \in Requests, pc[r] = "limit"
  PROVE  ask[r].ip \in Ips /\ route(r) \in Limited
  BY DEF Inv, TypeOK, Asks, PlaceInv

LEMMA PassesType ==
  ASSUME TypeOK, NEW i \in Ips, NEW rt \in Limited, Passes(i, rt)
  PROVE  /\ within' \in [Ips -> [Limited -> Nat]]
         /\ \A q \in Limited : within'[i][q] =
              IF Allowance[rt] <= Allowance[q] THEN within[i][q] + 1 ELSE within[i][q]
         /\ \A j \in Ips \ {i} : within'[j] = within[j]
<1> DEFINE new == [q \in Limited |->
                     IF Allowance[rt] <= Allowance[q] THEN within[i][q] + 1 ELSE within[i][q]]
<1>1. within' = [within EXCEPT ![i] = new]
  BY DEF Passes
<1>2. within[i] \in [Limited -> Nat]
  BY DEF TypeOK
<1>3. new \in [Limited -> Nat]
  BY <1>2
<1> HIDE DEF new
<1>4. within' \in [Ips -> [Limited -> Nat]] /\ within'[i] = new
      /\ \A j \in Ips \ {i} : within'[j] = within[j]
  BY <1>1, <1>3 DEF TypeOK
<1> QED
  BY <1>4 DEF new

LEMMA CountInv ==
  ASSUME Inv, NEW r \in Requests, NEW n \in 1..2, Count(r, n),
         UNCHANGED faults \/ Fault
  PROVE  Inv'
<1>1. TypeOK'
  <2>1. hits' \in [Ips -> Nat] /\ faults' \in 0..MaxFaults
    BY LimitedPlace, BoundAssumption DEF Inv, TypeOK, Count, Fault
  <2>2. within' \in [Ips -> [Limited -> Nat]]
    BY LimitedPlace, PassesType DEF Inv, TypeOK, Count
  <2>3. /\ pc' \in [Requests -> {"idle", "read", "upsert", "fill", "limit", "handle", "del"}]
        /\ ask' \in [Requests -> {NoRequest} \cup Asks]
        /\ ctx' \in [Requests -> User \cup {NoUser}] /\ raced' \subseteq Requests
    BY DEF Inv, TypeOK, Count, Goto, Enter, End, Respond
  <2> QED
    BY <2>1, <2>2, <2>3 DEF Inv, TypeOK, Count, account
<1>2. PlaceInv'
  BY ValueAssumption DEF Inv, TypeOK, PlaceInv, RowInv, Count, Goto, Enter, End, Respond, NoRequest, limiter, account, who, route
<1>3. RowInv'
  BY DEF Inv, RowInv, Count, Goto, Enter, End, Respond, limiter, account, who, route
<1> QED
  BY <1>1, <1>2, <1>3 DEF Inv

LEMMA RateLimitInv ==
  ASSUME Inv, NEW r \in Requests, RateLimit(r) \/ RateLimitRetried(r)
  PROVE  Inv'
  BY CountInv DEF RateLimit, RateLimitRetried

LEMMA RateLimitFailsInv ==
  ASSUME Inv, NEW r \in Requests, RateLimitFails(r)
  PROVE  Inv'
<1>1. TypeOK'
  BY BoundAssumption DEF Inv, TypeOK, Asks, PlaceInv, RateLimitFails, Goto, Enter, Passes, Fault, limiter, account, who, route
<1>2. PlaceInv'
  BY DEF Inv, TypeOK, PlaceInv, RowInv, RateLimitFails, Goto, Enter, limiter, account, who, route
<1>3. RowInv'
  BY DEF Inv, RowInv, RateLimitFails, Goto, Enter, limiter, account, who, route
<1> QED
  BY <1>1, <1>2, <1>3 DEF Inv

LEMMA HandleInv ==
  ASSUME Inv, NEW r \in Requests, Handle(r) \/ UpgradeRefused(r)
  PROVE  Inv'
<1>1. TypeOK'
  BY DEF Inv, TypeOK, PlaceInv, Handle, UpgradeRefused, End, Respond, limiter, account, who, route
<1>2. PlaceInv'
  <2>1. \A q \in Requests \ {r} : pc'[q] = pc[q] /\ ask'[q] = ask[q] /\ ctx'[q] = ctx[q]
    BY DEF Inv, TypeOK, Handle, UpgradeRefused, End, Respond
  <2>2. pc'[r] = "idle" /\ ctx'[r] = NoUser /\ ask'[r] = NoRequest /\ users' = users
    BY DEF Inv, TypeOK, Handle, UpgradeRefused, End, Respond, account
  <2>3. route(r)' # "upgrade"
    BY <2>2, ValueAssumption DEF route, NoRequest
  <2> QED
    BY <2>1, <2>2, <2>3 DEF Inv, PlaceInv, who, route
<1>3. RowInv'
  BY DEF Inv, RowInv, Handle, UpgradeRefused, End, Respond, limiter, account, who, route
<1> QED
  BY <1>1, <1>2, <1>3 DEF Inv

\* What UPDATE users SET plan leaves of the rows.
LEMMA UpdatedRow ==
  ASSUME Inv, NEW r \in Requests, NEW plan \in Plans, UpdatePlan(r, plan)
  PROVE  /\ users' \in [Uids -> User \cup {NoUser}]
         /\ who(r) \in Uids /\ users[who(r)] # NoUser /\ users'[who(r)].plan = plan
         /\ \A u \in Uids : users[u] # NoUser => users'[u] # NoUser
         /\ \A u \in Uids \ {who(r)} : users'[u] = users[u]
<1>1. who(r) \in Uids /\ users[who(r)] \in User
  BY DEF Inv, TypeOK, PlaceInv, UpdatePlan
<1>2. /\ [users[who(r)] EXCEPT !.plan = plan] \in User
      /\ [users[who(r)] EXCEPT !.plan = plan].plan = plan
  BY <1>1 DEF User
<1>3. users' = [users EXCEPT ![who(r)] = [users[who(r)] EXCEPT !.plan = plan]]
  BY DEF UpdatePlan
<1> QED
  BY <1>1, <1>2, <1>3, ValueAssumption DEF Inv, TypeOK

LEMMA UpgradeInv ==
  ASSUME Inv, NEW r \in Requests, NEW plan \in Plans, Upgrade(r, plan)
  PROVE  Inv'
<1>1. TypeOK'
  <2>1. users' \in [Uids -> User \cup {NoUser}]
    BY UpdatedRow DEF Upgrade
  <2>2. /\ pc' \in [Requests -> {"idle", "read", "upsert", "fill", "limit", "handle", "del"}]
        /\ ask' \in [Requests -> {NoRequest} \cup Asks]
        /\ ctx' \in [Requests -> User \cup {NoUser}]
    BY DEF Inv, TypeOK, Upgrade, Enter
  <2>3. suspect' \subseteq Uids /\ raced' \subseteq Requests
    BY DEF Inv, TypeOK, PlaceInv, Upgrade, UpdatePlan, Overtaken
  <2>4. changes' \in 0..MaxChanges /\ faults' \in 0..MaxFaults
    BY BoundAssumption DEF Inv, TypeOK, Upgrade, UpdatePlan, Change
  <2> QED
    BY <2>1, <2>2, <2>3, <2>4 DEF Inv, TypeOK, Upgrade, limiter
<1>2. PlaceInv'
  <2>1. \A u \in Uids : users[u] # NoUser => users'[u] # NoUser
    BY UpdatedRow DEF Upgrade
  <2>2. \A q \in Requests \ {r} : pc'[q] = pc[q]
    BY DEF Inv, TypeOK, Upgrade, Enter
  <2>3. pc[r] = "handle" /\ pc'[r] = "del" /\ route(r) = "upgrade"
    BY DEF Inv, TypeOK, Upgrade, UpdatePlan, Enter
  <2>4. ask' = ask /\ \A q \in Requests : ctx'[q] = ctx[q]
    BY DEF Inv, TypeOK, Upgrade, Enter
  <2> QED
    BY <2>1, <2>2, <2>3, <2>4 DEF Inv, PlaceInv, who, route
<1>3. RowInv'
  <2>1. cache' = cache /\ \A u \in Uids : users'[u] = NoUser => users[u] = NoUser
    BY UpdatedRow DEF Upgrade
  <2> QED
    BY <2>1 DEF Inv, RowInv
<1> QED
  BY <1>1, <1>2, <1>3 DEF Inv

LEMMA UpgradeReplyLostInv ==
  ASSUME Inv, NEW r \in Requests, NEW plan \in Plans, UpgradeReplyLost(r, plan)
  PROVE  Inv'
<1>1. TypeOK'
  <2>1. users' \in [Uids -> User \cup {NoUser}]
    BY UpdatedRow DEF UpgradeReplyLost
  <2>2. /\ pc' \in [Requests -> {"idle", "read", "upsert", "fill", "limit", "handle", "del"}]
        /\ ask' \in [Requests -> {NoRequest} \cup Asks]
        /\ ctx' \in [Requests -> User \cup {NoUser}]
    BY DEF Inv, TypeOK, UpgradeReplyLost, Respond
  <2>3. suspect' \subseteq Uids /\ raced' \subseteq Requests
    BY DEF Inv, TypeOK, PlaceInv, UpgradeReplyLost, UpdatePlan, Overtaken
  <2>4. changes' \in 0..MaxChanges /\ faults' \in 0..MaxFaults
    BY BoundAssumption DEF Inv, TypeOK, UpgradeReplyLost, UpdatePlan, Change, Fault
  <2> QED
    BY <2>1, <2>2, <2>3, <2>4 DEF Inv, TypeOK, UpgradeReplyLost, limiter
<1>2. PlaceInv'
  BY ValueAssumption DEF Inv, TypeOK, PlaceInv, RowInv, UpgradeReplyLost, UpdatePlan, Change, Respond, NoRequest, User, Plans, limiter, account, who, route
<1>3. RowInv'
  <2>1. cache' = cache /\ \A u \in Uids : users'[u] = NoUser => users[u] = NoUser
    BY UpdatedRow DEF UpgradeReplyLost
  <2> QED
    BY <2>1 DEF Inv, RowInv
<1> QED
  BY <1>1, <1>2, <1>3 DEF Inv

LEMMA DelInv ==
  ASSUME Inv, NEW r \in Requests, Del(r)
  PROVE  Inv'
<1>1. TypeOK'
  BY TimeAssumption DEF Inv, TypeOK, PlaceInv, Del, Deleted, Uncached, End, Respond, limiter, account, who, route
<1>2. PlaceInv'
  BY ValueAssumption DEF Inv, TypeOK, PlaceInv, RowInv, Del, Deleted, Uncached, End, Respond, NoRequest, limiter, account, who, route
<1>3. RowInv'
  BY DEF Inv, RowInv, Del, Deleted, Uncached, End, Respond, TypeOK, limiter, account, who, route
<1> QED
  BY <1>1, <1>2, <1>3 DEF Inv

LEMMA DelFailsInv ==
  ASSUME Inv, NEW r \in Requests, DelFails(r)
  PROVE  Inv'
<1>1. TypeOK'
  BY BoundAssumption DEF Inv, TypeOK, PlaceInv, DelFails, End, Respond, Fault, limiter, account, who, route
<1>2. PlaceInv'
  BY ValueAssumption DEF Inv, TypeOK, PlaceInv, RowInv, DelFails, End, Respond, Fault, NoRequest, limiter, account, who, route
<1>3. RowInv'
  BY DEF Inv, RowInv, DelFails, End, Respond, Fault, limiter, account, who, route
<1> QED
  BY <1>1, <1>2, <1>3 DEF Inv

LEMMA ChangeEmailInv ==
  ASSUME Inv, NEW u \in Uids, ChangeEmail(u)
  PROVE  Inv'
<1>1. TypeOK'
  BY BoundAssumption DEF Inv, TypeOK, PlaceInv, ChangeEmail, Change, limiter, account, who, route
<1>2. PlaceInv'
  BY DEF Inv, TypeOK, PlaceInv, RowInv, ChangeEmail, Change, limiter, account, who, route
<1>3. RowInv'
  BY DEF Inv, RowInv, ChangeEmail, Change, limiter, account, who, route
<1> QED
  BY <1>1, <1>2, <1>3 DEF Inv

LEMMA AgeInv ==
  ASSUME Inv, NEW u \in Uids, Age(u)
  PROVE  Inv'
<1>1. TypeOK'
  <2>1. cache[u] \in [val : User \cup {NoUser}, ttl : 0..UserTTL] /\ cache[u].ttl > 0
    BY DEF Inv, TypeOK, Age
  <2>2. Aged(cache[u]) \in [val : User \cup {NoUser}, ttl : 0..UserTTL]
    BY <2>1, TimeAssumption DEF Aged, Uncached
  <2>3. cache' \in [Uids -> [val : User \cup {NoUser}, ttl : 0..UserTTL]]
    BY <2>2 DEF Inv, TypeOK, Age
  <2> QED
    BY <2>3 DEF Inv, TypeOK, Age, account, limiter
<1>2. PlaceInv'
  BY DEF Inv, TypeOK, PlaceInv, RowInv, Age, Aged, Uncached, limiter, account, who, route
<1>3. RowInv'
  BY DEF Inv, RowInv, Age, Aged, Uncached, TypeOK, limiter, account, who, route
<1> QED
  BY <1>1, <1>2, <1>3 DEF Inv

LEMMA MinuteTurnsInv ==
  ASSUME Inv, MinuteTurns
  PROVE  Inv'
<1>1. TypeOK'
  BY DEF Inv, TypeOK, PlaceInv, MinuteTurns, limiter, account, who, route
<1>2. PlaceInv'
  BY DEF Inv, TypeOK, PlaceInv, RowInv, MinuteTurns, limiter, account, who, route
<1>3. RowInv'
  BY DEF Inv, RowInv, MinuteTurns, limiter, account, who, route
<1> QED
  BY <1>1, <1>2, <1>3 DEF Inv

LEMMA StepInv == Inv /\ [Next]_vars => Inv'
<1> SUFFICES ASSUME Inv, [Next]_vars PROVE Inv'
  OBVIOUS
<1>1. CASE \E r \in Requests : Serve(r)
  BY <1>1, CacheHitInv, CacheMissInv, UpsertInv, FillInv, RateLimitInv, HandleInv, DelInv,
     UpgradeInv DEF Serve
<1>2. CASE \E r \in Requests : ServeWithFault(r)
  BY <1>2, ReadCacheFailsInv, UpsertFailsInv, FillFailsInv, RateLimitInv, RateLimitFailsInv,
     DelFailsInv, UpgradeReplyLostInv DEF ServeWithFault
<1>3. CASE \E r \in Requests, rt \in Routes, i \in Ips, u \in Uids \cup {Nobody} :
             Arrive(r, rt, i, u)
  BY <1>3, ArriveInv
<1>4. CASE \E u \in Uids : ChangeEmail(u) \/ Age(u)
  BY <1>4, ChangeEmailInv, AgeInv
<1>5. CASE MinuteTurns
  BY <1>5, MinuteTurnsInv
<1>6. CASE UNCHANGED vars
  BY <1>6 DEF vars, account, limiter, Inv, TypeOK, PlaceInv, RowInv, who, route
<1> QED
  BY <1>1, <1>2, <1>3, <1>4, <1>5, <1>6 DEF Next

\* Of any number of requests, each is where its token and its route allow, and
\* every variable has its type.
THEOREM TypeCorrect == Spec => []TypeOK
<1>1. Inv => TypeOK
  BY DEF Inv
<1> QED
  BY <1>1, InitInv, StepInv, PTL DEF Spec

-----------------------------------------------------------------------------
(* The shared counter *)

\* Each pass has an INCR of its own, or an error that opened the limiter; and a
\* pass of a smaller route saw the counter below its own allowance.
LimitInv == \A i \in Ips : \A q \in Limited :
  /\ within[i][q] <= hits[i] + opened[i]
  /\ within[i][q] <= Allowance[q] + opened[i]

LEMMA CountLimit ==
  ASSUME Inv, LimitInv, NEW r \in Requests, NEW n \in 1..2, Count(r, n)
  PROVE  LimitInv'
<1> DEFINE i == ask[r].ip
           rt == route(r)
<1>1. i \in Ips /\ rt \in Limited
  BY LimitedPlace DEF Count
<1>2. opened' = opened /\ hits'[i] = hits[i] + n /\ \A j \in Ips \ {i} : hits'[j] = hits[j]
  BY <1>1 DEF Count, Inv, TypeOK
<1>3. /\ \A j \in Ips : hits[j] \in Nat /\ opened[j] \in Nat
      /\ \A j \in Ips : \A q \in Limited : within[j][q] \in Nat
      /\ \A q \in Limited : Allowance[q] \in Nat
  BY AllowanceAssumption DEF Inv, TypeOK
<1>4. CASE Allows(rt, hits[i] + n)
  <2>1. Passes(i, rt)
    BY <1>4 DEF Count
  <2>2. /\ \A q \in Limited : within'[i][q] =
              IF Allowance[rt] <= Allowance[q] THEN within[i][q] + 1 ELSE within[i][q]
        /\ \A j \in Ips \ {i} : within'[j] = within[j]
    BY <1>1, <2>1, PassesType DEF Inv
  <2>3. hits[i] + n <= Allowance[rt]
    BY <1>4 DEF Allows
  <2>4. \A q \in Limited : /\ within'[i][q] <= hits'[i] + opened'[i]
                           /\ within'[i][q] <= Allowance[q] + opened'[i]
    BY <1>1, <1>2, <1>3, <2>2, <2>3 DEF LimitInv
  <2> QED
    BY <1>2, <2>2, <2>4 DEF LimitInv
<1>5. CASE ~Allows(rt, hits[i] + n)
  <2>1. within' = within
    BY <1>5 DEF Count
  <2> QED
    BY <1>1, <1>2, <1>3, <2>1 DEF LimitInv
<1> QED
  BY <1>4, <1>5

LEMMA FailLimit ==
  ASSUME Inv, LimitInv, NEW r \in Requests, RateLimitFails(r)
  PROVE  LimitInv'
<1> DEFINE i == ask[r].ip
           rt == route(r)
<1>1. i \in Ips /\ rt \in Limited
  BY LimitedPlace DEF RateLimitFails
<1>2. /\ \A j \in Ips : hits[j] \in Nat /\ opened[j] \in Nat
      /\ \A j \in Ips : \A q \in Limited : within[j][q] \in Nat
      /\ \A q \in Limited : Allowance[q] \in Nat
  BY AllowanceAssumption DEF Inv, TypeOK
<1>3. /\ hits'[i] \in {hits[i], hits[i] + 1} /\ opened'[i] = opened[i] + 1
      /\ \A j \in Ips \ {i} : hits'[j] = hits[j] /\ opened'[j] = opened[j]
  BY <1>1 DEF RateLimitFails, Inv, TypeOK
<1>4. /\ \A q \in Limited : within'[i][q] =
            IF Allowance[rt] <= Allowance[q] THEN within[i][q] + 1 ELSE within[i][q]
      /\ \A j \in Ips \ {i} : within'[j] = within[j]
  BY <1>1, PassesType DEF Inv, RateLimitFails
<1>5. \A q \in Limited : /\ within'[i][q] <= hits'[i] + opened'[i]
                         /\ within'[i][q] <= Allowance[q] + opened'[i]
  BY <1>1, <1>2, <1>3, <1>4 DEF LimitInv
<1> QED
  BY <1>3, <1>4, <1>5 DEF LimitInv

LEMMA StepLimit == Inv /\ LimitInv /\ [Next]_vars => LimitInv'
<1> SUFFICES ASSUME Inv, LimitInv, [Next]_vars PROVE LimitInv'
  OBVIOUS
<1>1. CASE UNCHANGED limiter
  BY <1>1 DEF LimitInv, limiter
<1>2. CASE \E r \in Requests : RateLimit(r) \/ RateLimitRetried(r)
  BY <1>2, CountLimit DEF RateLimit, RateLimitRetried
<1>3. CASE \E r \in Requests : RateLimitFails(r)
  BY <1>3, FailLimit
<1>4. CASE MinuteTurns
  BY <1>4, AllowanceAssumption DEF MinuteTurns, LimitInv
<1>5. UNCHANGED limiter \/ MinuteTurns
      \/ \E r \in Requests : RateLimit(r) \/ RateLimitRetried(r) \/ RateLimitFails(r)
  BY ZenonT(30) DEF Next, Serve, ServeWithFault, CacheHit, CacheMiss, Upsert, Fill, Handle,
     UpgradeRefused, Del, Deleted, Upgrade, ReadCacheFails, UpsertFails, FillFails, DelFails,
     UpgradeReplyLost, Arrive, ChangeEmail, Age, vars
<1> QED
  BY <1>1, <1>2, <1>3, <1>4, <1>5

LEMMA InitLimit == Init => LimitInv
  BY AllowanceAssumption DEF Init, LimitInv

\* However a caller mixes the routes that count on one key, none of them lets
\* through more than its allowance in a minute, but for errors of Redis.
THEOREM LimitHolds == Spec => []WithinAllowance
<1>1. LimitInv => WithinAllowance
  BY DEF LimitInv, WithinAllowance
<1> QED
  BY <1>1, InitInv, StepInv, InitLimit, StepLimit, PTL DEF Spec

-----------------------------------------------------------------------------
(* The row of an account *)

\* A row, once created, keeps its plan through every upsert, also one whose
\* reply is lost.
THEOREM PlanKept == Spec => PlanIsKept
<1>1. Inv /\ [Next]_vars => \A u \in Uids : users[u] # NoUser =>
         \/ users'[u] # NoUser /\ users'[u].plan = users[u].plan
         \/ \E r \in Requests : who(r) = u /\ route(r) = "upgrade" /\ pc[r] = "handle"
                                /\ pc'[r] # "handle"
  <2> SUFFICES ASSUME Inv, [Next]_vars, NEW u \in Uids, users[u] # NoUser
               PROVE  \/ users'[u] # NoUser /\ users'[u].plan = users[u].plan
                      \/ \E r \in Requests : who(r) = u /\ route(r) = "upgrade"
                                             /\ pc[r] = "handle" /\ pc'[r] # "handle"
    OBVIOUS
  <2>1. CASE users' = users
    BY <2>1
  <2>2. ASSUME NEW r \in Requests, pc[r] = "upsert",
               users' = [users EXCEPT ![who(r)] = Upserted(r)]
        PROVE  users'[u] # NoUser /\ users'[u].plan = users[u].plan
    BY <2>2, ValueAssumption DEF Inv, TypeOK, PlaceInv, Upserted, Row, User, Plans
  <2>3. ASSUME NEW r \in Requests, NEW plan \in Plans, UpdatePlan(r, plan), pc'[r] # "handle"
        PROVE  \/ users'[u] = users[u]
               \/ who(r) = u /\ route(r) = "upgrade" /\ pc[r] = "handle"
    BY <2>3, UpdatedRow DEF UpdatePlan
  <2>4. ASSUME NEW r \in Requests, Upsert(r) \/ UpsertFails(r)
        PROVE  pc[r] = "upsert"
    BY <2>4 DEF Upsert, UpsertFails
  <2>5. ASSUME NEW r \in Requests, NEW plan \in Plans,
               Upgrade(r, plan) \/ UpgradeReplyLost(r, plan)
        PROVE  UpdatePlan(r, plan) /\ pc'[r] # "handle"
    BY <2>5 DEF Inv, TypeOK, Upgrade, UpgradeReplyLost, Enter, Respond
  <2>6. \/ users' = users
        \/ \E r \in Requests : Upsert(r) \/ UpsertFails(r)
        \/ \E r \in Requests, plan \in Plans : Upgrade(r, plan) \/ UpgradeReplyLost(r, plan)
    BY ZenonT(30) DEF Next, Serve, ServeWithFault, CacheHit, CacheMiss, Fill, RateLimit,
       RateLimitRetried, RateLimitFails, Count, Handle, UpgradeRefused, Del, Deleted,
       ReadCacheFails, FillFails, DelFails, Arrive, ChangeEmail, Age, MinuteTurns, vars, account
  <2> QED
    BY <2>1, <2>2, <2>3, <2>4, <2>5, <2>6 DEF Upsert, UpsertFails
<1> QED
  BY <1>1, InitInv, StepInv, PTL DEF Spec, PlanIsKept

-----------------------------------------------------------------------------
(* The cached plan *)

\* A plan that differs from the row is excused: in the cache, or about to be
\* written to it, by an upgrade that has yet to delete the entry or one that
\* could not; in a context, by the upgrade that overtook the request.
Excused(u) == u \in suspect \/ Deleting(u) # {}

FreshCache == \A u \in Uids :
  cache[u].val # NoUser /\ cache[u].val.plan # users[u].plan => Excused(u)

FreshContext == \A r \in Requests :
  ctx[r] # NoUser /\ ctx[r].plan # Row(r).plan => r \in raced

FreshFill == \A r \in Requests :
  pc[r] = "fill" /\ ctx[r].plan # Row(r).plan => Excused(who(r))

FreshInv == FreshCache /\ FreshContext /\ FreshFill

\* What a request that ends, or moves on, leaves of the others.
LEMMA RespondFrame ==
  ASSUME Inv, NEW r \in Requests, Respond(r)
  PROVE  /\ pc'[r] = "idle" /\ ctx'[r] = NoUser
         /\ \A q \in Requests \ {r} : pc'[q] = pc[q] /\ who(q)' = who(q) /\ ctx'[q] = ctx[q]
  BY DEF Inv, TypeOK, Respond, who

LEMMA EnterFrame ==
  ASSUME Inv, NEW r \in Requests, NEW label, NEW user, Enter(r, label, user)
  PROVE  /\ pc'[r] = label /\ ctx'[r] = user
         /\ \A q \in Requests : who(q)' = who(q)
         /\ \A q \in Requests \ {r} : pc'[q] = pc[q] /\ ctx'[q] = ctx[q]
  BY DEF Inv, TypeOK, Enter, who

\* A step of a request that changes neither the rows nor the entries, and that
\* deletes nothing.
LEMMA PassFresh ==
  ASSUME Inv, FreshInv, NEW r \in Requests, pc[r] # "del", pc'[r] # "fill",
         users' = users, cache' = cache, suspect' = suspect,
         ctx'[r] = NoUser \/ (ctx'[r] = ctx[r] /\ who(r)' = who(r) /\ (r \in raced => r \in raced')),
         raced \ {r} \subseteq raced',
         \A q \in Requests \ {r} : pc'[q] = pc[q] /\ who(q)' = who(q) /\ ctx'[q] = ctx[q]
  PROVE  FreshInv'
<1>1. \A u : Excused(u) => Excused(u)'
  BY DEF Excused, Deleting
<1>2. FreshCache'
  BY <1>1 DEF FreshInv, FreshCache
<1>3. FreshContext'
  BY DEF FreshInv, FreshContext, Row
<1>4. FreshFill'
  BY <1>1 DEF FreshInv, FreshFill, Row
<1> QED
  BY <1>2, <1>3, <1>4 DEF FreshInv

LEMMA CacheHitFresh ==
  ASSUME Inv, FreshInv, NEW r \in Requests, CacheHit(r)
  PROVE  FreshInv'
<1>1. /\ pc'[r] = AfterAuth(route(r)) /\ ctx'[r] = cache[who(r)].val
      /\ \A q \in Requests : who(q)' = who(q)
      /\ \A q \in Requests \ {r} : pc'[q] = pc[q] /\ ctx'[q] = ctx[q]
  BY EnterFrame DEF CacheHit
<1>2. pc[r] = "read" /\ who(r) \in Uids
  BY DEF Inv, PlaceInv, CacheHit
<1>3. AfterAuth(route(r)) \notin {"fill", "del"}
  BY DEF AfterAuth
<1>4. users' = users /\ cache' = cache /\ suspect' = suspect
  BY DEF CacheHit, account
<1>5. \A u : Excused(u) => Excused(u)'
  BY <1>1, <1>2, <1>4 DEF Excused, Deleting
<1>6. raced \subseteq raced' /\ (Excused(who(r)) => r \in raced')
  BY DEF CacheHit, Excused
<1>7. FreshCache'
  BY <1>4, <1>5 DEF FreshInv, FreshCache
<1>8. FreshContext'
  BY <1>1, <1>2, <1>4, <1>6 DEF FreshInv, FreshCache, FreshContext, Row
<1>9. FreshFill'
  BY <1>1, <1>3, <1>4, <1>5 DEF FreshInv, FreshFill, Row
<1> QED
  BY <1>7, <1>8, <1>9 DEF FreshInv

\* What the upsert returns agrees with the row on the plan, and no other plan
\* changes.
LEMMA UpsertedRow ==
  ASSUME Inv, NEW r \in Requests, pc[r] = "upsert",
         users' = [users EXCEPT ![who(r)] = Upserted(r)]
  PROVE  /\ Upserted(r) # NoUser /\ users'[who(r)] = Upserted(r)
         /\ \A u \in Uids : users[u] # NoUser => users'[u].plan = users[u].plan
  BY ValueAssumption DEF Inv, TypeOK, PlaceInv, Upserted, Row, User, Plans

LEMMA UpsertFresh ==
  ASSUME Inv, FreshInv, NEW r \in Requests, Upsert(r)
  PROVE  FreshInv'
<1>1. /\ pc'[r] = "fill" /\ ctx'[r] = Upserted(r)
      /\ \A q \in Requests : who(q)' = who(q)
      /\ \A q \in Requests \ {r} : pc'[q] = pc[q] /\ ctx'[q] = ctx[q]
  BY EnterFrame DEF Upsert
<1>2. pc[r] = "upsert" /\ who(r) \in Uids
  BY DEF Inv, PlaceInv, Upsert
<1>3. /\ users'[who(r)] = Upserted(r)
      /\ \A u \in Uids : users[u] # NoUser => users'[u].plan = users[u].plan
  BY <1>2, UpsertedRow DEF Upsert
<1>4. cache' = cache /\ suspect' = suspect /\ raced' = raced
  BY DEF Upsert
<1>5. \A u : Excused(u) => Excused(u)'
  BY <1>1, <1>2, <1>4 DEF Excused, Deleting
<1>6. \A q \in Requests : ctx[q] # NoUser => who(q) \in Uids /\ users[who(q)] # NoUser
  BY DEF Inv, PlaceInv
<1>7. FreshCache'
  BY <1>3, <1>4, <1>5 DEF Inv, RowInv, FreshInv, FreshCache
<1>8. FreshContext'
  BY <1>1, <1>3, <1>4, <1>6 DEF FreshInv, FreshContext, Row
<1>9. FreshFill'
  <2>1. \A q \in Requests : pc[q] = "fill" => who(q) \in Uids /\ ctx[q] # NoUser
    BY DEF Inv, PlaceInv
  <2> QED
    BY <1>1, <1>3, <1>5, <1>6, <2>1 DEF FreshInv, FreshFill, Row
<1> QED
  BY <1>7, <1>8, <1>9 DEF FreshInv

LEMMA UpsertFailsFresh ==
  ASSUME Inv, FreshInv, NEW r \in Requests, UpsertFails(r)
  PROVE  FreshInv'
<1>1. /\ pc'[r] = "idle" /\ ctx'[r] = NoUser /\ raced' = raced \ {r}
      /\ \A q \in Requests \ {r} : pc'[q] = pc[q] /\ who(q)' = who(q) /\ ctx'[q] = ctx[q]
  BY RespondFrame DEF UpsertFails, End
<1>2. pc[r] = "upsert" /\ who(r) \in Uids
  BY DEF Inv, PlaceInv, UpsertFails
<1>3. \A u \in Uids : users[u] # NoUser => users'[u].plan = users[u].plan
  BY <1>2, UpsertedRow DEF UpsertFails
<1>4. cache' = cache /\ suspect' = suspect
  BY DEF UpsertFails
<1>5. \A u : Excused(u) => Excused(u)'
  BY <1>1, <1>2, <1>4 DEF Excused, Deleting
<1>6. \A q \in Requests : ctx[q] # NoUser => who(q) \in Uids /\ users[who(q)] # NoUser
  BY DEF Inv, PlaceInv
<1>7. FreshCache'
  BY <1>3, <1>4, <1>5 DEF Inv, RowInv, FreshInv, FreshCache
<1>8. FreshContext'
  BY <1>1, <1>3, <1>6 DEF FreshInv, FreshContext, Row
<1>9. FreshFill'
  <2>1. \A q \in Requests : pc[q] = "fill" => who(q) \in Uids /\ ctx[q] # NoUser
    BY DEF Inv, PlaceInv
  <2> QED
    BY <1>1, <1>3, <1>5, <1>6, <2>1 DEF FreshInv, FreshFill, Row
<1> QED
  BY <1>7, <1>8, <1>9 DEF FreshInv

LEMMA FillFresh ==
  ASSUME Inv, FreshInv, NEW r \in Requests, Fill(r)
  PROVE  FreshInv'
<1>1. /\ pc'[r] = AfterAuth(route(r)) /\ ctx'[r] = ctx[r]
      /\ \A q \in Requests : who(q)' = who(q)
      /\ \A q \in Requests \ {r} : pc'[q] = pc[q] /\ ctx'[q] = ctx[q]
  BY EnterFrame DEF Fill, Goto
<1>2. pc[r] = "fill" /\ who(r) \in Uids
  BY DEF Inv, PlaceInv, Fill
<1>3. AfterAuth(route(r)) \notin {"fill", "del"}
  BY DEF AfterAuth
<1>4. users' = users /\ suspect' = suspect /\ raced' = raced
  BY DEF Fill, account, Goto
<1>5. \A u : Excused(u) => Excused(u)'
  BY <1>1, <1>2, <1>4 DEF Excused, Deleting
<1>6. cache'[who(r)].val = ctx[r] /\ \A u \in Uids \ {who(r)} : cache'[u] = cache[u]
  BY <1>2 DEF Inv, TypeOK, Fill, Entry
<1>7. FreshCache'
  BY <1>2, <1>4, <1>5, <1>6 DEF FreshInv, FreshCache, FreshFill, Row
<1>8. FreshContext'
  BY <1>1, <1>4 DEF FreshInv, FreshContext, Row
<1>9. FreshFill'
  BY <1>1, <1>3, <1>4, <1>5 DEF FreshInv, FreshFill, Row
<1> QED
  BY <1>7, <1>8, <1>9 DEF FreshInv

LEMMA UpgradeFresh ==
  ASSUME Inv, FreshInv, NEW r \in Requests, NEW plan \in Plans, Upgrade(r, plan)
  PROVE  FreshInv'
<1>1. /\ pc'[r] = "del" /\ ctx'[r] = ctx[r]
      /\ \A q \in Requests : who(q)' = who(q)
      /\ \A q \in Requests \ {r} : pc'[q] = pc[q] /\ ctx'[q] = ctx[q]
  BY EnterFrame DEF Upgrade
<1>2. who(r) \in Uids /\ \A u \in Uids \ {who(r)} : users'[u] = users[u]
  BY UpdatedRow DEF Upgrade
<1>3. /\ cache' = cache /\ suspect \subseteq suspect'
      /\ raced' = raced \cup {q \in Requests : who(q) = who(r) /\ ctx[q] # NoUser}
  BY DEF Upgrade, Overtaken
<1>4. \A u : u = who(r) \/ Excused(u) => Excused(u)'
  BY <1>1, <1>3 DEF Excused, Deleting
<1>5. FreshCache'
  BY <1>2, <1>3, <1>4 DEF FreshInv, FreshCache
<1>6. FreshContext'
  BY <1>1, <1>2, <1>3 DEF Inv, PlaceInv, FreshInv, FreshContext, Row
<1>7. FreshFill'
  <2>1. \A q \in Requests : pc[q] = "fill" => who(q) \in Uids
    BY DEF Inv, PlaceInv
  <2> QED
    BY <1>1, <1>2, <1>4, <2>1 DEF FreshInv, FreshFill, Row
<1> QED
  BY <1>5, <1>6, <1>7 DEF FreshInv

LEMMA UpgradeReplyLostFresh ==
  ASSUME Inv, FreshInv, NEW r \in Requests, NEW plan \in Plans, UpgradeReplyLost(r, plan)
  PROVE  FreshInv'
<1>1. /\ pc'[r] = "idle" /\ ctx'[r] = NoUser
      /\ \A q \in Requests \ {r} : pc'[q] = pc[q] /\ who(q)' = who(q) /\ ctx'[q] = ctx[q]
  BY RespondFrame DEF UpgradeReplyLost
<1>2. /\ pc[r] = "handle" /\ who(r) \in Uids
      /\ \A u \in Uids \ {who(r)} : users'[u] = users[u]
  BY UpdatedRow DEF UpgradeReplyLost, UpdatePlan
<1>3. /\ cache' = cache /\ suspect' = suspect \cup {who(r)}
      /\ raced' = (raced \cup {q \in Requests : who(q) = who(r) /\ ctx[q] # NoUser}) \ {r}
  BY DEF UpgradeReplyLost, Overtaken
<1>4. \A u : u = who(r) \/ Excused(u) => Excused(u)'
  BY <1>1, <1>2, <1>3 DEF Excused, Deleting
<1>5. FreshCache'
  BY <1>2, <1>3, <1>4 DEF FreshInv, FreshCache
<1>6. FreshContext'
  BY <1>1, <1>2, <1>3 DEF Inv, PlaceInv, FreshInv, FreshContext, Row
<1>7. FreshFill'
  <2>1. \A q \in Requests : pc[q] = "fill" => who(q) \in Uids
    BY DEF Inv, PlaceInv
  <2> QED
    BY <1>1, <1>2, <1>4, <2>1 DEF FreshInv, FreshFill, Row
<1> QED
  BY <1>5, <1>6, <1>7 DEF FreshInv

LEMMA DelFresh ==
  ASSUME Inv, FreshInv, NEW r \in Requests, Del(r)
  PROVE  FreshInv'
<1>1. /\ pc'[r] = "idle" /\ ctx'[r] = NoUser /\ raced' = raced \ {r}
      /\ \A q \in Requests \ {r} : pc'[q] = pc[q] /\ who(q)' = who(q) /\ ctx'[q] = ctx[q]
  BY RespondFrame DEF Del, Deleted, End
<1>2. pc[r] = "del" /\ who(r) \in Uids
  BY DEF Inv, PlaceInv, Del, Deleted
<1>3. /\ users' = users /\ cache'[who(r)].val = NoUser
      /\ \A u \in Uids \ {who(r)} : cache'[u] = cache[u]
  BY <1>2 DEF Inv, TypeOK, Del, Deleted, account, Uncached
<1>4. /\ \A q \in Requests : who(q) = who(r) /\ pc[q] = "fill" => who(r) \in suspect'
      /\ suspect \ {who(r)} \subseteq suspect'
  BY DEF Del, Deleted, Filling
<1>5. \A u : u # who(r) /\ Excused(u) => Excused(u)'
  BY <1>1, <1>4 DEF Excused, Deleting
<1>6. FreshCache'
  BY <1>3, <1>5 DEF FreshInv, FreshCache
<1>7. FreshContext'
  BY <1>1, <1>3 DEF FreshInv, FreshContext, Row
<1>8. FreshFill'
  BY <1>1, <1>3, <1>4, <1>5 DEF FreshInv, FreshFill, Row, Excused
<1> QED
  BY <1>6, <1>7, <1>8 DEF FreshInv

LEMMA DelFailsFresh ==
  ASSUME Inv, FreshInv, NEW r \in Requests, DelFails(r)
  PROVE  FreshInv'
<1>1. /\ pc'[r] = "idle" /\ ctx'[r] = NoUser /\ raced' = raced \ {r}
      /\ \A q \in Requests \ {r} : pc'[q] = pc[q] /\ who(q)' = who(q) /\ ctx'[q] = ctx[q]
  BY RespondFrame DEF DelFails, End
<1>2. users' = users /\ cache' = cache /\ suspect' = suspect \cup {who(r)}
  BY DEF DelFails, account
<1>3. \A u : Excused(u) => Excused(u)'
  BY <1>1, <1>2 DEF Excused, Deleting
<1>4. FreshCache'
  BY <1>2, <1>3 DEF FreshInv, FreshCache
<1>5. FreshContext'
  BY <1>1, <1>2 DEF FreshInv, FreshContext, Row
<1>6. FreshFill'
  BY <1>1, <1>2, <1>3 DEF FreshInv, FreshFill, Row
<1> QED
  BY <1>4, <1>5, <1>6 DEF FreshInv

LEMMA AgeFresh ==
  ASSUME Inv, FreshInv, NEW u \in Uids, Age(u)
  PROVE  FreshInv'
<1>1. /\ users' = users /\ pc' = pc /\ ask' = ask /\ ctx' = ctx /\ raced' = raced
      /\ \A v \in Uids \ {u} : cache'[v] = cache[v]
  BY DEF Age, account, Inv, TypeOK
<1>2. \A v : Excused(v) /\ v # u => Excused(v)'
  BY <1>1 DEF Excused, Deleting, Age, who
<1>3. (\E q \in Requests : who(q) = u /\ pc[q] = "fill") => (Excused(u) => Excused(u)')
  BY <1>1 DEF Excused, Deleting, Filling, Age, who
<1>4. CASE cache[u].ttl = 1
  <2>1. cache'[u].val = NoUser
    BY <1>4 DEF Age, Aged, Uncached, Inv, TypeOK
  <2>2. FreshCache'
    BY <1>1, <1>2, <2>1 DEF FreshInv, FreshCache
  <2> QED
    BY <1>1, <1>2, <1>3, <2>2 DEF FreshInv, FreshContext, FreshFill, Row, who
<1>5. CASE cache[u].ttl # 1
  <2>1. cache'[u].val = cache[u].val
    BY <1>5 DEF Age, Aged, Inv, TypeOK
  <2>2. \A v : Excused(v) => Excused(v)'
    BY <1>1, <1>5 DEF Excused, Deleting, Age, who
  <2>3. FreshCache'
    BY <1>1, <2>1, <2>2 DEF FreshInv, FreshCache
  <2> QED
    BY <1>1, <2>2, <2>3 DEF FreshInv, FreshContext, FreshFill, Row, who
<1> QED
  BY <1>4, <1>5

LEMMA ArriveFresh ==
  ASSUME Inv, FreshInv, NEW r \in Requests,
         NEW rt \in Routes, NEW i \in Ips, NEW u \in Uids \cup {Nobody}, Arrive(r, rt, i, u)
  PROVE  FreshInv'
<1>1. pc[r] = "idle" /\ ctx' = ctx /\ ctx[r] = NoUser
  BY DEF Inv, PlaceInv, Arrive
<1>2. /\ pc'[r] # "fill"
      /\ \A q \in Requests \ {r} : pc'[q] = pc[q] /\ who(q)' = who(q)
  BY DEF Inv, TypeOK, Arrive, AfterAuth, who
<1> QED
  BY <1>1, <1>2, PassFresh DEF Arrive, account

LEMMA StepFresh == Inv /\ FreshInv /\ [Next]_vars => FreshInv'
<1> SUFFICES ASSUME Inv, FreshInv, [Next]_vars PROVE FreshInv'
  OBVIOUS
<1>1. ASSUME NEW r \in Requests, CacheMiss(r) \/ ReadCacheFails(r) PROVE FreshInv'
  <2>1. /\ pc[r] = "read" /\ pc'[r] = "upsert" /\ ctx'[r] = ctx[r]
        /\ \A q \in Requests : who(q)' = who(q)
        /\ \A q \in Requests \ {r} : pc'[q] = pc[q] /\ ctx'[q] = ctx[q]
    BY <1>1, EnterFrame DEF CacheMiss, ReadCacheFails, Goto
  <2>2. users' = users /\ cache' = cache /\ suspect' = suspect /\ raced' = raced
    BY <1>1 DEF CacheMiss, ReadCacheFails, Goto, account
  <2> QED
    BY <2>1, <2>2, PassFresh
<1>2. ASSUME NEW r \in Requests, FillFails(r) PROVE FreshInv'
  <2>1. /\ pc[r] = "fill" /\ pc'[r] = AfterAuth(route(r)) /\ ctx'[r] = ctx[r]
        /\ \A q \in Requests : who(q)' = who(q)
        /\ \A q \in Requests \ {r} : pc'[q] = pc[q] /\ ctx'[q] = ctx[q]
    BY <1>2, EnterFrame DEF FillFails, Goto
  <2>2. users' = users /\ cache' = cache /\ suspect' = suspect /\ raced' = raced
    BY <1>2 DEF FillFails, Goto, account
  <2>3. AfterAuth(route(r)) # "fill"
    BY DEF AfterAuth
  <2> QED
    BY <2>1, <2>2, <2>3, PassFresh
<1>3. ASSUME NEW r \in Requests,
             RateLimit(r) \/ RateLimitRetried(r) \/ RateLimitFails(r)
                \/ Handle(r) \/ UpgradeRefused(r)
      PROVE  FreshInv'
  <2>1. pc[r] \in {"limit", "handle"} /\ users' = users /\ cache' = cache /\ suspect' = suspect
    BY <1>3 DEF RateLimit, RateLimitRetried, Count, RateLimitFails, Handle, UpgradeRefused, account
  <2>2. Goto(r, "handle") \/ End(r)
    BY <1>3 DEF RateLimit, RateLimitRetried, Count, RateLimitFails, Handle, UpgradeRefused
  <2>3. CASE Goto(r, "handle")
    BY <2>1, <2>3, EnterFrame, PassFresh DEF Goto
  <2>4. CASE End(r)
    BY <2>1, <2>4, RespondFrame, PassFresh DEF End
  <2> QED
    BY <2>2, <2>3, <2>4
<1>4. CASE \E r \in Requests : Serve(r)
  BY <1>1, <1>3, <1>4, CacheHitFresh, UpsertFresh, FillFresh, DelFresh, UpgradeFresh DEF Serve
<1>5. CASE \E r \in Requests : ServeWithFault(r)
  BY <1>1, <1>2, <1>3, <1>5, UpsertFailsFresh, DelFailsFresh, UpgradeReplyLostFresh
  DEF ServeWithFault
<1>6. CASE \E r \in Requests, rt \in Routes, i \in Ips, u \in Uids \cup {Nobody} :
             Arrive(r, rt, i, u)
  BY <1>6, ArriveFresh
<1>7. CASE \E u \in Uids : Age(u)
  BY <1>7, AgeFresh
<1>8. CASE (\E u \in Uids : ChangeEmail(u)) \/ MinuteTurns \/ UNCHANGED vars
  <2>1. UNCHANGED <<users, cache, pc, ask, ctx, suspect, raced>>
    BY <1>8 DEF ChangeEmail, MinuteTurns, vars, account
  <2> QED
    BY <2>1 DEF FreshInv, FreshCache, FreshContext, FreshFill, Excused, Deleting, Row, who
<1> QED
  BY <1>4, <1>5, <1>6, <1>7, <1>8 DEF Next

LEMMA InitFresh == Init => FreshInv
  BY DEF Init, FreshInv, FreshCache, FreshContext, FreshFill, Uncached

\* Whatever requests, upgrades, failures and expiries overlap, a wrong plan in
\* the cache, or behind a profile, has one of the excuses.
THEOREM PlanFresh == Spec => []PlanIsFresh
<1>1. Inv /\ FreshInv => PlanIsFresh
  BY DEF FreshInv, FreshCache, FreshContext, Excused, PlanIsFresh, Profile, GetUserPlan, Row
<1> QED
  BY <1>1, InitInv, StepInv, InitFresh, StepFresh, PTL DEF Spec

=============================================================================
