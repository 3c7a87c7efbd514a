# ShrinkLink: TLA+ models, model checks and proofs

ShrinkLink is a URL shortener: a stateless Go backend, run as several instances
behind Nginx, over one PostgreSQL and one Redis. Almost everything that is hard
about it happens between two calls to those two stores, made by goroutines and
processes that do not know of each other. This directory models those calls.

Paths below are relative to `src/`.

## 1. Inventory

| Component | State it keeps | Operations | Correct when |
|---|---|---|---|
| ID allocator `backend/internal/idgen/allocator.go` | per instance `currentID`, `maxID`, `mu`; Redis `global_url_id_counter` | `NextID`, `fetchNextBlock` | no ID is returned twice, no ID of a block is thrown away by contention, every call returns |
| Base62 `idgen/base62.go` | none | `Encode`, `Decode` | inverse of each other, codes unique and of the promised length |
| URL service `service/url_service.go` | `urls` table, Redis `url:<code>` | `Shorten`, `Resolve`, `ClaimURL` | a redirect goes where the table says, a link that exists is served, one that expired is not |
| Quota `service/quota_service.go` | Redis `quota:<user>:<month>`, `anon_quota:<ip>:<day>` | `CheckAndReserveUser`, `CheckAndReserveAnonymous`, `GetUsage` | nobody gets more links than the plan allows, nobody is refused a link that is left |
| URL repository `repository/url_repo.go` | `urls` | `Create`, `GetByCode`, `ClaimURL`, `AliasExists`, `BulkIncrementClicks` | an owner is set once, a batch is counted whole or not at all |
| Click queue `handler/handlers.go` `queueAnalytics` | Redis `queue:analytics`, `clicks:<code>` | LLEN, LPUSH, INCR after each redirect | bounded, and the live counter is what has not been flushed |
| Analytics worker `worker/worker.go` | a batch in memory | BRPOP, ticker, flush, shutdown | each event written at most once, each batch written in the end |
| Analytics queries `repository/analytics_repo.go`, `service/analytics_service.go` | none | seven concurrent queries; live and streamed totals | one consistent answer, or an error |
| Authentication `middleware/auth.go`, `service/user_service.go` | `users`, Redis `user_sync:<uid>` | verify, upsert, cache; `UpgradePlan` | the plan used is the plan stored |
| Rate limiter `middleware/ratelimit.go` | Redis `rate:<ip>:<minute>` | INCR, EXPIRE | each route has its own allowance |
| Start-up and shutdown `cmd/api/main.go` | the process | migrate, serve, `Shutdown`, `workerCancel` | nothing accepted is lost on SIGTERM |
| Migrations `migrations/`, `database/db.go` | the schema | `RunMigrations` | the columns the code names exist |
| Dashboard `web/app.js`, `web/auth.js` | the open modal, a polling timer, a token | open, close, poll, upgrade | the modal shows the link it names |
| Redis client `redis/redis.go` | none | one PING at start-up; go-redis retries | a lost reply is not taken for a failure that did nothing |
| Validator, GeoIP, configuration, security headers, Nginx, Compose | none that changes | pure functions and constants | not modelled, see section 8 |

How they interact. A `Shorten` request goes through the rate limiter and the
authentication middleware, reserves quota, draws an ID, inserts the row and
primes the cache. A redirect reads the cache or the table, may fill the cache,
and then pushes a click event. The worker of *any* instance pops it. `ClaimURL`
and `UpgradePlan` change rows that other requests have cached or read. There are
no locks between these actors except PostgreSQL's row locks and the allocator's
mutex; all of Redis is reached by single commands.

What is hard: commands of two requests interleaving; a request cut off between
two commands, since handlers pass the request context down and a client may hang
up; replies lost and commands repeated (go-redis retries three times by default);
a clock read twice in one request; at-most-once delivery from BRPOP; two
transactions that lock the same rows; restarts. `PROJECT.json` lists each hazard
at its line.

## 2. Modules

| Module | Models | Composition |
|---|---|---|
| `IdSource` | what callers expect of `NextID`: a fresh ID or an error | abstract specification |
| `IdAllocator` | `idgen/allocator.go` | implements `IdSource` (`Source == INSTANCE IdSource`) |
| `IdAllocatorProofs` | theorems about `IdAllocator` for all constants | extends it with TLAPS |
| `UrlService` | `url_service.go`, `quota_service.go`, the repository calls they make, and the handler of `/api/claim` | Shorten, Resolve and ClaimURL over shared table, cache and counters |
| `UrlServiceProofs` | theorems about `UrlService` | extends it with TLAPS |
| `Accounts` | `middleware/auth.go`, `middleware/ratelimit.go`, `user_service.go`, `user_repo.go`, the handlers `GetMe` and `UpgradePlan` | what every API request passes before its handler; the other handlers only read its context |
| `AccountsProofs` | theorems about `Accounts` | extends it with TLAPS |
| `ClickPipeline` | `queueAnalytics`, `worker.go`, `BulkInsert`, `BulkIncrementClicks` | handlers and workers over one list, one set of counters, one database |
| `SumTheorems` | lemmas about the sum of a function over a finite set | used by the two modules below |
| `ClickPipelineProofs` | theorems about `ClickPipeline` | extends it with `SumTheorems` |
| `LiveStats` | `GetAllURLs`, `GetLiveStats`, `StreamAnalytics`, `GetAnalytics`, the concurrent queries of `analytics_repo.GetByCode` | extends `ClickPipeline`: readers beside the handlers and workers that move the clicks |
| `LiveStatsProofs` | theorems about `LiveStats` | extends it and `ClickPipelineProofs` |
| `Schema` | the four `up` files under `migrations/` as functions on a catalog of columns and index names | used by `Lifecycle` |
| `Lifecycle` | `cmd/api/main.go` with `database.go`, `redis.go` and the loop of the worker, in time | several instances over one database, started and restarted |
| `LifecycleProofs` | theorems about `Lifecycle` | extends it with TLAPS |
| `Base62` | `idgen/base62.go` | pure functions |
| `ShortCodes` | the code that `Shorten` makes of an ID | composes `IdAllocator` and `Base62`: every issued ID is encoded |
| `Base62Proofs` | theorems about `Base62` and `ShortCodes` | extends `ShortCodes` and `IdAllocatorProofs` |
| `...MC` | small instances | extend the module and give its constants |

Operators whose comment begins with `Mutant:` are not part of a specification:
each is an action with a plausible bug, kept beside the action it distorts, and
`PROJECT.json` pairs it with the property that tells the two apart.

### IdAllocator

`currentID`, `maxID` and `mu` are the fields of the struct, indexed by instance;
`curr` and `newMax` are the locals of the two functions, indexed by goroutine;
`counter` is the Redis key. `NextID` is the actions `LoadCurrent`, `LoadMax`,
`CasOk`, `CasFails`; `fetchNextBlock` is `DoubleCheck`, `IncrBy`, `SetOffset`,
`StoreCurrent`, `StoreMax` and their failures. Only two things are merged into
one step: taking the mutex with the two loads after it (nobody else writes
`maxID` while the mutex is held, and if `currentID` moves in between, the step is
placed after that move), and the second store with the deferred unlock. Each
instance's process may restart. `issued` is a history variable.

`Deployments` says how the system may start. The code promises unique IDs only
for a start that satisfies `SafeStart`: a counter that is past `minIDOffset`, or
a single instance on a fresh Redis.

### UrlService

A request is a goroutine that runs one handler; `pc` says which call it makes
next. The `urls` table is `rows` (a code's link, named by the request that
created it, which stands for its long URL) and `owner`; `cache` is the
`url:<code>` keys; `used` the quota keys. Time is kept as what remains: `left` is
`expires_at - now`, an entry has a `ttl`, and `Tick` ages both, so the clock never
has to stop and liveness properties mean something. `Expired` is strict as
`time.Before` is: `left = 0` is not yet expired, and a TTL computed at that instant
is zero. A TTL is worked out in one step (`Prime`, `Fill`) and sent in another
(`Store`): in between the request holds it in `ttl`, time may pass, and the history
variable `delay` measures it. `CacheSet` models what go-redis does with a duration that
is not positive: it sends no expiry. The reply of an INCR, a DECR or a SET may be lost,
and then go-redis sends the command again (`ReserveReplyLost`, `RollbackReplyLost`,
`SetReplyLost`); `repeated` counts the DECRs that were executed and sent again, since
they are what the properties of the quota must make allowance for. An INSERT and an
UPDATE may report an error although they were executed. `Abort` cuts a request off
anywhere.

A visitor serves redirects for ever. The click it queues is where
`ClickPipeline` begins.

### ClickPipeline

`queue`, `live` are Redis; `inserted`, `clickCount`, `rowLock` PostgreSQL; `at`,
`batch`, `todo` each worker; `hpc`, `hcode` each handler in `queueAnalytics`. The
two bulk writes are transactions: `BulkInsert` is one step, since it takes no lock
that another transaction waits for; `BulkIncrementClicks` is one `UpdateRow` per
code, each of which takes the row's lock, then `Commit`, `TxFails` or
`DeadlockAbort`. `Cancel` is `workerCancel` after `Shutdown`; `Crash` kills a
process at any point. `pushed`, `decremented` and `strayed` are history variables;
`strayed` is the part of the live counter that faults have put there.

go-redis repeats an INCR or a DECRBY whose reply is lost (`IncrReplyLost`,
`DecrByReplyLost`); like every other fault it is counted in `strayed`. PostgreSQL breaks
a circle of waiting workers of any length (`Deadlocked`). The properties are about
events: a repeated LPUSH makes two events of one click, each of which `WrittenAtMostOnce`
lets be written once, and `NoneDropped` takes an event as handled when its flush was
tried, failed or not.

### Accounts

A request has an address, a route and a caller (`ask`), the place it has reached
(`pc`) and the user that the middleware put in its context (`ctx`). `Arrive` is
the verification of the token: the caller is an account or nobody, and nobody is
turned away on the routes that require a token. `CacheHit`, `CacheMiss`, `Upsert`,
`Fill` are `FirebaseAuth`; `RateLimit` the limiter, which counts on one key for all
routes; `Upgrade` and `Del` the two calls of `UpgradePlan`. Every call may fail, or
succeed and lose its reply, and each failure does what the code does with it: a
failed GET is a miss, a failed SET or DEL is ignored, a failed INCR lets the request
through. The email of a new token is `claim`, which the user may change at any time; the
request takes it at `Arrive` and the upsert writes that one. `Count` chooses the minute's
key and runs the INCR in one step. The counters of two minutes are independent, so an INCR
that comes after the turn of its minute can be placed just before it, and the bound is for
each key.
A cache entry has a `ttl`, and `Age` takes it down.

`suspect` and `raced` are history variables: they name the accounts and requests
for which the code leaves a wrong plan, because an upgrade overtook a request that
had read the row, or its DEL failed. `PlanIsFresh` says that these are the only ones;
`StaleUserEnds` that they end. Its second half is the email: user_service.go:22
says that `GetOrCreate` is "called on every authenticated request to keep email in
sync" and user_repo.go:29 "every time a valid Firebase ID token is verified", but
auth.go:59-66 skips it on a cache hit, so a new email arrives up to 12 hours late.

### LiveStats

A reader serves one of the four routes for the owner of the links. `base` is
`dbClicks` or the COUNT(*), `shown` what was answered. `GetByCode` starts one
goroutine for each query (`FanOut`); `open` and `wg` are the queries that run and the
WaitGroup, `parts` what they found, `since` (history) what the table held when they
began. A breakdown that has all of its rows is `Breakdown`; one that lacks some is
`BreakdownCut`: five names or seven days, a row that does not scan, or a query that
fails while its rows are read, for `rows.Err` is never asked and such a query counts as
a success. `cut` (history) names those, and no property says anything of their numbers.
An answer is thus an error only if a query could not be started, or the total failed.
The comment of
`StreamAnalytics` (handlers.go:447-449) says a stream stays open until the client
disconnects or the server shuts down; in fact the server's `WriteTimeout`, 30 s by
default, ends it (`StreamEnds`) and `Shutdown` does not.

### Lifecycle and Schema

`proc[i]` is one process: its phase in `main`, the worker, the redirect and the
stream it serves, and clocks. `Boot` is main up to `ListenAndServe`. Of
golang-migrate there is the advisory lock, the version, and the dirty mark around
each file: three transactions, so a crash may fall between any two of them.
`docker stop` is `Terminate`, or `TerminateEarly` before main listens for the signal,
and it marks the container as `stopped`: `restart: unless-stopped` brings back a
container whose process died (`Start`) but not that one, which somebody may start again
or not (`StartStopped`). It also kills the process ten seconds after the signal, while a
shutdown may take ten and three: `Crash` covers that.
`Schema` says what each file does to columns and to index names; `RenameTable`
keeps the names of the indexes, which is what matters in 000004.

Time passes for each instance by itself (`Tick`), since nothing here compares the
clocks of two instances; an action that is due blocks the tick of its own instance,
so a deadline is met exactly and neither early nor late. `PopTime` and `FlushTime`
bound what BRPOP and a flush take. The code gives BRPOP one second, but it gives
the database none: that a flush is over in time is `DrainAssumption`, and it is the
assumption under which main.go:267 ("Give the worker up to 3 seconds to flush its
current batch") is true.

### Base62 and ShortCodes

A character is its index in the alphabet. `Remainders` is the loop of `Encode`, a
recursive function; `Decode` is its loop as a fold. `ShortCodes` says of the IDs that
`NextID` returns that their codes decode (`IssuedCodesDecode`) and that none is shorter
than minIDOffset is meant to allow (`NoShortCode`). The run uses base 3, so that codes
of one, two and three characters exist.

The comments of allocator.go disagree about how long that is. Line 11 says that 100000
is "q0U", three characters; lines 70 and 71 promise codes "at least 4 characters long".
The first block even starts at 99001, since it ends at the offset. All IDs from there
up to 238327 have three characters (`ThreeCharacters`). Nothing depends on it.

## 3. Runs

| Run | Expected | What it shows |
|---|---|---|
| `id_allocator` | pass | `IdAllocator` implements `IdSource`; leases never overlap; contention drops no ID; every call returns; each ID has a code that decodes to it and is not shorter than the offset allows |
| `id_first_boot` | violation | two instances on an empty Redis return the same ID (finding 1) |
| `url_cache` | pass | the cache never holds another link's URL, no redirect goes astray, an entry with a TTL outlives its link only by the delay of its SET, a 404 marker over a live link heals |
| `url_expiry` | violation | an expired link can be cached for ever (finding 2) |
| `url_quota` | pass | links stay within the plan but for one with each repeated DECR, refusals are deserved, a link keeps its creator and its owner, under races, lost replies and aborts |
| `url_claim` | violation | both of two racing claimants are told they own the link (finding 3) |
| `click_pipeline` | pass | where every click is at every moment, none dropped while nothing fails, at-most-once writes, the real bound of the queue, batches always end, a stopped worker leaves nothing |
| `click_lost` | violation | a deadlock between two flushes loses clicks (finding 4) |
| `accounts` | pass | the plan in the cache and in a profile is wrong only after the named races and failures, and never for good; an upsert never changes a plan; the shared counter lets no route pass more than it allows |
| `live_stats` | pass | an answer is never too high by more than a batch per worker and fault, misses only what was flushed since its row was read, the total and every whole breakdown of an analytics answer are of its own time, whichever queries fail or lose rows; every request for analytics is answered |
| `lifecycle` | pass | each migration runs once, nobody serves on half a schema, a clean exit leaves no click unflushed if the database is fast enough (`DrainAssumption`; a flush whose INSERT fails counts), SIGTERM ends the process, Compose brings an instance back unless it was stopped or the schema is dirty |
| `schema_device` | violation | the last migration removes the device column (finding 5) |

Bounds and why they are enough.

* `id_allocator`: blocks of 2 IDs and an offset of 4 make a block run out on the
  third ID; three goroutines, two of them in one instance, make contention on the
  mutex, on the compare-and-swap and between instances; two calls each reach the
  second block; one fault is any one of a repeated INCRBY, an error or a restart.
* `url_cache`: one code, since entries of different codes never meet; two creators
  of the same alias and two visitors, the smallest number for a stale fill against
  a prime and against another fill; lifetimes of one tick or none; 24 hours and 5
  minutes become 2 ticks and 1; one SET is sent again.
* `url_quota`: limits of 1 make every pair of requests on one key meet at the
  limit; two creators and a claimant share one account, a second account claims,
  one address creates anonymously; one lost reply, of an INCR, a DECR or a SET, which is
  enough for a second link under a limit of 1. Claims and creations are
  one-shot; visitors are absent because they touch neither quota nor owner.
* `click_pipeline`: two workers, batches of 2, two codes: the smallest case in
  which two transactions lock two rows in opposite orders; a queue bound that two
  handlers can pass together; three clicks and one fault (a repeated push makes a
  fourth event); one of the instances is shut down.

* `accounts`: two requests at a time of one account, which is what every race here
  needs (one reads, one upgrades); a TTL of one tick; one change of plan or email and
  one fault, so that each of the races appears without the other; allowances of 1 and
  2 on one address with two limited requests a minute, enough to exceed the smaller
  allowance through the larger route. The theorems cover any numbers.
* `live_stats`: one link, since answers about different links share nothing; one
  handler, two workers and batches of 2, so that two batches, or one that is full, can
  be between COMMIT and DECRBY; two clicks, a repeated push makes a third event; one
  breakdown beside the total: two concurrent queries that end, lose rows or fail, in
  either order.
  What the bounds leave out for `NeverOverReports` and `MissesOnlyFlushed`, the theorems
  cover.
* `lifecycle`: two instances on an empty database; one SIGTERM and one crash or
  failure, at any step of either; a drain of 3 against a BRPOP and a flush of 1 each,
  a stream that the server cuts as late as the shutdown gives up, so that either may
  come first; batches of 2. One
  attempt to reach PostgreSQL: another one changes only the counter of attempts.
* `id_allocator` encodes its IDs in base 3: the IDs below the offset's first block have
  one character, those that may be issued have two or three.

`CHECK_DEADLOCK FALSE` appears only for `ClickPipeline`, where a worker really
ends. In `IdAllocator` the end of the finite workload is the action `Done`; in
`UrlService` visitors and the clock never end.

Fairness. `IdAllocator` assumes that the scheduler runs every goroutine that can
run and that `sync.Mutex` does not starve a waiter (its starvation mode); nothing
is assumed of callers, and none of Redis beyond answering or failing, faults being
bounded. `UrlService` assumes only that time passes. `ClickPipeline` assumes that
the worker's goroutine runs, that its ticker is seen between two BRPOPs (each
blocks for a second at most and `select` prefers a ready case to `default`), and
that PostgreSQL answers and breaks deadlocks. `Accounts` assumes that a request that
has arrived is served (not that one arrives) and that Redis expires its keys.
`LiveStats` assumes that a reader's calls are answered or fail; nothing of the
pipeline, which may stop at any point while an answer is awaited. `Lifecycle`
assumes, for each instance, that Compose restarts it when its process has ended without
`docker stop` (`restart: unless-stopped`), that main, the handlers and the worker get to
run, and that time passes; nobody has to start what was stopped.

## 4. Findings

1. **Duplicate IDs on the first boot** (`allocator.go:72-77`). The SET to
   `minIDOffset` is unconditional. If two instances run INCRBY before either runs
   SET, both lease the block below the offset.
2. **Expired links cached without a TTL** (`url_service.go:121`, `:170`). The TTL
   is computed after the row was written or checked; when it is not positive the
   key never expires.
3. **Both claimants told they won** (`url_repo.go:88`). The rows affected by the
   conditional UPDATE are not looked at; the loser is also charged.
4. **Clicks lost by a deadlock** (`worker.go:141-148`, `url_repo.go:121`). The
   decrement does not depend on the success of the transaction, and the order of
   a Go map makes deadlocks between two instances possible.
5. **The analytics table without its device column**
   (`000004_analytics_partitioning.up.sql:10`). The table is recreated from the
   columns of 000001; `BulkInsert` and the device query name the column of 000003.
   After the migrations every `BulkInsert` fails (logged, the click count of the link
   still goes up) and every `GetAnalytics` answers 500. In the same file
   `CREATE INDEX IF NOT EXISTS idx_analytics_short_code` finds the name still taken by
   the old table, which is then dropped with its index.

Divergences without a run of their own: the three comments quoted under Accounts,
LiveStats and Base62 in section 2; the example code `4aD2` of README.md:17, which is not
the code of its ID; and three effects that no sentence of the repository denies, which
the properties make allowance for:

* A DECR whose reply is lost is executed twice (`quota_service.go:45`, `:65`). With a limit
  of 1 and one link: a second request counts to 2, is refused and counts back to 0, and a
  third one gets a second link. `LinksWithinQuota` and `CounterCoversGrants` therefore
  allow one link for each such DECR; without the term TLC finds this trace.
* A SET that lands after the clock was read keeps the TTL of that moment, so the entry
  outlives its link by the delay (`EntryWithinDelay`).
* A breakdown whose query fails after the first rows is answered as if it were whole
  (`analytics_repo.go:110`, `:136`).

## 5. Proofs

See section 6 for the argument. All theorems are checked to the last leaf with
TLAPS (SMT, Zenon, PTL); they assume only the named ASSUMEs of the modules. Each safety
invariant and each action property that a passing run checks is the statement of one of
them.

| Theorem | States |
|---|---|
| `IdAllocatorProofs!NextIDIsUnique` | `SafeStart /\ Spec => ImplementsSource` |
| `IdAllocatorProofs!LeasesAreDisjoint` | `SafeStart /\ Spec => []LeasesDisjoint` |
| `IdAllocatorProofs!NoIdIsDropped` | `SafeStart /\ Spec => NoIdDropped` |
| `IdAllocatorProofs!TypeCorrect` | `SafeStart /\ Spec => []TypeOK` |
| `IdAllocatorProofs!IdsAboveFloor` | `SafeStart /\ Spec =>` no issued ID is below the block that ends at the offset |
| `Base62Proofs!DecodeEncode` | `\A n \in Nat : Decode(Encode(n)) = n`, in every base |
| `Base62Proofs!CodesDecode` | `SafeStart /\ Spec => []IssuedCodesDecode` |
| `Base62Proofs!CodesLongEnough` | `SafeStart /\ Spec => []NoShortCode` |
| `Base62Proofs!ThreeCharacters` | a number from `Base^2` up to `Base^3` has a code of three characters |
| `UrlServiceProofs!CacheIsRight` | `Spec => []CacheAgreesWithTable` |
| `UrlServiceProofs!RedirectsAreRight` | `Spec => []RedirectsAgreeWithTable` |
| `UrlServiceProofs!CreatedIsStored` | `Spec => []CreatedLinkIsStored` |
| `UrlServiceProofs!EntriesOutliveByDelay` | `Spec => []EntryWithinDelay` |
| `UrlServiceProofs!OwnersAreKept` | `Spec => OwnerIsKept` |
| `UrlServiceProofs!PlansAreKept` | `Spec => []LinksWithinQuota` |
| `UrlServiceProofs!RefusalsAreDeserved` | `Spec => []RefusalIsDeserved` |
| `UrlServiceProofs!CountersCoverGrants` | `Spec => []CounterCoversGrants` |
| `UrlServiceProofs!TypeCorrect` | `Spec => []TypeOK` |
| `ClickPipelineProofs!TypeCorrect` | `Spec => []TypeOK` |
| `ClickPipelineProofs!StoppedEmpty` | `Spec => []StoppedIsEmpty` |
| `ClickPipelineProofs!QueueBounded` | `Spec => []QueueBound` |
| `ClickPipelineProofs!LiveBalanced` | `Spec => []LiveBalance` |
| `ClickPipelineProofs!WrittenOnce` | `Spec => []WrittenAtMostOnce` |
| `ClickPipelineProofs!EventsKept` | `Spec => []NoneDropped` |
| `LiveStatsProofs!AnswersAreOfTheirTime` | `LSpec => []AnalyticsWithinWindow` |
| `LiveStatsProofs!ReportsBounded` | `LSpec => []NeverOverReports` |
| `LiveStatsProofs!MissesFlushedOnly` | `LSpec => MissesOnlyFlushed` |
| `AccountsProofs!TypeCorrect` | `Spec => []TypeOK` |
| `AccountsProofs!PlanFresh` | `Spec => []PlanIsFresh` |
| `AccountsProofs!LimitHolds` | `Spec => []WithinAllowance` |
| `AccountsProofs!PlanKept` | `Spec => PlanIsKept` |
| `LifecycleProofs!TypeCorrect` | `Spec => []TypeOK` |
| `LifecycleProofs!FilesRunOnce` | `Spec => []RunsOnce` |
| `LifecycleProofs!LatestSchema` | `Spec => []ServesOnLatestSchema` |
| `LifecycleProofs!NoLateClick` | `Spec => []NoClickAfterCancel` |
| `LifecycleProofs!CleanExit` | `Spec => CleanExitLosesNothing` |

## 6. The inductive invariants

### IdAllocator

`LeasesDisjoint` alone is not inductive. `IInv` adds: the mutex is held by whoever
is in `fetchNextBlock` and the instance's block is used up meanwhile (`LockInv`);
the counter is ahead of every lease, published or not, and of every ID returned
(`AheadInv`), so a new block is above everything; until the counter passes the
offset nothing has been leased and one instance runs (`BootInv`), so the SET
overwrites no lease; a goroutine about to compare-and-swap compares with a value
below the *current* `maxID` (`CasInv`), although it read `maxID` some time ago;
and the published rest of a block, the fetched and unpublished blocks and the
returned IDs are pairwise disjoint (`LeaseInv`). The second of the two stores
exposes the new block, and between them the range is empty, because the new
`currentID` is not below the old `maxID`.

`FloorInv` is a second invariant on top of it: a block that is not used up lies above
`MinIDOffset - RangeSize`, and so does every issued ID. It needs `CasInv`, for the
compare-and-swap issues from the block that is there *now*.

### Base62

`Remainders` is recursive and `Decode` a fold, and TLA+ gives neither a value until it
is shown that the equations have a solution. The library's theorems for that, and its
induction rules, take an operator as a parameter, which the provers here cannot
instantiate. `Base62Proofs` therefore states induction for a *set* of good numbers and
derives it from the smallest counterexample (`WFMin`, whose parameters are sets). A
solution of the recursion is glued together from solutions up to each number
(`UptoExists`, `UptoAgree`); the fold gets one in the same way (`FoldingExists`). Then
`DecodeAppend` says what one more character does to `Decode`, `ReverseCons` what one
more remainder does to the reversed bytes, and `DecodeEncode` is an induction in which
each step is `n = Base * (n \div Base) + (n % Base)`. `CodesDiffer` follows: two IDs
never share a code. For the length, `OneMoreDigit` gives a number one character more
than its quotient, and `LengthMonotone` that a greater number has no shorter code.

### UrlService

`IInv` of `UrlServiceProofs` relates what a handler remembers to what the stores
hold now, since it acts on the former. `CodeInv` and `RowInv`: a handler that has
read a row finds it again (rows are never deleted), a creator that is about to
prime the cache owns the row of its code, a creator that has not inserted owns
none, and a link without a row has no owner, so that a claim cannot make one.
With these, `CacheAgreesWithTable` is inductive: every write to the cache, however
late, writes what the table holds (`Written`). `StoreInv` is the bound of
`EntryWithinDelay` for a TTL that is still on its way: what a request has read off the
clock is too long by no more than the time since then. `EntryInv` says that entries with
a TTL have at least one tick left; without it the bound would fail at the tick after the
link's end, when `left` stops.

`QuotaInv` is the argument for the quota. INCR and DECR are not one transaction, so
the counter runs above what was granted while refusals are in flight. Until the
limit has been granted the counter is not above the grants and nobody is being refused,
so a refusal is deserved. And the counter, with one more for each DECR that was executed
and sent again, covers the grants and the refusals still to be rolled back: an INCR that
finds room therefore leaves the grants within the limit and those DECRs. A DECR that
fails or an INCR that was repeated can only shut the key; a repeated DECR is the one way
to open it, by one link. Links and unspent reservations together never exceed the
grants; `MoveCounts` and `LinksGrow` carry the cardinalities through each step. The
proofs assume finitely many codes and requests, and that no response is mistaken for a
redirect.

### ClickPipeline

`PlaceInv`: a handler past LLEN holds a code, a row of `urls` is locked only by a
worker whose transaction is open, and a worker that has returned has an empty batch.
`StoppedIsEmpty` follows. For the cap, `Room` counts the handlers that have passed
LLEN and not pushed yet: the list and those together stay within the cap, the number
of handlers and the failed commands. The bound alone is not inductive, because a
push may come long after its check.

`Book` is the account of one code: what the live counter holds (`LiveBalance`), that
what is on the list, in batches and written never exceeds what was pushed, separately
for the click count (`InFlight`) and for the analytics rows (`InTransit`), and that
while nothing has failed the events pushed are exactly those on the list, in a batch or
taken off the counter (`Conserved`). The three sums run over all workers, so each step
is reduced to the change of one worker's term (`SumUpdate`). That the fold which
defines `SumFunction` is a sum at all is proved in `SumTheorems`: the sum of f over S
is the number of pairs of an element of S and a number from 1 to its value
(`SumIsCount`), and from there on cardinalities do the work. `WrittenAtMostOnce` and
`NoneDropped` follow from `Book`. The proofs assume finitely many codes and workers
(`FiniteAssumption`; a code is a VARCHAR(10)).

### LiveStats

`ReaderInv` extends the invariant of the pipeline. While a reader waits, the
WaitGroup is the number of queries that still run, no part is above the table, and
each query still runs, or was cut, or some query has failed, or its part is not below
`since`. So when the WaitGroup is zero no query runs, and without an error the total
and each whole breakdown are there. The pipeline keeps it because the table only grows
(`InsertedGrows`).

`NeverOverReports` needs the books of the pipeline and two bounds that the books do not
give (`Sizes`): a batch never exceeds `BatchSize`, and a fault leaves at most one batch
in a live counter for good. What a reader has from the table, however old, is at most
what is there now; what is in flight after its COMMIT is at most a batch per worker.
The sum is `Ceiling`, which only grows, so an answer once given stays below it.
`MissesOnlyFlushed` is a property of the step that sends an answer. Its proof shows
first that only `ShowLive` can make that step while nothing has failed (`OnlyShowLive`),
and then reads the missing clicks off `LiveBalance` and `NoneDropped`.

### Accounts

`PlaceInv` and `RowInv`: a request past authentication has the user of its account
in its context, and the row exists. `LimitInv`: the passes counted for a route are at
most the hits of its key and at most its allowance, errors aside. `FreshInv` adds to
`PlanIsFresh` the requests that are about to write the cache (`FreshFill`): what they
will write is either the plan of the row or already excused. Without it, the step
that writes the entry would be the first to break the property.

### Lifecycle

`Sound` ties the fields of one process to its phase: a worker runs only between
`Serve` and the exit, the clock of a shutdown is within its deadline, and, after
`workerCancel`, the time that has passed and the time that the worker's call may
still take, with a flush to follow, are within the drain time. That is what makes
`CleanExitLosesNothing` provable from `DrainAssumption`, whatever the worker was
doing. `MigrationInv` says who holds the lock, that a process between reading the
version and the last file is the holder and agrees with the version it read, and
that a file has been executed exactly when the version says so, except between the
file and its mark.

## 7. Only model-checked

* Liveness: `CallsReturn`, `NotFoundHeals`, `BatchIsFlushed`, `StaleUserEnds`,
  `AnalyticsReturns`, `ShutdownEnds`, `ServesUnlessDirty`. The proof system here has
  no support for fairness and ENABLED.
* What the runs that expect a violation refute.

## 8. Not modelled

* The destination validator: a pure decision on a string and one DNS lookup, covered
  by its table-driven test. GeoIP: one read of a memory-mapped file for each event.
  Both decide nothing that another part depends on later.
* Configuration and security headers: values read once, and constants. The bounds
  they set are CONSTANTS here.
* The dashboard: single-threaded browser code whose races (`app.js:566`, `:634`) change
  the screen and nothing on the server. Nginx: configuration.
* The sketch of unique visitors (`PFADD`, `PFCOUNT`): an estimate that nothing else
  reads. Of the worker's parsing of an event, nothing but the code matters here.
* `/healthz` and `/readyz`, which only read; `GetUsage`, `GetByCode` and
  `ListUserURLs` of the services likewise. `IncrementClickCount` is never called.
* The expiry of quota and rate keys: a key names its month, day or minute and is never
  read after it.
* A Redis command that the client has given up on and that Redis executes later still,
  after the request went on: the modules let a command take effect up to the moment its
  call returns, as often as it is sent. For a SET whose call was given up this would lift
  the bound of `EntryWithinDelay`.
* The durability of Redis. A Redis that restarts from an older snapshot takes the ID
  counter back and breaks the uniqueness of codes; the repository does not configure
  it, and the modules keep the counter for the whole run.
* The monthly partitions of `analytics`, which 000004 creates once, with a default
  partition for every other month; the `down` migrations, which the program never runs.
