---------------------------- MODULE IdAllocator ----------------------------
(***************************************************************************)
(* backend/internal/idgen/allocator.go.                                    *)
(*                                                                         *)
(* Every API instance leases blocks of RangeSize IDs from a counter in     *)
(* Redis and hands them out without a lock: NextID loads currentID, loads  *)
(* maxID, and takes the next ID by compare-and-swap.  When the block is    *)
(* used up it calls fetchNextBlock, which runs under a mutex but publishes *)
(* the new block by two separate stores that NextID may see one by one.    *)
(* Every load, store, compare-and-swap and Redis command that another      *)
(* goroutine can observe is a step of its own.                             *)
(***************************************************************************)
EXTENDS Integers

CONSTANTS Instances,     \* API processes that share one Redis
          Threads,       \* goroutines that call NextID
          Home,          \* Home[t]: the instance thread t runs in
          RangeSize,     \* 1000 in cmd/api/main.go
          MinIDOffset,   \* 100000 in the code
          Deployments,   \* possible starts: the instances running, and the counter in Redis
          MaxCalls,      \* bound: calls of NextID per thread
          MaxFaults,     \* bound: lost Redis replies, Redis errors and restarts
          Free, Pending, Failed

ASSUME HomeAssumption == Home \in [Threads -> Instances]
ASSUME RangeAssumption == /\ RangeSize \in Nat \ {0}
                          /\ MinIDOffset \in Nat
                          /\ RangeSize <= MinIDOffset
ASSUME DeploymentAssumption ==
  \A d \in Deployments : d.up \subseteq Instances /\ d.counter \in Nat
ASSUME BoundAssumption == MaxCalls \in Nat /\ MaxFaults \in Nat
ASSUME ValueAssumption == /\ Free \notin Threads
                          /\ Pending \notin Nat
                          /\ Failed \notin Nat
                          /\ Pending # Failed

VARIABLES counter,    \* Redis key global_url_id_counter
          up,         \* the instances of this deployment
          currentID, maxID, mu,    \* the fields of each instance's Allocator
          pc,         \* where each thread is in NextID and fetchNextBlock
          curr,       \* NextID's local curr
          newMax,     \* fetchNextBlock's local newMax
          answer,     \* what NextID last returned to each thread
          issued,     \* history: every ID ever returned
          calls, faults            \* how much of the bounds is used

vars == <<counter, up, currentID, maxID, mu, pc, curr, newMax, answer, issued,
          calls, faults>>

Labels == {"idle", "load_curr", "load_max", "cas", "fetch", "incr", "set",
           "store_curr", "store_max"}

Init == \E d \in Deployments :
  /\ counter = d.counter
  /\ up = d.up
  /\ currentID = [i \in Instances |-> 0]
  /\ maxID = [i \in Instances |-> 0]
  /\ mu = [i \in Instances |-> Free]
  /\ pc = [t \in Threads |-> "idle"]
  /\ curr = [t \in Threads |-> 0]
  /\ newMax = [t \in Threads |-> 0]
  /\ answer = [t \in Threads |-> Failed]
  /\ issued = {}
  /\ calls = [t \in Threads |-> 0]
  /\ faults = 0

Goto(t, label) == pc' = [pc EXCEPT ![t] = label]

-----------------------------------------------------------------------------
(* NextID *)

\* A request handler calls NextID.
Call(t) ==
  /\ pc[t] = "idle" /\ Home[t] \in up
  /\ calls[t] < MaxCalls
  /\ calls' = [calls EXCEPT ![t] = @ + 1]
  /\ answer' = [answer EXCEPT ![t] = Pending]
  /\ Goto(t, "load_curr")
  /\ UNCHANGED <<counter, up, currentID, maxID, mu, curr, newMax, issued, faults>>

LoadCurrent(t) ==
  /\ pc[t] = "load_curr"
  /\ curr' = [curr EXCEPT ![t] = currentID[Home[t]]]
  /\ Goto(t, "load_max")
  /\ UNCHANGED <<counter, up, currentID, maxID, mu, newMax, answer, issued, calls, faults>>

\* max is loaded and compared with the curr of the step before.
LoadMax(t) ==
  /\ pc[t] = "load_max"
  /\ Goto(t, IF curr[t] < maxID[Home[t]] THEN "cas" ELSE "fetch")
  /\ UNCHANGED <<counter, up, currentID, maxID, mu, curr, newMax, answer, issued, calls, faults>>

Return(t, id) ==
  /\ answer' = [answer EXCEPT ![t] = id]
  /\ issued' = issued \cup {id}
  /\ Goto(t, "idle")

\* Mutant: a plain store instead of the compare-and-swap.
CasOkBlind(t) ==
  /\ pc[t] = "cas"
  /\ currentID' = [currentID EXCEPT ![Home[t]] = curr[t] + 1]
  /\ Return(t, curr[t] + 1)
  /\ UNCHANGED <<counter, up, maxID, mu, curr, newMax, calls, faults>>

CasOk(t) ==
  /\ pc[t] = "cas" /\ currentID[Home[t]] = curr[t]
  /\ currentID' = [currentID EXCEPT ![Home[t]] = curr[t] + 1]
  /\ Return(t, curr[t] + 1)
  /\ UNCHANGED <<counter, up, maxID, mu, curr, newMax, calls, faults>>

\* Another thread of the instance got there first: retry from the top.
CasFails(t) ==
  /\ pc[t] = "cas" /\ currentID[Home[t]] # curr[t]
  /\ Goto(t, "load_curr")
  /\ UNCHANGED <<counter, up, currentID, maxID, mu, curr, newMax, answer, issued, calls, faults>>

-----------------------------------------------------------------------------
(* fetchNextBlock.  Only the holder of mu writes maxID, so the two loads   *)
(* of the double check are one step with the acquisition of the mutex.     *)

\* Mutant: no double check, so a thread that waited for mu replaces the block
\* that the thread before it has fetched.
DoubleCheckSkipped(t) ==
  /\ pc[t] = "fetch" /\ mu[Home[t]] = Free
  /\ Goto(t, "incr")
  /\ mu' = [mu EXCEPT ![Home[t]] = t]
  /\ UNCHANGED <<counter, up, currentID, maxID, curr, newMax, answer, issued, calls, faults>>

\* Mutant: the double check takes a block that is used up for a new one.
DoubleCheckOffByOne(t) ==
  /\ pc[t] = "fetch" /\ mu[Home[t]] = Free
  /\ IF currentID[Home[t]] <= maxID[Home[t]]
       THEN Goto(t, "load_curr") /\ UNCHANGED mu
       ELSE Goto(t, "incr") /\ mu' = [mu EXCEPT ![Home[t]] = t]
  /\ UNCHANGED <<counter, up, currentID, maxID, curr, newMax, answer, issued, calls, faults>>

\* Lock mu; go back if another thread has fetched a block in the meantime.
DoubleCheck(t) ==
  /\ pc[t] = "fetch" /\ mu[Home[t]] = Free
  /\ IF currentID[Home[t]] < maxID[Home[t]]
       THEN Goto(t, "load_curr") /\ UNCHANGED mu
       ELSE Goto(t, "incr") /\ mu' = [mu EXCEPT ![Home[t]] = t]
  /\ UNCHANGED <<counter, up, currentID, maxID, curr, newMax, answer, issued, calls, faults>>

\* Mutant: every block jumps the counter to the offset, not only the first.
IncrByAlwaysSets(t) ==
  /\ pc[t] = "incr"
  /\ counter' = counter + RangeSize
  /\ newMax' = [newMax EXCEPT ![t] = counter + RangeSize]
  /\ Goto(t, "set")
  /\ UNCHANGED <<up, currentID, maxID, mu, curr, answer, issued, calls, faults>>

IncrBy(t) ==
  /\ pc[t] = "incr"
  /\ counter' = counter + RangeSize
  /\ newMax' = [newMax EXCEPT ![t] = counter + RangeSize]
  /\ Goto(t, IF counter + RangeSize < MinIDOffset THEN "set" ELSE "store_curr")
  /\ UNCHANGED <<up, currentID, maxID, mu, curr, answer, issued, calls, faults>>

\* The reply of an INCRBY that Redis executed is lost; go-redis sends it again.
IncrByRetries(t) ==
  /\ pc[t] = "incr" /\ faults < MaxFaults
  /\ faults' = faults + 1
  /\ counter' = counter + RangeSize
  /\ UNCHANGED <<up, currentID, maxID, mu, pc, curr, newMax, answer, issued, calls>>

\* fetchNextBlock returns an error, its defer unlocks mu, NextID returns it.
ReturnError(t) ==
  /\ faults < MaxFaults
  /\ faults' = faults + 1
  /\ mu' = [mu EXCEPT ![Home[t]] = Free]
  /\ answer' = [answer EXCEPT ![t] = Failed]
  /\ Goto(t, "idle")

IncrByFails(t) ==
  /\ pc[t] = "incr"
  /\ ReturnError(t)
  /\ UNCHANGED <<counter, up, currentID, maxID, curr, newMax, issued, calls>>

\* Mutant: the counter is lifted to the offset, but the block that was fetched
\* is kept.
SetOffsetKeepsBlock(t) ==
  /\ pc[t] = "set"
  /\ counter' = MinIDOffset
  /\ Goto(t, "store_curr")
  /\ UNCHANGED <<up, currentID, maxID, mu, curr, newMax, answer, issued, calls, faults>>

SetOffset(t) ==
  /\ pc[t] = "set"
  /\ counter' = MinIDOffset
  /\ newMax' = [newMax EXCEPT ![t] = MinIDOffset]
  /\ Goto(t, "store_curr")
  /\ UNCHANGED <<up, currentID, maxID, mu, curr, answer, issued, calls, faults>>

\* The SET fails, with or without having reached Redis.
SetFails(t) ==
  /\ pc[t] = "set"
  /\ counter' \in {counter, MinIDOffset}
  /\ ReturnError(t)
  /\ UNCHANGED <<up, currentID, maxID, curr, newMax, issued, calls>>

StoreCurrent(t) ==
  /\ pc[t] = "store_curr"
  /\ currentID' = [currentID EXCEPT ![Home[t]] = newMax[t] - RangeSize]
  /\ Goto(t, "store_max")
  /\ UNCHANGED <<counter, up, maxID, mu, curr, newMax, answer, issued, calls, faults>>

\* The second store, the deferred unlock, and back to the loop of NextID.
StoreMax(t) ==
  /\ pc[t] = "store_max"
  /\ maxID' = [maxID EXCEPT ![Home[t]] = newMax[t]]
  /\ mu' = [mu EXCEPT ![Home[t]] = Free]
  /\ Goto(t, "load_curr")
  /\ UNCHANGED <<counter, up, currentID, curr, newMax, answer, issued, calls, faults>>

-----------------------------------------------------------------------------
\* Mutant: a new Allocator with -1 for "no block yet".
RestartAtMinusOne(i) ==
  /\ i \in up /\ faults < MaxFaults
  /\ faults' = faults + 1
  /\ currentID' = [currentID EXCEPT ![i] = -1]
  /\ maxID' = [maxID EXCEPT ![i] = 0]
  /\ mu' = [mu EXCEPT ![i] = Free]
  /\ pc' = [t \in Threads |-> IF Home[t] = i THEN "idle" ELSE pc[t]]
  /\ answer' = [t \in Threads |-> IF Home[t] = i /\ pc[t] # "idle"
                                  THEN Failed ELSE answer[t]]
  /\ UNCHANGED <<counter, up, curr, newMax, issued, calls>>

\* The process dies and starts again with a new Allocator; the rest of its
\* block is lost and the calls it was serving never return.
Restart(i) ==
  /\ i \in up /\ faults < MaxFaults
  /\ faults' = faults + 1
  /\ currentID' = [currentID EXCEPT ![i] = 0]
  /\ maxID' = [maxID EXCEPT ![i] = 0]
  /\ mu' = [mu EXCEPT ![i] = Free]
  /\ pc' = [t \in Threads |-> IF Home[t] = i THEN "idle" ELSE pc[t]]
  /\ answer' = [t \in Threads |-> IF Home[t] = i /\ pc[t] # "idle"
                                  THEN Failed ELSE answer[t]]
  /\ UNCHANGED <<counter, up, curr, newMax, issued, calls>>

\* No thread has a call left to make.
Done ==
  /\ \A t \in Threads : pc[t] = "idle" /\ (Home[t] \in up => calls[t] = MaxCalls)
  /\ UNCHANGED vars

NextID(t) == LoadCurrent(t) \/ LoadMax(t) \/ CasOk(t) \/ CasFails(t)

FetchNextBlock(t) ==
  \/ DoubleCheck(t)
  \/ IncrBy(t) \/ SetOffset(t)
  \/ StoreCurrent(t) \/ StoreMax(t)

RedisFault(t) == IncrByRetries(t) \/ IncrByFails(t) \/ SetFails(t)

Next ==
  \/ \E t \in Threads : Call(t) \/ NextID(t) \/ FetchNextBlock(t) \/ RedisFault(t)
  \/ \E i \in Instances : Restart(i)
  \/ Done

\* The Go scheduler runs every goroutine that can run, and sync.Mutex hands
\* over to a waiter that has waited for long.
Fairness == \A t \in Threads : WF_vars(NextID(t) \/ FetchNextBlock(t))

Spec == Init /\ [][Next]_vars /\ Fairness

-----------------------------------------------------------------------------
(* Properties *)

TypeOK ==
  /\ counter \in Nat
  /\ up \subseteq Instances
  /\ currentID \in [Instances -> Nat]
  /\ maxID \in [Instances -> Nat]
  /\ mu \in [Instances -> Threads \cup {Free}]
  /\ pc \in [Threads -> Labels]
  /\ curr \in [Threads -> Nat]
  /\ newMax \in [Threads -> Nat]
  /\ answer \in [Threads -> Nat \cup {Pending, Failed}]
  /\ issued \subseteq Nat
  /\ calls \in [Threads -> 0..MaxCalls]
  /\ faults \in 0..MaxFaults

\* The deployments for which the code promises unique IDs: the counter has
\* already passed the offset, or only one instance boots on a fresh Redis.
SafeStart == \A d \in Deployments :
  \/ d.counter >= MinIDOffset
  \/ \A i, j \in d.up : i = j

\* The IDs an instance can still hand out without going to Redis, and those of
\* the block a thread has fetched and not yet published.
Left(i, id) == currentID[i] < id /\ id <= maxID[i]
Publishing(t) == pc[t] \in {"store_curr", "store_max"}
Fetched(t, id) == Publishing(t) /\ newMax[t] - RangeSize < id /\ id <= newMax[t]

\* Two instances never hold the same ID, and no instance holds an ID that was
\* returned already (allocator.go, the lease INCRBY is meant to give).
LeasesDisjoint == \A i \in Instances, id \in 1..counter : Left(i, id) =>
  /\ id \notin issued
  /\ \A j \in Instances \ {i} : ~Left(j, id)
  /\ \A t \in Threads : ~Fetched(t, id)

\* The double check under the mutex: an instance loses an ID of its block only
\* by returning it or by dying; contention on fetchNextBlock throws none away.
NoIdDropped == [][\A i \in Instances, id \in 1..counter :
  Left(i, id) /\ ~Left(i, id)' => id \in issued' \/ maxID'[i] = 0]_vars

\* NextID returns: the compare-and-swap loop, the mutex and the error paths
\* leave no caller waiting for ever.
CallsReturn == \A t \in Threads : (answer[t] = Pending) ~> (answer[t] # Pending)

\* NextID as its callers see it.
Source == INSTANCE IdSource WITH Callers <- Threads
ImplementsSource == Source!Spec
=============================================================================
