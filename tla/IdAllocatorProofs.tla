------------------------- MODULE IdAllocatorProofs -------------------------
(***************************************************************************)
(* NextID returns unique IDs, for any number of instances, goroutines,     *)
(* Redis faults and restarts, whenever the deployment satisfies SafeStart. *)
(***************************************************************************)
EXTENDS IdAllocator, TLAPS

Fetching(t) == pc[t] \in {"incr", "set", "store_curr", "store_max"}

\* mu protects fetchNextBlock, and the instance is out of IDs while it runs.
LockInv == \A t \in Threads : Fetching(t) =>
  /\ mu[Home[t]] = t
  /\ maxID[Home[t]] <= currentID[Home[t]]

\* A thread works only in a running instance, and its caller is waiting.
CallInv == \A t \in Threads :
  /\ pc[t] # "idle" => Home[t] \in up
  /\ pc[t] # "idle" <=> answer[t] = Pending

\* The counter is ahead of every ID that was ever leased.
AheadInv ==
  /\ \A i \in Instances : maxID[i] <= counter
  /\ \A id \in issued : id <= counter
  /\ \A t \in Threads : Publishing(t) =>
       /\ MinIDOffset <= newMax[t] /\ newMax[t] <= counter
       /\ maxID[Home[t]] <= newMax[t] - RangeSize
       /\ pc[t] = "store_max" => currentID[Home[t]] = newMax[t] - RangeSize

\* Until the counter has reached the offset only one instance runs, and
\* nothing has been leased: the SET overwrites no lease.
BootInv ==
  /\ counter < MinIDOffset =>
       /\ \A i, j \in up : i = j
       /\ issued = {}
       /\ \A i \in Instances : maxID[i] = 0
       /\ \A t \in Threads : ~Publishing(t)
  /\ \A t \in Threads : pc[t] = "set" => counter < MinIDOffset

\* The compare-and-swap stays inside the block even if maxID was read long ago.
CasInv == \A t \in Threads : pc[t] = "cas" => curr[t] < maxID[Home[t]]

\* No ID is in two leases, or in a lease and already returned.
LeaseInv == \A id \in Nat :
  /\ \A i \in Instances : Left(i, id) =>
       /\ id \notin issued
       /\ \A j \in Instances \ {i} : ~Left(j, id)
       /\ \A t \in Threads : ~Fetched(t, id)
  /\ \A t \in Threads : Fetched(t, id) =>
       /\ id \notin issued
       /\ \A s \in Threads \ {t} : ~Fetched(s, id)

IInv == /\ TypeOK
        /\ LockInv
        /\ CallInv
        /\ AheadInv
        /\ BootInv
        /\ CasInv
        /\ LeaseInv

USE HomeAssumption, RangeAssumption, DeploymentAssumption, BoundAssumption,
    ValueAssumption
-----------------------------------------------------------------------------
LEMMA TypeInit == Init => TypeOK
BY DEF Init, TypeOK, Labels

LEMMA TypeNext == ASSUME TypeOK, BootInv, AheadInv, [Next]_vars PROVE TypeOK'
<1> USE DEF TypeOK, Labels, Goto, Return, ReturnError
<1>1. ASSUME NEW t \in Threads, Call(t) PROVE TypeOK'
  BY <1>1 DEF Call
<1>2. ASSUME NEW t \in Threads, NextID(t) PROVE TypeOK'
  <2>1. CASE LoadCurrent(t) BY <2>1 DEF LoadCurrent
  <2>2. CASE LoadMax(t) BY <2>2 DEF LoadMax
  <2>3. CASE CasOk(t)
    <3>1. curr[t] + 1 \in Nat
      OBVIOUS
    <3>2. issued' \subseteq Nat
      BY <2>3, <3>1 DEF CasOk
    <3> QED BY <2>3, <3>1, <3>2 DEF CasOk
  <2>4. CASE CasFails(t) BY <2>4 DEF CasFails
  <2> QED BY <1>2, <2>1, <2>2, <2>3, <2>4 DEF NextID
<1>3. ASSUME NEW t \in Threads, FetchNextBlock(t) PROVE TypeOK'
  <2>1. CASE DoubleCheck(t) BY <2>1 DEF DoubleCheck
  <2>2. CASE IncrBy(t) BY <2>2 DEF IncrBy
  <2>3. CASE SetOffset(t) BY <2>3 DEF SetOffset
  <2>4. CASE StoreCurrent(t)
    <3>1. newMax[t] - RangeSize \in Nat
      BY <2>4 DEF StoreCurrent, AheadInv, Publishing
    <3> QED BY <2>4, <3>1 DEF StoreCurrent
  <2>5. CASE StoreMax(t) BY <2>5 DEF StoreMax
  <2> QED BY <1>3, <2>1, <2>2, <2>3, <2>4, <2>5 DEF FetchNextBlock
<1>4. ASSUME NEW t \in Threads, RedisFault(t) PROVE TypeOK'
  <2>1. CASE IncrByRetries(t) BY <2>1 DEF IncrByRetries
  <2>2. CASE IncrByFails(t) BY <2>2 DEF IncrByFails
  <2>3. CASE SetFails(t) BY <2>3 DEF SetFails
  <2> QED BY <1>4, <2>1, <2>2, <2>3 DEF RedisFault
<1>5. ASSUME NEW i \in Instances, Restart(i) PROVE TypeOK'
  BY <1>5 DEF Restart
<1>6. CASE UNCHANGED vars BY <1>6 DEF vars
<1> QED BY <1>1, <1>2, <1>3, <1>4, <1>5, <1>6 DEF Next, Done

\* One lemma per part of the invariant, one step of it per action.
LEMMA LockNext == ASSUME IInv, TypeOK', [Next]_vars PROVE LockInv'
<1> USE DEF IInv, TypeOK, Labels, Goto, LockInv, Fetching
<1>1. ASSUME NEW t \in Threads, Call(t) PROVE LockInv'
  BY <1>1 DEF Call
<1>2. ASSUME NEW t \in Threads, LoadCurrent(t) PROVE LockInv'
  BY <1>2 DEF LoadCurrent
<1>3. ASSUME NEW t \in Threads, LoadMax(t) PROVE LockInv'
  BY <1>3 DEF LoadMax
<1>4. ASSUME NEW t \in Threads, CasOk(t) PROVE LockInv'
  BY <1>4 DEF CasOk, Return
<1>5. ASSUME NEW t \in Threads, CasFails(t) PROVE LockInv'
  BY <1>5 DEF CasFails
<1>6. ASSUME NEW t \in Threads, DoubleCheck(t) PROVE LockInv'
  BY <1>6 DEF DoubleCheck
<1>7. ASSUME NEW t \in Threads, IncrBy(t) PROVE LockInv'
  BY <1>7 DEF IncrBy
<1>8. ASSUME NEW t \in Threads, SetOffset(t) PROVE LockInv'
  BY <1>8 DEF SetOffset
<1>9. ASSUME NEW t \in Threads, StoreCurrent(t) PROVE LockInv'
  BY <1>9 DEF StoreCurrent, AheadInv, Publishing
<1>10. ASSUME NEW t \in Threads, StoreMax(t) PROVE LockInv'
  BY <1>10 DEF StoreMax
<1>11. ASSUME NEW t \in Threads, IncrByRetries(t) PROVE LockInv'
  BY <1>11 DEF IncrByRetries
<1>12. ASSUME NEW t \in Threads, IncrByFails(t) PROVE LockInv'
  BY <1>12 DEF IncrByFails, ReturnError
<1>13. ASSUME NEW t \in Threads, SetFails(t) PROVE LockInv'
  BY <1>13 DEF SetFails, ReturnError
<1>14. ASSUME NEW i \in Instances, Restart(i) PROVE LockInv'
  BY <1>14 DEF Restart
<1>15. CASE UNCHANGED vars
  BY <1>15 DEF vars
<1> QED
  BY <1>1, <1>2, <1>3, <1>4, <1>5, <1>6, <1>7, <1>8, <1>9, <1>10, <1>11, <1>12, <1>13, <1>14, <1>15
     DEF Next, NextID, FetchNextBlock, RedisFault, Done

LEMMA CallNext == ASSUME IInv, TypeOK', [Next]_vars PROVE CallInv'
<1> USE DEF IInv, TypeOK, Labels, Goto, CallInv
<1>1. ASSUME NEW t \in Threads, Call(t) PROVE CallInv'
  BY <1>1 DEF Call
<1>2. ASSUME NEW t \in Threads, LoadCurrent(t) PROVE CallInv'
  BY <1>2 DEF LoadCurrent
<1>3. ASSUME NEW t \in Threads, LoadMax(t) PROVE CallInv'
  BY <1>3 DEF LoadMax
<1>4. ASSUME NEW t \in Threads, CasOk(t) PROVE CallInv'
  BY <1>4 DEF CasOk, Return
<1>5. ASSUME NEW t \in Threads, CasFails(t) PROVE CallInv'
  BY <1>5 DEF CasFails
<1>6. ASSUME NEW t \in Threads, DoubleCheck(t) PROVE CallInv'
  BY <1>6 DEF DoubleCheck
<1>7. ASSUME NEW t \in Threads, IncrBy(t) PROVE CallInv'
  BY <1>7 DEF IncrBy
<1>8. ASSUME NEW t \in Threads, SetOffset(t) PROVE CallInv'
  BY <1>8 DEF SetOffset
<1>9. ASSUME NEW t \in Threads, StoreCurrent(t) PROVE CallInv'
  BY <1>9 DEF StoreCurrent
<1>10. ASSUME NEW t \in Threads, StoreMax(t) PROVE CallInv'
  BY <1>10 DEF StoreMax
<1>11. ASSUME NEW t \in Threads, IncrByRetries(t) PROVE CallInv'
  BY <1>11 DEF IncrByRetries
<1>12. ASSUME NEW t \in Threads, IncrByFails(t) PROVE CallInv'
  BY <1>12 DEF IncrByFails, ReturnError
<1>13. ASSUME NEW t \in Threads, SetFails(t) PROVE CallInv'
  BY <1>13 DEF SetFails, ReturnError
<1>14. ASSUME NEW i \in Instances, Restart(i) PROVE CallInv'
  BY <1>14 DEF Restart
<1>15. CASE UNCHANGED vars
  BY <1>15 DEF vars
<1> QED
  BY <1>1, <1>2, <1>3, <1>4, <1>5, <1>6, <1>7, <1>8, <1>9, <1>10, <1>11, <1>12, <1>13, <1>14, <1>15
     DEF Next, NextID, FetchNextBlock, RedisFault, Done

LEMMA CasNext == ASSUME IInv, TypeOK', [Next]_vars PROVE CasInv'
<1> USE DEF IInv, TypeOK, Labels, Goto, CasInv, LockInv, AheadInv, Fetching, Publishing
<1>1. ASSUME NEW t \in Threads, Call(t) PROVE CasInv'
  BY <1>1 DEF Call
<1>2. ASSUME NEW t \in Threads, LoadCurrent(t) PROVE CasInv'
  BY <1>2 DEF LoadCurrent
<1>3. ASSUME NEW t \in Threads, LoadMax(t) PROVE CasInv'
  BY <1>3 DEF LoadMax
<1>4. ASSUME NEW t \in Threads, CasOk(t) PROVE CasInv'
  BY <1>4 DEF CasOk, Return
<1>5. ASSUME NEW t \in Threads, CasFails(t) PROVE CasInv'
  BY <1>5 DEF CasFails
<1>6. ASSUME NEW t \in Threads, DoubleCheck(t) PROVE CasInv'
  BY <1>6 DEF DoubleCheck
<1>7. ASSUME NEW t \in Threads, IncrBy(t) PROVE CasInv'
  BY <1>7 DEF IncrBy
<1>8. ASSUME NEW t \in Threads, SetOffset(t) PROVE CasInv'
  BY <1>8 DEF SetOffset
<1>9. ASSUME NEW t \in Threads, StoreCurrent(t) PROVE CasInv'
  BY <1>9 DEF StoreCurrent
<1>10. ASSUME NEW t \in Threads, StoreMax(t) PROVE CasInv'
  BY <1>10 DEF StoreMax
<1>11. ASSUME NEW t \in Threads, IncrByRetries(t) PROVE CasInv'
  BY <1>11 DEF IncrByRetries
<1>12. ASSUME NEW t \in Threads, IncrByFails(t) PROVE CasInv'
  BY <1>12 DEF IncrByFails, ReturnError
<1>13. ASSUME NEW t \in Threads, SetFails(t) PROVE CasInv'
  BY <1>13 DEF SetFails, ReturnError
<1>14. ASSUME NEW i \in Instances, Restart(i) PROVE CasInv'
  BY <1>14 DEF Restart
<1>15. CASE UNCHANGED vars
  BY <1>15 DEF vars
<1> QED
  BY <1>1, <1>2, <1>3, <1>4, <1>5, <1>6, <1>7, <1>8, <1>9, <1>10, <1>11, <1>12, <1>13, <1>14, <1>15
     DEF Next, NextID, FetchNextBlock, RedisFault, Done

LEMMA AheadNext == ASSUME IInv, TypeOK', [Next]_vars PROVE AheadInv'
<1> USE DEF IInv, TypeOK, Labels, Goto, AheadInv, LockInv, BootInv, CasInv, Fetching, Publishing
<1>1. ASSUME NEW t \in Threads, Call(t) PROVE AheadInv'
  BY <1>1 DEF Call
<1>2. ASSUME NEW t \in Threads, LoadCurrent(t) PROVE AheadInv'
  BY <1>2 DEF LoadCurrent
<1>3. ASSUME NEW t \in Threads, LoadMax(t) PROVE AheadInv'
  BY <1>3 DEF LoadMax
<1>4. ASSUME NEW t \in Threads, CasOk(t) PROVE AheadInv'
  BY <1>4 DEF CasOk, Return
<1>5. ASSUME NEW t \in Threads, CasFails(t) PROVE AheadInv'
  BY <1>5 DEF CasFails
<1>6. ASSUME NEW t \in Threads, DoubleCheck(t) PROVE AheadInv'
  BY <1>6 DEF DoubleCheck
<1>7. ASSUME NEW t \in Threads, IncrBy(t) PROVE AheadInv'
  BY <1>7 DEF IncrBy
<1>8. ASSUME NEW t \in Threads, SetOffset(t) PROVE AheadInv'
  BY <1>8 DEF SetOffset
<1>9. ASSUME NEW t \in Threads, StoreCurrent(t) PROVE AheadInv'
  BY <1>9 DEF StoreCurrent
<1>10. ASSUME NEW t \in Threads, StoreMax(t) PROVE AheadInv'
  BY <1>10 DEF StoreMax
<1>11. ASSUME NEW t \in Threads, IncrByRetries(t) PROVE AheadInv'
  BY <1>11 DEF IncrByRetries
<1>12. ASSUME NEW t \in Threads, IncrByFails(t) PROVE AheadInv'
  BY <1>12 DEF IncrByFails, ReturnError
<1>13. ASSUME NEW t \in Threads, SetFails(t) PROVE AheadInv'
  BY <1>13 DEF SetFails, ReturnError
<1>14. ASSUME NEW i \in Instances, Restart(i) PROVE AheadInv'
  BY <1>14 DEF Restart
<1>15. CASE UNCHANGED vars
  BY <1>15 DEF vars
<1> QED
  BY <1>1, <1>2, <1>3, <1>4, <1>5, <1>6, <1>7, <1>8, <1>9, <1>10, <1>11, <1>12, <1>13, <1>14, <1>15
     DEF Next, NextID, FetchNextBlock, RedisFault, Done

LEMMA BootNext == ASSUME IInv, TypeOK', [Next]_vars PROVE BootInv'
<1> USE DEF IInv, TypeOK, Labels, Goto, BootInv, AheadInv, LockInv, CallInv, CasInv, Fetching, Publishing
<1>1. ASSUME NEW t \in Threads, Call(t) PROVE BootInv'
  BY <1>1 DEF Call
<1>2. ASSUME NEW t \in Threads, LoadCurrent(t) PROVE BootInv'
  BY <1>2 DEF LoadCurrent
<1>3. ASSUME NEW t \in Threads, LoadMax(t) PROVE BootInv'
  BY <1>3 DEF LoadMax
<1>4. ASSUME NEW t \in Threads, CasOk(t) PROVE BootInv'
  BY <1>4 DEF CasOk, Return
<1>5. ASSUME NEW t \in Threads, CasFails(t) PROVE BootInv'
  BY <1>5 DEF CasFails
<1>6. ASSUME NEW t \in Threads, DoubleCheck(t) PROVE BootInv'
  BY <1>6 DEF DoubleCheck
<1>7. ASSUME NEW t \in Threads, IncrBy(t) PROVE BootInv'
  BY <1>7 DEF IncrBy
<1>8. ASSUME NEW t \in Threads, SetOffset(t) PROVE BootInv'
  BY <1>8 DEF SetOffset
<1>9. ASSUME NEW t \in Threads, StoreCurrent(t) PROVE BootInv'
  BY <1>9 DEF StoreCurrent
<1>10. ASSUME NEW t \in Threads, StoreMax(t) PROVE BootInv'
  BY <1>10 DEF StoreMax
<1>11. ASSUME NEW t \in Threads, IncrByRetries(t) PROVE BootInv'
  BY <1>11 DEF IncrByRetries
<1>12. ASSUME NEW t \in Threads, IncrByFails(t) PROVE BootInv'
  BY <1>12 DEF IncrByFails, ReturnError
<1>13. ASSUME NEW t \in Threads, SetFails(t) PROVE BootInv'
  BY <1>13 DEF SetFails, ReturnError
<1>14. ASSUME NEW i \in Instances, Restart(i) PROVE BootInv'
  BY <1>14 DEF Restart
<1>15. CASE UNCHANGED vars
  BY <1>15 DEF vars
<1> QED
  BY <1>1, <1>2, <1>3, <1>4, <1>5, <1>6, <1>7, <1>8, <1>9, <1>10, <1>11, <1>12, <1>13, <1>14, <1>15
     DEF Next, NextID, FetchNextBlock, RedisFault, Done

LEMMA LeaseNext == ASSUME IInv, TypeOK', [Next]_vars PROVE LeaseInv'
<1>6. ASSUME NEW t \in Threads, DoubleCheck(t) PROVE LeaseInv'
  <2>1. UNCHANGED <<currentID, maxID, newMax, issued>>
    BY <1>6 DEF DoubleCheck
  <2>2. \A s \in Threads : Publishing(s)' <=> Publishing(s)
    BY <1>6 DEF DoubleCheck, Goto, Publishing, IInv, TypeOK
  <2> QED BY <2>1, <2>2 DEF IInv, LeaseInv, Left, Fetched
<1> USE DEF IInv, TypeOK, Labels, Goto, LeaseInv, AheadInv, BootInv, LockInv, CasInv, Fetching, Publishing, Left, Fetched
<1>1. ASSUME NEW t \in Threads, Call(t) PROVE LeaseInv'
  BY <1>1 DEF Call
<1>2. ASSUME NEW t \in Threads, LoadCurrent(t) PROVE LeaseInv'
  BY <1>2 DEF LoadCurrent
<1>3. ASSUME NEW t \in Threads, LoadMax(t) PROVE LeaseInv'
  BY <1>3 DEF LoadMax
<1>4. ASSUME NEW t \in Threads, CasOk(t) PROVE LeaseInv'
  BY <1>4 DEF CasOk, Return
<1>5. ASSUME NEW t \in Threads, CasFails(t) PROVE LeaseInv'
  BY <1>5 DEF CasFails
<1>7. ASSUME NEW t \in Threads, IncrBy(t) PROVE LeaseInv'
  BY <1>7 DEF IncrBy
<1>8. ASSUME NEW t \in Threads, SetOffset(t) PROVE LeaseInv'
  BY <1>8 DEF SetOffset
<1>9. ASSUME NEW t \in Threads, StoreCurrent(t) PROVE LeaseInv'
  BY <1>9 DEF StoreCurrent
<1>10. ASSUME NEW t \in Threads, StoreMax(t) PROVE LeaseInv'
  BY <1>10 DEF StoreMax
<1>11. ASSUME NEW t \in Threads, IncrByRetries(t) PROVE LeaseInv'
  BY <1>11 DEF IncrByRetries
<1>12. ASSUME NEW t \in Threads, IncrByFails(t) PROVE LeaseInv'
  BY <1>12 DEF IncrByFails, ReturnError
<1>13. ASSUME NEW t \in Threads, SetFails(t) PROVE LeaseInv'
  BY <1>13 DEF SetFails, ReturnError
<1>14. ASSUME NEW i \in Instances, Restart(i) PROVE LeaseInv'
  BY <1>14 DEF Restart
<1>15. CASE UNCHANGED vars
  BY <1>15 DEF vars
<1> QED
  BY <1>1, <1>2, <1>3, <1>4, <1>5, <1>6, <1>7, <1>8, <1>9, <1>10, <1>11, <1>12, <1>13, <1>14, <1>15
     DEF Next, NextID, FetchNextBlock, RedisFault, Done

LEMMA InvInit == ASSUME SafeStart, Init PROVE IInv
<1>1. TypeOK
  BY TypeInit
<1>2. LockInv /\ CallInv /\ CasInv
  BY DEF Init, LockInv, Fetching, CallInv, CasInv
<1>3. AheadInv /\ LeaseInv
  BY DEF Init, AheadInv, Publishing, LeaseInv, Left, Fetched
<1>4. BootInv
  BY DEF Init, BootInv, Publishing, SafeStart
<1> QED
  BY <1>1, <1>2, <1>3, <1>4 DEF IInv

LEMMA InvNext == ASSUME IInv, [Next]_vars PROVE IInv'
<1>1. TypeOK'
  BY TypeNext DEF IInv
<1> QED
  BY <1>1, LockNext, CallNext, CasNext, AheadNext, BootNext, LeaseNext DEF IInv

\* The inductive invariant holds of every safe deployment.
THEOREM Invariance == SafeStart /\ Spec => []IInv
<1>1. SafeStart /\ Init => IInv
  BY InvInit
<1>2. IInv /\ [Next]_vars => IInv'
  BY InvNext
<1> QED
  BY <1>1, <1>2, PTL DEF Spec

\* The fields, locals and history variables keep their types: no block starts
\* below zero, which needs the counter to be past the offset (line 79).
THEOREM TypeCorrect == SafeStart /\ Spec => []TypeOK
<1>1. IInv => TypeOK
  BY DEF IInv
<1> QED
  BY <1>1, Invariance, PTL

\* However many instances lease from the counter, no ID is leased twice or
\* still leased after it was returned.
THEOREM LeasesAreDisjoint == SafeStart /\ Spec => []LeasesDisjoint
<1>1. IInv => LeasesDisjoint
  <2> SUFFICES ASSUME IInv PROVE LeasesDisjoint
    OBVIOUS
  <2>1. 1..counter \subseteq Nat
    BY DEF IInv, TypeOK
  <2> QED
    BY <2>1 DEF IInv, LeaseInv, LeasesDisjoint
<1> QED
  BY <1>1, Invariance, PTL

\* The only steps on which an ID leaves a lease are its return to a caller and
\* the death of the instance.
LEMMA KeepsIds == ASSUME IInv, [Next]_vars,
                         NEW i \in Instances, NEW id \in 1..counter,
                         Left(i, id), ~Left(i, id)'
                  PROVE  id \in issued' \/ maxID'[i] = 0
<1> USE DEF IInv, TypeOK, Left, Goto
<1>1. ASSUME NEW t \in Threads, CasOk(t) PROVE id \in issued'
  BY <1>1 DEF CasOk, Return
<1>2. ASSUME NEW t \in Threads, StoreCurrent(t) PROVE FALSE
  BY <1>2 DEF StoreCurrent, LockInv, Fetching
<1>3. ASSUME NEW t \in Threads, StoreMax(t) PROVE FALSE
  BY <1>3 DEF StoreMax, LockInv, Fetching
<1>4. ASSUME NEW j \in Instances, Restart(j) PROVE maxID'[i] = 0
  BY <1>4 DEF Restart
<1>5. CASE UNCHANGED <<currentID, maxID>>
  BY <1>5
<1> QED
  BY <1>1, <1>2, <1>3, <1>4, <1>5
  DEF Next, vars, Call, NextID, FetchNextBlock, RedisFault, Done, LoadCurrent,
      LoadMax, CasFails, DoubleCheck, IncrBy, SetOffset,
      IncrByRetries, IncrByFails, SetFails

\* The double check under the mutex, for any number of goroutines: contention
\* throws no ID of a block away.
THEOREM NoIdIsDropped == SafeStart /\ Spec => NoIdDropped
<1>1. IInv /\ [Next]_vars => [\A i \in Instances, id \in 1..counter :
        Left(i, id) /\ ~Left(i, id)' => id \in issued' \/ maxID'[i] = 0]_vars
  BY KeepsIds
<1> QED
  BY <1>1, Invariance, PTL DEF Spec, NoIdDropped

-----------------------------------------------------------------------------
(* No ID from below the first block *)

\* A block that can be handed out, and so every ID that was, is above the one
\* that ends at the offset.
FloorInv ==
  /\ \A i \in Instances : currentID[i] < maxID[i] => MinIDOffset - RangeSize <= currentID[i]
  /\ \A id \in issued : MinIDOffset - RangeSize < id

LEMMA FloorNext == ASSUME IInv, FloorInv, [Next]_vars PROVE FloorInv'
<1> USE DEF IInv, TypeOK, Goto, FloorInv
<1>1. ASSUME NEW t \in Threads, CasOk(t) PROVE FloorInv'
  <2>1. MinIDOffset - RangeSize <= curr[t] /\ curr[t] \in Nat
    BY <1>1 DEF CasOk, CasInv
  <2>2. ASSUME NEW i \in Instances, (currentID[i] < maxID[i])'
        PROVE  (MinIDOffset - RangeSize <= currentID[i])'
    BY <1>1, <2>1, <2>2 DEF CasOk, Return
  <2>3. \A id \in issued' : MinIDOffset - RangeSize < id
    BY <1>1, <2>1 DEF CasOk, Return
  <2> QED
    BY <2>2, <2>3
<1>2. ASSUME NEW t \in Threads, StoreCurrent(t) PROVE FloorInv'
  BY <1>2 DEF StoreCurrent, AheadInv, Publishing
<1>3. ASSUME NEW t \in Threads, StoreMax(t) PROVE FloorInv'
  BY <1>3 DEF StoreMax, AheadInv, Publishing
<1>4. ASSUME NEW i \in Instances, Restart(i) PROVE FloorInv'
  <2>1. ASSUME NEW j \in Instances, (currentID[j] < maxID[j])'
        PROVE  (MinIDOffset - RangeSize <= currentID[j])'
    <3>1. j # i
      BY <1>4, <2>1 DEF Restart
    <3> QED
      BY <1>4, <2>1, <3>1 DEF Restart
  <2> QED
    BY <1>4, <2>1 DEF Restart
<1>5. CASE UNCHANGED <<currentID, maxID, issued>>
  BY <1>5
<1> QED
  BY <1>1, <1>2, <1>3, <1>4, <1>5
  DEF Next, vars, Call, NextID, FetchNextBlock, RedisFault, Done, LoadCurrent,
      LoadMax, CasFails, DoubleCheck, IncrBy, SetOffset,
      IncrByRetries, IncrByFails, SetFails

\* allocator.go, line 10: minIDOffset keeps the first, small numbers from ever
\* being returned, across failed SETs, lost replies and restarts.
THEOREM IdsAboveFloor == SafeStart /\ Spec => [](\A id \in issued : MinIDOffset - RangeSize < id)
<1>1. Init => FloorInv
  BY DEF Init, FloorInv
<1>2. IInv /\ FloorInv /\ [Next]_vars => FloorInv'
  BY FloorNext
<1>3. FloorInv => \A id \in issued : MinIDOffset - RangeSize < id
  BY DEF FloorInv
<1> QED
  BY <1>1, <1>2, <1>3, Invariance, PTL DEF Spec

-----------------------------------------------------------------------------
(* IdAllocator implements IdSource. *)

\* The ID that the compare-and-swap takes is one nobody has been given.
LEMMA CasOkIssues == ASSUME IInv, NEW t \in Threads, CasOk(t) PROVE Source!Issue(t)
<1>1. Left(Home[t], curr[t] + 1)
  BY DEF IInv, TypeOK, CasInv, CasOk, Left
<1>2. curr[t] + 1 \in Nat \ issued
  BY <1>1 DEF IInv, TypeOK, LeaseInv
<1>3. answer[t] = Pending
  BY DEF IInv, CallInv, CasOk
<1>4. answer' = [answer EXCEPT ![t] = curr[t] + 1] /\ issued' = issued \cup {curr[t] + 1}
  BY DEF CasOk, Return
<1>5. answer'[t] = curr[t] + 1
  BY <1>4 DEF IInv, TypeOK
<1> QED
  BY <1>2, <1>3, <1>4, <1>5 DEF Source!Issue

LEMMA ErrorFails == ASSUME IInv, NEW t \in Threads, pc[t] # "idle",
                           ReturnError(t), UNCHANGED issued
                    PROVE  Source!Fail({t})
<1>1. answer[t] = Pending
  BY DEF IInv, CallInv
<1>2. answer' = [c \in Threads |-> IF c \in {t} THEN Failed ELSE answer[c]]
  BY DEF IInv, TypeOK, ReturnError
<1> QED
  BY <1>1, <1>2 DEF Source!Fail

LEMMA RestartFails == ASSUME IInv, NEW i \in Instances, Restart(i)
                      PROVE  \E S \in SUBSET Threads : Source!Fail(S)
<1> DEFINE S == {t \in Threads : Home[t] = i /\ pc[t] # "idle"}
<1>1. \A c \in S : answer[c] = Pending
  BY DEF IInv, CallInv
<1>2. answer' = [c \in Threads |-> IF c \in S THEN Failed ELSE answer[c]]
  BY DEF Restart
<1>3. UNCHANGED issued
  BY DEF Restart
<1>4. Source!Fail(S)
  BY <1>1, <1>2, <1>3 DEF Source!Fail
<1> QED
  BY <1>4

LEMMA StepImplements == ASSUME IInv, [Next]_vars PROVE [Source!Next]_(Source!vars)
<1> USE DEF Source!Next, Source!vars
<1>1. ASSUME NEW t \in Threads, Call(t) PROVE Source!Call(t)
  BY <1>1 DEF Call, Source!Call, IInv, CallInv
<1>2. ASSUME NEW t \in Threads, CasOk(t) PROVE Source!Issue(t)
  BY <1>2, CasOkIssues
<1>3. ASSUME NEW t \in Threads, IncrByFails(t) \/ SetFails(t) PROVE Source!Fail({t})
  BY <1>3, ErrorFails DEF IncrByFails, SetFails
<1>4. ASSUME NEW i \in Instances, Restart(i)
      PROVE  \E S \in SUBSET Threads : Source!Fail(S)
  BY <1>4, RestartFails
<1>5. CASE UNCHANGED <<issued, answer>>
  BY <1>5
<1>6. \A t \in Threads : {t} \in SUBSET Threads
  OBVIOUS
<1> QED
  BY <1>1, <1>2, <1>3, <1>4, <1>5, <1>6
  DEF Next, vars, NextID, FetchNextBlock, RedisFault, Done, LoadCurrent, LoadMax,
      CasFails, DoubleCheck, IncrBy, SetOffset, StoreCurrent,
      StoreMax, IncrByRetries

\* "NextID returns a unique 64-bit integer ID": for any number of instances and
\* goroutines, every ID it returns is one that no call has returned before.
THEOREM NextIDIsUnique == SafeStart /\ Spec => ImplementsSource
<1>1. Init => Source!Init
  BY DEF Init, Source!Init
<1>2. IInv /\ [Next]_vars => [Source!Next]_(Source!vars)
  BY StepImplements
<1> QED
  BY <1>1, <1>2, Invariance, PTL DEF Spec, ImplementsSource, Source!Spec
=============================================================================
