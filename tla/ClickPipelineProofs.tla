------------------------ MODULE ClickPipelineProofs ------------------------
(***************************************************************************)
(* What ClickPipeline promises for any number of redirects, handlers and   *)
(* workers, any batch size and any cap on the list.                        *)
(***************************************************************************)
EXTENDS ClickPipeline, SumTheorems

\* A handler past LLEN has a code; a row is locked by a transaction that is
\* open; a worker that has returned has an empty batch.
PlaceInv ==
  /\ \A h \in Handlers : hpc[h] # "idle" => hcode[h] \in Codes
  /\ \A c \in Codes : rowLock[c] # Unlocked => at[rowLock[c]] = "update"
  /\ \A w \in Workers : at[w] = "stopped" => batch[w] = Zero

Inv == TypeOK /\ PlaceInv

LEMMA ZeroType == Zero \in [Codes -> Nat]
  BY DEF Zero

LEMMA AddNat ==
  ASSUME NEW c \in Codes, NEW f \in [Codes -> Nat], NEW n \in Nat
  PROVE  Add(f, c, n) \in [Codes -> Nat]
  BY DEF Add

LEMMA AddInt ==
  ASSUME NEW c \in Codes, NEW f \in [Codes -> Int], NEW n \in Int
  PROVE  Add(f, c, n) \in [Codes -> Int]
  BY DEF Add

LEMMA InitInv == Init => Inv
<1> SUFFICES ASSUME Init PROVE Inv
  OBVIOUS
<1>1. TypeOK
  <2>1. Zero \in [Codes -> Nat] /\ Zero \in [Codes -> Int]
    BY DEF Zero
  <2>2. queue \in Seq(Codes)
    BY DEF Init
  <2>3. rowLock \in [Codes -> Workers \cup {Unlocked}] /\ hcode \in [Handlers -> Codes \cup {NoCode}]
    BY DEF Init
  <2>4. /\ at \in [Workers -> {"loop", "insert", "update", "decr", "stopped"}]
        /\ todo \in [Workers -> SUBSET Codes] /\ cancelled \in [Workers -> BOOLEAN]
        /\ hpc \in [Handlers -> {"idle", "len", "push", "incr"}]
    BY DEF Init
  <2>5. batch \in [Workers -> [Codes -> Nat]]
    BY <2>1 DEF Init
  <2>6. clicks \in 0..MaxClicks /\ faults \in 0..MaxFaults
    BY SizeAssumption DEF Init
  <2> QED
    BY <2>1, <2>2, <2>3, <2>4, <2>5, <2>6 DEF Init, TypeOK
<1>2. PlaceInv
  BY DEF Init, PlaceInv
<1> QED
  BY <1>1, <1>2 DEF Inv

LEMMA ClickInv ==
  ASSUME Inv, NEW h \in Handlers, NEW c \in Codes, Click(h, c)
  PROVE  Inv'
<1>1. TypeOK'
  BY SizeAssumption DEF Inv, TypeOK, Click, redis, postgres, worker, history
<1>2. PlaceInv'
  BY DEF Inv, TypeOK, PlaceInv, Click, redis, postgres, worker, history
<1> QED
  BY <1>1, <1>2 DEF Inv

LEMMA HandlerGotoType ==
  ASSUME Inv, NEW h \in Handlers, NEW label \in {"idle", "len", "push", "incr"},
         HandlerGoto(h, label), label # "idle" => hcode[h] \in Codes
  PROVE  /\ hpc' \in [Handlers -> {"idle", "len", "push", "incr"}]
         /\ hcode' \in [Handlers -> Codes \cup {NoCode}]
         /\ \A g \in Handlers : hpc'[g] # "idle" => hcode'[g] \in Codes
  BY DEF Inv, TypeOK, PlaceInv, HandlerGoto

LEMMA QueueAnalyticsInv ==
  ASSUME Inv, NEW h \in Handlers, QueueAnalytics(h)
  PROVE  Inv'
<1>1. hcode[h] \in Codes
  BY DEF Inv, PlaceInv, QueueAnalytics, CheckLen, CheckLenFails, Push, PushFails, PushTwice, Incr,
     IncrReplyLost, IncrFails
<1>2. /\ hpc' \in [Handlers -> {"idle", "len", "push", "incr"}]
      /\ hcode' \in [Handlers -> Codes \cup {NoCode}]
      /\ \A g \in Handlers : hpc'[g] # "idle" => hcode'[g] \in Codes
  <2>1. CASE IncrReplyLost(h)
    BY <2>1 DEF IncrReplyLost, handler, Inv, TypeOK, PlaceInv
  <2>2. CASE ~IncrReplyLost(h)
    BY <1>1, <2>2, HandlerGotoType
    DEF QueueAnalytics, CheckLen, CheckLenFails, Push, PushFails, PushTwice, Incr, IncrFails
  <2> QED
    BY <2>1, <2>2
<1>3. /\ queue \in Seq(Codes) /\ live \in [Codes -> Int]
      /\ pushed \in [Codes -> Nat] /\ strayed \in [Codes -> Int]
  BY DEF Inv, TypeOK
<1>4. /\ queue' \in Seq(Codes) /\ live' \in [Codes -> Int]
      /\ pushed' \in [Codes -> Nat] /\ strayed' \in [Codes -> Int]
  <2>1. /\ Add(pushed, hcode[h], 1) \in [Codes -> Nat] /\ Add(pushed, hcode[h], 2) \in [Codes -> Nat]
        /\ Add(live, hcode[h], 1) \in [Codes -> Int]
        /\ Add(strayed, hcode[h], 1) \in [Codes -> Int]
        /\ Add(strayed, hcode[h], -1) \in [Codes -> Int]
    <3>1. hcode[h] \in Codes
      BY <1>1
    <3>2. \A f \in [Codes -> Nat] : Add(f, hcode[h], 1) \in [Codes -> Nat] /\ Add(f, hcode[h], 2) \in [Codes -> Nat]
      BY <3>1 DEF Add
    <3>3. \A f \in [Codes -> Int] : Add(f, hcode[h], 1) \in [Codes -> Int] /\ Add(f, hcode[h], -1) \in [Codes -> Int]
      BY <3>1 DEF Add
    <3> QED
      BY <1>3, <3>2, <3>3
  <2>2. CASE CheckLen(h) \/ CheckLenFails(h)
    BY <1>3, <2>2 DEF CheckLen, CheckLenFails, redis, history
  <2>3. CASE Push(h)
    <3>1. Append(queue, hcode[h]) \in Seq(Codes)
      BY <1>1, <1>3
    <3>2. UNCHANGED <<live, strayed>>
      BY <2>3 DEF Push
    <3> QED
      BY <1>3, <2>1, <2>3, <3>1, <3>2 DEF Push
  <2>4. CASE PushFails(h)
    <3>1. UNCHANGED <<queue, live, pushed>>
      BY <2>4 DEF PushFails, redis
    <3> QED
      BY <1>3, <2>1, <2>4, <3>1 DEF PushFails
  <2>5. CASE PushTwice(h)
    <3>1. <<hcode[h], hcode[h]>> \in Seq(Codes)
      BY <1>1
    <3>2. queue' \in Seq(Codes)
      BY <1>3, <2>5, <3>1 DEF PushTwice
    <3> QED
      BY <1>3, <2>1, <2>5, <3>2 DEF PushTwice
  <2>6. CASE Incr(h) \/ IncrReplyLost(h) \/ IncrFails(h)
    <3>1. UNCHANGED <<queue, pushed>>
      BY <2>6 DEF Incr, IncrReplyLost, IncrFails, redis, history
    <3>2. /\ live' \in {live, Add(live, hcode[h], 1)}
          /\ strayed' \in {strayed, Add(strayed, hcode[h], 1), Add(strayed, hcode[h], -1)}
      BY <2>6 DEF Incr, IncrReplyLost, IncrFails, redis, history
    <3> QED
      BY <1>3, <2>1, <3>1, <3>2
  <2> QED
    BY <2>2, <2>3, <2>4, <2>5, <2>6 DEF QueueAnalytics
<1>5. clicks' = clicks /\ faults' \in 0..MaxFaults
  BY SizeAssumption DEF Inv, TypeOK, Fault, bounds, QueueAnalytics, CheckLen, CheckLenFails,
     Push, PushFails, PushTwice, Incr, IncrReplyLost, IncrFails
<1>6. decremented' = decremented /\ UNCHANGED <<postgres, worker>>
  BY DEF history, QueueAnalytics, CheckLen, CheckLenFails, Push, PushFails, PushTwice, Incr,
     IncrReplyLost, IncrFails
<1> QED
  BY <1>2, <1>4, <1>5, <1>6 DEF Inv, TypeOK, PlaceInv, postgres, worker

-----------------------------------------------------------------------------
(* The steps of a worker and of its process *)

Labels == {"loop", "insert", "update", "decr", "stopped"}

LEMMA GotoType ==
  ASSUME Inv, NEW w \in Workers, NEW label \in Labels, NEW codes \in SUBSET Codes,
         Goto(w, label, codes)
  PROVE  /\ at' \in [Workers -> {"loop", "insert", "update", "decr", "stopped"}]
         /\ todo' \in [Workers -> SUBSET Codes]
         /\ at'[w] = label
         /\ \A v \in Workers \ {w} : at'[v] = at[v]
  BY DEF Inv, TypeOK, Goto, Labels

LEMMA FaultType ==
  ASSUME Inv, Fault \/ UNCHANGED bounds
  PROVE  clicks' \in 0..MaxClicks /\ faults' \in 0..MaxFaults
  BY SizeAssumption DEF Inv, TypeOK, Fault, bounds

LEMMA PopInv ==
  ASSUME Inv, NEW w \in Workers, Pop(w)
  PROVE  Inv'
<1>1. /\ queue' \in Seq(Codes) /\ Head(queue) \in Codes
  BY DEF Inv, TypeOK, Pop
<1>2. batch' \in [Workers -> [Codes -> Nat]] /\ \A v \in Workers \ {w} : batch'[v] = batch[v]
  BY <1>1, AddNat DEF Inv, TypeOK, Pop
<1>3. PICK label \in Labels : label # "stopped" /\ Goto(w, label, {})
  BY DEF Pop, Labels
<1>4. /\ at' \in [Workers -> {"loop", "insert", "update", "decr", "stopped"}]
      /\ todo' \in [Workers -> SUBSET Codes]
      /\ at'[w] = label
      /\ \A v \in Workers \ {w} : at'[v] = at[v]
  BY <1>3, GotoType
<1>5. /\ at[w] = "loop"
      /\ UNCHANGED <<live, postgres, cancelled, handler, history, bounds>>
  BY DEF Pop
<1>6. TypeOK'
  BY <1>1, <1>2, <1>4, <1>5 DEF Inv, TypeOK, postgres, handler, history, bounds
<1>7. PlaceInv'
  <2>1. UNCHANGED <<rowLock, hpc, hcode>>
    BY <1>5 DEF postgres, handler
  <2>2. \A c \in Codes : rowLock[c] # Unlocked => rowLock[c] \in Workers \ {w}
    BY <1>5 DEF Inv, TypeOK, PlaceInv
  <2>3. \A v \in Workers : at'[v] = "stopped" => v # w
    BY <1>3, <1>4
  <2> QED
    BY <1>2, <1>4, <2>1, <2>2, <2>3 DEF Inv, PlaceInv
<1> QED
  BY <1>6, <1>7 DEF Inv

LEMMA PopReplyLostInv ==
  ASSUME Inv, NEW w \in Workers, PopReplyLost(w)
  PROVE  Inv'
<1>1. /\ queue' \in Seq(Codes) /\ Head(queue) \in Codes
  BY DEF Inv, TypeOK, PopReplyLost
<1>2. strayed' \in [Codes -> Int]
  <2>1. strayed \in [Codes -> Int] /\ strayed' = Add(strayed, Head(queue), 1)
    BY DEF Inv, TypeOK, PopReplyLost
  <2> QED
    BY <1>1, <2>1, AddInt
<1>3. clicks' \in 0..MaxClicks /\ faults' \in 0..MaxFaults
  BY FaultType DEF PopReplyLost
<1>4. UNCHANGED <<live, postgres, worker, handler, pushed, decremented>>
  BY DEF PopReplyLost
<1> QED
  BY <1>1, <1>2, <1>3, <1>4 DEF Inv, TypeOK, PlaceInv, postgres, worker, handler

LEMMA StartFlushInv ==
  ASSUME Inv, NEW w \in Workers, TickerFlush(w) \/ CtxDone(w)
  PROVE  Inv'
<1>1. PICK label \in Labels : (label = "stopped" => batch[w] = Zero) /\ Goto(w, label, {})
  BY DEF TickerFlush, CtxDone, Labels
<1>2. /\ at' \in [Workers -> {"loop", "insert", "update", "decr", "stopped"}]
      /\ todo' \in [Workers -> SUBSET Codes]
      /\ at'[w] = label
      /\ \A v \in Workers \ {w} : at'[v] = at[v]
  BY <1>1, GotoType
<1>3. /\ at[w] = "loop"
      /\ UNCHANGED <<redis, postgres, batch, cancelled, handler, history, bounds>>
  BY DEF TickerFlush, CtxDone
<1>4. TypeOK'
  BY <1>2, <1>3 DEF Inv, TypeOK, redis, postgres, handler, history, bounds
<1>5. PlaceInv'
  BY <1>1, <1>2, <1>3 DEF Inv, TypeOK, PlaceInv, postgres, handler
<1> QED
  BY <1>4, <1>5 DEF Inv

LEMMA InType == ASSUME NEW b PROVE In(b) \in SUBSET Codes
  BY DEF In

LEMMA PlusType ==
  ASSUME NEW f \in [Codes -> Nat], NEW g \in [Codes -> Nat]
  PROVE  Plus(f, g) \in [Codes -> Nat]
  BY DEF Plus

LEMMA BulkInsertInv ==
  ASSUME Inv, NEW w \in Workers, BulkInsert(w)
  PROVE  Inv'
<1>1. /\ at' \in [Workers -> {"loop", "insert", "update", "decr", "stopped"}]
      /\ todo' \in [Workers -> SUBSET Codes]
      /\ at'[w] = "update"
      /\ \A v \in Workers \ {w} : at'[v] = at[v]
  BY GotoType, InType DEF BulkInsert, Labels
<1>2. inserted' \in [Codes -> Nat]
  <2>1. inserted \in [Codes -> Nat] /\ batch[w] \in [Codes -> Nat]
    BY DEF Inv, TypeOK
  <2> QED
    BY <2>1, PlusType DEF BulkInsert
<1>3. UNCHANGED <<redis, clickCount, rowLock, batch, cancelled, handler, history, bounds>>
  BY DEF BulkInsert
<1>4. TypeOK'
  BY <1>1, <1>2, <1>3 DEF Inv, TypeOK, redis, handler, history, bounds
<1>5. PlaceInv'
  BY <1>1, <1>3 DEF Inv, TypeOK, PlaceInv, handler
<1> QED
  BY <1>4, <1>5 DEF Inv

LEMMA UpdateRowInv ==
  ASSUME Inv, NEW w \in Workers, NEW c \in Codes, UpdateRow(w, c)
  PROVE  Inv'
<1>1. todo[w] \ {c} \in SUBSET Codes
  BY DEF Inv, TypeOK
<1>2. /\ at' \in [Workers -> {"loop", "insert", "update", "decr", "stopped"}]
      /\ todo' \in [Workers -> SUBSET Codes]
      /\ at'[w] = "update"
      /\ \A v \in Workers \ {w} : at'[v] = at[v]
  BY <1>1, GotoType DEF UpdateRow, Labels
<1>3. /\ rowLock' = [rowLock EXCEPT ![c] = w]
      /\ UNCHANGED <<redis, inserted, clickCount, batch, cancelled, handler, history, bounds>>
  BY DEF UpdateRow
<1>4. TypeOK'
  BY <1>2, <1>3 DEF Inv, TypeOK, redis, handler, history, bounds
<1>5. PlaceInv'
  BY <1>2, <1>3, SMTT(30) DEF Inv, TypeOK, PlaceInv, handler
<1> QED
  BY <1>4, <1>5 DEF Inv

\* A worker that leaves its transaction holds no row afterwards.
LEMMA ReleaseType ==
  ASSUME Inv, NEW w \in Workers, Release(w), NEW label \in Labels,
         NEW codes \in SUBSET Codes, Goto(w, label, codes)
  PROVE  /\ rowLock' \in [Codes -> Workers \cup {Unlocked}]
         /\ at' \in [Workers -> {"loop", "insert", "update", "decr", "stopped"}]
         /\ todo' \in [Workers -> SUBSET Codes]
         /\ at'[w] = label
         /\ \A v \in Workers \ {w} : at'[v] = at[v]
         /\ \A c \in Codes : rowLock'[c] # Unlocked => at'[rowLock'[c]] = "update"
<1>1. rowLock' \in [Codes -> Workers \cup {Unlocked}] /\ \A c \in Codes : rowLock'[c] # w
  BY ValueAssumption DEF Inv, TypeOK, Release
<1>2. \A c \in Codes : rowLock'[c] # Unlocked => rowLock'[c] = rowLock[c]
  BY DEF Release
<1> QED
  BY <1>1, <1>2, GotoType DEF Inv, PlaceInv

LEMMA EndTxInv ==
  ASSUME Inv, NEW w \in Workers, Commit(w) \/ TxFails(w) \/ DeadlockAbort(w)
  PROVE  Inv'
<1>1. Release(w) /\ Goto(w, "decr", In(batch[w]))
  BY DEF Commit, TxFails, DeadlockAbort, Rollback
<1>2. /\ rowLock' \in [Codes -> Workers \cup {Unlocked}]
      /\ at' \in [Workers -> {"loop", "insert", "update", "decr", "stopped"}]
      /\ todo' \in [Workers -> SUBSET Codes]
      /\ at'[w] = "decr"
      /\ \A v \in Workers \ {w} : at'[v] = at[v]
      /\ \A c \in Codes : rowLock'[c] # Unlocked => at'[rowLock'[c]] = "update"
  BY <1>1, InType, ReleaseType DEF Labels
<1>3. clickCount' \in [Codes -> Nat]
  <2>1. clickCount \in [Codes -> Nat] /\ batch[w] \in [Codes -> Nat]
    BY DEF Inv, TypeOK
  <2> QED
    BY <2>1, PlusType DEF Commit, TxFails, DeadlockAbort, Rollback
<1>4. clicks' \in 0..MaxClicks /\ faults' \in 0..MaxFaults
  BY FaultType DEF Commit, TxFails, DeadlockAbort
<1>5. UNCHANGED <<redis, inserted, batch, cancelled, handler, history>>
  BY DEF Commit, TxFails, DeadlockAbort, Rollback
<1>6. TypeOK'
  BY <1>2, <1>3, <1>4, <1>5 DEF Inv, TypeOK, redis, handler, history
<1>7. PlaceInv'
  BY <1>2, <1>5 DEF Inv, TypeOK, PlaceInv, handler
<1> QED
  BY <1>6, <1>7 DEF Inv

LEMMA DecrInv ==
  ASSUME Inv, NEW w \in Workers, NEW c \in Codes, DecrBy(w, c) \/ DecrByFails(w, c)
  PROVE  Inv'
<1>1. Decremented(w, c) /\ at[w] = "decr"
  BY DEF DecrBy, DecrByFails, Decremented
<1>2. PICK label \in Labels : label # "stopped" /\ Goto(w, label, todo[w] \ {c})
  BY <1>1 DEF Decremented, Labels
<1>3. todo[w] \ {c} \in SUBSET Codes
  BY DEF Inv, TypeOK
<1>4. /\ at' \in [Workers -> {"loop", "insert", "update", "decr", "stopped"}]
      /\ todo' \in [Workers -> SUBSET Codes]
      /\ at'[w] = label
      /\ \A v \in Workers \ {w} : at'[v] = at[v]
  BY <1>2, <1>3, GotoType
<1>5. batch' \in [Workers -> [Codes -> Nat]] /\ \A v \in Workers \ {w} : batch'[v] = batch[v]
  BY <1>1, ZeroType DEF Inv, TypeOK, Decremented
<1>6. batch[w][c] \in Nat /\ batch[w][c] \in Int /\ -batch[w][c] \in Int
  BY DEF Inv, TypeOK
<1>7. live \in [Codes -> Int] /\ decremented \in [Codes -> Nat] /\ strayed \in [Codes -> Int]
  BY DEF Inv, TypeOK
<1>8. live' \in [Codes -> Int] /\ decremented' \in [Codes -> Nat] /\ strayed' \in [Codes -> Int]
  <2>1. CASE DecrBy(w, c)
    BY <1>6, <1>7, <2>1, AddNat, AddInt DEF DecrBy
  <2>2. CASE DecrByFails(w, c)
    BY <1>6, <1>7, <2>2, AddNat, AddInt DEF DecrByFails
  <2> QED
    BY <2>1, <2>2
<1>9. clicks' \in 0..MaxClicks /\ faults' \in 0..MaxFaults
  BY FaultType DEF DecrBy, DecrByFails
<1>10. UNCHANGED <<queue, postgres, cancelled, handler, pushed>>
  BY <1>1 DEF Decremented
<1>11. TypeOK'
  BY <1>4, <1>5, <1>8, <1>9, <1>10 DEF Inv, TypeOK, postgres, handler
<1>12. PlaceInv'
  <2>1. UNCHANGED <<rowLock, hpc, hcode>>
    BY <1>10 DEF postgres, handler
  <2>2. \A x \in Codes : rowLock[x] # Unlocked => rowLock[x] \in Workers \ {w}
    BY <1>1 DEF Inv, TypeOK, PlaceInv
  <2>3. \A v \in Workers : at'[v] = "stopped" => v # w
    BY <1>2, <1>4
  <2> QED
    BY <1>4, <1>5, <2>1, <2>2, <2>3 DEF Inv, PlaceInv
<1> QED
  BY <1>11, <1>12 DEF Inv

LEMMA CancelInv ==
  ASSUME Inv, NEW w \in Workers, Cancel(w)
  PROVE  Inv'
<1>1. cancelled' \in [Workers -> BOOLEAN]
  BY DEF Inv, TypeOK, Cancel
<1>2. UNCHANGED <<redis, postgres, at, batch, todo, handler, history, bounds>>
  BY DEF Cancel
<1> QED
  BY <1>1, <1>2 DEF Inv, TypeOK, PlaceInv, redis, postgres, handler, history, bounds

LEMMA CrashInv ==
  ASSUME Inv, NEW w \in Workers, Crash(w)
  PROVE  Inv'
<1>1. Release(w) /\ Goto(w, "loop", {})
  BY DEF Crash
<1>2. /\ rowLock' \in [Codes -> Workers \cup {Unlocked}]
      /\ at' \in [Workers -> {"loop", "insert", "update", "decr", "stopped"}]
      /\ todo' \in [Workers -> SUBSET Codes]
      /\ at'[w] = "loop"
      /\ \A v \in Workers \ {w} : at'[v] = at[v]
      /\ \A c \in Codes : rowLock'[c] # Unlocked => at'[rowLock'[c]] = "update"
  BY <1>1, ReleaseType DEF Labels
<1>3. strayed' \in [Codes -> Int]
  <2>1. ASSUME NEW c \in Codes
        PROVE  Cardinality({h \in Uncounted(c) : Home[h] = w}) \in Nat
    <3>1. {h \in Uncounted(c) : Home[h] = w} \subseteq Handlers
      BY DEF Uncounted
    <3> QED
      BY <3>1, HomeAssumption, FS_Subset, FS_CardinalityType
  <2>2. ASSUME NEW c \in Codes PROVE Owes(w, c) \in Nat
    BY DEF Inv, TypeOK, Owes
  <2> DEFINE n(c) == Cardinality({h \in Uncounted(c) : Home[h] = w})
  <2>3. strayed' = [c \in Codes |-> strayed[c] + Owes(w, c) - n(c)]
    BY DEF Crash
  <2>4. \A c \in Codes : n(c) \in Nat
    BY <2>1
  <2> HIDE DEF n
  <2>5. strayed \in [Codes -> Int]
    BY DEF Inv, TypeOK
  <2> QED
    BY <2>2, <2>3, <2>4, <2>5
<1>4. batch' \in [Workers -> [Codes -> Nat]] /\ \A v \in Workers \ {w} : batch'[v] = batch[v]
  BY ZeroType DEF Inv, TypeOK, Crash
<1>5. cancelled' \in [Workers -> BOOLEAN]
  BY DEF Inv, TypeOK, Crash
<1>6. /\ hpc' \in [Handlers -> {"idle", "len", "push", "incr"}]
      /\ hcode' \in [Handlers -> Codes \cup {NoCode}]
      /\ \A h \in Handlers : hpc'[h] # "idle" => hcode'[h] \in Codes
  BY DEF Inv, TypeOK, PlaceInv, Crash
<1>7. clicks' \in 0..MaxClicks /\ faults' \in 0..MaxFaults
  BY FaultType DEF Crash
<1>8. UNCHANGED <<redis, inserted, clickCount, pushed, decremented>>
  BY DEF Crash
<1>9. TypeOK'
  BY <1>2, <1>3, <1>4, <1>5, <1>6, <1>7, <1>8 DEF Inv, TypeOK, redis
<1>10. PlaceInv'
  BY <1>2, <1>4, <1>6 DEF Inv, TypeOK, PlaceInv
<1> QED
  BY <1>9, <1>10 DEF Inv

LEMMA DecrReplyLostInv ==
  ASSUME Inv, NEW w \in Workers, NEW c \in Codes, DecrByReplyLost(w, c)
  PROVE  Inv'
<1>1. batch[w][c] \in Nat /\ -batch[w][c] \in Int
  BY DEF Inv, TypeOK
<1>2. live \in [Codes -> Int] /\ strayed \in [Codes -> Int]
  BY DEF Inv, TypeOK
<1>3. live' \in [Codes -> Int] /\ strayed' \in [Codes -> Int]
  BY <1>1, <1>2, AddInt DEF DecrByReplyLost
<1>4. clicks' \in 0..MaxClicks /\ faults' \in 0..MaxFaults
  BY FaultType DEF DecrByReplyLost
<1>5. UNCHANGED <<queue, postgres, worker, handler, pushed, decremented>>
  BY DEF DecrByReplyLost
<1> QED
  BY <1>3, <1>4, <1>5 DEF Inv, TypeOK, PlaceInv, postgres, worker, handler

LEMMA NextInv == Inv /\ [Next]_vars => Inv'
<1> SUFFICES ASSUME Inv, [Next]_vars PROVE Inv'
  OBVIOUS
<1>1. CASE \E h \in Handlers : QueueAnalytics(h) \/ \E c \in Codes : Click(h, c)
  BY <1>1, QueueAnalyticsInv, ClickInv
<1>2. CASE \E w \in Workers : \/ Pop(w) \/ PopReplyLost(w)
                              \/ TickerFlush(w) \/ CtxDone(w) \/ Flush(w)
                              \/ TxFails(w)
                              \/ \E c \in Codes : DecrByReplyLost(w, c) \/ DecrByFails(w, c)
                              \/ Cancel(w) \/ Crash(w)
  BY <1>2, PopInv, PopReplyLostInv, StartFlushInv, BulkInsertInv, UpdateRowInv, EndTxInv,
     DecrReplyLostInv, DecrInv, CancelInv, CrashInv DEF Flush
<1>3. CASE UNCHANGED vars
  <2>1. UNCHANGED <<queue, live, inserted, clickCount, rowLock, at, batch, todo, cancelled,
                    hpc, hcode, pushed, decremented, strayed, clicks, faults>>
    BY <1>3 DEF vars, redis, postgres, worker, handler, history, bounds
  <2> QED
    BY <2>1 DEF Inv, TypeOK, PlaceInv
<1> QED
  BY <1>1, <1>2, <1>3 DEF Next

\* Every variable keeps its type, in particular the history of what was
\* pushed and the click counts never go below zero, whatever is lost.
THEOREM TypeCorrect == Spec => []TypeOK
<1>1. Inv => TypeOK
  BY DEF Inv
<1> QED
  BY <1>1, InitInv, NextInv, PTL DEF Spec

\* worker.Start, ctx.Done: a worker returns only with nothing in memory and
\* no row of urls locked, whatever failed in its last flush.
THEOREM StoppedEmpty == Spec => []StoppedIsEmpty
<1>1. Inv => StoppedIsEmpty
  <2> SUFFICES ASSUME Inv, NEW w \in Workers, at[w] = "stopped"
               PROVE  batch[w] = Zero /\ \A c \in Codes : rowLock[c] # w
    BY DEF StoppedIsEmpty
  <2>1. w # Unlocked
    BY ValueAssumption
  <2> QED
    BY <2>1 DEF Inv, PlaceInv
<1> QED
  BY <1>1, InitInv, NextInv, PTL DEF Spec

-----------------------------------------------------------------------------
(* The cap of the list *)

\* The handlers that have passed the check and not pushed yet.
Pushing == {h \in Handlers : hpc[h] = "push"}

\* Each of them may still add one event to the list.
Room == Len(queue) + Cardinality(Pushing) <= MaxQueueLen - 1 + Cardinality(Handlers) + faults

LEMMA PushingType ==
  /\ IsFiniteSet(Handlers) /\ Cardinality(Handlers) \in Nat
  /\ IsFiniteSet(Pushing) /\ Cardinality(Pushing) \in Nat
  /\ Cardinality(Pushing) <= Cardinality(Handlers)
<1>1. Pushing \subseteq Handlers
  BY DEF Pushing
<1> QED
  BY <1>1, HomeAssumption, FS_Subset, FS_CardinalityType

LEMMA PushingPrimedType ==
  /\ IsFiniteSet(Pushing') /\ Cardinality(Pushing') \in Nat
  /\ Cardinality(Pushing') <= Cardinality(Handlers)
<1>1. Pushing' \subseteq Handlers
  BY DEF Pushing
<1> QED
  BY <1>1, HomeAssumption, FS_Subset, FS_CardinalityType

\* A handler that starts or ends its push changes their number by one.
LEMMA PushingMoves ==
  ASSUME Inv, NEW h \in Handlers, NEW label \in {"idle", "len", "push", "incr"},
         HandlerGoto(h, label)
  PROVE  /\ hpc[h] # "push" /\ label # "push" => Pushing' = Pushing
         /\ hpc[h] # "push" /\ label = "push" =>
              Cardinality(Pushing') = Cardinality(Pushing) + 1
         /\ hpc[h] = "push" /\ label # "push" =>
              Cardinality(Pushing') = Cardinality(Pushing) - 1
<1>1. /\ hpc \in [Handlers -> {"idle", "len", "push", "incr"}]
      /\ hpc' = [hpc EXCEPT ![h] = label]
  BY DEF Inv, TypeOK, HandlerGoto
<1>2. hpc[h] # "push" /\ label # "push" => Pushing' = Pushing
  BY <1>1 DEF Pushing
<1>3. hpc[h] # "push" /\ label = "push" => Pushing' = Pushing \cup {h} /\ h \notin Pushing
  BY <1>1 DEF Pushing
<1>4. hpc[h] = "push" /\ label # "push" => Pushing' = Pushing \ {h} /\ h \in Pushing
  BY <1>1 DEF Pushing
<1> QED
  BY <1>2, <1>3, <1>4, PushingType, FS_AddElement, FS_RemoveElement

LEMMA QueueType == ASSUME Inv PROVE Len(queue) \in Nat /\ faults \in Nat /\ MaxQueueLen \in Nat
  BY SizeAssumption DEF Inv, TypeOK

LEMMA QueueAnalyticsRoom ==
  ASSUME Inv, Room, NEW h \in Handlers, QueueAnalytics(h)
  PROVE  Room'
<1> USE PushingType, PushingPrimedType, QueueType
<1>1. CASE CheckLen(h) /\ Len(queue) < MaxQueueLen
  <2>1. queue' = queue /\ faults' = faults
    BY <1>1 DEF CheckLen, redis, bounds
  <2> QED
    BY <1>1, <2>1 DEF Room
<1>2. CASE CheckLen(h) /\ ~(Len(queue) < MaxQueueLen)
  <2>1. queue' = queue /\ faults' = faults /\ hpc[h] = "len" /\ HandlerGoto(h, "idle")
    BY <1>2 DEF CheckLen, redis, bounds
  <2>2. Pushing' = Pushing
    BY <2>1, PushingMoves
  <2> QED
    BY <2>1, <2>2 DEF Room
<1>3. CASE CheckLenFails(h)
  <2>1. queue' = queue /\ faults' = faults + 1 /\ hpc[h] = "len" /\ HandlerGoto(h, "push")
    BY <1>3 DEF CheckLenFails, redis, Fault
  <2>2. Cardinality(Pushing') = Cardinality(Pushing) + 1
    BY <2>1, PushingMoves
  <2> QED
    BY <2>1, <2>2, SMTT(30) DEF Room
<1>4. CASE Push(h)
  <2>1. /\ queue' = Append(queue, hcode[h]) /\ faults' = faults
        /\ hpc[h] = "push" /\ HandlerGoto(h, "incr")
    BY <1>4 DEF Push, bounds
  <2>2. Cardinality(Pushing') = Cardinality(Pushing) - 1
    BY <2>1, PushingMoves
  <2>3. Len(queue') = Len(queue) + 1
    BY <2>1 DEF Inv, TypeOK
  <2> QED
    BY <2>1, <2>2, <2>3 DEF Room
<1>5. CASE PushFails(h)
  <2>1. queue' = queue /\ faults' = faults + 1 /\ hpc[h] = "push" /\ HandlerGoto(h, "incr")
    BY <1>5 DEF PushFails, redis, Fault
  <2>2. Cardinality(Pushing') = Cardinality(Pushing) - 1
    BY <2>1, PushingMoves
  <2> QED
    BY <2>1, <2>2, SMTT(30) DEF Room
<1>6. CASE PushTwice(h)
  <2>1. /\ queue' = queue \o <<hcode[h], hcode[h]>> /\ faults' = faults + 1
        /\ hpc[h] = "push" /\ HandlerGoto(h, "incr")
    BY <1>6 DEF PushTwice, Fault
  <2>2. Cardinality(Pushing') = Cardinality(Pushing) - 1
    BY <2>1, PushingMoves
  <2>3. hcode[h] \in Codes
    BY <2>1 DEF Inv, PlaceInv
  <2>4. <<hcode[h], hcode[h]>> \in Seq(Codes) /\ Len(<<hcode[h], hcode[h]>>) = 2
    BY <2>3
  <2>5. Len(queue') = Len(queue) + 2
    BY <2>1, <2>4 DEF Inv, TypeOK
  <2> QED
    BY <2>1, <2>2, <2>5, SMTT(30) DEF Room
<1>7. CASE Incr(h) \/ IncrFails(h)
  <2>1. /\ queue' = queue /\ faults' \in {faults, faults + 1}
        /\ hpc[h] = "incr" /\ HandlerGoto(h, "idle")
    BY <1>7 DEF Incr, IncrFails, redis, bounds, Fault
  <2>2. Pushing' = Pushing
    BY <2>1, PushingMoves
  <2> QED
    BY <2>1, <2>2 DEF Room
<1>8. CASE IncrReplyLost(h)
  <2>1. UNCHANGED <<queue, hpc>> /\ faults' = faults + 1
    BY <1>8 DEF IncrReplyLost, handler, Fault
  <2>2. Pushing' = Pushing
    BY <2>1 DEF Pushing
  <2> QED
    BY <2>1, <2>2 DEF Room
<1> QED
  BY <1>1, <1>2, <1>3, <1>4, <1>5, <1>6, <1>7, <1>8 DEF QueueAnalytics

LEMMA PopRoom ==
  ASSUME Inv, Room, NEW w \in Workers, Pop(w) \/ PopReplyLost(w)
  PROVE  Room'
<1> USE PushingType, PushingPrimedType, QueueType
<1>1. Pushing' = Pushing
  BY DEF Pop, PopReplyLost, handler, Pushing
<1>2. queue # <<>> /\ queue' = Tail(queue) /\ faults' \in {faults, faults + 1}
  BY DEF Pop, PopReplyLost, bounds, Fault
<1>3. Len(queue') = Len(queue) - 1
  BY <1>2 DEF Inv, TypeOK
<1> QED
  BY <1>1, <1>2, <1>3 DEF Room

LEMMA CrashRoom ==
  ASSUME Inv, Room, NEW w \in Workers, Crash(w)
  PROVE  Room'
<1> USE PushingType, PushingPrimedType, QueueType
<1>1. queue' = queue /\ faults' = faults + 1
  BY DEF Crash, redis, Fault
<1>2. Pushing' \subseteq Pushing
  BY DEF Crash, Pushing
<1>3. Cardinality(Pushing') <= Cardinality(Pushing)
  BY <1>2, FS_Subset
<1> QED
  BY <1>1, <1>3 DEF Room

LEMMA OtherRoom ==
  ASSUME Inv, Room, Pushing' = Pushing, queue' = queue, faults' \in {faults, faults + 1}
  PROVE  Room'
  BY PushingType, QueueType DEF Room

LEMMA NextRoom == Inv /\ Room /\ [Next]_vars => Room'
<1> SUFFICES ASSUME Inv, Room, [Next]_vars PROVE Room'
  OBVIOUS
<1>1. CASE \E h \in Handlers : QueueAnalytics(h)
  BY <1>1, QueueAnalyticsRoom
<1>2. CASE \E h \in Handlers, c \in Codes : Click(h, c)
  <2>1. PICK h \in Handlers, c \in Codes : Click(h, c)
    BY <1>2
  <2>2. queue' = queue /\ faults' = faults
    BY <2>1 DEF Click, redis
  <2>3. Pushing' = Pushing
    BY <2>1 DEF Click, Pushing, Inv, TypeOK
  <2> QED
    BY <2>2, <2>3, OtherRoom
<1>3. CASE \E w \in Workers : Pop(w) \/ PopReplyLost(w)
  BY <1>3, PopRoom
<1>4. CASE \E w \in Workers : Crash(w)
  BY <1>4, CrashRoom
<1>5. CASE \E w \in Workers : TickerFlush(w) \/ CtxDone(w) \/ Cancel(w)
  <2>1. UNCHANGED <<queue, hpc, faults>>
    BY <1>5 DEF TickerFlush, CtxDone, Cancel, redis, handler, bounds
  <2> QED
    BY <2>1, OtherRoom DEF Pushing
<1>6. CASE \E w \in Workers : Flush(w) \/ TxFails(w)
  <2>1. queue' = queue /\ hpc' = hpc /\ faults' \in {faults, faults + 1}
    BY <1>6 DEF Flush, BulkInsert, UpdateRow, Commit, TxFails, DeadlockAbort, Rollback, DecrBy,
       Decremented, redis, handler, bounds, Fault
  <2> QED
    BY <2>1, OtherRoom DEF Pushing
<1>7. CASE \E w \in Workers, c \in Codes : DecrByReplyLost(w, c) \/ DecrByFails(w, c)
  <2>1. queue' = queue /\ hpc' = hpc /\ faults' = faults + 1
    BY <1>7 DEF DecrByReplyLost, DecrByFails, Decremented, handler, Fault
  <2> QED
    BY <2>1, OtherRoom DEF Pushing
<1>8. CASE UNCHANGED vars
  <2>1. queue' = queue /\ hpc' = hpc /\ faults' = faults
    BY <1>8 DEF vars, redis, handler, bounds
  <2> QED
    BY <2>1, OtherRoom DEF Pushing
<1> QED
  BY <1>1, <1>2, <1>3, <1>4, <1>5, <1>6, <1>7, <1>8 DEF Next

LEMMA InitRoom == Init => Room
<1> SUFFICES ASSUME Init PROVE Room
  OBVIOUS
<1>1. Len(queue) = 0 /\ faults = 0
  BY DEF Init
<1>2. Pushing = {}
  BY DEF Init, Pushing
<1>3. Cardinality(Pushing) = 0
  BY <1>2, FS_EmptySet
<1> QED
  BY <1>1, <1>3, PushingType, SizeAssumption DEF Room

\* queueAnalytics: the list outgrows its cap by no more than the handlers
\* that were past the check and one event for each failed command.
THEOREM QueueBounded == Spec => []QueueBound
<1>1. Inv /\ Room => QueueBound
  BY PushingType, QueueType DEF Room, QueueBound
<1> QED
  BY <1>1, InitInv, NextInv, InitRoom, NextRoom, PTL DEF Spec

-----------------------------------------------------------------------------
(* How often a code is in the list *)

Occ(q, c) == Cardinality({i \in DOMAIN q : q[i] = c})

LEMMA OccType ==
  ASSUME NEW q \in Seq(Codes), NEW c
  PROVE  IsFiniteSet({i \in DOMAIN q : q[i] = c}) /\ Occ(q, c) \in Nat
<1>1. DOMAIN q = 1..Len(q) /\ 1 \in Int /\ Len(q) \in Int
  OBVIOUS
<1>2. IsFiniteSet(DOMAIN q)
  BY <1>1, FS_Interval
<1>3. {i \in DOMAIN q : q[i] = c} \in SUBSET DOMAIN q
  OBVIOUS
<1> QED
  BY <1>2, <1>3, FS_Subset, FS_CardinalityType DEF Occ

LEMMA OccAppend ==
  ASSUME NEW q \in Seq(Codes), NEW x \in Codes, NEW c
  PROVE  Occ(Append(q, x), c) = Occ(q, c) + IF x = c THEN 1 ELSE 0
<1> DEFINE P == {i \in DOMAIN q : q[i] = c}
           R == {i \in DOMAIN Append(q, x) : Append(q, x)[i] = c}
           n == Len(q) + 1
<1>1. IsFiniteSet(P) /\ Occ(q, c) = Cardinality(P) /\ Occ(q, c) \in Nat
  BY OccType DEF Occ
<1>2. n \notin P
  OBVIOUS
<1>3. Occ(Append(q, x), c) = Cardinality(R)
  BY DEF Occ
<1>4. CASE x = c
  <2>1. R = P \cup {n}
    BY <1>4
  <2>2. Cardinality(R) = Cardinality(P) + 1
    <3> HIDE DEF P, R, n
    <3> QED
      BY <1>1, <1>2, <2>1, FS_AddElement
  <2> HIDE DEF P, R
  <2> QED
    BY <1>1, <1>3, <1>4, <2>2
<1>5. CASE x # c
  <2>1. R = P
    BY <1>5
  <2> HIDE DEF P, R
  <2> QED
    BY <1>1, <1>3, <1>5, <2>1
<1> QED
  BY <1>4, <1>5

\* The positions of the tail are those of the queue, one less.
LEMMA OccTail ==
  ASSUME NEW q \in Seq(Codes), q # <<>>, NEW c
  PROVE  Occ(q, c) = Occ(Tail(q), c) + IF Head(q) = c THEN 1 ELSE 0
<1> DEFINE P == {i \in DOMAIN q : q[i] = c}
           T == {i \in DOMAIN Tail(q) : Tail(q)[i] = c}
           shift == [i \in T |-> i + 1]
<1>1. IsFiniteSet(P) /\ Cardinality(P) \in Nat
  BY OccType DEF Occ
<1>2. Tail(q) \in Seq(Codes)
  OBVIOUS
<1>3. IsFiniteSet(T)
  BY <1>2, OccType
<1>4. /\ DOMAIN q = 1..Len(q) /\ Len(q) \in Nat /\ Len(q) >= 1
      /\ DOMAIN Tail(q) = 1..(Len(q) - 1)
      /\ \A i \in 1..(Len(q) - 1) : Tail(q)[i] = q[i + 1]
      /\ Head(q) = q[1]
  OBVIOUS
<1>5. shift \in Bijection(T, P \ {1})
  <2>1. \A i \in T : i + 1 \in P \ {1}
    BY <1>4
  <2>2. \A j \in P \ {1} : j - 1 \in T /\ shift[j - 1] = j
    BY <1>4
  <2>3. \A i, j \in T : i # j => i + 1 # j + 1
    BY <1>4
  <2> QED
    BY <2>1, <2>2, <2>3 DEF Bijection, Injection, Surjection, IsInjective
<1>6. Cardinality(P \ {1}) = Cardinality(T)
  <2> HIDE DEF P, T, shift
  <2> QED
    BY <1>3, <1>5, FS_Bijection DEF ExistsBijection
<1>7. Cardinality(P \ {1}) = IF 1 \in P THEN Cardinality(P) - 1 ELSE Cardinality(P)
  <2> HIDE DEF P
  <2> QED
    BY <1>1, FS_RemoveElement
<1>8. 1 \in P <=> Head(q) = c
  BY <1>4
<1>9. Occ(q, c) = Cardinality(P) /\ Occ(Tail(q), c) = Cardinality(T)
  BY DEF Occ
<1> HIDE DEF P, T
<1> QED
  BY <1>1, <1>6, <1>7, <1>8, <1>9

-----------------------------------------------------------------------------
(* What a step of one worker or one handler changes in the counts *)

FlightOf(w, c) == IF Uncommitted(w) THEN batch[w][c] ELSE 0
TransitOf(w, c) == IF Uninserted(w) THEN batch[w][c] ELSE 0

Parts == \A w \in Workers, c \in Codes :
  Owes(w, c) \in Nat /\ FlightOf(w, c) \in Nat /\ TransitOf(w, c) \in Nat

LEMMA PartsTyped == Inv => Parts
  BY DEF Inv, TypeOK, Parts, Owes, FlightOf, TransitOf

LEMMA PartsTypedNext == Inv' => Parts'
  BY PartsTyped, PTL

Numbers == \A c \in Codes :
  /\ Queued(c) \in Nat /\ Owed(c) \in Nat /\ InFlight(c) \in Nat /\ InTransit(c) \in Nat
  /\ IsFiniteSet(Uncounted(c)) /\ Cardinality(Uncounted(c)) \in Nat
  /\ live[c] \in Int /\ strayed[c] \in Int /\ faults \in Nat
  /\ inserted[c] \in Nat /\ clickCount[c] \in Nat /\ pushed[c] \in Nat /\ decremented[c] \in Nat

LEMMA NumbersTyped == Inv => Numbers
<1> SUFFICES ASSUME Inv, NEW c \in Codes
             PROVE  /\ Queued(c) \in Nat
                    /\ Owed(c) \in Nat /\ InFlight(c) \in Nat /\ InTransit(c) \in Nat
                    /\ IsFiniteSet(Uncounted(c)) /\ Cardinality(Uncounted(c)) \in Nat
                    /\ live[c] \in Int /\ strayed[c] \in Int /\ faults \in Nat
                    /\ inserted[c] \in Nat /\ clickCount[c] \in Nat
                    /\ pushed[c] \in Nat /\ decremented[c] \in Nat
  BY DEF Numbers
<1>1. Queued(c) \in Nat
  BY OccType DEF Inv, TypeOK, Queued, Occ
<1>2. Parts
  BY PartsTyped
<1>3. Owed(c) \in Nat
  <2>1. [w \in Workers |-> Owes(w, c)] \in [Workers -> Nat]
    BY <1>2 DEF Parts
  <2> QED
    BY <2>1, FiniteAssumption, SumType DEF Owed
<1>4. InFlight(c) \in Nat
  <2>1. [w \in Workers |-> IF Uncommitted(w) THEN batch[w][c] ELSE 0] \in [Workers -> Nat]
    BY <1>2 DEF Parts, FlightOf
  <2> QED
    BY <2>1, FiniteAssumption, SumType DEF InFlight
<1>5. InTransit(c) \in Nat
  <2>1. [w \in Workers |-> IF Uninserted(w) THEN batch[w][c] ELSE 0] \in [Workers -> Nat]
    BY <1>2 DEF Parts, TransitOf
  <2> QED
    BY <2>1, FiniteAssumption, SumType DEF InTransit
<1>6. IsFiniteSet(Uncounted(c)) /\ Cardinality(Uncounted(c)) \in Nat
  BY HomeAssumption, FS_Subset, FS_CardinalityType DEF Uncounted
<1>7. /\ live[c] \in Int /\ strayed[c] \in Int /\ faults \in Nat
      /\ inserted[c] \in Nat /\ clickCount[c] \in Nat /\ pushed[c] \in Nat /\ decremented[c] \in Nat
  BY SizeAssumption DEF Inv, TypeOK
<1> QED
  BY <1>1, <1>3, <1>4, <1>5, <1>6, <1>7

LEMMA NumbersTypedNext == Inv' => Numbers'
  BY NumbersTyped, PTL

Still(w) == at'[w] = at[w] /\ batch'[w] = batch[w] /\ todo'[w] = todo[w]

\* Only the part of the worker that moves changes.
LEMMA WorkerMoves ==
  ASSUME Inv, Inv', NEW w \in Workers, NEW c \in Codes, \A v \in Workers \ {w} : Still(v)
  PROVE  /\ Owed(c)' = Owed(c) - Owes(w, c) + Owes(w, c)'
         /\ InFlight(c)' = InFlight(c) - FlightOf(w, c) + FlightOf(w, c)'
         /\ InTransit(c)' = InTransit(c) - TransitOf(w, c) + TransitOf(w, c)'
<1>1. Parts /\ Parts'
  BY PartsTyped, PartsTypedNext
<1>2. Owed(c)' = Owed(c) - Owes(w, c) + Owes(w, c)'
  <2> DEFINE f == [v \in Workers |-> Owes(v, c)]
             g == [v \in Workers |-> Owes(v, c)']
  <2>1. f \in [Workers -> Nat] /\ g \in [Workers -> Nat]
    BY <1>1 DEF Parts
  <2>2. \A v \in Workers \ {w} : g[v] = f[v]
    BY DEF Still, Owes
  <2>3. Owed(c) = SumFunction(f) /\ Owed(c)' = SumFunction(g)
    BY DEF Owed
  <2>4. f[w] = Owes(w, c) /\ g[w] = Owes(w, c)'
    OBVIOUS
  <2> HIDE DEF f, g
  <2> QED
    BY <2>1, <2>2, <2>3, <2>4, FiniteAssumption, SumUpdate
<1>3. InFlight(c)' = InFlight(c) - FlightOf(w, c) + FlightOf(w, c)'
  <2> DEFINE f == [v \in Workers |-> FlightOf(v, c)]
             g == [v \in Workers |-> FlightOf(v, c)']
  <2>1. f \in [Workers -> Nat] /\ g \in [Workers -> Nat]
    BY <1>1 DEF Parts
  <2>2. \A v \in Workers \ {w} : g[v] = f[v]
    BY DEF Still, FlightOf, Uncommitted
  <2>3. InFlight(c) = SumFunction(f) /\ InFlight(c)' = SumFunction(g)
    BY DEF InFlight, FlightOf
  <2>4. f[w] = FlightOf(w, c) /\ g[w] = FlightOf(w, c)'
    OBVIOUS
  <2> HIDE DEF f, g
  <2> QED
    BY <2>1, <2>2, <2>3, <2>4, FiniteAssumption, SumUpdate
<1>4. InTransit(c)' = InTransit(c) - TransitOf(w, c) + TransitOf(w, c)'
  <2> DEFINE f == [v \in Workers |-> TransitOf(v, c)]
             g == [v \in Workers |-> TransitOf(v, c)']
  <2>1. f \in [Workers -> Nat] /\ g \in [Workers -> Nat]
    BY <1>1 DEF Parts
  <2>2. \A v \in Workers \ {w} : g[v] = f[v]
    BY DEF Still, TransitOf, Uninserted
  <2>3. InTransit(c) = SumFunction(f) /\ InTransit(c)' = SumFunction(g)
    BY DEF InTransit, TransitOf
  <2>4. f[w] = TransitOf(w, c) /\ g[w] = TransitOf(w, c)'
    OBVIOUS
  <2> HIDE DEF f, g
  <2> QED
    BY <2>1, <2>2, <2>3, <2>4, FiniteAssumption, SumUpdate
<1> QED
  BY <1>2, <1>3, <1>4

LEMMA WorkersStill ==
  ASSUME UNCHANGED <<at, batch, todo>>, NEW c \in Codes
  PROVE  Owed(c)' = Owed(c) /\ InFlight(c)' = InFlight(c) /\ InTransit(c)' = InTransit(c)
  BY DEF Owed, Owes, InFlight, Uncommitted, InTransit, Uninserted

\* A handler is uncounted from its push to its INCR.
LEMMA UncountedMoves ==
  ASSUME Inv, NEW h \in Handlers, NEW label \in {"idle", "len", "push", "incr"},
         HandlerGoto(h, label), NEW c \in Codes
  PROVE  /\ hpc[h] # "incr" /\ label # "incr" => Uncounted(c)' = Uncounted(c)
         /\ hpc[h] # "incr" /\ label = "incr" =>
              Cardinality(Uncounted(c)') = Cardinality(Uncounted(c)) + (IF hcode[h] = c THEN 1 ELSE 0)
         /\ hpc[h] = "incr" /\ label # "incr" =>
              Cardinality(Uncounted(c)') = Cardinality(Uncounted(c)) - (IF hcode[h] = c THEN 1 ELSE 0)
<1>1. /\ hpc' = [hpc EXCEPT ![h] = label] /\ hpc \in [Handlers -> {"idle", "len", "push", "incr"}]
      /\ hcode \in [Handlers -> Codes \cup {NoCode}]
      /\ \A g \in Handlers \ {h} : hcode'[g] = hcode[g]
      /\ label # "idle" => hcode' = hcode
  BY DEF Inv, TypeOK, HandlerGoto
<1>2. IsFiniteSet(Uncounted(c)) /\ Cardinality(Uncounted(c)) \in Nat
  BY NumbersTyped DEF Numbers
<1>3. hpc[h] # "incr" /\ label # "incr" => Uncounted(c)' = Uncounted(c)
  BY <1>1 DEF Uncounted
<1>4. hpc[h] # "incr" /\ label = "incr" =>
        /\ h \notin Uncounted(c)
        /\ Uncounted(c)' = IF hcode[h] = c THEN Uncounted(c) \cup {h} ELSE Uncounted(c)
  BY <1>1 DEF Uncounted
<1>5. hpc[h] = "incr" /\ label # "incr" =>
        /\ h \in Uncounted(c) <=> hcode[h] = c
        /\ Uncounted(c)' = Uncounted(c) \ {h}
  BY <1>1 DEF Uncounted
<1> QED
  BY <1>2, <1>3, <1>4, <1>5, FS_AddElement, FS_RemoveElement

-----------------------------------------------------------------------------
(* The books: where every event that was pushed is *)

\* NoneDropped, and nothing strayed, for one code.
Conserved(c) == faults = 0 => strayed[c] = 0 /\ pushed[c] = Queued(c) + Owed(c) + decremented[c]

Book(c) ==
  /\ live[c] = Queued(c) + Owed(c) - Cardinality(Uncounted(c)) + strayed[c]
  /\ clickCount[c] + InFlight(c) + Queued(c) <= pushed[c]
  /\ inserted[c] + InTransit(c) + Queued(c) <= pushed[c]
  /\ Conserved(c)

Books == \A c \in Codes : Book(c)

LEMMA QueueAnalyticsBooks ==
  ASSUME Inv, Inv', Books, NEW h \in Handlers, QueueAnalytics(h)
  PROVE  Books'
<1> SUFFICES ASSUME NEW c \in Codes PROVE Book(c)'
  BY DEF Books
<1>1. Book(c)
  BY DEF Books
<1>2. Numbers /\ Numbers'
  BY NumbersTyped, NumbersTypedNext
<1>3. /\ UNCHANGED <<at, batch, todo, inserted, clickCount>> /\ decremented' = decremented
  BY DEF QueueAnalytics, CheckLen, CheckLenFails, Push, PushFails, PushTwice, Incr,
     IncrReplyLost, IncrFails, worker, postgres, history
<1>4. Owed(c)' = Owed(c) /\ InFlight(c)' = InFlight(c) /\ InTransit(c)' = InTransit(c)
  BY <1>3, WorkersStill
<1>5. hcode[h] \in Codes /\ queue \in Seq(Codes)
  BY DEF Inv, TypeOK, PlaceInv, QueueAnalytics, CheckLen, CheckLenFails, Push, PushFails,
     PushTwice, Incr, IncrReplyLost, IncrFails
<1>6. Queued(c) = Occ(queue, c) /\ Queued(c)' = Occ(queue', c)
  BY DEF Queued, Occ
<1> DEFINE one == IF hcode[h] = c THEN 1 ELSE 0
<1>7. /\ Add(pushed, hcode[h], 1)[c] = pushed[c] + one
       /\ Add(pushed, hcode[h], 2)[c] = pushed[c] + one + one
       /\ Add(live, hcode[h], 1)[c] = live[c] + one
       /\ Add(strayed, hcode[h], 1)[c] = strayed[c] + one
       /\ Add(strayed, hcode[h], -1)[c] = strayed[c] - one
  <2>1. pushed \in [Codes -> Nat] /\ live \in [Codes -> Int] /\ strayed \in [Codes -> Int]
    BY DEF Inv, TypeOK
  <2> QED
    BY <1>5, <2>1 DEF Add
<1>8. CASE CheckLen(h) \/ CheckLenFails(h)
  <2>1. PICK label \in {"idle", "push"} : HandlerGoto(h, label) /\ hpc[h] = "len"
    BY <1>8 DEF CheckLen, CheckLenFails
  <2>2. Uncounted(c)' = Uncounted(c)
    BY <2>1, UncountedMoves
  <2>3. UNCHANGED <<queue, live, pushed, strayed>> /\ faults' \in {faults, faults + 1}
    BY <1>8 DEF CheckLen, CheckLenFails, redis, history, bounds, Fault
  <2> QED
    BY <1>1, <1>2, <1>3, <1>4, <1>6, <2>2, <2>3 DEF Numbers, Book, Conserved
<1>9. CASE Push(h)
  <2>1. Cardinality(Uncounted(c)') = Cardinality(Uncounted(c)) + one
    BY <1>9, UncountedMoves DEF Push
  <2>2. Occ(queue', c) = Occ(queue, c) + one
    BY <1>5, <1>9, OccAppend DEF Push
  <2>3. pushed'[c] = pushed[c] + one
    BY <1>9, <1>7 DEF Push
  <2>4. UNCHANGED <<live, strayed, faults>>
    BY <1>9 DEF Push, bounds
  <2> QED
    BY <1>1, <1>2, <1>3, <1>4, <1>6, <2>1, <2>2, <2>3, <2>4 DEF Numbers, Book, Conserved
<1>10. CASE PushFails(h)
  <2>1. Cardinality(Uncounted(c)') = Cardinality(Uncounted(c)) + one
    BY <1>10, UncountedMoves DEF PushFails
  <2>2. strayed'[c] = strayed[c] + one
    BY <1>10, <1>7 DEF PushFails
  <2>3. UNCHANGED <<queue, live, pushed>> /\ faults' = faults + 1
    BY <1>10 DEF PushFails, redis, Fault
  <2> QED
    BY <1>1, <1>2, <1>3, <1>4, <1>6, <2>1, <2>2, <2>3 DEF Numbers, Book, Conserved
<1>11. CASE PushTwice(h)
  <2>1. Cardinality(Uncounted(c)') = Cardinality(Uncounted(c)) + one
    BY <1>11, UncountedMoves DEF PushTwice
  <2>2. Occ(queue', c) = Occ(queue, c) + one + one
    <3> DEFINE x == hcode[h]
               q == Append(queue, x)
    <3>1. x \in Codes /\ q \in Seq(Codes) /\ queue' = queue \o <<x, x>>
      BY <1>5, <1>11 DEF PushTwice
    <3>2. Occ(q, c) = Occ(queue, c) + one /\ Occ(Append(q, x), c) = Occ(q, c) + one
      <4> HIDE DEF q
      <4>1. Occ(Append(q, x), c) = Occ(q, c) + one
        BY <3>1, OccAppend
      <4> QED
        BY <1>5, <4>1, OccAppend DEF q
    <3>3. queue \o <<x, x>> = Append(q, x)
      <4> HIDE DEF x
      <4> QED
        BY <1>5, <3>1
    <3> QED
      BY <3>1, <3>2, <3>3
  <2>3. pushed'[c] = pushed[c] + one + one
    BY <1>11, <1>7 DEF PushTwice
  <2>4. strayed'[c] = strayed[c] - one
    BY <1>11, <1>7 DEF PushTwice
  <2>5. live' = live /\ faults' = faults + 1
    BY <1>11 DEF PushTwice, Fault
  <2> QED
    BY <1>1, <1>2, <1>3, <1>4, <1>6, <2>1, <2>2, <2>3, <2>4, <2>5 DEF Numbers, Book, Conserved
<1>12. CASE Incr(h)
  <2>1. Cardinality(Uncounted(c)') = Cardinality(Uncounted(c)) - one
    BY <1>12, UncountedMoves DEF Incr
  <2>2. live'[c] = live[c] + one
    BY <1>12, <1>7 DEF Incr
  <2>3. UNCHANGED <<queue, pushed, strayed, faults>>
    BY <1>12 DEF Incr, history, bounds
  <2> QED
    BY <1>1, <1>2, <1>3, <1>4, <1>6, <2>1, <2>2, <2>3 DEF Numbers, Book, Conserved
<1>13. CASE IncrFails(h)
  <2>1. Cardinality(Uncounted(c)') = Cardinality(Uncounted(c)) - one
    BY <1>13, UncountedMoves DEF IncrFails
  <2>2. strayed'[c] = strayed[c] - one
    BY <1>13, <1>7 DEF IncrFails
  <2>3. UNCHANGED <<queue, live, pushed>> /\ faults' = faults + 1
    BY <1>13 DEF IncrFails, redis, Fault
  <2> QED
    BY <1>1, <1>2, <1>3, <1>4, <1>6, <2>1, <2>2, <2>3 DEF Numbers, Book, Conserved
<1>14. CASE IncrReplyLost(h)
  <2>1. Uncounted(c)' = Uncounted(c)
    BY <1>14 DEF IncrReplyLost, handler, Uncounted
  <2>2. live'[c] = live[c] + one /\ strayed'[c] = strayed[c] + one
    BY <1>14, <1>7 DEF IncrReplyLost
  <2>3. UNCHANGED <<queue, pushed>> /\ faults' = faults + 1
    BY <1>14 DEF IncrReplyLost, Fault
  <2> QED
    BY <1>1, <1>2, <1>3, <1>4, <1>6, <2>1, <2>2, <2>3 DEF Numbers, Book, Conserved
<1> QED
  BY <1>8, <1>9, <1>10, <1>11, <1>12, <1>13, <1>14 DEF QueueAnalytics

\* What a worker does outside the books: it moves its batch along, or takes
\* the row locks.
LEMMA MoveBooks ==
  ASSUME Inv, Inv', Books, NEW w \in Workers,
         TickerFlush(w) \/ CtxDone(w) \/ Cancel(w) \/ \E c \in Codes : UpdateRow(w, c)
  PROVE  Books'
<1> SUFFICES ASSUME NEW c \in Codes PROVE Book(c)'
  BY DEF Books
<1>1. Book(c) /\ Numbers /\ Numbers' /\ Parts
  BY NumbersTyped, NumbersTypedNext, PartsTyped DEF Books
<1>2. /\ UNCHANGED <<redis, inserted, clickCount, handler, history, bounds, batch>>
      /\ \A v \in Workers \ {w} : Still(v)
  <2>1. at \in [Workers -> Labels] /\ todo \in [Workers -> SUBSET Codes]
    BY DEF Inv, TypeOK, Labels
  <2>2. CASE TickerFlush(w) \/ CtxDone(w)
    BY <2>1, <2>2 DEF TickerFlush, CtxDone, Goto, postgres, Still
  <2>3. CASE Cancel(w)
    BY <2>3 DEF Cancel, postgres, Still
  <2>4. CASE \E x \in Codes : UpdateRow(w, x)
    BY <2>1, <2>4 DEF UpdateRow, Goto, Still
  <2> QED
    BY <2>2, <2>3, <2>4
<1>3. /\ Owes(w, c)' = Owes(w, c) /\ FlightOf(w, c)' = FlightOf(w, c)
      /\ TransitOf(w, c)' = TransitOf(w, c)
  <2>1. CASE TickerFlush(w) \/ CtxDone(w)
    <3>1. batch[w] = Zero => batch[w][c] = 0
      BY DEF Zero
    <3>2. at[w] = "loop" /\ (at'[w] = "insert" \/ (at'[w] = "stopped" /\ batch[w] = Zero))
      BY <2>1 DEF TickerFlush, CtxDone, Goto, Inv, TypeOK
    <3> QED
      BY <1>2, <3>1, <3>2 DEF Owes, FlightOf, Uncommitted, TransitOf, Uninserted
  <2>2. CASE Cancel(w)
    BY <2>2 DEF Cancel, Owes, FlightOf, Uncommitted, TransitOf, Uninserted
  <2>3. CASE \E x \in Codes : UpdateRow(w, x)
    <3>1. at[w] = "update" /\ at'[w] = "update"
      BY <2>3 DEF UpdateRow, Goto, Inv, TypeOK
    <3> QED
      BY <1>2, <3>1 DEF Owes, FlightOf, Uncommitted, TransitOf, Uninserted
  <2> QED
    BY <2>1, <2>2, <2>3
<1>4. Owed(c)' = Owed(c) /\ InFlight(c)' = InFlight(c) /\ InTransit(c)' = InTransit(c)
  <2>1. /\ Owed(c)' = Owed(c) - Owes(w, c) + Owes(w, c)'
        /\ InFlight(c)' = InFlight(c) - FlightOf(w, c) + FlightOf(w, c)'
        /\ InTransit(c)' = InTransit(c) - TransitOf(w, c) + TransitOf(w, c)'
    BY <1>2, WorkerMoves
  <2> QED
    BY <1>1, <1>3, <2>1 DEF Numbers, Parts
<1>5. /\ Queued(c)' = Queued(c) /\ Uncounted(c)' = Uncounted(c)
      /\ UNCHANGED <<live, inserted, clickCount, pushed, decremented, strayed, faults>>
  BY <1>2 DEF redis, handler, history, bounds, Queued, Uncounted
<1> QED
  BY <1>1, <1>4, <1>5 DEF Book, Conserved

\* BRPOP: from the list to the batch, or lost.
LEMMA PopBooks ==
  ASSUME Inv, Inv', Books, NEW w \in Workers, Pop(w) \/ PopReplyLost(w)
  PROVE  Books'
<1> SUFFICES ASSUME NEW c \in Codes PROVE Book(c)'
  BY DEF Books
<1>1. Book(c) /\ Numbers /\ Numbers' /\ Parts /\ Parts'
  BY NumbersTyped, NumbersTypedNext, PartsTyped, PartsTypedNext DEF Books
<1> DEFINE one == IF Head(queue) = c THEN 1 ELSE 0
<1>2. queue \in Seq(Codes) /\ queue # <<>> /\ Head(queue) \in Codes
  <2>1. queue \in Seq(Codes)
    BY DEF Inv, TypeOK
  <2>2. queue # <<>>
    BY DEF Pop, PopReplyLost
  <2> QED
    BY <2>1, <2>2
<1>3. Queued(c) = Queued(c)' + one
  <2>1. Occ(queue, c) = Occ(Tail(queue), c) + one
    BY <1>2, OccTail
  <2>2. queue' = Tail(queue)
    BY DEF Pop, PopReplyLost
  <2>3. Queued(c) = Occ(queue, c) /\ Queued(c)' = Occ(queue', c)
    BY DEF Queued, Occ
  <2> QED
    BY <2>1, <2>2, <2>3
<1>4. /\ UNCHANGED <<live, inserted, clickCount, pushed, decremented>>
      /\ Uncounted(c)' = Uncounted(c)
  BY DEF Pop, PopReplyLost, postgres, handler, history, Uncounted
<1>5. CASE Pop(w)
  <2>1. batch'[w][c] = batch[w][c] + one /\ \A v \in Workers \ {w} : Still(v)
    <3>1. batch \in [Workers -> [Codes -> Nat]] /\ at \in [Workers -> Labels]
          /\ todo \in [Workers -> SUBSET Codes]
      BY DEF Inv, TypeOK, Labels
    <3>2. batch' = [batch EXCEPT ![w] = Add(batch[w], Head(queue), 1)]
      BY <1>5 DEF Pop
    <3>3. \A v \in Workers \ {w} : Still(v)
      BY <1>5, <3>1, <3>2 DEF Pop, Goto, Still
    <3>4. Add(batch[w], Head(queue), 1)[c] = batch[w][c] + one
      BY <1>2, <3>1 DEF Add
    <3> QED
      BY <3>1, <3>2, <3>3, <3>4
  <2>2. at[w] = "loop" /\ at'[w] \in {"loop", "insert"}
    BY <1>5 DEF Pop, Goto, Inv, TypeOK
  <2>3. /\ Owes(w, c)' = Owes(w, c) + one
        /\ FlightOf(w, c)' = FlightOf(w, c) + one
        /\ TransitOf(w, c)' = TransitOf(w, c) + one
    BY <2>1, <2>2 DEF Owes, FlightOf, Uncommitted, TransitOf, Uninserted
  <2>4. /\ Owed(c)' = Owed(c) - Owes(w, c) + Owes(w, c)'
        /\ InFlight(c)' = InFlight(c) - FlightOf(w, c) + FlightOf(w, c)'
        /\ InTransit(c)' = InTransit(c) - TransitOf(w, c) + TransitOf(w, c)'
    BY <2>1, WorkerMoves
  <2>5. Owed(c)' = Owed(c) + one /\ InFlight(c)' = InFlight(c) + one
        /\ InTransit(c)' = InTransit(c) + one
    BY <1>1, <2>3, <2>4 DEF Numbers, Parts
  <2>6. UNCHANGED <<strayed, faults>>
    BY <1>5 DEF Pop, history, bounds
  <2> QED
    BY <1>1, <1>3, <1>4, <2>5, <2>6 DEF Book, Conserved, Numbers
<1>6. CASE PopReplyLost(w)
  <2>1. UNCHANGED <<at, batch, todo>> /\ faults' = faults + 1
    BY <1>6 DEF PopReplyLost, worker, Fault
  <2>2. Owed(c)' = Owed(c) /\ InFlight(c)' = InFlight(c) /\ InTransit(c)' = InTransit(c)
    BY <2>1, WorkersStill
  <2>3. strayed'[c] = strayed[c] + one
    <3>1. strayed \in [Codes -> Int]
      BY DEF Inv, TypeOK
    <3>2. strayed' = Add(strayed, Head(queue), 1)
      BY <1>6 DEF PopReplyLost
    <3> QED
      BY <1>2, <3>1, <3>2 DEF Add
  <2> QED
    BY <1>1, <1>3, <1>4, <2>1, <2>2, <2>3 DEF Book, Conserved, Numbers
<1> QED
  BY <1>5, <1>6

\* The records of a batch are in transit until the insert, whether it fails or not.
LEMMA BulkInsertBooks ==
  ASSUME Inv, Inv', Books, NEW w \in Workers, BulkInsert(w)
  PROVE  Books'
<1> SUFFICES ASSUME NEW c \in Codes PROVE Book(c)'
  BY DEF Books
<1>1. Book(c) /\ Numbers /\ Numbers' /\ Parts /\ Parts'
  BY NumbersTyped, NumbersTypedNext, PartsTyped, PartsTypedNext DEF Books
<1>2. /\ UNCHANGED <<redis, clickCount, handler, history, bounds, batch>>
      /\ at[w] = "insert" /\ at'[w] = "update" /\ \A v \in Workers \ {w} : Still(v)
  BY DEF BulkInsert, Goto, Still, Inv, TypeOK
<1>3. /\ Owes(w, c)' = Owes(w, c) /\ FlightOf(w, c)' = FlightOf(w, c)
      /\ TransitOf(w, c)' = 0 /\ TransitOf(w, c) = batch[w][c]
  BY <1>2 DEF Owes, FlightOf, Uncommitted, TransitOf, Uninserted
<1>4. /\ Owed(c)' = Owed(c) - Owes(w, c) + Owes(w, c)'
      /\ InFlight(c)' = InFlight(c) - FlightOf(w, c) + FlightOf(w, c)'
      /\ InTransit(c)' = InTransit(c) - TransitOf(w, c) + TransitOf(w, c)'
  BY <1>2, WorkerMoves
<1>5. inserted'[c] = inserted[c] \/ inserted'[c] = inserted[c] + batch[w][c]
  BY DEF BulkInsert, Plus
<1>6. /\ Queued(c)' = Queued(c) /\ Uncounted(c)' = Uncounted(c)
      /\ UNCHANGED <<live, clickCount, pushed, decremented, strayed, faults>>
  BY <1>2 DEF redis, handler, history, bounds, Queued, Uncounted
<1>7. /\ Owed(c)' = Owed(c) /\ InFlight(c)' = InFlight(c)
      /\ InTransit(c)' = InTransit(c) - batch[w][c] /\ batch[w][c] \in Nat
  BY <1>1, <1>3, <1>4 DEF Numbers, Parts
<1> QED
  BY <1>1, <1>5, <1>6, <1>7 DEF Book, Conserved, Numbers

\* The transaction ends: what was in flight is committed, or given up.
LEMMA EndTxBooks ==
  ASSUME Inv, Inv', Books, NEW w \in Workers, Commit(w) \/ TxFails(w) \/ DeadlockAbort(w)
  PROVE  Books'
<1> SUFFICES ASSUME NEW c \in Codes PROVE Book(c)'
  BY DEF Books
<1>1. Book(c) /\ Numbers /\ Numbers' /\ Parts /\ Parts'
  BY NumbersTyped, NumbersTypedNext, PartsTyped, PartsTypedNext DEF Books
<1>2. Goto(w, "decr", In(batch[w])) /\ at[w] = "update"
  BY DEF Commit, TxFails, DeadlockAbort, Rollback
<1>3. UNCHANGED <<redis, inserted, handler, history, batch>>
  BY DEF Commit, TxFails, DeadlockAbort, Rollback
<1>4. faults' = faults \/ faults' = faults + 1
  BY DEF Commit, TxFails, DeadlockAbort, Fault, bounds
<1>5. /\ at'[w] = "decr" /\ todo'[w] = In(batch[w]) /\ \A v \in Workers \ {w} : Still(v)
  BY <1>2, <1>3 DEF Goto, Still, Inv, TypeOK
<1>6. batch[w][c] \in Nat /\ batch'[w][c] = batch[w][c] /\ (c \notin In(batch[w]) => batch[w][c] = 0)
  <2>1. batch[w][c] \in Nat
    BY DEF Inv, TypeOK
  <2>2. batch' = batch
    BY <1>3
  <2> QED
    BY <2>1, <2>2 DEF In
<1>7. /\ Owes(w, c)' = Owes(w, c) /\ FlightOf(w, c)' = 0 /\ FlightOf(w, c) = batch[w][c]
      /\ TransitOf(w, c)' = TransitOf(w, c)
  BY <1>2, <1>5, <1>6 DEF Owes, FlightOf, Uncommitted, TransitOf, Uninserted
<1>8. /\ Owed(c)' = Owed(c) - Owes(w, c) + Owes(w, c)'
      /\ InFlight(c)' = InFlight(c) - FlightOf(w, c) + FlightOf(w, c)'
      /\ InTransit(c)' = InTransit(c) - TransitOf(w, c) + TransitOf(w, c)'
  BY <1>5, WorkerMoves
<1>9. /\ Owed(c)' = Owed(c) /\ InFlight(c)' = InFlight(c) - batch[w][c]
      /\ InTransit(c)' = InTransit(c)
  BY <1>1, <1>6, <1>7, <1>8 DEF Numbers, Parts
<1>10. clickCount'[c] = clickCount[c] \/ clickCount'[c] = clickCount[c] + batch[w][c]
  BY DEF Commit, TxFails, DeadlockAbort, Rollback, Plus
<1>11. /\ Queued(c)' = Queued(c) /\ Uncounted(c)' = Uncounted(c)
       /\ UNCHANGED <<live, inserted, pushed, decremented, strayed>>
  BY <1>3 DEF redis, handler, history, Queued, Uncounted
<1> QED
  BY <1>1, <1>4, <1>6, <1>9, <1>10, <1>11 DEF Book, Conserved, Numbers

\* The last DECRBY drops a batch of which nothing is owed any more.
LEMMA DecrBooks ==
  ASSUME Inv, Inv', Books, NEW w \in Workers, NEW x \in Codes, DecrBy(w, x) \/ DecrByFails(w, x)
  PROVE  Books'
<1> SUFFICES ASSUME NEW c \in Codes PROVE Book(c)'
  BY DEF Books
<1>1. Book(c) /\ Numbers /\ Numbers' /\ Parts /\ Parts'
  BY NumbersTyped, NumbersTypedNext, PartsTyped, PartsTypedNext DEF Books
<1>2. /\ at[w] = "decr" /\ x \in todo[w] /\ Decremented(w, x)
      /\ UNCHANGED <<queue, inserted, clickCount, handler, pushed>>
  BY DEF DecrBy, DecrByFails, Decremented, postgres
<1>3. /\ batch \in [Workers -> [Codes -> Nat]] /\ at \in [Workers -> Labels]
      /\ todo \in [Workers -> SUBSET Codes]
  BY DEF Inv, TypeOK, Labels
<1>4. \A v \in Workers \ {w} : Still(v)
  BY <1>2, <1>3 DEF Decremented, Goto, Still
<1> DEFINE n == batch[w][x]
<1>5. n \in Nat
  BY <1>3
<1>6. /\ Owes(w, c)' = Owes(w, c) - (IF x = c THEN n ELSE 0)
      /\ FlightOf(w, c)' = FlightOf(w, c) /\ TransitOf(w, c)' = TransitOf(w, c)
  <2>1. CASE todo[w] = {x}
    <3>1. at'[w] = "loop" /\ batch'[w] = Zero /\ Zero[c] = 0
      BY <1>2, <1>3, <2>1 DEF Decremented, Goto, Zero
    <3> QED
      BY <1>2, <1>5, <2>1, <3>1 DEF Owes, FlightOf, Uncommitted, TransitOf, Uninserted
  <2>2. CASE todo[w] # {x}
    <3>1. at'[w] = "decr" /\ batch' = batch /\ todo'[w] = todo[w] \ {x}
      BY <1>2, <1>3, <2>2 DEF Decremented, Goto
    <3>2. batch[w][c] \in Nat
      BY <1>3
    <3> QED
      BY <1>2, <1>5, <3>1, <3>2 DEF Owes, FlightOf, Uncommitted, TransitOf, Uninserted
  <2> QED
    BY <2>1, <2>2
<1>7. /\ Owed(c)' = Owed(c) - Owes(w, c) + Owes(w, c)'
      /\ InFlight(c)' = InFlight(c) - FlightOf(w, c) + FlightOf(w, c)'
      /\ InTransit(c)' = InTransit(c) - TransitOf(w, c) + TransitOf(w, c)'
  BY <1>4, WorkerMoves
<1>8. /\ Owed(c)' = Owed(c) - (IF x = c THEN n ELSE 0)
      /\ InFlight(c)' = InFlight(c) /\ InTransit(c)' = InTransit(c)
  BY <1>1, <1>5, <1>6, <1>7 DEF Numbers, Parts
<1>9. Queued(c)' = Queued(c) /\ Uncounted(c)' = Uncounted(c)
  BY <1>2 DEF handler, Queued, Uncounted
<1>10. /\ Add(live, x, -n)[c] = live[c] - (IF x = c THEN n ELSE 0)
       /\ Add(decremented, x, n)[c] = decremented[c] + (IF x = c THEN n ELSE 0)
       /\ Add(strayed, x, n)[c] = strayed[c] + (IF x = c THEN n ELSE 0)
  <2>1. live \in [Codes -> Int] /\ decremented \in [Codes -> Nat] /\ strayed \in [Codes -> Int]
    BY DEF Inv, TypeOK
  <2> QED
    BY <1>5, <2>1 DEF Add
<1>11. CASE DecrBy(w, x)
  <2>1. /\ live' = Add(live, x, -n) /\ decremented' = Add(decremented, x, n)
        /\ UNCHANGED <<strayed, faults>>
    BY <1>11 DEF DecrBy, bounds
  <2> HIDE DEF n
  <2> QED
    BY <1>1, <1>2, <1>5, <1>8, <1>9, <1>10, <2>1 DEF Book, Conserved, Numbers
<1>12. CASE DecrByFails(w, x)
  <2>1. /\ strayed' = Add(strayed, x, n) /\ UNCHANGED <<live, decremented>>
        /\ faults' = faults + 1
    BY <1>12 DEF DecrByFails, Fault
  <2> HIDE DEF n
  <2> QED
    BY <1>1, <1>2, <1>5, <1>8, <1>9, <1>10, <2>1 DEF Book, Conserved, Numbers
<1> QED
  BY <1>11, <1>12

\* A DECRBY that will be sent again leaves the worker where it is.
LEMMA DecrReplyLostBooks ==
  ASSUME Inv, Inv', Books, NEW w \in Workers, NEW x \in Codes, DecrByReplyLost(w, x)
  PROVE  Books'
<1> SUFFICES ASSUME NEW c \in Codes PROVE Book(c)'
  BY DEF Books
<1>1. Book(c) /\ Numbers /\ Numbers'
  BY NumbersTyped, NumbersTypedNext DEF Books
<1> DEFINE n == batch[w][x]
<1>2. /\ UNCHANGED <<queue, postgres, worker, handler, pushed, decremented>>
      /\ live' = Add(live, x, -n) /\ strayed' = Add(strayed, x, -n) /\ faults' = faults + 1
  BY DEF DecrByReplyLost, Fault
<1>3. n \in Nat
  BY DEF Inv, TypeOK
<1>4. Owed(c)' = Owed(c) /\ InFlight(c)' = InFlight(c) /\ InTransit(c)' = InTransit(c)
  BY <1>2, WorkersStill DEF worker
<1>5. /\ Queued(c)' = Queued(c) /\ Uncounted(c)' = Uncounted(c)
      /\ UNCHANGED <<inserted, clickCount>>
  BY <1>2 DEF postgres, handler, Queued, Uncounted
<1>6. \E k \in Int : live'[c] = live[c] - k /\ strayed'[c] = strayed[c] - k
  <2>1. live \in [Codes -> Int] /\ strayed \in [Codes -> Int]
    BY DEF Inv, TypeOK
  <2>2. /\ Add(live, x, -n)[c] = live[c] - (IF x = c THEN n ELSE 0)
        /\ Add(strayed, x, -n)[c] = strayed[c] - (IF x = c THEN n ELSE 0)
    BY <1>3, <2>1 DEF Add
  <2> HIDE DEF n
  <2> QED
    BY <1>2, <1>3, <2>2
<1> HIDE DEF n
<1> QED
  BY <1>1, <1>2, <1>4, <1>5, <1>6 DEF Book, Conserved, Numbers

\* A crash loses the batch and the handlers of the instance, and what they
\* still had to write or to count.
LEMMA CrashBooks ==
  ASSUME Inv, Inv', Books, NEW w \in Workers, Crash(w)
  PROVE  Books'
<1> SUFFICES ASSUME NEW c \in Codes PROVE Book(c)'
  BY DEF Books
<1>1. Book(c) /\ Numbers /\ Numbers' /\ Parts /\ Parts'
  BY NumbersTyped, NumbersTypedNext, PartsTyped, PartsTypedNext DEF Books
<1>2. /\ UNCHANGED <<queue, live, inserted, clickCount, pushed, decremented>>
      /\ faults' = faults + 1
  BY DEF Crash, redis, Fault
<1>3. at'[w] = "loop" /\ batch'[w][c] = 0 /\ \A v \in Workers \ {w} : Still(v)
  BY DEF Crash, Goto, Still, Inv, TypeOK, Zero
<1>4. Owes(w, c)' = 0 /\ FlightOf(w, c)' = 0 /\ TransitOf(w, c)' = 0
  BY <1>3 DEF Owes, FlightOf, Uncommitted, TransitOf, Uninserted
<1>5. /\ Owed(c)' = Owed(c) - Owes(w, c) + Owes(w, c)'
      /\ InFlight(c)' = InFlight(c) - FlightOf(w, c) + FlightOf(w, c)'
      /\ InTransit(c)' = InTransit(c) - TransitOf(w, c) + TransitOf(w, c)'
  BY <1>3, WorkerMoves
<1> DEFINE gone == {h \in Uncounted(c) : Home[h] = w}
<1>6. Uncounted(c)' = Uncounted(c) \ gone
  BY DEF Crash, Uncounted
<1>7. /\ Cardinality(Uncounted(c)') = Cardinality(Uncounted(c)) - Cardinality(gone)
      /\ Cardinality(gone) \in Nat
  <2>1. gone \subseteq Uncounted(c) /\ gone = Uncounted(c) \cap gone /\ IsFiniteSet(Uncounted(c))
    BY <1>1 DEF Numbers
  <2> HIDE DEF gone
  <2>2. Cardinality(Uncounted(c) \ gone) = Cardinality(Uncounted(c)) - Cardinality(Uncounted(c) \cap gone)
    BY <2>1, FS_Difference
  <2>3. Cardinality(gone) \in Nat
    BY <2>1, FS_Subset, FS_CardinalityType
  <2> QED
    BY <1>6, <2>1, <2>2, <2>3
<1>8. strayed'[c] = strayed[c] + Owes(w, c) - Cardinality(gone)
  BY DEF Crash
<1>9. Queued(c)' = Queued(c)
  BY <1>2 DEF Queued
<1>10. Owes(w, c) \in Nat /\ FlightOf(w, c) \in Nat /\ TransitOf(w, c) \in Nat
  BY <1>1 DEF Parts
<1> HIDE DEF gone
<1>11. /\ Owed(c)' = Owed(c) - Owes(w, c) /\ InFlight(c)' <= InFlight(c)
       /\ InTransit(c)' <= InTransit(c)
  BY <1>1, <1>4, <1>5, <1>10 DEF Numbers
<1> QED
  BY <1>1, <1>2, <1>7, <1>8, <1>9, <1>10, <1>11 DEF Book, Conserved, Numbers

LEMMA ClickBooks ==
  ASSUME Inv, Books, NEW h \in Handlers, NEW x \in Codes, Click(h, x)
  PROVE  Books'
<1> SUFFICES ASSUME NEW c \in Codes PROVE Book(c)'
  BY DEF Books
<1>1. Book(c)
  BY DEF Books
<1>2. UNCHANGED <<redis, postgres, worker, history, faults>>
  BY DEF Click
<1>3. Owed(c)' = Owed(c) /\ InFlight(c)' = InFlight(c) /\ InTransit(c)' = InTransit(c)
  BY <1>2, WorkersStill DEF worker
<1>4. Uncounted(c)' = Uncounted(c)
  BY DEF Click, Uncounted, Inv, TypeOK
<1>5. /\ Queued(c)' = Queued(c)
      /\ UNCHANGED <<live, inserted, clickCount, pushed, decremented, strayed, faults>>
  BY <1>2 DEF redis, postgres, history, Queued
<1> QED
  BY <1>1, <1>3, <1>4, <1>5 DEF Book, Conserved

LEMMA NextBooks == Inv /\ Books /\ [Next]_vars => Books'
<1> SUFFICES ASSUME Inv, Books, [Next]_vars PROVE Books'
  OBVIOUS
<1>1. Inv'
  BY NextInv
<1>2. CASE \E h \in Handlers : QueueAnalytics(h) \/ \E c \in Codes : Click(h, c)
  BY <1>1, <1>2, QueueAnalyticsBooks, ClickBooks
<1>3. CASE \E w \in Workers : \/ Pop(w) \/ PopReplyLost(w)
                              \/ TickerFlush(w) \/ CtxDone(w) \/ Flush(w)
                              \/ TxFails(w)
                              \/ \E c \in Codes : DecrByReplyLost(w, c) \/ DecrByFails(w, c)
                              \/ Cancel(w) \/ Crash(w)
  BY <1>1, <1>3, PopBooks, MoveBooks, BulkInsertBooks, EndTxBooks, DecrReplyLostBooks, DecrBooks,
     CrashBooks DEF Flush
<1>4. CASE UNCHANGED vars
  <2> SUFFICES ASSUME NEW c \in Codes PROVE Book(c)'
    BY DEF Books
  <2>1. Book(c)
    BY DEF Books
  <2>2. UNCHANGED <<redis, postgres, worker, handler, history, bounds>>
    BY <1>4 DEF vars
  <2>3. Owed(c)' = Owed(c) /\ InFlight(c)' = InFlight(c) /\ InTransit(c)' = InTransit(c)
    BY <2>2, WorkersStill DEF worker
  <2>4. /\ Queued(c)' = Queued(c) /\ Uncounted(c)' = Uncounted(c)
        /\ UNCHANGED <<live, inserted, clickCount, pushed, decremented, strayed, faults>>
    BY <2>2 DEF redis, postgres, handler, history, bounds, Queued, Uncounted
  <2> QED
    BY <2>1, <2>3, <2>4 DEF Book, Conserved
<1> QED
  BY <1>2, <1>3, <1>4 DEF Next

LEMMA InitBooks == Init => Books
<1> SUFFICES ASSUME Init, NEW c \in Codes PROVE Book(c)
  BY DEF Books
<1>1. Numbers
  BY InitInv, NumbersTyped
<1>2. \A w \in Workers : batch[w][c] = 0
  BY DEF Init, Zero
<1>3. Owed(c) = 0
  <2> DEFINE f == [w \in Workers |-> Owes(w, c)]
  <2>1. f \in [Workers -> Nat] /\ \A w \in Workers : f[w] = 0
    BY <1>2 DEF Owes
  <2>2. Owed(c) = SumFunction(f)
    BY DEF Owed
  <2> HIDE DEF f
  <2> QED
    BY <2>1, <2>2, FiniteAssumption, SumZero
<1>4. InFlight(c) = 0
  <2> DEFINE f == [w \in Workers |-> IF Uncommitted(w) THEN batch[w][c] ELSE 0]
  <2>1. f \in [Workers -> Nat] /\ \A w \in Workers : f[w] = 0
    BY <1>2
  <2>2. InFlight(c) = SumFunction(f)
    BY DEF InFlight
  <2> HIDE DEF f
  <2> QED
    BY <2>1, <2>2, FiniteAssumption, SumZero
<1>5. InTransit(c) = 0
  <2> DEFINE f == [w \in Workers |-> IF Uninserted(w) THEN batch[w][c] ELSE 0]
  <2>1. f \in [Workers -> Nat] /\ \A w \in Workers : f[w] = 0
    BY <1>2
  <2>2. InTransit(c) = SumFunction(f)
    BY DEF InTransit
  <2> HIDE DEF f
  <2> QED
    BY <2>1, <2>2, FiniteAssumption, SumZero
<1>6. Uncounted(c) = {} /\ {i \in DOMAIN queue : queue[i] = c} = {}
  BY DEF Init, Uncounted
<1>7. Cardinality(Uncounted(c)) = 0 /\ Queued(c) = 0
  BY <1>6, FS_EmptySet DEF Queued
<1>8. /\ live[c] = 0 /\ strayed[c] = 0 /\ clickCount[c] = 0 /\ inserted[c] = 0
      /\ pushed[c] = 0 /\ decremented[c] = 0
  BY DEF Init, Zero
<1> QED
  BY <1>3, <1>4, <1>5, <1>7, <1>8 DEF Book, Conserved

\* queueAnalytics, worker.Start and worker.flush on one live counter: whatever
\* the workers interleave, it is what is on its way, less the handlers that
\* have not counted yet, and what faults left in it.
THEOREM LiveBalanced == Spec => []LiveBalance
<1>1. Books => LiveBalance
  BY DEF Books, Book, LiveBalance
<1> QED
  BY <1>1, InitInv, NextInv, InitBooks, NextBooks, PTL DEF Spec

\* BulkInsert and BulkIncrementClicks: no event is written twice to a table,
\* however its transaction ends and wherever the process is killed.
THEOREM WrittenOnce == Spec => []WrittenAtMostOnce
<1>1. Books => WrittenAtMostOnce
  BY DEF Books, Book, WrittenAtMostOnce
<1> QED
  BY <1>1, InitInv, NextInv, InitBooks, NextBooks, PTL DEF Spec

\* queueAnalytics to DECRBY, while no command fails and nothing crashes: an
\* event is on the list, in one batch, or taken off the live counter, once.
THEOREM EventsKept == Spec => []NoneDropped
<1>1. Books => NoneDropped
  BY DEF Books, Book, Conserved, NoneDropped
<1> QED
  BY <1>1, InitInv, NextInv, InitBooks, NextBooks, PTL DEF Spec

-----------------------------------------------------------------------------
(* The size of a batch, and of what faults leave in a counter *)

BatchInv == \A w \in Workers : /\ Size(batch[w]) <= BatchSize
                               /\ at[w] = "loop" => Size(batch[w]) < BatchSize
StrayInv == \A c \in Codes : strayed[c] <= BatchSize * faults
Sizes == BatchInv /\ StrayInv

LEMMA SizeType == ASSUME NEW b \in [Codes -> Nat] PROVE Size(b) \in Nat
  BY FiniteAssumption, SumType DEF Size

LEMMA SizeZero == Size(Zero) = 0
<1>1. \A c \in Codes : Zero[c] = 0
  BY DEF Zero
<1> QED
  BY <1>1, ZeroType, FiniteAssumption, SumZero DEF Size

LEMMA SizeAdd ==
  ASSUME NEW b \in [Codes -> Nat], NEW c \in Codes
  PROVE  Size(Add(b, c, 1)) = Size(b) + 1
<1> DEFINE g == Add(b, c, 1)
<1>1. g \in [Codes -> Nat] /\ g[c] = b[c] + 1 /\ \A x \in Codes \ {c} : g[x] = b[x]
  BY DEF Add
<1>2. b[c] \in Nat /\ Size(b) \in Nat
  BY SizeType
<1> HIDE DEF g
<1>3. Size(g) = Size(b) - b[c] + g[c]
  BY <1>1, FiniteAssumption, SumUpdate DEF Size
<1> QED
  BY <1>1, <1>2, <1>3 DEF g

\* Only a pop fills a batch, and only a worker that returns to the loop
\* has to have room in it.
LEMMA BatchKept ==
  ASSUME Inv, BatchInv, NEW w \in Workers, \A v \in Workers \ {w} : Still(v),
         batch'[w] = batch[w] \/ batch'[w] = Zero,
         at'[w] = "loop" => at[w] = "loop" \/ batch'[w] = Zero
  PROVE  BatchInv'
<1> SUFFICES ASSUME NEW v \in Workers
             PROVE  Size(batch'[v]) <= BatchSize /\ (at'[v] = "loop" => Size(batch'[v]) < BatchSize)
  BY DEF BatchInv
<1>1. 0 < BatchSize /\ 0 <= BatchSize
  BY SizeAssumption
<1>2. CASE v = w
  <2>1. CASE batch'[w] = Zero
    BY <1>1, <1>2, <2>1, SizeZero
  <2>2. CASE batch'[w] = batch[w] /\ batch'[w] # Zero
    BY <1>2, <2>2 DEF BatchInv
  <2> QED
    BY <2>1, <2>2
<1>3. CASE v # w
  BY <1>3 DEF BatchInv, Still
<1> QED
  BY <1>2, <1>3

LEMMA PopBatch ==
  ASSUME Inv, BatchInv, NEW w \in Workers, Pop(w)
  PROVE  BatchInv'
<1> DEFINE b == Add(batch[w], Head(queue), 1)
<1>1. /\ batch \in [Workers -> [Codes -> Nat]] /\ at \in [Workers -> Labels]
      /\ todo \in [Workers -> SUBSET Codes] /\ queue \in Seq(Codes)
  BY DEF Inv, TypeOK, Labels
<1>2. Head(queue) \in Codes
  BY <1>1 DEF Pop
<1>3. /\ batch' = [batch EXCEPT ![w] = b] /\ at[w] = "loop"
      /\ at' = [at EXCEPT ![w] = IF Size(batch'[w]) >= BatchSize THEN "insert" ELSE "loop"]
  BY DEF Pop, Goto
<1>4. Size(b) = Size(batch[w]) + 1 /\ Size(batch[w]) \in Nat
  BY <1>1, <1>2, SizeAdd, SizeType
<1>5. Size(batch[w]) < BatchSize /\ BatchSize \in Nat
  BY <1>3, SizeAssumption DEF BatchInv
<1> HIDE DEF b
<1>6. batch'[w] = b /\ \A v \in Workers \ {w} : batch'[v] = batch[v] /\ at'[v] = at[v]
  BY <1>1, <1>3
<1>7. at'[w] = "loop" => ~(Size(b) >= BatchSize)
  BY <1>1, <1>3, <1>6
<1> SUFFICES ASSUME NEW v \in Workers
             PROVE  Size(batch'[v]) <= BatchSize /\ (at'[v] = "loop" => Size(batch'[v]) < BatchSize)
  BY DEF BatchInv
<1>8. CASE v = w
  BY <1>4, <1>5, <1>6, <1>7, <1>8
<1>9. CASE v # w
  BY <1>6, <1>9 DEF BatchInv
<1> QED
  BY <1>8, <1>9

LEMMA NextBatch == Inv /\ BatchInv /\ [Next]_vars => BatchInv'
<1> SUFFICES ASSUME Inv, BatchInv, [Next]_vars PROVE BatchInv'
  OBVIOUS
<1>1. ASSUME UNCHANGED worker PROVE BatchInv'
  BY <1>1 DEF worker, BatchInv
<1>2. CASE \E h \in Handlers : QueueAnalytics(h) \/ \E c \in Codes : Click(h, c)
  BY <1>1, <1>2 DEF QueueAnalytics, CheckLen, CheckLenFails, Push, PushFails, PushTwice, Incr,
     IncrReplyLost, IncrFails, Click
<1>3. CASE UNCHANGED vars
  BY <1>1, <1>3 DEF vars
<1>4. ASSUME NEW w \in Workers, PopReplyLost(w) \/ \E c \in Codes : DecrByReplyLost(w, c)
      PROVE BatchInv'
  BY <1>1, <1>4 DEF PopReplyLost, DecrByReplyLost
<1>5. /\ batch \in [Workers -> [Codes -> Nat]] /\ at \in [Workers -> Labels]
      /\ todo \in [Workers -> SUBSET Codes]
  BY DEF Inv, TypeOK, Labels
<1>6. ASSUME NEW w \in Workers, TickerFlush(w) \/ CtxDone(w) \/ Cancel(w) PROVE BatchInv'
  <2>1. \A v \in Workers \ {w} : Still(v)
    BY <1>5, <1>6 DEF TickerFlush, CtxDone, Cancel, Goto, Still
  <2>2. batch' = batch /\ (at'[w] = "loop" => at[w] = "loop")
    BY <1>5, <1>6 DEF TickerFlush, CtxDone, Cancel, Goto
  <2> QED
    BY <2>1, <2>2, BatchKept
<1>7. ASSUME NEW w \in Workers, \/ BulkInsert(w) \/ Commit(w) \/ DeadlockAbort(w) \/ TxFails(w)
                                \/ \E c \in Codes : UpdateRow(w, c)
      PROVE BatchInv'
  <2>1. PICK label \in {"update", "decr"}, codes \in SUBSET Codes :
               Goto(w, label, codes) /\ batch' = batch
    <3>1. In(batch[w]) \in SUBSET Codes /\ \A c \in Codes : todo[w] \ {c} \in SUBSET Codes
      BY <1>5, InType
    <3> QED
      BY <1>7, <3>1 DEF BulkInsert, Commit, DeadlockAbort, TxFails, Rollback,
         UpdateRow
  <2>2. (\A v \in Workers \ {w} : Still(v)) /\ at'[w] # "loop"
    BY <1>5, <2>1 DEF Goto, Still
  <2> QED
    BY <2>1, <2>2, BatchKept
<1>8. ASSUME NEW w \in Workers, NEW c \in Codes, DecrBy(w, c) \/ DecrByFails(w, c)
      PROVE BatchInv'
  <2>1. Decremented(w, c) /\ at[w] = "decr"
    BY <1>8 DEF DecrBy, DecrByFails, Decremented
  <2>2. \A v \in Workers \ {w} : Still(v)
    BY <1>5, <2>1 DEF Decremented, Goto, Still
  <2>3. \/ batch'[w] = Zero
        \/ batch' = batch /\ at'[w] # "loop"
    BY <1>5, <2>1 DEF Decremented, Goto
  <2> QED
    BY <2>2, <2>3, BatchKept
<1>9. ASSUME NEW w \in Workers, Crash(w) PROVE BatchInv'
  <2>1. (\A v \in Workers \ {w} : Still(v)) /\ batch'[w] = Zero
    BY <1>5, <1>9 DEF Crash, Goto, Still
  <2> QED
    BY <2>1, BatchKept
<1> QED
  BY <1>2, <1>3, <1>4, <1>6, <1>7, <1>8, <1>9, PopBatch DEF Next, Flush

\* A fault adds no more to a counter than one batch holds.
LEMMA StrayGrows ==
  ASSUME Inv, BatchInv, [Next]_vars, NEW c \in Codes
  PROVE  \/ faults' = faults /\ strayed'[c] = strayed[c]
         \/ faults' = faults + 1 /\ strayed'[c] <= strayed[c] + BatchSize
<1>1. /\ strayed \in [Codes -> Int] /\ batch \in [Workers -> [Codes -> Nat]]
      /\ strayed[c] \in Int /\ BatchSize \in Nat /\ BatchSize >= 1 /\ queue \in Seq(Codes)
  BY SizeAssumption DEF Inv, TypeOK
<1>2. ASSUME NEW w \in Workers, NEW x \in Codes PROVE batch[w][x] \in Nat /\ batch[w][x] <= BatchSize
  <2>1. batch[w] \in [Codes -> Nat] /\ Size(batch[w]) <= BatchSize
    BY <1>1 DEF BatchInv
  <2>2. batch[w][x] <= Size(batch[w])
    BY <2>1, FiniteAssumption, TermBelowSum DEF Size
  <2>3. batch[w][x] \in Nat /\ Size(batch[w]) \in Nat
    BY <2>1, SizeType
  <2> QED
    BY <1>1, <2>1, <2>2, <2>3
<1>3. CASE UNCHANGED <<strayed, faults>>
  BY <1>3
<1>4. CASE faults' = faults + 1 /\ strayed' = strayed
  BY <1>1, <1>4
<1>5. ASSUME NEW x \in Codes, NEW n \in Int, n <= BatchSize,
             faults' = faults + 1, strayed' = Add(strayed, x, n)
      PROVE  strayed'[c] <= strayed[c] + BatchSize
  <2>1. Add(strayed, x, n)[c] = IF x = c THEN strayed[c] + n ELSE strayed[c]
    BY <1>1, <1>5 DEF Add
  <2> QED
    BY <1>1, <1>5, <2>1
<1>6. ASSUME NEW h \in Handlers, QueueAnalytics(h)
      PROVE  \/ UNCHANGED <<strayed, faults>>
             \/ faults' = faults + 1 /\ strayed' = strayed
             \/ faults' = faults + 1 /\ strayed'[c] <= strayed[c] + BatchSize
  <2>1. CASE CheckLen(h) \/ CheckLenFails(h) \/ Push(h) \/ Incr(h)
    BY <2>1 DEF CheckLen, CheckLenFails, Push, Incr, history, bounds, Fault
  <2>2. CASE PushFails(h) \/ PushTwice(h) \/ IncrReplyLost(h) \/ IncrFails(h)
    <3>1. hcode[h] \in Codes
      BY <2>2 DEF Inv, PlaceInv, PushFails, PushTwice, IncrReplyLost, IncrFails
    <3>2. PICK n \in {1, -1} : faults' = faults + 1 /\ strayed' = Add(strayed, hcode[h], n)
      BY <2>2 DEF PushFails, PushTwice, IncrReplyLost, IncrFails, Fault
    <3>3. n \in Int /\ n <= BatchSize
      BY <1>1
    <3> QED
      BY <1>5, <3>1, <3>2, <3>3
  <2> QED
    BY <1>6, <2>1, <2>2 DEF QueueAnalytics
<1>7. ASSUME NEW h \in Handlers, NEW x \in Codes, Click(h, x) PROVE UNCHANGED <<strayed, faults>>
  BY <1>7 DEF Click, history
<1>8. ASSUME NEW w \in Workers, \/ Pop(w) \/ TickerFlush(w) \/ CtxDone(w) \/ Flush(w)
                                \/ TxFails(w) \/ Cancel(w)
      PROVE  UNCHANGED <<strayed, faults>> \/ (faults' = faults + 1 /\ strayed' = strayed)
  BY <1>8 DEF Pop, TickerFlush, CtxDone, Flush, BulkInsert, UpdateRow, Commit, DeadlockAbort,
     TxFails, Rollback, DecrBy, Cancel, history, bounds, Fault
<1>9. ASSUME NEW w \in Workers, PopReplyLost(w)
      PROVE  faults' = faults + 1 /\ strayed'[c] <= strayed[c] + BatchSize
  <2>1. queue # <<>> /\ faults' = faults + 1 /\ strayed' = Add(strayed, Head(queue), 1)
    BY <1>9 DEF PopReplyLost, Fault
  <2>2. Head(queue) \in Codes
    BY <1>1, <2>1
  <2> QED
    BY <1>1, <1>5, <2>1, <2>2
<1>10. ASSUME NEW w \in Workers, NEW x \in Codes, DecrByFails(w, x)
       PROVE  faults' = faults + 1 /\ strayed'[c] <= strayed[c] + BatchSize
  <2>1. faults' = faults + 1 /\ strayed' = Add(strayed, x, batch[w][x])
    BY <1>10 DEF DecrByFails, Fault
  <2>2. batch[w][x] \in Int /\ batch[w][x] <= BatchSize
    BY <1>2
  <2> QED
    BY <1>5, <2>1, <2>2
<1>11. ASSUME NEW w \in Workers, NEW x \in Codes, DecrByReplyLost(w, x)
       PROVE  faults' = faults + 1 /\ strayed'[c] <= strayed[c] + BatchSize
  <2>1. faults' = faults + 1 /\ strayed' = Add(strayed, x, -batch[w][x])
    BY <1>11 DEF DecrByReplyLost, Fault
  <2>2. -batch[w][x] \in Int /\ -batch[w][x] <= BatchSize
    BY <1>1, <1>2
  <2> QED
    BY <1>5, <2>1, <2>2
<1>12. ASSUME NEW w \in Workers, Crash(w)
       PROVE  faults' = faults + 1 /\ strayed'[c] <= strayed[c] + BatchSize
  <2> DEFINE gone == {h \in Uncounted(c) : Home[h] = w}
  <2>1. Cardinality(gone) \in Nat
    <3>1. gone \subseteq Handlers
      BY DEF Uncounted
    <3> QED
      BY <3>1, HomeAssumption, FS_Subset, FS_CardinalityType
  <2>2. strayed'[c] = strayed[c] + Owes(w, c) - Cardinality(gone) /\ faults' = faults + 1
    BY <1>12 DEF Crash, Fault
  <2> HIDE DEF gone
  <2>3. Owes(w, c) \in Nat /\ Owes(w, c) <= BatchSize
    BY <1>1, <1>2 DEF Owes
  <2> QED
    BY <1>1, <2>1, <2>2, <2>3
<1>13. CASE UNCHANGED vars
  BY <1>3, <1>13 DEF vars, history, bounds
<1> QED
  BY <1>3, <1>4, <1>6, <1>7, <1>8, <1>9, <1>10, <1>11, <1>12, <1>13 DEF Next

LEMMA NextSizes == Inv /\ Sizes /\ [Next]_vars => Sizes'
<1> SUFFICES ASSUME Inv, Sizes, [Next]_vars, NEW c \in Codes
             PROVE  strayed'[c] <= BatchSize * faults'
  BY NextBatch DEF Sizes, StrayInv
<1>1. /\ strayed[c] \in Int /\ strayed'[c] \in Int /\ BatchSize \in Nat /\ faults \in Nat
      /\ strayed[c] <= BatchSize * faults
  <2>1. Numbers /\ Numbers'
    BY NextInv, NumbersTyped, NumbersTypedNext
  <2>2. strayed[c] \in Int /\ strayed'[c] \in Int /\ faults \in Nat
    BY <2>1 DEF Numbers
  <2> QED
    BY <2>2, SizeAssumption DEF Sizes, StrayInv
<1>2. BatchSize * (faults + 1) = BatchSize * faults + BatchSize
  BY <1>1
<1> QED
  BY <1>1, <1>2, StrayGrows DEF Sizes

LEMMA InitSizes == Init => Sizes
<1> SUFFICES ASSUME Init PROVE Sizes
  OBVIOUS
<1>1. \A w \in Workers : Size(batch[w]) = 0
  BY SizeZero DEF Init
<1>2. \A c \in Codes : strayed[c] = 0
  BY DEF Init, Zero
<1>3. BatchSize * faults = 0 /\ 0 < BatchSize
  BY SizeAssumption DEF Init
<1> QED
  BY <1>1, <1>2, <1>3, SizeAssumption DEF Sizes, BatchInv, StrayInv

=============================================================================
