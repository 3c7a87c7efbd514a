--------------------------- MODULE ClickPipeline ---------------------------
(***************************************************************************)
(* Click counting: handler.queueAnalytics, worker.Start and worker.flush,  *)
(* and the two bulk transactions of the repositories.                      *)
(*                                                                         *)
(* A redirect pushes an event on a Redis list and increments a live        *)
(* counter; one worker per API instance pops events, batches them, writes  *)
(* them to PostgreSQL and takes them off the live counter.  An event is    *)
(* named by the short code that was clicked.  The worker's PFADD feeds a   *)
(* separate sketch of unique visitors, which nothing else here reads, and  *)
(* is left out.                                                            *)
(***************************************************************************)
EXTENDS Integers, Sequences, FiniteSets, Functions

CONSTANTS Codes,
          Handlers,      \* goroutines that serve redirects
          Workers,       \* one per API instance
          Home,          \* Home[h]: the instance (its worker) handler h runs in
          BatchSize,     \* 50 in cmd/api/main.go
          MaxQueueLen,   \* 100000 in the code
          MaxClicks,     \* bound: redirects
          MaxFaults,     \* bound: failed or repeated Redis commands, and crashes
          Stopping,      \* bound: the instances that are shut down
          NoCode, Unlocked

ASSUME HomeAssumption == Home \in [Handlers -> Workers] /\ IsFiniteSet(Handlers)
\* short_code is a VARCHAR(10), and there are only so many instances.
ASSUME FiniteAssumption == IsFiniteSet(Codes) /\ IsFiniteSet(Workers)
ASSUME SizeAssumption == /\ BatchSize \in Nat \ {0} /\ MaxQueueLen \in Nat \ {0}
                         /\ MaxClicks \in Nat /\ MaxFaults \in Nat
ASSUME ValueAssumption == NoCode \notin Codes /\ Unlocked \notin Workers
ASSUME StoppingAssumption == Stopping \subseteq Workers

VARIABLES queue,        \* Redis list queue:analytics, oldest first
          live,         \* Redis keys clicks:<code>
          inserted,     \* rows of the analytics table per code
          clickCount,   \* urls.click_count
          rowLock,      \* the transaction that has updated a row of urls
          at, batch, todo,   \* each worker: where it is, its batch, codes left to do
          cancelled,    \* workerCancel was called
          hpc, hcode,   \* each handler: where it is in queueAnalytics, its code
          pushed,       \* history: events put on the list
          decremented,  \* history: what the workers took off the live counters
          strayed,      \* history: what faults added to the live counters
          clicks, faults

redis == <<queue, live>>
postgres == <<inserted, clickCount, rowLock>>
worker == <<at, batch, todo, cancelled>>
handler == <<hpc, hcode>>
history == <<pushed, decremented, strayed>>
bounds == <<clicks, faults>>
vars == <<redis, postgres, worker, handler, history, bounds>>

Zero == [c \in Codes |-> 0]

Init ==
  /\ queue = <<>> /\ live = Zero
  /\ inserted = Zero /\ clickCount = Zero
  /\ rowLock = [c \in Codes |-> Unlocked]
  /\ at = [w \in Workers |-> "loop"]
  /\ batch = [w \in Workers |-> Zero]
  /\ todo = [w \in Workers |-> {}]
  /\ cancelled = [w \in Workers |-> FALSE]
  /\ hpc = [h \in Handlers |-> "idle"]
  /\ hcode = [h \in Handlers |-> NoCode]
  /\ pushed = Zero /\ decremented = Zero /\ strayed = Zero
  /\ clicks = 0 /\ faults = 0

Add(f, c, n) == [f EXCEPT ![c] = @ + n]
Plus(f, g) == [c \in Codes |-> f[c] + g[c]]
In(b) == {c \in Codes : b[c] > 0}
Size(b) == SumFunction(b)

Fault == faults < MaxFaults /\ faults' = faults + 1 /\ UNCHANGED clicks

-----------------------------------------------------------------------------
(* handlers.go: queueAnalytics, run for every redirect *)

Click(h, c) ==
  /\ hpc[h] = "idle" /\ clicks < MaxClicks /\ ~cancelled[Home[h]]
  /\ clicks' = clicks + 1
  /\ hpc' = [hpc EXCEPT ![h] = "len"]
  /\ hcode' = [hcode EXCEPT ![h] = c]
  /\ UNCHANGED <<redis, postgres, worker, history, faults>>

HandlerGoto(h, label) ==
  /\ hpc' = [hpc EXCEPT ![h] = label]
  /\ hcode' = IF label = "idle" THEN [hcode EXCEPT ![h] = NoCode] ELSE hcode

\* Mutant: one event too many.
CheckLenTooLate(h) ==
  /\ hpc[h] = "len"
  /\ HandlerGoto(h, IF Len(queue) > MaxQueueLen THEN "idle" ELSE "push")
  /\ UNCHANGED <<redis, postgres, worker, history, bounds>>

\* LLEN; a full queue drops the event, and nothing is counted.
CheckLen(h) ==
  /\ hpc[h] = "len"
  /\ HandlerGoto(h, IF Len(queue) >= MaxQueueLen THEN "idle" ELSE "push")
  /\ UNCHANGED <<redis, postgres, worker, history, bounds>>

\* The error of LLEN is ignored: the length reads as 0.
CheckLenFails(h) ==
  /\ hpc[h] = "len" /\ Fault
  /\ HandlerGoto(h, "push")
  /\ UNCHANGED <<redis, postgres, worker, history>>

\* Mutant: the gin context is recycled before the push reads the code from it.
PushRecycled(h) ==
  /\ hpc[h] = "push"
  /\ queue' = Append(queue, NoCode)
  /\ pushed' = Add(pushed, hcode[h], 1)
  /\ HandlerGoto(h, "incr")
  /\ UNCHANGED <<live, postgres, worker, decremented, strayed, bounds>>

Push(h) ==
  /\ hpc[h] = "push"
  /\ queue' = Append(queue, hcode[h])
  /\ pushed' = Add(pushed, hcode[h], 1)
  /\ HandlerGoto(h, "incr")
  /\ UNCHANGED <<live, postgres, worker, decremented, strayed, bounds>>

\* An error of LPUSH is logged and the click is counted all the same; a lost
\* reply makes go-redis push the event again.
PushFails(h) ==
  /\ hpc[h] = "push" /\ Fault
  /\ HandlerGoto(h, "incr")
  /\ strayed' = Add(strayed, hcode[h], 1)
  /\ UNCHANGED <<redis, postgres, worker, pushed, decremented>>

PushTwice(h) ==
  /\ hpc[h] = "push" /\ Fault
  /\ queue' = queue \o <<hcode[h], hcode[h]>>
  /\ pushed' = Add(pushed, hcode[h], 2)
  /\ strayed' = Add(strayed, hcode[h], -1)
  /\ HandlerGoto(h, "incr")
  /\ UNCHANGED <<live, postgres, worker, decremented>>

Incr(h) ==
  /\ hpc[h] = "incr"
  /\ live' = Add(live, hcode[h], 1)
  /\ HandlerGoto(h, "idle")
  /\ UNCHANGED <<queue, postgres, worker, history, bounds>>

\* Redis executed the INCR and go-redis, which has seen no reply, sends it
\* again.
IncrReplyLost(h) ==
  /\ hpc[h] = "incr" /\ Fault
  /\ live' = Add(live, hcode[h], 1)
  /\ strayed' = Add(strayed, hcode[h], 1)
  /\ UNCHANGED <<queue, postgres, worker, handler, pushed, decremented>>

IncrFails(h) ==
  /\ hpc[h] = "incr" /\ Fault
  /\ strayed' = Add(strayed, hcode[h], -1)
  /\ HandlerGoto(h, "idle")
  /\ UNCHANGED <<redis, postgres, worker, pushed, decremented>>

-----------------------------------------------------------------------------
(* worker.go: Start *)

Goto(w, label, codes) ==
  /\ at' = [at EXCEPT ![w] = label]
  /\ todo' = [todo EXCEPT ![w] = codes]

\* BRPOP takes the event off the list for good; a full batch is flushed.
Pop(w) ==
  /\ at[w] = "loop" /\ ~cancelled[w] /\ queue # <<>>
  /\ queue' = Tail(queue)
  /\ batch' = [batch EXCEPT ![w] = Add(@, Head(queue), 1)]
  /\ Goto(w, IF Size(batch'[w]) >= BatchSize THEN "insert" ELSE "loop", {})
  /\ UNCHANGED <<live, postgres, cancelled, handler, history, bounds>>

\* Redis executed the BRPOP, but the connection broke or the context of the
\* call was cancelled before the reply arrived.
PopReplyLost(w) ==
  /\ at[w] = "loop" /\ queue # <<>> /\ Fault
  /\ queue' = Tail(queue)
  /\ strayed' = Add(strayed, Head(queue), 1)
  /\ UNCHANGED <<live, postgres, worker, handler, pushed, decremented>>

\* Mutant: the ticker, too, waits for a full batch.
TickerFlushFull(w) ==
  /\ at[w] = "loop" /\ Size(batch[w]) >= BatchSize
  /\ Goto(w, "insert", {})
  /\ UNCHANGED <<redis, postgres, batch, cancelled, handler, history, bounds>>

\* Mutant: return without the last flush.
CtxDoneReturns(w) ==
  /\ at[w] = "loop" /\ cancelled[w]
  /\ Goto(w, "stopped", {})
  /\ UNCHANGED <<redis, postgres, batch, cancelled, handler, history, bounds>>

\* The ticker: a batch that is not full is flushed after two seconds.
TickerFlush(w) ==
  /\ at[w] = "loop" /\ batch[w] # Zero
  /\ Goto(w, "insert", {})
  /\ UNCHANGED <<redis, postgres, batch, cancelled, handler, history, bounds>>

\* ctx.Done: flush what is left, then return.
CtxDone(w) ==
  /\ at[w] = "loop" /\ cancelled[w]
  /\ Goto(w, IF batch[w] # Zero THEN "insert" ELSE "stopped", {})
  /\ UNCHANGED <<redis, postgres, batch, cancelled, handler, history, bounds>>

-----------------------------------------------------------------------------
(* worker.go: flush, with BulkInsert and BulkIncrementClicks.  Every error  *)
(* is logged and the next step runs.                                        *)

\* Mutant: an error of the insert ends the flush, and the batch is gone.
BulkInsertReturns(w) ==
  /\ at[w] = "insert"
  /\ \/ inserted' = Plus(inserted, batch[w]) /\ Goto(w, "update", In(batch[w])) /\ UNCHANGED batch
     \/ Goto(w, "loop", {}) /\ batch' = [batch EXCEPT ![w] = Zero] /\ UNCHANGED inserted
  /\ UNCHANGED <<redis, clickCount, rowLock, cancelled, handler, history, bounds>>

\* One transaction: all the records or none.
BulkInsert(w) ==
  /\ at[w] = "insert"
  /\ inserted' \in {inserted, Plus(inserted, batch[w])}
  /\ Goto(w, "update", In(batch[w]))
  /\ UNCHANGED <<redis, clickCount, rowLock, batch, cancelled, handler, history, bounds>>

\* One UPDATE of the transaction, in the order of a Go map: any order.
UpdateRow(w, c) ==
  /\ at[w] = "update" /\ c \in todo[w] /\ rowLock[c] = Unlocked
  /\ rowLock' = [rowLock EXCEPT ![c] = w]
  /\ Goto(w, "update", todo[w] \ {c})
  /\ UNCHANGED <<redis, inserted, clickCount, batch, cancelled, handler, history, bounds>>

Release(w) == rowLock' = [c \in Codes |-> IF rowLock[c] = w THEN Unlocked ELSE rowLock[c]]

Commit(w) ==
  /\ at[w] = "update" /\ todo[w] = {}
  /\ clickCount' = Plus(clickCount, batch[w])
  /\ Release(w)
  /\ Goto(w, "decr", In(batch[w]))
  /\ UNCHANGED <<redis, inserted, batch, cancelled, handler, history, bounds>>

\* Begin, an UPDATE or the commit fails: rolled back, logged, not retried.
Rollback(w) ==
  /\ at[w] = "update"
  /\ Release(w)
  /\ Goto(w, "decr", In(batch[w]))
  /\ UNCHANGED <<redis, inserted, clickCount, batch, cancelled, handler, history>>

TxFails(w) == Rollback(w) /\ Fault

WaitsFor(w, v) == at[w] = "update" /\ \E c \in todo[w] : rowLock[c] = v

\* w is one of some workers that wait for each other in a circle.
Deadlocked(w) == \E ws \in SUBSET Workers : \E next \in [ws -> ws] :
  /\ w \in ws /\ \A v \in ws : WaitsFor(v, next[v])
  /\ \A v \in ws : \E u \in ws : next[u] = v

\* PostgreSQL aborts one of the transactions that wait for each other.
DeadlockAbort(w) == Deadlocked(w) /\ Rollback(w) /\ UNCHANGED bounds

\* Mutant: the batch is not reset after the flush.
DecrementedKeepsBatch(w, c) ==
  /\ at[w] = "decr" /\ c \in todo[w]
  /\ Goto(w, IF todo[w] = {c} THEN "loop" ELSE "decr", todo[w] \ {c})
  /\ UNCHANGED <<queue, postgres, batch, cancelled, handler, pushed>>

\* DECRBY for one code; after the last the batch is dropped.
Decremented(w, c) ==
  /\ at[w] = "decr" /\ c \in todo[w]
  /\ LET last == todo[w] = {c}
     IN /\ Goto(w, IF last THEN "loop" ELSE "decr", todo[w] \ {c})
        /\ batch' = IF last THEN [batch EXCEPT ![w] = Zero] ELSE batch
  /\ UNCHANGED <<queue, postgres, cancelled, handler, pushed>>

\* Mutant: DECR instead of DECRBY.
DecrByOne(w, c) ==
  /\ Decremented(w, c)
  /\ live' = Add(live, c, -1)
  /\ decremented' = Add(decremented, c, 1)
  /\ UNCHANGED <<strayed, bounds>>

DecrBy(w, c) ==
  /\ Decremented(w, c)
  /\ live' = Add(live, c, -batch[w][c])
  /\ decremented' = Add(decremented, c, batch[w][c])
  /\ UNCHANGED <<strayed, bounds>>

\* Redis executed the DECRBY and go-redis sends it again.
DecrByReplyLost(w, c) ==
  /\ at[w] = "decr" /\ c \in todo[w] /\ Fault
  /\ live' = Add(live, c, -batch[w][c])
  /\ strayed' = Add(strayed, c, -batch[w][c])
  /\ UNCHANGED <<queue, postgres, worker, handler, pushed, decremented>>

DecrByFails(w, c) ==
  /\ Decremented(w, c) /\ Fault
  /\ strayed' = Add(strayed, c, batch[w][c])
  /\ UNCHANGED <<live, decremented>>

-----------------------------------------------------------------------------
(* cmd/api/main.go *)

\* workerCancel, once Shutdown has waited for the handlers of the instance.
Cancel(w) ==
  /\ w \in Stopping /\ ~cancelled[w]
  /\ \A h \in Handlers : Home[h] = w => hpc[h] = "idle"
  /\ cancelled' = [cancelled EXCEPT ![w] = TRUE]
  /\ UNCHANGED <<redis, postgres, at, batch, todo, handler, history, bounds>>

\* What the worker still has to take off the live counter.
Owes(w, c) == IF at[w] = "decr" /\ c \notin todo[w] THEN 0 ELSE batch[w][c]
\* The handlers that have pushed an event and not counted it yet.
Uncounted(c) == {h \in Handlers : hpc[h] = "incr" /\ hcode[h] = c}

\* The process is killed and starts again: its batch and its handlers are
\* gone, and PostgreSQL rolls back its open transaction.
Crash(w) ==
  /\ Fault
  /\ strayed' = [c \in Codes |-> strayed[c] + Owes(w, c)
                   - Cardinality({h \in Uncounted(c) : Home[h] = w})]
  /\ Release(w)
  /\ Goto(w, "loop", {})
  /\ batch' = [batch EXCEPT ![w] = Zero]
  /\ cancelled' = [cancelled EXCEPT ![w] = FALSE]
  /\ hpc' = [h \in Handlers |-> IF Home[h] = w THEN "idle" ELSE hpc[h]]
  /\ hcode' = [h \in Handlers |-> IF Home[h] = w THEN NoCode ELSE hcode[h]]
  /\ UNCHANGED <<redis, inserted, clickCount, pushed, decremented>>

QueueAnalytics(h) == \/ CheckLen(h) \/ CheckLenFails(h)
                     \/ Push(h) \/ PushFails(h) \/ PushTwice(h)
                     \/ Incr(h) \/ IncrReplyLost(h) \/ IncrFails(h)

Flush(w) == \/ BulkInsert(w)
            \/ \E c \in Codes : UpdateRow(w, c)
            \/ Commit(w) \/ DeadlockAbort(w)
            \/ \E c \in Codes : DecrBy(w, c)

Next == \/ \E h \in Handlers : QueueAnalytics(h) \/ \E c \in Codes : Click(h, c)
        \/ \E w \in Workers : \/ Pop(w) \/ PopReplyLost(w)
                              \/ TickerFlush(w) \/ CtxDone(w) \/ Flush(w)
                              \/ TxFails(w)
                              \/ \E c \in Codes : DecrByReplyLost(w, c) \/ DecrByFails(w, c)
                              \/ Cancel(w) \/ Crash(w)

\* The worker's goroutine runs, its ticker fires, and PostgreSQL answers.
Spec == Init /\ [][Next]_vars
        /\ \A w \in Workers : WF_vars(TickerFlush(w) \/ CtxDone(w) \/ Flush(w))

-----------------------------------------------------------------------------
(* Properties *)

TypeOK ==
  /\ queue \in Seq(Codes)
  /\ live \in [Codes -> Int]
  /\ inserted \in [Codes -> Nat]
  /\ clickCount \in [Codes -> Nat]
  /\ rowLock \in [Codes -> Workers \cup {Unlocked}]
  /\ at \in [Workers -> {"loop", "insert", "update", "decr", "stopped"}]
  /\ batch \in [Workers -> [Codes -> Nat]]
  /\ todo \in [Workers -> SUBSET Codes]
  /\ cancelled \in [Workers -> BOOLEAN]
  /\ hpc \in [Handlers -> {"idle", "len", "push", "incr"}]
  /\ hcode \in [Handlers -> Codes \cup {NoCode}]
  /\ pushed \in [Codes -> Nat]
  /\ decremented \in [Codes -> Nat]
  /\ strayed \in [Codes -> Int]
  /\ clicks \in 0..MaxClicks /\ faults \in 0..MaxFaults

Queued(c) == Cardinality({i \in DOMAIN queue : queue[i] = c})
Owed(c) == SumFunction([w \in Workers |-> Owes(w, c)])

\* The live counter is what is on its way to PostgreSQL, but for the handlers
\* between LPUSH and INCR, which make it run behind (even below zero), and for
\* what faults left in it for good.
LiveBalance == \A c \in Codes :
  live[c] = Queued(c) + Owed(c) - Cardinality(Uncounted(c)) + strayed[c]

\* While no command fails and nothing crashes, an event that was pushed is on
\* the list, in one batch, or taken off the live counter: none is dropped, and
\* none is handed to two workers or taken off twice.
NoneDropped == faults = 0 =>
  \A c \in Codes : pushed[c] = Queued(c) + Owed(c) + decremented[c]

\* A batch still to be written: its transaction has not committed.
Uncommitted(w) == at[w] \in {"loop", "insert", "update"}
InFlight(c) == SumFunction([w \in Workers |-> IF Uncommitted(w) THEN batch[w][c] ELSE 0])
\* A batch that is not in the analytics table yet.
Uninserted(w) == at[w] \in {"loop", "insert"}
InTransit(c) == SumFunction([w \in Workers |-> IF Uninserted(w) THEN batch[w][c] ELSE 0])

\* An event is written at most once to each table, however many workers
\* share the list and however their transactions end.
WrittenAtMostOnce == \A c \in Codes :
  /\ clickCount[c] + InFlight(c) + Queued(c) <= pushed[c]
  /\ inserted[c] + InTransit(c) + Queued(c) <= pushed[c]

\* The cap is checked before the push, not with it: every handler may be past
\* the check, and a failed LLEN lets one more through.
QueueBound == Len(queue) <= MaxQueueLen - 1 + Cardinality(Handlers) + faults

\* A worker that has returned leaves nothing in memory and no row locked.
StoppedIsEmpty == \A w \in Workers : at[w] = "stopped" =>
  batch[w] = Zero /\ \A c \in Codes : rowLock[c] # w

\* Every batch is given up in the end, full or not: the ticker fires, and
\* two workers that lock the same rows in opposite orders both get on.
BatchIsFlushed == \A w \in Workers : []<>(batch[w] = Zero)

\* worker.go: "Decrement the Redis live click counters for the flushed amount".
DecrementedWereFlushed == \A c \in Codes : decremented[c] <= clickCount[c]
=============================================================================
