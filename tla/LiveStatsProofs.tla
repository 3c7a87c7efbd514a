-------------------------- MODULE LiveStatsProofs --------------------------
(***************************************************************************)
(* What a reader may show.  The concurrent queries of                      *)
(* analytics_repo.GetByCode: whichever of them fail or lose rows, the      *)
(* numbers of an answer that have all their rows are of its own time.  The *)
(* sum that GetLiveStats, StreamAnalytics and GetAnalytics send: how far   *)
(* it may be above and below the clicks there were.  The books of the      *)
(* pipeline are taken from ClickPipelineProofs.                            *)
(***************************************************************************)
EXTENDS ClickPipelineProofs, LiveStats

Places == {"idle", "row", "live", "stream", "queries", "wait", "done"}

Reader == [pc : Places, kind : Kinds \cup {"none"}, code : Codes \cup {NoCode}, base : Int,
           open : SUBSET Queries, wg : Int, firstErr : BOOLEAN, parts : [Queries -> Int],
           cut : SUBSET Breakdowns,
           since : Int, shown : Int \cup {NoAnswer}]

\* What GetByCode starts from, what it knows while it waits, what it returns.
Fresh(m) == m.firstErr = FALSE /\ m.parts = [q \in Queries |-> 0] /\ m.cut = {}
Waiting(m) ==
  /\ m.wg = Cardinality(m.open)
  /\ m.since <= inserted[m.code]
  /\ \A q \in Queries : m.parts[q] <= inserted[m.code]
  /\ \A q \in Queries : q \in m.open \/ q \in m.cut \/ m.firstErr = TRUE \/ m.since <= m.parts[q]
Answered(m) ==
  /\ m.open = {} /\ m.firstErr = FALSE
  /\ m.since <= m.base /\ m.base <= inserted[m.code]
  /\ \A q \in Queries : m.parts[q] <= inserted[m.code]
  /\ \A q \in Queries : q \in m.cut \/ m.since <= m.parts[q]

\* No answer for the code may be above this.
Ceiling(c) == pushed[c] + BatchSize * (Cardinality(Workers) + faults)

\* What a reader has from PostgreSQL is no more than what is there by now.
Honest(m) ==
  /\ m.pc = "live" => m.kind \in {"live", "analytics"}
  /\ m.pc \in {"live", "stream"} =>
       m.base <= IF m.kind = "analytics" THEN inserted[m.code] ELSE clickCount[m.code]
  /\ m.shown # NoAnswer => m.code \in Codes /\ m.shown <= Ceiling(m.code)

\* The locals of a reader fit the place where it is.
Sound(m) ==
  /\ Honest(m)
  /\ m.pc # "idle" => m.code \in Codes
  /\ m.pc \in {"row", "queries"} => Fresh(m)
  /\ m.pc \in {"queries", "wait"} => m.kind = "analytics"
  /\ m.pc = "wait" => Waiting(m)
  /\ m.pc = "stream" => m.kind = "stream"
  /\ m.kind = "analytics" /\ m.pc \in {"live", "done"} => Answered(m)

ReaderInv == reader \in [Readers -> Reader] /\ \A r \in Readers : Sound(reader[r])

LEMMA QueriesFinite == IsFiniteSet(Queries) /\ "total" \in Queries
<1>1. Queries = Breakdowns \cup {"total"}
  BY DEF Queries
<1> QED
  BY <1>1, QueryAssumption, FS_AddElement

LEMMA IdleType == Idle \in Reader /\ Sound(Idle)
<1>1. Idle \in Reader
  BY DEF Idle, Reader, Places
<1> QED
  BY <1>1 DEF Idle, Sound, Honest

LEMMA FiniteWorkers == Cardinality(Workers) \in Nat /\ BatchSize \in Nat /\ BatchSize >= 1
  BY FiniteAssumption, SizeAssumption, FS_CardinalityType

\* The ceiling rises with every push and every fault.
LEMMA CeilingGrows ==
  ASSUME Inv, Inv', NEW c \in Codes, pushed[c] <= pushed'[c], faults <= faults'
  PROVE  Ceiling(c) \in Int /\ Ceiling(c)' \in Int /\ Ceiling(c) <= Ceiling(c)'
<1>1. pushed[c] \in Nat /\ pushed'[c] \in Nat /\ faults \in Nat /\ faults' \in Nat
  <2>1. pushed \in [Codes -> Nat] /\ pushed' \in [Codes -> Nat]
    BY DEF Inv, TypeOK
  <2>2. faults \in 0..MaxFaults /\ faults' \in 0..MaxFaults
    BY DEF Inv, TypeOK
  <2> QED
    BY <2>1, <2>2, SizeAssumption
<1> DEFINE W == Cardinality(Workers)
<1>2. PICK d \in Nat : faults' = faults + d
  <2>1. \A a, b \in Nat : a <= b => b - a \in Nat /\ b = a + (b - a)
    OBVIOUS
  <2> QED
    BY <1>1, <2>1
<1>3. W \in Nat /\ BatchSize \in Nat
  BY FiniteWorkers
<1> HIDE DEF W
<1>4. BatchSize * (W + (faults + d)) = BatchSize * (W + faults) + BatchSize * d
  BY <1>1, <1>3
<1>5. BatchSize * d \in Nat /\ BatchSize * (W + faults) \in Nat
  BY <1>1, <1>3
<1> QED
  BY <1>1, <1>2, <1>3, <1>4, <1>5 DEF Ceiling, W

\* Reading does not change what the pipeline has written.
Reading == UNCHANGED <<inserted, clickCount, pushed>> /\ faults <= faults'

\* A step of one reader, with the tables as they are.
LEMMA ReaderMoves ==
  ASSUME Inv, Inv', ReaderInv, NEW r \in Readers, NEW m \in Reader, Sound(m),
         reader' = [reader EXCEPT ![r] = m], Reading
  PROVE  ReaderInv'
<1>1. reader' \in [Readers -> Reader] /\ \A o \in Readers : reader'[o] \in {m, reader[o]}
  BY DEF ReaderInv
<1>2. ASSUME NEW n \in Reader, Sound(n) PROVE Sound(n)'
  <2>1. n.shown # NoAnswer => n.shown \in Int
    BY DEF Reader
  <2>2. ASSUME NEW c \in Codes
        PROVE  Ceiling(c) \in Int /\ Ceiling(c)' \in Int /\ Ceiling(c) <= Ceiling(c)'
    <3>1. pushed[c] \in Nat /\ pushed[c] <= pushed'[c] /\ faults <= faults'
      BY DEF Reading, Inv, TypeOK
    <3> QED
      BY <3>1, CeilingGrows
  <2>3. Honest(n)'
    BY <1>2, <2>1, <2>2 DEF Sound, Honest, Reading
  <2> QED
    BY <1>2, <2>3 DEF Sound, Fresh, Waiting, Answered, Reading
<1>3. ASSUME NEW o \in Readers PROVE Sound(reader[o])'
  <2>1. PICK n \in Reader : n = reader'[o] /\ Sound(n)
    BY <1>1 DEF ReaderInv
  <2>2. Sound(n)'
    BY <1>2, <2>1
  <2> DEFINE q == reader[o]
  <2>3. q' = n
    BY <2>1
  <2> HIDE DEF q
  <2>4. Sound(q)'
    BY <2>2, <2>3 DEF Sound, Honest, Fresh, Waiting, Answered, Ceiling
  <2> QED
    BY <2>4 DEF q
<1> QED
  BY <1>1, <1>3 DEF ReaderInv

\* The analytics table only grows.
LEMMA InsertedGrows ==
  ASSUME Inv, [Next]_vars
  PROVE  \A c \in Codes : inserted[c] \in Nat /\ inserted'[c] \in Nat /\ inserted[c] <= inserted'[c]
<1>1. inserted \in [Codes -> Nat]
  BY DEF Inv, TypeOK
<1>2. CASE \E w \in Workers : BulkInsert(w)
  <2>1. PICK w \in Workers : inserted' \in {inserted, Plus(inserted, batch[w])}
    BY <1>2 DEF BulkInsert
  <2>2. batch[w] \in [Codes -> Nat]
    BY DEF Inv, TypeOK
  <2> QED
    BY <1>1, <2>1, <2>2 DEF Plus
<1>3. CASE UNCHANGED inserted
  BY <1>1, <1>3
<1>4. CASE \E h \in Handlers : QueueAnalytics(h) \/ \E c \in Codes : Click(h, c)
  BY <1>3, <1>4 DEF QueueAnalytics, CheckLen, CheckLenFails, Push, PushFails, PushTwice, Incr,
     IncrReplyLost, IncrFails, Click, postgres
<1>5. CASE \E w \in Workers : \/ Pop(w) \/ PopReplyLost(w) \/ TickerFlush(w) \/ CtxDone(w)
                              \/ Cancel(w) \/ Crash(w)
  BY <1>3, <1>5 DEF Pop, PopReplyLost, TickerFlush, CtxDone, Cancel, Crash, postgres
<1>6. CASE \E w \in Workers : \/ Commit(w) \/ DeadlockAbort(w) \/ TxFails(w)
                              \/ \E c \in Codes : \/ UpdateRow(w, c) \/ DecrBy(w, c)
                                                  \/ DecrByReplyLost(w, c) \/ DecrByFails(w, c)
  <2>1. CASE \E w \in Workers : Commit(w) \/ DeadlockAbort(w) \/ TxFails(w)
    BY <1>3, <2>1 DEF Commit, DeadlockAbort, TxFails, Rollback
  <2>2. CASE \E w \in Workers, c \in Codes : UpdateRow(w, c)
    BY <1>3, <2>2 DEF UpdateRow
  <2>3. CASE \E w \in Workers, c \in Codes : \/ DecrBy(w, c) \/ DecrByReplyLost(w, c)
                                            \/ DecrByFails(w, c)
    BY <1>3, <2>3 DEF DecrBy, DecrByReplyLost, DecrByFails, Decremented, postgres
  <2> QED
    BY <1>6, <2>1, <2>2, <2>3
<1>7. CASE UNCHANGED vars
  BY <1>3, <1>7 DEF vars, postgres
<1> QED
  BY <1>2, <1>4, <1>5, <1>6, <1>7 DEF Next, Flush

\* So do the click counts, what was pushed, and the faults.
LEMMA CountersGrow ==
  ASSUME Inv, Inv', [Next]_vars
  PROVE  /\ \A c \in Codes : /\ clickCount[c] \in Nat /\ clickCount'[c] \in Nat
                             /\ clickCount[c] <= clickCount'[c]
                             /\ pushed[c] \in Nat /\ pushed'[c] \in Nat /\ pushed[c] <= pushed'[c]
         /\ faults \in Nat /\ faults <= faults'
<1>1. /\ clickCount \in [Codes -> Nat] /\ clickCount' \in [Codes -> Nat]
      /\ pushed \in [Codes -> Nat] /\ pushed' \in [Codes -> Nat] /\ faults \in Nat
  BY SizeAssumption DEF Inv, TypeOK
<1>2. faults' = faults \/ faults' = faults + 1
  BY DEF Next, vars, QueueAnalytics, CheckLen, CheckLenFails, Push, PushFails, PushTwice, Incr,
     IncrReplyLost, IncrFails, Click, Pop, PopReplyLost, TickerFlush, CtxDone, Cancel, Crash, Flush,
     BulkInsert, UpdateRow, Commit, DeadlockAbort, TxFails, Rollback, DecrBy, DecrByReplyLost, DecrByFails, Fault,
     bounds
<1>3. clickCount' = clickCount \/ \E w \in Workers : clickCount' = Plus(clickCount, batch[w])
  <2>1. CASE \E h \in Handlers : QueueAnalytics(h) \/ \E c \in Codes : Click(h, c)
    BY <2>1 DEF QueueAnalytics, CheckLen, CheckLenFails, Push, PushFails, PushTwice, Incr,
       IncrReplyLost, IncrFails, Click, postgres
  <2>2. CASE \E w \in Workers : \/ Pop(w) \/ PopReplyLost(w) \/ TickerFlush(w) \/ CtxDone(w)
                                \/ Cancel(w) \/ Crash(w)
    BY <2>2 DEF Pop, PopReplyLost, TickerFlush, CtxDone, Cancel, Crash, postgres
  <2>3. CASE \E w \in Workers : \/ Flush(w) \/ TxFails(w)
                                \/ \E c \in Codes : DecrByReplyLost(w, c) \/ DecrByFails(w, c)
    BY <2>3 DEF Flush, BulkInsert, UpdateRow, Commit, DeadlockAbort, TxFails, Rollback, DecrBy,
       DecrByReplyLost, DecrByFails, Decremented, postgres
  <2>4. CASE UNCHANGED vars
    BY <2>4 DEF vars, postgres
  <2> QED
    BY <2>1, <2>2, <2>3, <2>4 DEF Next
<1>4. pushed' = pushed \/ \E x \in Codes, n \in {1, 2} : pushed' = Add(pushed, x, n)
  <2>1. CASE \E h \in Handlers, c \in Codes : Click(h, c)
    BY <2>1 DEF Click, history
  <2>2. ASSUME NEW h \in Handlers, QueueAnalytics(h)
        PROVE  pushed' = pushed \/ \E x \in Codes, n \in {1, 2} : pushed' = Add(pushed, x, n)
    <3>1. hcode[h] \in Codes
      BY <2>2 DEF Inv, PlaceInv, QueueAnalytics, CheckLen, CheckLenFails, Push, PushFails,
         PushTwice, Incr, IncrReplyLost, IncrFails
    <3> QED
      BY <2>2, <3>1 DEF QueueAnalytics, CheckLen, CheckLenFails, Push, PushFails, PushTwice, Incr,
         IncrReplyLost, IncrFails, history
  <2>3. CASE \E w \in Workers : \/ Pop(w) \/ PopReplyLost(w) \/ TickerFlush(w) \/ CtxDone(w)
                                \/ Cancel(w) \/ Crash(w)
    BY <2>3 DEF Pop, PopReplyLost, TickerFlush, CtxDone, Cancel, Crash, history
  <2>4. CASE \E w \in Workers : \/ Flush(w) \/ TxFails(w)
                                \/ \E c \in Codes : DecrByReplyLost(w, c) \/ DecrByFails(w, c)
    BY <2>4 DEF Flush, BulkInsert, UpdateRow, Commit, DeadlockAbort, TxFails, Rollback, DecrBy,
       DecrByReplyLost, DecrByFails, Decremented, history
  <2>5. CASE UNCHANGED vars
    BY <2>5 DEF vars, history
  <2> QED
    BY <2>1, <2>2, <2>3, <2>4, <2>5 DEF Next
<1>5. ASSUME NEW c \in Codes PROVE clickCount[c] <= clickCount'[c]
  <2>1. \A w \in Workers : batch[w][c] \in Nat
    BY DEF Inv, TypeOK
  <2> QED
    BY <1>1, <1>3, <2>1 DEF Plus
<1>6. ASSUME NEW c \in Codes PROVE pushed[c] <= pushed'[c]
  <2>1. CASE pushed' = pushed
    BY <1>1, <2>1
  <2>2. ASSUME NEW x \in Codes, NEW n \in {1, 2}, pushed' = Add(pushed, x, n)
        PROVE  pushed[c] <= pushed'[c]
    <3>1. Add(pushed, x, n)[c] = IF x = c THEN pushed[c] + n ELSE pushed[c]
      BY <1>1 DEF Add
    <3> QED
      BY <1>1, <2>2, <3>1
  <2> QED
    BY <1>4, <2>1, <2>2
<1> QED
  BY <1>1, <1>2, <1>5, <1>6

LEMMA PipelineStep ==
  ASSUME Inv, Inv', ReaderInv, [Next]_vars, UNCHANGED reader
  PROVE  ReaderInv'
<1>1. \A c \in Codes : /\ Ceiling(c) \in Int /\ Ceiling(c)' \in Int /\ Ceiling(c) <= Ceiling(c)'
                       /\ clickCount[c] \in Nat /\ clickCount'[c] \in Nat
                       /\ clickCount[c] <= clickCount'[c]
  BY CountersGrow, CeilingGrows
<1>2. ASSUME NEW r \in Readers PROVE Sound(reader[r])'
  <2> DEFINE m == reader[r]
  <2>1. m \in Reader /\ Sound(m)
    BY DEF ReaderInv
  <2>2. m' = m
    OBVIOUS
  <2> HIDE DEF m
  <2>3. /\ m.since \in Int /\ m.base \in Int /\ \A q \in Queries : m.parts[q] \in Int
        /\ m.shown # NoAnswer => m.shown \in Int
    BY <2>1 DEF Reader
  <2>4. Honest(m)'
    BY <1>1, <2>1, <2>2, <2>3, InsertedGrows DEF Sound, Honest
  <2>5. Sound(m)'
    BY <2>1, <2>2, <2>3, <2>4, InsertedGrows DEF Sound, Fresh, Waiting, Answered
  <2> QED
    BY <2>5 DEF m
<1>3. reader' \in [Readers -> Reader]
  BY DEF ReaderInv
<1> QED
  BY <1>2, <1>3 DEF ReaderInv

-----------------------------------------------------------------------------
(* The steps of a reader *)

LEMMA PipelineReads == ASSUME Inv, UNCHANGED pipeline PROVE Reading
<1>1. UNCHANGED <<inserted, clickCount, pushed, faults>> /\ faults \in Nat
  BY SizeAssumption DEF pipeline, vars, postgres, history, bounds, Inv, TypeOK
<1> QED
  BY <1>1 DEF Reading

LEMMA AskInv ==
  ASSUME Inv, Inv', ReaderInv, NEW r \in Readers, NEW k \in Kinds, NEW c \in Codes, Ask(r, k, c)
  PROVE  ReaderInv'
<1> DEFINE m == [Idle EXCEPT !.pc = "row", !.kind = k, !.code = c]
<1>1. m \in Reader /\ Sound(m)
  BY IdleType DEF Idle, Reader, Places, Sound, Honest, Fresh
<1>2. reader' = [reader EXCEPT ![r] = m] /\ Reading
  BY PipelineReads DEF Ask
<1> HIDE DEF m
<1> QED
  BY <1>1, <1>2, ReaderMoves

LEMMA QuietInv ==
  ASSUME Inv, Inv', ReaderInv, NEW r \in Readers, Quiet(r), UNCHANGED pipeline
  PROVE  ReaderInv'
<1>1. Reading
  BY PipelineReads
<1> QED
  BY <1>1, IdleType, ReaderMoves DEF Quiet

\* The number of clicks in a row or an answer is an integer.
LEMMA NumbersType ==
  ASSUME Inv, ReaderInv, NEW r \in Readers, reader[r].pc # "idle"
  PROVE  /\ reader[r] \in Reader /\ Sound(reader[r]) /\ Honest(reader[r]) /\ code(r) \in Codes
         /\ DbClicks(r) \in Int /\ inserted[code(r)] \in Nat /\ live[code(r)] \in Int
<1>1. reader[r] \in Reader /\ Sound(reader[r]) /\ Honest(reader[r])
  BY DEF ReaderInv, Sound
<1>2. code(r) \in Codes
  BY <1>1 DEF Sound, code
<1> QED
  BY <1>1, <1>2 DEF Inv, TypeOK, DbClicks

-----------------------------------------------------------------------------
(* What the tables and the live counter may add up to *)

\* No worker has more than a batch of one code.
LEMMA BatchOfCode ==
  ASSUME Inv, BatchInv, NEW w \in Workers, NEW c \in Codes
  PROVE  batch[w][c] \in Nat /\ batch[w][c] <= BatchSize
<1>1. batch[w] \in [Codes -> Nat] /\ Size(batch[w]) <= BatchSize
  BY DEF Inv, TypeOK, BatchInv
<1>2. batch[w][c] <= Size(batch[w])
  BY <1>1, FiniteAssumption, TermBelowSum DEF Size
<1>3. batch[w][c] \in Nat /\ Size(batch[w]) \in Nat
  BY <1>1, SizeType
<1> QED
  BY <1>1, <1>2, <1>3, FiniteWorkers

\* What the workers owe and have written already: at most a batch for each.
LEMMA OwedIsInFlight ==
  ASSUME Inv, BatchInv, NEW c \in Codes
  PROVE  /\ Owed(c) <= InFlight(c) + BatchSize * Cardinality(Workers)
         /\ Owed(c) <= InTransit(c) + BatchSize * Cardinality(Workers)
<1> DEFINE owes == [w \in Workers |-> Owes(w, c)]
           flight == [w \in Workers |-> FlightOf(w, c)]
           transit == [w \in Workers |-> TransitOf(w, c)]
           written == [w \in Workers |-> IF Uncommitted(w) THEN 0 ELSE Owes(w, c)]
           stored == [w \in Workers |-> IF Uninserted(w) THEN 0 ELSE Owes(w, c)]
<1>1. Parts /\ Numbers
  BY PartsTyped, NumbersTyped
<1>2. /\ owes \in [Workers -> Nat] /\ flight \in [Workers -> Nat] /\ transit \in [Workers -> Nat]
      /\ written \in [Workers -> Nat] /\ stored \in [Workers -> Nat]
  BY <1>1 DEF Parts
<1>3. \A w \in Workers : written[w] <= BatchSize /\ stored[w] <= BatchSize
  BY BatchOfCode, FiniteWorkers DEF Owes
<1>4. \A w \in Workers : owes[w] = flight[w] + written[w] /\ owes[w] = transit[w] + stored[w]
  BY <1>2 DEF FlightOf, TransitOf, Owes, Uncommitted, Uninserted
<1>5. Owed(c) = SumFunction(owes) /\ InFlight(c) = SumFunction(flight)
      /\ InTransit(c) = SumFunction(transit)
  BY DEF Owed, InFlight, InTransit, FlightOf, TransitOf
<1> HIDE DEF owes, flight, transit, written, stored
<1>6. SumFunction(owes) = SumFunction(flight) + SumFunction(written)
  BY <1>2, <1>4, FiniteAssumption, SumPlus
<1>7. SumFunction(owes) = SumFunction(transit) + SumFunction(stored)
  BY <1>2, <1>4, FiniteAssumption, SumPlus
<1>8. /\ SumFunction(written) <= BatchSize * Cardinality(Workers)
      /\ SumFunction(stored) <= BatchSize * Cardinality(Workers)
  BY <1>2, <1>3, FiniteAssumption, FiniteWorkers, SumBound
<1>9. BatchSize * Cardinality(Workers) \in Nat
  BY FiniteWorkers
<1>10. SumFunction(written) \in Nat /\ SumFunction(stored) \in Nat
  BY <1>2, FiniteAssumption, SumType
<1> QED
  BY <1>1, <1>5, <1>6, <1>7, <1>8, <1>9, <1>10 DEF Numbers

\* A table, and the live counter on top of it, is below the ceiling.
LEMMA CountsBelowCeiling ==
  ASSUME Inv, Books, Sizes, NEW c \in Codes
  PROVE  /\ inserted[c] \in Int /\ clickCount[c] \in Int /\ live[c] \in Int /\ Ceiling(c) \in Int
         /\ inserted[c] <= Ceiling(c) /\ clickCount[c] <= Ceiling(c)
         /\ inserted[c] + live[c] <= Ceiling(c) /\ clickCount[c] + live[c] <= Ceiling(c)
<1> DEFINE W == BatchSize * Cardinality(Workers)
           F == BatchSize * faults
<1>1. Numbers /\ Book(c) /\ strayed[c] <= F
  BY NumbersTyped DEF Books, Sizes, StrayInv
<1>2. Owed(c) <= InFlight(c) + W /\ Owed(c) <= InTransit(c) + W
  BY OwedIsInFlight DEF Sizes
<1>3. W \in Nat /\ F \in Nat /\ BatchSize * (Cardinality(Workers) + faults) = W + F
  <2>1. faults \in Nat
    BY <1>1 DEF Numbers
  <2>2. BatchSize * (Cardinality(Workers) + faults) = W + F
    BY <2>1, FiniteWorkers
  <2> QED
    BY <2>1, <2>2, FiniteWorkers
<1> HIDE DEF W, F
<1>4. Ceiling(c) = pushed[c] + W + F
  BY <1>1, <1>3 DEF Ceiling, Numbers
<1> QED
  BY <1>1, <1>2, <1>3, <1>4 DEF Numbers, Book

LEMMA ListURLsInv ==
  ASSUME Inv, Inv', Books, Sizes, ReaderInv, NEW r \in Readers, ListURLs(r)
  PROVE  ReaderInv'
<1>1. CASE Quiet(r)
  BY <1>1, QuietInv DEF ListURLs
<1>2. CASE reader' = [reader EXCEPT ![r].pc = "done", ![r].shown = DbClicks(r)]
  <2> DEFINE p == reader[r]
             m == [p EXCEPT !.pc = "done", !.shown = DbClicks(r)]
  <2>1. p \in Reader /\ Sound(p) /\ p.pc = "row" /\ p.kind = "list" /\ DbClicks(r) \in Int
    BY NumbersType DEF ListURLs, At, kind
  <2>2. Reading
    BY PipelineReads DEF ListURLs
  <2>3. reader' = [reader EXCEPT ![r] = m]
    BY <1>2 DEF ReaderInv
  <2>4. /\ m \in Reader /\ m.pc = "done" /\ m.kind = p.kind /\ m.code = p.code
        /\ m.shown = DbClicks(r)
    BY <2>1 DEF Reader, Places
  <2>5. p.code \in Codes /\ DbClicks(r) <= Ceiling(p.code)
    BY NumbersType, CountsBelowCeiling DEF ListURLs, At, DbClicks, code
  <2> HIDE DEF p, m
  <2>6. Sound(m)
    BY <2>1, <2>4, <2>5 DEF Sound, Honest
  <2> QED
    BY <2>2, <2>3, <2>4, <2>6, ReaderMoves
<1> QED
  BY <1>1, <1>2 DEF ListURLs

LEMMA FetchRowInv ==
  ASSUME Inv, Inv', ReaderInv, NEW r \in Readers, FetchRow(r)
  PROVE  ReaderInv'
<1> DEFINE p == reader[r]
           m == [p EXCEPT !.pc = kind(r), !.base = DbClicks(r)]
<1>1. /\ p \in Reader /\ Sound(p) /\ p.pc = "row" /\ DbClicks(r) \in Int
      /\ kind(r) = p.kind /\ p.kind \in {"live", "stream"}
  BY NumbersType DEF FetchRow, At, kind
<1>2. Reading
  BY PipelineReads DEF FetchRow
<1>3. reader' = [reader EXCEPT ![r] = m]
  BY DEF ReaderInv, FetchRow
<1>4. /\ m \in Reader /\ m.pc = p.kind /\ m.kind = p.kind /\ m.code = p.code
      /\ m.base = clickCount[p.code] /\ m.shown = p.shown
  BY <1>1 DEF Reader, Places, DbClicks, code
<1>5. clickCount[p.code] \in Int
  BY <1>1 DEF DbClicks, code
<1> HIDE DEF p, m
<1>6. Honest(m)
  BY <1>1, <1>4, <1>5 DEF Sound, Honest
<1>7. Sound(m)
  BY <1>1, <1>4, <1>6 DEF Sound
<1> QED
  BY <1>2, <1>3, <1>4, <1>7, ReaderMoves

LEMMA FetchOwnerInv ==
  ASSUME Inv, Inv', ReaderInv, NEW r \in Readers, FetchOwner(r)
  PROVE  ReaderInv'
<1> DEFINE p == reader[r]
           m == [p EXCEPT !.pc = "queries"]
<1>1. p \in Reader /\ Sound(p) /\ p.pc = "row" /\ p.kind = "analytics"
  BY NumbersType DEF FetchOwner, At, kind
<1>2. Reading
  BY PipelineReads DEF FetchOwner
<1>3. reader' = [reader EXCEPT ![r] = m]
  BY DEF ReaderInv, FetchOwner
<1>4. /\ m \in Reader /\ m.pc = "queries" /\ m.kind = p.kind /\ m.code = p.code
      /\ m.firstErr = p.firstErr /\ m.parts = p.parts /\ m.cut = p.cut /\ m.shown = p.shown
  BY <1>1 DEF Reader, Places
<1> HIDE DEF p, m
<1>5. Sound(m)
  BY <1>1, <1>4 DEF Sound, Honest, Fresh
<1> QED
  BY <1>2, <1>3, <1>4, <1>5, ReaderMoves

LEMMA FanOutInv ==
  ASSUME Inv, Inv', ReaderInv, NEW r \in Readers, FanOut(r)
  PROVE  ReaderInv'
<1> DEFINE p == reader[r]
           n == Cardinality(Queries)
           s == inserted[code(r)]
           m == [p EXCEPT !.pc = "wait", !.open = Queries, !.wg = n, !.since = s]
<1>1. /\ p \in Reader /\ Sound(p) /\ p.pc = "queries"
      /\ code(r) = p.code /\ p.code \in Codes /\ s \in Nat /\ s \in Int /\ s = inserted[p.code]
  BY NumbersType DEF FanOut, At, code
<1>2. Reading
  BY PipelineReads DEF FanOut
<1>3. reader' = [reader EXCEPT ![r] = m]
  BY DEF ReaderInv, FanOut
<1>4. n \in Int /\ n = Cardinality(Queries)
  BY QueriesFinite, FS_CardinalityType
<1> HIDE DEF p, n, s
<1>5. /\ m \in Reader /\ m.pc = "wait" /\ m.kind = p.kind /\ m.code = p.code
      /\ m.open = Queries /\ m.wg = n /\ m.since = s /\ m.parts = p.parts
      /\ m.cut = p.cut /\ m.shown = p.shown
  BY <1>1, <1>4 DEF Reader, Places
<1> HIDE DEF m
<1>6. Fresh(p) /\ p.kind = "analytics" /\ p.parts \in [Queries -> Int]
  BY <1>1 DEF Sound, Reader
<1>7. \A q \in Queries : m.parts[q] <= inserted[m.code]
  <2>1. \A q \in Queries : p.parts[q] = 0
    BY <1>6 DEF Fresh
  <2> QED
    BY <1>1, <1>5, <2>1
<1>8. Waiting(m)
  BY <1>1, <1>4, <1>5, <1>7, QueriesFinite DEF Waiting
<1>9. Sound(m)
  BY <1>1, <1>5, <1>6, <1>8 DEF Sound, Honest
<1> QED
  BY <1>2, <1>3, <1>5, <1>9, ReaderMoves

\* One query less is open, and the WaitGroup counts one less.
LEMMA OneLess ==
  ASSUME NEW open \in SUBSET Queries, NEW q \in open
  PROVE  Cardinality(open \ {q}) = Cardinality(open) - 1
  BY QueriesFinite, FS_Subset, FS_RemoveElement

\* A query ends with n, and cut is then the set of those that lack rows.
LEMMA AnswerInv ==
  ASSUME Inv, Inv', ReaderInv, NEW r \in Readers, NEW q \in Queries, NEW n \in Int,
         NEW cut \in SUBSET Breakdowns, At(r, "wait"), q \in reader[r].open, UNCHANGED pipeline,
         n <= inserted[code(r)], reader[r].cut \subseteq cut,
         q \in cut \/ n = inserted[code(r)],
         reader' = [reader EXCEPT ![r].open = @ \ {q}, ![r].wg = @ - 1, ![r].parts[q] = n,
                                  ![r].cut = cut]
  PROVE  ReaderInv'
<1> DEFINE p == reader[r]
           open == p.open \ {q}
           wg == p.wg - 1
           parts == [p.parts EXCEPT ![q] = n]
           m == [p EXCEPT !.open = open, !.wg = wg, !.parts = parts, !.cut = cut]
<1>1. /\ p \in Reader /\ Sound(p) /\ p.pc = "wait" /\ q \in p.open
      /\ code(r) = p.code /\ p.code \in Codes /\ inserted[p.code] \in Nat
  BY NumbersType DEF At, code
<1>2. Reading
  BY PipelineReads
<1>3. reader' = [reader EXCEPT ![r] = m]
  BY <1>1 DEF ReaderInv, Reader
<1>4. p.parts \in [Queries -> Int] /\ p.open \in SUBSET Queries /\ p.wg \in Int
  BY <1>1 DEF Reader
<1>5. n <= inserted[p.code] /\ (q \in cut \/ n = inserted[p.code]) /\ p.cut \subseteq cut
  BY <1>1
<1> HIDE DEF p
<1>6. /\ open \in SUBSET Queries /\ wg \in Int /\ parts \in [Queries -> Int]
      /\ open = p.open \ {q} /\ wg = p.wg - 1
      /\ \A x \in Queries : parts[x] = IF x = q THEN n ELSE p.parts[x]
  BY <1>4
<1> HIDE DEF open, wg, parts
<1>7. /\ m \in Reader /\ m.pc = p.pc /\ m.kind = p.kind /\ m.code = p.code
      /\ m.open = open /\ m.wg = wg /\ m.since = p.since
      /\ m.parts = parts /\ m.cut = cut /\ m.firstErr = p.firstErr /\ m.shown = p.shown
  BY <1>1, <1>6 DEF Reader
<1> HIDE DEF m
<1>8. Waiting(p) /\ p.kind = "analytics"
  BY <1>1 DEF Sound
<1>9. m.wg = Cardinality(m.open)
  BY <1>1, <1>4, <1>6, <1>7, <1>8, OneLess DEF Waiting
<1>10. \A x \in Queries : m.parts[x] <= inserted[m.code]
  BY <1>5, <1>6, <1>7, <1>8 DEF Waiting
<1>11. ASSUME NEW x \in Queries
       PROVE  x \in m.open \/ x \in m.cut \/ m.firstErr = TRUE \/ m.since <= m.parts[x]
  <2>1. CASE x = q
    BY <1>5, <1>6, <1>7, <1>8, <2>1 DEF Waiting
  <2>2. CASE x # q
    BY <1>5, <1>6, <1>7, <1>8, <2>2 DEF Waiting
  <2> QED
    BY <2>1, <2>2
<1>12. Waiting(m)
  BY <1>7, <1>8, <1>9, <1>10, <1>11 DEF Waiting
<1>13. Sound(m)
  BY <1>1, <1>7, <1>8, <1>12 DEF Sound, Honest
<1> QED
  BY <1>2, <1>3, <1>7, <1>13, ReaderMoves

\* A query that has all of its rows.
LEMMA WholeAnswerInv ==
  ASSUME Inv, Inv', ReaderInv, NEW r \in Readers, NEW q \in Queries,
         Answer(r, q, inserted[code(r)])
  PROVE  ReaderInv'
<1> DEFINE cut == reader[r].cut
           n == inserted[code(r)]
<1>1. reader[r] \in Reader /\ n \in Int /\ n <= n
  BY NumbersType DEF Answer, At
<1>2. cut \in SUBSET Breakdowns
  BY <1>1 DEF Reader
<1>3. /\ At(r, "wait") /\ q \in reader[r].open /\ UNCHANGED pipeline
      /\ reader' = [reader EXCEPT ![r].open = @ \ {q}, ![r].wg = @ - 1, ![r].parts[q] = n,
                                  ![r].cut = cut]
  BY <1>1 DEF ReaderInv, Reader, Answer
<1> QED
  BY <1>1, <1>2, <1>3, AnswerInv

\* A breakdown that lacks rows.
LEMMA CutAnswerInv ==
  ASSUME Inv, Inv', ReaderInv, NEW r \in Readers, NEW q \in Breakdowns, BreakdownCut(r, q)
  PROVE  ReaderInv'
<1> DEFINE cut == reader[r].cut \cup {q}
<1>1. reader[r] \in Reader /\ inserted[code(r)] \in Nat
  BY NumbersType DEF BreakdownCut, At
<1>2. PICK n \in 0..inserted[code(r)] :
        reader' = [reader EXCEPT ![r].open = @ \ {q}, ![r].wg = @ - 1, ![r].parts[q] = n,
                                 ![r].cut = @ \cup {q}]
  BY DEF BreakdownCut
<1>3. n \in Int /\ n <= inserted[code(r)]
  BY <1>1, <1>2
<1>4. cut \in SUBSET Breakdowns /\ q \in Queries /\ reader[r].cut \subseteq cut /\ q \in cut
  BY <1>1 DEF Reader, Queries
<1>5. /\ At(r, "wait") /\ q \in reader[r].open /\ UNCHANGED pipeline
      /\ reader' = [reader EXCEPT ![r].open = @ \ {q}, ![r].wg = @ - 1, ![r].parts[q] = n,
                                  ![r].cut = cut]
  BY <1>1, <1>2 DEF ReaderInv, Reader, BreakdownCut
<1> QED
  BY <1>3, <1>4, <1>5, AnswerInv

LEMMA QueryFailsInv ==
  ASSUME Inv, Inv', ReaderInv, NEW r \in Readers, NEW q \in Queries, QueryFails(r, q)
  PROVE  ReaderInv'
<1> DEFINE p == reader[r]
           open == p.open \ {q}
           wg == p.wg - 1
           m == [p EXCEPT !.open = open, !.wg = wg, !.firstErr = TRUE]
<1>1. p \in Reader /\ Sound(p) /\ p.pc = "wait" /\ q \in p.open
  BY NumbersType DEF QueryFails, At
<1>2. Reading
  BY PipelineReads DEF QueryFails
<1>3. reader' = [reader EXCEPT ![r] = m]
  BY <1>1 DEF ReaderInv, Reader, QueryFails
<1>4. p.open \in SUBSET Queries /\ p.wg \in Int
  BY <1>1 DEF Reader
<1> HIDE DEF p
<1>5. open \in SUBSET Queries /\ wg \in Int /\ open = p.open \ {q} /\ wg = p.wg - 1
  BY <1>4
<1> HIDE DEF open, wg
<1>6. /\ m \in Reader /\ m.pc = p.pc /\ m.kind = p.kind /\ m.code = p.code
      /\ m.open = open /\ m.wg = wg /\ m.since = p.since
      /\ m.parts = p.parts /\ m.cut = p.cut /\ m.firstErr = TRUE /\ m.shown = p.shown
  BY <1>1, <1>5 DEF Reader
<1> HIDE DEF m
<1>7. Waiting(p) /\ p.kind = "analytics" /\ p.code \in Codes
  BY <1>1 DEF Sound
<1>8. m.wg = Cardinality(m.open)
  BY <1>1, <1>4, <1>5, <1>6, <1>7, OneLess DEF Waiting
<1>9. Waiting(m)
  BY <1>6, <1>7, <1>8 DEF Waiting
<1>10. Sound(m)
  BY <1>1, <1>6, <1>7, <1>9 DEF Sound, Honest
<1> QED
  BY <1>2, <1>3, <1>6, <1>10, ReaderMoves

\* wg.Wait: with no error the total is there, and it is not older than since.
LEMMA JoinInv ==
  ASSUME Inv, Inv', ReaderInv, NEW r \in Readers, Join(r)
  PROVE  ReaderInv'
<1>1. CASE Quiet(r)
  BY <1>1, QuietInv DEF Join
<1>2. CASE /\ ~reader[r].firstErr
           /\ reader' = [reader EXCEPT ![r].pc = "live", ![r].base = reader[r].parts["total"]]
  <2> DEFINE p == reader[r]
             m == [p EXCEPT !.pc = "live", !.base = p.parts["total"]]
  <2>1. p \in Reader /\ Sound(p) /\ p.pc = "wait" /\ p.wg = 0 /\ p.firstErr = FALSE
    BY <1>2, NumbersType DEF Join, At, Reader
  <2>2. Reading
    BY PipelineReads DEF Join
  <2>3. reader' = [reader EXCEPT ![r] = m]
    BY <1>2 DEF ReaderInv
  <2>4. p.parts["total"] \in Int /\ p.open \in SUBSET Queries
    BY <2>1, QueriesFinite DEF Reader
  <2>5. /\ m \in Reader /\ m.pc = "live" /\ m.kind = p.kind /\ m.code = p.code
        /\ m.open = p.open /\ m.firstErr = FALSE /\ m.since = p.since /\ m.parts = p.parts
        /\ m.cut = p.cut /\ p.cut \in SUBSET Breakdowns /\ m.base = p.parts["total"] /\ m.shown = p.shown
    BY <2>1, <2>4 DEF Reader, Places
  <2> HIDE DEF p, m
  <2>6. Waiting(p) /\ p.kind = "analytics" /\ p.code \in Codes
    BY <2>1 DEF Sound
  <2>7. p.open = {}
    <3>1. IsFiniteSet(p.open) /\ Cardinality(p.open) = 0
      BY <2>1, <2>4, <2>6, QueriesFinite, FS_Subset DEF Waiting
    <3> QED
      BY <3>1, FS_EmptySet
  <2>8. Answered(m)
    <3>1. "total" \in Queries /\ "total" \notin p.cut
      BY <2>5, QueriesFinite, QueryAssumption
    <3> QED
      BY <2>1, <2>5, <2>6, <2>7, <3>1 DEF Waiting, Answered
  <2>9. Honest(m)
    BY <2>1, <2>5, <2>6, QueriesFinite DEF Sound, Honest, Waiting
  <2>10. Sound(m)
    BY <2>5, <2>6, <2>8, <2>9 DEF Sound
  <2> QED
    BY <2>2, <2>3, <2>5, <2>10, ReaderMoves
<1> QED
  BY <1>1, <1>2 DEF Join

LEMMA ShowInv ==
  ASSUME Inv, Inv', Books, Sizes, ReaderInv, NEW r \in Readers, NEW n \in {live[code(r)], 0},
         Show(r, n), faults <= faults'
  PROVE  ReaderInv'
<1> DEFINE p == reader[r]
           pc == IF p.pc = "live" THEN "done" ELSE p.pc
           m == [p EXCEPT !.pc = pc, !.shown = p.base + n]
<1>1. /\ p \in Reader /\ Sound(p) /\ p.pc \in {"live", "stream"} /\ p.code \in Codes
      /\ live[code(r)] \in Int /\ code(r) = p.code
  BY NumbersType DEF Show, At, code
<1>2. Reading
  BY DEF Show, postgres, history, Reading
<1>3. reader' = [reader EXCEPT ![r] = m]
  BY <1>1 DEF ReaderInv, Reader, Show
<1>4. p.base + n \in Int /\ p.base \in Int /\ pc \in Places
  BY <1>1 DEF Reader, Places
<1>5. /\ m \in Reader /\ m.pc = pc /\ m.kind = p.kind /\ m.code = p.code
      /\ m.open = p.open /\ m.firstErr = p.firstErr /\ m.since = p.since /\ m.parts = p.parts
      /\ m.cut = p.cut /\ m.base = p.base /\ m.shown = p.base + n
  BY <1>1, <1>4 DEF Reader
<1> HIDE DEF p, m
<1>6. (p.pc = "live" => pc = "done") /\ (p.pc # "live" => pc = p.pc)
  OBVIOUS
<1> HIDE DEF pc
<1>7. p.base + n <= Ceiling(p.code)
  <2> DEFINE c == p.code
  <2>1. p.base <= inserted[c] \/ p.base <= clickCount[c]
    BY <1>1 DEF Sound, Honest
  <2>2. /\ inserted[c] \in Int /\ clickCount[c] \in Int /\ live[c] \in Int /\ Ceiling(c) \in Int
        /\ inserted[c] <= Ceiling(c) /\ clickCount[c] <= Ceiling(c)
        /\ inserted[c] + live[c] <= Ceiling(c) /\ clickCount[c] + live[c] <= Ceiling(c)
    BY <1>1, CountsBelowCeiling
  <2>3. n = 0 \/ n = live[c]
    BY <1>1
  <2> HIDE DEF c
  <2>4. p.base + n <= Ceiling(c)
    BY <1>4, <2>1, <2>2, <2>3
  <2> QED
    BY <2>4 DEF c
<1>8. Honest(m)
  BY <1>1, <1>5, <1>6, <1>7 DEF Sound, Honest
<1>9. Sound(m)
  BY <1>1, <1>5, <1>6, <1>8 DEF Sound, Answered
<1> QED
  BY <1>2, <1>3, <1>5, <1>9, ReaderMoves

LEMMA ServeInv ==
  ASSUME Inv, Inv', Books, Sizes, ReaderInv, NEW r \in Readers, Serve(r)
  PROVE  ReaderInv'
<1>1. CASE ListURLs(r) \/ FetchRow(r) \/ FetchOwner(r) \/ FanOut(r) \/ Join(r)
  BY <1>1, ListURLsInv, FetchRowInv, FetchOwnerInv, FanOutInv, JoinInv
<1>2. CASE CountClicks(r)
  BY <1>2, WholeAnswerInv, QueriesFinite DEF CountClicks
<1>3. CASE \E q \in Breakdowns : Breakdown(r, q) \/ BreakdownCut(r, q)
  BY <1>3, WholeAnswerInv, CutAnswerInv DEF Breakdown, Queries
<1>4. CASE ShowLive(r)
  <2>1. Show(r, live[code(r)]) /\ faults' = faults /\ faults \in Nat
    BY <1>4, SizeAssumption DEF ShowLive, Inv, TypeOK
  <2> QED
    BY <2>1, ShowInv
<1> QED
  BY <1>1, <1>2, <1>3, <1>4 DEF Serve

\* A reader changes nothing of the pipeline, but for the fault it may use up.
Apart == UNCHANGED <<redis, postgres, worker, handler, history, clicks>> /\ (Fault \/ UNCHANGED faults)

LEMMA ReaderKeepsInv == ASSUME Inv, Apart PROVE Inv'
<1>1. UNCHANGED <<queue, live, inserted, clickCount, rowLock, at, batch, todo, cancelled,
                  hpc, hcode, pushed, decremented, strayed>>
  BY DEF Apart, redis, postgres, worker, handler, history
<1>2. clicks' \in 0..MaxClicks /\ faults' \in 0..MaxFaults
  BY FaultType DEF Apart, bounds
<1> QED
  BY <1>1, <1>2 DEF Inv, TypeOK, PlaceInv

LEMMA ReaderKeepsBooks == ASSUME Inv, Books, Sizes, Apart PROVE Books' /\ Sizes'
<1>1. /\ UNCHANGED <<queue, live, inserted, clickCount, at, batch, todo, hpc, hcode,
                     pushed, decremented, strayed>>
      /\ faults \in Nat /\ faults' \in {faults, faults + 1}
  BY SizeAssumption DEF Apart, redis, postgres, worker, handler, history, Fault, Inv, TypeOK
<1>2. ASSUME NEW c \in Codes PROVE Book(c)'
  <2>1. Book(c)
    BY DEF Books
  <2>2. Owed(c)' = Owed(c) /\ InFlight(c)' = InFlight(c) /\ InTransit(c)' = InTransit(c)
    BY <1>1, WorkersStill
  <2>3. Queued(c)' = Queued(c) /\ Uncounted(c)' = Uncounted(c)
    BY <1>1 DEF Queued, Uncounted
  <2> QED
    BY <1>1, <2>1, <2>2, <2>3 DEF Book, Conserved
<1>3. BatchInv'
  BY <1>1 DEF Sizes, BatchInv
<1>4. ASSUME NEW c \in Codes PROVE strayed'[c] <= BatchSize * faults'
  <2>1. /\ strayed[c] \in Int /\ strayed[c] <= BatchSize * faults
        /\ BatchSize \in Nat /\ BatchSize * faults \in Nat
    BY <1>1, FiniteWorkers DEF Inv, TypeOK, Sizes, StrayInv
  <2>2. BatchSize * (faults + 1) = BatchSize * faults + BatchSize
    BY <1>1, <2>1
  <2> QED
    BY <1>1, <2>1, <2>2
<1> QED
  BY <1>2, <1>3, <1>4 DEF Books, Sizes, StrayInv

LEMMA PipelineKept == ASSUME UNCHANGED pipeline PROVE Apart
  BY DEF pipeline, vars, bounds, Apart

\* All that is known of the pipeline and of the readers.
LiveInv == Inv /\ Books /\ Sizes /\ ReaderInv

LEMMA LNextInv == LiveInv /\ [LNext]_lvars => LiveInv'
<1> SUFFICES ASSUME Inv, Books, Sizes, ReaderInv, [LNext]_lvars
             PROVE  Inv' /\ Books' /\ Sizes' /\ ReaderInv'
  BY DEF LiveInv
<1>1. CASE (Next /\ UNCHANGED reader) \/ UNCHANGED lvars
  <2>1. [Next]_vars /\ UNCHANGED reader
    BY <1>1 DEF lvars
  <2>2. Inv' /\ Books' /\ Sizes'
    BY <2>1, NextInv, NextBooks, NextSizes
  <2> QED
    BY <2>1, <2>2, PipelineStep
<1>2. ASSUME Apart, Inv' => ReaderInv' PROVE Inv' /\ Books' /\ Sizes' /\ ReaderInv'
  BY <1>2, ReaderKeepsInv, ReaderKeepsBooks
<1>3. ASSUME NEW r \in Readers, Serve(r) PROVE Apart /\ (Inv' => ReaderInv')
  <2>1. Apart
    <3>1. CASE ShowLive(r)
      BY <3>1 DEF ShowLive, Show, Apart
    <3>2. CASE UNCHANGED pipeline
      BY <3>2, PipelineKept
    <3> QED
      BY <1>3, <3>1, <3>2 DEF Serve, ListURLs, FetchRow, FetchOwner, FanOut, CountClicks,
         Breakdown, BreakdownCut, Answer, Join
  <2> QED
    BY <1>3, <2>1, ServeInv
<1>4. ASSUME NEW r \in Readers, ShowWithoutLive(r) PROVE Apart /\ (Inv' => ReaderInv')
  <2>1. Apart /\ faults' = faults + 1 /\ faults \in Nat
    BY <1>4, SizeAssumption DEF ShowWithoutLive, Show, Apart, Fault, Inv, TypeOK
  <2> QED
    BY <1>4, <2>1, ShowInv DEF ShowWithoutLive
<1>5. ASSUME NEW r \in Readers, Refuse(r) \/ StreamEnds(r) PROVE Apart /\ (Inv' => ReaderInv')
  <2>1. Quiet(r) /\ UNCHANGED pipeline
    BY <1>5 DEF Refuse, StreamEnds
  <2> QED
    BY <2>1, PipelineKept, QuietInv
<1>6. ASSUME NEW r \in Readers, NEW q \in Queries, QueryFails(r, q)
      PROVE  Apart /\ (Inv' => ReaderInv')
  <2>1. UNCHANGED pipeline
    BY <1>6 DEF QueryFails
  <2> QED
    BY <1>6, <2>1, PipelineKept, QueryFailsInv
<1>7. ASSUME NEW r \in Readers, NEW k \in Kinds, NEW c \in Codes, Ask(r, k, c)
      PROVE  Apart /\ (Inv' => ReaderInv')
  <2>1. UNCHANGED pipeline
    BY <1>7 DEF Ask
  <2> QED
    BY <1>7, <2>1, PipelineKept, AskInv
<1> QED
  BY <1>1, <1>2, <1>3, <1>4, <1>5, <1>6, <1>7 DEF LNext

LEMMA LInitInv == LInit => LiveInv
  BY InitInv, InitBooks, InitSizes, IdleType DEF LInit, LiveInv, ReaderInv

\* GetByCode and wg.Wait: whichever queries return an error, end early or
\* overlap with inserts, the total of an answer counts the table at a moment
\* of its own request, and so does each breakdown that has all its rows.
THEOREM AnswersAreOfTheirTime == LSpec => []AnalyticsWithinWindow
<1>1. LiveInv => AnalyticsWithinWindow
  <2> SUFFICES ASSUME Inv, ReaderInv, NEW r \in Readers,
                      kind(r) = "analytics", reader[r].pc \in {"live", "done"}
               PROVE  /\ reader[r].base \in reader[r].since..inserted[code(r)]
                      /\ \A q \in Breakdowns \ reader[r].cut :
                           reader[r].parts[q] \in reader[r].since..inserted[code(r)]
    BY DEF AnalyticsWithinWindow, LiveInv
  <2>1. Answered(reader[r]) /\ reader[r] \in Reader /\ inserted[code(r)] \in Nat
    BY NumbersType DEF ReaderInv, Sound, kind
  <2>2. /\ reader[r].since \in Int /\ reader[r].base \in Int
        /\ \A q \in Breakdowns : q \in Queries /\ reader[r].parts[q] \in Int
    BY <2>1 DEF Reader, Queries
  <2> QED
    BY <2>1, <2>2 DEF Answered, code
<1> QED
  BY <1>1, LInitInv, LNextInv, PTL DEF LSpec

\* GetAnalytics, GetLiveStats, StreamAnalytics and GetAllURLs against worker.flush:
\* a batch between its COMMIT and its DECRBY is in both numbers that are
\* added, so an answer may be a batch per worker, and per fault, too high, and
\* no more than that.
THEOREM ReportsBounded == LSpec => []NeverOverReports
<1>1. LiveInv => NeverOverReports
  <2> SUFFICES ASSUME ReaderInv, NEW r \in Readers, reader[r].shown # NoAnswer
               PROVE  reader[r].shown <= Ceiling(code(r))
    BY DEF NeverOverReports, Shown, LiveInv, Ceiling
  <2> QED
    BY DEF ReaderInv, Sound, Honest, code
<1> QED
  BY <1>1, LInitInv, LNextInv, PTL DEF LSpec

-----------------------------------------------------------------------------
(* What an answer may leave out *)

\* Only an answer with the live counter is a new number that is not a listing.
LEMMA OnlyShowLive ==
  ASSUME Inv, ReaderInv, [LNext]_lvars, NEW r \in Readers,
         reader'[r].shown \notin {NoAnswer, reader[r].shown}, kind(r) # "list", faults' = 0
  PROVE  ShowLive(r)
<1>1. reader \in [Readers -> Reader] /\ faults \in Nat
  BY SizeAssumption DEF Inv, TypeOK, ReaderInv
<1>2. reader'[r] # reader[r] /\ reader'[r].shown # NoAnswer /\ reader'[r].shown # reader[r].shown
  OBVIOUS
<1>3. ~UNCHANGED reader
  BY <1>2
<1>4. PICK o \in Readers : \/ Serve(o) \/ Refuse(o) \/ ShowWithoutLive(o) \/ StreamEnds(o)
                           \/ \E q \in Queries : QueryFails(o, q)
                           \/ \E k \in Kinds, c \in Codes : Ask(o, k, c)
  BY <1>3 DEF LNext, lvars
<1>5. ~ShowWithoutLive(o)
  BY <1>1 DEF ShowWithoutLive, Fault
<1>6. o = r
  <2>1. CASE Serve(o)
    BY <1>1, <1>2, <2>1 DEF Serve, ListURLs, FetchRow, FetchOwner, FanOut, CountClicks, Breakdown,
       BreakdownCut, Answer, Join, Quiet, ShowLive, Show
  <2>2. CASE Refuse(o) \/ StreamEnds(o) \/ \E q \in Queries : QueryFails(o, q)
    BY <1>1, <1>2, <2>2 DEF Refuse, StreamEnds, Quiet, QueryFails
  <2>3. CASE \E k \in Kinds, c \in Codes : Ask(o, k, c)
    BY <1>1, <1>2, <2>3 DEF Ask
  <2> QED
    BY <1>4, <1>5, <2>1, <2>2, <2>3
<1>7. ~Quiet(r)
  BY <1>1, <1>2 DEF Quiet, Idle
<1>8. ASSUME NEW k \in Kinds, NEW c \in Codes PROVE ~Ask(r, k, c)
  <2>1. [Idle EXCEPT !.pc = "row", !.kind = k, !.code = c].shown = NoAnswer
    BY DEF Idle
  <2> QED
    BY <1>1, <1>2, <2>1 DEF Ask
<1>9. ~ListURLs(r) /\ ~FetchRow(r) /\ ~FetchOwner(r) /\ ~FanOut(r) /\ ~Join(r)
  <2>1. ~ListURLs(r)
    BY DEF ListURLs
  <2>2. ~FetchRow(r) /\ ~FetchOwner(r)
    BY <1>1, <1>2 DEF FetchRow, FetchOwner, Reader
  <2>3. ~FanOut(r) /\ ~Join(r)
    BY <1>1, <1>2, <1>7 DEF FanOut, Join, Reader
  <2> QED
    BY <2>1, <2>2, <2>3
<1>10. ASSUME NEW q \in Queries, NEW n
       PROVE  ~Answer(r, q, n) /\ ~BreakdownCut(r, q) /\ ~QueryFails(r, q)
  <2>1. ~Answer(r, q, n)
    BY <1>1, <1>2 DEF Answer, Reader
  <2>2. ~BreakdownCut(r, q)
    <3>1. ASSUME BreakdownCut(r, q) PROVE FALSE
      <4>1. PICK k \in 0..inserted[code(r)] :
              reader' = [reader EXCEPT ![r].open = @ \ {q}, ![r].wg = @ - 1, ![r].parts[q] = k,
                                       ![r].cut = @ \cup {q}]
        BY <3>1 DEF BreakdownCut
      <4>2. reader'[r].shown = reader[r].shown
        BY <1>1, <4>1 DEF Reader
      <4> QED
        BY <1>2, <4>2
    <3> QED
      BY <3>1
  <2>3. ~QueryFails(r, q)
    BY <1>1, <1>2 DEF QueryFails, Reader
  <2> QED
    BY <2>1, <2>2, <2>3
<1> QED
  BY <1>4, <1>5, <1>6, <1>7, <1>8, <1>9, <1>10, QueriesFinite
     DEF Serve, Refuse, StreamEnds, CountClicks, Breakdown, Queries

\* GetLiveCount on top of dbClicks, while no command fails: the clicks that
\* an answer leaves out are those whose handler is between LPUSH and INCR,
\* and those a worker took off the live counter since dbClicks was read.
THEOREM MissesFlushedOnly == LSpec => MissesOnlyFlushed
<1> DEFINE Full(r) ==
      LET c == reader'[r].code
      IN reader'[r].shown \notin {NoAnswer, reader[r].shown} /\ kind(r) # "list" /\ faults' = 0
           => pushed[c] - reader'[r].shown
                <= Cardinality(Uncounted(c)) + decremented[c] - reader'[r].base
<1>1. ASSUME LiveInv, [LNext]_lvars, NEW r \in Readers PROVE Full(r)
  <2> SUFFICES ASSUME reader'[r].shown \notin {NoAnswer, reader[r].shown}, kind(r) # "list",
                      faults' = 0
               PROVE  pushed[reader'[r].code] - reader'[r].shown
                        <= Cardinality(Uncounted(reader'[r].code)) + decremented[reader'[r].code]
                             - reader'[r].base
    OBVIOUS
  <2> DEFINE c == code(r)
             base == reader[r].base
  <2>1. ShowLive(r)
    BY <1>1, OnlyShowLive DEF LiveInv
  <2>2. c \in Codes /\ base \in Int /\ reader[r] \in Reader
    BY <1>1, <2>1, NumbersType DEF ShowLive, Show, At, LiveInv, Reader
  <2>3. /\ reader'[r].code = c /\ reader'[r].base = base
        /\ reader'[r].shown = base + live[c] /\ faults = 0
    BY <1>1, <2>1, <2>2 DEF ShowLive, Show, LiveInv, ReaderInv, Reader, code
  <2>4. Numbers /\ Book(c)
    BY <1>1, <2>2, NumbersTyped DEF LiveInv, Books
  <2> HIDE DEF c, base
  <2> QED
    BY <2>2, <2>3, <2>4 DEF Numbers, Book, Conserved
<1>2. LiveInv /\ [LNext]_lvars => [\A r \in Readers : Full(r)]_lvars
  BY <1>1
<1> QED
  BY <1>2, LInitInv, LNextInv, PTL DEF LSpec, MissesOnlyFlushed

=============================================================================
