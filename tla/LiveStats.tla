----------------------------- MODULE LiveStats -----------------------------
(***************************************************************************)
(* What an owner sees while clicks are counted: the handlers GetAnalytics, *)
(* GetLiveStats, StreamAnalytics and GetAllURLs, which read click_count,   *)
(* the analytics table and the live counter one after the other while the  *)
(* workers of ClickPipeline move clicks between them.                      *)
(*                                                                         *)
(* A reader is a goroutine that serves these routes for one account.  The  *)
(* estimate of unique visitors is left out.                                *)
(***************************************************************************)
EXTENDS ClickPipeline

CONSTANTS Readers,
          Owned,         \* the links of the account
          Breakdowns,    \* the queries of analytics_repo.GetByCode but the first
          NoAnswer

ASSUME OwnedAssumption == Owned \subseteq Codes
ASSUME QueryAssumption == /\ IsFiniteSet(Breakdowns) /\ "total" \notin Breakdowns
                          /\ NoAnswer \notin Int

VARIABLE reader   \* each reader: where it is and the locals of its handler

lvars == <<vars, reader>>
pipeline == vars

Kinds == {"list", "live", "stream", "analytics"}
Queries == {"total"} \cup Breakdowns

Idle == [pc |-> "idle", kind |-> "none", code |-> NoCode,
         base |-> 0,                           \* dbClicks, or the COUNT(*) of Q1
         open |-> {}, wg |-> 0,                \* queries that run, the WaitGroup
         firstErr |-> FALSE, parts |-> [q \in Queries |-> 0],
         cut |-> {},                           \* history: breakdowns that lack rows
         since |-> 0,                          \* history: inserted before the queries
         shown |-> NoAnswer]                   \* the number of clicks in the answer

LInit == Init /\ reader = [r \in Readers |-> Idle]

At(r, label) == reader[r].pc = label
code(r) == reader[r].code
kind(r) == reader[r].kind
DbClicks(r) == clickCount[code(r)]
Quiet(r) == reader' = [reader EXCEPT ![r] = Idle]

-----------------------------------------------------------------------------
(* handlers.go: the four handlers up to the answer of PostgreSQL *)

Ask(r, k, c) ==
  /\ At(r, "idle") \/ At(r, "done")
  /\ reader' = [reader EXCEPT ![r] = [Idle EXCEPT !.pc = "row", !.kind = k, !.code = c]]
  /\ UNCHANGED pipeline

\* No such row, not the owner, or an error: 404, 403 or 500.
Refuse(r) == At(r, "row") /\ Quiet(r) /\ UNCHANGED pipeline

\* The links that the listing may have: rows.Err is not looked at, so it may
\* end early.
GetByUserID == SUBSET Owned

\* GetAllURLs, followed for the entry of one link.
ListURLs(r) ==
  /\ At(r, "row") /\ kind(r) = "list"
  /\ \E links \in GetByUserID :
       IF code(r) \in links
       THEN reader' = [reader EXCEPT ![r].pc = "done", ![r].shown = DbClicks(r)]
       ELSE Quiet(r)
  /\ UNCHANGED pipeline

\* The row of the link gives its owner and dbClicks.
FetchRow(r) ==
  /\ At(r, "row") /\ kind(r) \in {"live", "stream"} /\ code(r) \in Owned
  /\ reader' = [reader EXCEPT ![r].pc = kind(r), ![r].base = DbClicks(r)]
  /\ UNCHANGED pipeline

\* GetAnalytics: the row only gives the owner.
FetchOwner(r) ==
  /\ At(r, "row") /\ kind(r) = "analytics" /\ code(r) \in Owned
  /\ reader' = [reader EXCEPT ![r].pc = "queries"]
  /\ UNCHANGED pipeline

-----------------------------------------------------------------------------
(* analytics_repo.go: GetByCode *)

\* wg.Add and go, once for every query.
FanOut(r) ==
  /\ At(r, "queries")
  /\ reader' = [reader EXCEPT ![r].pc = "wait", ![r].open = Queries,
                  ![r].wg = Cardinality(Queries), ![r].since = inserted[code(r)]]
  /\ UNCHANGED pipeline

Answer(r, q, n) ==
  /\ At(r, "wait") /\ q \in reader[r].open
  /\ reader' = [reader EXCEPT ![r].open = @ \ {q}, ![r].wg = @ - 1, ![r].parts[q] = n]
  /\ UNCHANGED pipeline

\* Q1: COUNT(*).
CountClicks(r) == Answer(r, "total", inserted[code(r)])

\* A breakdown with all of its rows adds up to the table.
Breakdown(r, q) == Answer(r, q, inserted[code(r)])

\* LIMIT 5, the seven days, a row that does not scan, or a query that fails
\* after its first row, for nobody looks at rows.Err: a success that lacks
\* rows, and the caller cannot tell.
BreakdownCut(r, q) ==
  /\ At(r, "wait") /\ q \in reader[r].open
  /\ \E n \in 0..inserted[code(r)] :
       reader' = [reader EXCEPT ![r].open = @ \ {q}, ![r].wg = @ - 1, ![r].parts[q] = n,
                                ![r].cut = @ \cup {q}]
  /\ UNCHANGED pipeline

\* Mutant: the error path returns before wg.Done is deferred.
QueryFailsNotDone(r, q) ==
  /\ At(r, "wait") /\ q \in reader[r].open
  /\ reader' = [reader EXCEPT ![r].open = @ \ {q}, ![r].firstErr = TRUE]
  /\ UNCHANGED pipeline

\* setErr: the query, or the scan of the COUNT(*), returns an error.
QueryFails(r, q) ==
  /\ At(r, "wait") /\ q \in reader[r].open
  /\ reader' = [reader EXCEPT ![r].open = @ \ {q}, ![r].wg = @ - 1, ![r].firstErr = TRUE]
  /\ UNCHANGED pipeline

\* Mutant: the first error is not looked at.
JoinAnyway(r) ==
  /\ At(r, "wait") /\ reader[r].wg = 0
  /\ reader' = [reader EXCEPT ![r].pc = "live", ![r].base = reader[r].parts["total"]]
  /\ UNCHANGED pipeline

\* wg.Wait, then the error or the answer.
Join(r) ==
  /\ At(r, "wait") /\ reader[r].wg = 0
  /\ IF reader[r].firstErr
     THEN Quiet(r)
     ELSE reader' = [reader EXCEPT ![r].pc = "live", ![r].base = reader[r].parts["total"]]
  /\ UNCHANGED pipeline

-----------------------------------------------------------------------------
(* analytics_service.go: GetLiveCount, added to what PostgreSQL said.  The *)
(* stream does it every second, with the dbClicks of its first second.     *)

Show(r, n) ==
  /\ At(r, "live") \/ At(r, "stream")
  /\ reader' = [reader EXCEPT ![r].pc = IF @ = "live" THEN "done" ELSE @,
                              ![r].shown = reader[r].base + n]
  /\ UNCHANGED <<redis, postgres, worker, handler, history, clicks>>

\* Mutant: the number on the screen becomes the next dbClicks.
ShowLiveSummed(r) ==
  /\ At(r, "live") \/ At(r, "stream")
  /\ reader' = [reader EXCEPT ![r].base = @ + live[code(r)],
                              ![r].shown = reader[r].base + live[code(r)]]
  /\ UNCHANGED pipeline

\* Mutant: the live counter is added to the stream only.
ShowLiveOfStream(r) ==
  Show(r, IF At(r, "stream") THEN live[code(r)] ELSE 0) /\ UNCHANGED faults

ShowLive(r) == Show(r, live[code(r)]) /\ UNCHANGED faults

\* An error of Redis reads as 0.
ShowWithoutLive(r) == Show(r, 0) /\ Fault

\* The client goes, or the server's WriteTimeout ends the connection.
StreamEnds(r) == At(r, "stream") /\ Quiet(r) /\ UNCHANGED pipeline

Serve(r) == \/ ListURLs(r) \/ FetchRow(r) \/ FetchOwner(r) \/ FanOut(r)
            \/ CountClicks(r) \/ \E q \in Breakdowns : Breakdown(r, q) \/ BreakdownCut(r, q)
            \/ Join(r) \/ ShowLive(r)

LNext == \/ Next /\ UNCHANGED reader
         \/ \E r \in Readers : \/ Serve(r)
                               \/ Refuse(r) \/ ShowWithoutLive(r) \/ StreamEnds(r)
                               \/ \E q \in Queries : QueryFails(r, q)
                               \/ \E k \in Kinds, c \in Codes : Ask(r, k, c)

\* PostgreSQL and Redis answer.
LSpec == LInit /\ [][LNext]_lvars /\ \A r \in Readers : WF_lvars(Serve(r))

-----------------------------------------------------------------------------
(* Properties *)

Shown(r) == reader[r].shown # NoAnswer

\* A reader adds two numbers of different moments, and a batch between its
\* COMMIT and its DECRBY is in both.  Whatever the order, the answer is never
\* more than one batch per worker, and per fault, above the clicks there were.
NeverOverReports == \A r \in Readers : Shown(r) =>
  reader[r].shown <= pushed[code(r)] + BatchSize * (Cardinality(Workers) + faults)

\* A number that is sent, when no command has failed, leaves out only clicks
\* whose handler has not counted them yet, and clicks that a worker has taken
\* off the live counter but that were not in the database when it was read: a
\* stream keeps its first dbClicks, so it falls behind with every flush.
MissesOnlyFlushed == [][\A r \in Readers :
  LET c == reader'[r].code
  IN reader'[r].shown \notin {NoAnswer, reader[r].shown} /\ kind(r) # "list" /\ faults' = 0
       => pushed[c] - reader'[r].shown
            <= Cardinality(Uncounted(c)) + decremented[c] - reader'[r].base]_lvars

\* The numbers of one analytics answer come from concurrent queries, and any
\* of them may fail.  The total, and each breakdown that has all of its rows,
\* counts the table at a moment of this request: none is missing, older than
\* the request or ahead of the table.
AnalyticsWithinWindow == \A r \in Readers :
  kind(r) = "analytics" /\ reader[r].pc \in {"live", "done"} =>
    /\ reader[r].base \in reader[r].since..inserted[code(r)]
    /\ \A q \in Breakdowns \ reader[r].cut :
         reader[r].parts[q] \in reader[r].since..inserted[code(r)]

\* GetByCode returns whichever of its queries fail.
AnalyticsReturns == \A r \in Readers : At(r, "wait") ~> (At(r, "done") \/ At(r, "idle"))
=============================================================================
