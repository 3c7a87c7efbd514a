----------------------------- MODULE Lifecycle -----------------------------
(***************************************************************************)
(* cmd/api/main.go from the first line to the last: start-up with the      *)
(* retries of database.NewDB and the migrations, serving, and the shutdown *)
(* on SIGTERM with its two deadlines, for several instances that share one *)
(* database and are restarted by Compose.                                  *)
(*                                                                         *)
(* Time passes for each instance by itself, in Tick: what takes time has   *)
(* the seconds it may still take, and Tick waits for what is due.  Of      *)
(* golang-migrate there is what RunMigrations needs: the advisory lock,    *)
(* the version, which is marked dirty around each file, and the file.      *)
(***************************************************************************)
EXTENDS Schema, FiniteSets

CONSTANTS Instances,
          Attempts,         \* 10 attempts to reach PostgreSQL
          ShutdownTimeout,  \* 10 s
          DrainTime,        \* 3 s
          WriteTimeout,     \* 30 s
          PopTime,          \* BRPOP blocks for up to 1 s
          FlushTime,        \* the longest a flush takes
          BatchSize,
          MaxQueue,         \* bound: events on the list
          MaxStops,         \* bound: SIGTERMs
          MaxFaults,        \* bound: crashes and failures
          Free              \* nobody has the advisory lock

ASSUME CountAssumption == /\ Attempts \in Nat \ {0} /\ BatchSize \in Nat \ {0}
                          /\ MaxQueue \in Nat /\ MaxStops \in Nat /\ MaxFaults \in Nat
ASSUME TimeAssumption == /\ ShutdownTimeout \in Nat /\ DrainTime \in Nat
                         /\ WriteTimeout \in Nat /\ PopTime \in Nat /\ FlushTime \in Nat
\* The database has no timeout of its own: that a flush is over in time is an
\* assumption about PostgreSQL, and main relies on it.
ASSUME DrainAssumption == PopTime + FlushTime < DrainTime
ASSUME ValueAssumption == Free \notin Instances

VARIABLES proc,            \* each instance: see Off
          version, dirty,  \* schema_migrations
          lock,            \* pg_advisory_lock
          catalog,         \* tables and indexes
          queue,           \* length of queue:analytics
          ran,             \* history: how often each file was executed
          stops, faults

schema == <<version, dirty, catalog, ran>>
vars == <<proc, schema, lock, queue, stops, faults>>

Off == [phase |-> "down", exit |-> "none",
        stopped |-> FALSE,                 \* docker stop, and not started since
        attempt |-> 0,                     \* failed attempts of NewDB
        next |-> 0,                        \* the next file of m.Up
        worker |-> "off", due |-> 0,       \* the worker, and how long its call may take
        batch |-> 0,
        redirect |-> FALSE,                \* a redirect is served
        stream |-> FALSE, left |-> 0,      \* an SSE connection, and its time left
        clock |-> 0]                       \* since Shutdown or workerCancel was called

Init == /\ proc = [i \in Instances |-> Off]
        /\ version = 0 /\ dirty = FALSE /\ catalog = EmptyCatalog
        /\ lock = Free /\ queue = 0
        /\ ran = [v \in 1..Latest |-> 0]
        /\ stops = 0 /\ faults = 0

At(i, label) == proc[i].phase = label
Goto(i, label) == proc' = [proc EXCEPT ![i].phase = label]
Fault == faults < MaxFaults /\ faults' = faults + 1

\* The process ends: a session's advisory lock ends with it.
End(i, code, stopped) ==
  /\ proc' = [proc EXCEPT ![i] = [Off EXCEPT !.exit = code, !.stopped = stopped]]
  /\ lock' = IF lock = i THEN Free ELSE lock

Exit(i, code) == End(i, code, proc[i].stopped)

-----------------------------------------------------------------------------
(* main.go: start-up *)

StartProcess(i) ==
  /\ proc' = [proc EXCEPT ![i] = [Off EXCEPT !.phase = "redis"]]
  /\ UNCHANGED <<schema, lock, queue, stops, faults>>

\* docker-compose.yml, restart: unless-stopped: Docker starts a container
\* whose process has ended, but not one that was stopped.
Start(i) == At(i, "down") /\ ~proc[i].stopped /\ StartProcess(i)

\* Somebody starts a stopped container, or nobody does.
StartStopped(i) == At(i, "down") /\ proc[i].stopped /\ StartProcess(i)

\* redis.NewClient: one PING.
ConnectRedis(i) ==
  /\ At(i, "redis") /\ Goto(i, "database")
  /\ UNCHANGED <<schema, lock, queue, stops, faults>>

\* database.NewDB: up to ten pings.
ConnectDB(i) ==
  /\ At(i, "database") /\ Goto(i, "migrate")
  /\ UNCHANGED <<schema, lock, queue, stops, faults>>

PingFails(i) ==
  /\ At(i, "database") /\ Fault
  /\ IF proc[i].attempt + 1 = Attempts
     THEN Exit(i, "1")
     ELSE proc' = [proc EXCEPT ![i].attempt = @ + 1] /\ UNCHANGED lock
  /\ UNCHANGED <<schema, queue, stops>>

\* The PING of Redis, WithInstance, the lock (after 15 s), Firebase, or
\* ListenAndServe fails: os.Exit(1).
BootFails(i) ==
  /\ proc[i].phase \in {"redis", "migrate", "firebase", "serving"} /\ Fault
  /\ Exit(i, "1")
  /\ UNCHANGED <<schema, queue, stops>>

\* Mutant: the advisory lock is not taken.
LockNot(i) ==
  /\ At(i, "migrate") /\ Goto(i, "version")
  /\ UNCHANGED <<schema, lock, queue, stops, faults>>

\* m.Up: the advisory lock.
Lock(i) ==
  /\ At(i, "migrate") /\ lock = Free
  /\ lock' = i
  /\ Goto(i, "version")
  /\ UNCHANGED <<schema, queue, stops, faults>>

\* The version is read once; a dirty one is an error: os.Exit(1).
ReadVersion(i) ==
  /\ At(i, "version")
  /\ IF dirty
     THEN Exit(i, "1")
     ELSE proc' = [proc EXCEPT ![i].phase = "files", ![i].next = version + 1] /\ UNCHANGED lock
  /\ UNCHANGED <<schema, queue, stops, faults>>

\* Mutant: the last file is not looked at.
AllAppliedEarly(i) ==
  /\ At(i, "files") /\ proc[i].next >= Latest
  /\ lock' = Free
  /\ proc' = [proc EXCEPT ![i].phase = "firebase", ![i].next = 0]
  /\ UNCHANGED <<schema, queue, stops, faults>>

\* Mutant: the advisory lock is kept while the instance serves.
AllAppliedKeepsLock(i) ==
  /\ At(i, "files") /\ proc[i].next > Latest
  /\ proc' = [proc EXCEPT ![i].phase = "firebase", ![i].next = 0]
  /\ UNCHANGED <<schema, lock, queue, stops, faults>>

\* nil or ErrNoChange.
AllApplied(i) ==
  /\ At(i, "files") /\ proc[i].next > Latest
  /\ lock' = Free
  /\ proc' = [proc EXCEPT ![i].phase = "firebase", ![i].next = 0]
  /\ UNCHANGED <<schema, queue, stops, faults>>

\* The next version is marked dirty, its file is executed, the mark is taken
\* away: three transactions.
MarkDirty(i) ==
  /\ At(i, "files") /\ proc[i].next <= Latest
  /\ version' = proc[i].next /\ dirty' = TRUE
  /\ Goto(i, "file")
  /\ UNCHANGED <<catalog, ran, lock, queue, stops, faults>>

RunFile(i) ==
  /\ At(i, "file")
  /\ catalog' = Migrated(proc[i].next, catalog)
  /\ ran' = [ran EXCEPT ![proc[i].next] = @ + 1]
  /\ Goto(i, "mark")
  /\ UNCHANGED <<version, dirty, lock, queue, stops, faults>>

MarkClean(i) ==
  /\ At(i, "mark")
  /\ dirty' = FALSE
  /\ proc' = [proc EXCEPT ![i].phase = "files", ![i].next = @ + 1]
  /\ UNCHANGED <<version, catalog, ran, lock, queue, stops, faults>>

\* A statement of the file or of the mark fails: os.Exit(1), and the version
\* stays dirty.
MigrationFails(i) ==
  /\ proc[i].phase \in {"version", "files", "file", "mark"} /\ Fault
  /\ Exit(i, "1")
  /\ UNCHANGED <<schema, queue, stops>>

\* Firebase, the worker's goroutine, ListenAndServe.
Serve(i) ==
  /\ At(i, "firebase")
  /\ proc' = [proc EXCEPT ![i].phase = "serving", ![i].worker = "loop"]
  /\ UNCHANGED <<schema, lock, queue, stops, faults>>

-----------------------------------------------------------------------------
(* While the server runs: handlers and the worker's loop *)

Open(i) == proc[i].phase \in {"serving", "draining"}
Cancelled(i) == At(i, "cancelled")
Quiet == UNCHANGED <<schema, lock, stops, faults>>

Redirect(i) ==
  /\ At(i, "serving") /\ ~proc[i].redirect
  /\ proc' = [proc EXCEPT ![i].redirect = TRUE]
  /\ UNCHANGED queue /\ Quiet

\* The click is queued before the answer is sent.
Redirected(i) ==
  /\ proc[i].redirect
  /\ queue' \in {queue, queue + 1} \cap 0..MaxQueue
  /\ proc' = [proc EXCEPT ![i].redirect = FALSE]
  /\ Quiet

OpenStream(i) ==
  /\ At(i, "serving") /\ ~proc[i].stream
  /\ proc' = [proc EXCEPT ![i].stream = TRUE, ![i].left = WriteTimeout]
  /\ UNCHANGED queue /\ Quiet

CloseStream(i) ==
  /\ proc[i].stream
  /\ proc' = [proc EXCEPT ![i].stream = FALSE, ![i].left = 0]
  /\ UNCHANGED queue /\ Quiet

\* The first write after the WriteTimeout fails and cancels the context.
CutStream(i) == proc[i].left = 0 /\ CloseStream(i)

\* The client closes the connection.
LeaveStream(i) == proc[i].left > 0 /\ CloseStream(i)

Work(i, label, seconds, n) ==
  /\ proc' = [proc EXCEPT ![i].worker = label, ![i].due = seconds, ![i].batch = n]
  /\ Quiet

Brpop(i) ==
  /\ proc[i].worker = "loop" /\ ~Cancelled(i)
  /\ Work(i, "pop", PopTime, proc[i].batch) /\ UNCHANGED queue

\* Mutant: the batch is flushed one event too late.
PoppedPastBatch(i) ==
  /\ proc[i].worker = "pop" /\ queue > 0
  /\ queue' = queue - 1
  /\ IF proc[i].batch + 1 > BatchSize
     THEN Work(i, "flush", FlushTime, proc[i].batch + 1)
     ELSE Work(i, "loop", 0, proc[i].batch + 1)

Popped(i) ==
  /\ proc[i].worker = "pop" /\ queue > 0
  /\ queue' = queue - 1
  /\ IF proc[i].batch + 1 >= BatchSize
     THEN Work(i, "flush", FlushTime, proc[i].batch + 1)
     ELSE Work(i, "loop", 0, proc[i].batch + 1)

\* Nothing came, or an error.
NotPopped(i) ==
  /\ proc[i].worker = "pop"
  /\ Work(i, "loop", 0, proc[i].batch) /\ UNCHANGED queue

TickerFlush(i) ==
  /\ proc[i].worker = "loop" /\ proc[i].batch > 0
  /\ Work(i, "flush", FlushTime, proc[i].batch) /\ UNCHANGED queue

Flushed(i) ==
  /\ proc[i].worker = "flush"
  /\ Work(i, "loop", 0, 0) /\ UNCHANGED queue

\* Mutant: return without the last flush.
CtxDoneReturns(i) ==
  /\ proc[i].worker = "loop" /\ Cancelled(i)
  /\ Work(i, "stopped", 0, proc[i].batch) /\ UNCHANGED queue

\* ctx.Done: the last flush, then return.
CtxDone(i) ==
  /\ proc[i].worker = "loop" /\ Cancelled(i)
  /\ IF proc[i].batch > 0
     THEN Work(i, "final", FlushTime, proc[i].batch)
     ELSE Work(i, "stopped", 0, 0)
  /\ UNCHANGED queue

LastFlushed(i) ==
  /\ proc[i].worker = "final"
  /\ Work(i, "stopped", 0, 0) /\ UNCHANGED queue

-----------------------------------------------------------------------------
(* main.go: shutdown *)

Stop == stops < MaxStops /\ stops' = stops + 1

\* docker stop: SIGTERM; Shutdown closes the listener and waits for the
\* handlers.  It does not cancel the context of a stream.
Terminate(i) ==
  /\ At(i, "serving") /\ Stop
  /\ proc' = [proc EXCEPT ![i].phase = "draining", ![i].clock = 0, ![i].stopped = TRUE]
  /\ UNCHANGED <<schema, lock, queue, faults>>

\* docker stop before signal.Notify: SIGTERM ends the process at once.
TerminateEarly(i) ==
  /\ proc[i].phase \notin {"down", "serving", "draining", "cancelled"} /\ Stop
  /\ End(i, "1", TRUE)
  /\ UNCHANGED <<schema, queue, faults>>

Busy(i) == proc[i].redirect \/ proc[i].stream

\* Mutant: the worker is cancelled while handlers run.
ShutdownReturnsAtOnce(i) ==
  /\ At(i, "draining")
  /\ proc' = [proc EXCEPT ![i].phase = "cancelled", ![i].clock = 0]
  /\ UNCHANGED queue /\ Quiet

\* Shutdown returns nil: workerCancel and the sleep of three seconds.
ShutdownReturns(i) ==
  /\ At(i, "draining") /\ ~Busy(i)
  /\ proc' = [proc EXCEPT ![i].phase = "cancelled", ![i].clock = 0]
  /\ UNCHANGED queue /\ Quiet

\* Mutant: the error is logged and main waits on.
ShutdownRetried(i) ==
  /\ At(i, "draining") /\ proc[i].clock = ShutdownTimeout
  /\ proc' = [proc EXCEPT ![i].clock = 0]
  /\ UNCHANGED <<schema, lock, queue, stops, faults>>

\* Handlers are still running after ten seconds: os.Exit(1), without
\* workerCancel.
ShutdownTimesOut(i) ==
  /\ At(i, "draining") /\ Busy(i) /\ proc[i].clock = ShutdownTimeout
  /\ Exit(i, "1")
  /\ UNCHANGED <<schema, queue, stops, faults>>

\* main returns.
Return(i) ==
  /\ Cancelled(i) /\ proc[i].clock = DrainTime
  /\ Exit(i, "0")
  /\ UNCHANGED <<schema, queue, stops, faults>>

\* A panic, or SIGKILL: docker stop sends it ten seconds after SIGTERM.
Crash(i) ==
  /\ ~At(i, "down") /\ Fault
  /\ Exit(i, "1")
  /\ UNCHANGED <<schema, queue, stops>>

Deadline(i) == IF At(i, "draining") THEN ShutdownTimeout ELSE DrainTime

\* One second: not while something is due at once.
Tick(i) ==
  LET p == proc[i]
  IN /\ Open(i) \/ Cancelled(i)
     /\ ~At(i, "serving") => p.clock < Deadline(i)
     /\ p.worker \in {"pop", "flush", "final"} => p.due > 0
     /\ p.worker = "loop" => ~Cancelled(i)
     /\ p.stream => p.left > 0
     /\ proc' = [proc EXCEPT ![i].clock = IF At(i, "serving") THEN 0 ELSE @ + 1,
                             ![i].due = IF @ > 0 THEN @ - 1 ELSE 0,
                             ![i].left = IF @ > 0 THEN @ - 1 ELSE 0]
     /\ UNCHANGED queue /\ Quiet

Boot(i) == \/ Start(i) \/ ConnectRedis(i) \/ ConnectDB(i) \/ Lock(i)
           \/ ReadVersion(i) \/ AllApplied(i) \/ MarkDirty(i) \/ RunFile(i) \/ MarkClean(i)
           \/ Serve(i)

Worker(i) == \/ Brpop(i) \/ Popped(i) \/ NotPopped(i) \/ TickerFlush(i) \/ Flushed(i)
             \/ CtxDone(i) \/ LastFlushed(i)

Shutdown(i) == ShutdownReturns(i) \/ ShutdownTimesOut(i) \/ Return(i)

Next == \E i \in Instances :
          \/ Boot(i) \/ PingFails(i) \/ BootFails(i) \/ MigrationFails(i)
          \/ Redirect(i) \/ Redirected(i) \/ OpenStream(i) \/ CutStream(i) \/ LeaveStream(i)
          \/ Worker(i) \/ StartStopped(i) \/ Terminate(i) \/ TerminateEarly(i)
          \/ Shutdown(i) \/ Crash(i) \/ Tick(i)

\* Docker restarts what was not stopped, main and its handlers run, the worker
\* runs, time passes.
Spec == Init /\ [][Next]_vars
        /\ \A i \in Instances : /\ WF_vars(Boot(i) \/ Shutdown(i) \/ CutStream(i))
                                /\ WF_vars(Worker(i)) /\ WF_vars(Tick(i))

-----------------------------------------------------------------------------
(* Properties *)

Phases == {"down", "redis", "database", "migrate", "version", "files", "file", "mark",
           "firebase", "serving", "draining", "cancelled"}
Process == [phase : Phases, exit : {"none", "0", "1"}, stopped : BOOLEAN,
            attempt : 0..(Attempts - 1), next : 0..(Latest + 1),
            worker : {"off", "loop", "pop", "flush", "final", "stopped"},
            due : Nat, batch : 0..BatchSize,
            redirect : BOOLEAN, stream : BOOLEAN, left : Nat, clock : Nat]

\* Type invariant of the processes and of what they share; of the catalog only
\* RecordsFit speaks.
TypeOK ==
  /\ proc \in [Instances -> Process]
  /\ version \in 0..Latest /\ dirty \in BOOLEAN /\ ran \in [1..Latest -> Nat]
  /\ lock \in Instances \cup {Free} /\ queue \in 0..MaxQueue
  /\ stops \in 0..MaxStops /\ faults \in 0..MaxFaults

\* A file is executed once, however many instances start at the same time
\* and wherever one of them dies: 000004 would fail, or lose the clicks, if it
\* ran again.
RunsOnce == \A v \in 1..Latest : ran[v] <= 1

\* An instance that takes requests has all migrations behind it, and nobody
\* is changing the schema under it.
ServesOnLatestSchema == \A i \in Instances : At(i, "serving") \/ At(i, "draining") =>
  version = Latest /\ ~dirty /\ \A v \in 1..Latest : ran[v] = 1

\* main.go:119, "so in-flight requests finish queuing analytics events before
\* the worker stops consuming them".
NoClickAfterCancel == \A i \in Instances : Cancelled(i) => ~proc[i].redirect

\* main.go:267: what the worker had popped when it was cancelled, in whatever
\* state of its loop, is flushed before the process returns from main.
CleanExitLosesNothing == [][\A i \in Instances :
  Cancelled(i) /\ proc'[i].exit = "0" => proc[i].batch = 0]_vars

\* SIGTERM ends the process, with open streams and a slow worker too.
ShutdownEnds == \A i \in Instances : At(i, "draining") ~> At(i, "down")

\* Wherever a process dies, the advisory lock in hand included, its instance
\* and the other one come back, unless it died in the middle of a migration:
\* then all of them exit at every start until somebody repairs the version.
\* An instance that was stopped is not brought back.
ServesUnlessDirty == \A i \in Instances :
  []<>(At(i, "serving") \/ dirty \/ proc[i].stopped)

\* 000003, "Add device column to analytics table": an instance that serves
\* finds the columns that it writes.
RecordsFit == \A i \in Instances : At(i, "serving") =>
  RecordColumns \subseteq catalog.tables["analytics"]
=============================================================================
