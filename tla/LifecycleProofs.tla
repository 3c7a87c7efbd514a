-------------------------- MODULE LifecycleProofs --------------------------
(***************************************************************************)
(* What Lifecycle promises for any number of instances, any deadlines and  *)
(* any batch size.                                                         *)
(***************************************************************************)
EXTENDS Lifecycle, TLAPS

Migrating == {"version", "files", "file", "mark"}
Running == {"serving", "draining", "cancelled"}

\* One process.  Once it is cancelled, the clock and the call that its worker
\* waits for stay within the time of one BRPOP and one flush.
Sound(p) ==
  /\ p.phase # "down" => p.exit = "none"
  /\ p.phase \notin Running => p.worker = "off" /\ p.batch = 0 /\ p.redirect = FALSE
  /\ p.phase \in {"serving", "draining"} => p.worker \in {"loop", "pop", "flush"}
  /\ p.phase = "cancelled" => p.worker # "off" /\ p.redirect = FALSE
  /\ p.worker \in {"loop", "pop"} => p.batch < BatchSize
  /\ p.worker = "pop" => p.due <= PopTime
  /\ p.worker \in {"flush", "final"} => p.due <= FlushTime
  /\ p.worker = "stopped" => p.batch = 0
  /\ p.phase = "cancelled" =>
       /\ p.worker = "pop" => p.clock + p.due <= PopTime
       /\ p.worker = "loop" => \/ p.clock <= PopTime
                               \/ p.batch = 0 /\ p.clock <= PopTime + FlushTime
       /\ p.worker \in {"flush", "final"} => p.clock + p.due <= PopTime + FlushTime

SoundInv == \A i \in Instances : Sound(proc[i])

\* The migrations: whoever is at them has the lock, and how far the files are.
MigrationInv ==
  /\ \A i \in Instances :
       /\ proc[i].phase \in Migrating => lock = i
       /\ proc[i].phase = "files" => ~dirty /\ proc[i].next = version + 1
       /\ proc[i].phase \in {"file", "mark"} => dirty /\ proc[i].next = version /\ version >= 1
       /\ proc[i].phase = "file" => ran[version] = 0
       /\ proc[i].phase = "mark" => ran[version] = 1
       /\ proc[i].phase \in Running \cup {"firebase"} => version = Latest /\ ~dirty
  /\ \A v \in 1..Latest : /\ v < version => ran[v] = 1
                          /\ v > version => ran[v] = 0
                          /\ v = version => ran[v] <= 1 /\ (~dirty => ran[v] = 1)

\* A step of one process.
LEMMA ProcessStep ==
  ASSUME TypeOK, SoundInv, NEW i \in Instances, NEW q \in Process, Sound(q),
         proc' = [proc EXCEPT ![i] = q]
  PROVE  /\ proc' \in [Instances -> Process] /\ SoundInv'
         /\ proc'[i] = q /\ \A j \in Instances \ {i} : proc'[j] = proc[j]
<1>1. proc' \in [Instances -> Process] /\ proc'[i] = q
      /\ \A j \in Instances \ {i} : proc'[j] = proc[j]
  BY DEF TypeOK
<1> QED
  BY <1>1 DEF SoundInv

LEMMA ProcessFields ==
  ASSUME NEW p \in Process
  PROVE  /\ p.due \in Nat /\ p.clock \in Nat /\ p.left \in Nat /\ p.batch \in Nat
         /\ p.worker \in {"off", "loop", "pop", "flush", "final", "stopped"}
         /\ p.phase \in Phases
<1>1. p.batch \in 0..BatchSize
  BY DEF Process
<1>2. p.batch \in Nat
  BY <1>1, CountAssumption
<1> QED
  BY <1>2 DEF Process

-----------------------------------------------------------------------------
(* What a step makes of the record of its process *)

LEMMA OffSound ==
  ASSUME NEW code \in {"0", "1"}, NEW b \in BOOLEAN
  PROVE  /\ [Off EXCEPT !.exit = code, !.stopped = b] \in Process
         /\ Sound([Off EXCEPT !.exit = code, !.stopped = b])
         /\ [Off EXCEPT !.phase = "redis"] \in Process /\ Sound([Off EXCEPT !.phase = "redis"])
         /\ Off \in Process /\ Sound(Off)
<1>1. 0 \in 0..(Attempts - 1) /\ 0 \in 0..BatchSize /\ 0 \in 0..(Latest + 1)
  BY CountAssumption DEF Latest
<1>2. Off \in Process
  BY <1>1 DEF Off, Process, Phases
<1>3. [Off EXCEPT !.exit = code, !.stopped = b] \in Process /\ [Off EXCEPT !.phase = "redis"] \in Process
  BY <1>2 DEF Process, Phases
<1> QED
  BY <1>2, <1>3 DEF Off, Sound, Running

\* The start-up moves on, to the file n.
LEMMA BootSound ==
  ASSUME NEW p \in Process, Sound(p), p.phase \notin Running \cup {"down"},
         NEW l \in Phases \ (Running \cup {"down"}), NEW n \in 0..(Latest + 1)
  PROVE  /\ [p EXCEPT !.phase = l] \in Process /\ Sound([p EXCEPT !.phase = l])
         /\ [p EXCEPT !.phase = l, !.next = n] \in Process
         /\ Sound([p EXCEPT !.phase = l, !.next = n])
<1>1. [p EXCEPT !.phase = l] \in Process /\ Sound([p EXCEPT !.phase = l])
  BY DEF Process, Sound, Running
<1>2. [p EXCEPT !.phase = l, !.next = n] \in Process
  BY DEF Process
<1>3. Sound([p EXCEPT !.phase = l, !.next = n])
  BY DEF Process, Sound, Running
<1> QED
  BY <1>1, <1>2, <1>3

LEMMA AttemptSound ==
  ASSUME NEW p \in Process, Sound(p), NEW n \in 0..(Attempts - 1)
  PROVE  [p EXCEPT !.attempt = n] \in Process /\ Sound([p EXCEPT !.attempt = n])
  BY DEF Process, Sound, Running

LEMMA ServeSound ==
  ASSUME NEW p \in Process, Sound(p), p.phase \notin Running \cup {"down"}
  PROVE  /\ [p EXCEPT !.phase = "serving", !.worker = "loop"] \in Process
         /\ Sound([p EXCEPT !.phase = "serving", !.worker = "loop"])
<1>1. [p EXCEPT !.phase = "serving", !.worker = "loop"] \in Process
  BY DEF Process, Phases
<1>2. p.batch = 0 /\ 0 < BatchSize
  BY CountAssumption DEF Sound
<1> QED
  BY <1>1, <1>2 DEF Process, Sound, Running

LEMMA HandlerSound ==
  ASSUME NEW p \in Process, Sound(p), NEW b \in BOOLEAN, NEW n \in Nat,
         b => p.phase = "serving"
  PROVE  /\ [p EXCEPT !.redirect = b] \in Process /\ Sound([p EXCEPT !.redirect = b])
         /\ [p EXCEPT !.stream = b, !.left = n] \in Process
         /\ Sound([p EXCEPT !.stream = b, !.left = n])
<1>1. [p EXCEPT !.redirect = b] \in Process /\ Sound([p EXCEPT !.redirect = b])
  BY DEF Process, Sound, Running
<1>2. [p EXCEPT !.stream = b, !.left = n] \in Process
  BY DEF Process
<1>3. Sound([p EXCEPT !.stream = b, !.left = n])
  BY DEF Process, Sound, Running
<1> QED
  BY <1>1, <1>2, <1>3

\* The worker goes on with call w, which may take d, and n events in its batch.
LEMMA WorkSound ==
  ASSUME NEW p \in Process, Sound(p), p.phase \in Running,
         NEW w \in {"loop", "pop", "flush", "final", "stopped"},
         NEW d \in Nat, NEW n \in 0..BatchSize,
         w \in {"loop", "pop"} => n < BatchSize,
         w = "pop" => d <= PopTime /\ p.phase # "cancelled",
         w \in {"flush", "final"} => d <= FlushTime,
         w = "stopped" => n = 0,
         w \in {"final", "stopped"} => p.phase = "cancelled",
         p.phase = "cancelled" =>
           /\ w = "loop" => \/ p.clock <= PopTime
                            \/ n = 0 /\ p.clock <= PopTime + FlushTime
           /\ w \in {"flush", "final"} => p.clock <= PopTime
  PROVE  /\ [p EXCEPT !.worker = w, !.due = d, !.batch = n] \in Process
         /\ Sound([p EXCEPT !.worker = w, !.due = d, !.batch = n])
<1>1. [p EXCEPT !.worker = w, !.due = d, !.batch = n] \in Process
  BY DEF Process
<1>2. p.clock \in Nat
  BY DEF Process
<1>3. p.clock <= PopTime /\ d <= FlushTime => p.clock + d <= PopTime + FlushTime
  BY <1>2, TimeAssumption
<1> QED
  BY <1>1, <1>3 DEF Process, Sound, Running

\* SIGTERM, or Shutdown returns and the worker is cancelled.
LEMMA StopSound ==
  ASSUME NEW p \in Process, Sound(p), p.phase \in {"serving", "draining"}
  PROVE  /\ [p EXCEPT !.phase = "draining", !.clock = 0, !.stopped = TRUE] \in Process
         /\ Sound([p EXCEPT !.phase = "draining", !.clock = 0, !.stopped = TRUE])
         /\ [p EXCEPT !.phase = "cancelled", !.clock = 0] \in Process
         /\ p.redirect = FALSE => Sound([p EXCEPT !.phase = "cancelled", !.clock = 0])
<1>1. /\ [p EXCEPT !.phase = "draining", !.clock = 0, !.stopped = TRUE] \in Process
      /\ [p EXCEPT !.phase = "cancelled", !.clock = 0] \in Process
  BY DEF Process, Phases
<1>2. Sound([p EXCEPT !.phase = "draining", !.clock = 0, !.stopped = TRUE])
  BY DEF Process, Sound, Running
<1>3. p.due \in Nat
  BY DEF Process
<1>4. /\ 0 <= PopTime /\ (p.due <= PopTime => 0 + p.due <= PopTime)
      /\ (p.due <= FlushTime => 0 + p.due <= PopTime + FlushTime)
  BY <1>3, TimeAssumption
<1>5. ASSUME p.redirect = FALSE
      PROVE  Sound([p EXCEPT !.phase = "cancelled", !.clock = 0])
  BY <1>4, <1>5 DEF Process, Sound, Running
<1> QED
  BY <1>1, <1>2, <1>5

LEMMA TickedSound ==
  ASSUME NEW p \in Process, Sound(p), NEW q \in Process,
         q.phase = p.phase, q.exit = p.exit, q.worker = p.worker,
         q.batch = p.batch, q.redirect = p.redirect,
         p.phase \in Running,
         p.phase = "cancelled" => q.clock = p.clock + 1 /\ p.worker # "loop",
         q.due <= p.due,
         p.worker \in {"pop", "flush", "final"} => q.due = p.due - 1
  PROVE  Sound(q)
<1>1. /\ p.due \in Nat /\ p.clock \in Nat /\ p.batch \in Nat
      /\ q.due \in Nat /\ q.clock \in Nat /\ q.batch \in Nat
  BY ProcessFields
<1> QED
  BY <1>1, TimeAssumption DEF Sound, Running

LEMMA TickSound ==
  ASSUME TypeOK, SoundInv, NEW i \in Instances, Tick(i)
  PROVE  proc' \in [Instances -> Process] /\ SoundInv'
<1> DEFINE p == proc[i]
           c == IF At(i, "serving") THEN 0 ELSE p.clock + 1
           d == IF p.due > 0 THEN p.due - 1 ELSE 0
           l == IF p.left > 0 THEN p.left - 1 ELSE 0
           q == [p EXCEPT !.clock = c, !.due = d, !.left = l]
<1>1. p \in Process /\ Sound(p)
  BY DEF TypeOK, SoundInv
<1>2. proc' = [proc EXCEPT ![i] = q]
  BY DEF Tick
<1>3. /\ p.phase \in Running
      /\ p.phase = "cancelled" => c = p.clock + 1 /\ p.worker # "loop"
      /\ p.worker \in {"pop", "flush", "final"} => p.due > 0
  BY DEF Tick, At, Open, Cancelled, Running
<1> HIDE DEF p
<1>4. c \in Nat /\ d \in Nat /\ l \in Nat /\ d <= p.due /\ (p.due > 0 => d = p.due - 1)
  BY <1>1, ProcessFields
<1> HIDE DEF c, d, l
<1>5. /\ q \in Process /\ q.clock = c /\ q.due = d
      /\ q.phase = p.phase /\ q.exit = p.exit /\ q.worker = p.worker
      /\ q.batch = p.batch /\ q.redirect = p.redirect
  BY <1>1, <1>4 DEF Process
<1> HIDE DEF q
<1>6. Sound(q)
  BY <1>1, <1>3, <1>4, <1>5, TickedSound
<1> QED
  BY <1>2, <1>5, <1>6, ProcessStep


-----------------------------------------------------------------------------
(* Every step keeps every process sound *)

LEMMA ExitSound ==
  ASSUME TypeOK, SoundInv, NEW i \in Instances, NEW code \in {"0", "1"}, Exit(i, code)
  PROVE  proc' \in [Instances -> Process] /\ SoundInv'
<1>1. proc[i].stopped \in BOOLEAN
  BY DEF TypeOK, Process
<1> QED
  BY <1>1, OffSound, ProcessStep DEF Exit, End

LEMMA BootStepSound ==
  ASSUME TypeOK, SoundInv, MigrationInv, NEW i \in Instances,
         Boot(i) \/ StartStopped(i) \/ PingFails(i)
  PROVE  proc' \in [Instances -> Process] /\ SoundInv'
<1> DEFINE p == proc[i]
<1>1. p \in Process /\ Sound(p)
  BY DEF TypeOK, SoundInv
<1>2. CASE Start(i) \/ StartStopped(i)
  BY <1>2, OffSound, ProcessStep DEF Start, StartStopped, StartProcess
<1>3. ASSUME NEW l \in Phases \ (Running \cup {"down"}), NEW n \in 0..(Latest + 1),
             p.phase \notin Running \cup {"down"},
             \/ proc' = [proc EXCEPT ![i] = [p EXCEPT !.phase = l]]
             \/ proc' = [proc EXCEPT ![i] = [p EXCEPT !.phase = l, !.next = n]]
      PROVE  proc' \in [Instances -> Process] /\ SoundInv'
  <2>1. /\ [p EXCEPT !.phase = l] \in Process /\ Sound([p EXCEPT !.phase = l])
        /\ [p EXCEPT !.phase = l, !.next = n] \in Process
        /\ Sound([p EXCEPT !.phase = l, !.next = n])
    BY <1>1, <1>3, BootSound
  <2> QED
    BY <1>3, <2>1, ProcessStep
<1>4. /\ {"database", "migrate", "version", "files", "file", "mark", "firebase"}
           \subseteq Phases \ (Running \cup {"down"})
      /\ 0 \in 0..(Latest + 1)
  BY DEF Phases, Running, Latest
<1>5. CASE ConnectRedis(i)
  BY <1>5, <1>3, <1>4 DEF ConnectRedis, Goto, At, Running
<1>6. CASE ConnectDB(i)
  BY <1>6, <1>3, <1>4 DEF ConnectDB, Goto, At, Running
<1>7. CASE PingFails(i)
  <2>1. CASE p.attempt + 1 = Attempts
    BY <1>7, <2>1, ExitSound DEF PingFails
  <2>2. CASE p.attempt + 1 # Attempts
    <3>1. p.attempt \in 0..(Attempts - 1)
      BY <1>1 DEF Process
    <3>2. p.attempt + 1 \in 0..(Attempts - 1)
      BY <2>2, <3>1, CountAssumption
    <3>3. proc' = [proc EXCEPT ![i] = [p EXCEPT !.attempt = p.attempt + 1]]
      BY <1>7, <2>2 DEF PingFails
    <3>4. [p EXCEPT !.attempt = p.attempt + 1] \in Process
          /\ Sound([p EXCEPT !.attempt = p.attempt + 1])
      BY <1>1, <3>2, AttemptSound
    <3> QED
      BY <3>3, <3>4, ProcessStep
  <2> QED
    BY <2>1, <2>2
<1>8. CASE Lock(i)
  BY <1>8, <1>3, <1>4 DEF Lock, Goto, At, Running
<1>9. CASE ReadVersion(i)
  <2>1. CASE dirty
    BY <1>9, <2>1, ExitSound DEF ReadVersion
  <2>2. CASE ~dirty
    <3>1. version + 1 \in 0..(Latest + 1)
      BY DEF TypeOK, Latest
    <3>2. proc' = [proc EXCEPT ![i] = [p EXCEPT !.phase = "files", !.next = version + 1]]
      BY <1>9, <2>2 DEF ReadVersion
    <3> QED
      BY <1>9, <1>3, <1>4, <3>1, <3>2 DEF ReadVersion, At, Running
  <2> QED
    BY <2>1, <2>2
<1>10. CASE AllApplied(i)
  <2>1. proc' = [proc EXCEPT ![i] = [p EXCEPT !.phase = "firebase", !.next = 0]]
    BY <1>10 DEF AllApplied
  <2> QED
    BY <1>10, <1>3, <1>4, <2>1 DEF AllApplied, At, Running
<1>11. CASE MarkDirty(i)
  BY <1>11, <1>3, <1>4 DEF MarkDirty, Goto, At, Running
<1>12. CASE RunFile(i)
  BY <1>12, <1>3, <1>4 DEF RunFile, Goto, At, Running
<1>13. CASE MarkClean(i)
  <2>1. p.phase = "mark" /\ p.next \in 0..(Latest + 1)
    BY <1>1, <1>13 DEF MarkClean, At, Process
  <2>2. proc' = [proc EXCEPT ![i] = [p EXCEPT !.phase = "files", !.next = p.next + 1]]
    BY <1>13 DEF MarkClean
  <2>3. p.next <= Latest
    BY <2>1 DEF MigrationInv, TypeOK, Latest
  <2>4. p.next + 1 \in 0..(Latest + 1)
    BY <2>1, <2>3 DEF Latest
  <2> QED
    BY <1>3, <1>4, <2>1, <2>2, <2>4 DEF Running
<1>14. CASE Serve(i)
  <2>1. proc' = [proc EXCEPT ![i] = [p EXCEPT !.phase = "serving", !.worker = "loop"]]
    BY <1>14 DEF Serve
  <2>2. p.phase \notin Running \cup {"down"}
    BY <1>14 DEF Serve, At, Running
  <2> QED
    BY <1>1, <2>1, <2>2, ServeSound, ProcessStep
<1> QED
  BY <1>2, <1>5, <1>6, <1>7, <1>8, <1>9, <1>10, <1>11, <1>12, <1>13, <1>14 DEF Boot

LEMMA WorkerStepSound ==
  ASSUME TypeOK, SoundInv, NEW i \in Instances, Worker(i)
  PROVE  proc' \in [Instances -> Process] /\ SoundInv'
<1> DEFINE p == proc[i]
           q(w, d, n) == [p EXCEPT !.worker = w, !.due = d, !.batch = n]
<1>1. p \in Process /\ Sound(p)
  BY DEF TypeOK, SoundInv
<1>2. /\ p.due \in Nat /\ p.clock \in Nat /\ p.batch \in 0..BatchSize /\ 0 \in 0..BatchSize
      /\ p.batch \in Nat
      /\ PopTime \in Nat /\ PopTime <= PopTime /\ FlushTime \in Nat /\ FlushTime <= FlushTime
      /\ 0 \in Nat /\ 0 < BatchSize
  BY <1>1, ProcessFields, CountAssumption, TimeAssumption DEF Process
<1>3. ASSUME NEW w, NEW d, NEW n, Work(i, w, d, n), q(w, d, n) \in Process, Sound(q(w, d, n))
      PROVE  proc' \in [Instances -> Process] /\ SoundInv'
  <2>1. proc' = [proc EXCEPT ![i] = q(w, d, n)]
    BY <1>3 DEF Work
  <2> QED
    BY <1>3, <2>1, ProcessStep
<1>4. p.worker # "off" => p.phase \in Running
  BY <1>1 DEF Sound
<1>5. ASSUME p.worker = "pop" /\ p.phase = "cancelled" PROVE p.clock <= PopTime
  BY <1>1, <1>2, <1>5, TimeAssumption DEF Sound
<1>6. CASE Brpop(i)
  <2>1. Work(i, "pop", PopTime, p.batch) /\ p.worker = "loop" /\ p.phase # "cancelled"
    BY <1>6 DEF Brpop, Cancelled, At
  <2>2. p.batch < BatchSize
    BY <1>1, <2>1 DEF Sound
  <2>3. q("pop", PopTime, p.batch) \in Process /\ Sound(q("pop", PopTime, p.batch))
    BY <1>1, <1>2, <1>4, <2>1, <2>2, WorkSound
  <2> QED
    BY <1>3, <2>1, <2>3
<1>7. CASE Popped(i)
  <2>1. p.worker = "pop" /\ p.batch < BatchSize
    BY <1>1, <1>7 DEF Popped, Sound
  <2>2. p.batch + 1 \in 0..BatchSize /\ (p.batch + 1 >= BatchSize \/ p.batch + 1 < BatchSize)
    BY <1>2, <2>1, CountAssumption
  <2>3. q("flush", FlushTime, p.batch + 1) \in Process /\ Sound(q("flush", FlushTime, p.batch + 1))
    BY <1>1, <1>2, <1>4, <1>5, <2>1, <2>2, WorkSound
  <2>4. p.batch + 1 < BatchSize =>
          q("loop", 0, p.batch + 1) \in Process /\ Sound(q("loop", 0, p.batch + 1))
    BY <1>1, <1>2, <1>4, <1>5, <2>1, <2>2, WorkSound
  <2>5. \/ Work(i, "flush", FlushTime, p.batch + 1)
        \/ p.batch + 1 < BatchSize /\ Work(i, "loop", 0, p.batch + 1)
    BY <1>7, <2>2 DEF Popped
  <2> QED
    BY <1>3, <2>3, <2>4, <2>5
<1>8. CASE NotPopped(i)
  <2>1. Work(i, "loop", 0, p.batch) /\ p.worker = "pop"
    BY <1>8 DEF NotPopped
  <2>2. p.batch < BatchSize
    BY <1>1, <2>1 DEF Sound
  <2>3. q("loop", 0, p.batch) \in Process /\ Sound(q("loop", 0, p.batch))
    BY <1>1, <1>2, <1>4, <1>5, <2>1, <2>2, WorkSound
  <2> QED
    BY <1>3, <2>1, <2>3
<1>9. CASE TickerFlush(i)
  <2>1. Work(i, "flush", FlushTime, p.batch) /\ p.worker = "loop" /\ p.batch > 0
    BY <1>9 DEF TickerFlush
  <2>2. p.phase = "cancelled" => p.clock <= PopTime
    BY <1>1, <2>1 DEF Sound
  <2>3. q("flush", FlushTime, p.batch) \in Process /\ Sound(q("flush", FlushTime, p.batch))
    BY <1>1, <1>2, <1>4, <2>1, <2>2, WorkSound
  <2> QED
    BY <1>3, <2>1, <2>3
<1>10. CASE Flushed(i)
  <2>1. Work(i, "loop", 0, 0) /\ p.worker = "flush"
    BY <1>10 DEF Flushed
  <2>2. p.phase = "cancelled" => p.clock <= PopTime + FlushTime
    <3>1. p.phase = "cancelled" => p.clock + p.due <= PopTime + FlushTime
      BY <1>1, <2>1 DEF Sound
    <3> QED
      BY <1>2, <3>1, TimeAssumption
  <2>3. q("loop", 0, 0) \in Process /\ Sound(q("loop", 0, 0))
    BY <1>1, <1>2, <1>4, <2>1, <2>2, WorkSound
  <2> QED
    BY <1>3, <2>1, <2>3
<1>11. CASE CtxDone(i)
  <2>1. p.worker = "loop" /\ p.phase = "cancelled"
    BY <1>11 DEF CtxDone, Cancelled, At
  <2>2. CASE p.batch > 0
    <3>1. Work(i, "final", FlushTime, p.batch)
      BY <1>11, <2>2 DEF CtxDone
    <3>2. p.clock <= PopTime
      BY <1>1, <2>1, <2>2 DEF Sound
    <3>3. q("final", FlushTime, p.batch) \in Process /\ Sound(q("final", FlushTime, p.batch))
      BY <1>1, <1>2, <1>4, <2>1, <3>2, WorkSound
    <3> QED
      BY <1>3, <3>1, <3>3
  <2>3. CASE ~(p.batch > 0)
    <3>1. Work(i, "stopped", 0, 0)
      BY <1>11, <2>3 DEF CtxDone
    <3>2. q("stopped", 0, 0) \in Process /\ Sound(q("stopped", 0, 0))
      BY <1>1, <1>2, <1>4, <2>1, WorkSound
    <3> QED
      BY <1>3, <3>1, <3>2
  <2> QED
    BY <2>2, <2>3
<1>12. CASE LastFlushed(i)
  <2>1. Work(i, "stopped", 0, 0) /\ p.worker = "final"
    BY <1>12 DEF LastFlushed
  <2>2. p.phase = "cancelled"
    BY <1>1, <2>1 DEF Sound, Running
  <2>3. q("stopped", 0, 0) \in Process /\ Sound(q("stopped", 0, 0))
    BY <1>1, <1>2, <1>4, <2>1, <2>2, WorkSound
  <2> QED
    BY <1>3, <2>1, <2>3
<1> QED
  BY <1>6, <1>7, <1>8, <1>9, <1>10, <1>11, <1>12 DEF Worker

LEMMA ServingStepSound ==
  ASSUME TypeOK, SoundInv, NEW i \in Instances,
         \/ Redirect(i) \/ Redirected(i) \/ OpenStream(i) \/ CutStream(i) \/ LeaveStream(i)
         \/ Terminate(i) \/ TerminateEarly(i) \/ Shutdown(i) \/ BootFails(i) \/ MigrationFails(i) \/ Crash(i)
  PROVE  proc' \in [Instances -> Process] /\ SoundInv'
<1> DEFINE p == proc[i]
<1>1. p \in Process /\ Sound(p)
  BY DEF TypeOK, SoundInv
<1>2. CASE Redirect(i)
  <2>1. proc' = [proc EXCEPT ![i] = [p EXCEPT !.redirect = TRUE]]
    BY <1>2 DEF Redirect
  <2>2. [p EXCEPT !.redirect = TRUE] \in Process /\ Sound([p EXCEPT !.redirect = TRUE])
    BY <1>1, <1>2, HandlerSound DEF Redirect, At
  <2> QED
    BY <2>1, <2>2, ProcessStep
<1>3. CASE Redirected(i)
  <2>1. proc' = [proc EXCEPT ![i] = [p EXCEPT !.redirect = FALSE]]
    BY <1>3 DEF Redirected
  <2>2. [p EXCEPT !.redirect = FALSE] \in Process /\ Sound([p EXCEPT !.redirect = FALSE])
    BY <1>1, HandlerSound
  <2> QED
    BY <2>1, <2>2, ProcessStep
<1>4. CASE OpenStream(i)
  <2>1. proc' = [proc EXCEPT ![i] = [p EXCEPT !.stream = TRUE, !.left = WriteTimeout]]
    BY <1>4 DEF OpenStream
  <2>2. /\ [p EXCEPT !.stream = TRUE, !.left = WriteTimeout] \in Process
        /\ Sound([p EXCEPT !.stream = TRUE, !.left = WriteTimeout])
    BY <1>1, <1>4, HandlerSound, TimeAssumption DEF OpenStream, At
  <2> QED
    BY <2>1, <2>2, ProcessStep
<1>5. CASE CutStream(i) \/ LeaveStream(i)
  <2>1. proc' = [proc EXCEPT ![i] = [p EXCEPT !.stream = FALSE, !.left = 0]]
    BY <1>5 DEF CutStream, LeaveStream, CloseStream
  <2>2. /\ [p EXCEPT !.stream = FALSE, !.left = 0] \in Process
        /\ Sound([p EXCEPT !.stream = FALSE, !.left = 0])
    BY <1>1, HandlerSound
  <2> QED
    BY <2>1, <2>2, ProcessStep
<1>6. CASE Terminate(i)
  <2>1. proc' = [proc EXCEPT ![i] = [p EXCEPT !.phase = "draining", !.clock = 0, !.stopped = TRUE]]
    BY <1>6 DEF Terminate
  <2>2. p.phase = "serving"
    BY <1>6 DEF Terminate, At
  <2> QED
    BY <1>1, <2>1, <2>2, StopSound, ProcessStep
<1>7. CASE ShutdownReturns(i)
  <2>1. proc' = [proc EXCEPT ![i] = [p EXCEPT !.phase = "cancelled", !.clock = 0]]
    BY <1>7 DEF ShutdownReturns
  <2>2. p.phase = "draining" /\ p.redirect = FALSE
    BY <1>1, <1>7 DEF ShutdownReturns, At, Busy, Process
  <2> QED
    BY <1>1, <2>1, <2>2, StopSound, ProcessStep
<1>8. CASE \/ ShutdownTimesOut(i) \/ Return(i)
           \/ BootFails(i) \/ MigrationFails(i) \/ Crash(i)
  BY <1>8, ExitSound DEF ShutdownTimesOut, Return, BootFails, MigrationFails, Crash
<1>9. CASE TerminateEarly(i)
  BY <1>9, OffSound, ProcessStep DEF TerminateEarly, End
<1> QED
  BY <1>2, <1>3, <1>4, <1>5, <1>6, <1>7, <1>8, <1>9 DEF Shutdown

LEMMA StepSound ==
  ASSUME TypeOK, SoundInv, MigrationInv, [Next]_vars
  PROVE  proc' \in [Instances -> Process] /\ SoundInv'
<1>1. CASE UNCHANGED vars
  BY <1>1 DEF vars, TypeOK, SoundInv
<1>2. CASE Next
  BY <1>2, BootStepSound, WorkerStepSound, ServingStepSound, TickSound DEF Next
<1> QED
  BY <1>1, <1>2

-----------------------------------------------------------------------------
(* The migrations *)

Early == {"down", "redis", "database", "migrate"}
Ready == Running \cup {"firebase"}

LEMMA GotoStep ==
  ASSUME TypeOK, NEW i \in Instances, NEW l, Goto(i, l)
  PROVE  /\ proc'[i].phase = l /\ proc'[i].next = proc[i].next
         /\ \A j \in Instances \ {i} : proc'[j] = proc[j]
<1>1. proc[i] \in Process
  BY DEF TypeOK
<1>2. proc'[i] = [proc[i] EXCEPT !.phase = l] /\ \A j \in Instances \ {i} : proc'[j] = proc[j]
  BY DEF Goto, TypeOK
<1>3. [proc[i] EXCEPT !.phase = l].phase = l /\ [proc[i] EXCEPT !.phase = l].next = proc[i].next
  BY <1>1 DEF Process
<1> QED
  BY <1>2, <1>3

LEMMA GotoFileStep ==
  ASSUME TypeOK, NEW i \in Instances, NEW l, NEW n,
         proc' = [proc EXCEPT ![i].phase = l, ![i].next = n]
  PROVE  /\ proc'[i].phase = l /\ proc'[i].next = n
         /\ \A j \in Instances \ {i} : proc'[j] = proc[j]
<1> DEFINE q == [proc[i] EXCEPT !.phase = l, !.next = n]
<1>1. proc[i] \in Process
  BY DEF TypeOK
<1>2. proc' = [proc EXCEPT ![i] = q]
  OBVIOUS
<1>3. q.phase = l /\ q.next = n
  BY <1>1 DEF Process
<1> HIDE DEF q
<1>4. proc'[i] = q /\ \A j \in Instances \ {i} : proc'[j] = proc[j]
  BY <1>2 DEF TypeOK
<1> QED
  BY <1>3, <1>4

\* A step away from the migrations.
LEMMA AwayMigration ==
  ASSUME TypeOK, MigrationInv, NEW i \in Instances, NEW q,
         proc' = [proc EXCEPT ![i] = q], UNCHANGED schema,
         lock' = lock \/ (lock = i /\ lock' = Free /\ q.phase \in Early),
         \/ q.phase \in Early
         \/ q.phase \in Ready /\ proc[i].phase \in Ready
         \/ q.phase = proc[i].phase /\ q.next = proc[i].next
  PROVE  MigrationInv'
<1>1. proc'[i] = q /\ \A j \in Instances \ {i} : proc'[j] = proc[j]
  BY DEF TypeOK
<1>2. version' = version /\ dirty' = dirty /\ ran' = ran
  BY DEF schema
<1>3. \A j \in Instances \ {i} : proc[j].phase \in Migrating => lock' = j
  BY DEF MigrationInv
<1> QED
  BY <1>1, <1>2, <1>3 DEF MigrationInv, Early, Ready, Running, Migrating

LEMMA ExitMigration ==
  ASSUME TypeOK, MigrationInv, NEW i \in Instances, NEW code \in {"0", "1"}, NEW b,
         End(i, code, b), UNCHANGED schema
  PROVE  MigrationInv'
<1>1. [Off EXCEPT !.exit = code, !.stopped = b].phase \in Early
  BY DEF Off, Early
<1>2. lock' = lock \/ (lock = i /\ lock' = Free)
  BY DEF End
<1>3. proc' = [proc EXCEPT ![i] = [Off EXCEPT !.exit = code, !.stopped = b]]
  BY DEF End
<1> QED
  BY <1>1, <1>2, <1>3, AwayMigration

\* Whoever has the lock is alone at the migrations, and nobody serves before
\* all files are done.
LEMMA FileMigration ==
  ASSUME TypeOK, MigrationInv, NEW i \in Instances,
         \/ Lock(i) \/ AllApplied(i) \/ MarkDirty(i) \/ RunFile(i) \/ MarkClean(i)
         \/ ReadVersion(i) /\ ~dirty
  PROVE  MigrationInv'
<1> DEFINE p == proc[i]
<1>0. p \in Process
  BY DEF TypeOK
<1>1. version \in 0..Latest /\ p.next \in 0..(Latest + 1) /\ Latest = 4
      /\ \A v \in 1..Latest : ran[v] \in Nat
  BY <1>0 DEF TypeOK, Process, Latest
<1>2. \A j \in Instances \ {i} : p.phase \in Migrating => proc[j].phase \notin Migrating
  BY DEF MigrationInv
<1>4. CASE Lock(i)
  <2>1. /\ proc'[i].phase = "version" /\ proc'[i].next = p.next
        /\ \A j \in Instances \ {i} : proc'[j] = proc[j]
    BY <1>4, GotoStep DEF Lock
  <2>2. \A j \in Instances \ {i} : proc[j].phase \notin Migrating
    BY <1>4, ValueAssumption DEF Lock, MigrationInv
  <2> QED
    BY <1>4, <2>1, <2>2 DEF Lock, schema, MigrationInv, Migrating, Running
<1>5. CASE ReadVersion(i) /\ ~dirty
  <2>1. proc' = [proc EXCEPT ![i].phase = "files", ![i].next = version + 1]
    BY <1>5 DEF ReadVersion
  <2>2. /\ proc'[i].phase = "files" /\ proc'[i].next = version + 1
        /\ \A j \in Instances \ {i} : proc'[j] = proc[j]
    BY <2>1, GotoFileStep
  <2>3. p.phase = "version" /\ lock' = lock /\ UNCHANGED <<version, dirty, ran>>
    BY <1>5 DEF ReadVersion, At, schema
  <2> QED
    BY <1>5, <2>2, <2>3 DEF MigrationInv, Migrating, Running
<1>6. CASE AllApplied(i)
  <2>1. proc' = [proc EXCEPT ![i].phase = "firebase", ![i].next = 0]
    BY <1>6 DEF AllApplied
  <2>2. /\ proc'[i].phase = "firebase"
        /\ \A j \in Instances \ {i} : proc'[j] = proc[j]
    BY <2>1, GotoFileStep
  <2>3. p.phase = "files" /\ p.next > Latest /\ UNCHANGED <<version, dirty, ran>>
    BY <1>6 DEF AllApplied, At, schema
  <2>4. version = Latest /\ ~dirty
    BY <1>1, <2>3 DEF MigrationInv
  <2> QED
    BY <1>2, <2>2, <2>3, <2>4 DEF MigrationInv, Migrating, Running
<1>7. CASE MarkDirty(i)
  <2>1. /\ proc'[i].phase = "file" /\ proc'[i].next = p.next
        /\ \A j \in Instances \ {i} : proc'[j] = proc[j]
    BY <1>7, GotoStep DEF MarkDirty
  <2>2. p.phase = "files" /\ ~dirty /\ p.next = version + 1 /\ p.next <= Latest
    BY <1>7 DEF MarkDirty, At, MigrationInv
  <2>3. version' = version + 1 /\ dirty' = TRUE /\ ran' = ran /\ lock' = lock /\ lock = i
    BY <1>7, <2>2 DEF MarkDirty, MigrationInv, Migrating
  <2>4. \A j \in Instances \ {i} : proc[j].phase \notin Migrating \cup Running \cup {"firebase"}
    BY <1>1, <1>2, <2>2 DEF MigrationInv, Migrating
  <2>5. \A v \in 1..Latest : /\ v <= version => ran[v] = 1
                            /\ v > version => ran[v] = 0
    BY <1>1, <2>2 DEF MigrationInv
  <2>6. \A v \in 1..Latest : /\ v < version' => ran'[v] = 1
                            /\ v >= version' => ran'[v] = 0
    BY <1>1, <2>3, <2>5
  <2> QED
    BY <1>1, <2>1, <2>2, <2>3, <2>4, <2>6 DEF MigrationInv, Migrating, Running
<1>8. CASE RunFile(i)
  <2>1. /\ proc'[i].phase = "mark" /\ proc'[i].next = p.next
        /\ \A j \in Instances \ {i} : proc'[j] = proc[j]
    BY <1>8, GotoStep DEF RunFile
  <2>2. p.phase = "file" /\ dirty /\ p.next = version /\ version \in 1..Latest /\ ran[version] = 0
    BY <1>1, <1>8 DEF RunFile, At, MigrationInv
  <2>3. version' = version /\ dirty' = dirty /\ lock' = lock
        /\ ran' = [ran EXCEPT ![version] = @ + 1]
    BY <1>8, <2>2 DEF RunFile
  <2>4. ran'[version] = 1 /\ \A v \in 1..Latest : v # version => ran'[v] = ran[v]
    BY <2>2, <2>3 DEF TypeOK
  <2>5. \A j \in Instances \ {i} : proc[j].phase \notin Migrating \cup Running \cup {"firebase"}
    BY <1>2, <2>2 DEF MigrationInv, Migrating
  <2>6. lock = i
    BY <2>2 DEF MigrationInv, Migrating
  <2>7. \A v \in 1..Latest : (v < version => ran'[v] = 1) /\ (v > version => ran'[v] = 0)
    BY <1>1, <2>2, <2>4 DEF MigrationInv
  <2> QED
    BY <1>1, <2>1, <2>2, <2>3, <2>4, <2>5, <2>6, <2>7 DEF MigrationInv, Migrating, Running
<1>9. CASE MarkClean(i)
  <2>1. proc' = [proc EXCEPT ![i].phase = "files", ![i].next = p.next + 1]
    BY <1>9 DEF MarkClean
  <2>2. /\ proc'[i].phase = "files" /\ proc'[i].next = p.next + 1
        /\ \A j \in Instances \ {i} : proc'[j] = proc[j]
    BY <2>1, GotoFileStep
  <2>3. p.phase = "mark" /\ dirty' = FALSE /\ UNCHANGED <<version, ran, lock>>
    BY <1>9 DEF MarkClean, At
  <2>4. p.next = version /\ ran[version] = 1 /\ dirty /\ lock = i
    BY <2>3 DEF MigrationInv, Migrating
  <2>5. \A j \in Instances \ {i} : proc[j].phase \notin Migrating \cup Running \cup {"firebase"}
    BY <1>2, <2>3, <2>4 DEF MigrationInv, Migrating
  <2> QED
    BY <1>1, <2>2, <2>3, <2>4, <2>5 DEF MigrationInv, Migrating, Running
<1> QED
  BY <1>4, <1>5, <1>6, <1>7, <1>8, <1>9

LEMMA BootMigration ==
  ASSUME TypeOK, MigrationInv, NEW i \in Instances, Boot(i) \/ StartStopped(i) \/ PingFails(i)
  PROVE  MigrationInv'
<1> DEFINE p == proc[i]
<1>1. p \in Process
  BY DEF TypeOK
<1>2. CASE Start(i) \/ StartStopped(i)
  <2>1. [Off EXCEPT !.phase = "redis"].phase \in Early
    BY DEF Off, Early
  <2> QED
    BY <1>2, <2>1, AwayMigration DEF Start, StartStopped, StartProcess, schema
<1>3. CASE ConnectRedis(i)
  <2>1. [p EXCEPT !.phase = "database"].phase \in Early
    BY <1>1 DEF Process, Early
  <2>2. proc' = [proc EXCEPT ![i] = [p EXCEPT !.phase = "database"]]
    BY <1>3 DEF ConnectRedis, Goto
  <2> QED
    BY <1>3, <2>1, <2>2, AwayMigration DEF ConnectRedis
<1>4. CASE ConnectDB(i)
  <2>1. [p EXCEPT !.phase = "migrate"].phase \in Early
    BY <1>1 DEF Process, Early
  <2>2. proc' = [proc EXCEPT ![i] = [p EXCEPT !.phase = "migrate"]]
    BY <1>4 DEF ConnectDB, Goto
  <2> QED
    BY <1>4, <2>1, <2>2, AwayMigration DEF ConnectDB
<1>5. CASE PingFails(i)
  <2>1. CASE p.attempt + 1 = Attempts
    BY <1>5, <2>1, ExitMigration DEF PingFails, Exit
  <2>2. CASE p.attempt + 1 # Attempts
    <3>1. /\ [p EXCEPT !.attempt = p.attempt + 1].phase = p.phase
          /\ [p EXCEPT !.attempt = p.attempt + 1].next = p.next
      BY <1>1 DEF Process
    <3>2. proc' = [proc EXCEPT ![i] = [p EXCEPT !.attempt = p.attempt + 1]] /\ lock' = lock
      BY <1>5, <2>2 DEF PingFails
    <3> QED
      BY <1>5, <3>1, <3>2, AwayMigration DEF PingFails
  <2> QED
    BY <2>1, <2>2
<1>6. CASE ReadVersion(i)
  BY <1>6, FileMigration, ExitMigration DEF ReadVersion, Exit
<1>7. CASE Lock(i) \/ AllApplied(i) \/ MarkDirty(i) \/ RunFile(i) \/ MarkClean(i)
  BY <1>7, FileMigration
<1>8. CASE Serve(i)
  <2>1. p.phase = "firebase"
    BY <1>8 DEF Serve, At
  <2>2. [p EXCEPT !.phase = "serving", !.worker = "loop"].phase = "serving"
    BY <1>1 DEF Process
  <2>3. proc' = [proc EXCEPT ![i] = [p EXCEPT !.phase = "serving", !.worker = "loop"]]
    BY <1>8 DEF Serve
  <2> QED
    BY <1>8, <2>1, <2>2, <2>3, AwayMigration DEF Serve, Ready, Running
<1> QED
  BY <1>2, <1>3, <1>4, <1>5, <1>6, <1>7, <1>8 DEF Boot

LEMMA WorkerMigration ==
  ASSUME TypeOK, MigrationInv, NEW i \in Instances, Worker(i) \/ Tick(i)
  PROVE  MigrationInv'
<1> DEFINE p == proc[i]
<1>1. p \in Process
  BY DEF TypeOK
<1>2. CASE Tick(i)
  <2> DEFINE c == IF At(i, "serving") THEN 0 ELSE p.clock + 1
             d == IF p.due > 0 THEN p.due - 1 ELSE 0
             l == IF p.left > 0 THEN p.left - 1 ELSE 0
             q == [p EXCEPT !.clock = c, !.due = d, !.left = l]
  <2>1. proc' = [proc EXCEPT ![i] = q]
    BY <1>2 DEF Tick
  <2>2. q.phase = p.phase /\ q.next = p.next
    <3> HIDE DEF c, d, l
    <3> QED
      BY <1>1 DEF Process
  <2> HIDE DEF q
  <2> QED
    BY <1>2, <2>1, <2>2, AwayMigration DEF Tick, Quiet
<1>3. ASSUME NEW w, NEW d, NEW n, Work(i, w, d, n) PROVE MigrationInv'
  <2> DEFINE q == [p EXCEPT !.worker = w, !.due = d, !.batch = n]
  <2>1. proc' = [proc EXCEPT ![i] = q]
    BY <1>3 DEF Work
  <2>2. q.phase = p.phase /\ q.next = p.next
    BY <1>1 DEF Process
  <2> HIDE DEF q
  <2> QED
    BY <1>3, <2>1, <2>2, AwayMigration DEF Work, Quiet
<1>4. CASE Worker(i)
  BY <1>3, <1>4
  DEF Worker, Brpop, Popped, NotPopped, TickerFlush, Flushed, CtxDone, LastFlushed
<1> QED
  BY <1>2, <1>4

LEMMA ServingMigration ==
  ASSUME TypeOK, MigrationInv, NEW i \in Instances,
         \/ Redirect(i) \/ Redirected(i) \/ OpenStream(i) \/ CutStream(i) \/ LeaveStream(i)
         \/ Terminate(i) \/ TerminateEarly(i) \/ Shutdown(i) \/ BootFails(i) \/ MigrationFails(i) \/ Crash(i)
  PROVE  MigrationInv'
<1> DEFINE p == proc[i]
<1>1. p \in Process
  BY DEF TypeOK
<1>2. ASSUME NEW q, proc' = [proc EXCEPT ![i] = q], UNCHANGED <<schema, lock>>,
             \/ q.phase \in Running /\ p.phase \in Running
             \/ q.phase = p.phase /\ q.next = p.next
      PROVE  MigrationInv'
  BY <1>2, AwayMigration DEF Ready
<1>3. CASE Redirect(i)
  <2> DEFINE q == [p EXCEPT !.redirect = TRUE]
  <2>1. proc' = [proc EXCEPT ![i] = q]
    BY <1>3 DEF Redirect
  <2>2. q.phase = p.phase /\ q.next = p.next
    BY <1>1 DEF Process
  <2> HIDE DEF q
  <2> QED
    BY <1>2, <1>3, <2>1, <2>2 DEF Redirect, Quiet
<1>4. CASE Redirected(i)
  <2> DEFINE q == [p EXCEPT !.redirect = FALSE]
  <2>1. proc' = [proc EXCEPT ![i] = q]
    BY <1>4 DEF Redirected
  <2>2. q.phase = p.phase /\ q.next = p.next
    BY <1>1 DEF Process
  <2> HIDE DEF q
  <2> QED
    BY <1>2, <1>4, <2>1, <2>2 DEF Redirected, Quiet
<1>5. CASE OpenStream(i)
  <2> DEFINE q == [p EXCEPT !.stream = TRUE, !.left = WriteTimeout]
  <2>1. proc' = [proc EXCEPT ![i] = q]
    BY <1>5 DEF OpenStream
  <2>2. q.phase = p.phase /\ q.next = p.next
    BY <1>1 DEF Process
  <2> HIDE DEF q
  <2> QED
    BY <1>2, <1>5, <2>1, <2>2 DEF OpenStream, Quiet
<1>6. CASE CutStream(i) \/ LeaveStream(i)
  <2> DEFINE q == [p EXCEPT !.stream = FALSE, !.left = 0]
  <2>1. proc' = [proc EXCEPT ![i] = q]
    BY <1>6 DEF CutStream, LeaveStream, CloseStream
  <2>2. q.phase = p.phase /\ q.next = p.next
    BY <1>1 DEF Process
  <2> HIDE DEF q
  <2> QED
    BY <1>2, <1>6, <2>1, <2>2 DEF CutStream, LeaveStream, CloseStream, Quiet
<1>7. CASE Terminate(i)
  <2> DEFINE q == [p EXCEPT !.phase = "draining", !.clock = 0, !.stopped = TRUE]
  <2>1. proc' = [proc EXCEPT ![i] = q]
    BY <1>7 DEF Terminate
  <2>2. q.phase = "draining"
    BY <1>1 DEF Process
  <2> HIDE DEF q
  <2>3. q.phase \in Running /\ p.phase \in Running
    BY <1>7, <2>2 DEF Terminate, At, Running
  <2>4. UNCHANGED <<schema, lock>>
    BY <1>7 DEF Terminate
  <2> QED
    BY <2>1, <2>3, <2>4, AwayMigration DEF Ready
<1>8. CASE ShutdownReturns(i)
  <2> DEFINE q == [p EXCEPT !.phase = "cancelled", !.clock = 0]
  <2>1. proc' = [proc EXCEPT ![i] = q]
    BY <1>8 DEF ShutdownReturns
  <2>2. q.phase = "cancelled"
    BY <1>1 DEF Process
  <2> HIDE DEF q
  <2>3. q.phase \in Running /\ p.phase \in Running
    BY <1>8, <2>2 DEF ShutdownReturns, At, Running
  <2>4. UNCHANGED <<schema, lock>>
    BY <1>8 DEF ShutdownReturns, Quiet
  <2> QED
    BY <2>1, <2>3, <2>4, AwayMigration DEF Ready
<1>9. CASE \/ ShutdownTimesOut(i) \/ Return(i)
           \/ BootFails(i) \/ MigrationFails(i) \/ Crash(i)
  BY <1>9, ExitMigration DEF ShutdownTimesOut, Return, BootFails, MigrationFails, Crash, Exit
<1>10. CASE TerminateEarly(i)
  BY <1>10, ExitMigration DEF TerminateEarly
<1> QED
  BY <1>3, <1>4, <1>5, <1>6, <1>7, <1>8, <1>9, <1>10 DEF Shutdown

LEMMA StepMigration ==
  ASSUME TypeOK, MigrationInv, [Next]_vars
  PROVE  MigrationInv'
<1>1. CASE UNCHANGED vars
  BY <1>1 DEF vars, schema, MigrationInv
<1>2. CASE Next
  BY <1>2, BootMigration, WorkerMigration, ServingMigration DEF Next
<1> QED
  BY <1>1, <1>2

-----------------------------------------------------------------------------
(* The theorems *)

Inv == TypeOK /\ SoundInv /\ MigrationInv

LEMMA InitInv == Init => Inv
<1> SUFFICES ASSUME Init PROVE Inv
  OBVIOUS
<1>1. Off \in Process /\ Sound(Off)
  BY OffSound
<1>2. TypeOK
  <2>1. proc \in [Instances -> Process] /\ ran \in [1..Latest -> Nat]
    BY <1>1 DEF Init
  <2>2. version = 0 /\ 0 \in 0..Latest /\ dirty = FALSE /\ lock = Free
    BY DEF Init, Latest
  <2>3. queue \in 0..MaxQueue /\ stops \in 0..MaxStops /\ faults \in 0..MaxFaults
    BY CountAssumption DEF Init
  <2> QED
    BY <2>1, <2>2, <2>3 DEF TypeOK
<1>3. SoundInv
  BY <1>1 DEF Init, SoundInv
<1>4. MigrationInv
  BY DEF Init, MigrationInv, Off, Migrating, Running, Latest
<1> QED
  BY <1>2, <1>3, <1>4 DEF Inv

LEMMA QuietStep ==
  ASSUME NEW i \in Instances,
         \/ Worker(i) \/ Redirect(i) \/ Redirected(i) \/ OpenStream(i) \/ CutStream(i)
         \/ LeaveStream(i) \/ ShutdownReturns(i) \/ Tick(i)
  PROVE  UNCHANGED <<schema, lock, stops, faults>>
<1>1. CASE Worker(i)
  BY <1>1 DEF Worker, Work, Quiet, Brpop, Popped, NotPopped, TickerFlush, Flushed, CtxDone,
     LastFlushed
<1>2. CASE \/ Redirect(i) \/ Redirected(i) \/ OpenStream(i) \/ CutStream(i)
           \/ LeaveStream(i) \/ ShutdownReturns(i) \/ Tick(i)
  BY <1>2 DEF Redirect, Redirected, OpenStream, CutStream, LeaveStream, CloseStream,
     ShutdownReturns, Tick, Quiet
<1> QED
  BY <1>1, <1>2

\* What the instances share keeps its type.
LEMMA SharedStep ==
  ASSUME TypeOK, MigrationInv, NEW i \in Instances,
         \/ Boot(i) \/ StartStopped(i) \/ PingFails(i) \/ BootFails(i) \/ MigrationFails(i)
         \/ Redirect(i) \/ Redirected(i) \/ OpenStream(i) \/ CutStream(i) \/ LeaveStream(i)
         \/ Worker(i) \/ Terminate(i) \/ TerminateEarly(i) \/ Shutdown(i)
         \/ Crash(i) \/ Tick(i)
  PROVE  /\ version' \in 0..Latest /\ dirty' \in BOOLEAN /\ ran' \in [1..Latest -> Nat]
         /\ lock' \in Instances \cup {Free} /\ queue' \in 0..MaxQueue
         /\ stops' \in 0..MaxStops /\ faults' \in 0..MaxFaults
<1> DEFINE Goal == /\ version' \in 0..Latest /\ dirty' \in BOOLEAN /\ ran' \in [1..Latest -> Nat]
                   /\ lock' \in Instances \cup {Free} /\ queue' \in 0..MaxQueue
                   /\ stops' \in 0..MaxStops /\ faults' \in 0..MaxFaults
<1>1. ASSUME faults' = faults \/ Fault PROVE faults' \in 0..MaxFaults
  BY <1>1, CountAssumption DEF Fault, TypeOK
<1>2. ASSUME UNCHANGED <<schema, queue, stops>>, lock' \in {lock, Free, i}, faults' = faults \/ Fault
      PROVE  Goal
  BY <1>1, <1>2 DEF schema, TypeOK
<1>3. CASE \/ Start(i) \/ StartStopped(i) \/ ConnectRedis(i) \/ ConnectDB(i) \/ Lock(i) \/ AllApplied(i) \/ Serve(i)
  <2>1. UNCHANGED <<schema, queue, stops, faults>> /\ lock' \in {lock, Free, i}
    BY <1>3 DEF Start, StartStopped, StartProcess, ConnectRedis, ConnectDB, Lock, AllApplied, Serve
  <2> QED
    BY <1>2, <2>1
<1>4. CASE ReadVersion(i) \/ PingFails(i)
  <2>1. UNCHANGED <<schema, queue, stops>> /\ (faults' = faults \/ Fault)
    BY <1>4 DEF ReadVersion, PingFails
  <2>2. lock' \in {lock, Free}
    BY <1>4 DEF ReadVersion, PingFails, Exit, End
  <2> QED
    BY <1>2, <2>1, <2>2
<1>5. CASE BootFails(i) \/ MigrationFails(i) \/ ShutdownTimesOut(i) \/ Return(i) \/ Crash(i)
  <2>1. UNCHANGED <<schema, queue, stops>> /\ (faults' = faults \/ Fault)
    BY <1>5 DEF BootFails, MigrationFails, ShutdownTimesOut, Return, Crash
  <2>2. lock' \in {lock, Free}
    BY <1>5 DEF BootFails, MigrationFails, ShutdownTimesOut, Return, Crash, Exit, End
  <2> QED
    BY <1>2, <2>1, <2>2
<1>6. CASE MarkDirty(i)
  <2>1. version' \in 0..Latest /\ dirty' = TRUE /\ ran' = ran
    BY <1>6 DEF MarkDirty, At, MigrationInv, TypeOK, Latest
  <2>2. UNCHANGED <<lock, queue, stops, faults>>
    BY <1>6 DEF MarkDirty
  <2> QED
    BY <2>1, <2>2 DEF TypeOK
<1>7. CASE RunFile(i)
  <2>1. proc[i].next = version /\ version \in 1..Latest
    BY <1>7 DEF RunFile, At, MigrationInv, TypeOK, Latest
  <2>2. UNCHANGED <<version, dirty, lock, queue, stops, faults>>
        /\ ran' = [ran EXCEPT ![version] = ran[version] + 1]
    BY <1>7, <2>1 DEF RunFile
  <2>3. ran' \in [1..Latest -> Nat]
    BY <2>1, <2>2 DEF TypeOK
  <2> QED
    BY <2>2, <2>3 DEF TypeOK
<1>8. CASE MarkClean(i)
  BY <1>8 DEF MarkClean, TypeOK
<1>9. CASE Terminate(i) \/ TerminateEarly(i)
  <2>1. /\ stops < MaxStops /\ stops' = stops + 1 /\ UNCHANGED <<schema, queue, faults>>
        /\ lock' \in {lock, Free}
    BY <1>9 DEF Terminate, TerminateEarly, Stop, End
  <2>2. stops' \in 0..MaxStops
    BY <2>1, CountAssumption DEF TypeOK
  <2> QED
    BY <2>1, <2>2 DEF schema, TypeOK
<1>10. CASE \/ Worker(i) \/ Redirect(i) \/ Redirected(i) \/ OpenStream(i) \/ CutStream(i)
            \/ LeaveStream(i) \/ ShutdownReturns(i) \/ Tick(i)
  <2>1. queue' \in 0..MaxQueue
    <3>1. CASE Redirected(i)
      BY <3>1 DEF Redirected
    <3>2. CASE Popped(i)
      BY <3>2, CountAssumption DEF Popped, TypeOK
    <3>3. CASE ~Redirected(i) /\ ~Popped(i)
      <4>1. queue' = queue
        BY <1>10, <3>3
        DEF Worker, Brpop, NotPopped, TickerFlush, Flushed, CtxDone, LastFlushed,
            Redirect, OpenStream, CutStream, LeaveStream, CloseStream, ShutdownReturns, Tick
      <4> QED
        BY <4>1 DEF TypeOK
    <3> QED
      BY <3>1, <3>2, <3>3
  <2> QED
    BY <1>10, <2>1, QuietStep DEF schema, TypeOK
<1> QED
  BY <1>3, <1>4, <1>5, <1>6, <1>7, <1>8, <1>9, <1>10 DEF Boot, Shutdown

LEMMA SharedType ==
  ASSUME TypeOK, MigrationInv, [Next]_vars
  PROVE  /\ version' \in 0..Latest /\ dirty' \in BOOLEAN /\ ran' \in [1..Latest -> Nat]
         /\ lock' \in Instances \cup {Free} /\ queue' \in 0..MaxQueue
         /\ stops' \in 0..MaxStops /\ faults' \in 0..MaxFaults
<1>1. CASE UNCHANGED vars
  BY <1>1 DEF vars, schema, TypeOK
<1>2. CASE Next
  BY <1>2, SharedStep DEF Next
<1> QED
  BY <1>1, <1>2

LEMMA StepInv == Inv /\ [Next]_vars => Inv'
  BY StepSound, StepMigration, SharedType DEF Inv, TypeOK

\* However many instances start on one database, and wherever they die, the
\* processes, the lock, the version and the list have their types.
THEOREM TypeCorrect == Spec => []TypeOK
<1>1. Inv => TypeOK
  BY DEF Inv
<1> QED
  BY <1>1, InitInv, StepInv, PTL DEF Spec

\* No migration file is executed twice: the advisory lock and the dirty mark are
\* enough for any number of instances and crashes.
THEOREM FilesRunOnce == Spec => []RunsOnce
<1>1. Inv => RunsOnce
  <2> SUFFICES ASSUME Inv, NEW v \in 1..Latest PROVE ran[v] <= 1
    BY DEF RunsOnce
  <2>1. version \in 0..Latest /\ Latest = 4
    BY DEF Inv, TypeOK, Latest
  <2>2. v < version \/ v = version \/ v > version
    BY <2>1
  <2> QED
    BY <2>2 DEF Inv, MigrationInv
<1> QED
  BY <1>1, InitInv, StepInv, PTL DEF Spec

\* An instance takes requests only on a complete schema that nobody changes.
THEOREM LatestSchema == Spec => []ServesOnLatestSchema
<1>1. Inv => ServesOnLatestSchema
  <2> SUFFICES ASSUME Inv, NEW i \in Instances, At(i, "serving") \/ At(i, "draining")
               PROVE  version = Latest /\ ~dirty /\ \A v \in 1..Latest : ran[v] = 1
    BY DEF ServesOnLatestSchema
  <2>1. version = Latest /\ ~dirty
    BY DEF Inv, MigrationInv, At, Running
  <2>2. \A v \in 1..Latest : v < version \/ v = version
    BY <2>1 DEF Latest
  <2> QED
    BY <2>1, <2>2 DEF Inv, MigrationInv
<1> QED
  BY <1>1, InitInv, StepInv, PTL DEF Spec

\* Once the worker is cancelled no redirect is left that could queue a click.
THEOREM NoLateClick == Spec => []NoClickAfterCancel
<1>1. Inv => NoClickAfterCancel
  BY DEF Inv, SoundInv, Sound, NoClickAfterCancel, Cancelled, At
<1> QED
  BY <1>1, InitInv, StepInv, PTL DEF Spec

LEMMA OneProcess ==
  ASSUME TypeOK, NEW j \in Instances, NEW i \in Instances \ {j},
         \/ Boot(j) \/ StartStopped(j) \/ PingFails(j) \/ BootFails(j) \/ MigrationFails(j)
         \/ Redirect(j) \/ Redirected(j) \/ OpenStream(j) \/ CutStream(j) \/ LeaveStream(j)
         \/ Worker(j) \/ Terminate(j) \/ TerminateEarly(j) \/ Shutdown(j)
         \/ Crash(j) \/ Tick(j)
  PROVE  proc'[i] = proc[i]
<1>1. ASSUME NEW w, NEW d, NEW n, Work(j, w, d, n) PROVE proc'[i] = proc[i]
  BY <1>1 DEF Work, TypeOK
<1>2. ASSUME NEW code, NEW b, End(j, code, b) PROVE proc'[i] = proc[i]
  BY <1>2 DEF End, TypeOK
<1>3. ASSUME NEW l, Goto(j, l) PROVE proc'[i] = proc[i]
  BY <1>3 DEF Goto, TypeOK
<1>4. CASE Worker(j)
  BY <1>1, <1>4
  DEF Worker, Brpop, Popped, NotPopped, TickerFlush, Flushed, CtxDone, LastFlushed
<1>5. CASE ConnectRedis(j) \/ ConnectDB(j) \/ Lock(j) \/ MarkDirty(j) \/ RunFile(j)
  BY <1>3, <1>5 DEF ConnectRedis, ConnectDB, Lock, MarkDirty, RunFile
<1>6. CASE \/ BootFails(j) \/ MigrationFails(j) \/ ShutdownTimesOut(j) \/ Return(j) \/ Crash(j)
           \/ TerminateEarly(j)
  BY <1>2, <1>6 DEF BootFails, MigrationFails, ShutdownTimesOut, Return, Crash, TerminateEarly, Exit
<1>7. CASE PingFails(j)
  BY <1>2, <1>7 DEF PingFails, Exit, TypeOK
<1>8. CASE ReadVersion(j)
  BY <1>2, <1>8 DEF ReadVersion, Exit, TypeOK
<1>9. CASE Start(j) \/ StartStopped(j) \/ AllApplied(j) \/ MarkClean(j) \/ Serve(j)
  BY <1>9 DEF Start, StartStopped, StartProcess, AllApplied, MarkClean, Serve, TypeOK
<1>10. CASE Redirect(j) \/ Redirected(j) \/ OpenStream(j) \/ CutStream(j) \/ LeaveStream(j)
  BY <1>10 DEF Redirect, Redirected, OpenStream, CutStream, LeaveStream, CloseStream, TypeOK
<1>11. CASE Terminate(j) \/ ShutdownReturns(j) \/ Tick(j)
  BY <1>11 DEF Terminate, ShutdownReturns, Tick, TypeOK
<1> QED
  BY <1>4, <1>5, <1>6, <1>7, <1>8, <1>9, <1>10, <1>11 DEF Boot, Shutdown

LEMMA CancelledStep ==
  ASSUME Inv, NEW i \in Instances, Cancelled(i), [Next]_vars
  PROVE  proc'[i].exit = proc[i].exit \/ Exit(i, "1") \/ Return(i)
<1> DEFINE p == proc[i]
<1>1. p \in Process /\ p.phase = "cancelled" /\ p.redirect = FALSE
  BY DEF Inv, TypeOK, SoundInv, Sound, Cancelled, At
<1>2. CASE UNCHANGED vars
  BY <1>2 DEF vars
<1>3. CASE \E j \in Instances \ {i} :
         \/ Boot(j) \/ StartStopped(j) \/ PingFails(j) \/ BootFails(j) \/ MigrationFails(j)
         \/ Redirect(j) \/ Redirected(j) \/ OpenStream(j) \/ CutStream(j) \/ LeaveStream(j)
         \/ Worker(j) \/ Terminate(j) \/ TerminateEarly(j) \/ Shutdown(j)
         \/ Crash(j) \/ Tick(j)
  BY <1>3, OneProcess DEF Inv
<1>4. CASE Worker(i)
  <2>1. PICK w, d, n : Work(i, w, d, n)
    BY <1>4 DEF Worker, Brpop, Popped, NotPopped, TickerFlush, Flushed, CtxDone, LastFlushed
  <2> DEFINE q == [p EXCEPT !.worker = w, !.due = d, !.batch = n]
  <2>2. proc' = [proc EXCEPT ![i] = q]
    BY <2>1 DEF Work
  <2>3. q.exit = p.exit
    BY <1>1 DEF Process
  <2> HIDE DEF q
  <2> QED
    BY <2>2, <2>3 DEF Inv, TypeOK
<1>5. CASE CutStream(i) \/ LeaveStream(i)
  <2> DEFINE q == [p EXCEPT !.stream = FALSE, !.left = 0]
  <2>1. proc' = [proc EXCEPT ![i] = q]
    BY <1>5 DEF CutStream, LeaveStream, CloseStream
  <2>2. q.exit = p.exit
    BY <1>1 DEF Process
  <2> HIDE DEF q
  <2> QED
    BY <2>1, <2>2 DEF Inv, TypeOK
<1>6. CASE Tick(i)
  <2> DEFINE c == IF At(i, "serving") THEN 0 ELSE p.clock + 1
             d == IF p.due > 0 THEN p.due - 1 ELSE 0
             l == IF p.left > 0 THEN p.left - 1 ELSE 0
             q == [p EXCEPT !.clock = c, !.due = d, !.left = l]
  <2>1. proc' = [proc EXCEPT ![i] = q]
    BY <1>6 DEF Tick
  <2>2. q.exit = p.exit
    <3> HIDE DEF c, d, l
    <3> QED
      BY <1>1 DEF Process
  <2> HIDE DEF q
  <2> QED
    BY <2>1, <2>2 DEF Inv, TypeOK
<1>7. CASE Crash(i)
  BY <1>7 DEF Crash
<1>8. ~Boot(i) /\ ~StartStopped(i) /\ ~PingFails(i) /\ ~BootFails(i) /\ ~MigrationFails(i)
  BY <1>1 DEF Boot, PingFails, BootFails, MigrationFails, Start, StartStopped, ConnectRedis, ConnectDB,
     Lock, ReadVersion, AllApplied, MarkDirty, RunFile, MarkClean, Serve, At
<1>9. ~Redirect(i) /\ ~Redirected(i) /\ ~OpenStream(i) /\ ~Terminate(i) /\ ~TerminateEarly(i)
  BY <1>1 DEF Redirect, Redirected, OpenStream, Terminate, TerminateEarly, At
<1>10. ~ShutdownReturns(i) /\ ~ShutdownTimesOut(i)
  BY <1>1 DEF ShutdownReturns, ShutdownTimesOut, At
<1> QED
  BY <1>2, <1>3, <1>4, <1>5, <1>6, <1>7, <1>8, <1>9, <1>10 DEF Next, Shutdown

\* The three seconds are enough whatever the worker was doing when it was
\* cancelled, if one BRPOP and one flush take less: the process returns from
\* main with an empty batch.
THEOREM CleanExit == Spec => CleanExitLosesNothing
<1>1. Inv /\ [Next]_vars => \A i \in Instances :
         Cancelled(i) /\ proc'[i].exit = "0" => proc[i].batch = 0
  <2> SUFFICES ASSUME Inv, [Next]_vars, NEW i \in Instances, Cancelled(i), proc'[i].exit = "0"
               PROVE  proc[i].batch = 0
    OBVIOUS
  <2>1. proc[i] \in Process /\ Sound(proc[i]) /\ proc[i].phase = "cancelled"
    BY DEF Inv, TypeOK, SoundInv, Cancelled, At
  <2>2. CASE Return(i)
    <3>1. proc[i].clock = DrainTime /\ proc[i].clock \in Nat /\ proc[i].due \in Nat
      BY <2>1, <2>2, ProcessFields DEF Return
    <3>2. proc[i].worker \in {"loop", "pop", "flush", "final", "stopped"}
      BY <2>1, ProcessFields DEF Sound
    <3>3. proc[i].worker = "stopped"
      BY <2>1, <3>1, <3>2, TimeAssumption, DrainAssumption DEF Sound
    <3> QED
      BY <2>1, <3>3 DEF Sound
  <2>3. proc[i].exit = "none" /\ (proc'[i].exit = proc[i].exit \/ Exit(i, "1") \/ Return(i))
    BY <2>1, CancelledStep DEF Inv, Sound
  <2>4. Exit(i, "1") => proc'[i].exit = "1"
    BY DEF Exit, End, Inv, TypeOK, Off
  <2> QED
    BY <2>2, <2>3, <2>4
<1> QED
  BY <1>1, InitInv, StepInv, PTL DEF Spec, CleanExitLosesNothing

=============================================================================
