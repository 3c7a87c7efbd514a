--------------------------- MODULE IdAllocatorMC ---------------------------
(***************************************************************************)
(* Two instances, one with two request goroutines, sharing one Redis.      *)
(***************************************************************************)
EXTENDS ShortCodes, TLC

CONSTANTS i1, i2, t1, t2, u1

MCInstances == {i1, i2}
MCThreads == {t1, t2, u1}
MCHome == t1 :> i1 @@ t2 :> i1 @@ u1 :> i2

\* A cluster that is past its first block, and the first boot of one instance.
Running == [up |-> {i1, i2}, counter |-> 4]
FirstBootOfOne == [up |-> {i1}, counter |-> 0]
\* The first boot of docker-compose.yml: app-1 and app-2 on a fresh Redis.
FirstBootOfTwo == [up |-> {i1, i2}, counter |-> 0]

MCSafeDeployments == {Running, FirstBootOfOne}
MCComposeDeployments == {FirstBootOfTwo}

ASSUME SafeStart <=> Deployments = MCSafeDeployments
=============================================================================
