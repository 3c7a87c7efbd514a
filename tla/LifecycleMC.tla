---------------------------- MODULE LifecycleMC ----------------------------
(***************************************************************************)
(* The two instances of docker-compose.yml.                                *)
(***************************************************************************)
EXTENDS Lifecycle, TLC

CONSTANTS i1, i2
=============================================================================
