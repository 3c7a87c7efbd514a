---------------------------- MODULE LiveStatsMC ----------------------------
(***************************************************************************)
(* One link, one instance that counts its clicks, one reader.              *)
(***************************************************************************)
EXTENDS LiveStats, TLC

CONSTANTS a, h1, w1, w2, o1

MCHome == h1 :> w1
=============================================================================
