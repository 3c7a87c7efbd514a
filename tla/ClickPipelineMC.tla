-------------------------- MODULE ClickPipelineMC --------------------------
(***************************************************************************)
(* Two instances with one worker and one redirect handler each, two codes. *)
(***************************************************************************)
EXTENDS ClickPipeline, TLC

CONSTANTS a, b, h1, h2, w1, w2

MCHome == h1 :> w1 @@ h2 :> w2
=============================================================================
