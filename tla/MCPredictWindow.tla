-------------------------- MODULE MCPredictWindow --------------------------
(***************************************************************************)
(* Three kinds of pods, and a plan time in each range of getTimeWeight.    *)
(***************************************************************************)
EXTENDS PredictWindow
=============================================================================
