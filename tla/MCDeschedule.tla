---------------------------- MODULE MCDeschedule ----------------------------
(***************************************************************************)
(* A machine of two GPUs and one of a single GPU of another model, four    *)
(* pods on them in every way they fit, some of them nowhere.  Pair is a    *)
(* pod that is typical but not there.                                      *)
(***************************************************************************)
EXTENDS Deschedule

Small == [cpu |-> 1, milli |-> 1, num |-> 1, type |-> {}]
Half  == [cpu |-> 1, milli |-> 2, num |-> 1, type |-> {}]
Large == [cpu |-> 2, milli |-> 3, num |-> 1, type |-> {}]
Pair  == [cpu |-> 2, milli |-> 4, num |-> 2, type |-> {"V100"}]
NoGpu == [cpu |-> 2, milli |-> 0, num |-> 0, type |-> {}]

MCPodRes  == << Small, Half, Large, NoGpu >>
MCNodeRes == << [cpu |-> 5, cap |-> 5, gpu |-> <<4, 4>>, type |-> "V100"],
                [cpu |-> 3, cap |-> 3, gpu |-> <<4>>, type |-> "T4"] >>

MCDistributions == { Half :> 1 @@ Large :> 1, Small :> 1 @@ Pair :> 2 }
=============================================================================
