-------------------------- MODULE MCSchedulingCycle -------------------------
(***************************************************************************)
(* Two machines of two GPUs each, of different models and CPU, and one     *)
(* without GPUs; a pod of every sort; every policy the experiments run and *)
(* some they could.                                                        *)
(***************************************************************************)
EXTENDS SchedulingCycle

Small == [cpu |-> 1, milli |-> 1, num |-> 1, type |-> {}]
Half  == [cpu |-> 1, milli |-> 2, num |-> 1, type |-> {}]
Whole == [cpu |-> 2, milli |-> 4, num |-> 1, type |-> {}]
Pair  == [cpu |-> 2, milli |-> 4, num |-> 2, type |-> {"V100"}]
NoGpu == [cpu |-> 2, milli |-> 0, num |-> 0, type |-> {}]

MCPodRes  == "small" :> Small @@ "half" :> Half @@ "whole" :> Whole @@ "pair" :> Pair @@ "none" :> NoGpu
MCPods    == DOMAIN MCPodRes
MCNodes   == 1 .. 3
MCNodeRes == << [cpu |-> 4, cap |-> 4, gpu |-> <<4, 4>>, type |-> "V100"],
                [cpu |-> 3, cap |-> 3, gpu |-> <<4, 4>>, type |-> "T4"],
                [cpu |-> 2, cap |-> 2, gpu |-> <<>>, type |-> NoModel] >>

MCFrequency == Small :> 1 @@ Pair :> 1 @@ NoGpu :> 1 @@ Half :> 1

\* floor(1000000 * sigmoid(x / 16)) for x in 0 .. 32, to both sides of zero;
\* no difference of amounts here is larger.
Sixteenths ==
  << 500000, 515619, 531209, 546738, 562176, 577495, 592666, 607663,
   622459, 637030, 651354, 665410, 679178, 692641, 705785, 718594,
   731058, 743168, 754914, 766293, 777299, 787931, 798186, 808067,
   817574, 826711, 835483, 843895, 851952, 859663, 867035, 874077,
   880797 >>
MCSigmoid(d) == IF d >= 0 THEN Sixteenths[Min({d, 32}) + 1] ELSE 1000000 - Sixteenths[1 - Max({d, -32})]

\* 3y / (3 + y^2) for tanh(y), y = x / 10 in hundredths, as a whole percentage
\* of one minus it.
MCTanhScore(x) == LET y == (10 * x[1]) \div x[2] IN 100 - (30000 * y) \div (30000 + y * y)

Policy(score, select) == [score |-> score, select |-> select, dim |-> "share", norm |-> "max"]

MCPolicies ==
  { Policy("Random", "random"), Policy("GpuClustering", "best"), Policy("GpuPacking", "best"),
    Policy("BestFit", "best"), Policy("Simon", "worst"), Policy("FGD", "FGD"),
    Policy("FGDPP", "FGDPP"), Policy("CAFGD", "CAFGD"),
    [score |-> "DotProduct", select |-> "best", dim |-> "merge", norm |-> "max"] }
  \cup { [score |-> "DotProduct", select |-> "DotProduct", dim |-> m[1], norm |-> m[2]] :
           m \in { <<"share", "max">>, <<"divide", "node">>, <<"divide", "pod">>, <<"extend", "max">>,
                   <<"extend", "pod">> } }
=============================================================================
