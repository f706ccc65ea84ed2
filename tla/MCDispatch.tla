------------------------------ MODULE MCDispatch ------------------------------
(***************************************************************************)
(* Two stages in parallel, perhaps in the same second, and a third after   *)
(* both that may send back to the first; or two background calls that      *)
(* compete for two GPUs of one host, both tracked, and a poller.           *)
(***************************************************************************)
EXTENDS Pipeline

CONSTANTS plan, test, check, back, side, cli, g1, g2, h1

Plan(gpu, tree) == [gpu |-> gpu, tree |-> tree]

MCHostOf == [g \in Gpus |-> h1]
MCWants  == [d \in Calls |->
              CASE d = plan -> {Plan("none", TRUE)}
                [] d = test -> {Plan("one", TRUE)}
                [] d = back -> {Plan("many", FALSE)}
                [] d = side -> {Plan("one", FALSE)}
                [] OTHER     -> {Plan("none", FALSE)}]
MCNeeds  == [s \in Stages |-> IF s = check THEN {plan, test} ELSE {}]
MCLoopTo == [s \in Stages |-> IF s = check THEN plan ELSE NoCall]

\* After an agent has ended its GPUs are free and its poller knows.
EndsNoticed == GpusComeBack /\ EndsAreSeen
=============================================================================
