------------------------------- MODULE MCIpc --------------------------------
(* Model values for the runs of IpcRpc. *)
EXTENDS IpcRpc, TLC

CONSTANTS a1, a2, o1, v1, m1, m2, c1

MCTo == [m \in Msgs |-> IF m = m2 THEN Channel ELSE IF m = m1 THEN a1 ELSE a2]

\* Listing agents and working on the DLQ touch nothing in common: not at once.
Apart == (\A v \in Watchers : ids[v] = Idle) \/ (\A o \in Operators : job[o] = "none")
=============================================================================
