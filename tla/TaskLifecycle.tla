--------------------------- MODULE TaskLifecycle ---------------------------
(***************************************************************************)
(* What a task store promises its users (task_queue.py: "pending ->        *)
(* claimed -> running -> completed/failed"): one claimer takes a pending   *)
(* task, only a claimed task is started or finished, and a completed task  *)
(* is completed for good.  Where the sweep of stale claims can bring back  *)
(* what it selected before (Resurrects), a completed task may come back.   *)
(***************************************************************************)
CONSTANTS Tasks, Claimers, Nobody, Resurrects

VARIABLES state, holder

Init ==
  /\ state = [t \in Tasks |-> "pending"]
  /\ holder = [t \in Tasks |-> Nobody]

Claim(c, t) ==
  /\ state[t] = "pending"
  /\ state' = [state EXCEPT ![t] = "claimed"]
  /\ holder' = [holder EXCEPT ![t] = c]

Start(t) ==
  /\ state[t] = "claimed"
  /\ state' = [state EXCEPT ![t] = "running"]
  /\ UNCHANGED holder

Finish(t) ==
  /\ state[t] \in {"claimed", "running"}
  /\ \E s \in {"completed", "failed"} : state' = [state EXCEPT ![t] = s]
  /\ UNCHANGED holder

Requeue(S) ==
  /\ \A t \in S : state[t] # "completed" \/ Resurrects
  /\ state' = [t \in Tasks |-> IF t \in S THEN "pending" ELSE state[t]]
  /\ holder' = [t \in Tasks |-> IF t \in S THEN Nobody ELSE holder[t]]

Next ==
  \/ \E t \in Tasks : (\E c \in Claimers : Claim(c, t)) \/ Start(t) \/ Finish(t)
  \/ \E S \in SUBSET Tasks : Requeue(S)

Spec == Init /\ [][Next]_<<state, holder>>
=============================================================================
