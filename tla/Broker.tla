-------------------------------- MODULE Broker --------------------------------
(***************************************************************************)
(* credential_broker.py and broker_client.py: workers ask the broker to    *)
(* commit and push what is in their worktree.  The broker runs git step by *)
(* step, and other requests in between; a step that fails ends the request *)
(* with an error, and what the steps before did stays.                     *)
(***************************************************************************)
EXTENDS Naturals, FiniteSets

CONSTANTS
  Workers,          \* they share one worktree
  Edits,            \* the changes made to its files
  MaxGitFailures    \* bound on the git steps that fail

ASSUME BrokerAssumption == MaxGitFailures \in Nat

VARIABLES
  brokerUp,
  edit,         \* where a change is: none, dirty, staged, committed, pushed
  request,      \* how far the request of a worker is, and the commits of its HEAD
  response,     \* what a worker got: ok, error, or closed; it may have given up
  gitFailures

brokerVars == <<brokerUp, edit, request, response, gitFailures>>

NoRequest == [at |-> "none", head |-> {}]
BrokerTypeOK ==
  /\ brokerUp \in BOOLEAN
  /\ edit \in [Edits -> {"none", "dirty", "staged", "committed", "pushed"}]
  /\ request \in [Workers -> [at : {"none", "read", "status", "add", "commit", "head", "ok", "error"},
                              head : SUBSET Edits]]
  /\ response \in [Workers -> {"none", "waits", "ok", "error", "closed", "timeout"}]
  /\ gitFailures \in 0..MaxGitFailures

BrokerInit ==
  /\ brokerUp = TRUE
  /\ edit = [e \in Edits |-> "none"]
  /\ request = [w \in Workers |-> NoRequest]
  /\ response = [w \in Workers |-> "none"]
  /\ gitFailures = 0

EditsAt(place) == {e \in Edits : edit[e] = place}
MoveEdits(from, to) == edit' = [e \in Edits |-> IF edit[e] = from THEN to ELSE edit[e]]
StepTo(w, from, to) == request[w].at = from /\ request' = [request EXCEPT ![w].at = to]

-----------------------------------------------------------------------------
\* A worker edits a file, asks for git_push, and is told or stops waiting.
EditFile(e) ==
  /\ edit[e] = "none" /\ edit' = [edit EXCEPT ![e] = "dirty"]
  /\ UNCHANGED <<brokerUp, request, response, gitFailures>>
CallBroker(w) ==
  /\ request[w].at = "none" /\ response[w] # "waits"
  /\ IF brokerUp
       THEN /\ request' = [request EXCEPT ![w] = [at |-> "read", head |-> {}]]
            /\ response' = [response EXCEPT ![w] = "waits"]
       ELSE response' = [response EXCEPT ![w] = "closed"] /\ UNCHANGED request
  /\ UNCHANGED <<brokerUp, edit, gitFailures>>
CallTimesOut(w) ==
  /\ response[w] = "waits" /\ response' = [response EXCEPT ![w] = "timeout"]
  /\ UNCHANGED <<brokerUp, edit, request, gitFailures>>

\* _git_push: git status, which finds something to commit or ends the request, ...
GitStatus(w) ==
  /\ StepTo(w, "read", IF EditsAt("dirty") \union EditsAt("staged") = {} THEN "error" ELSE "status")
  /\ UNCHANGED <<brokerUp, edit, response, gitFailures>>
\* ... git add -A, ...
GitAdd(w) ==
  /\ StepTo(w, "status", "add")
  /\ MoveEdits("dirty", "staged")
  /\ UNCHANGED <<brokerUp, response, gitFailures>>
\* ... git commit, which fails when another request has committed it all, ...
GitCommit(w) ==
  /\ StepTo(w, "add", IF EditsAt("staged") = {} THEN "error" ELSE "commit")
  /\ MoveEdits("staged", "committed")
  /\ UNCHANGED <<brokerUp, response, gitFailures>>
\* ... git rev-parse, ...
GitHead(w) ==
  /\ request[w].at = "commit"
  /\ request' = [request EXCEPT ![w] = [at |-> "head", head |-> EditsAt("committed") \union EditsAt("pushed")]]
  /\ UNCHANGED <<brokerUp, edit, response, gitFailures>>

\* Mutant: the exit code of git push is not looked at.
GitPushUnchecked(w) ==
  /\ StepTo(w, "head", "ok")
  /\ MoveEdits("committed", "pushed") \/ UNCHANGED edit
  /\ UNCHANGED <<brokerUp, response, gitFailures>>

\* ... and git push.
GitPush(w) ==
  /\ StepTo(w, "head", "ok")
  /\ MoveEdits("committed", "pushed")
  /\ UNCHANGED <<brokerUp, response, gitFailures>>
\* Any of these may fail: on a lock of the repository, or on the network.
GitFails(w) ==
  /\ gitFailures < MaxGitFailures
  /\ request[w].at \in {"read", "status", "add", "head"}
  /\ request' = [request EXCEPT ![w].at = "error"]
  /\ gitFailures' = gitFailures + 1
  /\ UNCHANGED <<brokerUp, edit, response>>

\* Mutant: an error is logged, and not written to the client.
AnswerOkOnly(w) ==
  /\ request[w].at \in {"ok", "error"}
  /\ request' = [request EXCEPT ![w] = NoRequest]
  /\ response' = IF response[w] = "waits" /\ request[w].at = "ok"
                   THEN [response EXCEPT ![w] = "ok"] ELSE response
  /\ UNCHANGED <<brokerUp, edit, gitFailures>>

\* _handle_request and _client_connected: the answer, if somebody still waits.
AnswerClient(w) ==
  /\ request[w].at \in {"ok", "error"}
  /\ request' = [request EXCEPT ![w] = NoRequest]
  /\ response' = IF response[w] = "waits" THEN [response EXCEPT ![w] = request[w].at] ELSE response
  /\ UNCHANGED <<brokerUp, edit, gitFailures>>

\* SIGTERM closes the server; the requests under way are cancelled, or not.
BrokerStops ==
  /\ brokerUp /\ brokerUp' = FALSE
  /\ \E cancelled \in SUBSET {w \in Workers : request[w].at # "none"} :
       /\ request' = [w \in Workers |-> IF w \in cancelled THEN NoRequest ELSE request[w]]
       /\ response' = [w \in Workers |->
            IF w \in cancelled /\ response[w] = "waits" THEN "closed" ELSE response[w]]
  /\ UNCHANGED <<edit, gitFailures>>
\* _serve removes the socket that is left, and listens.
BrokerStarts ==
  /\ ~brokerUp /\ brokerUp' = TRUE
  /\ UNCHANGED <<edit, request, response, gitFailures>>

GitSteps(w) ==
  GitStatus(w) \/ GitAdd(w) \/ GitCommit(w) \/ GitHead(w) \/ GitPush(w) \/ AnswerClient(w)
BrokerNext ==
  \/ \E e \in Edits : EditFile(e)
  \/ \E w \in Workers : GitSteps(w) \/ GitFails(w) \/ CallBroker(w) \/ CallTimesOut(w)
  \/ BrokerStops \/ BrokerStarts
\* The event loop runs the handlers on.
BrokerFairness == \A w \in Workers : WF_brokerVars(GitSteps(w))

-----------------------------------------------------------------------------
\* {"commit_sha": ..., "pushed": True}: the commit a request answers with is at
\* the origin, also when other requests commit and push meanwhile.
AnsweredIsPushed ==
  \A w \in Workers : request[w].at = "ok" => request[w].head # {} /\ request[w].head \subseteq EditsAt("pushed")

\* Whoever waits gets an answer, an error included, or sees the connection close.
CallsEnd == \A w \in Workers : response[w] = "waits" ~> response[w] # "waits"
=============================================================================
