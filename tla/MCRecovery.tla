----------------------------- MODULE MCRecovery -----------------------------
(***************************************************************************)
(* The recoveries of the file board, and the components whose properties   *)
(* are invariants: the cascade of stores, remote runs and their retries,   *)
(* host ratings, the agents' keys in Redis, the file of blockers, and the  *)
(* messages of the board.  As in MCServices a behaviour runs one of them.  *)
(* The symmetry of MCTaskBoard permutes constants of the board alone.      *)
(***************************************************************************)
EXTENDS MCTaskBoard, Cascade, RemoteSession, HostRatings, AgentKeys, Collaborative,
        BoardMessages

CONSTANTS x1, x2, x3   \* clients, runs, dispatches, agents, callers
ASSUME Names == Cardinality({x1, x2, x3}) = 3

\* Two messages of x1, one to x2 and one to all, and one of x2 to all.
MCMailFrom == [m \in Mails |-> IF m = x3 THEN x2 ELSE x1]
MCMailTo   == [m \in Mails |-> IF m = x1 THEN x2 ELSE Everybody]

VARIABLE part   \* the component that runs in this behaviour

recoveryVars == <<part, vars, cascadeVars, remoteVars, ratingVars, agentKeyVars, collabVars, mailVars>>

On(p) == part = p
\* The components share no state: the others stay as they are.
Stays(p, v) == IF part = p THEN TRUE ELSE UNCHANGED v
OthersStay ==
  /\ UNCHANGED part
  /\ Stays("board", vars) /\ Stays("cascade", cascadeVars) /\ Stays("remote", remoteVars)
  /\ Stays("ratings", ratingVars) /\ Stays("agentKeys", agentKeyVars)
  /\ Stays("blockers", collabVars) /\ Stays("messages", mailVars)

RecoveryInit ==
  /\ part \in {"board", "cascade", "remote", "ratings", "agentKeys", "blockers", "messages"}
  /\ Init /\ CascadeInit /\ RemoteInit /\ RatingsInit /\ AgentKeysInit /\ CollabInit /\ MailInit
  /\ On("cascade") \/ storeUp["cb"]

RecoveryNext ==
  \/ On("board") /\ Next /\ OthersStay
  \/ On("cascade") /\ CascadeNext /\ OthersStay
  \/ On("remote") /\ RemoteNext /\ OthersStay
  \/ On("ratings") /\ RatingsNext /\ OthersStay
  \/ On("agentKeys") /\ AgentKeysNext /\ OthersStay
  \/ On("blockers") /\ CollabNext /\ OthersStay
  \/ On("messages") /\ MailNext /\ OthersStay

RecoverySpec == RecoveryInit /\ [][RecoveryNext]_recoveryVars

-----------------------------------------------------------------------------
\* Retries are counted although the count is read in one place and written in
\* another: those of a recovered task (remediations, swarm_lib) and of a run
\* on another host (remote_session), whose one-shot runs have a limit of
\* turns; and scores stay between 0 and 1000, and reward success
\* (performance_rating).
BoundsKept ==
  /\ RetriesCapped
  /\ HandedOutBounded /\ OneShotLimited
  /\ ScoresInRange /\ SuccessNeverHurts

\* The types, and: what was stored last is what is found, in the stores of the
\* cascade while one alone decides (slots and ledger), in the file of blockers
\* by calls that take turns, in a rating of the hour, and in the agents' keys,
\* which expire unless their agent died within two commands; and a message
\* is found, in an inbox or in the archive.
StoresCurrent ==
  /\ CascadeTypeOK /\ RemoteTypeOK /\ RatingsTypeOK /\ AgentKeysTypeOK /\ CollabTypeOK
  /\ MailTypeOK
  /\ OneSlotHolder /\ LedgerCurrent
  /\ TurnsPersist /\ RatingsCurrent /\ KeysExpire /\ MailKept
=============================================================================
