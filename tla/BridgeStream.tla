---------------------------- MODULE BridgeStream ----------------------------
(***************************************************************************)
(* ipc_bridge.py: one of the swarm's Redis streams, read by the processes  *)
(* of one host, which share one consumer group and one consumer name.      *)
(* consume() asks for new entries only, acknowledges each before anybody   *)
(* has handled it, and returns nothing at all if it fails on the way.      *)
(***************************************************************************)
EXTENDS Naturals, FiniteSets, Sequences

CONSTANTS
  BridgeProcs,
  Malformed,        \* entries that are not JSON
  BridgeBatch,      \* count
  StreamLength,     \* maxlen
  MaxEntries,       \* bound
  MaxBridgeFaults   \* bound: calls that fail, processes that die

ASSUME BridgeAssumption ==
  /\ {BridgeBatch, StreamLength} \subseteq Nat \ {0} /\ {MaxEntries, MaxBridgeFaults} \subseteq Nat
  /\ Malformed \subseteq 1..MaxEntries

VARIABLES
  published,    \* entries added; an entry is its number
  delivered,    \* the group's last-delivered entry
  listener,     \* where a process is, the entries it has still to parse, and to hand on
  handled,      \* how often an entry was given to a callback
  unheard       \* entries lost to a failure, a death or the trimming of the stream

bridgeVars == <<published, delivered, listener, handled, unheard>>

BridgeEntries == 1..MaxEntries
Listening == [at |-> "idle", batch |-> <<>>, events |-> <<>>]

BridgeTypeOK ==
  /\ published \in 0..MaxEntries /\ delivered \in 0..published
  /\ listener \in [BridgeProcs -> [at : {"idle", "read", "call"}, batch : Seq(BridgeEntries),
                                   events : Seq(BridgeEntries)]]
  /\ handled \in [BridgeEntries -> Nat]
  /\ unheard \subseteq BridgeEntries

BridgeInit ==
  /\ published = 0 /\ delivered = 0
  /\ listener = [p \in BridgeProcs |-> Listening]
  /\ handled = [e \in BridgeEntries |-> 0]
  /\ unheard = {}

-----------------------------------------------------------------------------
\* publish: XADD, which trims the stream.
Publish ==
  /\ published < MaxEntries /\ published' = published + 1
  /\ unheard' = unheard \union {e \in BridgeEntries : e > delivered /\ e + StreamLength <= published'}
  /\ UNCHANGED <<delivered, listener, handled>>

\* Mutant: the entries are read without the group.
BridgeReadAlone(p) ==
  /\ listener[p].at = "idle" /\ published > 0
  /\ listener' = [listener EXCEPT ![p] =
       [at |-> "read", batch |-> [i \in 1..published |-> i], events |-> <<>>]]
  /\ UNCHANGED <<published, delivered, handled, unheard>>

\* XREADGROUP >: the group moves on at once.
BridgeRead(p) ==
  LET first == IF published > delivered + StreamLength THEN published - StreamLength ELSE delivered
      last  == IF published > first + BridgeBatch THEN first + BridgeBatch ELSE published
  IN  /\ listener[p].at = "idle" /\ first < last
      /\ delivered' = last
      /\ listener' = [listener EXCEPT ![p] =
           [at |-> "read", batch |-> [i \in 1..(last - first) |-> first + i], events |-> <<>>]]
      /\ UNCHANGED <<published, handled, unheard>>

\* Mutant: an entry that is not JSON ends the loop.
ParseAckEnds(p) ==
  /\ listener[p].at = "read" /\ listener[p].batch # <<>>
  /\ LET e == Head(listener[p].batch)
     IN  listener' = [listener EXCEPT ![p].batch = IF e \in Malformed THEN <<>> ELSE Tail(@),
                        ![p].events = IF e \in Malformed THEN @ ELSE Append(@, e)]
  /\ UNCHANGED <<published, delivered, handled, unheard>>

\* The next entry is parsed and acknowledged; one that is not JSON is skipped,
\* and stays pending in the group.
ParseAck(p) ==
  /\ listener[p].at = "read" /\ listener[p].batch # <<>>
  /\ LET e == Head(listener[p].batch)
     IN  listener' = [listener EXCEPT ![p].batch = Tail(@),
                        ![p].events = IF e \in Malformed THEN @ ELSE Append(@, e)]
  /\ UNCHANGED <<published, delivered, handled, unheard>>

InHand(p) ==
  {e \in BridgeEntries : (\E i \in DOMAIN listener[p].batch : listener[p].batch[i] = e)
                           \/ \E i \in DOMAIN listener[p].events : listener[p].events[i] = e}
\* Redis fails in the middle, or the process dies: what it had read is not
\* delivered again.
ConsumeFails(p) ==
  /\ listener[p].at # "idle" /\ Cardinality(unheard) < MaxBridgeFaults
  /\ unheard' = unheard \union InHand(p)
  /\ listener' = [listener EXCEPT ![p] = Listening]
  /\ UNCHANGED <<published, delivered, handled>>

\* listen: the callback of each event, whose exception is only logged.
ConsumeReturns(p) ==
  /\ listener[p].at = "read" /\ listener[p].batch = <<>>
  /\ listener' = [listener EXCEPT ![p].at = "call"]
  /\ UNCHANGED <<published, delivered, handled, unheard>>
Callback(p) ==
  /\ listener[p].at = "call"
  /\ IF listener[p].events = <<>>
       THEN listener' = [listener EXCEPT ![p] = Listening] /\ UNCHANGED handled
       ELSE /\ listener' = [listener EXCEPT ![p].events = Tail(@)]
            /\ handled' = [handled EXCEPT ![Head(listener[p].events)] = @ + 1]
  /\ UNCHANGED <<published, delivered, unheard>>

ListenStep(p) == BridgeRead(p) \/ ParseAck(p) \/ ConsumeReturns(p) \/ Callback(p)
BridgeNext == Publish \/ \E p \in BridgeProcs : ListenStep(p) \/ ConsumeFails(p)

\* listen() loops.
BridgeFairness == \A p \in BridgeProcs : WF_bridgeVars(ListenStep(p))

-----------------------------------------------------------------------------
\* The processes of a host share its events: no callback sees one twice, also
\* after failures.
HandledOnce == \A e \in BridgeEntries : handled[e] <= 1

\* Every event that is well formed reaches a callback, behind malformed ones
\* too, unless the process that read it failed or the stream was trimmed.
EventsHandled ==
  \A e \in BridgeEntries \ Malformed : published >= e ~> (handled[e] > 0 \/ e \in unheard)
=============================================================================
