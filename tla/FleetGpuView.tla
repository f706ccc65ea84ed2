---------------------------- MODULE FleetGpuView ----------------------------
(***************************************************************************)
(* gpu_events_consumer.py: what a scheduler knows of one host's GPU and    *)
(* pod from the stream gpu:events.  The thread starts at "$" and asks for  *)
(* "$" again after every empty or failed read, so that what comes between  *)
(* two reads is only kept once a first event has been seen.  An event that *)
(* cannot be applied ends the thread; its view is then asked as before.    *)
(***************************************************************************)
EXTENDS Naturals, Sequences

CONSTANTS
  MaxGpuEvents,     \* bound
  MaxReadFailures   \* bound

ASSUME GpuViewAssumption == {MaxGpuEvents, MaxReadFailures} \subseteq Nat

VARIABLES
  gpuStream,    \* the events of the host
  viewRead,     \* where the thread is, and the last entry it knows; 0: "$"
  view,         \* HostState: known, beat: the last heartbeat is fresh, high, crash
  firstRead,    \* the entry the thread saw first; 0: none yet
  readFailures

viewVars == <<gpuStream, viewRead, view, firstRead, readFailures>>

GpuEvents == {"heartbeat", "vram_high", "vram_normal", "pod_crashloop", "pod_ready", "pod_notready", "broken"}
Unknown == [known |-> FALSE, beat |-> FALSE, high |-> FALSE, crash |-> FALSE]

ViewTypeOK ==
  /\ gpuStream \in Seq(GpuEvents) /\ Len(gpuStream) <= MaxGpuEvents
  /\ viewRead \in [at : {"between", "blocked", "apply", "ended"}, last : 0..MaxGpuEvents, upTo : 0..MaxGpuEvents]
  /\ view \in [known : BOOLEAN, beat : BOOLEAN, high : BOOLEAN, crash : BOOLEAN]
  /\ firstRead \in 0..MaxGpuEvents /\ readFailures \in 0..MaxReadFailures

ViewInit ==
  /\ gpuStream = <<>>
  /\ viewRead = [at |-> "between", last |-> 0, upTo |-> 0]
  /\ view = Unknown
  /\ firstRead = 0 /\ readFailures = 0

-----------------------------------------------------------------------------
GpuEvent(e) ==
  /\ Len(gpuStream) < MaxGpuEvents
  /\ gpuStream' = Append(gpuStream, e)
  /\ UNCHANGED <<viewRead, view, firstRead, readFailures>>

\* Mutant: the thread reads until it has seen an event.
ReadFromOnce ==
  /\ viewRead.at = "between" /\ firstRead = 0
  /\ viewRead' = [viewRead EXCEPT !.at = "blocked", !.last = Len(gpuStream)]
  /\ UNCHANGED <<gpuStream, view, firstRead, readFailures>>

\* xread from "$" or from the last entry.
ReadFrom ==
  /\ viewRead.at = "between"
  /\ viewRead' = [viewRead EXCEPT !.at = "blocked", !.last = IF firstRead = 0 THEN Len(gpuStream) ELSE @]
  /\ UNCHANGED <<gpuStream, view, firstRead, readFailures>>

\* It returns entries, or nothing, or fails.
ReadReturns ==
  /\ viewRead.at = "blocked" /\ viewRead.last < Len(gpuStream)
  /\ viewRead' = [viewRead EXCEPT !.at = "apply", !.upTo = Len(gpuStream)]
  /\ UNCHANGED <<gpuStream, view, firstRead, readFailures>>
ReadEmpty ==
  /\ viewRead.at = "blocked"
  /\ \/ viewRead.last = Len(gpuStream) /\ UNCHANGED readFailures
     \/ readFailures < MaxReadFailures /\ readFailures' = readFailures + 1
  /\ viewRead' = [viewRead EXCEPT !.at = "between"]
  /\ UNCHANGED <<gpuStream, view, firstRead>>

\* Mutant: a pod that is ready again stays in crashloop_pods.
AppliedKept(e) ==
  CASE e = "heartbeat"     -> [view EXCEPT !.known = TRUE, !.beat = TRUE]
    [] e = "vram_high"     -> [view EXCEPT !.known = TRUE, !.high = TRUE]
    [] e = "vram_normal"   -> [view EXCEPT !.known = TRUE, !.high = FALSE]
    [] e = "pod_crashloop" -> [view EXCEPT !.known = TRUE, !.crash = TRUE]
    [] OTHER               -> [view EXCEPT !.known = TRUE]

\* _apply; only pod_ready takes a pod out of crashloop_pods.
Applied(e) ==
  CASE e = "heartbeat"     -> [view EXCEPT !.known = TRUE, !.beat = TRUE]
    [] e = "vram_high"     -> [view EXCEPT !.known = TRUE, !.high = TRUE]
    [] e = "vram_normal"   -> [view EXCEPT !.known = TRUE, !.high = FALSE]
    [] e = "pod_crashloop" -> [view EXCEPT !.known = TRUE, !.crash = TRUE]
    [] e = "pod_ready"     -> [view EXCEPT !.known = TRUE, !.crash = FALSE]
    [] OTHER               -> [view EXCEPT !.known = TRUE]
Apply ==
  LET n == viewRead.last + 1  e == gpuStream[n]
  IN  /\ viewRead.at = "apply"
      /\ IF e = "broken"
           THEN viewRead' = [viewRead EXCEPT !.at = "ended"] /\ UNCHANGED <<view, firstRead, readFailures>>
           ELSE /\ viewRead' = [viewRead EXCEPT !.last = n, !.at = IF n = viewRead.upTo THEN "between" ELSE @]
                /\ view' = Applied(e)
                /\ firstRead' = IF firstRead = 0 THEN n ELSE firstRead
  /\ UNCHANGED <<gpuStream, readFailures>>

\* STALE_HEARTBEAT_S passes.
BeatGoesStale ==
  /\ view.beat
  /\ view' = [view EXCEPT !.beat = FALSE]
  /\ UNCHANGED <<gpuStream, viewRead, firstRead, readFailures>>

ViewNext ==
  \/ \E e \in GpuEvents : GpuEvent(e)
  \/ ReadFrom \/ ReadReturns \/ ReadEmpty \/ Apply \/ BeatGoesStale

\* The thread goes on; a read returns what there is.
ViewFairness == WF_viewVars(ReadFrom) /\ WF_viewVars(ReadReturns \/ Apply)

-----------------------------------------------------------------------------
\* can_schedule: refused for fresh bad news only.
CanSchedule == ~view.known \/ ~view.beat \/ (~view.crash /\ ~view.high)
\* What the events since the first that was seen say, in one place.
LastOf(kinds) ==
  {n \in 1..viewRead.last : n >= firstRead /\ gpuStream[n] \in kinds
     /\ \A m \in (n + 1)..viewRead.last : gpuStream[m] \notin kinds}

\* A host is refused only if the last word on its GPU was vram_high or on its
\* pod pod_crashloop, and never for an event that a later one has taken back.
RefusedForCause ==
  firstRead # 0 /\ ~CanSchedule =>
    \/ \E n \in LastOf({"vram_high", "vram_normal"}) : gpuStream[n] = "vram_high"
    \/ \E n \in LastOf({"pod_crashloop", "pod_ready"}) : gpuStream[n] = "pod_crashloop"

\* From the first event on none is overlooked, whatever reads failed, unless
\* one ended the thread.
ViewCatchesUp ==
  \A n \in 1..MaxGpuEvents :
    (firstRead # 0 /\ Len(gpuStream) >= n) ~> (viewRead.last >= n \/ viewRead.at = "ended")
=============================================================================
