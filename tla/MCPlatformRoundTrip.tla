------------------------ MODULE MCPlatformRoundTrip ------------------------
(***************************************************************************)
(* PlatformRoundTrip for TLC: two requests that meet in every way, and a   *)
(* latecomer for which nobody waits (see NeverWait).  It is refused, or it *)
(* takes a place in the queue, in the worker's batch and, with its answer, *)
(* in the responses.                                                       *)
(***************************************************************************)
EXTENDS PlatformRoundTrip

CONSTANT Latecomer

MCNext ==
    /\ RNext
    /\ task'[Latecomer] \in {"new", "rejected", "enqueued"} /\ Latecomer \notin cancelled'

\* The worker thread loops as long as it lives, tokio polls a ready task, and
\* a timer fires.  Nothing is assumed of the user.
MCSpec ==
    /\ RInit /\ [][MCNext]_allVars
    /\ WF_allVars(WorkerStep)
    /\ \A r \in Requests \ {Latecomer} :
          /\ WF_allVars(TaskStep(r) /\ UNCHANGED workerVars)
          /\ WF_allVars(Expire(r) /\ UNCHANGED workerVars)

=============================================================================
