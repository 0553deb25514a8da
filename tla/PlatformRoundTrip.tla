------------------------- MODULE PlatformRoundTrip -------------------------
(***************************************************************************)
(* The broker composed with its only client, the Kotlin platform worker    *)
(* (BackendRuntimeHost.launchWorkers and AndroidPlatformRequestProcessor). *)
(*                                                                         *)
(* One thread drains a batch, executes the requests one after the other    *)
(* and submits one response for each before it looks at the next.  A       *)
(* receipt that carries an error makes processOnce throw; the exception    *)
(* ends the worker, and with it the host's run flag.                       *)
(***************************************************************************)
EXTENDS PlatformBroker

VARIABLES
    batch,      \* requests drained by the current processOnce, not yet answered
    worker,     \* "loop", "submit" (inside submitPlatformResponse), "failed"
    submitted   \* requests for which submitPlatformResponse was called

workerVars == <<batch, worker, submitted>>
allVars == <<vars, workerVars>>

RInit ==
    /\ Init
    /\ batch = <<>>
    /\ worker = "loop"
    /\ submitted = {}

\* processOnce: drainPlatformRequests returns the oldest requests.
ProcessDrain ==
    /\ worker = "loop" /\ batch = <<>>
    /\ DrainStep
    /\ batch' = SubSeq(pending, 1, DrainCount)
    /\ UNCHANGED <<worker, submitted>>

\* Mutant: the answered request is not removed from the batch.
ProcessAccepted_Repeats ==
    /\ worker = "loop" /\ batch # <<>>
    /\ \E s \in Status : Accept(Head(batch), s)
    /\ worker' = "submit"
    /\ submitted' = submitted \cup {Head(batch)}
    /\ UNCHANGED batch

\* execute(request) succeeded or failed, and the response of the next request
\* of the batch is accepted ...
ProcessAccepted ==
    /\ worker = "loop" /\ batch # <<>>
    /\ \E s \in Status : Accept(Head(batch), s)
    /\ worker' = "submit"
    /\ batch' = Tail(batch)
    /\ submitted' = submitted \cup {Head(batch)}

\* ... and submit_response notifies the waiting tasks before it returns.
ProcessNotified ==
    /\ worker = "submit"
    /\ \E r \in Requests : NotifyWaiters(r)
    /\ worker' = "loop"
    /\ UNCHANGED <<batch, submitted>>

\* The waiter gave up in the meantime: UnknownRequest, "platform_response_-
\* rejected", IllegalStateException.  The rest of the batch is dropped.
ProcessRejected ==
    /\ worker = "loop" /\ batch # <<>>
    /\ Head(batch) \notin inFlight
    /\ worker' = "failed"
    /\ batch' = <<>>
    /\ submitted' = submitted \cup {Head(batch)}
    /\ UNCHANGED vars

WorkerStep == ProcessDrain \/ ProcessAccepted \/ ProcessNotified \/ ProcessRejected

\* Operations start while the host runs; a task that was spawned continues.
RNext ==
    \/ WorkerStep
    \/ \E r \in Requests :
          /\ Enqueue(r) /\ worker # "failed"
          /\ UNCHANGED workerVars
    \/ \E r \in Requests :
          /\ NeverWait(r) \/ TaskStep(r) \/ Cancel(r) \/ Expire(r)
          /\ UNCHANGED workerVars

RSpec == RInit /\ [][RNext]_allVars

-----------------------------------------------------------------------------

\* The worker's bookkeeping agrees with the broker's types.
RTypeOK ==
    /\ TypeOK
    /\ batch \in Seq(Requests)
    /\ worker \in {"loop", "submit", "failed"}
    /\ submitted \in SUBSET Requests

\* The host loses its platform worker only because some operation abandoned
\* a request that Android was still executing: a response is never rejected
\* while its waiter waits.
WorkerFailsOnlyAfterAbandon ==
    worker = "failed" =>
        \E r \in submitted : task[r] = "done" /\ outcome[r] \in {"cancelled", "timeout"}

\* What the worker drained is what the broker considers in flight, up to the
\* requests that were abandoned: no request is executed twice, and none is in
\* flight without a worker that will answer it.
BatchMatchesInFlight ==
    worker # "failed" =>
        /\ inFlight \subseteq RangeOf(batch)
        /\ \A i, j \in DOMAIN batch : batch[i] = batch[j] => i = j
        /\ RangeOf(batch) \cap submitted = {}

\* Every queued request is executed and answered, or abandoned by its waiter,
\* however many others are queued: only the death of the worker strands one.
QueuedIsServed ==
    \A r \in Requests :
        r \in RangeOf(pending) ~>
            r \notin RangeOf(pending) \cup inFlight \/ worker = "failed"

=============================================================================
