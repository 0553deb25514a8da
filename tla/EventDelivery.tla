---------------------------- MODULE EventDelivery ----------------------------
(***************************************************************************)
(* The event bus composed with the Android host that reads it: the event   *)
(* worker of BackendRuntimeHost drains a batch, EventSequenceTracker       *)
(* validates all of it, and only then are its events dispatched.  A batch  *)
(* the tracker refuses ends the worker; the tracker is reset only when the *)
(* host stops, so its contents after a refusal are not modelled.           *)
(***************************************************************************)
EXTENDS EventBus

VARIABLES
    last,   \* EventSequenceTracker.lastSequenceByStream; 0 is an absent entry
    first,  \* ghost: the first sequence number applied on each stream
    count,  \* ghost: the number of events applied on each stream
    host    \* "running", or "failed" once runWorker caught an exception

hostVars == <<last, first, count, host>>

Init ==
    /\ BusInit
    /\ last  = [s \in Streams |-> 0]
    /\ first = [s \in Streams |-> 0]
    /\ count = [s \in Streams |-> 0]
    /\ host = "running"

\* The positions of stream s in the batch.
At(s) == {i \in DOMAIN batch : batch[i].stream = s}

\* The number recorded for the stream of batch[i] when its turn comes.
Previous(i) ==
    LET earlier == {j \in At(batch[i].stream) : j < i}
    IN  IF earlier = {} THEN last[batch[i].stream]
        ELSE batch[CHOOSE j \in earlier : \A k \in earlier : k <= j].seq

\* Mutant: a forward gap is tolerated.
Accepts_Gaps ==
    \A i \in DOMAIN batch : Previous(i) = 0 \/ batch[i].seq > Previous(i)

\* Mutant: the comparison with the expected number is not strict.
Accepts_Strict ==
    \A i \in DOMAIN batch : Previous(i) = 0 \/ batch[i].seq = Previous(i)

\* accept throws neither event_sequence_not_monotonic nor event_sequence_gap.
\* The first event of a stream is accepted whatever its number.
Accepts ==
    \A i \in DOMAIN batch : Previous(i) = 0 \/ batch[i].seq = Previous(i) + 1

\* The numbers of stream s in the batch.
Numbers(s) == {batch[i].seq : i \in At(s)}
Least(S)    == CHOOSE n \in S : \A m \in S : n <= m
Greatest(S) == CHOOSE n \in S : \A m \in S : m <= n

\* drainEventBatch decodes the batch and the tracker accepts it.
Deliver ==
    /\ host = "running" /\ HandOver /\ Accepts
    /\ last'  = [s \in Streams |-> IF At(s) = {} THEN last[s] ELSE Greatest(Numbers(s))]
    /\ first' = [s \in Streams |-> IF At(s) = {} \/ first[s] # 0 THEN first[s]
                                   ELSE Least(Numbers(s))]
    /\ count' = [s \in Streams |-> count[s] + Cardinality(At(s))]
    /\ UNCHANGED host

\* The tracker throws: nothing of the batch is dispatched, the host stops.
Refuse ==
    /\ host = "running" /\ HandOver /\ ~Accepts
    /\ host' = "failed"
    /\ UNCHANGED <<last, first, count>>

\* The event worker drains while the host is active.
HostDrains == host = "running" /\ DrainStep /\ UNCHANGED hostVars

Produce == ((\E s \in Sources : Emit(s)) \/ CountQueued \/ PurgeStep) /\ UNCHANGED hostVars

Next == Produce \/ HostDrains \/ Deliver \/ Refuse

vars == <<busVars, hostVars>>

Spec == Init /\ [][Next]_vars

\* The executor thread of the host runs its loop; a thread inside emit or
\* purge_temporary_chat that holds both locks goes on.
FairSpec ==
    /\ Spec
    /\ WF_vars(HostDrains) /\ WF_vars(Deliver \/ Refuse)
    /\ WF_vars(CountQueued /\ UNCHANGED hostVars)
    /\ WF_vars((PurgeRecv \/ PurgeRestore) /\ UNCHANGED hostVars)

-----------------------------------------------------------------------------
(***************************************************************************)
(* Properties                                                              *)
(***************************************************************************)

\* Every variable keeps its type.
DeliveryTypeOK ==
    /\ BusTypeOK
    /\ {last, first, count} \subseteq [Streams -> Nat]
    /\ host \in {"running", "failed"}

\* The fail-closed tracker never stops a healthy host: it refuses a batch only
\* if a full queue really dropped an event.  Ending a Temporary Chat, which
\* removes events from the middle of the queue, makes no gap that it sees.
FailsOnlyAfterLoss == host = "failed" => lost > 0

\* What the running host has applied of a stream ends where the pipeline goes
\* on: the oldest event of a stream still in the pipeline follows the last one
\* applied, unless an event was dropped or the stream is being purged.
NothingSkipped ==
    LET pipe == batch \o retained \o queue
    IN  host = "running" /\ lost = 0 =>
          \A i \in DOMAIN pipe :
             pipe[i].stream \in suppressedStreams
             \/ (\E j \in 1..(i - 1) : pipe[j].stream = pipe[i].stream)
             \/ pipe[i].seq = last[pipe[i].stream] + 1

\* Also after losses: what was applied of a stream is an unbroken run of its
\* numbers, so a lifecycle is never projected with a hole in the middle.
NoHoleProjected ==
    \A s \in Streams : count[s] # 0 => count[s] = last[s] - first[s] + 1

\* The channel is emptied again and again, as long as the host runs; a drain
\* neither stalls with events before it nor loses the receiver to a purge.
QueueDrains == (queue # <<>>) ~> (queue = <<>> \/ host = "failed")

=============================================================================
