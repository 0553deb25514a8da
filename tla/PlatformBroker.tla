--------------------------- MODULE PlatformBroker ---------------------------
(***************************************************************************)
(* The pull-based platform request broker (mukei-core/src/platform.rs).    *)
(*                                                                         *)
(* Rust operations enqueue requests for Android and wait for the answer on *)
(* a Tokio task; Android threads drain the requests and submit one         *)
(* response each through JNI.  The broker's three containers are guarded   *)
(* by one mutex, so enqueue, drain, take_response and abandon are atomic;  *)
(* submit_response stores the response under the mutex and notifies the    *)
(* waiters after releasing it, and wait_for_response looks for a response  *)
(* and then creates the notification future: both are two steps here.      *)
(*                                                                         *)
(* A request id is a fresh UUID, so each member of Requests is enqueued    *)
(* at most once.  Android is an arbitrary environment: it may answer in    *)
(* any order, twice, or never.                                             *)
(***************************************************************************)
EXTENDS Naturals, Sequences, FiniteSets

CONSTANTS Requests,    \* request ids, one per enqueue of a run
          Capacity,    \* PlatformRequestBroker.capacity, clamped to >= 1
          DrainLimit   \* the limit argument of drain, clamped to >= 1

ASSUME BrokerAssumption ==
    /\ IsFiniteSet(Requests)
    /\ Capacity \in Nat \ {0}
    /\ DrainLimit \in Nat \ {0}

VARIABLES
    pending,     \* BrokerState.pending, a FIFO of request ids
    inFlight,    \* BrokerState.in_flight
    responses,   \* BrokerState.responses: the status, or "none"
    task,        \* where the operation's task is in wait_for_response
    notified,    \* notify_waiters ran since the task created its future
    notifying,   \* responses stored whose notify_waiters has not run yet
    cancelled,   \* the operation's cancellation token
    expired,     \* the 120 s budget of tokio::time::timeout has elapsed
    outcome,     \* what wait_for_response returned (or will return)
    answered     \* ghost: responses accepted while the budget was running

brokerVars == <<pending, inFlight, responses>>
waitVars   == <<task, notified, outcome>>
vars == <<pending, inFlight, responses, task, notified, notifying,
          cancelled, expired, outcome, answered>>

Status  == {"succeeded", "failed"}
Outcome == {"none", "succeeded", "failed", "cancelled", "timeout"}
TaskPc  == {"new", "enqueued", "check", "arm", "select", "abandon", "done",
            "rejected", "gone"}

RangeOf(s) == {s[i] : i \in DOMAIN s}
Completed  == {r \in Requests : responses[r] # "none"}

\* VecDeque::retain for an id that occurs at most once.
Without(s, r) ==
    IF r \in RangeOf(s)
      THEN LET k == CHOOSE i \in DOMAIN s : s[i] = r
           IN  [i \in 1..(Len(s) - 1) |-> IF i < k THEN s[i] ELSE s[i + 1]]
      ELSE s

\* Mutant: responses that wait for their consumer are not counted.
Outstanding_IgnoresResponses == Len(pending) + Cardinality(inFlight)

\* The requests counted against the capacity.
Outstanding == Len(pending) + Cardinality(inFlight) + Cardinality(Completed)

Init ==
    /\ pending = <<>>
    /\ inFlight = {}
    /\ responses = [r \in Requests |-> "none"]
    /\ task = [r \in Requests |-> "new"]
    /\ notified = [r \in Requests |-> FALSE]
    /\ notifying = {}
    /\ cancelled = {}
    /\ expired = {}
    /\ outcome = [r \in Requests |-> "none"]
    /\ answered = {}

(***************************************************************************)
(* The Rust side: enqueue, wait_for_response, abandon.                     *)
(***************************************************************************)

\* enqueue: QueueFull once the three containers together reach the capacity.
Enqueue(r) ==
    /\ task[r] = "new"
    /\ IF Outstanding >= Capacity
         THEN /\ task' = [task EXCEPT ![r] = "rejected"]
              /\ UNCHANGED pending
         ELSE /\ task' = [task EXCEPT ![r] = "enqueued"]
              /\ pending' = Append(pending, r)
    /\ UNCHANGED <<inFlight, responses, notified, notifying, cancelled,
                   expired, outcome, answered>>

\* The spawned task calls wait_for_response.
StartWait(r) ==
    /\ task[r] = "enqueued"
    /\ task' = [task EXCEPT ![r] = "check"]
    /\ UNCHANGED <<brokerVars, notified, notifying, cancelled, expired,
                   outcome, answered>>

\* revoke_document returns before waiting when the index cleanup failed:
\* nobody will take the response of r, and nobody abandons r.
NeverWait(r) ==
    /\ task[r] = "enqueued"
    /\ task' = [task EXCEPT ![r] = "gone"]
    /\ UNCHANGED <<brokerVars, notified, notifying, cancelled, expired,
                   outcome, answered>>

\* take_response at the head of the loop.  A stored response ends the wait,
\* and a failed one passes through abandon like any other error.
TakeResponse(r) ==
    /\ task[r] = "check"
    /\ IF responses[r] # "none"
         THEN /\ responses' = [responses EXCEPT ![r] = "none"]
              /\ outcome' = [outcome EXCEPT ![r] = responses[r]]
              /\ task' = [task EXCEPT ![r] =
                            IF responses[r] = "succeeded" THEN "done" ELSE "abandon"]
         ELSE /\ task' = [task EXCEPT ![r] = "arm"]
              /\ UNCHANGED <<responses, outcome>>
    /\ UNCHANGED <<pending, inFlight, notified, notifying, cancelled,
                   expired, answered>>

\* The select! is entered: response_changed.notified() creates a future that
\* sees the notify_waiters calls made from now on, and only those.
Arm(r) ==
    /\ task[r] = "arm"
    /\ task' = [task EXCEPT ![r] = "select"]
    /\ notified' = [notified EXCEPT ![r] = FALSE]
    /\ UNCHANGED <<brokerVars, notifying, cancelled, expired, outcome, answered>>

\* The notification branch of the select!.
WakeNotified(r) ==
    /\ task[r] = "select"
    /\ notified[r]
    /\ task' = [task EXCEPT ![r] = "check"]
    /\ UNCHANGED <<brokerVars, notified, notifying, cancelled, expired,
                   outcome, answered>>

\* The cancellation branch of the select!.
WakeCancelled(r) ==
    /\ task[r] = "select"
    /\ r \in cancelled
    /\ task' = [task EXCEPT ![r] = "abandon"]
    /\ outcome' = [outcome EXCEPT ![r] = "cancelled"]
    /\ UNCHANGED <<brokerVars, notified, notifying, cancelled, expired, answered>>

\* Mutant: only requests that Android has drained can time out.
WakeTimeout_OnlyInFlight(r) ==
    /\ task[r] = "select"
    /\ r \in expired /\ r \in inFlight /\ r \notin cancelled /\ ~notified[r]
    /\ task' = [task EXCEPT ![r] = "abandon"]
    /\ outcome' = [outcome EXCEPT ![r] = "timeout"]
    /\ UNCHANGED <<brokerVars, notified, notifying, cancelled, expired, answered>>

\* Mutant: the elapsed deadline is returned in place of the port's error.
WakeTimeout_RawElapsed(r) ==
    /\ task[r] = "select"
    /\ r \in expired /\ r \notin cancelled /\ ~notified[r]
    /\ task' = [task EXCEPT ![r] = "abandon"]
    /\ outcome' = [outcome EXCEPT ![r] = "elapsed"]
    /\ UNCHANGED <<brokerVars, notified, notifying, cancelled, expired, answered>>

\* tokio::time::timeout polls the wait first and the deadline only while the
\* wait is pending.
WakeTimeout(r) ==
    /\ task[r] = "select"
    /\ r \in expired /\ r \notin cancelled /\ ~notified[r]
    /\ task' = [task EXCEPT ![r] = "abandon"]
    /\ outcome' = [outcome EXCEPT ![r] = "timeout"]
    /\ UNCHANGED <<brokerVars, notified, notifying, cancelled, expired, answered>>

\* Mutant: abandon forgets a response that is already stored.
Abandon_KeepsResponse(r) ==
    /\ task[r] = "abandon"
    /\ task' = [task EXCEPT ![r] = "done"]
    /\ pending' = Without(pending, r)
    /\ inFlight' = inFlight \ {r}
    /\ UNCHANGED <<responses, notified, notifying, cancelled, expired, outcome,
                   answered>>

\* abandon: the request leaves whichever container holds it.
Abandon(r) ==
    /\ task[r] = "abandon"
    /\ task' = [task EXCEPT ![r] = "done"]
    /\ pending' = Without(pending, r)
    /\ inFlight' = inFlight \ {r}
    /\ responses' = [responses EXCEPT ![r] = "none"]
    /\ UNCHANGED <<notified, notifying, cancelled, expired, outcome, answered>>

\* The user cancels the operation, or the runtime shuts down.
Cancel(r) ==
    /\ r \notin cancelled /\ task[r] \notin {"new", "rejected"}
    /\ cancelled' = cancelled \cup {r}
    /\ UNCHANGED <<brokerVars, waitVars, notifying, expired, answered>>

\* The budget starts with the wait and runs out while it lasts.
Expire(r) ==
    /\ r \notin expired /\ task[r] \in {"check", "arm", "select"}
    /\ expired' = expired \cup {r}
    /\ UNCHANGED <<brokerVars, waitVars, notifying, cancelled, answered>>

(***************************************************************************)
(* The Android side, through JNI.                                          *)
(***************************************************************************)

\* drain: up to limit requests move, oldest first, to in_flight.  A drain
\* that times out on an empty queue changes nothing.
DrainCount_FullOnly ==  \* Mutant: only a full batch is handed out.
    IF Len(pending) < DrainLimit THEN 0 ELSE DrainLimit

DrainCount == IF Len(pending) < DrainLimit THEN Len(pending) ELSE DrainLimit

Drained == {pending[i] : i \in 1..DrainCount}

\* Mutant: the drained requests are not recorded as in flight.
DrainStep_Untracked ==
    /\ pending # <<>>
    /\ pending' = SubSeq(pending, DrainCount + 1, Len(pending))
    /\ UNCHANGED <<inFlight, responses, waitVars, notifying, cancelled, expired,
                   answered>>

DrainStep ==
    /\ pending # <<>>
    /\ inFlight' = inFlight \cup Drained
    /\ pending' = SubSeq(pending, DrainCount + 1, Len(pending))
    /\ UNCHANGED <<responses, waitVars, notifying, cancelled, expired, answered>>

\* Mutant: the answered request stays in flight.
Accept_KeepsInFlight(r, s) ==
    /\ r \in inFlight
    /\ responses' = [responses EXCEPT ![r] = s]
    /\ notifying' = notifying \cup {r}
    /\ UNCHANGED <<pending, inFlight, waitVars, cancelled, expired, answered>>

\* submit_response for a request that is in flight stores the response; any
\* other id is refused as UnknownRequest and changes nothing.
Accept(r, s) ==
    /\ r \in inFlight
    /\ inFlight' = inFlight \ {r}
    /\ responses' = [responses EXCEPT ![r] = s]
    /\ notifying' = notifying \cup {r}
    /\ UNCHANGED <<pending, waitVars, cancelled, expired, answered>>

\* ... and wakes every task that holds a notification future.
NotifyWaiters(r) ==
    /\ r \in notifying
    /\ notifying' = notifying \ {r}
    /\ notified' = [q \in Requests |-> notified[q] \/ task[q] = "select"]
    /\ answered' = IF r \in expired \/ outcome[r] # "none"
                     THEN answered ELSE answered \cup {r}
    /\ UNCHANGED <<brokerVars, task, cancelled, expired, outcome>>

TaskStep(r) ==
    \/ StartWait(r) \/ TakeResponse(r) \/ Arm(r)
    \/ WakeNotified(r) \/ WakeCancelled(r) \/ WakeTimeout(r) \/ Abandon(r)

Next ==
    \/ \E r \in Requests :
          \/ Enqueue(r) \/ NeverWait(r) \/ TaskStep(r)
          \/ Cancel(r) \/ Expire(r) \/ NotifyWaiters(r)
          \/ \E s \in Status : Accept(r, s)
    \/ DrainStep

Spec == Init /\ [][Next]_vars

-----------------------------------------------------------------------------
(***************************************************************************)
(* Properties                                                              *)
(***************************************************************************)

\* Every variable keeps its type, and the queue holds no id twice.
TypeOK ==
    /\ pending \in Seq(Requests)
    /\ inFlight \in SUBSET Requests
    /\ responses \in [Requests -> Status \cup {"none"}]
    /\ task \in [Requests -> TaskPc]
    /\ notified \in [Requests -> BOOLEAN]
    /\ notifying \in SUBSET Requests
    /\ cancelled \in SUBSET Requests
    /\ expired \in SUBSET Requests
    /\ outcome \in [Requests -> Outcome]
    /\ answered \in SUBSET Requests

\* A request is in at most one of the three containers, and in the queue at
\* most once, whatever Android answers and whenever its waiter gives up.
\* Without this, outstanding counts a request twice and a late response can
\* complete a request that is still queued.
SingleHolder ==
    /\ \A i, j \in DOMAIN pending : pending[i] = pending[j] => i = j
    /\ RangeOf(pending) \cap inFlight = {}
    /\ RangeOf(pending) \cap Completed = {}
    /\ inFlight \cap Completed = {}

\* Queued, drained and answered requests together never exceed the capacity
\* that enqueue checks, although only enqueue checks it.
CapacityRespected ==
    Len(pending) + Cardinality(inFlight) + Cardinality(Completed) <= Capacity

\* Once wait_for_response has returned, the request has left the broker for
\* good: a response that arrives after a cancellation or a timeout finds
\* nothing to complete and does not occupy capacity.
NoResidue ==
    \A r \in Requests : task[r] \in {"done", "rejected", "new"} =>
        r \notin RangeOf(pending) \cup inFlight \cup Completed

\* Every wait ends: by an answer, by the cancellation, or by the budget.
EveryWaitEnds ==
    \A r \in Requests : task[r] = "check" ~> task[r] = "done"

\* The error type's contract: Timeout means that "Android did not answer
\* within the operation budget".
TimeoutMeansNoAnswer ==
    \A r \in answered : outcome[r] # "timeout"

=============================================================================
