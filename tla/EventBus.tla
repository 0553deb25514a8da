------------------------------ MODULE EventBus ------------------------------
(***************************************************************************)
(* The bounded event bus between the runtime and its host                  *)
(* (application_runtime/foundation_types.rs, EventBus).                    *)
(*                                                                         *)
(* Producers hold queue_lock for the whole of emit; purge_temporary_chat   *)
(* holds queue_lock and then the receiver.  The one draining thread takes  *)
(* only the receiver, so it interleaves with a producer between the        *)
(* try_send and the fetch_add that counts it, and with a purge that waits  *)
(* for the receiver.  sync_channel(capacity) is a bounded FIFO; a recv and *)
(* the decrement that follows it are one step.  A Temporary Chat reports   *)
(* only on conversation:<id> and operation:<id> streams of its own.        *)
(***************************************************************************)
EXTENDS Naturals, Sequences, FiniteSets

CONSTANTS Sources,         \* what producers emit: [stream, op] pairs
          PrivateStreams,  \* the streams of the Temporary Chat being ended
          PrivateOps,      \* its operation ids
          GapStream,       \* "application:events"
          Capacity,        \* RuntimeConfig.event_queue_capacity
          Limit,           \* the batch size of drain
          MaxEmits         \* bound on the events of a behaviour

Streams == {s.stream : s \in Sources} \cup {GapStream}
NoOp    == "no_op"        \* the operation_id None
Ops     == {s.op : s \in Sources} \cup {NoOp}

ASSUME BusAssumption ==
    /\ \A s \in Sources :
          /\ s = [stream |-> s.stream, op |-> s.op]
          /\ s.stream # GapStream
          /\ s.op \in PrivateOps => s.stream \in PrivateStreams
    /\ GapStream \notin PrivateStreams /\ PrivateStreams # {}
    /\ NoOp \notin PrivateOps
    /\ Capacity \in Nat \ {0} /\ Limit \in Nat \ {0} /\ MaxEmits \in Nat

VARIABLES
    queue,              \* the channel
    queued,             \* EventBus.queued
    dropped,            \* EventBus.dropped
    sequences,          \* EventBus.sequences; 0 is an absent entry
    suppressedStreams,  \* EventBus.suppressed_streams
    suppressedOps,      \* EventBus.suppressed_operations
    lock,               \* queue_lock: "free", or what its holder is doing
    receiver,           \* who holds the receiver: "none", "drain" or "purge"
    retained,           \* the retained vector of purge_temporary_chat
    drain,              \* where the draining thread is
    batch,              \* the events vector of drain
    hasMore,            \* EventDrain.has_more of the last batch
    emitted,            \* number of sequence numbers handed out to producers
    lost                \* ghost: number of events refused by a full queue

channel   == <<queue, queued, dropped, sequences>>
tombs     == <<suppressedStreams, suppressedOps>>
locks     == <<lock, receiver>>
answer    == <<hasMore>>
busVars   == <<channel, tombs, locks, retained, drain, batch, answer, emitted, lost>>

Event == [stream : Streams, op : Ops, seq : Nat \ {0}]

Suppressed(stream, op) == stream \in suppressedStreams \/ op \in suppressedOps
Private(e) == e.stream \in PrivateStreams \/ e.op \in PrivateOps

\* Saturating subtraction on usize.
Minus(a, b) == IF a > b THEN a - b ELSE 0

BusInit ==
    /\ queue = <<>> /\ queued = 0 /\ dropped = 0
    /\ sequences = [s \in Streams |-> 0]
    /\ suppressedStreams = {} /\ suppressedOps = {}
    /\ lock = "free" /\ receiver = "none" /\ retained = <<>>
    /\ drain = "idle" /\ batch = <<>>
    /\ hasMore = FALSE
    /\ emitted = 0 /\ lost = 0

(***************************************************************************)
(* Producers                                                               *)
(***************************************************************************)

\* Mutant: a full queue accepts one event more.
HasRoom_OffByOne == Len(queue) <= Capacity

\* try_send fails with Full when the channel holds Capacity events.
HasRoom == Len(queue) < Capacity

\* try_send of one event, numbered n, by the holder of queue_lock.
TrySend(s, n) ==
    IF HasRoom
      THEN /\ queue' = Append(queue, [stream |-> s.stream, op |-> s.op, seq |-> n])
           /\ lock' = "counting"
           /\ UNCHANGED <<dropped, lost>>
      ELSE /\ dropped' = dropped + 1 /\ lost' = lost + 1
           /\ UNCHANGED <<queue, lock>>

\* Mutant: the tombstones are not consulted.
Emit_NoTombstone(s) ==
    /\ lock = "free" /\ emitted < MaxEmits
    /\ emitted' = emitted + 1
    /\ sequences' = [sequences EXCEPT ![s.stream] = @ + 1]
    /\ TrySend(s, sequences[s.stream] + 1)
    /\ UNCHANGED <<queued, tombs, receiver, retained, drain, batch, answer>>

\* emit, up to try_send.  A sequence number is consumed whether or not the
\* queue has room; an event of a purged chat consumes none.
Emit(s) ==
    /\ lock = "free" /\ emitted < MaxEmits
    /\ ~Suppressed(s.stream, s.op)
    /\ emitted' = emitted + 1
    /\ sequences' = [sequences EXCEPT ![s.stream] = @ + 1]
    /\ TrySend(s, sequences[s.stream] + 1)
    /\ UNCHANGED <<queued, tombs, receiver, retained, drain, batch, answer>>

\* ... and the fetch_add that counts the queued event.
CountQueued ==
    /\ lock = "counting"
    /\ lock' = "free"
    /\ queued' = queued + 1
    /\ UNCHANGED <<queue, dropped, sequences, tombs, receiver, retained, drain,
                   batch, answer, emitted, lost>>

\* purge_temporary_chat takes queue_lock and writes the tombstones ...
PurgeStart ==
    /\ lock = "free" /\ ~(PrivateStreams \subseteq suppressedStreams)
    /\ lock' = "purging"
    /\ suppressedStreams' = suppressedStreams \cup PrivateStreams
    /\ suppressedOps' = suppressedOps \cup PrivateOps
    /\ UNCHANGED <<channel, receiver, retained, drain, batch, answer, emitted, lost>>

\* ... waits for the receiver, for as long as a drain polls ...
PurgeLock ==
    /\ lock = "purging" /\ receiver = "none"
    /\ receiver' = "purge"
    /\ UNCHANGED <<channel, tombs, lock, retained, drain, batch, answer, emitted, lost>>

\* Mutant: nothing is retained.
PurgeRecv_KeepsNothing ==
    /\ receiver = "purge" /\ queue # <<>>
    /\ queue' = Tail(queue)
    /\ queued' = Minus(queued, 1)
    /\ UNCHANGED <<dropped, sequences, tombs, locks, retained, drain, batch, answer, emitted, lost>>

\* ... takes every event out of the channel, keeping the public ones ...
PurgeRecv ==
    /\ receiver = "purge" /\ queue # <<>>
    /\ queue' = Tail(queue)
    /\ queued' = Minus(queued, 1)
    /\ retained' = IF Private(Head(queue)) THEN retained ELSE Append(retained, Head(queue))
    /\ UNCHANGED <<dropped, sequences, tombs, locks, drain, batch, answer, emitted, lost>>

\* Mutant: the events put back are not counted again.
PurgeRestore_Uncounted ==
    /\ receiver = "purge" /\ queue = <<>>
    /\ queue' = retained /\ retained' = <<>>
    /\ sequences' = [s \in Streams |-> IF s \in PrivateStreams THEN 0 ELSE sequences[s]]
    /\ lock' = "free" /\ receiver' = "none"
    /\ UNCHANGED <<queued, dropped, tombs, drain, batch, answer, emitted, lost>>

\* Mutant: the sequences of every stream are forgotten.
PurgeRestore_ForgetsAll ==
    /\ receiver = "purge" /\ queue = <<>>
    /\ queue' = retained /\ retained' = <<>>
    /\ queued' = queued + Len(retained)
    /\ sequences' = [s \in Streams |-> 0]
    /\ lock' = "free" /\ receiver' = "none"
    /\ UNCHANGED <<dropped, tombs, drain, batch, answer, emitted, lost>>

\* ... and puts those back, forgets the sequences and releases both locks.
PurgeRestore ==
    /\ receiver = "purge" /\ queue = <<>>
    /\ queue' = retained /\ retained' = <<>>
    /\ queued' = queued + Len(retained)
    /\ sequences' = [s \in Streams |-> IF s \in PrivateStreams THEN 0 ELSE sequences[s]]
    /\ lock' = "free" /\ receiver' = "none"
    /\ UNCHANGED <<dropped, tombs, drain, batch, answer, emitted, lost>>

(***************************************************************************)
(* The draining thread                                                     *)
(***************************************************************************)

\* dropped.swap(0), and the gap event when something was dropped.
DrainStart ==
    /\ drain = "idle"
    /\ dropped' = 0
    /\ drain' = "begun"
    /\ IF dropped > 0
         THEN /\ batch' = <<[stream |-> GapStream, op |-> NoOp,
                             seq |-> sequences[GapStream] + 1]>>
              /\ sequences' = [sequences EXCEPT ![GapStream] = @ + 1]
         ELSE UNCHANGED <<batch, sequences>>
    /\ UNCHANGED <<queue, queued, tombs, locks, retained, answer, emitted, lost>>

\* The receiver is locked only if the batch has room.
DrainLock ==
    /\ drain = "begun" /\ Len(batch) < Limit /\ receiver = "none"
    /\ receiver' = "drain" /\ drain' = "recv"
    /\ UNCHANGED <<channel, tombs, lock, retained, batch, answer, emitted, lost>>

\* Mutant: one place of the batch is kept free.
Recv_LeavesRoom ==
    /\ drain = "recv"
    /\ queue # <<>> /\ Len(batch) + 1 < Limit
    /\ batch' = Append(batch, Head(queue))
    /\ queue' = Tail(queue)
    /\ queued' = Minus(queued, 1)
    /\ UNCHANGED <<dropped, sequences, tombs, locks, retained, drain, answer, emitted, lost>>

\* recv_timeout or try_recv, and decrement_queued.
Recv ==
    /\ drain = "recv"
    /\ queue # <<>> /\ Len(batch) < Limit
    /\ batch' = Append(batch, Head(queue))
    /\ queue' = Tail(queue)
    /\ queued' = Minus(queued, 1)
    /\ UNCHANGED <<dropped, sequences, tombs, locks, retained, drain, answer, emitted, lost>>

\* The channel is empty, at once or when the timeout ran out, or the batch is
\* full: the receiver is released.
RecvStop ==
    /\ drain = "recv" /\ (queue = <<>> \/ Len(batch) = Limit)
    /\ receiver' = "none" /\ drain' = "received"
    /\ UNCHANGED <<channel, tombs, lock, retained, batch, answer, emitted, lost>>

\* has_more is computed after the receiver was released.
DrainEnd ==
    /\ drain = "received" \/ (drain = "begun" /\ Len(batch) = Limit)
    /\ drain' = "built"
    /\ hasMore' = (queued > 0 \/ dropped > 0)
    /\ UNCHANGED <<channel, tombs, locks, retained, batch, emitted, lost>>

\* The batch leaves for the host.
HandOver ==
    /\ drain = "built"
    /\ drain' = "idle"
    /\ batch' = <<>>
    /\ UNCHANGED <<channel, tombs, locks, retained, answer, emitted, lost>>

PurgeStep == PurgeStart \/ PurgeLock \/ PurgeRecv \/ PurgeRestore
DrainStep == DrainStart \/ DrainLock \/ Recv \/ RecvStop \/ DrainEnd

BusStep == (\E s \in Sources : Emit(s)) \/ CountQueued \/ PurgeStep \/ DrainStep

BusNext == BusStep \/ HandOver

BusSpec == BusInit /\ [][BusNext]_busVars

-----------------------------------------------------------------------------
(***************************************************************************)
(* Properties                                                              *)
(***************************************************************************)

\* Every variable keeps its type, and neither the queue nor a batch exceeds
\* its bound.
BusTypeOK ==
    /\ queue \in Seq(Event) /\ Len(queue) <= Capacity
    /\ batch \in Seq(Event) /\ Len(batch) <= Limit
    /\ queued \in Nat /\ dropped \in Nat /\ emitted \in Nat /\ lost \in Nat
    /\ sequences \in [Streams -> Nat]
    /\ suppressedStreams \in SUBSET PrivateStreams
    /\ suppressedOps \in SUBSET PrivateOps
    /\ retained \in Seq(Event)
    /\ lock \in {"free", "counting", "purging"}
    /\ receiver \in {"none", "drain", "purge"}
    /\ drain \in {"idle", "begun", "recv", "received", "built"}
    /\ hasMore \in BOOLEAN

\* "Producers that raced with session shutdown cannot enqueue content
\* afterwards": once a chat is purged, none of its events is in the channel.
PurgedStaysOut ==
    suppressedStreams # {} /\ lock # "purging" =>
        \A i \in DOMAIN queue : ~Private(queue[i])

\* The batch and the channel behind it hold each stream in sequence order,
\* without a number twice, also after a purge has rebuilt the channel and
\* although the gap event is numbered outside queue_lock.
PipelineOrdered ==
    LET pipe == batch \o retained \o queue
    IN  \A i, j \in DOMAIN pipe :
           i < j /\ pipe[i].stream = pipe[j].stream => pipe[i].seq < pipe[j].seq

\* The counter never misses an event: has_more is FALSE only if nothing but
\* an event still being counted is in the channel.
NoMissedBacklog ==
    Len(queue) <= queued + (IF lock = "counting" THEN 1 ELSE 0)

=============================================================================
