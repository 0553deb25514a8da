--------------------------- MODULE EventBusProofs ---------------------------
(***************************************************************************)
(* The event bus for every set of sources, every capacity and batch size:  *)
(* types and bounds, the purge of a Temporary Chat, and the backlog count. *)
(***************************************************************************)
EXTENDS EventBus, TLAPS

\* Who holds the receiver agrees with where the two threads are, and what a
\* purge has set aside is public and fits the channel.
Holding ==
    /\ receiver = "purge" => lock = "purging"
    /\ (receiver = "drain") <=> (drain = "recv")
    /\ (drain = "begun" => Len(batch) <= Limit)
    /\ (drain = "idle" => batch = <<>>)
    /\ receiver # "purge" => retained = <<>>
    /\ Len(retained) + Len(queue) <= Capacity
    /\ \A i \in DOMAIN retained : ~Private(retained[i])

\* The tombstones are written all at once.
Tombs ==
    \/ suppressedStreams = {} /\ suppressedOps = {} /\ lock # "purging"
    \/ suppressedStreams = PrivateStreams /\ suppressedOps = PrivateOps

IInv == BusTypeOK /\ Holding /\ Tombs /\ PurgedStaysOut /\ NoMissedBacklog

-----------------------------------------------------------------------------

\* Taking the head of a sequence and appending to one, as the channel does.
LEMMA ChannelFacts ==
    ASSUME NEW S, NEW q \in Seq(S), NEW e \in S
    PROVE  /\ <<e>> \in Seq(S) /\ Len(<<e>>) = 1
           /\ Append(q, e) \in Seq(S) /\ Len(Append(q, e)) = Len(q) + 1
           /\ DOMAIN q = 1..Len(q) /\ Len(q) \in Nat
           /\ \A i \in DOMAIN Append(q, e) :
                 Append(q, e)[i] = IF i = Len(q) + 1 THEN e ELSE q[i]
           /\ q # <<>> => /\ Head(q) \in S /\ Head(q) = q[1]
                          /\ Tail(q) \in Seq(S) /\ Len(Tail(q)) = Len(q) - 1
                          /\ \A i \in DOMAIN Tail(q) : Tail(q)[i] = q[i + 1]
  OBVIOUS

\* Advancing one count of a table of counts.
LEMMA Advance ==
    ASSUME NEW S, NEW f \in [S -> Nat], NEW x \in S
    PROVE  [f EXCEPT ![x] = @ + 1] \in [S -> Nat]
  OBVIOUS

\* An event built by a producer, or by the drain, is an event.
LEMMA BuiltEvent ==
    /\ \A s \in Sources : s.stream \in Streams
    /\ GapStream \in Streams
    /\ \A s \in Sources, n \in Nat \ {0} : [stream |-> s.stream, op |-> s.op, seq |-> n] \in Event
    /\ \A n \in Nat \ {0} : [stream |-> GapStream, op |-> NoOp, seq |-> n] \in Event
  <1>1. (\A s \in Sources : s.stream \in Streams /\ s.op \in Ops) /\ NoOp \in Ops /\ GapStream \in Streams
    BY DEF Streams, Ops
  <1> QED BY <1>1 DEF Event

\* The empty bus satisfies the invariant.
LEMMA InitInv == BusInit => IInv
  <1> SUFFICES ASSUME BusInit PROVE IInv OBVIOUS
  <1> USE DEF BusInit
  <1>1. BusTypeOK
    <2>1. sequences \in [Streams -> Nat] OBVIOUS
    <2>2. hasMore \in BOOLEAN OBVIOUS
    <2> QED BY <2>1, <2>2, BusAssumption DEF BusTypeOK
  <1>2. Holding /\ Tombs BY BusAssumption DEF Holding, Tombs
  <1>3. PurgedStaysOut /\ NoMissedBacklog BY DEF PurgedStaysOut, NoMissedBacklog
  <1> QED BY <1>1, <1>2, <1>3 DEF IInv

\* Every step of a producer, of a purge and of the draining thread keeps it.
LEMMA StepInv == IInv /\ [BusNext]_busVars => IInv'
  <1> SUFFICES ASSUME IInv, [BusNext]_busVars PROVE IInv' OBVIOUS
  <1> USE DEF IInv
  <1>1. CASE UNCHANGED busVars
    BY <1>1 DEF BusTypeOK, Holding, Tombs, PurgedStaysOut, NoMissedBacklog, Private,
       busVars, channel, tombs, locks, answer
  <1>2. ASSUME NEW s \in Sources, Emit(s) PROVE IInv'
    <2> DEFINE e == [stream |-> s.stream, op |-> s.op, seq |-> sequences[s.stream] + 1]
    <2> USE <1>2 DEF Emit, TrySend, tombs, answer
    <2>1. e \in Event
      <3>1. s.stream \in Streams /\ sequences \in [Streams -> Nat] BY BuiltEvent DEF BusTypeOK
      <3>2. sequences[s.stream] + 1 \in Nat \ {0} BY <3>1
      <3> QED BY <3>2, BuiltEvent
    <2>2. ~Private(e) \/ (suppressedStreams = {} /\ suppressedOps = {} /\ lock # "purging")
      BY DEF Tombs, Suppressed, Private
    <2> HIDE DEF e
    <2>3. \/ Len(queue) < Capacity /\ queue' = Append(queue, e) /\ lock' = "counting"
          \/ UNCHANGED <<queue, lock>>
      BY DEF e, HasRoom
    <2>4. BusTypeOK'
      <3>1. queue' \in Seq(Event) /\ Len(queue') <= Capacity
        <4>1. queue \in Seq(Event) /\ Len(queue) <= Capacity BY DEF BusTypeOK
        <4>2. Append(queue, e) \in Seq(Event) /\ Len(Append(queue, e)) = Len(queue) + 1
          BY <4>1, <2>1, ChannelFacts
        <4> QED BY <4>1, <4>2, <2>3, BusAssumption
      <3>2. sequences' \in [Streams -> Nat]
        <4>1. sequences \in [Streams -> Nat] /\ s.stream \in Streams BY BuiltEvent DEF BusTypeOK
        <4>2. sequences' = [sequences EXCEPT ![s.stream] = @ + 1] OBVIOUS
        <4> QED BY ONLY <4>1, <4>2, Advance
      <3>3. dropped' \in Nat /\ lost' \in Nat /\ emitted' \in Nat
        <4>1. dropped \in Nat /\ lost \in Nat /\ emitted \in Nat BY DEF BusTypeOK
        <4>2. /\ dropped' = dropped \/ dropped' = dropped + 1
              /\ lost' = lost \/ lost' = lost + 1
              /\ emitted' = emitted + 1
          OBVIOUS
        <4> QED BY ONLY <4>1, <4>2
      <3>4. lock' \in {"free", "counting", "purging"} BY <2>3 DEF BusTypeOK
      <3>5. UNCHANGED <<queued, batch, suppressedStreams, suppressedOps, retained, receiver,
                        drain, hasMore>>
        OBVIOUS
      <3>6. BusTypeOK OBVIOUS
      <3> QED BY ONLY <3>1, <3>2, <3>3, <3>4, <3>5, <3>6 DEF BusTypeOK
    <2>5. Holding'
      <3>1. Len(retained') + Len(queue') <= Capacity
        <4>1. queue \in Seq(Event) /\ retained' = retained /\ Len(retained) + Len(queue) <= Capacity
          BY DEF BusTypeOK, Holding
        <4>2. CASE UNCHANGED <<queue, lock>> BY <4>1, <4>2
        <4>3. CASE Len(queue) < Capacity /\ queue' = Append(queue, e) /\ lock' = "counting"
          <5>1. retained = <<>> BY DEF Holding
          <5>2. Len(queue') = Len(queue) + 1 /\ Len(queue) \in Nat
            BY ONLY <4>1, <4>3, <2>1, ChannelFacts
          <5> QED BY ONLY <4>1, <4>3, <5>1, <5>2, BusAssumption
        <4> QED BY <2>3, <4>2, <4>3
      <3> QED BY <3>1, <2>3 DEF Holding, Private
    <2>6. Tombs' BY DEF Tombs
    <2>7. PurgedStaysOut'
      <3> SUFFICES ASSUME suppressedStreams # {}, lock' # "purging", NEW i \in DOMAIN queue'
                   PROVE  ~Private(queue'[i])
        BY DEF PurgedStaysOut, Private
      <3>1. \A j \in DOMAIN queue : ~Private(queue[j]) BY DEF PurgedStaysOut
      <3>2. ~Private(e) BY <2>2
      <3>3. queue \in Seq(Event) BY DEF BusTypeOK
      <3> QED BY <2>1, <2>3, <3>1, <3>2, <3>3, ChannelFacts
    <2>8. NoMissedBacklog'
      BY <2>1, <2>3, ChannelFacts DEF NoMissedBacklog, BusTypeOK
    <2> QED BY <2>4, <2>5, <2>6, <2>7, <2>8
  <1>3. CASE CountQueued
    <2> USE <1>3 DEF CountQueued, tombs, answer
    <2>1. BusTypeOK' BY DEF BusTypeOK
    <2>2. Holding' /\ Tombs' BY DEF Holding, Tombs, Private
    <2>3. PurgedStaysOut' /\ NoMissedBacklog' BY DEF PurgedStaysOut, NoMissedBacklog, Private, BusTypeOK
    <2> QED BY <2>1, <2>2, <2>3
  <1>4. CASE PurgeStart
    <2> USE <1>4 DEF PurgeStart, channel, answer
    <2>1. BusTypeOK' BY DEF BusTypeOK
    <2>2. Holding' /\ Tombs' BY DEF Holding, Tombs, Private
    <2>3. PurgedStaysOut' /\ NoMissedBacklog' BY DEF PurgedStaysOut, NoMissedBacklog, Private, BusTypeOK
    <2> QED BY <2>1, <2>2, <2>3
  <1>5. CASE PurgeLock
    <2> USE <1>5 DEF PurgeLock, channel, tombs, answer
    <2>1. BusTypeOK' BY DEF BusTypeOK
    <2>2. Holding' /\ Tombs' BY DEF Holding, Tombs, Private
    <2>3. PurgedStaysOut' /\ NoMissedBacklog' BY DEF PurgedStaysOut, NoMissedBacklog, Private, BusTypeOK
    <2> QED BY <2>1, <2>2, <2>3
  <1>6. CASE PurgeRecv
    <2> USE <1>6 DEF PurgeRecv, tombs, locks, answer
    <2>1. BusTypeOK'
      <3>1. queue' \in Seq(Event) /\ Len(queue') <= Capacity /\ retained' \in Seq(Event)
        BY ChannelFacts, BusAssumption DEF BusTypeOK
      <3>2. queued' \in Nat BY DEF BusTypeOK, Minus
      <3> QED BY <3>1, <3>2 DEF BusTypeOK
    <2>2. Holding'
      <3>1. retained \in Seq(Event) /\ Head(queue) \in Event /\ queue \in Seq(Event)
        BY ChannelFacts DEF BusTypeOK
      <3>2. Len(retained') + Len(queue') <= Capacity
        BY <3>1, ChannelFacts, BusAssumption DEF Holding
      <3>3. \A i \in DOMAIN retained' : ~Private(retained'[i])
        BY <3>1, ChannelFacts DEF Holding
      <3> QED BY <3>2, <3>3 DEF Holding, Private
    <2>3. Tombs' BY DEF Tombs
    <2>4. PurgedStaysOut' BY DEF PurgedStaysOut, Holding
    <2>5. NoMissedBacklog' BY ChannelFacts DEF NoMissedBacklog, Holding, BusTypeOK, Minus
    <2> QED BY <2>1, <2>2, <2>3, <2>4, <2>5
  <1>7. CASE PurgeRestore
    <2> USE <1>7 DEF PurgeRestore, tombs, answer
    <2>1. BusTypeOK'
      <3>1. sequences' \in [Streams -> Nat] BY DEF BusTypeOK
      <3>2. queue' \in Seq(Event) /\ Len(queue') <= Capacity /\ retained' \in Seq(Event)
            /\ queued' \in Nat
        BY BusAssumption DEF BusTypeOK, Holding
      <3> QED BY <3>1, <3>2 DEF BusTypeOK
    <2>2. Holding' BY BusAssumption DEF Holding, Private, BusTypeOK
    <2>3. Tombs' BY DEF Tombs, Holding
    <2>4. PurgedStaysOut' BY DEF PurgedStaysOut, Holding, Private
    <2>5. NoMissedBacklog' BY DEF NoMissedBacklog, BusTypeOK
    <2> QED BY <2>1, <2>2, <2>3, <2>4, <2>5
  <1>8. CASE DrainStart
    <2> USE <1>8 DEF DrainStart, tombs, locks, answer
    <2> DEFINE g == [stream |-> GapStream, op |-> NoOp, seq |-> sequences[GapStream] + 1]
    <2>1. g \in Event
      <3>1. GapStream \in Streams /\ sequences \in [Streams -> Nat] BY BuiltEvent DEF BusTypeOK
      <3>2. sequences[GapStream] + 1 \in Nat \ {0} BY <3>1
      <3> QED BY <3>2, BuiltEvent
    <2>2. sequences' \in [Streams -> Nat] BY BuiltEvent DEF BusTypeOK
    <2>3. batch' = <<g>> \/ batch' = <<>> BY DEF Holding
    <2> HIDE DEF g
    <2>4. batch' \in Seq(Event) /\ Len(batch') <= Limit
      <3>1. Limit \in Nat /\ Limit >= 1 BY BusAssumption
      <3>2. CASE batch' = <<g>> BY <2>1, <3>1, <3>2, <<>> \in Seq(Event), ChannelFacts
      <3>3. CASE batch' = <<>> BY <3>1, <3>3
      <3> QED BY <2>3, <3>2, <3>3
    <2>5. BusTypeOK' BY <2>2, <2>4 DEF BusTypeOK
    <2>6. Holding' /\ Tombs' BY <2>4 DEF Holding, Tombs, Private
    <2>7. PurgedStaysOut' /\ NoMissedBacklog' BY DEF PurgedStaysOut, NoMissedBacklog, Private
    <2> QED BY <2>5, <2>6, <2>7
  <1>9. CASE DrainLock
    <2> USE <1>9 DEF DrainLock, channel, tombs, answer
    <2>1. BusTypeOK' BY DEF BusTypeOK
    <2>2. Holding' /\ Tombs' BY DEF Holding, Tombs, Private
    <2>3. PurgedStaysOut' /\ NoMissedBacklog' BY DEF PurgedStaysOut, NoMissedBacklog, Private
    <2> QED BY <2>1, <2>2, <2>3
  <1>10. CASE Recv
    <2> USE <1>10 DEF Recv, tombs, locks, answer
    <2>1. BusTypeOK'
      <3>1. /\ queue \in Seq(Event) /\ Len(queue) <= Capacity /\ queue # <<>>
            /\ batch \in Seq(Event) /\ Len(batch) < Limit /\ queued \in Nat
        BY DEF BusTypeOK
      <3>2. /\ queue' = Tail(queue) /\ batch' = Append(batch, Head(queue))
            /\ queued' = Minus(queued, 1)
        OBVIOUS
      <3>3. /\ Head(queue) \in Event /\ Tail(queue) \in Seq(Event)
            /\ Len(Tail(queue)) = Len(queue) - 1 /\ Len(queue) \in Nat
        BY ONLY <3>1
      <3>4. /\ Append(batch, Head(queue)) \in Seq(Event)
            /\ Len(Append(batch, Head(queue))) = Len(batch) + 1 /\ Len(batch) \in Nat
        BY ONLY <3>1, <3>3, ChannelFacts
      <3>5. queue' \in Seq(Event) /\ Len(queue') <= Capacity
        BY ONLY <3>1, <3>2, <3>3, BusAssumption
      <3>6. batch' \in Seq(Event) /\ Len(batch') <= Limit
        BY ONLY <3>1, <3>2, <3>4, BusAssumption
      <3>7. queued' \in Nat BY ONLY <3>1, <3>2 DEF Minus
      <3>8. UNCHANGED <<dropped, emitted, lost, sequences, suppressedStreams, suppressedOps,
                        retained, lock, receiver, drain, hasMore>>
        OBVIOUS
      <3>9. BusTypeOK OBVIOUS
      <3> QED BY ONLY <3>5, <3>6, <3>7, <3>8, <3>9 DEF BusTypeOK
    <2>2. Holding' /\ Tombs' BY ChannelFacts, BusAssumption DEF Holding, Tombs, Private, BusTypeOK
    <2>3. PurgedStaysOut' BY ChannelFacts DEF PurgedStaysOut, Private, BusTypeOK
    <2>4. NoMissedBacklog' BY ChannelFacts DEF NoMissedBacklog, BusTypeOK, Minus
    <2> QED BY <2>1, <2>2, <2>3, <2>4
  <1>11. CASE RecvStop
    <2> USE <1>11 DEF RecvStop, channel, tombs, answer
    <2>1. BusTypeOK' BY DEF BusTypeOK
    <2>2. Holding' /\ Tombs' BY DEF Holding, Tombs, Private
    <2>3. PurgedStaysOut' /\ NoMissedBacklog' BY DEF PurgedStaysOut, NoMissedBacklog, Private
    <2> QED BY <2>1, <2>2, <2>3
  <1>12. CASE DrainEnd
    <2> USE <1>12 DEF DrainEnd, channel, tombs, locks
    <2>1. BusTypeOK' BY DEF BusTypeOK
    <2>2. Holding' /\ Tombs' BY DEF Holding, Tombs, Private
    <2>3. PurgedStaysOut' /\ NoMissedBacklog' BY DEF PurgedStaysOut, NoMissedBacklog, Private
    <2> QED BY <2>1, <2>2, <2>3
  <1>13. CASE HandOver
    <2> USE <1>13 DEF HandOver, channel, tombs, locks, answer
    <2>1. BusTypeOK' BY BusAssumption DEF BusTypeOK
    <2>2. Holding' /\ Tombs' BY DEF Holding, Tombs, Private
    <2>3. PurgedStaysOut' /\ NoMissedBacklog' BY DEF PurgedStaysOut, NoMissedBacklog, Private
    <2> QED BY <2>1, <2>2, <2>3
  <1> QED
    BY <1>1, <1>2, <1>3, <1>4, <1>5, <1>6, <1>7, <1>8, <1>9, <1>10, <1>11, <1>12, <1>13
       DEF BusNext, BusStep, PurgeStep, DrainStep

\* Purge and backlog: after a Temporary Chat was purged no event of it is in
\* the channel again, however producers race with the purge; and the counter
\* that has_more is computed from never misses a queued event.
THEOREM BusSafety == BusSpec => [](BusTypeOK /\ PurgedStaysOut /\ NoMissedBacklog)
  <1>1. IInv => BusTypeOK /\ PurgedStaysOut /\ NoMissedBacklog BY DEF IInv
  <1> QED BY InitInv, StepInv, <1>1, PTL DEF BusSpec

-----------------------------------------------------------------------------
(***************************************************************************)
(* Order: the pipeline is batch, then retained, then queue, and each       *)
(* stream's numbers increase along it.                                     *)
(***************************************************************************)

Sorted(p) ==
    \A i, j \in DOMAIN p : i < j /\ p[i].stream = p[j].stream => p[i].seq < p[j].seq

Before(p, q) ==
    \A i \in DOMAIN p, j \in DOMAIN q : p[i].stream = q[j].stream => p[i].seq < q[j].seq

\* No event of p has a number its stream has not reached yet; the stream of a
\* purged chat, whose count starts again, takes no further events.
Reached(p) ==
    \A i \in DOMAIN p : p[i].stream \in suppressedStreams \/ p[i].seq <= sequences[p[i].stream]

NoGap(p) == \A i \in DOMAIN p : p[i].stream # GapStream

\* Each pair of parts, and each part, is in order.
Order ==
    /\ Sorted(batch) /\ Sorted(retained) /\ Sorted(queue)
    /\ Before(batch, retained) /\ Before(batch, queue) /\ Before(retained, queue)
    /\ Reached(batch) /\ Reached(retained) /\ Reached(queue)
    /\ NoGap(retained) /\ NoGap(queue)

\* A sequence of ordered parts is ordered.
LEMMA Concatenation ==
    ASSUME NEW p \in Seq(Event), NEW q \in Seq(Event), Sorted(p), Sorted(q), Before(p, q)
    PROVE  /\ p \o q \in Seq(Event)
           /\ Sorted(p \o q)
           /\ \A i \in DOMAIN (p \o q) :
                 \/ i \in DOMAIN p /\ (p \o q)[i] = p[i]
                 \/ \E j \in DOMAIN q : (p \o q)[i] = q[j]
  <1>1. p \o q \in Seq(Event) /\ Len(p \o q) = Len(p) + Len(q) OBVIOUS
  <1>2. \A i \in DOMAIN (p \o q) :
           (p \o q)[i] = IF i <= Len(p) THEN p[i] ELSE q[i - Len(p)]
    OBVIOUS
  <1>3. \A i \in DOMAIN (p \o q) : i \in Nat /\ i >= 1 /\ i <= Len(p) + Len(q)
                                   /\ (i <= Len(p) => i \in DOMAIN p)
                                   /\ (i > Len(p) => i - Len(p) \in DOMAIN q)
    BY <1>1
  <1>4. Len(p) \in Nat OBVIOUS
  <1>5. Sorted(p \o q)
    <2> SUFFICES ASSUME NEW i \in DOMAIN (p \o q), NEW j \in DOMAIN (p \o q), i < j,
                        (p \o q)[i].stream = (p \o q)[j].stream
                 PROVE  (p \o q)[i].seq < (p \o q)[j].seq
      BY DEF Sorted
    <2>1. CASE j <= Len(p) BY <2>1, <1>2, <1>3, <1>4 DEF Sorted
    <2>2. CASE i <= Len(p) /\ j > Len(p) BY <2>2, <1>2, <1>3, <1>4 DEF Before
    <2>3. CASE i > Len(p)
      <3>1. i - Len(p) \in DOMAIN q /\ j - Len(p) \in DOMAIN q /\ i - Len(p) < j - Len(p)
        BY <2>3, <1>3, <1>4
      <3>2. (p \o q)[i] = q[i - Len(p)] /\ (p \o q)[j] = q[j - Len(p)]
        BY <2>3, <1>2, <1>3, <1>4
      <3> QED BY <3>1, <3>2 DEF Sorted
    <2> QED BY <2>1, <2>2, <2>3, <1>3, <1>4
  <1>6. ASSUME NEW i \in DOMAIN (p \o q)
        PROVE  \/ i \in DOMAIN p /\ (p \o q)[i] = p[i]
               \/ \E j \in DOMAIN q : (p \o q)[i] = q[j]
    BY <1>2, <1>3, <1>4
  <1> QED BY <1>1, <1>5, <1>6

\* The pairwise order is the order of the pipeline.
LEMMA OrderGivesPipeline == BusTypeOK /\ Order => PipelineOrdered
  <1> SUFFICES ASSUME BusTypeOK, Order PROVE PipelineOrdered OBVIOUS
  <1> DEFINE p == batch \o retained
  <1>1. batch \in Seq(Event) /\ retained \in Seq(Event) /\ queue \in Seq(Event)
    BY DEF BusTypeOK
  <1>2. /\ p \in Seq(Event) /\ Sorted(p)
        /\ \A i \in DOMAIN p : \/ i \in DOMAIN batch /\ p[i] = batch[i]
                               \/ \E j \in DOMAIN retained : p[i] = retained[j]
    BY <1>1, Concatenation DEF Order
  <1>3. Before(p, queue)
    BY <1>2 DEF Order, Before
  <1> HIDE DEF p
  <1>4. Sorted(p \o queue)
    BY <1>1, <1>2, <1>3, Concatenation DEF Order
  <1> QED BY <1>4 DEF PipelineOrdered, Sorted, p

\* The head of an ordered channel moves to the end of what was taken before.
LEMMA MoveHead ==
    ASSUME NEW p \in Seq(Event), NEW q \in Seq(Event), q # <<>>,
           Sorted(p), Sorted(q), Before(p, q)
    PROVE  /\ Sorted(Append(p, Head(q))) /\ Sorted(Tail(q))
           /\ Before(Append(p, Head(q)), Tail(q)) /\ Before(p, Tail(q))
           /\ \A r : Before(r, q) => Before(r, Tail(q))
  <1>1. Head(q) \in Event /\ Tail(q) \in Seq(Event) /\ Head(q) = q[1] /\ 1 \in DOMAIN q
        /\ \A i \in DOMAIN Tail(q) : i \in Nat /\ i + 1 \in DOMAIN q /\ 1 < i + 1
                                     /\ Tail(q)[i] = q[i + 1]
    OBVIOUS
  <1>2. \A i \in DOMAIN Append(p, Head(q)) :
           \/ i \in DOMAIN p /\ Append(p, Head(q))[i] = p[i]
           \/ i = Len(p) + 1 /\ Append(p, Head(q))[i] = q[1]
    BY <1>1
  <1>3. \A i \in DOMAIN p : i \in Nat /\ i < Len(p) + 1
    OBVIOUS
  <1>4. Sorted(Tail(q))
    <2> SUFFICES ASSUME NEW i \in DOMAIN Tail(q), NEW j \in DOMAIN Tail(q), i < j,
                        Tail(q)[i].stream = Tail(q)[j].stream
                 PROVE  Tail(q)[i].seq < Tail(q)[j].seq
      BY DEF Sorted
    <2>1. i + 1 \in DOMAIN q /\ j + 1 \in DOMAIN q /\ i + 1 < j + 1 BY <1>1
    <2> QED BY <1>1, <2>1 DEF Sorted
  <1>5. \A r : Before(r, q) => Before(r, Tail(q))
    BY <1>1 DEF Before
  <1>6. Sorted(Append(p, Head(q)))
    <2> DEFINE a == Append(p, Head(q))
    <2> SUFFICES ASSUME NEW i \in DOMAIN a, NEW j \in DOMAIN a, i < j,
                        a[i].stream = a[j].stream
                 PROVE  a[i].seq < a[j].seq
      BY DEF Sorted
    <2>0. Len(p) \in Nat OBVIOUS
    <2> HIDE DEF a
    <2>1. CASE j \in DOMAIN p /\ a[j] = p[j]
      BY <2>0, <2>1, <1>2, <1>3 DEF Sorted, a
    <2>2. CASE j = Len(p) + 1 /\ a[j] = q[1]
      <3>1. i \in DOMAIN p /\ a[i] = p[i] BY <2>0, <2>2, <1>2 DEF a
      <3> QED BY <3>1, <2>2, <1>1 DEF Before
    <2> QED BY <2>1, <2>2, <1>2 DEF a
  <1>7. Before(Append(p, Head(q)), Tail(q))
    <2> DEFINE a == Append(p, Head(q))
    <2> SUFFICES ASSUME NEW i \in DOMAIN a, NEW j \in DOMAIN Tail(q),
                        a[i].stream = Tail(q)[j].stream
                 PROVE  a[i].seq < Tail(q)[j].seq
      BY DEF Before
    <2> HIDE DEF a
    <2>1. CASE i \in DOMAIN p /\ a[i] = p[i] BY <2>1, <1>1 DEF Before
    <2>2. CASE a[i] = q[1] BY <2>2, <1>1 DEF Sorted
    <2> QED BY <2>1, <2>2, <1>2 DEF a
  <1> QED BY <1>4, <1>5, <1>6, <1>7

\* A number above all that a stream has reached goes to the end.
LEMMA AppendFresh ==
    ASSUME NEW p \in Seq(Event), NEW q \in Seq(Event), NEW e \in Event,
           Sorted(q), Before(p, q),
           \A i \in DOMAIN p : p[i].stream = e.stream => p[i].seq < e.seq,
           \A i \in DOMAIN q : q[i].stream = e.stream => q[i].seq < e.seq
    PROVE  Sorted(Append(q, e)) /\ Before(p, Append(q, e))
  <1> DEFINE a == Append(q, e)
  <1>1. \A i \in DOMAIN a : \/ i \in DOMAIN q /\ a[i] = q[i]
                            \/ i = Len(q) + 1 /\ a[i] = e
    OBVIOUS
  <1>2. Len(q) \in Nat /\ \A i \in DOMAIN q : i \in Nat /\ i < Len(q) + 1
    OBVIOUS
  <1> HIDE DEF a
  <1>3. Sorted(a)
    <2> SUFFICES ASSUME NEW i \in DOMAIN a, NEW j \in DOMAIN a, i < j,
                        a[i].stream = a[j].stream
                 PROVE  a[i].seq < a[j].seq
      BY DEF Sorted
    <2>1. CASE j \in DOMAIN q /\ a[j] = q[j] BY <2>1, <1>1, <1>2 DEF Sorted
    <2>2. CASE j = Len(q) + 1 /\ a[j] = e
      <3>1. i \in DOMAIN q /\ a[i] = q[i] BY <2>2, <1>1, <1>2
      <3> QED BY <3>1, <2>2
    <2> QED BY <2>1, <2>2, <1>1
  <1>4. Before(p, a) BY <1>1 DEF Before
  <1> QED BY <1>3, <1>4 DEF a

\* Every step keeps the order.
LEMMA StepOrder == IInv /\ Order /\ [BusNext]_busVars => Order'
  <1> SUFFICES ASSUME IInv, Order, [BusNext]_busVars PROVE Order' OBVIOUS
  <1>0. /\ batch \in Seq(Event) /\ retained \in Seq(Event) /\ queue \in Seq(Event)
        /\ sequences \in [Streams -> Nat]
        /\ \A e \in Event : e.stream \in Streams /\ e.seq \in Nat
    BY DEF IInv, BusTypeOK, Event
  <1> DEFINE Steady == UNCHANGED <<batch, retained, queue, sequences, suppressedStreams>>
  <1>1. CASE Steady
    BY <1>1 DEF Order, Sorted, Before, Reached, NoGap
  <1>2. ASSUME NEW s \in Sources, Emit(s) PROVE Order'
    <2> DEFINE e == [stream |-> s.stream, op |-> s.op, seq |-> sequences[s.stream] + 1]
    <2>1. s.stream \in Streams /\ sequences[s.stream] \in Nat /\ e \in Event
      <3>1. s.stream \in Streams /\ sequences[s.stream] \in Nat BY <1>0, BuiltEvent
      <3> QED BY <3>1, BuiltEvent
    <2>2. /\ e.stream = s.stream /\ e.seq = sequences[s.stream] + 1
          /\ e.stream # GapStream /\ e.stream \notin suppressedStreams
      BY <1>2, BusAssumption DEF Emit, Suppressed
    <2>3. UNCHANGED <<batch, retained, suppressedStreams>>
      BY <1>2 DEF Emit, tombs
    <2>4. sequences' = [sequences EXCEPT ![s.stream] = @ + 1]
      BY <1>2 DEF Emit
    <2>5. queue' = Append(queue, e) \/ queue' = queue
      BY <1>2 DEF Emit, TrySend
    <2> HIDE DEF e
    <2>6. \A p \in Seq(Event) : Reached(p) =>
             \A i \in DOMAIN p : p[i].stream = e.stream => p[i].seq < e.seq
      BY <1>0, <2>1, <2>2 DEF Reached
    <2>7. \A p \in Seq(Event) : Reached(p) => Reached(p)'
      <3> SUFFICES ASSUME NEW p \in Seq(Event), Reached(p), NEW i \in DOMAIN p
                   PROVE  p[i].stream \in suppressedStreams' \/ p[i].seq <= sequences'[p[i].stream]
        BY DEF Reached
      <3>1. p[i] \in Event OBVIOUS
      <3> QED BY <3>1, <1>0, <2>1, <2>3, <2>4 DEF Reached
    <2>8. Sorted(queue') /\ Before(batch', queue') /\ Before(retained', queue')
      <3>1. CASE queue' = queue BY <3>1, <2>3 DEF Order
      <3>2. CASE queue' = Append(queue, e)
        BY <3>2, <1>0, <2>1, <2>3, <2>6, AppendFresh DEF Order
      <3> QED BY <2>5, <3>1, <3>2
    <2>9. Reached(batch)' /\ Reached(retained)' /\ Reached(queue)'
      <3>1. Reached(batch)' /\ Reached(retained)'
        BY <1>0, <2>3, <2>7 DEF Order, Reached
      <3>2. \A i \in DOMAIN queue' :
              queue'[i].stream \in suppressedStreams' \/ queue'[i].seq <= sequences'[queue'[i].stream]
        <4>1. CASE queue' = queue BY <4>1, <1>0, <2>7 DEF Order, Reached
        <4>2. CASE queue' = Append(queue, e)
          <5>1. e.seq <= sequences'[e.stream] BY <1>0, <2>1, <2>2, <2>4
          <5>2. \A i \in DOMAIN Append(queue, e) :
                   (i \in DOMAIN queue /\ Append(queue, e)[i] = queue[i]) \/ Append(queue, e)[i] = e
            BY <1>0, <2>1
          <5>3. \A i \in DOMAIN queue :
                  queue[i].stream \in suppressedStreams' \/ queue[i].seq <= sequences'[queue[i].stream]
            BY <1>0, <2>7 DEF Order, Reached
          <5> QED BY <4>2, <5>1, <5>2, <5>3
        <4> QED BY <2>5, <4>1, <4>2
      <3> QED BY <3>1, <3>2 DEF Reached
    <2>10. NoGap(retained') /\ NoGap(queue')
      <3>1. CASE queue' = queue BY <3>1, <2>3 DEF Order, NoGap
      <3>2. CASE queue' = Append(queue, e)
        <4>1. \A i \in DOMAIN Append(queue, e) :
                 (i \in DOMAIN queue /\ Append(queue, e)[i] = queue[i]) \/ Append(queue, e)[i] = e
          BY <1>0, <2>1
        <4> QED BY <3>2, <4>1, <2>2, <2>3 DEF Order, NoGap
      <3> QED BY <2>5, <3>1, <3>2
    <2> QED BY <2>3, <2>8, <2>9, <2>10 DEF Order, Sorted, Before, NoGap
  <1>3. CASE CountQueued BY <1>1, <1>3 DEF CountQueued, tombs
  <1>4. CASE PurgeStart
    BY <1>4 DEF PurgeStart, channel, Order, Sorted, Before, Reached, NoGap
  <1>5. CASE PurgeLock BY <1>1, <1>5 DEF PurgeLock, channel, tombs
  <1>6. CASE PurgeRecv
    <2> USE <1>6 DEF PurgeRecv, tombs, locks
    <2>1. queue' = Tail(queue) /\ queue # <<>> /\ UNCHANGED <<batch, sequences, suppressedStreams>>
      OBVIOUS
    <2>2. retained' = retained \/ retained' = Append(retained, Head(queue)) OBVIOUS
    <2>3. Before(batch, queue') /\ Sorted(queue') /\ Before(retained', queue') /\ Sorted(retained')
      BY <1>0, <2>1, <2>2, MoveHead DEF Order
    <2>4. \A i \in DOMAIN retained' :
             (i \in DOMAIN retained /\ retained'[i] = retained[i]) \/ retained'[i] = queue[1]
      BY <1>0, <2>1, <2>2
    <2>5. 1 \in DOMAIN queue /\ \A i \in DOMAIN queue' : i + 1 \in DOMAIN queue /\ queue'[i] = queue[i + 1]
      BY <1>0, <2>1
    <2>6. Before(batch, retained') BY <2>4, <2>5 DEF Order, Before
    <2>7. Reached(batch)' /\ Reached(retained)' /\ Reached(queue)'
      BY <2>1, <2>4, <2>5 DEF Order, Reached
    <2>8. NoGap(retained') /\ NoGap(queue') BY <2>4, <2>5 DEF Order, NoGap
    <2> QED BY <2>1, <2>3, <2>6, <2>7, <2>8 DEF Order, Sorted, Before, NoGap
  <1>7. CASE PurgeRestore
    <2> USE <1>7 DEF PurgeRestore, tombs
    <2>1. queue' = retained /\ retained' = <<>> /\ UNCHANGED <<batch, suppressedStreams>>
      OBVIOUS
    <2>2. suppressedStreams = PrivateStreams BY DEF IInv, Tombs, Holding
    <2>3. \A p \in Seq(Event) : Reached(p) => Reached(p)'
      <3> SUFFICES ASSUME NEW p \in Seq(Event), Reached(p), NEW i \in DOMAIN p
                   PROVE  p[i].stream \in suppressedStreams' \/ p[i].seq <= sequences'[p[i].stream]
        BY DEF Reached
      <3>1. p[i] \in Event OBVIOUS
      <3> QED BY <3>1, <1>0, <2>1, <2>2 DEF Reached
    <2>4. Reached(batch)' /\ Reached(queue)' /\ Reached(retained)'
      BY <1>0, <2>1, <2>3 DEF Order, Reached
    <2>5. Order OBVIOUS
    <2>6. /\ Sorted(batch') /\ Sorted(queue') /\ Before(batch', queue')
          /\ NoGap(queue')
      BY ONLY <2>1, <2>5 DEF Order
    <2>7. /\ Sorted(retained') /\ Before(batch', retained') /\ Before(retained', queue')
          /\ NoGap(retained')
      <3>1. DOMAIN retained' = {} BY ONLY <2>1
      <3> QED BY ONLY <3>1 DEF Sorted, Before, NoGap
    <2> QED BY ONLY <2>4, <2>6, <2>7 DEF Order, Sorted, Before, NoGap
  <1>8. CASE DrainStart
    <2> USE <1>8 DEF DrainStart, tombs, locks
    <2> DEFINE g == [stream |-> GapStream, op |-> NoOp, seq |-> sequences[GapStream] + 1]
    <2>1. UNCHANGED <<queue, retained, suppressedStreams>> OBVIOUS
    <2>2. batch = <<>> BY DEF IInv, Holding
    <2>3. CASE UNCHANGED <<batch, sequences>> BY <1>1, <2>1, <2>3
    <2>4. CASE batch' = <<g>> /\ sequences' = [sequences EXCEPT ![GapStream] = @ + 1]
      <3>1. GapStream \in Streams /\ sequences[GapStream] \in Nat BY <1>0, BuiltEvent
      <3>2. g.stream = GapStream /\ g.seq = sequences'[GapStream] BY <3>1, <1>0, <2>4
      <3> HIDE DEF g
      <3>3. DOMAIN batch' = {1} /\ batch'[1] = g BY <2>4
      <3>4. Sorted(batch') BY <3>3 DEF Sorted
      <3>5. Before(batch', retained) /\ Before(batch', queue)
        BY <3>2, <3>3 DEF Before, Order, NoGap
      <3>6. \A p \in Seq(Event) : Reached(p) => Reached(p)'
        <4> SUFFICES ASSUME NEW p \in Seq(Event), Reached(p), NEW i \in DOMAIN p
                     PROVE  p[i].stream \in suppressedStreams' \/ p[i].seq <= sequences'[p[i].stream]
          BY DEF Reached
        <4>1. p[i] \in Event OBVIOUS
        <4> QED BY <4>1, <1>0, <3>1, <2>1, <2>4 DEF Reached
      <3>7. Reached(batch)'
        <4>1. g.seq <= sequences'[g.stream] BY <3>1, <3>2, <1>0, <2>4
        <4> QED BY <4>1, <3>3 DEF Reached
      <3>8. Reached(retained)' /\ Reached(queue)'
        BY <1>0, <2>1, <3>6 DEF Order, Reached
      <3> QED BY <2>1, <3>4, <3>5, <3>7, <3>8 DEF Order, Sorted, Before, NoGap
    <2> QED BY <2>3, <2>4
  <1>9. CASE DrainLock BY <1>1, <1>9 DEF DrainLock, channel, tombs
  <1>10. CASE Recv
    <2> USE <1>10 DEF Recv, tombs, locks
    <2>1. /\ queue' = Tail(queue) /\ queue # <<>> /\ batch' = Append(batch, Head(queue))
          /\ UNCHANGED <<retained, sequences, suppressedStreams>>
      OBVIOUS
    <2>2. retained = <<>> BY DEF IInv, Holding
    <2>3. Sorted(batch') /\ Sorted(queue') /\ Before(batch', queue')
      BY <1>0, <2>1, MoveHead DEF Order
    <2>4. Before(batch', retained') /\ Before(retained', queue') /\ Sorted(retained')
      <3>1. DOMAIN retained' = {} BY ONLY <2>1, <2>2
      <3> QED BY ONLY <3>1 DEF Before, Sorted
    <2>5. 1 \in DOMAIN queue /\ \A i \in DOMAIN queue' : i + 1 \in DOMAIN queue /\ queue'[i] = queue[i + 1]
      BY <1>0, <2>1
    <2>6. \A i \in DOMAIN batch' : (i \in DOMAIN batch /\ batch'[i] = batch[i]) \/ batch'[i] = queue[1]
      BY <1>0, <2>1
    <2>7. Reached(batch)' /\ Reached(retained)' /\ Reached(queue)'
      BY <2>1, <2>5, <2>6 DEF Order, Reached
    <2>8. NoGap(retained') /\ NoGap(queue') BY <2>1, <2>5 DEF Order, NoGap
    <2> QED BY <2>3, <2>4, <2>7, <2>8 DEF Order, Sorted, Before, NoGap
  <1>11. CASE RecvStop BY <1>1, <1>11 DEF RecvStop, channel, tombs
  <1>12. CASE DrainEnd BY <1>1, <1>12 DEF DrainEnd, channel, tombs
  <1>13. CASE HandOver
    BY <1>13 DEF HandOver, channel, tombs, Order, Sorted, Before, Reached, NoGap
  <1>14. CASE UNCHANGED busVars BY <1>1, <1>14 DEF busVars, channel, tombs
  <1> QED
    BY <1>2, <1>3, <1>4, <1>5, <1>6, <1>7, <1>8, <1>9, <1>10, <1>11, <1>12, <1>13, <1>14
       DEF BusNext, BusStep, PurgeStep, DrainStep

\* Order: what the host drains next, what a purge holds and what is queued
\* carry each stream's numbers in strictly increasing order, for any capacity
\* and any interleaving of emits, one purge and drains.
THEOREM BusOrder == BusSpec => []PipelineOrdered
  <1>1. BusInit => Order
    BY DEF BusInit, Order, Sorted, Before, Reached, NoGap
  <1>2. IInv /\ Order => PipelineOrdered
    BY OrderGivesPipeline DEF IInv
  <1> QED BY <1>1, <1>2, InitInv, StepInv, StepOrder, PTL DEF BusSpec

=============================================================================
