------------------------ MODULE PlatformBrokerProofs ------------------------
(***************************************************************************)
(* Proofs about the platform request broker, for every finite set of       *)
(* requests, every capacity and every drain limit.                         *)
(***************************************************************************)
EXTENDS PlatformBroker, TLAPS, FiniteSetTheorems, SequenceTheorems

Unique(s) == \A i, j \in DOMAIN s : s[i] = s[j] => i = j

\* Retaining all ids but r keeps the queue duplicate-free, removes exactly r
\* and does not lengthen it.
LEMMA WithoutProperties ==
    ASSUME NEW S, NEW s \in Seq(S), NEW r, Unique(s)
    PROVE  /\ Without(s, r) \in Seq(S)
           /\ Unique(Without(s, r))
           /\ RangeOf(Without(s, r)) = RangeOf(s) \ {r}
           /\ Len(Without(s, r)) <= Len(s)
<1>1. CASE r \notin RangeOf(s)
  BY <1>1 DEF Without
<1>2. CASE r \in RangeOf(s)
  <2> DEFINE k == CHOOSE i \in DOMAIN s : s[i] = r
             t == [i \in 1..(Len(s) - 1) |-> IF i < k THEN s[i] ELSE s[i + 1]]
  <2>1. k \in 1..Len(s) /\ s[k] = r
    BY <1>2 DEF RangeOf
  <2>2. \A i \in 1..Len(s) : s[i] = r => i = k
    BY <2>1 DEF Unique
  <2>3. t \in Seq(S) /\ Len(t) = Len(s) - 1 /\ DOMAIN t = 1..(Len(s) - 1)
    BY <2>1
  <2>4. \A i \in 1..(Len(s) - 1) : t[i] = IF i < k THEN s[i] ELSE s[i + 1]
    OBVIOUS
  <2> HIDE DEF t, k
  <2>5. Unique(t)
    <3> SUFFICES ASSUME NEW i \in 1..(Len(s) - 1), NEW j \in 1..(Len(s) - 1),
                        t[i] = t[j]
                 PROVE  i = j
      BY <2>3 DEF Unique
    <3> DEFINE u(x) == IF x < k THEN x ELSE x + 1
    <3>1. u(i) \in 1..Len(s) /\ u(j) \in 1..Len(s)
      BY <2>1
    <3>2. s[u(i)] = s[u(j)]
      BY <2>4
    <3>3. u(i) = u(j)
      BY <3>1, <3>2 DEF Unique
    <3> QED
      BY <2>1, <3>3
  <2>6. RangeOf(t) \subseteq RangeOf(s) \ {r}
    BY <2>1, <2>2, <2>3, <2>4 DEF RangeOf
  <2>7. ASSUME NEW q \in RangeOf(s) \ {r}
        PROVE  q \in RangeOf(t)
    <3>1. PICK i \in 1..Len(s) : s[i] = q
      BY DEF RangeOf
    <3>2. i # k
      BY <2>1, <3>1
    <3>3. CASE i < k
      <4>1. i \in 1..(Len(s) - 1)
        BY <2>1, <3>3
      <4>2. t[i] = q
        BY <2>4, <3>1, <3>3, <4>1
      <4> QED
        BY <2>3, <4>1, <4>2 DEF RangeOf
    <3>4. CASE i > k
      <4>1. i - 1 \in 1..(Len(s) - 1) /\ ~(i - 1 < k) /\ (i - 1) + 1 = i
        BY <2>1, <3>4
      <4>2. t[i - 1] = q
        BY <2>4, <3>1, <4>1
      <4> QED
        BY <2>3, <4>1, <4>2 DEF RangeOf
    <3> QED
      BY <2>1, <3>1, <3>2, <3>3, <3>4
  <2>8. Without(s, r) = t
    BY <1>2 DEF Without, t, k
  <2> QED
    BY <2>3, <2>5, <2>6, <2>7, <2>8
<1> QED
  BY <1>1, <1>2

\* Draining a prefix of n ids leaves the rest of the queue, without the
\* drained ids and without duplicates.
LEMMA DropProperties ==
    ASSUME NEW S, NEW s \in Seq(S), NEW n \in 0..Len(s), Unique(s)
    PROVE  LET t == SubSeq(s, n + 1, Len(s))
               d == {s[i] : i \in 1..n}
           IN  /\ t \in Seq(S)
               /\ Len(t) = Len(s) - n
               /\ Unique(t)
               /\ RangeOf(t) \subseteq RangeOf(s)
               /\ RangeOf(t) \cap d = {}
               /\ d \subseteq RangeOf(s)
               /\ IsFiniteSet(d)
               /\ Cardinality(d) <= n
<1> DEFINE t == SubSeq(s, n + 1, Len(s))
           d == {s[i] : i \in 1..n}
<1>1. /\ t \in Seq(S)
      /\ Len(t) = Len(s) - n
      /\ \A i \in 1..(Len(s) - n) : t[i] = s[n + i]
  <2>1. \A i \in (n + 1)..Len(s) : s[i] \in S
    OBVIOUS
  <2>2. n + 1 \in Int /\ Len(s) \in Int
    OBVIOUS
  <2> QED
    BY <2>1, <2>2, SubSeqProperties
<1>2. DOMAIN t = 1..(Len(s) - n)
  BY <1>1
<1> HIDE DEF t
<1>3. Unique(t)
  <2> SUFFICES ASSUME NEW i \in 1..(Len(s) - n), NEW j \in 1..(Len(s) - n),
                      t[i] = t[j]
               PROVE  i = j
    BY <1>2 DEF Unique
  <2>1. n + i \in 1..Len(s) /\ n + j \in 1..Len(s) /\ s[n + i] = s[n + j]
    BY <1>1
  <2>2. n + i = n + j
    BY <2>1 DEF Unique
  <2> QED
    BY <2>2
<1>4. ASSUME NEW q \in RangeOf(t)
      PROVE  q \in RangeOf(s) /\ q \notin d
  <2>1. PICK i \in 1..(Len(s) - n) : q = t[i]
    BY <1>2 DEF RangeOf
  <2>2. q = s[n + i] /\ n + i \in 1..Len(s)
    BY <1>1, <2>1
  <2>3. \A j \in 1..n : s[j] # q
    BY <2>2 DEF Unique
  <2> QED
    BY <2>2, <2>3 DEF RangeOf
<1>5. RangeOf(t) \subseteq RangeOf(s) /\ RangeOf(t) \cap d = {}
  BY <1>4
<1>6. d \subseteq RangeOf(s)
  BY DEF RangeOf
<1>7. IsFiniteSet(d) /\ Cardinality(d) <= n
  <2> DEFINE f == [i \in 1..n |-> s[i]]
  <2>1. IsFiniteSet(1..n) /\ Cardinality(1..n) = n
    BY FS_Interval
  <2>2. f \in Surjection(1..n, d)
    BY DEF Surjection
  <2> HIDE DEF f, d
  <2> QED
    BY <2>1, <2>2, FS_Surjection
<1> QED
  BY <1>1, <1>3, <1>5, <1>6, <1>7 DEF t

(***************************************************************************)
(* The inductive invariant: type correctness, single ownership and the     *)
(* link between the broker's containers and the waiting tasks.             *)
(***************************************************************************)
HolderInv == TypeOK /\ SingleHolder /\ NoResidue

\* A request whose task has not enqueued yet, was refused, or has returned
\* from wait_for_response is in no container, and every other one in at most
\* one: preserved by each step of the tasks, of the timers and of Android.
LEMMA HolderStep == HolderInv /\ [Next]_vars => HolderInv'
<1> SUFFICES ASSUME HolderInv, [Next]_vars
             PROVE  HolderInv'
  OBVIOUS
<1> USE DEF HolderInv
<1>u. Unique(pending) /\ pending \in Seq(Requests)
  BY DEF SingleHolder, Unique, TypeOK
<1>1. ASSUME NEW r \in Requests, Enqueue(r)
      PROVE  HolderInv'
  <2>1. CASE Outstanding >= Capacity
    BY <1>1, <2>1 DEF Enqueue, TypeOK, SingleHolder, NoResidue, Completed,
                     RangeOf, TaskPc
  <2>2. CASE ~(Outstanding >= Capacity)
    <3>1. pending' = Append(pending, r) /\ task' = [task EXCEPT ![r] = "enqueued"]
      BY <1>1, <2>2 DEF Enqueue
    <3>2. r \notin RangeOf(pending) \cup inFlight \cup Completed
      BY <1>1 DEF NoResidue, Enqueue
    <3>3. /\ pending' \in Seq(Requests)
          /\ Len(pending') = Len(pending) + 1
          /\ \A i \in 1..Len(pending) : pending'[i] = pending[i]
          /\ pending'[Len(pending) + 1] = r
      BY <1>u, <3>1, AppendProperties
    <3>4. RangeOf(pending') = RangeOf(pending) \cup {r}
      BY <1>u, <3>3 DEF RangeOf
    <3>5. Unique(pending')
      BY <1>u, <3>2, <3>3 DEF Unique, RangeOf
    <3>6. UNCHANGED <<inFlight, responses, Completed>>
      BY <1>1 DEF Enqueue, Completed
    <3>7. TypeOK'
      BY <1>1, <3>1, <3>3 DEF Enqueue, TypeOK, TaskPc
    <3>8. SingleHolder'
      BY <3>2, <3>4, <3>5, <3>6 DEF SingleHolder, Unique
    <3>9. NoResidue'
      BY <3>1, <3>4, <3>6 DEF NoResidue, TypeOK
    <3> QED
      BY <3>7, <3>8, <3>9
  <2> QED
    BY <2>1, <2>2
<1>2. ASSUME NEW r \in Requests,
             \/ StartWait(r) \/ NeverWait(r) \/ Arm(r) \/ WakeNotified(r)
             \/ WakeCancelled(r) \/ WakeTimeout(r) \/ Cancel(r) \/ Expire(r)
             \/ NotifyWaiters(r)
      PROVE  HolderInv'
  <2>1. UNCHANGED <<pending, inFlight, responses, Completed, RangeOf(pending)>>
    BY <1>2 DEF StartWait, NeverWait, Arm, WakeNotified, WakeCancelled,
                WakeTimeout, Cancel, Expire, NotifyWaiters, brokerVars,
                Completed, RangeOf
  <2>2. TypeOK'
    BY <1>2 DEF TypeOK, StartWait, NeverWait, Arm, WakeNotified,
                WakeCancelled, WakeTimeout, Cancel, Expire, NotifyWaiters,
                brokerVars, waitVars, TaskPc, Outcome
  <2>3. SingleHolder'
    BY <2>1 DEF SingleHolder
  <2>4. \A q \in Requests : task'[q] \in {"done", "rejected", "new"} =>
                               task[q] \in {"done", "rejected", "new"}
    BY <1>2 DEF TypeOK, StartWait, NeverWait, Arm, WakeNotified,
                WakeCancelled, WakeTimeout, Cancel, Expire, NotifyWaiters,
                waitVars
  <2>5. NoResidue'
    BY <2>1, <2>4 DEF NoResidue
  <2> QED
    BY <2>2, <2>3, <2>5
<1>3. ASSUME NEW r \in Requests, TakeResponse(r)
      PROVE  HolderInv'
  <2>1. UNCHANGED <<pending, inFlight, RangeOf(pending)>>
    BY <1>3 DEF TakeResponse, RangeOf
  <2>2. Completed' = Completed \ {r}
    BY <1>3 DEF TakeResponse, Completed, TypeOK, Status
  <2>3. TypeOK'
    BY <1>3 DEF TypeOK, TakeResponse, TaskPc, Outcome, Status
  <2>4. SingleHolder'
    BY <2>1, <2>2 DEF SingleHolder
  <2>5. ASSUME NEW q \in Requests, task'[q] \in {"done", "rejected", "new"}
        PROVE  q \notin RangeOf(pending') \cup inFlight' \cup Completed'
    <3>1. CASE q = r
      <4>1. r \in Completed
        BY <1>3, <2>5, <3>1 DEF TakeResponse, Completed, TypeOK
      <4> QED
        BY <2>1, <2>2, <3>1, <4>1 DEF SingleHolder
    <3>2. CASE q # r
      BY <1>3, <2>1, <2>2, <2>5, <3>2 DEF TakeResponse, NoResidue, TypeOK
    <3> QED
      BY <3>1, <3>2
  <2> QED
    BY <2>3, <2>4, <2>5 DEF NoResidue
<1>4. ASSUME NEW r \in Requests, Abandon(r)
      PROVE  HolderInv'
  <2>1. /\ pending' \in Seq(Requests)
        /\ Unique(pending')
        /\ RangeOf(pending') = RangeOf(pending) \ {r}
    BY <1>u, <1>4, WithoutProperties DEF Abandon
  <2>2. inFlight' = inFlight \ {r} /\ Completed' = Completed \ {r}
    BY <1>4 DEF Abandon, Completed, TypeOK
  <2>3. TypeOK'
    BY <1>4, <2>1 DEF Abandon, TypeOK, TaskPc
  <2>4. SingleHolder'
    BY <2>1, <2>2 DEF SingleHolder, Unique
  <2>5. NoResidue'
    BY <1>4, <2>1, <2>2 DEF Abandon, NoResidue, TypeOK
  <2> QED
    BY <2>3, <2>4, <2>5
<1>5. CASE DrainStep
  <2>1. DrainCount \in 0..Len(pending)
    BY <1>u, BrokerAssumption DEF DrainCount
  <2>2. /\ pending' \in Seq(Requests)
        /\ Unique(pending')
        /\ RangeOf(pending') \subseteq RangeOf(pending)
        /\ RangeOf(pending') \cap Drained = {}
        /\ Drained \subseteq RangeOf(pending)
    BY <1>u, <1>5, <2>1, DropProperties DEF DrainStep, Drained
  <2>3. inFlight' = inFlight \cup Drained /\ Completed' = Completed
    BY <1>5 DEF DrainStep, Completed
  <2>4. RangeOf(pending) \subseteq Requests
    BY <1>u DEF RangeOf
  <2>5. TypeOK'
    BY <1>5, <2>2, <2>3, <2>4 DEF DrainStep, waitVars, TypeOK
  <2>6. SingleHolder'
    BY <2>2, <2>3 DEF SingleHolder, Unique
  <2>7. NoResidue'
    BY <1>5, <2>2, <2>3 DEF DrainStep, waitVars, NoResidue
  <2> QED
    BY <2>5, <2>6, <2>7
<1>6. ASSUME NEW r \in Requests, NEW s \in Status, Accept(r, s)
      PROVE  HolderInv'
  <2>1. UNCHANGED <<pending, RangeOf(pending), task>>
    BY <1>6 DEF Accept, RangeOf, waitVars
  <2>2. /\ r \in inFlight
        /\ inFlight' = inFlight \ {r}
        /\ Completed' = Completed \cup {r}
    BY <1>6 DEF Accept, Completed, TypeOK, Status
  <2>3. TypeOK'
    BY <1>6 DEF Accept, waitVars, TypeOK
  <2>4. SingleHolder'
    BY <2>1, <2>2 DEF SingleHolder
  <2>5. NoResidue'
    BY <2>1, <2>2 DEF NoResidue
  <2> QED
    BY <2>3, <2>4, <2>5
<1>7. CASE UNCHANGED vars
  BY <1>7 DEF vars, TypeOK, SingleHolder, NoResidue, Completed, RangeOf
<1> QED
  BY <1>1, <1>2, <1>3, <1>4, <1>5, <1>6, <1>7 DEF Next, TaskStep

\* The types hold, no request is in two places, and none is left behind by a
\* finished wait, in every reachable state.
THEOREM BrokerOwnership == Spec => [](TypeOK /\ SingleHolder /\ NoResidue)
<1>1. Init => HolderInv
  BY DEF Init, HolderInv, TypeOK, SingleHolder, NoResidue, Completed, RangeOf,
         TaskPc, Outcome
<1> QED
  BY <1>1, HolderStep, PTL DEF Spec, HolderInv

\* Only enqueue adds to the broker, and it leaves room for what it adds; a
\* drain or a response moves requests between containers and never adds one.
LEMMA CapacityStep ==
    HolderInv /\ CapacityRespected /\ [Next]_vars => CapacityRespected'
<1> SUFFICES ASSUME HolderInv, CapacityRespected, [Next]_vars
             PROVE  CapacityRespected'
  OBVIOUS
<1> DEFINE n == Len(pending)
           a == Cardinality(inFlight)
           c == Cardinality(Completed)
<1>f. IsFiniteSet(inFlight) /\ IsFiniteSet(Completed)
  BY BrokerAssumption, FS_Subset DEF HolderInv, TypeOK, Completed
<1>n. n \in Nat /\ a \in Nat /\ c \in Nat /\ n + a + c <= Capacity
  BY <1>f, FS_CardinalityType DEF HolderInv, TypeOK, CapacityRespected,
                                  Outstanding
<1>c. Capacity \in Nat
  BY BrokerAssumption
<1>u. Unique(pending) /\ pending \in Seq(Requests)
  BY DEF HolderInv, SingleHolder, Unique, TypeOK
<1>1. ASSUME NEW r \in Requests, Enqueue(r)
      PROVE  CapacityRespected'
  <2>1. inFlight' = inFlight /\ Completed' = Completed
    BY <1>1 DEF Enqueue, Completed
  <2>2. CASE n + a + c >= Capacity
    <3>1. pending' = pending
      BY <1>1, <2>2 DEF Enqueue, Outstanding
    <3> QED
      BY <1>n, <2>1, <3>1 DEF CapacityRespected, Outstanding
  <2>3. CASE ~(n + a + c >= Capacity)
    <3>1. Len(pending') = n + 1
      BY <1>1, <1>u, <2>3, AppendProperties DEF Enqueue, Outstanding
    <3> HIDE DEF n, a, c
    <3> QED
      BY <1>n, <1>c, <2>1, <2>3, <3>1 DEF CapacityRespected, Outstanding, n, a, c
  <2> QED
    BY <2>2, <2>3
<1>2. ASSUME UNCHANGED <<pending, inFlight>>, Completed' \subseteq Completed
      PROVE  CapacityRespected'
  <2>1. Cardinality(Completed') <= c /\ Cardinality(Completed') \in Nat
    BY <1>2, <1>f, FS_Subset, FS_CardinalityType
  <2> QED
    BY <1>2, <1>n, <1>c, <2>1 DEF CapacityRespected, Outstanding
<1>3. ASSUME NEW r \in Requests, Abandon(r)
      PROVE  CapacityRespected'
  <2>1. Len(pending') <= n /\ Len(pending') \in Nat
    <3>1. pending' \in Seq(Requests) /\ Len(pending') <= n
      BY <1>u, <1>3, WithoutProperties DEF Abandon
    <3> QED
      BY <3>1
  <2>2. inFlight' \subseteq inFlight /\ Completed' \subseteq Completed
    BY <1>3 DEF Abandon, Completed, HolderInv, TypeOK
  <2>3. /\ Cardinality(inFlight') <= a /\ Cardinality(inFlight') \in Nat
        /\ Cardinality(Completed') <= c /\ Cardinality(Completed') \in Nat
    BY <1>f, <2>2, FS_Subset, FS_CardinalityType
  <2> QED
    BY <1>n, <1>c, <2>1, <2>3 DEF CapacityRespected, Outstanding
<1>4. CASE DrainStep
  <2>1. DrainCount \in 0..n
    BY <1>u, BrokerAssumption DEF DrainCount
  <2>2. /\ Len(pending') = n - DrainCount
        /\ IsFiniteSet(Drained)
        /\ Cardinality(Drained) <= DrainCount
    BY <1>u, <1>4, <2>1, DropProperties DEF DrainStep, Drained
  <2>3. inFlight' = inFlight \cup Drained /\ Completed' = Completed
    BY <1>4 DEF DrainStep, Completed
  <2>4. IsFiniteSet(inFlight \cap Drained)
    BY <1>f, FS_Subset
  <2>5. Cardinality(inFlight \cap Drained) \in Nat /\ Cardinality(Drained) \in Nat
    BY <2>2, <2>4, FS_CardinalityType
  <2>6. Cardinality(inFlight') = a + Cardinality(Drained)
                                   - Cardinality(inFlight \cap Drained)
    BY <1>f, <2>2, <2>3, FS_Union
  <2> HIDE DEF n, a, c
  <2> QED
    BY <1>n, <1>c, <2>1, <2>2, <2>3, <2>5, <2>6
       DEF CapacityRespected, Outstanding, c
<1>5. ASSUME NEW r \in Requests, NEW s \in Status, Accept(r, s)
      PROVE  CapacityRespected'
  <2>1. pending' = pending /\ r \in inFlight
    BY <1>5 DEF Accept
  <2>2. inFlight' = inFlight \ {r} /\ Completed' = Completed \cup {r}
    BY <1>5 DEF Accept, Completed, HolderInv, TypeOK, Status
  <2>3. Cardinality(inFlight') = a - 1
    BY <1>f, <2>1, <2>2, FS_RemoveElement
  <2>4. Cardinality(Completed') <= c + 1 /\ Cardinality(Completed') \in Nat
    <3>1. /\ IsFiniteSet(Completed')
          /\ Cardinality(Completed') = IF r \in Completed THEN c ELSE c + 1
      BY <1>f, <2>2, FS_AddElement
    <3> HIDE DEF c
    <3> QED
      BY <1>n, <3>1
  <2> QED
    BY <1>n, <1>c, <2>1, <2>3, <2>4 DEF CapacityRespected, Outstanding
<1>6. ASSUME NEW r \in Requests, TakeResponse(r)
      PROVE  CapacityRespected'
  <2>1. UNCHANGED <<pending, inFlight>> /\ Completed' \subseteq Completed
    BY <1>6 DEF TakeResponse, Completed, HolderInv, TypeOK
  <2> QED
    BY <1>2, <2>1
<1>7. ASSUME NEW r \in Requests,
             \/ StartWait(r) \/ NeverWait(r) \/ Arm(r) \/ WakeNotified(r)
             \/ WakeCancelled(r) \/ WakeTimeout(r) \/ Cancel(r) \/ Expire(r)
             \/ NotifyWaiters(r)
      PROVE  CapacityRespected'
  <2>1. UNCHANGED <<pending, inFlight, Completed>>
    BY <1>7 DEF StartWait, NeverWait, Arm, WakeNotified, WakeCancelled,
                WakeTimeout, Cancel, Expire, NotifyWaiters, brokerVars,
                Completed
  <2> QED
    BY <1>2, <2>1
<1>8. CASE UNCHANGED vars
  BY <1>2, <1>8 DEF vars, Completed
<1> QED
  BY <1>1, <1>3, <1>4, <1>5, <1>6, <1>7, <1>8 DEF Next, TaskStep

\* The broker never holds more requests than its capacity: the bound that
\* enqueue checks is an invariant of every other operation as well.
THEOREM BrokerCapacity == Spec => []CapacityRespected
<1>1. Init => HolderInv /\ CapacityRespected
  <2>1. Init => HolderInv
    BY DEF Init, HolderInv, TypeOK, SingleHolder, NoResidue, Completed,
           RangeOf, TaskPc, Outcome
  <2>2. ASSUME Init PROVE CapacityRespected
    <3>1. Len(pending) = 0 /\ inFlight = {} /\ Completed = {}
      BY <2>2 DEF Init, Completed
    <3> QED
      BY <3>1, FS_EmptySet, BrokerAssumption DEF CapacityRespected, Outstanding
  <2> QED
    BY <2>1, <2>2
<1> QED
  BY <1>1, HolderStep, CapacityStep, PTL DEF Spec

=============================================================================
