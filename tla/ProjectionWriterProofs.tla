----------------------- MODULE ProjectionWriterProofs -----------------------
(***************************************************************************)
(* The durable projections for every number of domains, tasks and worker   *)
(* threads: the store never goes back, no update is forgotten, the flush   *)
(* is alone with the store and, when it succeeds, complete.                *)
(***************************************************************************)
EXTENDS ProjectionWriter, TLAPS

\* Who holds the lock agrees with where the flush and the holder are.
Locking ==
  /\ lock = Flusher <=> flush \in {"barrier", "read", "save"}
  /\ lock \in Tasks => updating[lock] \in Keys

\* The barrier is the last command of the queue until it is acknowledged, and
\* the writer has then nothing left to do.
Fenced ==
  /\ \A i \in DOMAIN queue :
        queue[i] = Barrier => flush = "barrier" /\ ~acked /\ i = Len(queue)
  /\ flush \in {"off", "lock"} => ~acked
  /\ (flush = "barrier" /\ acked) \/ flush \in {"read", "save"} =>
        queue = <<>> /\ saving = None

\* The flush has read domain k.
Known(k) == flush = "save" \/ (flush = "read" /\ k < at)

\* Versions only grow along the way from the store, or from the last save that
\* failed, through the command being saved, the queue and the snapshot or the
\* flush's reading, to memory.
Between(v, k) == store[k] <= v /\ failed[k] <= v /\ v <= mem[k]

Ordered ==
  /\ \A k \in Keys : store[k] <= mem[k] /\ failed[k] <= mem[k]
  /\ saving # None => Between(saving.value, saving.key)
  /\ \A i \in DOMAIN queue : queue[i] # Barrier =>
        /\ Between(queue[i].value, queue[i].key)
        /\ saving.key = queue[i].key => saving.value <= queue[i].value
  /\ \A i, j \in DOMAIN queue :
        i < j /\ queue[i] # Barrier /\ queue[i].key = queue[j].key =>
           queue[i].value <= queue[j].value
  /\ lock \in Tasks =>
        /\ Between(snapshot, updating[lock])
        /\ saving.key = updating[lock] => saving.value <= snapshot
        /\ \A i \in DOMAIN queue : queue[i].key = updating[lock] => queue[i].value <= snapshot
  /\ \A k \in Keys : Known(k) => Between(final[k], k)

\* What was in memory when shutdown was called is read, then stored.
Covered ==
  /\ flush # "off" => \A k \in Keys : atShutdown[k] <= mem[k]
  /\ \A k \in Keys : Known(k) => atShutdown[k] <= final[k]
  /\ \A k \in Keys : flush = "save" /\ k < at => atShutdown[k] <= store[k]
  /\ flush = "done" => \A k \in Keys : atShutdown[k] <= store[k]

\* A snapshot, or a reading of the flush, that memory has outrun leaves a task
\* behind that has yet to enqueue the newer version.
Pending(k) == \E t \in Tasks : t # lock /\ updating[t] = k

Remembered ==
  /\ NothingForgotten
  /\ lock \in Tasks => snapshot = mem[updating[lock]] \/ Pending(updating[lock])
  /\ \A k \in Keys : Known(k) => final[k] = mem[k] \/ Pending(k)

Shape == TypeOK /\ Locking /\ Fenced

-----------------------------------------------------------------------------

\* Taking the head of a channel and appending to it.
LEMMA ChannelFacts ==
  ASSUME NEW S, NEW q \in Seq(S), NEW e \in S
  PROVE  /\ Append(q, e) \in Seq(S) /\ Len(Append(q, e)) = Len(q) + 1
         /\ DOMAIN q = 1..Len(q) /\ Len(q) \in Nat
         /\ DOMAIN Append(q, e) = 1..(Len(q) + 1)
         /\ \A i \in 1..Len(q) : Append(q, e)[i] = q[i]
         /\ Append(q, e)[Len(q) + 1] = e
         /\ q # <<>> => /\ Head(q) \in S /\ Head(q) = q[1] /\ 1 \in DOMAIN q
                        /\ Tail(q) \in Seq(S) /\ Len(Tail(q)) = Len(q) - 1
                        /\ DOMAIN Tail(q) = 1..(Len(q) - 1)
                        /\ \A i \in DOMAIN Tail(q) : Tail(q)[i] = q[i + 1] /\ i + 1 \in DOMAIN q
         /\ <<e>> \in Seq(S) /\ Len(<<e>>) = 1 /\ DOMAIN <<e>> = {1} /\ <<e>>[1] = e
  OBVIOUS

\* The next version of a domain.
LEMMA NextVersion ==
  ASSUME NEW f \in [Keys -> Nat], NEW k \in Keys
  PROVE  f[k] + 1 \in Nat /\ [f EXCEPT ![k] = @ + 1] \in [Keys -> Nat]
  OBVIOUS

\* The commands that carry a snapshot are neither the barrier nor the empty slot.
LEMMA CommandFacts ==
  /\ Barrier # None
  /\ \A c \in Commands : /\ c.key \in Keys /\ c.value \in Nat
                          /\ c # Barrier /\ c # None
                          /\ c = [key |-> c.key, value |-> c.value]
  /\ \A k \in Keys, v \in Nat : [key |-> k, value |-> v] \in Commands
  /\ NoKey \notin Keys /\ 1 \in Keys /\ N \in Keys
  /\ Barrier.key = NoKey /\ None.key = NoKey
  BY NAssumption DEF Barrier, None, Commands, Keys, NoKey

\* The initial state satisfies the invariant.
LEMMA InitInv == Init => Shape /\ Ordered /\ Covered /\ Remembered
  <1> SUFFICES ASSUME Init PROVE Shape /\ Ordered /\ Covered /\ Remembered OBVIOUS
  <1> USE LockAssumption, CommandFacts DEF Init
  <1>1. Shape
    <2>0. queue \in Seq(Commands \cup {Barrier}) OBVIOUS
    <2>1. acked \in BOOLEAN OBVIOUS
    <2>2. mem \in [Keys -> Nat] /\ updating \in [Tasks -> Keys \cup {NoKey}] OBVIOUS
    <2>3. TypeOK BY <2>0, <2>1, <2>2 DEF TypeOK, FlushStates
    <2>4. Locking /\ Fenced BY DEF Locking, Fenced
    <2> QED BY <2>3, <2>4 DEF Shape
  <1>2. Ordered BY DEF Ordered, Known
  <1>3. Covered BY DEF Covered, Known
  <1>4. Remembered BY DEF Remembered, Known, NothingForgotten, OnItsWay
  <1> QED BY <1>1, <1>2, <1>3, <1>4

\* Every step keeps the types, the lock discipline and the fence.
LEMMA StepShape == Shape /\ [Next]_vars => Shape'
  <1> SUFFICES ASSUME Shape, [Next]_vars PROVE Shape' OBVIOUS
  <1> USE DEF Shape
  <1> USE LockAssumption, CommandFacts
  <1>1. CASE UNCHANGED vars
    BY <1>1 DEF TypeOK, Locking, Fenced, vars
  <1>2. ASSUME NEW t \in Tasks, NEW k \in Keys, Update(t, k) PROVE Shape'
    <2> USE <1>2 DEF Update, writerVars, flushVars
    <2>1. TypeOK'
      <3>1. mem' \in [Keys -> Nat]
        <4>1. mem \in [Keys -> Nat] BY DEF TypeOK
        <4> QED BY <4>1, NextVersion
      <3> QED BY <3>1 DEF TypeOK
    <2>2. Locking' BY DEF Locking, TypeOK
    <2>3. Fenced' BY DEF Fenced
    <2> QED BY <2>1, <2>2, <2>3
  <1>3. ASSUME NEW t \in Tasks, TakeSnapshot(t) PROVE Shape'
    <2> USE <1>3 DEF TakeSnapshot, writerVars, flushVars
    <2>1. TypeOK' BY DEF TypeOK
    <2>2. Locking' BY DEF Locking, TypeOK
    <2>3. Fenced' BY DEF Fenced
    <2> QED BY <2>1, <2>2, <2>3
  <1>4. ASSUME NEW t \in Tasks, Send(t) PROVE Shape'
    <2> DEFINE c == [key |-> updating[t], value |-> snapshot]
    <2> USE <1>4 DEF Send, flushVars
    <2>1. c \in Commands BY DEF TypeOK, Locking
    <2>2. queue \in Seq(Commands \cup {Barrier}) BY DEF TypeOK
    <2>3. queue' = Append(queue, c) OBVIOUS
    <2> HIDE DEF c
    <2>4. TypeOK'
      <3>1. queue' \in Seq(Commands \cup {Barrier}) BY <2>1, <2>2, <2>3, ChannelFacts
      <3> QED BY <3>1 DEF TypeOK
    <2>5. Locking' BY DEF Locking, TypeOK
    <2>6. Fenced' BY <2>1, <2>2, <2>3, ChannelFacts DEF Fenced, Locking
    <2> QED BY <2>4, <2>5, <2>6
  <1>5. CASE WriterTake
    <2> USE <1>5 DEF WriterTake, taskVars, flushVars
    <2>1. queue \in Seq(Commands \cup {Barrier}) BY DEF TypeOK
    <2>2. Head(queue) = Barrier \/ Head(queue) \in Commands BY <2>1, ChannelFacts
    <2>3. TypeOK'
      <3>1. queue' \in Seq(Commands \cup {Barrier}) BY <2>1, ChannelFacts
      <3>2. saving' \in Commands \cup {None} BY <2>2 DEF TypeOK
      <3>3. acked' \in BOOLEAN BY DEF TypeOK
      <3> QED BY <3>1, <3>2, <3>3 DEF TypeOK
    <2>4. Locking' BY DEF Locking
    <2>5. Fenced'
      <3>1. CASE Head(queue) = Barrier
        <4>0. 1 \in DOMAIN queue /\ queue[1] = Barrier BY <3>1, <2>1, ChannelFacts
        <4>1. flush = "barrier" /\ Len(queue) = 1 BY <4>0 DEF Fenced
        <4>2. queue' = <<>> BY <4>1, <2>1
        <4> QED BY <4>1, <4>2, <3>1 DEF Fenced
      <3>2. CASE Head(queue) # Barrier
        <4>1. acked' = acked /\ queue' = Tail(queue) BY <3>2
        <4>2. \A i \in DOMAIN queue' : queue'[i] = queue[i + 1] /\ i + 1 \in DOMAIN queue
          BY <4>1, <2>1, ChannelFacts
        <4>3. Len(queue') = Len(queue) - 1 /\ Len(queue) \in Nat BY <2>1, ChannelFacts
        <4>4. \A i \in DOMAIN queue' : i \in Nat BY <2>1, ChannelFacts
        <4> QED BY <4>1, <4>2, <4>3, <4>4 DEF Fenced
      <3> QED BY <3>1, <3>2
    <2> QED BY <2>3, <2>4, <2>5
  <1>6. CASE WriterSaved
    <2> USE <1>6 DEF WriterSaved, taskVars, flushVars
    <2>1. TypeOK' BY DEF TypeOK
    <2>2. Locking' /\ Fenced' BY DEF Locking, Fenced
    <2> QED BY <2>1, <2>2
  <1>7. CASE WriterSaveFails
    <2> USE <1>7 DEF WriterSaveFails, taskVars, flushVars
    <2>1. TypeOK' BY DEF TypeOK
    <2>2. Locking' /\ Fenced' BY DEF Locking, Fenced
    <2> QED BY <2>1, <2>2
  <1>8. CASE BeginShutdown
    <2> USE <1>8 DEF BeginShutdown, taskVars, writerVars
    <2>1. TypeOK' BY DEF TypeOK, FlushStates
    <2>2. Locking' /\ Fenced' BY DEF Locking, Fenced
    <2> QED BY <2>1, <2>2
  <1>9. CASE FlushLock
    <2> USE <1>9 DEF FlushLock, taskVars
    <2>1. queue \in Seq(Commands \cup {Barrier}) BY DEF TypeOK
    <2>2. queue' \in Seq(Commands \cup {Barrier}) BY <2>1, ChannelFacts
    <2>3. TypeOK' BY <2>2 DEF TypeOK, FlushStates
    <2>4. Locking' BY DEF Locking
    <2>5. Fenced'
      <3>1. ~acked /\ \A i \in DOMAIN queue : queue[i] # Barrier BY DEF Fenced
      <3>2. DOMAIN queue = 1..Len(queue) /\ Len(queue) \in Nat BY <2>1, ChannelFacts
      <3>3. DOMAIN queue' = 1..(Len(queue) + 1) /\ Len(queue') = Len(queue) + 1
        BY <2>1, ChannelFacts
      <3>4. \A i \in 1..Len(queue) : queue'[i] = queue[i] BY <2>1, ChannelFacts
      <3> QED BY <3>1, <3>2, <3>3, <3>4 DEF Fenced
    <2> QED BY <2>3, <2>4, <2>5
  <1>10. CASE FlushAcked
    <2> USE <1>10 DEF FlushAcked, taskVars, writerVars
    <2>1. TypeOK' BY DEF TypeOK, FlushStates
    <2>2. Locking' /\ Fenced' BY DEF Locking, Fenced
    <2> QED BY <2>1, <2>2
  <1>11. CASE FlushRead
    <2> USE <1>11 DEF FlushRead, taskVars, writerVars
    <2>1. at' \in Keys
      <3>1. at \in 1..N BY DEF TypeOK, Keys
      <3>2. at' = 1 \/ (at # N /\ at' = at + 1) OBVIOUS
      <3> QED BY <3>1, <3>2, NAssumption DEF Keys
    <2>2. TypeOK' BY <2>1 DEF TypeOK, FlushStates
    <2>3. Locking' /\ Fenced' BY DEF Locking, Fenced
    <2> QED BY <2>2, <2>3
  <1>12. CASE FlushSave
    <2> USE <1>12 DEF FlushSave, taskVars
    <2>1. at' \in Keys
      <3>1. at \in 1..N BY DEF TypeOK, Keys
      <3>2. at' = 1 \/ (at # N /\ at' = at + 1) OBVIOUS
      <3> QED BY <3>1, <3>2, NAssumption DEF Keys
    <2>2. TypeOK' BY <2>1 DEF TypeOK, FlushStates
    <2>3. Locking' /\ Fenced' BY DEF Locking, Fenced
    <2> QED BY <2>2, <2>3
  <1>13. CASE FlushSaveFails
    <2> USE <1>13 DEF FlushSaveFails, taskVars, writerVars
    <2>1. TypeOK' BY DEF TypeOK, FlushStates
    <2>2. Locking' /\ Fenced' BY DEF Locking, Fenced
    <2> QED BY <2>1, <2>2
  <1>14. CASE Restart
    <2> DEFINE c == [key |-> 1, value |-> store[1] + 1]
    <2> USE <1>14 DEF Restart
    <2>1. c \in Commands
      <3>1. store \in [Keys -> Nat] BY DEF TypeOK
      <3>2. store[1] + 1 \in Nat BY <3>1, NextVersion
      <3> QED BY <3>2
    <2>2. queue' = <<c>> OBVIOUS
    <2> HIDE DEF c
    <2>3. queue' \in Seq(Commands \cup {Barrier}) BY <2>1, <2>2
    <2>4. TypeOK'
      <3>1. mem' \in [Keys -> Nat]
        <4>1. store \in [Keys -> Nat] BY DEF TypeOK
        <4> QED BY <4>1, NextVersion
      <3>2. acked' \in BOOLEAN OBVIOUS
      <3>3. updating' \in [Tasks -> Keys \cup {NoKey}] OBVIOUS
      <3>4. restarts \in Nat => restarts + 1 \in Nat BY NAssumption
      <3>5. at' \in Keys /\ restarts' \in Nat BY <3>4 DEF TypeOK
      <3> QED BY <2>3, <3>1, <3>2, <3>3, <3>5 DEF TypeOK, FlushStates
    <2>5. Locking' BY DEF Locking
    <2>6. Fenced' BY <2>1, <2>2 DEF Fenced
    <2> QED BY <2>4, <2>5, <2>6
  <1> QED
    BY <1>1, <1>2, <1>3, <1>4, <1>5, <1>6, <1>7, <1>8, <1>9, <1>10, <1>11, <1>12, <1>13,
       <1>14 DEF Next

\* Every step keeps the versions in order, and none takes the store back.
LEMMA StepOrdered ==
  Shape /\ Shape' /\ Ordered /\ [Next]_vars =>
     Ordered' /\ \A k \in Keys : store'[k] >= store[k]
  <1> SUFFICES ASSUME Shape, Shape', Ordered, [Next]_vars
               PROVE  Ordered' /\ \A k \in Keys : store'[k] >= store[k]
    OBVIOUS
  <1> DEFINE Grows == \A k \in Keys : store'[k] >= store[k]
  <1>a. /\ TypeOK /\ TypeOK' /\ Locking /\ Locking' /\ Fenced /\ Fenced' BY DEF Shape
  <1>b. /\ \A k \in Keys : store[k] \in Nat /\ store'[k] \in Nat /\ mem[k] \in Nat
                          /\ mem'[k] \in Nat /\ final[k] \in Nat
                          /\ failed[k] \in Nat /\ failed'[k] \in Nat
        /\ snapshot \in Nat
    BY <1>a DEF TypeOK
  <1>c. queue \in Seq(Commands \cup {Barrier}) BY <1>a DEF TypeOK
  <1>d. \A i \in DOMAIN queue : queue[i] = Barrier \/ queue[i] \in Commands
    BY <1>c
  <1>e. saving = None \/ saving \in Commands BY <1>a DEF TypeOK
  <1>f. store' = store => Grows BY <1>b
  <1>1. CASE UNCHANGED vars
    BY <1>1, <1>f DEF Ordered, Between, Known, vars
  <1>2. ASSUME NEW t \in Tasks, NEW k \in Keys, Update(t, k) PROVE Ordered' /\ Grows
    <2> USE <1>2 DEF Update, writerVars, flushVars
    <2>1. \A x \in Keys : mem[x] <= mem'[x]
      <3>1. DOMAIN mem = Keys /\ mem' = [mem EXCEPT ![k] = @ + 1] BY <1>a DEF TypeOK
      <3>2. \A x \in Keys : mem'[x] = IF x = k THEN mem[x] + 1 ELSE mem[x] BY ONLY <3>1
      <3> QED BY ONLY <3>2, <1>b
    <2>2. lock \in Tasks => updating'[lock] = updating[lock] /\ updating[lock] \in Keys
      BY <1>a, CommandFacts DEF Locking, TypeOK
    <2>3. \A v \in Nat, x \in Keys : Between(v, x) => Between(v, x)'
      BY <1>b, <2>1 DEF Between
    <2>4. /\ \A x \in Keys : store'[x] <= mem'[x] /\ failed'[x] <= mem'[x]
          /\ saving' # None => Between(saving.value, saving.key)'
      BY <1>b, <1>e, <2>1, <2>3, CommandFacts DEF Ordered
    <2>5. \A i \in DOMAIN queue' : queue'[i] # Barrier =>
             /\ Between(queue[i].value, queue[i].key)'
             /\ saving'.key = queue'[i].key => saving'.value <= queue'[i].value
      BY <1>d, <2>3, CommandFacts DEF Ordered
    <2>6. lock' \in Tasks =>
            /\ Between(snapshot, updating[lock])'
            /\ saving'.key = updating'[lock'] => saving'.value <= snapshot'
            /\ \A i \in DOMAIN queue' : queue'[i].key = updating'[lock'] => queue'[i].value <= snapshot'
      BY <1>b, <2>2, <2>1 DEF Ordered, Between
    <2>7. \A x \in Keys : Known(x)' => Between(final[x], x)'
      BY <1>b, <2>3 DEF Ordered, Known
    <2>8. Ordered' BY <2>4, <2>5, <2>6, <2>7 DEF Ordered, Between
    <2> QED BY <2>8, <1>f
  <1>3. ASSUME NEW t \in Tasks, TakeSnapshot(t) PROVE Ordered' /\ Grows
    <2> USE <1>3 DEF TakeSnapshot, writerVars, flushVars
    <2>1. updating[t] \in Keys BY <1>a DEF TypeOK
    <2>2. Between(snapshot', updating[t]) BY <1>b, <2>1 DEF Ordered, Between
    <2>3. \A i \in DOMAIN queue : queue[i].key = updating[t] => queue[i].value <= snapshot'
      BY <1>d, <2>1, CommandFacts DEF Ordered, Between
    <2>4. saving.key = updating[t] => saving.value <= snapshot'
      BY <1>e, <2>1, CommandFacts DEF Ordered, Between
    <2>5. Ordered' BY <2>2, <2>3, <2>4 DEF Ordered, Between, Known
    <2> QED BY <2>5, <1>f
  <1>4. ASSUME NEW t \in Tasks, Send(t) PROVE Ordered' /\ Grows
    <2> DEFINE c == [key |-> updating[t], value |-> snapshot]
    <2> USE <1>4 DEF Send, flushVars
    <2>1. updating[t] \in Keys BY <1>a DEF Locking
    <2>2. c \in Commands /\ c.key = updating[t] /\ c.value = snapshot
      BY <2>1, <1>b, CommandFacts
    <2>3. queue' = Append(queue, c) OBVIOUS
    <2> HIDE DEF c
    <2>4. /\ DOMAIN queue = 1..Len(queue) /\ Len(queue) \in Nat
          /\ DOMAIN queue' = 1..(Len(queue) + 1)
          /\ \A i \in DOMAIN queue : queue'[i] = queue[i]
          /\ queue'[Len(queue) + 1] = c
      BY <2>2, <2>3, <1>c, ChannelFacts
    <2>5. \A i \in DOMAIN queue' : i \in DOMAIN queue \/ i = Len(queue) + 1 BY <2>4
    <2>6. lock' \notin Tasks BY LockAssumption
    <2>7. /\ Between(snapshot, updating[t])
          /\ saving.key = updating[t] => saving.value <= snapshot
          /\ \A i \in DOMAIN queue : queue[i].key = updating[t] => queue[i].value <= snapshot
      BY DEF Ordered
    <2>8. \A i \in DOMAIN queue' : queue'[i] # Barrier =>
             /\ Between(queue'[i].value, queue'[i].key)
             /\ saving.key = queue'[i].key => saving.value <= queue'[i].value
      BY <2>2, <2>4, <2>5, <2>7 DEF Ordered
    <2>9. \A i, j \in DOMAIN queue' :
             i < j /\ queue'[i] # Barrier /\ queue'[i].key = queue'[j].key =>
                queue'[i].value <= queue'[j].value
      <3> SUFFICES ASSUME NEW i \in DOMAIN queue', NEW j \in DOMAIN queue', i < j,
                          queue'[i] # Barrier, queue'[i].key = queue'[j].key
                   PROVE  queue'[i].value <= queue'[j].value
        OBVIOUS
      <3>1. i \in DOMAIN queue BY <2>4
      <3>2. CASE j \in DOMAIN queue BY <3>1, <3>2, <2>4 DEF Ordered
      <3>3. CASE j = Len(queue) + 1 BY <3>1, <3>3, <2>2, <2>4, <2>7
      <3> QED BY <3>2, <3>3, <2>5
    <2>10. Ordered' BY <2>6, <2>8, <2>9 DEF Ordered, Between, Known
    <2> QED BY <2>10, <1>f
  <1>5. CASE WriterTake
    <2> USE <1>5 DEF WriterTake, taskVars, flushVars
    <2>1. /\ 1 \in DOMAIN queue /\ Head(queue) = queue[1] /\ DOMAIN queue' = 1..(Len(queue) - 1)
          /\ Len(queue) \in Nat
          /\ \A i \in DOMAIN queue' : queue'[i] = queue[i + 1] /\ i + 1 \in DOMAIN queue
      BY <1>c, ChannelFacts
    <2>2. \A i \in DOMAIN queue' : i \in Nat /\ 1 < i + 1 BY <2>1
    <2>3. saving' = None \/ (saving' = queue[1] /\ queue[1] # Barrier) BY <2>1
    <2>4. saving' # None => Between(saving'.value, saving'.key)
      BY <2>1, <2>3 DEF Ordered
    <2>5. \A i \in DOMAIN queue' : queue'[i] # Barrier =>
             /\ Between(queue'[i].value, queue'[i].key)
             /\ saving'.key = queue'[i].key => saving'.value <= queue'[i].value
      <3> SUFFICES ASSUME NEW i \in DOMAIN queue', queue'[i] # Barrier
                   PROVE  /\ Between(queue'[i].value, queue'[i].key)
                          /\ saving'.key = queue'[i].key => saving'.value <= queue'[i].value
        OBVIOUS
      <3>1. i + 1 \in DOMAIN queue /\ queue'[i] = queue[i + 1] /\ 1 < i + 1 BY <2>1, <2>2
      <3>2. queue[i + 1].key \in Keys BY <3>1, <1>d, CommandFacts
      <3>3. Between(queue'[i].value, queue'[i].key) BY <3>1 DEF Ordered
      <3>4. CASE saving' = None BY <3>1, <3>2, <3>3, <3>4, CommandFacts
      <3>5. CASE saving' = queue[1] /\ queue[1] # Barrier
        BY <3>1, <3>3, <3>5, <2>1 DEF Ordered
      <3> QED BY <3>4, <3>5, <2>3
    <2>6. \A i, j \in DOMAIN queue' :
             i < j /\ queue'[i] # Barrier /\ queue'[i].key = queue'[j].key =>
                queue'[i].value <= queue'[j].value
      BY <2>1, <2>2 DEF Ordered
    <2>7. lock \in Tasks =>
             /\ saving'.key = updating[lock] => saving'.value <= snapshot
             /\ \A i \in DOMAIN queue' : queue'[i].key = updating[lock] => queue'[i].value <= snapshot
      BY <2>1, <2>3, <1>a, CommandFacts DEF Ordered, Locking
    <2>8. Ordered' BY <2>4, <2>5, <2>6, <2>7 DEF Ordered, Between, Known
    <2> QED BY <2>8, <1>f
  <1>6. CASE WriterSaved
    <2> USE <1>6 DEF WriterSaved, taskVars, flushVars
    <2>1. saving \in Commands /\ saving.key \in Keys /\ saving.value \in Nat BY <1>e, CommandFacts
    <2>2. store' = [store EXCEPT ![saving.key] = saving.value] /\ store \in [Keys -> Nat]
      BY <1>a DEF TypeOK
    <2>3. store[saving.key] <= saving.value /\ saving.value <= mem[saving.key]
      BY DEF Ordered, Between
    <2>4. Grows BY <1>b, <2>1, <2>2, <2>3
    <2>5. \A k \in Keys : store'[k] = IF k = saving.key THEN saving.value ELSE store[k]
      BY <2>1, <2>2
    <2>6. saving'.key \notin Keys BY CommandFacts
    <2>7. \A k \in Keys : store'[k] <= mem[k] BY <2>3, <2>5 DEF Ordered
    <2>8. \A i \in DOMAIN queue : queue[i] # Barrier => store'[queue[i].key] <= queue[i].value
      BY <2>5, <1>d, CommandFacts DEF Ordered, Between
    <2>9. lock \in Tasks => store'[updating[lock]] <= snapshot
      BY <2>5, <1>a DEF Ordered, Between, Locking
    <2>10. \A k \in Keys : ~Known(k) BY <1>a DEF Fenced, Known
    <2>11. saving' = None => \A i \in DOMAIN queue : queue[i] # Barrier => saving'.key # queue[i].key
      BY <1>d, CommandFacts
    <2>12. lock \in Tasks => saving'.key # updating[lock] BY <2>6, <1>a DEF Locking
    <2>13. Ordered'
      BY <2>7, <2>8, <2>9, <2>10, <2>11, <2>12 DEF Ordered, Between, Known
    <2> QED BY <2>4, <2>13
  <1>7. CASE WriterSaveFails
    <2> USE <1>7 DEF WriterSaveFails, taskVars, flushVars
    <2>1. saving \in Commands /\ saving.key \in Keys /\ saving.value \in Nat BY <1>e, CommandFacts
    <2>2. saving.value <= mem[saving.key] BY DEF Ordered, Between
    <2>3. \A k \in Keys : failed'[k] = IF k = saving.key THEN saving.value ELSE failed[k]
      BY <2>1, <1>a DEF TypeOK
    <2>4. saving'.key \notin Keys BY CommandFacts
    <2>5. \A k \in Keys : failed'[k] <= mem[k] BY <2>2, <2>3 DEF Ordered
    <2>6. \A i \in DOMAIN queue : queue[i] # Barrier => failed'[queue[i].key] <= queue[i].value
      BY <2>3, <1>d, CommandFacts DEF Ordered, Between
    <2>7. lock \in Tasks => failed'[updating[lock]] <= snapshot
      BY <2>3, <1>a DEF Ordered, Between, Locking
    <2>8. \A k \in Keys : ~Known(k) BY <1>a DEF Fenced, Known
    <2>9. saving' = None => \A i \in DOMAIN queue : queue[i] # Barrier => saving'.key # queue[i].key
      BY <1>d, CommandFacts
    <2>10. lock \in Tasks => saving'.key # updating[lock] BY <2>4, <1>a DEF Locking
    <2>11. Ordered'
      BY <2>5, <2>6, <2>7, <2>8, <2>9, <2>10 DEF Ordered, Between, Known
    <2> QED BY <2>11, <1>f
  <1>8. CASE BeginShutdown
    <2>1. Ordered' BY <1>8 DEF BeginShutdown, taskVars, writerVars, Ordered, Between, Known
    <2> QED BY <2>1, <1>8, <1>f DEF BeginShutdown, writerVars
  <1>9. CASE FlushLock
    <2> USE <1>9 DEF FlushLock, taskVars
    <2>1. /\ DOMAIN queue = 1..Len(queue) /\ Len(queue) \in Nat
          /\ DOMAIN queue' = 1..(Len(queue) + 1)
          /\ \A i \in DOMAIN queue : queue'[i] = queue[i]
          /\ queue'[Len(queue) + 1] = Barrier
      BY <1>c, ChannelFacts
    <2>2. \A i \in DOMAIN queue' : i \in DOMAIN queue \/ queue'[i] = Barrier BY <2>1
    <2>3. \A i, j \in DOMAIN queue' : i < j => i \in DOMAIN queue BY <2>1
    <2>4. lock' \notin Tasks BY LockAssumption
    <2>5. \A i \in DOMAIN queue : queue[i] # Barrier => queue[i].key # Barrier.key
      BY <1>d, CommandFacts
    <2>6. \A i, j \in DOMAIN queue' :
             i < j /\ queue'[i] # Barrier /\ queue'[i].key = queue'[j].key =>
                queue'[i].value <= queue'[j].value
      <3> SUFFICES ASSUME NEW i \in DOMAIN queue', NEW j \in DOMAIN queue', i < j,
                          queue'[i] # Barrier, queue'[i].key = queue'[j].key
                   PROVE  queue'[i].value <= queue'[j].value
        OBVIOUS
      <3>1. i \in DOMAIN queue /\ queue'[i] = queue[i] BY <2>3, <2>1
      <3>2. queue'[j] # Barrier BY <3>1, <2>5
      <3>3. j \in DOMAIN queue /\ queue'[j] = queue[j] BY <3>2, <2>1, <2>2
      <3> QED BY <3>1, <3>3 DEF Ordered
    <2>7. Ordered' BY <2>1, <2>2, <2>4, <2>6 DEF Ordered, Between, Known
    <2> QED BY <2>7, <1>f
  <1>10. CASE FlushAcked
    <2> USE <1>10 DEF FlushAcked, taskVars, writerVars
    <2>1. \A k \in Keys : ~Known(k)' BY NAssumption DEF Known, Keys
    <2>2. Ordered' BY <2>1 DEF Ordered, Between
    <2> QED BY <2>2, <1>f
  <1>11. CASE FlushRead
    <2> USE <1>11 DEF FlushRead, taskVars, writerVars
    <2>1. at \in 1..N /\ final \in [Keys -> Nat] BY <1>a DEF TypeOK, Keys
    <2>2. \A k \in Keys : Known(k)' => k = at \/ Known(k)
      BY <2>1, NAssumption DEF Known, Keys
    <2>3. \A k \in Keys : final'[k] = IF k = at THEN mem[at] ELSE final[k] BY <2>1
    <2>4. \A k \in Keys : Known(k)' => Between(final'[k], k)
      BY <2>2, <2>3, <1>b DEF Ordered, Between
    <2>5. Ordered' BY <2>4 DEF Ordered, Between
    <2> QED BY <2>5, <1>f
  <1>12. CASE FlushSave
    <2> USE <1>12 DEF FlushSave, taskVars
    <2>1. at \in Keys /\ store \in [Keys -> Nat] BY <1>a DEF TypeOK
    <2>2. \A k \in Keys : store'[k] = IF k = at THEN final[at] ELSE store[k] BY <2>1
    <2>3. \A k \in Keys : Known(k) BY DEF Known
    <2>4. Grows BY <2>1, <2>2, <2>3, <1>b DEF Ordered, Between
    <2>5. queue = <<>> /\ saving = None /\ lock = Flusher BY <1>a DEF Fenced, Locking
    <2>6. lock' \notin Tasks BY <2>5, LockAssumption
    <2>7. \A k \in Keys : store'[k] <= mem[k] /\ store'[k] <= final[k]
      BY <2>2, <2>3, <1>b DEF Ordered, Between
    <2>8. Ordered'
      <3>1. queue' = <<>> /\ saving' = None /\ DOMAIN queue' = {} BY <2>5
      <3>2. \A k \in Keys : Known(k)' => Between(final[k], k)'
        BY <2>3, <2>7 DEF Ordered, Between
      <3> QED BY <3>1, <3>2, <2>6, <2>7 DEF Ordered, Between
    <2> QED BY <2>4, <2>8
  <1>13. CASE FlushSaveFails
    <2> USE <1>13, LockAssumption DEF FlushSaveFails, taskVars, writerVars
    <2>1. Ordered' BY DEF Ordered, Between, Known
    <2> QED BY <2>1, <1>f
  <1>14. CASE Restart
    <2> USE <1>14 DEF Restart
    <2>1. store \in [Keys -> Nat] /\ 1 \in Keys BY <1>a, CommandFacts DEF TypeOK
    <2>2. \A k \in Keys : mem'[k] = IF k = 1 THEN store[1] + 1 ELSE store[k] BY <2>1
    <2>3. DOMAIN queue' = {1} /\ queue'[1] = [key |-> 1, value |-> store[1] + 1] OBVIOUS
    <2>4. \A k \in Keys : store'[k] <= mem'[k] /\ failed'[k] <= mem'[k] BY <2>2, <1>b
    <2>5. Between(queue[1].value, queue[1].key)'
      <3>1. queue'[1].key = 1 /\ queue'[1].value = store[1] + 1 BY <2>3
      <3> QED BY <3>1, <2>1, <2>2, <1>b DEF Between
    <2>6. saving'.key # queue'[1].key BY <2>3, CommandFacts
    <2>7. lock' \notin Tasks /\ \A k \in Keys : ~Known(k)' BY LockAssumption DEF Known
    <2>8. Ordered' BY <2>3, <2>4, <2>5, <2>6, <2>7 DEF Ordered, Between
    <2> QED BY <2>8, <1>f
  <1> QED
    BY <1>1, <1>2, <1>3, <1>4, <1>5, <1>6, <1>7, <1>8, <1>9, <1>10, <1>11, <1>12, <1>13,
       <1>14 DEF Next

\* Every step keeps what shutdown found in memory covered by the flush.
LEMMA StepCovered ==
  Shape /\ Shape' /\ Ordered /\ Ordered' /\ Covered /\ [Next]_vars => Covered'
  <1> SUFFICES ASSUME Shape, Shape', Ordered, Ordered', Covered, [Next]_vars PROVE Covered'
    OBVIOUS
  <1>a. TypeOK /\ TypeOK' /\ Locking /\ Fenced BY DEF Shape
  <1>b. \A k \in Keys : /\ store[k] \in Nat /\ store'[k] \in Nat /\ mem[k] \in Nat
                         /\ mem'[k] \in Nat /\ final[k] \in Nat /\ atShutdown[k] \in Nat
    BY <1>a DEF TypeOK
  <1>1. CASE UNCHANGED vars
    BY <1>1 DEF Covered, Known, vars
  <1>2. ASSUME NEW t \in Tasks, NEW k \in Keys, Update(t, k) PROVE Covered'
    <2> USE <1>2 DEF Update, writerVars, flushVars
    <2>1. \A x \in Keys : mem[x] <= mem'[x]
      <3>1. DOMAIN mem = Keys /\ mem' = [mem EXCEPT ![k] = @ + 1] BY <1>a DEF TypeOK
      <3>2. \A x \in Keys : mem'[x] = IF x = k THEN mem[x] + 1 ELSE mem[x] BY ONLY <3>1
      <3> QED BY ONLY <3>2, <1>b
    <2> QED BY <2>1, <1>b DEF Covered, Known
  <1>3. ASSUME NEW t \in Tasks, TakeSnapshot(t) \/ Send(t) PROVE Covered'
    BY <1>3 DEF TakeSnapshot, Send, writerVars, flushVars, Covered, Known
  <1>4. CASE WriterTake \/ WriterSaveFails
    BY <1>4 DEF WriterTake, WriterSaveFails, taskVars, flushVars, Covered, Known
  <1>5. CASE WriterSaved
    <2>1. \A k \in Keys : store[k] <= store'[k] BY StepOrdered, <1>b
    <2> QED BY <1>5, <2>1, <1>b DEF WriterSaved, taskVars, flushVars, Covered, Known
  <1>6. CASE BeginShutdown
    BY <1>6, <1>b DEF BeginShutdown, taskVars, writerVars, Covered, Known
  <1>7. CASE FlushLock \/ FlushSaveFails
    BY <1>7 DEF FlushLock, FlushSaveFails, taskVars, writerVars, Covered, Known
  <1>8. CASE FlushAcked
    <2>1. \A k \in Keys : ~Known(k)' BY <1>8, NAssumption DEF FlushAcked, Known, Keys
    <2> QED BY <1>8, <2>1 DEF FlushAcked, taskVars, writerVars, Covered
  <1>9. CASE FlushRead
    <2> USE <1>9 DEF FlushRead, taskVars, writerVars
    <2>1. at \in 1..N /\ final \in [Keys -> Nat] BY <1>a DEF TypeOK, Keys
    <2>2. \A k \in Keys : Known(k)' => k = at \/ Known(k)
      BY <2>1, NAssumption DEF Known, Keys
    <2>3. \A k \in Keys : final'[k] = IF k = at THEN mem[at] ELSE final[k] BY <2>1
    <2>4. \A k \in Keys : Known(k)' => atShutdown[k] <= final'[k]
      BY <2>2, <2>3 DEF Covered
    <2>5. \A k \in Keys : flush' = "save" => ~(k < at')
      <3>1. flush' = "save" => at' = 1 OBVIOUS
      <3>2. \A k \in Keys : k \in Nat /\ k >= 1 BY NAssumption DEF Keys
      <3>3. \A k \in Keys : ~(k < 1) BY <3>2
      <3> QED BY <3>1, <3>3
    <2> QED BY <2>4, <2>5 DEF Covered
  <1>10. CASE FlushSave
    <2> USE <1>10 DEF FlushSave, taskVars
    <2>1. at \in 1..N /\ store \in [Keys -> Nat] /\ at \in Keys BY <1>a DEF TypeOK, Keys
    <2>2. \A k \in Keys : store'[k] = IF k = at THEN final[at] ELSE store[k] BY <2>1
    <2>3. \A k \in Keys : Known(k) BY DEF Known
    <2>4. \A k \in Keys : k <= at => atShutdown[k] <= store'[k]
      <3> SUFFICES ASSUME NEW k \in Keys, k <= at PROVE atShutdown[k] <= store'[k] OBVIOUS
      <3>1. CASE k = at BY <3>1, <2>2, <2>3 DEF Covered
      <3>2. CASE k < at
        <4>1. k # at BY <3>2, <2>1 DEF Keys
        <4>2. store'[k] = store[k] BY <4>1, <2>2
        <4> QED BY <3>2, <4>2 DEF Covered
      <3> QED BY <3>1, <3>2, <2>1 DEF Keys
    <2>5. \A k \in Keys : k < at + 1 => k <= at BY <2>1 DEF Keys
    <2>6. at = N => \A k \in Keys : k <= at BY <2>1 DEF Keys
    <2> QED BY <2>3, <2>4, <2>5, <2>6 DEF Covered, Known
  <1>11. CASE Restart
    BY <1>11 DEF Restart, Covered, Known
  <1> QED
    BY <1>1, <1>2, <1>3, <1>4, <1>5, <1>6, <1>7, <1>8, <1>9, <1>10, <1>11 DEF Next

\* Every step keeps each version remembered by the pipeline or by a task.
LEMMA StepRemembered ==
  Shape /\ Shape' /\ Ordered /\ Remembered /\ [Next]_vars => Remembered'
  <1> SUFFICES ASSUME Shape, Shape', Ordered, Remembered, [Next]_vars PROVE Remembered'
    OBVIOUS
  <1>a. TypeOK /\ TypeOK' /\ Locking /\ Locking' /\ Fenced BY DEF Shape
  <1>b. \A k \in Keys : /\ store[k] \in Nat /\ mem[k] \in Nat /\ final[k] \in Nat
    BY <1>a DEF TypeOK
  <1>c. queue \in Seq(Commands \cup {Barrier}) BY <1>a DEF TypeOK
  <1>e. saving = None \/ saving \in Commands BY <1>a DEF TypeOK
  <1> USE DEF Remembered
  <1>1. CASE UNCHANGED vars
    BY <1>1 DEF NothingForgotten, OnItsWay, Pending, Known, vars
  <1>2. ASSUME NEW t \in Tasks, NEW k \in Keys, Update(t, k) PROVE Remembered'
    <2> USE <1>2 DEF Update, writerVars, flushVars
    <2>1. /\ updating'[t] = k
          /\ \A u \in Tasks : u # t => updating'[u] = updating[u]
          /\ \A x \in Keys : x # k => mem'[x] = mem[x]
      BY <1>a DEF TypeOK
    <2>2. updating[t] \notin Keys /\ t # lock BY <1>a, CommandFacts DEF Locking
    <2>3. \A x \in Keys : (\E u \in Tasks : updating[u] = x) => \E u \in Tasks : updating'[u] = x
      BY <2>1, <2>2
    <2>4. NothingForgotten' BY <2>1, <2>3 DEF NothingForgotten, OnItsWay
    <2>5. \A x \in Keys : Pending(x) => Pending(x)' BY <2>1, <2>2 DEF Pending
    <2>6. Pending(k)' BY <2>1, <2>2 DEF Pending
    <2>7. lock \in Tasks => updating'[lock] = updating[lock] /\ updating[lock] \in Keys
      BY <2>1, <2>2, <1>a DEF Locking
    <2>8. lock' \in Tasks => snapshot' = mem'[updating'[lock']] \/ Pending(updating[lock])'
      BY <2>1, <2>5, <2>6, <2>7
    <2>9. \A x \in Keys : Known(x)' => final'[x] = mem'[x] \/ Pending(x)'
      BY <2>1, <2>5, <2>6 DEF Known
    <2> QED BY <2>4, <2>8, <2>9
  <1>3. ASSUME NEW t \in Tasks, TakeSnapshot(t) PROVE Remembered'
    <2> USE <1>3 DEF TakeSnapshot, writerVars, flushVars
    <2>1. NothingForgotten' BY DEF NothingForgotten, OnItsWay
    <2>2. \A k \in Keys : ~Known(k)'
      BY <1>a, LockAssumption DEF Known, Locking
    <2> QED BY <2>1, <2>2
  <1>4. ASSUME NEW t \in Tasks, Send(t) PROVE Remembered'
    <2> DEFINE c == [key |-> updating[t], value |-> snapshot]
    <2> USE <1>4 DEF Send, flushVars
    <2>1. updating[t] \in Keys BY <1>a DEF Locking
    <2>2. c \in Commands BY <2>1, <1>a, CommandFacts DEF TypeOK
    <2>3. queue' = Append(queue, c) OBVIOUS
    <2>4. /\ DOMAIN queue \subseteq DOMAIN queue' /\ Len(queue) + 1 \in DOMAIN queue'
          /\ \A i \in DOMAIN queue : queue'[i] = queue[i]
          /\ queue'[Len(queue) + 1] = c
      <3> HIDE DEF c
      <3> QED BY <2>2, <2>3, <1>c, ChannelFacts
    <2>5. \A u \in Tasks : u # t => updating'[u] = updating[u] BY <1>a DEF TypeOK
    <2>6. NothingForgotten'
      <3> SUFFICES ASSUME NEW k \in Keys PROVE (\E u \in Tasks : updating'[u] = k) \/ OnItsWay(k)'
        BY DEF NothingForgotten
      <3>1. OnItsWay(k) => OnItsWay(k)' BY <2>4 DEF OnItsWay
      <3>2. CASE k = updating[t]
        <4>1. CASE snapshot = mem[k] BY <4>1, <3>2, <2>4 DEF OnItsWay
        <4>2. CASE Pending(k) BY <4>2, <2>5 DEF Pending
        <4> QED BY <4>1, <4>2, <3>2
      <3>3. CASE k # updating[t] BY <3>1, <3>3, <2>5 DEF NothingForgotten
      <3> QED BY <3>2, <3>3
    <2>7. \A k \in Keys : ~Known(k)'
      BY <1>a, LockAssumption DEF Known, Locking
    <2>8. lock' \notin Tasks BY LockAssumption
    <2> QED BY <2>6, <2>7, <2>8
  <1>5. CASE WriterTake
    <2> USE <1>5 DEF WriterTake, taskVars, flushVars
    <2>1. /\ Head(queue) = queue[1] /\ DOMAIN queue = 1..Len(queue) /\ Len(queue) \in Nat
          /\ DOMAIN queue' = 1..(Len(queue) - 1)
          /\ \A i \in DOMAIN queue' : queue'[i] = queue[i + 1]
      BY <1>c, ChannelFacts
    <2>2. \A i \in DOMAIN queue : i = 1 \/ (i - 1 \in DOMAIN queue' /\ queue'[i - 1] = queue[i])
      BY <2>1
    <2>3. \A k \in Keys : OnItsWay(k) => OnItsWay(k)'
      <3> SUFFICES ASSUME NEW k \in Keys, OnItsWay(k) PROVE OnItsWay(k)' OBVIOUS
      <3>1. [key |-> k, value |-> mem[k]] \in Commands BY <1>b, CommandFacts
      <3>2. [key |-> k, value |-> mem[k]] # Barrier /\ [key |-> k, value |-> mem[k]] # None
        BY <3>1, CommandFacts
      <3>3. CASE \E i \in DOMAIN queue : queue[i] = [key |-> k, value |-> mem[k]]
        BY <3>2, <3>3, <2>1, <2>2 DEF OnItsWay
      <3> QED BY <3>2, <3>3 DEF OnItsWay
    <2>4. NothingForgotten' BY <2>3 DEF NothingForgotten
    <2> QED BY <2>4 DEF Pending, Known
  <1>6. CASE WriterSaved
    <2> USE <1>6 DEF WriterSaved, taskVars, flushVars
    <2>1. saving \in Commands /\ saving.key \in Keys /\ saving.value \in Nat BY <1>e, CommandFacts
    <2>2. store[saving.key] <= saving.value /\ saving.value <= mem[saving.key]
      BY DEF Ordered, Between
    <2>3. \A k \in Keys : store'[k] = IF k = saving.key THEN saving.value ELSE store[k]
      BY <2>1, <1>a DEF TypeOK
    <2>4. \A k \in Keys : OnItsWay(k) => OnItsWay(k)'
      BY <1>b, <2>1, <2>2, <2>3 DEF OnItsWay
    <2>5. NothingForgotten' BY <2>4 DEF NothingForgotten
    <2> QED BY <2>5 DEF Pending, Known
  <1>7. CASE WriterSaveFails
    <2> USE <1>7 DEF WriterSaveFails, taskVars, flushVars
    <2>1. saving \in Commands /\ saving.key \in Keys /\ saving.value \in Nat BY <1>e, CommandFacts
    <2>2. \A k \in Keys : failed'[k] = IF k = saving.key THEN saving.value ELSE failed[k]
      BY <2>1, <1>a DEF TypeOK
    <2>3. \A k \in Keys : OnItsWay(k) => OnItsWay(k)'
      <3> SUFFICES ASSUME NEW k \in Keys, OnItsWay(k) PROVE OnItsWay(k)' OBVIOUS
      <3>1. CASE saving = [key |-> k, value |-> mem[k]] BY <3>1, <2>2 DEF OnItsWay
      <3>2. CASE failed[k] = mem[k] /\ k # saving.key BY <3>2, <2>2 DEF OnItsWay
      <3>3. CASE failed[k] = mem[k] /\ k = saving.key
        <4>1. mem[k] <= saving.value /\ saving.value <= mem[k] BY <3>3 DEF Ordered, Between
        <4>2. saving.value = mem[k] BY <4>1, <1>b, <2>1
        <4> QED BY <4>2, <3>3, <2>2 DEF OnItsWay
      <3> QED BY <3>1, <3>2, <3>3 DEF OnItsWay
    <2>4. NothingForgotten' BY <2>3 DEF NothingForgotten
    <2> QED BY <2>4 DEF Pending, Known
  <1>8. CASE BeginShutdown
    <2> USE <1>8 DEF BeginShutdown, taskVars, writerVars
    <2>1. NothingForgotten' BY DEF NothingForgotten, OnItsWay
    <2> QED BY <2>1 DEF Pending, Known
  <1>9. CASE FlushLock
    <2> USE <1>9 DEF FlushLock, taskVars
    <2>1. DOMAIN queue \subseteq DOMAIN queue' /\ \A i \in DOMAIN queue : queue'[i] = queue[i]
      BY <1>c, ChannelFacts
    <2>2. NothingForgotten' BY <2>1 DEF NothingForgotten, OnItsWay
    <2>3. lock' \notin Tasks /\ \A k \in Keys : ~Known(k)' BY LockAssumption DEF Known
    <2> QED BY <2>2, <2>3
  <1>10. CASE FlushAcked
    <2> USE <1>10 DEF FlushAcked, taskVars, writerVars
    <2>1. NothingForgotten' BY DEF NothingForgotten, OnItsWay
    <2>2. \A k \in Keys : ~Known(k)' BY NAssumption DEF Known, Keys
    <2> QED BY <2>1, <2>2 DEF Pending
  <1>11. CASE FlushRead
    <2> USE <1>11 DEF FlushRead, taskVars, writerVars
    <2>1. at \in 1..N /\ final \in [Keys -> Nat] BY <1>a DEF TypeOK, Keys
    <2>2. \A k \in Keys : Known(k)' => k = at \/ Known(k)
      BY <2>1, NAssumption DEF Known, Keys
    <2>3. \A k \in Keys : final'[k] = IF k = at THEN mem[at] ELSE final[k] BY <2>1
    <2>4. \A k \in Keys : Known(k)' => final'[k] = mem[k] \/ Pending(k)
      BY <2>2, <2>3
    <2>5. NothingForgotten' BY DEF NothingForgotten, OnItsWay
    <2> QED BY <2>4, <2>5 DEF Pending
  <1>12. CASE FlushSave
    <2> USE <1>12 DEF FlushSave, taskVars
    <2>1. \A k \in Keys : store'[k] = IF k = at THEN final[at] ELSE store[k]
      BY <1>a DEF TypeOK
    <2>2. \A k \in Keys : Known(k) BY DEF Known
    <2>3. lock = Flusher /\ lock' \notin Tasks /\ lock \notin Tasks
      BY <1>a, LockAssumption DEF Locking
    <2>4. \A k \in Keys : Pending(k) => Pending(k)' BY <2>3 DEF Pending
    <2>5. NothingForgotten'
      <3> SUFFICES ASSUME NEW k \in Keys PROVE (\E u \in Tasks : updating'[u] = k) \/ OnItsWay(k)'
        BY DEF NothingForgotten
      <3>1. CASE k # at BY <3>1, <2>1 DEF NothingForgotten, OnItsWay
      <3>2. CASE k = at
        <4>1. CASE final[k] = mem[k] BY <3>2, <4>1, <2>1 DEF OnItsWay
        <4>2. CASE Pending(k) BY <4>2 DEF Pending
        <4> QED BY <4>1, <4>2, <2>2
      <3> QED BY <3>1, <3>2
    <2> QED BY <2>2, <2>3, <2>4, <2>5
  <1>13. CASE FlushSaveFails
    <2> USE <1>13 DEF FlushSaveFails, taskVars, writerVars
    <2>1. NothingForgotten' BY DEF NothingForgotten, OnItsWay
    <2> QED BY <2>1, LockAssumption DEF Known
  <1>14. CASE Restart
    <2> USE <1>14 DEF Restart
    <2>1. \A k \in Keys : mem'[k] = IF k = 1 THEN store[1] + 1 ELSE store[k]
      BY <1>a, CommandFacts DEF TypeOK
    <2>2. 1 \in DOMAIN queue' /\ queue'[1] = [key |-> 1, value |-> store[1] + 1] OBVIOUS
    <2>3. NothingForgotten' BY <2>1, <2>2 DEF NothingForgotten, OnItsWay
    <2>4. lock' \notin Tasks /\ \A k \in Keys : ~Known(k)' BY LockAssumption DEF Known
    <2> QED BY <2>3, <2>4
  <1> QED
    BY <1>1, <1>2, <1>3, <1>4, <1>5, <1>6, <1>7, <1>8, <1>9, <1>10, <1>11, <1>12, <1>13,
       <1>14 DEF Next

-----------------------------------------------------------------------------

IInv == Shape /\ Ordered /\ Covered /\ Remembered

\* The whole invariant is inductive.
LEMMA Inductive == Spec => []IInv
  <1>1. Init => IInv BY InitInv DEF IInv
  <1>2. IInv /\ [Next]_vars => IInv'
    BY StepShape, StepOrdered, StepCovered, StepRemembered DEF IInv
  <1> QED BY <1>1, <1>2, PTL DEF Spec

\* Types, an update is never forgotten between memory and the store, and the
\* flush of shutdown is alone with the store (persistence_flush.rs).
THEOREM WriterSafety == Spec => [](TypeOK /\ NothingForgotten /\ FlushIsAlone)
  <1>1. IInv => TypeOK /\ NothingForgotten /\ FlushIsAlone
    BY DEF IInv, Shape, Remembered, FlushIsAlone, Fenced, Locking
  <1> QED BY <1>1, Inductive, PTL

\* A flush that succeeds has stored everything shutdown found in memory.
THEOREM FlushCompletes == Spec => []FlushIsComplete
  <1>1. IInv => FlushIsComplete
    BY DEF IInv, Covered, FlushIsComplete, Shape, TypeOK
  <1> QED BY <1>1, Inductive, PTL

\* No step, the flush's and a restart's included, takes the store back to an
\* older version of a projection.
THEOREM StoreNeverGoesBack == Spec => StoreMonotone
  <1>1. IInv /\ IInv' /\ [Next]_vars => [\A k \in Keys : store'[k] >= store[k]]_vars
    BY StepOrdered DEF IInv
  <1> QED BY <1>1, Inductive, PTL DEF Spec, StoreMonotone
=============================================================================
