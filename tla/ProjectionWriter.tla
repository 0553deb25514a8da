-------------------------- MODULE ProjectionWriter --------------------------
(***************************************************************************)
(* The durable projections of the application runtime: the in-memory       *)
(* domains of FeatureState, the `persistence_enqueue` mutex, the unbounded *)
(* channel to the writer task, the encrypted store, and the final flush of *)
(* shutdown (application_runtime/foundation_state.rs, persistence_flush.rs *)
(* and documents_snapshot.rs).                                             *)
(*                                                                         *)
(* A domain is a number, in the order the flush writes them: 1 is          *)
(* "operations", then models, documents and conversations.  Its contents   *)
(* are a version, the number of changes made to it: every save writes a    *)
(* whole domain, so all that matters is which version a save carries.      *)
(*                                                                         *)
(* Spawned tasks run on the tokio pool and hold one of its Workers threads *)
(* from the change to the end of persist_*, which is synchronous code;     *)
(* Callers are threads that enter through JNI.  The writer is a task of    *)
(* the same pool, and the flush runs in block_on, on a thread of its own.  *)
(***************************************************************************)
EXTENDS Naturals, Sequences, FiniteSets

CONSTANTS N,            \* number of domains
          Spawned,      \* tasks of the tokio pool that change a domain
          Callers,      \* JNI threads that change a domain
          Workers,      \* worker_threads of the pool
          Free,         \* the lock is not held
          Flusher,      \* the lock is held by flush_projections
          MaxUpdates,   \* bound: changes to one domain
          MaxRestarts   \* bound: process deaths

ASSUME NAssumption == N \in Nat \ {0}

Tasks == Spawned \cup Callers

ASSUME LockAssumption == Free \notin Tasks /\ Flusher \notin Tasks /\ Free # Flusher

VARIABLES
  mem,          \* version of each domain in memory
  updating,     \* the domain each task has changed and not yet enqueued
  lock,         \* persistence_enqueue
  snapshot,     \* the version the lock's holder has read
  queue,        \* the channel to the writer task
  saving,       \* the command the writer task is saving
  store,        \* version of each domain in the encrypted store
  acked,        \* the flush's barrier has been acknowledged
  flush,        \* where flush_projections is
  at,           \* the domain the flush reads or saves next
  final,        \* the versions the flush has read
  atShutdown,   \* history: mem when shutdown was called
  failed,       \* history: the last version of each domain whose save failed
  restarts      \* history: process deaths so far

vars == <<mem, updating, lock, snapshot, queue, saving, store, acked, flush, at,
          final, atShutdown, failed, restarts>>

taskVars == <<mem, updating, snapshot>>
writerVars == <<queue, saving, store, acked, failed>>
flushVars == <<flush, at, final, atShutdown>>

Keys == 1..N
NoKey == 0
Commands == [key : Keys, value : Nat]
Barrier == [key |-> NoKey, value |-> 0]
None == [key |-> NoKey, value |-> 1]
FlushStates == {"off", "lock", "barrier", "read", "save", "done", "failed"}

Init ==
  /\ mem = [k \in Keys |-> 0]
  /\ updating = [t \in Tasks |-> NoKey]
  /\ lock = Free
  /\ snapshot = 0
  /\ queue = <<>>
  /\ saving = None
  /\ store = [k \in Keys |-> 0]
  /\ acked = FALSE
  /\ flush = "off"
  /\ at = 1
  /\ final = [k \in Keys |-> 0]
  /\ atShutdown = [k \in Keys |-> 0]
  /\ failed = [k \in Keys |-> 0]
  /\ restarts = 0

(* A worker thread of the pool is free to poll another task. *)
FreeWorker == Cardinality({t \in Spawned : updating[t] # NoKey}) < Workers

-----------------------------------------------------------------------------
(* Tasks: the update_*, insert_*, remove_*, append_* methods and persist_* *)

(* The domain is changed under its own lock, which is then dropped. *)
Update(t, k) ==
  /\ updating[t] = NoKey
  /\ t \in Spawned => FreeWorker
  /\ mem[k] < MaxUpdates
  /\ mem' = [mem EXCEPT ![k] = @ + 1]
  /\ updating' = [updating EXCEPT ![t] = k]
  /\ UNCHANGED <<lock, snapshot, writerVars, flushVars, restarts>>

(* persist_*: take persistence_enqueue, then read the domain. *)
TakeSnapshot(t) ==
  /\ updating[t] # NoKey
  /\ lock = Free
  /\ lock' = t
  /\ snapshot' = mem[updating[t]]
  /\ UNCHANGED <<mem, updating, writerVars, flushVars, restarts>>

(* The same as below, with a channel of one place, and the error ignored. *)
Send_TrySend(t) ==
  /\ lock = t
  /\ queue' = IF queue = <<>> THEN <<[key |-> updating[t], value |-> snapshot]>> ELSE queue
  /\ updating' = [updating EXCEPT ![t] = NoKey]
  /\ lock' = Free
  /\ UNCHANGED <<mem, snapshot, saving, store, acked, failed, flushVars, restarts>>

(* persist_value: send the snapshot; the guard is dropped on return. *)
Send(t) ==
  /\ lock = t
  /\ queue' = Append(queue, [key |-> updating[t], value |-> snapshot])
  /\ updating' = [updating EXCEPT ![t] = NoKey]
  /\ lock' = Free
  /\ UNCHANGED <<mem, snapshot, saving, store, acked, failed, flushVars, restarts>>

-----------------------------------------------------------------------------
(* The writer task *)

WriterTake ==
  /\ FreeWorker
  /\ saving = None
  /\ queue # <<>>
  /\ queue' = Tail(queue)
  /\ IF Head(queue) = Barrier
       THEN acked' = TRUE /\ saving' = saving
       ELSE acked' = acked /\ saving' = Head(queue)
  /\ UNCHANGED <<taskVars, lock, store, failed, flushVars, restarts>>

WriterSaved ==
  /\ FreeWorker
  /\ saving # None
  /\ store' = [store EXCEPT ![saving.key] = saving.value]
  /\ saving' = None
  /\ UNCHANGED <<taskVars, lock, queue, acked, failed, flushVars, restarts>>

(* The same as below, over a store that deletes the row before it inserts the new one. *)
WriterSaveFails_RowLost ==
  /\ FreeWorker
  /\ saving # None
  /\ store' = [store EXCEPT ![saving.key] = 0]
  /\ failed' = [failed EXCEPT ![saving.key] = saving.value]
  /\ saving' = None
  /\ UNCHANGED <<taskVars, lock, queue, acked, flushVars, restarts>>

(* The same as below, trying the save again before anything else. *)
WriterSaveFails_Retries ==
  /\ FreeWorker
  /\ saving # None
  /\ failed' = [failed EXCEPT ![saving.key] = saving.value]
  /\ queue' = <<saving>> \o queue
  /\ saving' = None
  /\ UNCHANGED <<taskVars, lock, store, acked, flushVars, restarts>>

(* A failed save is logged, and not retried. *)
WriterSaveFails ==
  /\ FreeWorker
  /\ saving # None
  /\ failed' = [failed EXCEPT ![saving.key] = saving.value]
  /\ saving' = None
  /\ UNCHANGED <<taskVars, lock, queue, store, acked, flushVars, restarts>>

-----------------------------------------------------------------------------
(* shutdown and flush_projections *)

BeginShutdown ==
  /\ flush = "off"
  /\ flush' = "lock"
  /\ atShutdown' = mem
  /\ UNCHANGED <<taskVars, lock, writerVars, at, final, restarts>>

(* Take the lock and send the barrier; the guard outlives the await. *)
FlushLock ==
  /\ flush = "lock"
  /\ lock = Free
  /\ lock' = Flusher
  /\ queue' = Append(queue, Barrier)
  /\ flush' = "barrier"
  /\ UNCHANGED <<taskVars, saving, store, acked, failed, at, final, atShutdown, restarts>>

FlushAcked ==
  /\ flush = "barrier"
  /\ acked
  /\ flush' = "read"
  /\ at' = 1
  /\ UNCHANGED <<taskVars, lock, writerVars, final, atShutdown, restarts>>

(* The same as below, one domain too far. *)
FlushRead_OffByOne ==
  /\ flush = "read"
  /\ final' = [final EXCEPT ![at] = mem[at]]
  /\ IF at > N THEN flush' = "save" /\ at' = 1
               ELSE flush' = flush /\ at' = at + 1
  /\ UNCHANGED <<taskVars, lock, writerVars, atShutdown, restarts>>

FlushRead ==
  /\ flush = "read"
  /\ final' = [final EXCEPT ![at] = mem[at]]
  /\ IF at = N THEN flush' = "save" /\ at' = 1
               ELSE flush' = flush /\ at' = at + 1
  /\ UNCHANGED <<taskVars, lock, writerVars, atShutdown, restarts>>

FlushSave ==
  /\ flush = "save"
  /\ store' = [store EXCEPT ![at] = final[at]]
  /\ IF at = N THEN flush' = "done" /\ at' = 1 /\ lock' = Free
               ELSE flush' = flush /\ at' = at + 1 /\ lock' = lock
  /\ UNCHANGED <<taskVars, queue, saving, acked, failed, final, atShutdown, restarts>>

(* The same as below, going on to the next domain. *)
FlushSaveFails_Continues ==
  /\ flush = "save"
  /\ IF at = N THEN flush' = "done" /\ at' = 1 /\ lock' = Free
               ELSE flush' = flush /\ at' = at + 1 /\ lock' = lock
  /\ UNCHANGED <<taskVars, writerVars, final, atShutdown, restarts>>

(* The first failing save ends the flush. *)
FlushSaveFails ==
  /\ flush = "save"
  /\ flush' = "failed"
  /\ lock' = Free
  /\ UNCHANGED <<taskVars, writerVars, at, final, atShutdown, restarts>>

-----------------------------------------------------------------------------
(* Process death, and the next process up to the end of hydrate_from_store, *)
(* which runs in block_on before any command: every domain is loaded, the   *)
(* interrupted operations become Failed, and the operations are enqueued.   *)
Restart ==
  /\ restarts < MaxRestarts
  /\ restarts' = restarts + 1
  /\ mem' = [store EXCEPT ![1] = @ + 1]
  /\ queue' = <<[key |-> 1, value |-> store[1] + 1]>>
  /\ updating' = [t \in Tasks |-> NoKey]
  /\ lock' = Free
  /\ snapshot' = 0
  /\ saving' = None
  /\ acked' = FALSE
  /\ flush' = "off"
  /\ at' = 1
  /\ final' = [k \in Keys |-> 0]
  /\ atShutdown' = [k \in Keys |-> 0]
  /\ failed' = [k \in Keys |-> 0]
  /\ UNCHANGED store

TaskStep(t) == TakeSnapshot(t) \/ Send(t)
WriterStep == WriterTake \/ WriterSaved \/ WriterSaveFails
FlushStep == FlushLock \/ FlushAcked \/ FlushRead \/ FlushSave \/ FlushSaveFails

Next ==
  \/ \E t \in Tasks, k \in Keys : Update(t, k)
  \/ \E t \in Tasks : TakeSnapshot(t) \/ Send(t)
  \/ WriterTake \/ WriterSaved \/ WriterSaveFails
  \/ BeginShutdown
  \/ FlushLock \/ FlushAcked \/ FlushRead \/ FlushSave \/ FlushSaveFails
  \/ Restart

Spec == Init /\ [][Next]_vars

(* A thread that runs keeps running, a runnable task of the pool is polled *)
(* while a worker is free, and block_on polls the flush.                   *)
FairSpec ==
  /\ Spec
  /\ \A t \in Tasks : WF_vars(TaskStep(t))
  /\ WF_vars(WriterStep)
  /\ WF_vars(FlushStep)

-----------------------------------------------------------------------------
(* Every variable has its type; the channel carries whole domains and the   *)
(* flush's barrier.                                                         *)
TypeOK ==
  /\ mem \in [Keys -> Nat]
  /\ updating \in [Tasks -> Keys \cup {NoKey}]
  /\ lock \in Tasks \cup {Free, Flusher}
  /\ snapshot \in Nat
  /\ queue \in Seq(Commands \cup {Barrier})
  /\ saving \in Commands \cup {None}
  /\ store \in [Keys -> Nat]
  /\ acked \in BOOLEAN
  /\ flush \in FlushStates
  /\ at \in Keys
  /\ final \in [Keys -> Nat]
  /\ atShutdown \in [Keys -> Nat]
  /\ failed \in [Keys -> Nat]
  /\ restarts \in Nat

(* The stored projection of a domain never goes back to an older version,  *)
(* across concurrent updates, the final flush and process deaths: reading  *)
(* and sending are one critical section of persistence_enqueue, and the    *)
(* flush keeps that section to itself until its own saves are done.        *)
StoreMonotone == [][\A k \in Keys : store'[k] >= store[k]]_vars

(* The current version of domain k is stored, with the writer, queued, or  *)
(* the one whose save failed.                                              *)
OnItsWay(k) ==
  \/ store[k] = mem[k]
  \/ saving = [key |-> k, value |-> mem[k]]
  \/ \E i \in DOMAIN queue : queue[i] = [key |-> k, value |-> mem[k]]
  \/ failed[k] = mem[k]

(* An update is never forgotten: once no task is between changing a domain *)
(* and enqueueing it, its current version is in the store, or on its way   *)
(* there, or is the very one whose save failed (foundation_state.rs:103).  *)
NothingForgotten ==
  \A k \in Keys : (\E t \in Tasks : updating[t] = k) \/ OnItsWay(k)

(* While the flush reads and saves, the writer task is idle and has        *)
(* nothing left to do, so the store has one writer ("wait until every      *)
(* previously queued write has completed", persistence_flush.rs:3).        *)
FlushIsAlone ==
  flush \in {"read", "save"} => queue = <<>> /\ saving = None /\ lock = Flusher

(* A flush that succeeds has made durable every change made before         *)
(* shutdown was called, whatever saves had failed before it.               *)
FlushIsComplete ==
  flush = "done" => \A k \in Keys : store[k] >= atShutdown[k]

(* Shutdown ends: the flush succeeds or fails (or the process dies).       *)
ShutdownEnds ==
  flush = "lock" ~> flush \in {"done", "failed", "off"}

(* When updates stop, the store settles on what memory holds, but for the  *)
(* versions whose save failed: tasks that fill the pool while a caller has *)
(* the lock delay the writer, and no save that fails stops it.  Only a     *)
(* shutdown that waits for its barrier can do that (ShutdownEnds).         *)
StoreSettles ==
  <>[](flush = "barrier" \/ \A k \in Keys : store[k] = mem[k] \/ failed[k] = mem[k])
=============================================================================
