# Mukei: TLA+ models, checks and proofs

This directory is the verification development that accompanies the Mukei runtime: TLA+ modules that
model its concurrent and stateful parts, configurations with which TLC checks them on small instances,
and theorems about them, for every value of their constants, whose proofs TLAPS checks. `PROJECT.json`
lists every component, run, mutant, finding, hazard and theorem, and maps each definition to the lines of
source that it models. Paths below are relative to `src/rust/crates/mukei-core/src/` unless they say
otherwise; `app/` stands for `application_runtime/`.

## 1. The system

Mukei is a private assistant that runs a language model on an Android phone. A Rust core does the work
and a Kotlin host shows it.

```
   Kotlin host (BackendRuntimeHost)                 Rust core (MukeiRuntime)
   ------------------------------------             -------------------------------------------
   command  --- JNI submit ------------>  validate, replay lookup, route, create operation
            <-- acknowledgement --------  and spawn a tokio task (two worker threads)
   event worker <--- drain_events ------  EventBus: bounded channel, one sequence per stream
   platform worker <- drain requests ---  PlatformRequestBroker: what only Android can do
                  --- submit response ->
   reads snapshots <--------------------  FeatureState: operations, models, documents, chats
                                             | persisted by one writer task
                                          encrypted SQLite store
```

A command is checked on the thread that submits it, answered with an acknowledgement, and executed by a
task. The task calls services (model activation, downloads, the agent loop, retrieval), changes the
projections in `FeatureState`, and reports through the event bus. Whatever needs Android (documents,
storage access) goes out as a platform request. Shutdown, cancellation and the end of a Temporary Chat may
come between any two steps of all this, and the process may be killed at any moment. There is no one lock:
each part has its own, and most defects that are possible here are in what happens between two of them.

### Inventory

| Part | Source | State | Module |
|---|---|---|---|
| Platform request broker | `platform.rs` | modelled, proved | `PlatformBroker` |
| Android platform processor | `AndroidPlatformRequestProcessor.kt`, `BackendRuntimeHost.kt` | worker loop modelled | `PlatformRoundTrip` |
| Model activation service | `engine/activation.rs` | modelled, proved, refines `BackendSlot` | `ModelActivation` |
| Model commands | `app/models_select.rs`, `models_delete.rs` | modelled | `ModelCommands` |
| Model downloads | `app/models_download.rs`, `models_cancel.rs`, `storage/model_download.rs`, `storage/quota.rs`, `network.rs` | modelled, proved; not the job ledger | `ModelDownload` |
| Event bus | `app/foundation_types.rs` | modelled, proved | `EventBus` |
| Event delivery | `EventSequenceTracker.kt`, `BackendRuntimeHost.kt` | worker and tracker modelled | `EventDelivery` |
| Projection persistence | `app/foundation_state.rs`, `persistence_flush.rs` | modelled, proved | `ProjectionWriter` |
| Chat commands, generation tasks | `app/chat.rs`, `documents_retry_settings.rs` | modelled; not the agent loop | `ChatSessions` |
| Temporary Chat | `app/ephemeral_chat.rs`, `temporary_chat_runtime.rs` | modelled | `ChatSessions` |
| Runtime lifecycle | `app/base.rs`, `documents_snapshot.rs`, `services.rs` | shutdown modelled in each part | several |
| Command router, replay, envelope | `app/base.rs`, `documents_replay.rs`, `ui_protocol.rs`, `ui_contract.rs` | planned | |
| Documents and SAF grants | `app/documents_grant.rs`, `documents_revoke.rs`, `storage/saf.rs` | planned | |
| Retrieval | `rag/` | planned: index transaction, budgets | |
| Agent loop and tool policy | `agent/` | planned | |
| Conversation and recovery stores | `storage/conversation.rs`, `storage/recovery.rs` | planned | |
| SaaS ledger and transport | `saas/`, `storage/saas.rs`, `network/saas.rs` | planned | |
| Database pool, migrations | `storage/pool.rs`, `storage/migrations.rs` | planned: order, atomicity | |
| JNI registry, leases, stream boundary | `mukei-android-jni`, `guard.rs`, `boundary.rs` | planned | |
| Search, tools | `search/`, `tools/` | planned in part: caches, permissions, slots | |
| Android host lifecycle | `BackendRuntimeHost.kt` | planned beyond the two workers | |
| Native inference, embeddings, ranking | `engine/llama_wrapper.rs`, ... | not modelled: numeric and text code | |
| Diagnostics, configuration, user interface, llama.cpp | | not modelled: no state other parts rely on | |

## 2. The modules

In every module a step ends where the code releases a lock that another modelled actor can take, awaits, or
returns to another thread, so that whatever another actor can do between two statements of the program it can
do between two steps of the model. Where a lock is released and only read again by the same command before
anything else can change what it protects, the two are one step, and the definition says so. A
definition whose name has the form `Definition_Something` is a *mutant*: the definition with a plausible
bug. Each property of a passing run has a mutant that makes TLC find it violated; no specification uses
them. Variables marked *ghost* in their declarations only record history for the properties.

### PlatformBroker and PlatformRoundTrip

`PlatformBroker` is `PlatformRequestBroker`: `pending`, `inFlight` and `responses` are the three containers
of `BrokerState`, guarded by one mutex, so `Enqueue`, the drain, `Accept`, `take_response` and `abandon` are
atomic. Two places are not, and are two steps each: `submit_response` stores under the mutex and notifies
after it, and `wait_for_response` looks for a response before it creates the `Notify` future. In this module
Android answers in any order, twice or never. `PlatformRoundTrip` replaces that environment by the Kotlin
worker, which drains a batch, answers its requests one after the other, and dies of a refused receipt.

### BackendSlot, ModelActivation and ModelCommands

`ModelActivation` has one action per critical section of the `RwLock` of `ActivationInner`; hashing and
loading happen between them. `BackendSlot` is what the service promises: the slot changes only with a later
generation, and never after the one deactivation by an older load. `SlotSpec` is that specification under
the mapping `served <- active`, `epoch <- slotGen`, `open <- (closing = "open")`. `ModelCommands` adds the
commands `select_model` and `delete_model` as the runtime executes them, with operation records, tokens,
the models' projections, cancellation and shutdown. Records and tokens are two tables under two locks:
`create_operation`, `update_operation` and `cancel_operation` are two or three steps each. Commands are
submitted one after the other (`CommandThreadFree`), because the Android host submits from one executor
thread; tasks and shutdown run beside it.

### ModelDownload

The task of `download_model` polls the download future and receives its events in one `select!`; the future
resumes `.partial` after hashing its prefix, asks for a range, retries, checks the quota, writes chunk by
chunk, compares the digest and renames. Files are inodes (`files`, `partial`, `dest`), so that a task goes on
writing to a file another task has renamed or truncated. A chunk is good or bad, and a position that was
skipped is a hole. The server fails, ignores ranges, declares other sizes and sends bad bytes until
`Settle`; `Restart` is the death of the process.

### EventBus and EventDelivery

`EventBus` separates the `try_send` of an emit from the `fetch_add` that counts it, since the drain holds only
the receiver; the purge at the end of a Temporary Chat takes `queue_lock`, waits for the receiver, takes
every event out and puts the public ones back. `EventDelivery` is the host: it validates a whole batch with
`EventSequenceTracker`, applies it, or stops for good.

### ProjectionWriter

A domain (operations, models, documents, conversations) is a version number, because every save writes a
whole domain. Tasks hold one of `Workers` pool threads from the change to the end of `persist_*`; the writer
is a task of the same pool; the flush of shutdown holds the std mutex `persistence_enqueue` while it awaits
its barrier. Saves fail, and `Restart` hydrates from the store.

### ChatSessions

Commands (send, resume, regenerate, clear, stop), the generation tasks, `begin_temporary_chat` and its end, and
shutdown, over the two stores of conversations: the durable `FeatureState` and the private
`EphemeralChatState`. Every helper of `temporary_chat_runtime.rs` reads the session's state and then acts on one
of the stores: `ReadSession` is the reading, and the step after it acts on what was read (`seen`), through
`History` and `Change`. `was_retired`, the choice of the agent loop and the acceptance read the session again,
in steps of their own. The record of an operation and its token are two steps here, too. Commands may come
from any number of threads. The text of messages is abstracted to who wrote them for which command, and a
generation to its outcome. The acknowledgements that `end_temporary_chat` forgets, and the purge of the bus
that it starts after `end()` (which is in `EventBus`), are not state of this module.

## 3. The runs

| Run | Instance | What it shows |
|---|---|---|
| `platform` | 2 requests and one that nobody waits for, 2 slots, batches of 2 | one holder per request, capacity, nothing left behind, the worker dies only of an abandoned request; every wait ends; a living worker answers what is queued |
| `platform_timeout` (violation) | 1 request | see 5 |
| `model_commands` | 2 models, 2 selections, 1 deletion, cancels; 3 commands in all | the published state and the slot agree; only hashed artifacts serve or are shown Ready; ended tasks are recorded; the service refines `BackendSlot` |
| `model_ready_truth` (violation) | the same | see 5 |
| `event_delivery` | 3 sources, channel of 2, 4 emits | order, purge, backlog count; the host stops only after a loss, projects no hole; the channel drains |
| `projection_writer` | 2 domains, 2 tasks and 1 caller, 2 workers, 2 updates, 1 restart | nothing forgotten, the store never goes back, the flush is complete; the store settles unless shutdown hangs |
| `projection_shutdown` (violation) | 2 tasks, 2 workers | see 5 |
| `chat_sessions` | 2 commands of any kind, 1 stop, 1 durable and 1 temporary conversation | privacy until shutdown clears the sessions, `end()` reaches every operation, rejected commands leave no message, records end terminal |
| `chat_durable` (violation) | the same | see 5 |
| `model_downloads` | 1 download of 2 chunks, quota 4, 1 retry, channel of 2 | only the whole model is published, quota, completion, every attempt ends, retries install the model |
| `download_shown` (violation) | the same | see 5 |
| `download_twice` (violation) | 2 downloads | see 5 |

**Bounds.** Two of each actor are enough for every race named in the hazards, which are between two parties;
a third request for two slots makes the broker refuse one, and, when it is admitted, keeps its slot because
nobody waits for it (`Latecomer` in `MCPlatformRoundTrip`). Two chunks give a download a prefix to resume from
and a rest to fetch, a `.partial` can be shorter than, as long as, and longer than the file, and a quota of 4
admits a second copy but not a longer declared one. A channel of two with four emits overflows, is purged in
the middle and is drained partly. `MaxEmits`, `MaxUpdates`, `MaxRestarts`, `MaxCommands` (model commands and
cancels together), `MaxStops` and `Longest` (the largest size a server declares) only bound the length of a
behaviour or of a file. Symmetry is used only in runs without
liveness properties. Deadlock is checked in `model_downloads`, which can always go on; elsewhere a behaviour
really ends: all operations have run, or the runtime has shut down.

**Fairness.** All of it is weak.
`platform`: a task that can go on is polled, the timer of a wait fires, and the worker's loop runs while
it is alive; nothing is assumed of a dead worker. `event_delivery`: the host's executor thread runs its loop,
and a thread inside `emit` or the purge with its locks goes on; no producer is ever obliged to emit.
`projection_writer`: threads run, and a runnable task is polled *while a worker is free*, which is the part of
tokio's guarantee that `projection_shutdown` turns on. `model_downloads`: the pool polls the task (reqwest's
timeouts end every request and read); for `RetriesInstall` the user gives the command again as long as the
model is not there, and the server behaves after `Settle`.

## 4. The proofs

Theorems are in `*Proofs` modules that extend the module they are about. They hold for every value of the
constants under the module's named assumptions, which only say that capacities and sizes are positive and
that identifiers are distinct; the three theorems about downloads assume besides that one download of the
model is under way at a time (`Tasks = {d}`).

**PlatformBrokerProofs** (`BrokerOwnership`, `BrokerCapacity`). `TypeOK /\ SingleHolder /\ NoResidue` is
inductive: that no request is in two containers needs that the queue has no duplicates, and that a request
its task has not enqueued, or has given up, is nowhere. The capacity needs in addition that the drain moves
and does not add: cardinalities of a duplicate-free queue and its prefix, from two lemmas on sequences.

**ModelActivationProofs** (`ActivationSafety`, `ActivationRefinesSlot`). `IInv` adds to the three invariants
that generations issued to different tasks are distinct and none lies ahead of the counter
(`TicketsDistinct`), and that a verified descriptor is the selected one and was hashed (`CandidateSide`).
Without the first, a stale load could hold the current generation. The refinement follows from the same
invariant: a commit carries a generation later than the slot's.

**EventBusProofs** (`BusSafety`, `BusOrder`). `Holding` says who holds which lock in each phase and how far the
counter may lag (by one, while an emit is between send and count); `Tombs`, that the tombstones are written
all at once. The order of the pipeline batch, retained, queue is proved pairwise (`Sorted`, `Before`), with
every number at most the stream's counter (`Reached`), and lemmas for appending and for moving a head.

**ProjectionWriterProofs** (`WriterSafety`, `FlushCompletes`, `StoreNeverGoesBack`). `Shape` is types, the lock
discipline and the fence (while the flush saves, queue and writer are empty); `Ordered`, that versions grow
from the store through the writer and the queue to memory; `Covered`, that what the flush has passed is as
new as memory was at shutdown; `Remembered`, that each version is with someone. `StoreNeverGoesBack` is an
action property.

**ModelDownloadProofs** (`DownloadVerified`, `DownloadWithinQuota`, `DownloadCompletes`), for one download at a
time (the run `download_twice` shows that this is needed) and any size, quota, retries and channel.
`Knows` ties what the future remembers to the disk: the prefix it hashed is the prefix of the file it writes
to, its length is `done`, and the quota still covers what is to come.

**Only proved.** `CurrentLoadIsCandidate` (in `ActivationSafety`) and `FlushIsAlone` (in `WriterSafety`) are
listed in no run.

**Only model-checked.** All liveness (`EveryWaitEnds`, `QueuedIsServed`, `QueueDrains`, `ShutdownEnds`,
`StoreSettles`, `DownloadEnds`, `RetriesInstall`), which is out of the prover's reach; the properties of the
compositions `PlatformRoundTrip`, `EventDelivery` and `ModelCommands`; and all of `ChatSessions`.

## 5. Findings

Each is a run in which TLC finds a promise of the repository broken by what the code does; `PROJECT.json`
quotes both.

- `platform_timeout`: a response stored and notified between `take_response` and `notified()` wakes nobody, so
  a wait ends with `Timeout` although Android answered in time (`platform.rs:280`).
- `model_ready_truth`: of two overlapping selections, the first loads the descriptor the second has verified
  and shows its own model Ready (`engine/activation.rs:489`).
- `projection_shutdown`: the flush awaits its barrier with the std mutex held; two tasks that persist block
  both workers on it, the writer is never polled and shutdown hangs (`app/persistence_flush.rs:5`).
- `chat_durable`: shutdown forgets the Temporary Chats, the ended ones too, while a command that has passed its
  checks is still on its way; the command finds no session and appends the message to the durable
  conversations, which shutdown then flushes (`app/ephemeral_chat.rs:308`).
- `download_shown`: the download's result and its `Complete` event are ready in the same poll; the loop takes
  the result and the model stays Downloading (`app/models_download.rs:69`).
- `download_twice`: two downloads of one model share `.partial`; the digest is of the bytes streamed, and a file
  with a hole is renamed to the destination (`storage/model_download.rs:443`).

## 6. Plan

In order, with the properties each part is to have:

1. **Router and replay** (`app/base.rs`, `documents_replay.rs`, the operation lifecycle of `ui_protocol.rs`,
   JNI registry and leases): one execution per idempotency key, no handle reaches another runtime, terminal
   states are final. Abstract specification: at-most-once commands. Proof: handles and generations.
2. **SaaS ledger and transport** (`saas/`, `storage/saas.rs`, `network/saas.rs`): snapshots by revision never go
   back, reservations never exceed an entitlement, retries are idempotent, the circuit breaker recovers.
   Abstract specification: an exact usage counter. Proof: reservations within the entitlement.
3. **Conversations and recovery** (`storage/conversation.rs`, `recovery.rs`, `migrations.rs`): one interrupted
   turn per crash, one active attempt, migrations atomic and in order. Proof: message states only advance.
4. **Agent loop** (`agent/`): iteration and token budgets, tool approval, abuse blocks, cancellation between any
   two steps; composed with `ChatSessions`, whose generation it implements.
5. **Documents and retrieval** (`app/documents_*`, `storage/saf.rs`, `rag/`): grant, stage, ingest and revoke over
   `PlatformBroker`; nothing of a revoked document is retrievable; index transaction and vector snapshot agree.
6. **Host lifecycle and search caches**; the tag scanner of `boundary.rs` as an operator checked against a
   reference definition on small inputs.

Components that do not interact are to share a run through an `MC` module whose initial states choose the
component that moves, so that the number of runs stays small. Three more proof modules are planned: router
and registry, SaaS ledger, conversations.

## 7. Not modelled

Inference, embeddings, ranking and text heuristics are numeric or textual and have no interleavings of their
own. JSON coding, logging, metrics, redaction and Compose layout change no state that another part reads.
A power failure that loses what was written but not synced is outside `ModelDownload`'s crashes, which are
deaths of the process. Reuse of an operation id by the host, and `initialize` racing with shutdown, wait for
the router (plan, 1). Wrap-around of 64-bit generation and sequence counters is out of any session's reach.
