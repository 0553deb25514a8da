--------------------------- MODULE ModelCommands ---------------------------
(***************************************************************************)
(* The commands that select and delete models                              *)
(* (application_runtime/models_select.rs, models_delete.rs) over the       *)
(* activation service, with their operation records, the ModelProjection   *)
(* that the UI reads, cancellation and shutdown.                           *)
(*                                                                         *)
(* A command is checked on the submitting thread and executed by a spawned *)
(* task.  Every lock section is a step of its own: the checks, the record  *)
(* and the token of a new operation, the task's calls on the activation    *)
(* service, the update of the model projection, the terminal record and    *)
(* the removal of the token that follows it; and so are the three parts of *)
(* a cancellation.  The Android host submits from one thread, so that one  *)
(* command is being submitted at a time, beside the tasks and shutdown.    *)
(***************************************************************************)
EXTENDS ModelActivation, FiniteSets

CONSTANTS
    Deletes,     \* delete_model operations, each running once
    MaxCommands  \* bound on the commands submitted, the cancel commands included

Commands == Ops \cup Deletes

ASSUME CommandAssumption == Ops \cap Deletes = {} /\ MaxCommands \in Nat

VARIABLES
    installed,   \* models whose file is in models_dir
    status,      \* FeatureState.models: the status, or "absent"
    stage,       \* where each command is
    target,      \* the model each command names
    outcome,     \* the status with which each task is about to finish
    record,      \* OperationRecord.status, or "none"
    tokens,      \* FeatureState.operation_tokens
    cancelled,   \* cancelled tokens
    canceller,   \* the cancel commands so far, and where the last one is
    shut,        \* how far shutdown has got before it deactivates
    servedEver   \* ghost: the models that have served turns

operationVars == <<record, tokens, cancelled, canceller>>
commandVars == <<installed, status, stage, target, outcome, operationVars, shut,
                 servedEver>>
cvars == <<vars, commandVars>>

ModelStatus == {"absent", "Installed", "Verifying", "Activating", "Ready", "Failed"}
Stage == {"idle", "ready", "checked", "recorded", "accepted", "inserted",
          "running", "shown", "removed", "notRemoved", "finishing", "closing",
          "done"}
Record   == {"none", "Accepted", "Completed", "Failed", "Cancelled"}
Terminal == {"Completed", "Failed", "Cancelled"}

\* The models start out downloaded.
CInit ==
    /\ Init
    /\ installed = Models
    /\ status = [m \in Models |-> "Installed"]
    /\ stage = [c \in Commands |-> "idle"]
    /\ target = [c \in Commands |-> None]
    /\ outcome = [c \in Commands |-> "none"]
    /\ record = [c \in Commands |-> "none"]
    /\ tokens = {} /\ cancelled = {}
    /\ canceller = [count |-> 0, at |-> "idle", op |-> None]
    /\ shut = "no"
    /\ servedEver = {}

\* update_model changes a projection that exists, and nothing otherwise.
UpdatedModel(m, s) ==
    IF status[m] = "absent" THEN status ELSE [status EXCEPT ![m] = s]

(***************************************************************************)
(* Operations                                                              *)
(***************************************************************************)

\* Mutant: the token is registered before the record exists.
RecordOperation_TokenFirst(c) ==
    /\ stage[c] = "checked"
    /\ stage' = [stage EXCEPT ![c] = "recorded"]
    /\ tokens' = tokens \cup {c}
    /\ UNCHANGED <<vars, installed, status, target, outcome, record, cancelled,
                   canceller, shut, servedEver>>

\* create_operation, first lock: the record.
RecordOperation(c) ==
    /\ stage[c] = "checked"
    /\ stage' = [stage EXCEPT ![c] = "recorded"]
    /\ record' = [record EXCEPT ![c] = "Accepted"]
    /\ UNCHANGED <<vars, installed, status, target, outcome, tokens, cancelled,
                   canceller, shut, servedEver>>

\* create_operation, second lock: the token.  The task is spawned after it.
RegisterToken(c) ==
    /\ stage[c] = "recorded"
    /\ stage' = [stage EXCEPT ![c] = "accepted"]
    /\ tokens' = tokens \cup {c}
    /\ UNCHANGED <<vars, installed, status, target, outcome, record, cancelled,
                   canceller, shut, servedEver>>

\* The task is about to call update_operation with the terminal status s.
Finishing(c, s) ==
    /\ outcome' = [outcome EXCEPT ![c] = s]
    /\ stage' = [stage EXCEPT ![c] = "finishing"]

\* update_operation, first lock: the record is overwritten whatever it was.
WriteOutcome(c) ==
    /\ stage[c] = "finishing"
    /\ stage' = [stage EXCEPT ![c] = "closing"]
    /\ record' = [record EXCEPT ![c] = outcome[c]]
    /\ UNCHANGED <<vars, installed, status, target, outcome, tokens, cancelled,
                   canceller, shut, servedEver>>

\* update_operation, second lock: a terminal status drops the token.
DropToken(c) ==
    /\ stage[c] = "closing"
    /\ stage' = [stage EXCEPT ![c] = "done"]
    /\ outcome' = [outcome EXCEPT ![c] = "none"]
    /\ tokens' = tokens \ {c}
    /\ UNCHANGED <<vars, installed, status, target, record, cancelled, canceller,
                   shut, servedEver>>

\* commandExecutor is single-threaded: the submission before has returned.
CommandThreadFree ==
    /\ \A c \in Commands : stage[c] \notin {"ready", "checked", "recorded"}
    /\ canceller.at = "idle"

\* The submissions that have begun, bounded by MaxCommands.
Submitted == Cardinality({c \in Commands : stage[c] # "idle"}) + canceller.count

\* ensure_ready, on the submitting thread.
EnsureReady(c, m) ==
    /\ stage[c] = "idle" /\ CommandThreadFree /\ Submitted < MaxCommands
    /\ shut = "no"
    /\ stage' = [stage EXCEPT ![c] = "ready"]
    /\ target' = [target EXCEPT ![c] = m]
    /\ UNCHANGED <<vars, installed, status, outcome, operationVars, shut,
                   servedEver>>

(***************************************************************************)
(* select_model                                                            *)
(***************************************************************************)

\* The file check; without the file the command is rejected.
CheckSelect(o) ==
    /\ stage[o] = "ready"
    /\ stage' = [stage EXCEPT ![o] =
                   IF target[o] \in installed THEN "checked" ELSE "done"]
    /\ UNCHANGED <<vars, installed, status, target, outcome, operationVars, shut,
                   servedEver>>

InsertModel(o) ==
    /\ stage[o] = "accepted"
    /\ status' = [status EXCEPT ![target[o]] = "Verifying"]
    /\ stage' = [stage EXCEPT ![o] = "inserted"]
    /\ UNCHANGED <<vars, installed, target, outcome, operationVars, shut,
                   servedEver>>

SelectBegin(o) ==
    /\ stage[o] = "inserted"
    /\ BeginVerification(o, target[o])
    /\ stage' = [stage EXCEPT ![o] = "running"]
    /\ UNCHANGED <<installed, status, target, outcome, operationVars, shut,
                   servedEver>>

\* The token is looked at once, after the hash.
SelectCancelled(o) ==
    /\ GiveUp(o) /\ o \in cancelled
    /\ Finishing(o, "Cancelled")
    /\ UNCHANGED <<installed, status, target, operationVars, shut, servedEver>>

\* Mutant: a hash task that could not be joined ends the task silently.
SelectJoinFails_Silent(o) ==
    /\ GiveUp(o) /\ o \notin cancelled
    /\ status' = UpdatedModel(target[o], "Failed")
    /\ stage' = [stage EXCEPT ![o] = "done"]
    /\ UNCHANGED <<installed, target, outcome, operationVars, shut, servedEver>>

SelectJoinFails(o) ==
    /\ GiveUp(o) /\ o \notin cancelled
    /\ status' = UpdatedModel(target[o], "Failed")
    /\ Finishing(o, "Failed")
    /\ UNCHANGED <<installed, target, operationVars, shut, servedEver>>

\* verify_file_sha256 fails on a file that is corrupt or gone.
SelectHashFails(o) ==
    /\ MarkVerificationFailed(o) /\ o \notin cancelled
    /\ UNCHANGED commandVars

\* mark_verified after a hash that matched.  The descriptor constructors
\* before it refuse only a blank id or digest, which no catalogue entry has.
SelectHashed(o) ==
    /\ MarkVerified(o) /\ o \notin cancelled
    /\ target[o] \in installed
    /\ UNCHANGED commandVars

ShowActivating(o) ==
    /\ stage[o] = "running" /\ pc[o] = "verified"
    /\ status' = UpdatedModel(target[o], "Activating")
    /\ stage' = [stage EXCEPT ![o] = "shown"]
    /\ UNCHANGED <<vars, installed, target, outcome, operationVars, shut,
                   servedEver>>

SelectActivate(o) ==
    /\ stage[o] = "shown"
    /\ StartActivation(o) \/ ActivationFails(o) \/ CommitActivation(o)
    /\ servedEver' = servedEver \cup ({active'} \ {None})
    /\ UNCHANGED <<installed, status, stage, target, outcome, operationVars, shut>>

\* Mutant: the projection is set to Ready whatever the outcome was.
SelectReport_AlwaysReady(o) ==
    /\ stage[o] \in {"running", "shown"}
    /\ pc[o] \in {"ready", "failed", "stale"}
    /\ status' = UpdatedModel(target[o], "Ready")
    /\ Finishing(o, IF pc[o] = "ready" THEN "Completed" ELSE "Failed")
    /\ UNCHANGED <<vars, installed, target, operationVars, shut, servedEver>>

\* What the task shows.  A verification that came too late (the stale
\* result of mark_verified) leaves the projection as it is.
SelectReport(o) ==
    /\ stage[o] \in {"running", "shown"}
    /\ pc[o] \in {"ready", "failed", "stale"}
    /\ status' = IF pc[o] = "ready" THEN UpdatedModel(target[o], "Ready")
                 ELSE IF pc[o] = "stale" /\ stage[o] = "running" THEN status
                 ELSE UpdatedModel(target[o], "Failed")
    /\ Finishing(o, IF pc[o] = "ready" THEN "Completed" ELSE "Failed")
    /\ UNCHANGED <<vars, installed, target, operationVars, shut, servedEver>>

(***************************************************************************)
(* delete_model                                                            *)
(***************************************************************************)

\* BusyConflict for the model that is active now.
CheckDelete(d) ==
    /\ stage[d] = "ready"
    /\ stage' = [stage EXCEPT ![d] = IF active # target[d] THEN "checked" ELSE "done"]
    /\ UNCHANGED <<vars, installed, status, target, outcome, operationVars, shut,
                   servedEver>>

DeleteCancelled(d) ==
    /\ stage[d] = "accepted" /\ d \in cancelled
    /\ Finishing(d, "Cancelled")
    /\ UNCHANGED <<vars, installed, status, target, operationVars, shut, servedEver>>

\* The blocking remove_file; a file that does not exist counts as removed.
RemoveFile(d) ==
    /\ stage[d] = "accepted" /\ d \notin cancelled
    /\ \/ /\ installed' = installed \ {target[d]}
          /\ stage' = [stage EXCEPT ![d] = "removed"]
       \/ /\ stage' = [stage EXCEPT ![d] = "notRemoved"]
          /\ UNCHANGED installed
    /\ UNCHANGED <<vars, status, target, outcome, operationVars, shut, servedEver>>

DeleteReport(d) ==
    /\ stage[d] \in {"removed", "notRemoved"}
    /\ status' = IF stage[d] = "removed"
                   THEN [status EXCEPT ![target[d]] = "absent"] ELSE status
    /\ Finishing(d, IF stage[d] = "removed" THEN "Completed" ELSE "Failed")
    /\ UNCHANGED <<vars, installed, target, operationVars, shut, servedEver>>

(***************************************************************************)
(* Cancellation and shutdown                                               *)
(***************************************************************************)

\* cancel_operation, reached through the cancel command with an operation id:
\* the token is looked up and cancelled ...
CancelOperation(c) ==
    /\ CommandThreadFree /\ Submitted < MaxCommands
    /\ c \in tokens
    /\ canceller' = [count |-> canceller.count + 1, at |-> "signalled", op |-> c]
    /\ cancelled' = cancelled \cup {c}
    /\ UNCHANGED <<vars, installed, status, stage, target, outcome, record, tokens,
                   shut, servedEver>>

\* ... then the record is overwritten, whatever the task did since ...
CancelRecords ==
    /\ canceller.at = "signalled"
    /\ canceller' = [canceller EXCEPT !.at = "recorded"]
    /\ record' = [record EXCEPT ![canceller.op] = "Cancelled"]
    /\ UNCHANGED <<vars, installed, status, stage, target, outcome, tokens,
                   cancelled, shut, servedEver>>

\* ... and the token is dropped.
CancelDropsToken ==
    /\ canceller.at = "recorded"
    /\ canceller' = [canceller EXCEPT !.at = "idle", !.op = None]
    /\ tokens' = tokens \ {canceller.op}
    /\ UNCHANGED <<vars, installed, status, stage, target, outcome, record,
                   cancelled, shut, servedEver>>

\* shutdown: Stopping is published, then cancel_all, then deactivate.
BeginShutdown ==
    /\ shut = "no"
    /\ shut' = "stopping"
    /\ UNCHANGED <<vars, installed, status, stage, target, outcome, operationVars,
                   servedEver>>

CancelAll ==
    /\ shut = "stopping"
    /\ shut' = "cancelled"
    /\ cancelled' = cancelled \cup tokens
    /\ UNCHANGED <<vars, installed, status, stage, target, outcome, record, tokens,
                   canceller, servedEver>>

ShutdownDeactivates ==
    /\ shut = "cancelled"
    /\ Deactivate \/ FinishDeactivate
    /\ UNCHANGED commandVars

OperationStep(c) ==
    \/ RecordOperation(c) \/ RegisterToken(c) \/ WriteOutcome(c) \/ DropToken(c)
    \/ CancelOperation(c) \/ \E m \in Models : EnsureReady(c, m)

SelectStep(o) ==
    \/ CheckSelect(o) \/ InsertModel(o) \/ SelectBegin(o)
    \/ SelectCancelled(o) \/ SelectJoinFails(o) \/ SelectHashFails(o)
    \/ SelectHashed(o) \/ ShowActivating(o) \/ SelectActivate(o)
    \/ SelectReport(o)

DeleteStep(d) ==
    \/ CheckDelete(d) \/ DeleteCancelled(d) \/ RemoveFile(d) \/ DeleteReport(d)

CNext ==
    \/ \E c \in Commands : OperationStep(c)
    \/ \E o \in Ops : SelectStep(o)
    \/ \E d \in Deletes : DeleteStep(d)
    \/ CancelRecords \/ CancelDropsToken
    \/ BeginShutdown \/ CancelAll \/ ShutdownDeactivates

CSpec == CInit /\ [][CNext]_cvars

-----------------------------------------------------------------------------
(***************************************************************************)
(* Properties                                                              *)
(***************************************************************************)

\* Every variable keeps its type, and a token that can be cancelled has a
\* record for the cancellation to write.
CTypeOK ==
    /\ TypeOK
    /\ installed \in SUBSET Models
    /\ status \in [Models -> ModelStatus]
    /\ stage \in [Commands -> Stage]
    /\ target \in [Commands -> Optional]
    /\ outcome \in [Commands -> Record]
    /\ record \in [Commands -> Record]
    /\ tokens \in SUBSET Commands
    /\ cancelled \in SUBSET Commands
    /\ canceller \in [count : 0..MaxCommands, at : {"idle", "signalled", "recorded"},
                      op : Commands \cup {None}]
    /\ shut \in {"no", "stopping", "cancelled"}
    /\ servedEver \in SUBSET Models
    /\ \A c \in tokens : record[c] # "none"

\* A model is shown Ready only if its own artifact passed the SHA-256 check
\* in this session, however selections, deletions, cancellations and a
\* shutdown overlap.
ReadyWasHashed == \A m \in Models : status[m] = "Ready" => m \in hashed

\* No path of the two tasks ends without update_operation, and no
\* cancellation that overlaps with it undoes its effect: an accepted command
\* whose task is over has a terminal record and no token, so that it is not
\* shown as running and a later cancellation finds nothing to cancel.
DoneIsRecorded ==
    \A c \in Commands : record[c] # "none" /\ stage[c] = "done" =>
        record[c] \in Terminal /\ c \notin tokens

\* The readiness contract: a model is shown Ready only after its backend has
\* served; a verified model is not automatically ready.
ReadyImpliesServed == \A m \in Models : status[m] = "Ready" => m \in servedEver

=============================================================================
