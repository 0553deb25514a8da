---------------------------- MODULE ModelDownload ----------------------------
(***************************************************************************)
(* The download of one model: download_model's task and the resumable,     *)
(* hash-checked downloader it drives (application_runtime/                 *)
(* models_download.rs, storage/model_download.rs, storage/quota.rs and     *)
(* network.rs).                                                            *)
(*                                                                         *)
(* A file is a sequence of chunks, each good or bad, with holes where      *)
(* nothing was written; the model has Size of them, all good.  Files are   *)
(* inodes: a task goes on writing to the one it opened when another        *)
(* removes or renames it.  The server may fail, ignore the range, declare  *)
(* another size or send bad bytes, and the process may die, until all has  *)
(* settled.  A task is one download_model command; when it has ended the   *)
(* command may be given again.                                             *)
(***************************************************************************)
EXTENDS Naturals, Sequences, FiniteSets

CONSTANTS Tasks,       \* downloads that may be under way at once
          Size,        \* chunks of the model file
          Quota,       \* max_model_storage_bytes, in chunks
          MaxRetries,  \* RetryPolicy.max_attempts
          Events       \* capacity of the task's DownloadEvent channel

ASSUME DownloadAssumption == {Size, Quota, MaxRetries, Events} \subseteq Nat \ {0}

Inodes == 1..(Cardinality(Tasks) + 2)
Nothing == 0
Longest == Size + 1   \* bound on what a server declares

VARIABLES
  files,      \* contents of the inodes
  partial,    \* the inode at <dest>.partial, or Nothing
  dest,       \* the inode at the destination, or Nothing
  task,       \* the download future of each task
  channel,    \* its DownloadEvents not yet received
  cancelled,  \* tasks whose token is cancelled
  operation,  \* status of the task's operation
  model,      \* status of the model's projection
  settled     \* the network and the user have stopped interfering

disk == <<files, partial, dest>>
vars == <<disk, task, channel, cancelled, operation, model, settled>>

(* resume: resume_from.  inode: the open file.  total: total_bytes.        *)
(* done: downloaded.                                                       *)
(* sound: what went through the hasher is the beginning of the model.      *)
NoTask == [at |-> "idle", resume |-> 0, retries |-> 0, inode |-> Nothing,
           total |-> 0, done |-> 0, sound |-> TRUE]

Init ==
  /\ files = [i \in Inodes |-> <<>>]
  /\ partial = Nothing
  /\ dest = Nothing
  /\ task = [t \in Tasks |-> NoTask]
  /\ channel = [t \in Tasks |-> <<>>]
  /\ cancelled = {}
  /\ operation = [t \in Tasks |-> "none"]
  /\ model = "absent"
  /\ settled = FALSE

At(t, place) == task[t].at = place
Goto(t, place) == task' = [task EXCEPT ![t].at = place]
Emit(t, event) ==
  /\ Len(channel[t]) < Events
  /\ channel' = [channel EXCEPT ![t] = Append(@, event)]

(* An error, and the Error event that most of the error paths send first:   *)
(* nothing is awaited between that event and the end of the future.         *)
Fails(t) == Goto(t, "failed") /\ UNCHANGED channel
FailsWithEvent(t) == Goto(t, "failed") /\ Emit(t, "error")

Length(inode) == IF inode = Nothing THEN 0 ELSE Len(files[inode])
Good(contents, n) == Len(contents) >= n /\ \A i \in 1..n : contents[i] = "good"

(* write_all at an offset, over a hole if the file is shorter. *)
Written(contents, offset, chunk) ==
  [i \in 1..(IF Len(contents) > offset THEN Len(contents) ELSE offset + 1) |->
     IF i = offset + 1 THEN chunk ELSE IF i <= Len(contents) THEN contents[i] ELSE "hole"]

-----------------------------------------------------------------------------
(* download_model, up to the spawn. *)
DownloadModel(t) ==
  /\ At(t, "idle")
  /\ task' = [task EXCEPT ![t] = [NoTask EXCEPT !.at = "metadata"]]
  /\ channel' = [channel EXCEPT ![t] = <<>>]
  /\ cancelled' = cancelled \ {t}
  /\ operation' = [operation EXCEPT ![t] = "accepted"]
  /\ model' = "downloading"
  /\ UNCHANGED <<disk, settled>>

ResumeFrom(t) ==
  /\ At(t, "metadata")
  /\ task' = [task EXCEPT ![t].at = "request", ![t].resume = Length(partial)]
  /\ UNCHANGED <<disk, channel, cancelled, operation, model, settled>>

(* send_request_with_retry: the select prefers neither the cancellation nor *)
(* the response.                                                            *)
RequestCancelled(t) ==
  /\ task[t].at \in {"request", "restart"}
  /\ t \in cancelled
  /\ Goto(t, "cancelled")
  /\ UNCHANGED <<disk, channel, cancelled, operation, model, settled>>

(* Mutant: the last retry is not the last. *)
RequestFails_OffByOne(t) ==
  /\ task[t].at \in {"request", "restart"}
  /\ ~settled
  /\ \/ /\ task[t].retries <= MaxRetries
        /\ task' = [task EXCEPT ![t].retries = @ + 1]
        /\ UNCHANGED channel
     \/ Fails(t)
  /\ UNCHANGED <<disk, cancelled, operation, model, settled>>

(* Mutant: after the last retry the count starts again. *)
RequestFails_Again(t) ==
  /\ task[t].at \in {"request", "restart"}
  /\ ~settled
  /\ task' = [task EXCEPT ![t].retries = IF @ < MaxRetries THEN @ + 1 ELSE 0]
  /\ UNCHANGED <<disk, channel, cancelled, operation, model, settled>>

RequestFails(t) ==
  /\ task[t].at \in {"request", "restart"}
  /\ ~settled
  /\ \/ /\ task[t].retries < MaxRetries
        /\ task' = [task EXCEPT ![t].retries = @ + 1]
        /\ UNCHANGED channel
     \/ Fails(t)
     \/ At(t, "request") /\ task[t].resume = 0 /\ FailsWithEvent(t)
  /\ UNCHANGED <<disk, cancelled, operation, model, settled>>

IoFails(t, place) ==
  /\ At(t, place)
  /\ ~settled
  /\ Fails(t)
  /\ UNCHANGED <<disk, cancelled, operation, model, settled>>

CreateDirFails(t) == IoFails(t, "metadata")
OpenFails(t) == IoFails(t, "open")

(* Mutant: the result of the rename is ignored. *)
RenameFails_Ignored(t) ==
  /\ At(t, "rename")
  /\ ~settled
  /\ Goto(t, "complete")
  /\ UNCHANGED <<disk, channel, cancelled, operation, model, settled>>

RenameFails(t) == IoFails(t, "rename")

(* remove_file(.partial) where its result is ignored. *)
RemovePartial == partial' = Nothing \/ (~settled /\ UNCHANGED partial)

(* The sizes a response may declare. *)
Totals(t) == IF settled THEN {Size} ELSE task[t].resume..Longest

(* 206 to a range, 200 without one.  A settled server honours a range that *)
(* begins inside the file.                                                 *)
Responded(t, total) ==
  /\ \/ At(t, "request") /\ (settled => task[t].resume < Size)
     \/ At(t, "restart")
  /\ task' = [task EXCEPT ![t].at = "size", ![t].total = total]
  /\ UNCHANGED <<disk, channel, cancelled, operation, model, settled>>

(* Mutant: an answer that refuses the range is an error. *)
RestartFromZero_Fails(t) ==
  /\ At(t, "request")
  /\ task[t].resume > 0
  /\ settled => task[t].resume >= Size
  /\ FailsWithEvent(t)
  /\ UNCHANGED <<disk, cancelled, operation, model, settled>>

(* 200 or 416 to a range: .partial is removed and the request made again;   *)
(* a removal that fails, as where another task was first, is an error.      *)
RestartFromZero(t) ==
  /\ At(t, "request")
  /\ task[t].resume > 0
  /\ settled => task[t].resume >= Size
  /\ \/ /\ partial # Nothing
        /\ partial' = Nothing
        /\ task' = [task EXCEPT ![t].at = "restart", ![t].resume = 0, ![t].retries = 0]
     \/ /\ partial = Nothing \/ ~settled
        /\ Goto(t, "failed")
        /\ UNCHANGED partial
  /\ UNCHANGED <<files, dest, channel, cancelled, operation, model, settled>>

(* accounted_model_bytes, and ensure_model_download_allowed_with_additional; *)
(* one .partial alone stays below max_partial_storage_bytes.                 *)
(* (Mutant: the prefix on disk is not counted.)                              *)
Usage == Length(partial) + Length(dest)
Allowed_NotPartial(t) == Length(dest) + (task[t].total - task[t].resume) <= Quota
Allowed(t) == Usage + (task[t].total - task[t].resume) <= Quota

(* The size is missing or over a limit: .partial goes too. *)
SizeRejected(t) ==
  /\ At(t, "size")
  /\ settled => ~Allowed(t)
  /\ RemovePartial
  /\ FailsWithEvent(t)
  /\ UNCHANGED <<files, dest, cancelled, operation, model, settled>>

Started(t) ==
  /\ At(t, "size")
  /\ Allowed(t)
  /\ Emit(t, "started")
  /\ Goto(t, "open")
  /\ UNCHANGED <<disk, cancelled, operation, model, settled>>

Unused == Inodes \ ({partial, dest} \cup {task[t].inode : t \in Tasks})

(* Mutant: the hash covers the new bytes only. *)
OpenPartial_NoPrefix(t) ==
  LET inode == IF partial # Nothing THEN partial ELSE CHOOSE i \in Unused : TRUE
      old == IF partial # Nothing THEN files[partial] ELSE <<>>
      resume == task[t].resume
  IN /\ At(t, "open")
     /\ files' = [files EXCEPT ![inode] = IF resume = 0 THEN <<>> ELSE old]
     /\ partial' = inode
     /\ task' = [task EXCEPT ![t].at = "stream", ![t].inode = inode, ![t].done = resume]
     /\ UNCHANGED <<dest, channel, cancelled, operation, model, settled>>

(* Opens or creates .partial, truncates it when the download starts from    *)
(* zero, and hashes the prefix it resumes from.                             *)
OpenPartial(t) ==
  LET inode == IF partial # Nothing THEN partial ELSE CHOOSE i \in Unused : TRUE
      old == IF partial # Nothing THEN files[partial] ELSE <<>>
      resume == task[t].resume
  IN /\ At(t, "open")
     /\ files' = [files EXCEPT ![inode] = IF resume = 0 THEN <<>> ELSE old]
     /\ partial' = inode
     /\ task' = [task EXCEPT ![t].at = "stream", ![t].inode = inode, ![t].done = resume,
                             ![t].sound = Good(old, resume)]
     /\ UNCHANGED <<dest, channel, cancelled, operation, model, settled>>

(* One chunk of the body, hashed, written and reported. *)
Chunk(t, chunk) ==
  /\ At(t, "stream")
  /\ t \notin cancelled
  /\ task[t].done < task[t].total
  /\ settled => chunk = "good"
  /\ files' = [files EXCEPT ![task[t].inode] = Written(@, task[t].done, chunk)]
  /\ task' = [task EXCEPT ![t].done = @ + 1, ![t].sound = @ /\ chunk = "good"]
  /\ Emit(t, "progress")
  /\ UNCHANGED <<partial, dest, cancelled, operation, model, settled>>

(* The cancellation is looked at when the next chunk, or the read timeout,  *)
(* arrives.                                                                 *)
StreamCancelled(t) ==
  /\ At(t, "stream")
  /\ t \in cancelled
  /\ task[t].done < task[t].total
  /\ Goto(t, "cancelled")
  /\ Emit(t, "error")
  /\ UNCHANGED <<disk, cancelled, operation, model, settled>>

(* A read or a write fails; the seek and the hashing before the first chunk *)
(* and the flush after the last may fail also when the token is cancelled.  *)
StreamFails(t) ==
  /\ At(t, "stream")
  /\ ~settled
  /\ t \in cancelled => task[t].done \in {task[t].resume, task[t].total}
  /\ Fails(t)
  /\ UNCHANGED <<disk, cancelled, operation, model, settled>>

Matches(t) == task[t].sound /\ task[t].done = Size

(* The end of the body: the digest decides. *)
HashMatches(t) ==
  /\ At(t, "stream")
  /\ task[t].done = task[t].total
  /\ Matches(t)
  /\ Goto(t, "rename")
  /\ UNCHANGED <<disk, channel, cancelled, operation, model, settled>>

HashMismatch(t) ==
  /\ At(t, "stream")
  /\ task[t].done = task[t].total
  /\ ~Matches(t)
  /\ RemovePartial
  /\ FailsWithEvent(t)
  /\ UNCHANGED <<files, dest, cancelled, operation, model, settled>>

RenamePartial(t) ==
  /\ At(t, "rename")
  /\ IF partial = Nothing THEN Goto(t, "failed") /\ UNCHANGED <<partial, dest>>
     ELSE Goto(t, "complete") /\ dest' = partial /\ partial' = Nothing
  /\ UNCHANGED <<files, channel, cancelled, operation, model, settled>>

(* The Complete event; the future is ready with it. *)
Complete(t) ==
  /\ At(t, "complete")
  /\ Emit(t, "complete")
  /\ Goto(t, "succeeded")
  /\ UNCHANGED <<disk, cancelled, operation, model, settled>>

-----------------------------------------------------------------------------
(* The task of download_model: a select between the future and its events. *)

Ready(t) == task[t].at \in {"succeeded", "failed", "cancelled"}

Receive(t) ==
  LET event == Head(channel[t])
  IN /\ task[t].at # "idle" /\ ~Ready(t)
     /\ channel[t] # <<>>
     /\ channel' = [channel EXCEPT ![t] = Tail(@)]
     /\ operation' = IF event = "progress" THEN [operation EXCEPT ![t] = "running"] ELSE operation
     /\ model' = CASE event = "complete" -> "installed"
                   [] event = "error" -> "failed"
                   [] OTHER -> model
     /\ UNCHANGED <<disk, task, cancelled, settled>>

(* The select breaks with the result; what is in the channel is dropped. *)
Report(t) ==
  /\ Ready(t)
  /\ operation' = [operation EXCEPT ![t] = CASE At(t, "succeeded") -> "completed"
                                             [] At(t, "cancelled") -> "cancelled"
                                             [] OTHER -> "failed"]
  /\ model' = IF At(t, "succeeded") THEN model ELSE "failed"
  /\ task' = [task EXCEPT ![t] = NoTask]
  /\ channel' = [channel EXCEPT ![t] = <<>>]
  /\ UNCHANGED <<disk, cancelled, settled>>

(* cancel_download: the token goes with the terminal status, so once only. *)
CancelDownload(t) ==
  /\ ~settled
  /\ task[t].at # "idle"
  /\ t \notin cancelled
  /\ cancelled' = cancelled \cup {t}
  /\ operation' = [operation EXCEPT ![t] = "cancelled"]
  /\ UNCHANGED <<disk, task, channel, model, settled>>

(* The process dies and starts again: hydration fails the operations it     *)
(* finds unfinished and takes the model's projection as it was saved.       *)
Restart ==
  /\ ~settled
  /\ task' = [t \in Tasks |-> NoTask]
  /\ channel' = [t \in Tasks |-> <<>>]
  /\ cancelled' = {}
  /\ operation' = [t \in Tasks |-> IF operation[t] \in {"accepted", "running"}
                                   THEN "failed" ELSE operation[t]]
  /\ UNCHANGED <<disk, model, settled>>

Settle ==
  /\ ~settled
  /\ settled' = TRUE
  /\ UNCHANGED <<disk, task, channel, cancelled, operation, model>>

-----------------------------------------------------------------------------
FutureStep(t) ==
  \/ ResumeFrom(t) \/ CreateDirFails(t) \/ RequestCancelled(t) \/ RequestFails(t)
  \/ \E total \in Totals(t) : Responded(t, total)
  \/ RestartFromZero(t) \/ SizeRejected(t) \/ Started(t) \/ OpenFails(t)
  \/ OpenPartial(t)
  \/ \E chunk \in {"good", "bad"} : Chunk(t, chunk)
  \/ StreamCancelled(t) \/ StreamFails(t) \/ HashMatches(t) \/ HashMismatch(t)
  \/ RenameFails(t) \/ RenamePartial(t) \/ Complete(t)

TaskStep(t) == FutureStep(t) \/ Receive(t) \/ Report(t)

Next ==
  \/ \E t \in Tasks : DownloadModel(t) \/ TaskStep(t) \/ CancelDownload(t)
  \/ Restart
  \/ Settle

Spec == Init /\ [][Next]_vars

(* The pool polls every task that can go on: timeouts end every request and *)
(* read, and a full channel is received from.  The user gives the command   *)
(* again while the model is not there.                                      *)
Fairness ==
  \A t \in Tasks : WF_vars(TaskStep(t)) /\ WF_vars(dest = Nothing /\ DownloadModel(t))

FairSpec == Spec /\ Fairness

-----------------------------------------------------------------------------
Places == {"idle", "metadata", "request", "restart", "size", "open", "stream", "rename",
           "complete", "succeeded", "failed", "cancelled"}

(* Every variable has its type, the channel its capacity, and a request its *)
(* bounded number of retries.                                               *)
TypeOK ==
  /\ files \in [Inodes -> Seq({"good", "bad", "hole"})]
  /\ \A i \in Inodes : Len(files[i]) <= Longest
  /\ {partial, dest} \subseteq Inodes \cup {Nothing}
  /\ \A t \in Tasks : /\ task[t].at \in Places
                      /\ {task[t].resume, task[t].total, task[t].done} \subseteq 0..Longest
                      /\ task[t].retries \in 0..MaxRetries
                      /\ task[t].inode \in Inodes \cup {Nothing}
                      /\ Len(channel[t]) <= Events
  /\ cancelled \subseteq Tasks
  /\ operation \in [Tasks -> {"none", "accepted", "running", "completed", "failed", "cancelled"}]
  /\ model \in {"absent", "downloading", "installed", "failed"}

(* "A corrupted or truncated download therefore can never poison the GGUF   *)
(* path": whatever earlier attempts, deaths of the process and the server   *)
(* have left in .partial, the file at the destination is the whole model.   *)
PublishedIsVerified == dest # Nothing => Good(files[dest], Size) /\ Len(files[dest]) = Size

(* The quota check before the stream covers everything the stream writes,   *)
(* the prefix it resumes from and an older copy at the destination.         *)
QuotaRespected == Usage <= Quota

(* An operation is Completed only with the model at its destination: no     *)
(* error of the stream, the digest or the rename is taken for success.      *)
CompletedIsOnDisk == \A t \in Tasks : operation[t] = "completed" => dest # Nothing

(* Every download ends: retries are bounded, timeouts end requests and      *)
(* reads, and the task keeps receiving, so a full channel never blocks the  *)
(* future that fills it.                                                    *)
DownloadEnds == \A t \in Tasks : task[t].at # "idle" ~> task[t].at = "idle"

(* No .partial that earlier attempts have left behind, too long, with bad   *)
(* bytes or already complete, prevents the model from being installed once  *)
(* the network is well and the user tries again.                            *)
RetriesInstall == settled ~> dest # Nothing

(* "The `status` channel always gets a final "complete" or "error" event so *)
(* the QML state machine can leave the "downloading" view": a download that *)
(* has completed does not leave its model Downloading.                      *)
CompletedLeavesDownloading ==
  \A t \in Tasks : operation[t] = "completed" /\ At(t, "idle") => model # "downloading"
=============================================================================
