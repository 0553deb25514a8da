------------------------- MODULE ModelDownloadProofs -------------------------
(***************************************************************************)
(* Proofs about ModelDownload when one download of the model is under way  *)
(* at a time, for every size of the model, quota, number of retries and    *)
(* capacity of the event channel: what is at the destination is the whole  *)
(* model, a Completed operation has it there, and the quota holds.         *)
(***************************************************************************)
EXTENDS ModelDownload, FiniteSetTheorems, TLAPS

Chunks == {"good", "bad", "hole"}

Futures == [at : Places, resume : Nat, retries : Nat, inode : Inodes \cup {Nothing},
            total : Nat, done : Nat, sound : BOOLEAN]

(* The types the argument needs. *)
Types ==
  /\ files \in [Inodes -> Seq(Chunks)]
  /\ partial \in Inodes \cup {Nothing}
  /\ dest \in Inodes \cup {Nothing}
  /\ partial # Nothing => partial # dest
  /\ task \in [Tasks -> Futures]
  /\ DOMAIN operation = Tasks

(* What the future of t knows of .partial at each of its places: until it   *)
(* opens the file, that it is as long as resume_from; while it streams,     *)
(* that the file ends where it writes and, as long as the hash is sound,    *)
(* holds the beginning of the model; and the room the quota check gave it.  *)
Knows(t) ==
  /\ task[t].at \in {"request", "size", "open"} => task[t].resume = Length(partial)
  /\ task[t].at = "restart" => task[t].resume = 0 /\ partial = Nothing
  /\ task[t].at \in {"size", "open"} => task[t].resume <= task[t].total
  /\ task[t].at \notin {"stream", "rename", "complete"} /\ ~Ready(t) => task[t].inode = Nothing
  /\ task[t].at = "open" => Length(dest) + task[t].total <= Quota
  /\ task[t].at = "stream" =>
       /\ partial # Nothing /\ task[t].inode = partial
       /\ Len(files[partial]) = task[t].done
       /\ task[t].done <= task[t].total
       /\ task[t].sound => Good(files[partial], task[t].done)
       /\ Length(dest) + task[t].total <= Quota
  /\ task[t].at = "rename" =>
       partial # Nothing /\ Good(files[partial], Size) /\ Len(files[partial]) = Size
  /\ task[t].at \in {"complete", "succeeded"} => dest # Nothing

IInv ==
  /\ Types
  /\ \A t \in Tasks : Knows(t)
  /\ PublishedIsVerified
  /\ QuotaRespected
  /\ CompletedIsOnDisk

-----------------------------------------------------------------------------
(* One chunk written at the end of a file. *)
LEMMA WriteAtEnd ==
  ASSUME NEW s \in Seq(Chunks), NEW c \in Chunks
  PROVE  /\ Written(s, Len(s), c) \in Seq(Chunks)
         /\ Len(Written(s, Len(s), c)) = Len(s) + 1
         /\ Good(s, Len(s)) /\ c = "good" => Good(Written(s, Len(s), c), Len(s) + 1)
  <1> DEFINE w == Written(s, Len(s), c)
  <1>1. Len(s) \in Nat /\ ~(Len(s) > Len(s)) OBVIOUS
  <1>2. w = [i \in 1..(Len(s) + 1) |->
               IF i = Len(s) + 1 THEN c ELSE IF i <= Len(s) THEN s[i] ELSE "hole"]
    BY <1>1 DEF Written
  <1>3. \A i \in 1..(Len(s) + 1) :
           w[i] = IF i = Len(s) + 1 THEN c ELSE IF i <= Len(s) THEN s[i] ELSE "hole"
    BY <1>2
  <1>4. \A i \in 1..(Len(s) + 1) : w[i] \in Chunks
    <2> SUFFICES ASSUME NEW i \in 1..(Len(s) + 1) PROVE w[i] \in Chunks OBVIOUS
    <2>1. i <= Len(s) => i \in 1..Len(s) /\ s[i] \in Chunks BY <1>1
    <2> QED BY <1>3, <2>1 DEF Chunks
  <1>5. w \in Seq(Chunks) /\ Len(w) = Len(s) + 1 BY <1>1, <1>2, <1>4
  <1>6. ASSUME Good(s, Len(s)), c = "good" PROVE Good(w, Len(s) + 1)
    <2> HIDE DEF w
    <2> SUFFICES ASSUME NEW i \in 1..(Len(s) + 1) PROVE w[i] = "good"
      BY <1>1, <1>5 DEF Good
    <2>1. i # Len(s) + 1 => i \in 1..Len(s) /\ i <= Len(s) BY <1>1
    <2> QED BY <1>3, <1>6, <2>1 DEF Good
  <1> QED BY <1>5, <1>6

(* With one task, an inode is left for a new .partial. *)
LEMMA UnusedExists ==
  ASSUME NEW d, Tasks = {d}, Types
  PROVE  /\ Inodes = 1..3
         /\ partial = Nothing /\ task[d].inode = Nothing => Unused # {}
  <1>1. Cardinality(Tasks) = 1 BY FS_Singleton
  <1>2. Inodes = 1..3 BY <1>1 DEF Inodes
  <1>3. ASSUME partial = Nothing, task[d].inode = Nothing PROVE Unused # {}
    <2>1. Unused = Inodes \ {Nothing, dest} BY <1>3 DEF Unused
    <2>2. (dest # 1 => 1 \in Unused) /\ (dest # 2 => 2 \in Unused)
      BY <1>2, <2>1 DEF Nothing
    <2> QED BY <2>2
  <1> QED BY <1>2, <1>3

(* The length of a file that may not exist. *)
LEMMA LengthFacts ==
  ASSUME Types
  PROVE  /\ Length(partial) \in Nat /\ Length(dest) \in Nat
         /\ Length(Nothing) = 0 /\ Nothing \notin Inodes
         /\ \A i \in Inodes : files[i] \in Seq(Chunks) /\ Length(i) = Len(files[i]) /\ Len(files[i]) \in Nat
  <1>1. Nothing \notin Inodes BY DEF Nothing, Inodes
  <1>2. \A i \in Inodes : files[i] \in Seq(Chunks) /\ Length(i) = Len(files[i]) /\ Len(files[i]) \in Nat
    BY <1>1 DEF Types, Length
  <1>3. Length(Nothing) = 0 BY DEF Length
  <1> QED BY <1>1, <1>2, <1>3 DEF Types

(* The empty disk satisfies the invariant. *)
LEMMA InitInv == Init => IInv
  <1> SUFFICES ASSUME Init PROVE IInv OBVIOUS
  <1> USE DEF Init
  <1>1. Types
    <2>1. <<>> \in Seq(Chunks) OBVIOUS
    <2>2. NoTask \in Futures BY DEF NoTask, Futures, Places
    <2> QED BY <2>1, <2>2 DEF Types
  <1>2. \A t \in Tasks : Knows(t) BY DEF Knows, NoTask, Ready
  <1>3. PublishedIsVerified /\ CompletedIsOnDisk BY DEF PublishedIsVerified, CompletedIsOnDisk
  <1>4. QuotaRespected BY DownloadAssumption DEF QuotaRespected, Usage, Length
  <1> QED BY <1>1, <1>2, <1>3, <1>4 DEF IInv

(* A step that leaves the disk alone keeps the invariant if what the task   *)
(* knows afterwards is true of the disk.                                    *)
LEMMA DiskUnchanged ==
  ASSUME IInv, UNCHANGED disk, task' \in [Tasks -> Futures], DOMAIN operation' = Tasks,
         \A t \in Tasks : Knows(t)', CompletedIsOnDisk'
  PROVE  IInv'
  <1>1. UNCHANGED <<files, partial, dest>> BY DEF disk
  <1>2. Types' BY <1>1 DEF IInv, Types
  <1>3. PublishedIsVerified' BY <1>1 DEF IInv, PublishedIsVerified, Good
  <1>4. QuotaRespected' BY <1>1 DEF IInv, QuotaRespected, Usage, Length
  <1> QED BY <1>2, <1>3, <1>4 DEF IInv

(* A step that at most takes .partial away keeps it, too. *)
LEMMA PartialRemoved ==
  ASSUME IInv, UNCHANGED <<files, dest>>, partial' = Nothing \/ UNCHANGED partial,
         task' \in [Tasks -> Futures], DOMAIN operation' = Tasks,
         \A t \in Tasks : Knows(t)', CompletedIsOnDisk'
  PROVE  IInv'
  <1>1. Types' BY DEF IInv, Types
  <1>2. PublishedIsVerified' BY DEF IInv, PublishedIsVerified, Good
  <1>3. QuotaRespected'
    <2>1. Length(partial) \in Nat /\ Length(dest) \in Nat BY LengthFacts DEF IInv
    <2>2. Length(partial)' \in {0, Length(partial)} /\ Length(dest)' = Length(dest) BY DEF Length
    <2>3. Length(partial) + Length(dest) <= Quota BY DEF IInv, QuotaRespected, Usage
    <2> QED BY <2>1, <2>2, <2>3, DownloadAssumption DEF QuotaRespected, Usage
  <1> QED BY <1>1, <1>2, <1>3 DEF IInv

(* Every step of the one download, of the user and of the process keeps it. *)
LEMMA StepInv ==
  ASSUME NEW d, Tasks = {d}
  PROVE  IInv /\ [Next]_vars => IInv'
  <1> SUFFICES ASSUME IInv, [Next]_vars PROVE IInv' OBVIOUS
  <1>a. /\ Types /\ Knows(d) /\ PublishedIsVerified /\ QuotaRespected /\ CompletedIsOnDisk
        /\ task \in [Tasks -> Futures] /\ DOMAIN operation = Tasks /\ d \in Tasks
    BY DEF IInv, Types
  <1>b. /\ Length(partial) \in Nat /\ Length(dest) \in Nat
        /\ Length(Nothing) = 0 /\ Nothing \notin Inodes
        /\ \A i \in Inodes : files[i] \in Seq(Chunks) /\ Length(i) = Len(files[i]) /\ Len(files[i]) \in Nat
    BY <1>a, LengthFacts
  <1>c. Size \in Nat \ {0} /\ Quota \in Nat BY DownloadAssumption
  <1>d. /\ task[d] \in Futures /\ task[d].resume \in Nat /\ task[d].retries \in Nat
        /\ task[d].total \in Nat /\ task[d].done \in Nat /\ task[d].sound \in BOOLEAN
        /\ task[d].inode \in Inodes \cup {Nothing}
    BY <1>a DEF Futures
  <1>e. UNCHANGED <<operation, dest>> => CompletedIsOnDisk' BY <1>a DEF CompletedIsOnDisk
  <1>1. CASE UNCHANGED vars
    <2>1. UNCHANGED <<disk, files, partial, dest, task, operation>> BY <1>1 DEF vars, disk
    <2>2. Knows(d)' BY <1>a, <2>1 DEF Knows, Length, Good, Ready
    <2> QED BY <1>a, <1>e, <2>1, <2>2, DiskUnchanged
  <1>2. CASE ResumeFrom(d)
    <2> USE <1>2 DEF ResumeFrom, At
    <2>1. UNCHANGED <<disk, files, partial, dest, operation>> BY DEF disk
    <2>2. task'[d] = [task[d] EXCEPT !.at = "request", !.resume = Length(partial)] BY <1>a
    <2>3. /\ task'[d].at = "request" /\ task'[d].resume = Length(partial)
          /\ task'[d].inode = task[d].inode /\ task'[d] \in Futures
      BY ONLY <1>b, <1>d, <2>2 DEF Futures, Places
    <2>4. task' \in [Tasks -> Futures] BY <1>a, <2>3
    <2>5. Knows(d)' BY <1>a, <2>1, <2>3 DEF Knows, Length, Ready
    <2> QED BY <1>a, <1>e, <2>1, <2>4, <2>5, DiskUnchanged
  <1>3. CASE RequestCancelled(d)
    <2> USE <1>3 DEF RequestCancelled, At, Goto
    <2>1. UNCHANGED <<disk, files, partial, dest, operation>> /\ task' \in [Tasks -> Futures]
      BY <1>a DEF disk, Futures, Places
    <2>2. Knows(d)' BY <1>a, <1>b, <1>c, <2>1 DEF Knows, Length, Good, Ready
    <2> QED BY <1>a, <1>e, <2>1, <2>2, DiskUnchanged
  <1>4. CASE RequestFails(d)
    <2> USE <1>4 DEF RequestFails, At, Goto, Fails, FailsWithEvent, Emit
    <2>1. UNCHANGED <<disk, files, partial, dest, operation>> BY DEF disk
    <2>2. \/ task'[d] = [task[d] EXCEPT !.retries = @ + 1]
          \/ task'[d] = [task[d] EXCEPT !.at = "failed"]
      BY <1>a
    <2>3. /\ task'[d].at = "failed" \/ task'[d].at = task[d].at
          /\ task'[d].resume = task[d].resume /\ task'[d].total = task[d].total
          /\ task'[d].inode = task[d].inode /\ task'[d] \in Futures
      BY ONLY <1>d, <2>2 DEF Futures, Places
    <2>4. task' \in [Tasks -> Futures] BY <1>a, <2>3
    <2>5. Knows(d)' BY <1>a, <2>1, <2>3 DEF Knows, Length, Ready
    <2> QED BY <1>a, <1>e, <2>1, <2>4, <2>5, DiskUnchanged
  <1>5. CASE CreateDirFails(d) \/ OpenFails(d) \/ RenameFails(d)
    <2>1. UNCHANGED disk /\ UNCHANGED operation /\ task' = [task EXCEPT ![d].at = "failed"]
      BY <1>5 DEF CreateDirFails, OpenFails, RenameFails, IoFails, Goto, Fails
    <2>2. UNCHANGED <<files, partial, dest>> BY <2>1 DEF disk
    <2>3. task' \in [Tasks -> Futures] BY <1>a, <2>1 DEF Futures, Places
    <2>4. task'[d].at = "failed" BY <1>a, <2>1
    <2>5. Knows(d)' BY <2>2, <2>4 DEF Knows, Ready
    <2> QED BY <1>a, <1>e, <2>1, <2>2, <2>3, <2>5, DiskUnchanged
  <1>6. CASE Started(d)
    <2> USE <1>6 DEF Started, At, Goto, Emit
    <2>1. UNCHANGED <<disk, files, partial, dest, operation>> BY DEF disk
    <2>2. task'[d] = [task[d] EXCEPT !.at = "open"] BY <1>a
    <2>3. /\ task'[d].at = "open" /\ task'[d].resume = task[d].resume
          /\ task'[d].total = task[d].total
          /\ task'[d].inode = task[d].inode /\ task'[d] \in Futures
      BY ONLY <1>d, <2>2 DEF Futures, Places
    <2>4. task' \in [Tasks -> Futures] BY <1>a, <2>3
    <2>5. Length(dest) + task[d].total <= Quota
      <3>1. task[d].resume = Length(partial) BY <1>a DEF Knows
      <3>2. (Length(partial) + Length(dest)) + (task[d].total - task[d].resume) <= Quota
        BY DEF Allowed, Usage
      <3> QED BY ONLY <3>1, <3>2, <1>b, <1>c, <1>d
    <2>6. Knows(d)' BY <1>a, <2>1, <2>3, <2>5 DEF Knows, Length, Ready
    <2> QED BY <1>a, <1>e, <2>1, <2>4, <2>6, DiskUnchanged
  <1>7. CASE StreamCancelled(d)
    <2> USE <1>7 DEF StreamCancelled, At, Goto, Emit
    <2>1. UNCHANGED <<disk, files, partial, dest, operation>> /\ task' \in [Tasks -> Futures]
      BY <1>a DEF disk, Futures, Places
    <2>2. Knows(d)' BY <1>a, <1>b, <1>c, <2>1 DEF Knows, Length, Good, Ready
    <2> QED BY <1>a, <1>e, <2>1, <2>2, DiskUnchanged
  <1>8. CASE StreamFails(d)
    <2> USE <1>8 DEF StreamFails, At, Goto, Fails
    <2>1. UNCHANGED <<disk, files, partial, dest, operation>> /\ task' \in [Tasks -> Futures]
      BY <1>a DEF disk, Futures, Places
    <2>2. Knows(d)' BY <1>a, <1>b, <1>c, <2>1 DEF Knows, Length, Good, Ready
    <2> QED BY <1>a, <1>e, <2>1, <2>2, DiskUnchanged
  <1>9. CASE HashMatches(d)
    <2> USE <1>9 DEF HashMatches, At, Goto, Matches
    <2>1. UNCHANGED <<disk, files, partial, dest, operation>> /\ task' \in [Tasks -> Futures]
      BY <1>a DEF disk, Futures, Places
    <2>2. Knows(d)' BY <1>a, <1>b, <1>c, <2>1 DEF Knows, Length, Good, Ready
    <2> QED BY <1>a, <1>e, <2>1, <2>2, DiskUnchanged
  <1>10. CASE Complete(d)
    <2> USE <1>10 DEF Complete, At, Goto, Emit
    <2>1. UNCHANGED <<disk, files, partial, dest, operation>> /\ task' \in [Tasks -> Futures]
      BY <1>a DEF disk, Futures, Places
    <2>2. Knows(d)' BY <1>a, <1>b, <1>c, <2>1 DEF Knows, Length, Good, Ready
    <2> QED BY <1>a, <1>e, <2>1, <2>2, DiskUnchanged
  <1>11. ASSUME NEW total \in Totals(d), Responded(d, total) PROVE IInv'
    <2> USE <1>11 DEF Responded, At
    <2>1. UNCHANGED <<disk, files, partial, dest, operation>> BY DEF disk
    <2>2. total \in Nat /\ task[d].resume <= total
      <3>1. settled => task[d].resume <= Size BY <1>a, <1>c, <1>d DEF Knows
      <3> QED BY <3>1, <1>c, <1>d DEF Totals, Longest
    <2>3. task'[d] = [task[d] EXCEPT !.at = "size", !.total = total] BY <1>a
    <2>4. /\ task'[d].at = "size" /\ task'[d].resume = task[d].resume /\ task'[d].total = total
          /\ task'[d].inode = task[d].inode /\ task'[d] \in Futures
      BY ONLY <1>d, <2>2, <2>3 DEF Futures, Places
    <2>5. task' \in [Tasks -> Futures] BY <1>a, <2>4
    <2>6. task[d].resume = Length(partial) BY <1>a, <1>b DEF Knows
    <2>7. Knows(d)' BY <1>a, <2>1, <2>2, <2>4, <2>6 DEF Knows, Length, Ready
    <2> QED BY <1>a, <1>e, <2>1, <2>5, <2>7, DiskUnchanged
  <1>12. CASE RestartFromZero(d)
    <2> USE <1>12 DEF RestartFromZero, At, Goto
    <2>1. UNCHANGED <<files, dest, operation>> /\ (partial' = Nothing \/ UNCHANGED partial)
      OBVIOUS
    <2>2. \/ task'[d] = [task[d] EXCEPT !.at = "failed"]
          \/ /\ task'[d] = [task[d] EXCEPT !.at = "restart", !.resume = 0, !.retries = 0]
             /\ partial' = Nothing
      BY <1>a
    <2>3. /\ \/ task'[d].at = "failed"
             \/ task'[d].at = "restart" /\ task'[d].resume = 0 /\ partial' = Nothing
          /\ task'[d].inode = task[d].inode /\ task'[d] \in Futures
      <3>1. CASE task'[d] = [task[d] EXCEPT !.at = "failed"]
        BY ONLY <1>d, <3>1 DEF Futures, Places
      <3>2. CASE /\ task'[d] = [task[d] EXCEPT !.at = "restart", !.resume = 0, !.retries = 0]
                 /\ partial' = Nothing
        <4>1. /\ task'[d].at = "restart" /\ task'[d].resume = 0
              /\ task'[d].inode = task[d].inode
          BY ONLY <1>d, <3>2 DEF Futures
        <4>2. task'[d] = [at |-> "restart", resume |-> 0, retries |-> 0, inode |-> task[d].inode,
                          total |-> task[d].total, done |-> task[d].done, sound |-> task[d].sound]
          BY ONLY <1>d, <3>2 DEF Futures
        <4>3. task'[d] \in Futures BY ONLY <1>d, <4>2 DEF Futures, Places
        <4> QED BY ONLY <3>2, <4>1, <4>3
      <3> QED BY ONLY <2>2, <3>1, <3>2
    <2>4. task' \in [Tasks -> Futures] BY <1>a, <2>3
    <2>5. Knows(d)' BY <1>a, <2>1, <2>3 DEF Knows, Length, Ready
    <2> QED BY <1>a, <1>e, <2>1, <2>4, <2>5, PartialRemoved
  <1>13. CASE SizeRejected(d)
    <2> USE <1>13 DEF SizeRejected, RemovePartial, FailsWithEvent, At, Goto
    <2>1. /\ UNCHANGED <<files, dest, operation>> /\ task' \in [Tasks -> Futures]
          /\ partial' = Nothing \/ UNCHANGED partial
      BY <1>a DEF Futures, Places
    <2>2. Knows(d)' BY <1>a, <1>b, <2>1 DEF Knows, Length, Good, Ready
    <2> QED BY <1>a, <1>e, <2>1, <2>2, PartialRemoved
  <1>14. CASE HashMismatch(d)
    <2> USE <1>14 DEF HashMismatch, RemovePartial, FailsWithEvent, At, Goto
    <2>1. /\ UNCHANGED <<files, dest, operation>> /\ task' \in [Tasks -> Futures]
          /\ partial' = Nothing \/ UNCHANGED partial
      BY <1>a DEF Futures, Places
    <2>2. Knows(d)' BY <1>a, <1>b, <2>1 DEF Knows, Length, Good, Ready
    <2> QED BY <1>a, <1>e, <2>1, <2>2, PartialRemoved
  <1>15. CASE OpenPartial(d)
    <2> DEFINE inode == IF partial # Nothing THEN partial ELSE CHOOSE i \in Unused : TRUE
               old == IF partial # Nothing THEN files[partial] ELSE <<>>
               resume == task[d].resume
               new == IF resume = 0 THEN <<>> ELSE old
    <2>1. /\ At(d, "open") /\ UNCHANGED <<dest, operation>>
          /\ files' = [files EXCEPT ![inode] = new] /\ partial' = inode
          /\ task' = [task EXCEPT ![d].at = "stream", ![d].inode = inode, ![d].done = resume,
                                  ![d].sound = Good(old, resume)]
      BY <1>15 DEF OpenPartial
    <2>2. /\ resume \in Nat /\ resume = Length(partial) /\ resume <= task[d].total
          /\ task[d].total \in Nat /\ Length(dest) + task[d].total <= Quota
          /\ task[d].inode = Nothing
      BY <1>a, <1>d, <2>1 DEF Knows, At, Ready
    <2>3. inode \in Inodes /\ inode # dest
      <3>1. CASE partial # Nothing BY <3>1, <1>a DEF Types
      <3>2. CASE partial = Nothing
        <4>1. Unused # {} BY <3>2, <1>a, <2>2, UnusedExists
        <4>2. inode \in Unused BY <3>2, <4>1
        <4> QED BY <4>2 DEF Unused
      <3> QED BY <3>1, <3>2
    <2>4. old \in Seq(Chunks) /\ Len(old) = resume
      <3>1. CASE partial # Nothing BY <3>1, <1>a, <1>b, <2>2 DEF Types
      <3>2. CASE partial = Nothing BY <3>2, <1>b, <2>2
      <3> QED BY <3>1, <3>2
    <2>5. new \in Seq(Chunks) /\ Len(new) = resume BY <2>4
    <2>6. Good(old, resume) => Good(new, resume)
      <3>1. CASE resume = 0 BY <3>1 DEF Good
      <3>2. CASE resume # 0 BY <3>2
      <3> QED BY <3>1, <3>2
    <2> HIDE DEF inode, old, new, resume
    <2>7. files' \in [Inodes -> Seq(Chunks)] /\ files'[inode] = new
          /\ \A i \in Inodes : i # inode => files'[i] = files[i]
      BY <1>a, <2>1, <2>3, <2>5 DEF Types
    <2>8. /\ task'[d].at = "stream" /\ task'[d].inode = inode /\ task'[d].done = resume
          /\ task'[d].sound = Good(old, resume) /\ task'[d].total = task[d].total
          /\ task' \in [Tasks -> Futures]
      <3>1. task'[d] = [task[d] EXCEPT !.at = "stream", !.inode = inode, !.done = resume,
                                       !.sound = Good(old, resume)]
        BY <1>a, <2>1
      <3>2. Good(old, resume) \in BOOLEAN /\ resume \in Nat BY <2>2 DEF Good
      <3>3. /\ task'[d].at = "stream" /\ task'[d].inode = inode /\ task'[d].done = resume
            /\ task'[d].sound = Good(old, resume) /\ task'[d].total = task[d].total
            /\ task'[d] \in Futures
        BY ONLY <1>d, <2>3, <3>1, <3>2 DEF Futures, Places
      <3> QED BY <1>a, <2>1, <3>3
    <2>9. /\ dest \in Inodes \cup {Nothing} /\ inode # Nothing /\ Length(dest)' = Length(dest)
          /\ Length(partial)' = resume
      BY <1>a, <1>b, <2>1, <2>3, <2>5, <2>7 DEF Types, Length
    <2>10. Types'
      BY ONLY <1>a, <2>1, <2>3, <2>7, <2>8, <2>9 DEF Types
    <2>11. Knows(d)'
      BY <2>1, <2>2, <2>5, <2>6, <2>7, <2>8, <2>9 DEF Knows, resume
    <2>12. PublishedIsVerified'
      <3>1. dest # Nothing => files'[dest] = files[dest] BY <2>3, <2>7, <2>9
      <3> QED BY <1>a, <2>1, <3>1 DEF PublishedIsVerified, Good
    <2>13. QuotaRespected'
      <3>1. Usage = Length(partial) + Length(dest) /\ Usage' = Usage
        BY <2>2, <2>9 DEF Usage, resume
      <3> QED BY <1>a, <3>1 DEF QuotaRespected
    <2> QED BY <1>a, <1>e, <2>1, <2>10, <2>11, <2>12, <2>13 DEF IInv
  <1>16. ASSUME NEW chunk \in {"good", "bad"}, Chunk(d, chunk) PROVE IInv'
    <2> DEFINE old == files[partial]
               done == task[d].done
               new == Written(old, done, chunk)
    <2>1. At(d, "stream") BY <1>16 DEF Chunk
    <2>2. /\ partial \in Inodes /\ partial # dest /\ task[d].inode = partial
          /\ partial # Nothing
          /\ old \in Seq(Chunks) /\ Len(old) = done /\ done \in Nat
          /\ task[d].sound => Good(old, done)
          /\ Length(dest) + task[d].total <= Quota
      BY <1>a, <1>b, <1>d, <2>1 DEF Knows, At, Types
    <2>3. /\ UNCHANGED <<partial, dest, operation>> /\ done < task[d].total
          /\ files' = [files EXCEPT ![partial] = new]
          /\ task' = [task EXCEPT ![d].done = @ + 1, ![d].sound = @ /\ chunk = "good"]
      BY <1>16, <2>2 DEF Chunk
    <2>4. /\ new \in Seq(Chunks) /\ Len(new) = done + 1
          /\ Good(old, done) /\ chunk = "good" => Good(new, done + 1)
      <3>1. chunk \in Chunks BY DEF Chunks
      <3> QED BY <2>2, <3>1, WriteAtEnd
    <2> HIDE DEF old, new, done
    <2>5. files' \in [Inodes -> Seq(Chunks)] /\ files'[partial] = new
          /\ \A i \in Inodes : i # partial => files'[i] = files[i]
      BY <1>a, <2>2, <2>3, <2>4 DEF Types
    <2>6. /\ task'[d].at = "stream" /\ task'[d].inode = partial /\ task'[d].done = done + 1
          /\ task'[d].sound <=> (task[d].sound /\ chunk = "good")
          /\ task'[d].total = task[d].total
          /\ task' \in [Tasks -> Futures]
      <3>1. task'[d] = [task[d] EXCEPT !.done = @ + 1, !.sound = @ /\ chunk = "good"]
        BY <1>a, <2>3
      <3>2. (task[d].sound /\ chunk = "good") \in BOOLEAN /\ task[d].done + 1 \in Nat
        BY <1>d
      <3>3. /\ task'[d].at = task[d].at /\ task'[d].inode = task[d].inode
            /\ task'[d].done = task[d].done + 1
            /\ task'[d].sound = (task[d].sound /\ chunk = "good")
            /\ task'[d].total = task[d].total /\ task'[d] \in Futures
        BY ONLY <1>d, <3>1, <3>2 DEF Futures
      <3> QED BY <1>a, <2>1, <2>2, <2>3, <3>3 DEF done, At
    <2>7. Length(dest)' = Length(dest) /\ Length(partial)' = done + 1
      BY <1>a, <1>b, <2>2, <2>3, <2>4, <2>5 DEF Types, Length
    <2>8. Types' BY ONLY <1>a, <2>2, <2>3, <2>5, <2>6 DEF Types
    <2>9. Knows(d)'
      <3>1. done + 1 \in Nat /\ done + 1 <= task[d].total BY <1>d, <2>2, <2>3
      <3>2. task'[d].sound => Good(new, done + 1) BY <2>2, <2>4, <2>6
      <3> QED BY <2>2, <2>3, <2>4, <2>5, <2>6, <2>7, <3>1, <3>2 DEF Knows
    <2>10. PublishedIsVerified'
      <3>1. dest # Nothing => files'[dest] = files[dest] BY <1>a, <2>2, <2>5 DEF Types
      <3> QED BY <1>a, <2>3, <3>1 DEF PublishedIsVerified, Good
    <2>11. QuotaRespected'
      <3>1. Usage' = done + 1 + Length(dest) BY <2>7, <1>b, <2>2 DEF Usage
      <3> QED BY <3>1, <2>2, <2>3, <1>b, <1>c, <1>d DEF QuotaRespected
    <2> QED BY <1>a, <1>e, <2>3, <2>8, <2>9, <2>10, <2>11 DEF IInv
  <1>17. CASE RenamePartial(d)
    <2> USE <1>17 DEF RenamePartial, At, Goto
    <2>1. partial # Nothing /\ Good(files[partial], Size) /\ Len(files[partial]) = Size
      BY <1>a DEF Knows
    <2>2. UNCHANGED <<files, operation>> /\ dest' = partial /\ partial' = Nothing BY <2>1
    <2>3. task'[d] = [task[d] EXCEPT !.at = "complete"] BY <1>a, <2>1
    <2>4. task'[d].at = "complete" /\ task'[d] \in Futures
      BY ONLY <1>d, <2>3 DEF Futures, Places
    <2>5. task' \in [Tasks -> Futures] BY <1>a, <2>1, <2>4
    <2>6. Types' BY <1>a, <2>2, <2>5 DEF Types
    <2>7. Knows(d)' BY <2>1, <2>2, <2>4 DEF Knows, Ready
    <2>8. PublishedIsVerified' BY <2>1, <2>2 DEF PublishedIsVerified, Good
    <2>9. QuotaRespected'
      <3>1. Usage' = Length(partial) BY <1>b, <2>1, <2>2 DEF Usage, Length
      <3>2. Length(partial) + Length(dest) <= Quota BY <1>a DEF QuotaRespected, Usage
      <3> QED BY <1>b, <1>c, <3>1, <3>2 DEF QuotaRespected
    <2>10. CompletedIsOnDisk' BY <2>1, <2>2 DEF CompletedIsOnDisk
    <2> QED BY <2>6, <2>7, <2>8, <2>9, <2>10 DEF IInv
  <1>18. CASE DownloadModel(d)
    <2> USE <1>18 DEF DownloadModel, At
    <2>1. UNCHANGED <<disk, files, partial, dest>> BY DEF disk
    <2>2. task'[d] = [NoTask EXCEPT !.at = "metadata"] BY <1>a
    <2>3. task'[d].at = "metadata" /\ task'[d].inode = Nothing /\ task'[d] \in Futures
      <3>1. NoTask \in Futures /\ NoTask.inode = Nothing BY DEF NoTask, Futures, Places
      <3> QED BY ONLY <2>2, <3>1 DEF Futures, Places
    <2>4. task' \in [Tasks -> Futures] /\ DOMAIN operation' = Tasks BY <1>a, <2>3
    <2>5. Knows(d)' BY <2>3 DEF Knows
    <2>6. CompletedIsOnDisk' BY <1>a DEF CompletedIsOnDisk
    <2> QED BY <2>1, <2>4, <2>5, <2>6, DiskUnchanged
  <1>19. CASE Receive(d)
    <2> USE <1>19 DEF Receive
    <2>1. UNCHANGED <<disk, files, partial, dest, task>> BY DEF disk
    <2>2. DOMAIN operation' = Tasks /\ (operation'[d] = operation[d] \/ operation'[d] = "running")
      BY <1>a
    <2>3. Knows(d)' BY <1>a, <2>1 DEF Knows, Length, Good, Ready
    <2>4. CompletedIsOnDisk' BY <1>a, <2>1, <2>2 DEF CompletedIsOnDisk
    <2> QED BY <1>a, <2>1, <2>2, <2>3, <2>4, DiskUnchanged
  <1>20. CASE Report(d)
    <2> USE <1>20 DEF Report, At
    <2>1. UNCHANGED <<disk, files, partial, dest>> BY DEF disk
    <2>2. task'[d] = NoTask /\ NoTask \in Futures /\ NoTask.at = "idle" /\ NoTask.inode = Nothing
      BY <1>a DEF NoTask, Futures, Places
    <2>3. task' \in [Tasks -> Futures] /\ DOMAIN operation' = Tasks BY <1>a, <2>2
    <2>4. Knows(d)' BY <2>2 DEF Knows
    <2>5. operation'[d] = "completed" => task[d].at = "succeeded" BY <1>a
    <2>6. CompletedIsOnDisk' BY <1>a, <2>1, <2>5 DEF CompletedIsOnDisk, Knows
    <2> QED BY <2>1, <2>3, <2>4, <2>6, DiskUnchanged
  <1>21. CASE CancelDownload(d)
    <2> USE <1>21 DEF CancelDownload
    <2>1. UNCHANGED <<disk, files, partial, dest, task>> BY DEF disk
    <2>2. DOMAIN operation' = Tasks /\ operation'[d] = "cancelled" BY <1>a
    <2>3. Knows(d)' BY <1>a, <2>1 DEF Knows, Length, Good, Ready
    <2>4. CompletedIsOnDisk' BY <1>a, <2>2 DEF CompletedIsOnDisk
    <2> QED BY <1>a, <2>1, <2>2, <2>3, <2>4, DiskUnchanged
  <1>22. CASE Restart
    <2> USE <1>22 DEF Restart
    <2>1. UNCHANGED <<disk, files, partial, dest>> BY DEF disk
    <2>2. task'[d] = NoTask /\ NoTask \in Futures /\ NoTask.at = "idle" /\ NoTask.inode = Nothing
      BY <1>a DEF NoTask, Futures, Places
    <2>3. task' \in [Tasks -> Futures] /\ DOMAIN operation' = Tasks BY <2>2
    <2>4. Knows(d)' BY <2>2 DEF Knows
    <2>5. CompletedIsOnDisk' BY <1>a, <2>1 DEF CompletedIsOnDisk
    <2> QED BY <2>1, <2>3, <2>4, <2>5, DiskUnchanged
  <1>23. CASE Settle
    <2> USE <1>23 DEF Settle
    <2>1. UNCHANGED <<disk, files, partial, dest, task, operation>> BY DEF disk
    <2>2. Knows(d)' BY <1>a, <2>1 DEF Knows, Length, Good, Ready
    <2> QED BY <1>a, <1>e, <2>1, <2>2, DiskUnchanged
  <1> QED
    BY <1>1, <1>2, <1>3, <1>4, <1>5, <1>6, <1>7, <1>8, <1>9, <1>10, <1>11, <1>12, <1>13, <1>14,
       <1>15, <1>16, <1>17, <1>18, <1>19, <1>20, <1>21, <1>22, <1>23
       DEF Next, TaskStep, FutureStep

-----------------------------------------------------------------------------
(* One download at a time: whatever the server, the user and the deaths of  *)
(* the process have left in .partial, only the whole, good model is ever    *)
(* renamed to the destination.                                              *)
THEOREM DownloadVerified ==
  ASSUME NEW d, Tasks = {d}
  PROVE  Spec => []PublishedIsVerified
  <1>1. IInv => PublishedIsVerified BY DEF IInv
  <1> QED BY <1>1, InitInv, StepInv, PTL DEF Spec

(* One download at a time: what is under the models directory never exceeds *)
(* the quota that was checked before the stream began.                      *)
THEOREM DownloadWithinQuota ==
  ASSUME NEW d, Tasks = {d}
  PROVE  Spec => []QuotaRespected
  <1>1. IInv => QuotaRespected BY DEF IInv
  <1> QED BY <1>1, InitInv, StepInv, PTL DEF Spec

(* One download at a time: a Completed operation has its model at the       *)
(* destination.                                                             *)
THEOREM DownloadCompletes ==
  ASSUME NEW d, Tasks = {d}
  PROVE  Spec => []CompletedIsOnDisk
  <1>1. IInv => CompletedIsOnDisk BY DEF IInv
  <1> QED BY <1>1, InitInv, StepInv, PTL DEF Spec
=============================================================================
