---------------------------- MODULE ChatSessions ----------------------------
(***************************************************************************)
(* Chat commands, generation tasks, Temporary Chat sessions and shutdown   *)
(* (application_runtime/chat.rs, ephemeral_chat.rs,                        *)
(* temporary_chat_runtime.rs, foundation_state.rs and                      *)
(* documents_snapshot.rs).                                                 *)
(*                                                                         *)
(* A command is also the operation it starts and the user message it       *)
(* carries.  submit may be called from any thread, and that the Android    *)
(* host calls it from one is not used here; a generation is a task of the  *)
(* tokio pool; shutdown runs on the thread that closes the gateway.  A     *)
(* step ends where the code releases a lock that another of them can take: *)
(* the helpers of temporary_chat_runtime.rs read the session in one step   *)
(* and act on a store in the next, on what they have read.                 *)
(***************************************************************************)
EXTENDS Naturals, Sequences

CONSTANTS Ops,       \* commands
          Temp,      \* conversations minted by begin_temporary_chat
          Durable,   \* conversations minted by the host
          MaxStops,  \* bound on the stop_generation commands, one at a time
          NoOne      \* no command, or no conversation

ASSUME ChatAssumption ==
  /\ Temp \cap Durable = {} /\ NoOne \notin Ops /\ NoOne \notin Temp \cup Durable
  /\ MaxStops \in Nat

Convs == Temp \cup Durable
Kinds == {"send", "resume", "regenerate", "clear"}
Terminal == {"completed", "failed", "cancelled"}
Message == [role : {"user", "assistant"}, op : Ops]

VARIABLES
  shutdown,   \* how far MukeiRuntime::shutdown has come
  life,       \* Temporary Chats: "unborn", "minting", "begun"
  session,    \* EphemeralChatState: "absent", "active" or "retired"
  private,    \* EphemeralChatState.conversations
  opIds,      \* EphemeralChatState.operation_ids
  ephOps,     \* EphemeralChatState.operations
  endIds,     \* the operation ids end() has returned
  durable,    \* FeatureState.conversations, persisted on every change
  status,     \* FeatureState.operations
  tokens,     \* FeatureState.operation_tokens
  stop,       \* how many stop_generation were submitted, and where the last one is
  cancelled,  \* operations whose token is cancelled
  op,         \* where each command, then its task, is
  ack         \* its acknowledgement

sessionVars == <<life, session, private, opIds, ephOps, endIds>>
featureVars == <<durable, status, tokens>>
vars == <<shutdown, sessionVars, featureVars, stop, cancelled, op, ack>>

Phases == <<"open", "closed", "stopping", "cancelled", "cleared", "stopped">>
Past(phase) == \E i, j \in 1..6 : Phases[i] = phase /\ Phases[j] = shutdown /\ i <= j

(* seen: what session_state has returned to the helper the command is in. *)
NoOp == [at |-> "idle", kind |-> "send", conv |-> NoOne, user |-> NoOne,
         seen |-> "unread", temporary |-> FALSE, isolated |-> FALSE]

Init ==
  /\ shutdown = "open"
  /\ life = [c \in Temp |-> "unborn"]
  /\ session = [c \in Convs |-> "absent"]
  /\ private = [c \in Convs |-> <<>>]
  /\ opIds = [c \in Convs |-> {}]
  /\ ephOps = {}
  /\ endIds = [c \in Convs |-> {}]
  /\ durable = [c \in Convs |-> <<>>]
  /\ status = [o \in Ops |-> "none"]
  /\ tokens = {}
  /\ stop = [count |-> 0, at |-> "none", op |-> NoOne]
  /\ cancelled = {}
  /\ op = [o \in Ops |-> NoOp]
  /\ ack = [o \in Ops |-> "none"]

-----------------------------------------------------------------------------
(* Histories *)

Has(history, role) == {i \in DOMAIN history : history[i].role = role}
LastOf(history, role) == CHOOSE i \in Has(history, role) : \A j \in Has(history, role) : j <= i

(* remove_last_assistant: the last answer, wherever it stands. *)
WithoutLastAnswer(history) ==
  LET last == LastOf(history, "assistant")
  IN [i \in 1..(Len(history) - 1) |-> IF i < last THEN history[i] ELSE history[i + 1]]

(* Mutant: a retired session is taken for one that never was. *)
SessionState_RetiredIsAbsent(c) == IF session[c] = "active" THEN "active" ELSE "absent"

(* EphemeralChatState::session_state, under the lifecycle lock. *)
SessionState(c) == session[c]

At(o, place) == op[o].at = place
Goto(o, place) == op' = [op EXCEPT ![o].at = place, ![o].seen = "unread"]
Reject(o) ==
  /\ Goto(o, "done")
  /\ ack' = [ack EXCEPT ![o] = "rejected"]

(* The places where a helper begins by reading the session. *)
Helpers == {"lastUser", "remove", "check", "append", "accept", "clearing"}

ReadSession(o) ==
  /\ op[o].at \in Helpers /\ op[o].seen = "unread"
  /\ op' = [op EXCEPT ![o].seen = SessionState(op[o].conv)]
  /\ UNCHANGED <<shutdown, sessionVars, featureVars, stop, cancelled, ack>>

(* chat_history and last_user_chat_message: the history in the store that   *)
(* was chosen.  A session that has ended meanwhile has none.                *)
History(o) ==
  CASE op[o].seen = "active" -> private[op[o].conv]
    [] op[o].seen = "absent" -> durable[op[o].conv]
    [] OTHER -> <<>>

(* append_, clear_ and remove_last_assistant_: the store that was chosen is *)
(* changed; EphemeralChatState changes only a session that it still holds.  *)
Change(o, history) ==
  LET c == op[o].conv
  IN /\ private' = IF op[o].seen = "active" /\ session[c] = "active"
                   THEN [private EXCEPT ![c] = history] ELSE private
     /\ durable' = IF op[o].seen = "absent" THEN [durable EXCEPT ![c] = history] ELSE durable

-----------------------------------------------------------------------------
(* Commands *)

(* submit, up to the dispatch. *)
Submit(o, kind, c) ==
  /\ At(o, "idle")
  /\ shutdown = "open"
  /\ c \in Durable \cup {t \in Temp : life[t] = "begun"}
  /\ op' = [op EXCEPT ![o] = [NoOp EXCEPT !.at = "submitted", !.kind = kind,
                                          !.conv = c, !.user = o]]
  /\ UNCHANGED <<shutdown, sessionVars, featureVars, stop, cancelled, ack>>

EnsureReady(o) ==
  /\ At(o, "submitted")
  /\ IF Past("stopping") THEN Reject(o)
     ELSE /\ Goto(o, CASE op[o].kind = "send" -> "start"
                       [] op[o].kind = "clear" -> "clear"
                       [] OTHER -> "recover")
          /\ UNCHANGED ack
  /\ UNCHANGED <<shutdown, sessionVars, featureVars, stop, cancelled>>

(* The was_retired check with which clear_conversation, recover_chat and    *)
(* start_chat_operation begin.                                              *)
CheckRetired(o) ==
  /\ op[o].at \in {"clear", "recover", "start"}
  /\ IF SessionState(op[o].conv) = "retired" THEN Reject(o)
     ELSE /\ Goto(o, CASE op[o].at = "clear" -> "accept"
                       [] op[o].at = "recover" -> "lastUser"
                       [] OTHER -> "loop")
          /\ UNCHANGED ack
  /\ UNCHANGED <<shutdown, sessionVars, featureVars, stop, cancelled>>

(* recover_chat: the last user message is found in the history ... *)
RecoverChat(o) ==
  LET history == History(o)
  IN /\ At(o, "lastUser") /\ op[o].seen # "unread"
     /\ IF Has(history, "user") = {} THEN Reject(o)
        ELSE /\ op' = [op EXCEPT ![o].at = IF op[o].kind = "regenerate" THEN "remove" ELSE "start",
                                 ![o].user = history[LastOf(history, "user")].op,
                                 ![o].seen = "unread"]
             /\ UNCHANGED ack
     /\ UNCHANGED <<shutdown, sessionVars, featureVars, stop, cancelled>>

(* ... and a regeneration removes the last answer. *)
RemoveLastAssistant(o) ==
  LET history == History(o)
  IN /\ At(o, "remove") /\ op[o].seen # "unread"
     /\ IF Has(history, "assistant") = {} THEN UNCHANGED <<private, durable>>
        ELSE Change(o, WithoutLastAnswer(history))
     /\ Goto(o, "start")
     /\ UNCHANGED <<shutdown, life, session, opIds, ephOps, endIds, status, tokens,
                    stop, cancelled, ack>>

(* Mutant: one agent loop for every conversation. *)
ChooseLoop_Shared(o) ==
  /\ At(o, "loop")
  /\ Goto(o, "check")
  /\ UNCHANGED <<shutdown, sessionVars, featureVars, stop, cancelled, ack>>

(* is_registered is read to choose the agent loop that will run. *)
ChooseLoop(o) ==
  /\ At(o, "loop")
  /\ op' = [op EXCEPT ![o].at = "check", ![o].isolated = SessionState(op[o].conv) = "active"]
  /\ UNCHANGED <<shutdown, sessionVars, featureVars, stop, cancelled, ack>>

(* Mutant: readiness is checked after the message is appended. *)
StartRejected_AfterAppend(o) ==
  /\ At(o, "accept")
  /\ Reject(o)
  /\ UNCHANGED <<shutdown, sessionVars, featureVars, stop, cancelled>>

(* No backend is active (ModelActivation), or the loop that was chosen is   *)
(* not composed; neither depends on the state of this module.               *)
StartRejected(o) ==
  /\ At(o, "loop")
  /\ Reject(o)
  /\ UNCHANGED <<shutdown, sessionVars, featureVars, stop, cancelled>>

UserMessage(o) == [role |-> "user", op |-> op[o].user]

CheckHistory(o) ==
  LET history == History(o)
  IN /\ At(o, "check") /\ op[o].seen # "unread"
     /\ Goto(o, IF \E i \in DOMAIN history : history[i] = UserMessage(o) THEN "accept" ELSE "append")
     /\ UNCHANGED <<shutdown, sessionVars, featureVars, stop, cancelled, ack>>

AppendUser(o) ==
  /\ At(o, "append") /\ op[o].seen # "unread"
  /\ Change(o, Append(History(o), UserMessage(o)))
  /\ Goto(o, "accept")
  /\ UNCHANGED <<shutdown, life, session, opIds, ephOps, endIds, status, tokens,
                 stop, cancelled, ack>>

-----------------------------------------------------------------------------
(* accept_chat_operation *)

AcceptRetired(o) ==
  /\ At(o, "accept") /\ op[o].seen = "retired"
  /\ Reject(o)
  /\ UNCHANGED <<shutdown, sessionVars, featureVars, stop, cancelled>>

Accepted(o, isTemporary) ==
  /\ op' = [op EXCEPT ![o].at = IF op[o].kind = "clear" THEN "clearing" ELSE "spawned",
                      ![o].temporary = isTemporary, ![o].seen = "unread"]
  /\ ack' = [ack EXCEPT ![o] = "accepted"]

(* FeatureState::create_operation: the record ... *)
AcceptDurable(o) ==
  /\ At(o, "accept") /\ op[o].seen = "absent"
  /\ Goto(o, "token")
  /\ status' = [status EXCEPT ![o] = "accepted"]
  /\ UNCHANGED <<shutdown, sessionVars, durable, tokens, stop, cancelled, ack>>

(* ... and the token. *)
RegisterToken(o) ==
  /\ At(o, "token")
  /\ Accepted(o, FALSE)
  /\ tokens' = tokens \cup {o}
  /\ UNCHANGED <<shutdown, sessionVars, durable, status, stop, cancelled>>

(* EphemeralChatState::create_operation, under the lifecycle lock. *)
CreateOperation(o) ==
  LET c == op[o].conv
  IN /\ At(o, "accept") /\ op[o].seen = "active"
     /\ IF session[c] = "active"
          THEN /\ Accepted(o, TRUE)
               /\ opIds' = [opIds EXCEPT ![c] = @ \cup {o}]
               /\ ephOps' = ephOps \cup {o}
          ELSE Reject(o) /\ UNCHANGED <<opIds, ephOps>>
     /\ UNCHANGED <<shutdown, life, session, private, endIds, featureVars,
                    stop, cancelled>>

-----------------------------------------------------------------------------
(* The operation *)

(* finish_operation; or update_operation with a terminal status, whose      *)
(* first lock section writes the record ...                                 *)
Finish(o, result) ==
  IF op[o].temporary
    THEN /\ Goto(o, "done")
         /\ ephOps' = ephOps \ {o}
         /\ UNCHANGED status
    ELSE /\ Goto(o, "closing")
         /\ status' = [status EXCEPT ![o] = result]
         /\ UNCHANGED ephOps

(* Mutant: only a completed operation gives up its token. *)
DropToken_OnlyCompleted(o) ==
  /\ At(o, "closing")
  /\ Goto(o, "done")
  /\ tokens' = IF status[o] = "completed" THEN tokens \ {o} ELSE tokens
  /\ UNCHANGED <<shutdown, sessionVars, durable, status, stop, cancelled, ack>>

(* ... and whose second drops the token. *)
DropToken(o) ==
  /\ At(o, "closing")
  /\ Goto(o, "done")
  /\ tokens' = tokens \ {o}
  /\ UNCHANGED <<shutdown, sessionVars, durable, status, stop, cancelled, ack>>

ClearHistory(o) ==
  /\ At(o, "clearing") /\ op[o].seen # "unread"
  /\ Change(o, <<>>)
  /\ Goto(o, "cleared")
  /\ UNCHANGED <<shutdown, life, session, opIds, ephOps, endIds, status, tokens,
                 stop, cancelled, ack>>

Running(o) ==
  /\ At(o, "spawned")
  /\ Goto(o, "generating")
  /\ status' = IF op[o].temporary THEN status ELSE [status EXCEPT ![o] = "running"]
  /\ UNCHANGED <<shutdown, sessionVars, durable, tokens, stop, cancelled, ack>>

(* The agent loop returns an answer; it goes to the store the operation was *)
(* accepted for, if that still holds the conversation.                      *)
AppendAnswer(o) ==
  LET c == op[o].conv
      answer == [role |-> "assistant", op |-> o]
  IN /\ At(o, "generating")
     /\ IF op[o].temporary
          THEN /\ private' = IF session[c] = "active"
                             THEN [private EXCEPT ![c] = Append(@, answer)] ELSE private
               /\ UNCHANGED durable
          ELSE durable' = [durable EXCEPT ![c] = Append(@, answer)] /\ UNCHANGED private
     /\ Goto(o, "answered")
     /\ UNCHANGED <<shutdown, life, session, opIds, ephOps, endIds, status, tokens,
                    stop, cancelled, ack>>

(* The answer is stored, the agent loop had none, or the history is cleared. *)
Completed(o) ==
  /\ op[o].at \in {"generating", "answered", "cleared"}
  /\ Finish(o, "completed")
  /\ UNCHANGED <<shutdown, life, session, private, opIds, endIds, durable, tokens,
                 stop, cancelled, ack>>

GenerationFails(o) ==
  /\ At(o, "generating")
  /\ Finish(o, "failed")
  /\ UNCHANGED <<shutdown, life, session, private, opIds, endIds, durable, tokens,
                 stop, cancelled, ack>>

GenerationCancelled(o) ==
  /\ At(o, "generating")
  /\ o \in cancelled \/ Past("cancelled")
  /\ Finish(o, "cancelled")
  /\ UNCHANGED <<shutdown, life, session, private, opIds, endIds, durable, tokens,
                 stop, cancelled, ack>>

-----------------------------------------------------------------------------
(* stop_generation *)

(* submit lets the command in; there is no ensure_ready, so that what       *)
(* follows may happen during shutdown.                                      *)
StopGeneration(o) ==
  /\ shutdown = "open"
  /\ stop.at = "none" /\ stop.count < MaxStops
  /\ ~At(o, "idle")
  /\ stop' = [count |-> stop.count + 1, at |-> "submitted", op |-> o]
  /\ UNCHANGED <<shutdown, sessionVars, featureVars, cancelled, op, ack>>

StopIsAt(place) == stop.at = place
StopGoto(place) == stop' = [stop EXCEPT !.at = place]
StopReturns == stop' = [stop EXCEPT !.at = "none", !.op = NoOne]

StopTemporary ==
  /\ StopIsAt("submitted") /\ stop.op \in ephOps
  /\ ephOps' = ephOps \ {stop.op}
  /\ cancelled' = cancelled \cup {stop.op}
  /\ StopReturns
  /\ UNCHANGED <<shutdown, life, session, private, opIds, endIds, featureVars, op, ack>>

(* FeatureState::cancel_operation, which is asked when EphemeralChatState   *)
(* has no such operation: the token is found and cancelled ...              *)
StopDurable ==
  /\ StopIsAt("submitted") /\ stop.op \in tokens \ ephOps
  /\ StopGoto("signalled")
  /\ cancelled' = cancelled \cup {stop.op}
  /\ UNCHANGED <<shutdown, sessionVars, featureVars, op, ack>>

(* Neither knows the operation: the stop is rejected. *)
StopMisses ==
  /\ StopIsAt("submitted") /\ stop.op \notin tokens \cup ephOps
  /\ StopReturns
  /\ UNCHANGED <<shutdown, sessionVars, featureVars, cancelled, op, ack>>

(* Mutant: the record takes the name of the event. *)
StopRecords_Requested ==
  /\ StopIsAt("signalled")
  /\ StopGoto("recorded")
  /\ status' = [status EXCEPT ![stop.op] = "cancel_requested"]
  /\ UNCHANGED <<shutdown, sessionVars, durable, tokens, cancelled, op, ack>>

(* ... the record is updated, whatever the task has done meanwhile ... *)
StopRecords ==
  /\ StopIsAt("signalled")
  /\ StopGoto("recorded")
  /\ status' = [status EXCEPT ![stop.op] = "cancelled"]
  /\ UNCHANGED <<shutdown, sessionVars, durable, tokens, cancelled, op, ack>>

(* ... and the token is dropped. *)
StopDropsToken ==
  /\ StopIsAt("recorded")
  /\ tokens' = tokens \ {stop.op}
  /\ StopReturns
  /\ UNCHANGED <<shutdown, sessionVars, durable, status, cancelled, op, ack>>

-----------------------------------------------------------------------------
(* Temporary Chat sessions *)

BeginTemporaryChat(c) ==
  /\ life[c] = "unborn"
  /\ shutdown = "open"
  /\ life' = [life EXCEPT ![c] = "minting"]
  /\ UNCHANGED <<shutdown, session, private, opIds, ephOps, endIds, featureVars,
                 stop, cancelled, op, ack>>

Begin(c) ==
  /\ life[c] = "minting"
  /\ life' = [life EXCEPT ![c] = "begun"]
  /\ session' = [session EXCEPT ![c] = "active"]
  /\ UNCHANGED <<shutdown, private, opIds, ephOps, endIds, featureVars,
                 stop, cancelled, op, ack>>

(* Mutant: only the operations still registered are returned. *)
End_OnlyActive(c) ==
  LET active == {o \in ephOps : op[o].conv = c}
  IN /\ session[c] = "active"
     /\ session' = [session EXCEPT ![c] = "retired"]
     /\ private' = [private EXCEPT ![c] = <<>>]
     /\ endIds' = [endIds EXCEPT ![c] = active]
     /\ opIds' = [opIds EXCEPT ![c] = {}]
     /\ ephOps' = ephOps \ active
     /\ cancelled' = cancelled \cup active
     /\ UNCHANGED <<shutdown, life, featureVars, stop, op, ack>>

(* EphemeralChatState::end, under the lifecycle lock.  What                 *)
(* end_temporary_chat does next is not state of this module: it forgets the *)
(* acknowledgements kept for repeated submissions, and hands endIds to the  *)
(* bus, whose purge is in EventBus.                                         *)
End(c) ==
  LET active == {o \in ephOps : op[o].conv = c}
  IN /\ session[c] = "active"
     /\ session' = [session EXCEPT ![c] = "retired"]
     /\ private' = [private EXCEPT ![c] = <<>>]
     /\ endIds' = [endIds EXCEPT ![c] = opIds[c] \cup active]
     /\ opIds' = [opIds EXCEPT ![c] = {}]
     /\ ephOps' = ephOps \ active
     /\ cancelled' = cancelled \cup active
     /\ UNCHANGED <<shutdown, life, featureVars, stop, op, ack>>

-----------------------------------------------------------------------------
(* MukeiRuntime::shutdown *)

Close ==
  /\ shutdown = "open"
  /\ shutdown' = "closed"
  /\ UNCHANGED <<sessionVars, featureVars, stop, cancelled, op, ack>>

Stopping ==
  /\ shutdown = "closed"
  /\ shutdown' = "stopping"
  /\ UNCHANGED <<sessionVars, featureVars, stop, cancelled, op, ack>>

CancelAll ==
  /\ shutdown = "stopping"
  /\ shutdown' = "cancelled"
  /\ cancelled' = cancelled \cup tokens
  /\ UNCHANGED <<sessionVars, featureVars, stop, op, ack>>

CancelAllAndClear ==
  /\ shutdown = "cancelled"
  /\ shutdown' = "cleared"
  /\ cancelled' = cancelled \cup ephOps
  /\ ephOps' = {}
  /\ session' = [c \in Convs |-> "absent"]
  /\ private' = [c \in Convs |-> <<>>]
  /\ opIds' = [c \in Convs |-> {}]
  /\ UNCHANGED <<life, endIds, featureVars, stop, op, ack>>

(* The flush (ProjectionWriter) and the settings, then Stopped. *)
Stopped ==
  /\ shutdown = "cleared"
  /\ shutdown' = "stopped"
  /\ UNCHANGED <<sessionVars, featureVars, stop, cancelled, op, ack>>

-----------------------------------------------------------------------------
CommandStep(o) ==
  \/ \E kind \in Kinds, c \in Convs : Submit(o, kind, c)
  \/ EnsureReady(o) \/ CheckRetired(o) \/ ReadSession(o)
  \/ RecoverChat(o) \/ RemoveLastAssistant(o)
  \/ ChooseLoop(o) \/ StartRejected(o) \/ CheckHistory(o) \/ AppendUser(o)
  \/ AcceptRetired(o) \/ AcceptDurable(o) \/ RegisterToken(o) \/ CreateOperation(o)
  \/ ClearHistory(o)

TaskStep(o) ==
  \/ Running(o) \/ AppendAnswer(o) \/ Completed(o)
  \/ GenerationFails(o) \/ GenerationCancelled(o) \/ DropToken(o)

StopStep ==
  \/ \E o \in Ops : StopGeneration(o)
  \/ StopTemporary \/ StopDurable \/ StopMisses \/ StopRecords \/ StopDropsToken

SessionStep(c) ==
  \/ BeginTemporaryChat(c) \/ Begin(c) \/ End(c)

ShutdownStep ==
  Close \/ Stopping \/ CancelAll \/ CancelAllAndClear \/ Stopped

Next ==
  \/ \E o \in Ops : CommandStep(o) \/ TaskStep(o)
  \/ \E c \in Temp : SessionStep(c)
  \/ StopStep \/ ShutdownStep

Spec == Init /\ [][Next]_vars

-----------------------------------------------------------------------------
Places == {"idle", "submitted", "clear", "recover", "lastUser", "remove", "start", "loop",
           "check", "append", "accept", "token", "spawned", "generating", "answered",
           "clearing", "cleared", "closing", "done"}

(* Every variable has its type; only minted conversations have sessions. *)
TypeOK ==
  /\ \E i \in 1..6 : shutdown = Phases[i]
  /\ life \in [Temp -> {"unborn", "minting", "begun"}]
  /\ session \in [Convs -> {"absent", "active", "retired"}]
  /\ \A c \in Durable : session[c] = "absent"
  /\ private \in [Convs -> Seq(Message)]
  /\ opIds \in [Convs -> SUBSET Ops]
  /\ ephOps \subseteq Ops
  /\ endIds \in [Convs -> SUBSET Ops]
  /\ durable \in [Convs -> Seq(Message)]
  /\ status \in [Ops -> {"none", "accepted", "running"} \cup Terminal]
  /\ tokens \subseteq Ops
  /\ stop \in [count : 0..MaxStops, at : {"none", "submitted", "signalled", "recorded"},
              op : Ops \cup {NoOne}]
  /\ cancelled \subseteq Ops
  /\ op \in [Ops -> [at : Places, kind : Kinds, conv : Convs \cup {NoOne},
                     user : Ops \cup {NoOne}, seen : {"unread", "absent", "active", "retired"},
                     temporary : BOOLEAN, isolated : BOOLEAN]]
  /\ ack \in [Ops -> {"none", "accepted", "rejected"}]

(* "Messages and operation tokens held here are therefore structurally      *)
(* excluded from durable projection writes" (ephemeral_chat.rs:3), tested   *)
(* as temporary_chat_content_never_enters_durable_conversation_projection   *)
(* and ended_temporary_chat_scope_cannot_fall_through_to_durable_chat: no   *)
(* message of a Temporary Chat is in the conversations that are persisted.  *)
TemporaryNeverDurable == \A c \in Temp : durable[c] = <<>>

(* What holds of it: until shutdown has cleared the sessions, a session     *)
(* that ends between the reading of its state and the change that follows   *)
(* lets neither a message nor an operation record through, whatever         *)
(* commands, tasks and stops interleave.                                    *)
PrivateUntilCleared ==
  ~Past("cleared") => /\ TemporaryNeverDurable
                      /\ \A o \in Ops : op[o].conv \in Temp => status[o] = "none"

(* end() "return[s] every operation ID ever associated with" the session,   *)
(* and every generation of it still to run has been told to stop.           *)
EndReachesEveryOperation ==
  \A o \in Ops :
    (ack[o] = "accepted" /\ op[o].temporary /\ session[op[o].conv] = "retired") =>
      /\ o \in endIds[op[o].conv]
      /\ op[o].at \in {"spawned", "generating"} => o \in cancelled

(* An operation accepted for a Temporary Chat runs on the isolated agent    *)
(* loop, without retrieval: the loop is chosen before the operation is      *)
(* accepted, by another reading of the session.                             *)
TemporaryRunsIsolated ==
  \A o \in Ops : (op[o].temporary /\ op[o].kind # "clear") => op[o].isolated

(* A command that is rejected leaves no message of its own behind, although *)
(* start_chat_operation appends before it accepts: the end of the session   *)
(* that makes the acceptance fail has taken the message away, or made the   *)
(* append miss.  (Once shutdown has cleared the sessions a concurrent       *)
(* resume_generation that has read the message may append it again,         *)
(* durably.)                                                                *)
RejectedLeavesNoMessage ==
  ~Past("cleared") =>
    \A o \in Ops : ack[o] = "rejected" =>
      \A c \in Convs : /\ \A i \in DOMAIN private[c] : private[c][i].op # o
                       /\ \A i \in DOMAIN durable[c] : durable[c][i].op # o

(* An operation that is over has left no cancellation token in either       *)
(* table, and its durable record, if it has one, shows it as over, however  *)
(* stop_generation, end(), shutdown and the task have raced.  (A late stop  *)
(* may still replace one terminal status by another.)                       *)
FinishedIsTerminal ==
  \A o \in Ops : op[o].at = "done" =>
    /\ o \notin tokens \cup ephOps
    /\ (ack[o] = "accepted" /\ ~op[o].temporary) => status[o] \in Terminal
=============================================================================
