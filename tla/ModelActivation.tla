-------------------------- MODULE ModelActivation --------------------------
(***************************************************************************)
(* The model activation service (mukei-core/src/engine/activation.rs) and  *)
(* the calls that the tasks of select_model make on it                     *)
(* (application_runtime/models_select.rs), with the deactivation that      *)
(* shutdown performs.                                                      *)
(*                                                                         *)
(* Every action is one critical section of ActivationInner's RwLock; the   *)
(* lock is free between them, so verification (a hash of the file) and     *)
(* the backend factory run while other tasks change the state.             *)
(*                                                                         *)
(* select_model takes the revision and the artifact id from the registry   *)
(* entry of the model, so a descriptor is represented by its model.        *)
(* AtomicU64 is not wrapped: a session makes two increments per selection. *)
(***************************************************************************)
EXTENDS Naturals

CONSTANTS Models,   \* model ids of the registry
          Ops,      \* select_model operations, each running once
          None      \* Option::None

ASSUME ModelAssumption == None \notin Models

VARIABLES
    generation,  \* ModelActivationService.generation
    selected,    \* ActivationInner.selected
    verified,    \* ActivationInner.verified
    state,       \* ActivationInner.state: variant, model and generation
    active,      \* ActivationInner.active
    pc,          \* where the task of each selection is
    model,       \* the model each selection is for
    ticket,      \* the generation the task holds
    candidate,   \* the descriptor that activate_verified is loading
    closing,     \* shutdown's call of deactivate
    closeWith,   \* what deactivate captured in its first critical section
    slotGen,     \* ghost: the generation of the last change of active
    hashed       \* ghost: the models whose artifact passed verification

serviceVars == <<generation, selected, verified, state, active>>
taskVars    == <<pc, model, ticket, candidate>>
closeVars   == <<closing, closeWith>>
vars == <<generation, selected, verified, state, active, pc, model, ticket,
          candidate, closing, closeWith, slotGen, hashed>>

Tags == {"NoModelSelected", "ModelMissing", "ModelVerifying", "ModelVerified",
         "Activating", "Ready", "ActivationFailed", "Deactivating"}
Pcs  == {"new", "verifying", "verified", "loading", "ready", "failed", "stale",
         "cancelled"}

Optional == Models \cup {None}
NoModelSelected == [tag |-> "NoModelSelected", model |-> None, gen |-> 0]
State(tag, m, g) == [tag |-> tag, model |-> m, gen |-> g]

Init ==
    /\ generation = 0
    /\ selected = None /\ verified = None /\ active = None
    /\ state = NoModelSelected
    /\ pc = [o \in Ops |-> "new"]
    /\ model = [o \in Ops |-> None]
    /\ ticket = [o \in Ops |-> 0]
    /\ candidate = [o \in Ops |-> None]
    /\ closing = "open"
    /\ closeWith = [gen |-> 0, selected |-> None, verified |-> None]
    /\ slotGen = 0
    /\ hashed = {}

NextGeneration == generation + 1

(***************************************************************************)
(* The steps of a selection.                                               *)
(***************************************************************************)

\* begin_verification: the candidate side starts over; active keeps serving.
BeginVerification(o, m) ==
    /\ pc[o] = "new"
    /\ generation' = NextGeneration
    /\ selected' = m
    /\ verified' = None
    /\ state' = State("ModelVerifying", m, NextGeneration)
    /\ pc' = [pc EXCEPT ![o] = "verifying"]
    /\ model' = [model EXCEPT ![o] = m]
    /\ ticket' = [ticket EXCEPT ![o] = NextGeneration]
    /\ UNCHANGED <<active, candidate, closeVars, slotGen, hashed>>

\* The token was cancelled while the file was hashed, or the blocking hash
\* task itself failed: the task returns without telling the service.
GiveUp(o) ==
    /\ pc[o] = "verifying"
    /\ pc' = [pc EXCEPT ![o] = "cancelled"]
    /\ UNCHANGED <<serviceVars, model, ticket, candidate, closeVars, slotGen,
                   hashed>>

\* Mutant: a hash mismatch is treated like a match.
MarkVerificationFailed_Ignored(o) ==
    /\ pc[o] = "verifying"
    /\ generation = ticket[o] /\ selected = model[o]
    /\ verified' = model[o]
    /\ state' = State("ModelVerified", model[o], ticket[o])
    /\ pc' = [pc EXCEPT ![o] = "verified"]
    /\ UNCHANGED <<generation, selected, active, model, ticket, candidate,
                   closeVars, slotGen, hashed>>

\* mark_verification_failed: recorded only while this very verification is
\* the current one; the task fails either way.
MarkVerificationFailed(o) ==
    /\ pc[o] = "verifying"
    /\ IF /\ generation = ticket[o]
          /\ selected = model[o]
          /\ state = State("ModelVerifying", model[o], ticket[o])
         THEN /\ verified' = None
              /\ state' = State("ActivationFailed", model[o], ticket[o])
         ELSE UNCHANGED <<verified, state>>
    /\ pc' = [pc EXCEPT ![o] = "failed"]
    /\ UNCHANGED <<generation, selected, active, model, ticket, candidate,
                   closeVars, slotGen, hashed>>

\* mark_verified: a hash that is no longer for the current selection is stale.
MarkVerified(o) ==
    /\ pc[o] = "verifying"
    /\ hashed' = hashed \cup {model[o]}
    /\ IF generation = ticket[o] /\ selected = model[o]
         THEN /\ verified' = model[o]
              /\ state' = State("ModelVerified", model[o], ticket[o])
              /\ pc' = [pc EXCEPT ![o] = "verified"]
         ELSE /\ pc' = [pc EXCEPT ![o] = "stale"]
              /\ UNCHANGED <<verified, state>>
    /\ UNCHANGED <<generation, selected, active, model, ticket, candidate,
                   closeVars, slotGen>>

\* activate_verified, first critical section.  The descriptor is the one
\* that is verified NOW, whoever verified it.
StartActivation(o) ==
    /\ pc[o] = "verified"
    /\ IF verified = None
         THEN /\ pc' = [pc EXCEPT ![o] = "failed"]
              /\ UNCHANGED <<generation, state, ticket, candidate>>
         ELSE IF selected # verified
         THEN /\ pc' = [pc EXCEPT ![o] = "stale"]
              /\ UNCHANGED <<generation, state, ticket, candidate>>
         ELSE /\ generation' = NextGeneration
              /\ state' = State("Activating", verified, NextGeneration)
              /\ pc' = [pc EXCEPT ![o] = "loading"]
              /\ ticket' = [ticket EXCEPT ![o] = NextGeneration]
              /\ candidate' = [candidate EXCEPT ![o] = verified]
    /\ UNCHANGED <<selected, verified, active, model, closeVars, slotGen, hashed>>

\* commit_activation_failure: recorded only while the load is current.
CommitActivationFailure(o) ==
    IF generation = ticket[o] /\ selected = candidate[o]
      THEN /\ state' = State("ActivationFailed", candidate[o], ticket[o])
           /\ pc' = [pc EXCEPT ![o] = "failed"]
      ELSE /\ pc' = [pc EXCEPT ![o] = "stale"]
           /\ UNCHANGED state

\* The factory returned an error, panicked, or built an unavailable backend;
\* active is left alone.
ActivationFails(o) ==
    /\ pc[o] = "loading"
    /\ CommitActivationFailure(o)
    /\ UNCHANGED <<generation, selected, verified, active, model, ticket,
                   candidate, closeVars, slotGen, hashed>>

\* Mutant: the commit compares models but not the generation.
CommitActivation_NoFence(o) ==
    /\ pc[o] = "loading"
    /\ IF selected = candidate[o] /\ verified = candidate[o]
         THEN /\ active' = candidate[o]
              /\ state' = State("Ready", candidate[o], ticket[o])
              /\ slotGen' = ticket[o]
              /\ pc' = [pc EXCEPT ![o] = "ready"]
         ELSE /\ pc' = [pc EXCEPT ![o] = "stale"]
              /\ UNCHANGED <<active, state, slotGen>>
    /\ UNCHANGED <<generation, selected, verified, model, ticket, candidate,
                   closeVars, hashed>>

\* activate_verified, last critical section: the backend is swapped and Ready
\* published together, if the load is still the current generation.
CommitActivation(o) ==
    /\ pc[o] = "loading"
    /\ IF /\ generation = ticket[o]
          /\ selected = candidate[o]
          /\ verified = candidate[o]
         THEN /\ active' = candidate[o]
              /\ state' = State("Ready", candidate[o], ticket[o])
              /\ slotGen' = ticket[o]
              /\ pc' = [pc EXCEPT ![o] = "ready"]
         ELSE /\ pc' = [pc EXCEPT ![o] = "stale"]
              /\ UNCHANGED <<active, state, slotGen>>
    /\ UNCHANGED <<generation, selected, verified, model, ticket, candidate,
                   closeVars, hashed>>

(***************************************************************************)
(* deactivate, called once by shutdown.                                    *)
(***************************************************************************)

\* Mutant: the backend is taken without publishing a new state.
Deactivate_KeepsState ==
    /\ closing = "open"
    /\ closing' = "removed"
    /\ generation' = NextGeneration
    /\ closeWith' = [gen |-> NextGeneration, selected |-> selected,
                     verified |-> verified]
    /\ active' = None
    /\ slotGen' = NextGeneration
    /\ UNCHANGED <<selected, verified, state, taskVars, hashed>>

\* First critical section: the backend leaves the slot.
Deactivate ==
    /\ closing = "open"
    /\ closing' = "removed"
    /\ generation' = NextGeneration
    /\ closeWith' = [gen |-> NextGeneration, selected |-> selected,
                     verified |-> verified]
    /\ state' = IF active # None
                  THEN State("Deactivating", active, NextGeneration)
                  ELSE NoModelSelected
    /\ active' = None
    /\ slotGen' = NextGeneration
    /\ UNCHANGED <<selected, verified, taskVars, hashed>>

\* Second critical section, after the retired backend was disposed of: the
\* state that the captured selection implies, unless a task moved on.
FinishDeactivate ==
    /\ closing = "removed"
    /\ closing' = "closed"
    /\ state' = IF generation # closeWith.gen THEN state
                ELSE IF /\ closeWith.selected # None
                        /\ closeWith.verified = closeWith.selected
                THEN State("ModelVerified", closeWith.selected, closeWith.gen)
                ELSE IF closeWith.selected # None /\ closeWith.verified = None
                THEN State("ModelMissing", closeWith.selected, closeWith.gen)
                ELSE NoModelSelected
    /\ UNCHANGED <<generation, selected, verified, active, taskVars, closeWith,
                   slotGen, hashed>>

TaskStep(o) ==
    \/ GiveUp(o) \/ MarkVerificationFailed(o) \/ MarkVerified(o)
    \/ StartActivation(o) \/ ActivationFails(o) \/ CommitActivation(o)

Next ==
    \/ \E o \in Ops : TaskStep(o) \/ \E m \in Models : BeginVerification(o, m)
    \/ Deactivate \/ FinishDeactivate

Spec == Init /\ [][Next]_vars

-----------------------------------------------------------------------------
(***************************************************************************)
(* Properties                                                              *)
(***************************************************************************)

\* Every variable keeps its type, and no task holds a generation that the
\* counter has not handed out.
TypeOK ==
    /\ generation \in Nat
    /\ selected \in Optional /\ verified \in Optional /\ active \in Optional
    /\ state \in [tag : Tags, model : Optional, gen : 0..generation]
    /\ pc \in [Ops -> Pcs]
    /\ model \in [Ops -> Optional]
    /\ ticket \in [Ops -> 0..generation]
    /\ candidate \in [Ops -> Optional]
    /\ closing \in {"open", "removed", "closed"}
    /\ closeWith \in [gen : 0..generation, selected : Optional, verified : Optional]
    /\ slotGen \in 0..generation
    /\ hashed \in SUBSET Models

\* What readiness_snapshot publishes is true: Ready(m) is published only
\* while the backend of m is in the slot, and m is still the selected and
\* verified model.  In particular no second critical section of deactivate
\* and no late failure can leave Ready behind without a backend.
ReadyIsServed ==
    state.tag = "Ready" =>
        /\ active = state.model /\ active # None
        /\ selected = active /\ verified = active
        /\ state.gen = slotGen

\* Only an artifact that passed its SHA-256 check ever serves turns or is
\* handed to the backend factory, however selections overlap.
ServedWasHashed ==
    /\ active # None => active \in hashed
    /\ \A o \in Ops : pc[o] = "loading" => candidate[o] \in hashed

\* A load that can still commit (its ticket is the current generation) is of
\* the model that is selected and verified, and its load is what the state
\* shows; there is at most one.  So the checks still_selected and
\* still_verified never decide: the generation fence alone is enough.
CurrentLoadIsCandidate ==
    \A o \in Ops : pc[o] = "loading" /\ ticket[o] = generation =>
        /\ candidate[o] = selected /\ candidate[o] = verified
        /\ state = State("Activating", candidate[o], generation)
        /\ \A p \in Ops : pc[p] = "loading" /\ ticket[p] = generation => p = o

\* The abstract slot, read off the service's state.
Slot == INSTANCE BackendSlot
          WITH served <- active, epoch <- slotGen, open <- (closing = "open")

\* The service implements the single backend slot: no failed or superseded
\* replacement evicts the serving backend, and the slot changes only with a
\* later generation, so neither an older load nor a load started before
\* deactivate ever reaches it.
SlotSpec == Slot!Spec

=============================================================================
