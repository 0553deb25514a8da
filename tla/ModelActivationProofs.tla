----------------------- MODULE ModelActivationProofs -----------------------
(***************************************************************************)
(* Proofs about ModelActivation for any models and any number of           *)
(* overlapping selections.                                                 *)
(***************************************************************************)
EXTENDS ModelActivation, TLAPS

\* Generations are tickets: no two tasks, and no task and the deactivation
\* in progress, hold the same one; a load has not changed the slot yet.
TicketsDistinct ==
    /\ \A o, p \in Ops : ticket[o] = ticket[p] /\ ticket[o] # 0 => o = p
    /\ \A o \in Ops : pc[o] = "new" <=> ticket[o] = 0
    /\ closing = "removed" =>
          closeWith.gen # 0 /\ \A o \in Ops : ticket[o] # closeWith.gen
    /\ \A o \in Ops : pc[o] = "loading" => ticket[o] # slotGen

\* The candidate side only holds what a selection verified.
CandidateSide ==
    /\ verified # None => verified \in hashed /\ selected = verified
    /\ \A o \in Ops : pc[o] # "new" => model[o] \in Models

\* The inductive invariant.
IInv == /\ TypeOK /\ TicketsDistinct /\ CandidateSide
        /\ ReadyIsServed /\ ServedWasHashed /\ CurrentLoadIsCandidate

LEMMA InitInv == Init => IInv
  BY ModelAssumption DEF Init, IInv, TypeOK, TicketsDistinct, CandidateSide,
     ReadyIsServed, ServedWasHashed, CurrentLoadIsCandidate, NoModelSelected,
     Optional, Tags, Pcs

\* Every step of a task and of shutdown preserves the invariant.
LEMMA StepInv == IInv /\ [Next]_vars => IInv'
<1> SUFFICES ASSUME IInv, [Next]_vars PROVE IInv'
  OBVIOUS
<1> USE ModelAssumption DEF IInv
<1>1. ASSUME NEW o \in Ops, NEW m \in Models, BeginVerification(o, m)
      PROVE  IInv'
  <2> USE <1>1 DEF BeginVerification, NextGeneration, closeVars, State
  <2>1. TypeOK'
    BY DEF TypeOK, Tags, Pcs, Optional
  <2>2. TicketsDistinct' /\ CandidateSide'
    BY DEF TypeOK, TicketsDistinct, CandidateSide, Optional
  <2>3. ReadyIsServed' /\ ServedWasHashed'
    BY DEF TypeOK, ReadyIsServed, ServedWasHashed
  <2>4. CurrentLoadIsCandidate'
    BY DEF TypeOK, CurrentLoadIsCandidate
  <2> QED BY <2>1, <2>2, <2>3, <2>4
<1>2. ASSUME NEW o \in Ops, GiveUp(o) PROVE IInv'
  <2> USE <1>2 DEF GiveUp, closeVars, serviceVars
  <2>1. TypeOK'
    BY DEF TypeOK, Pcs
  <2>2. TicketsDistinct' /\ CandidateSide'
    BY DEF TypeOK, TicketsDistinct, CandidateSide
  <2>3. ReadyIsServed' /\ ServedWasHashed' /\ CurrentLoadIsCandidate'
    BY DEF TypeOK, ReadyIsServed, ServedWasHashed, CurrentLoadIsCandidate, State
  <2> QED BY <2>1, <2>2, <2>3
<1>3. ASSUME NEW o \in Ops, MarkVerificationFailed(o) PROVE IInv'
  <2> USE <1>3 DEF MarkVerificationFailed, closeVars, State
  <2>1. TypeOK'
    BY DEF TypeOK, Tags, Pcs, Optional
  <2>2. TicketsDistinct' /\ CandidateSide'
    BY DEF TypeOK, TicketsDistinct, CandidateSide
  <2>3. ReadyIsServed' /\ ServedWasHashed'
    BY DEF TypeOK, ReadyIsServed, ServedWasHashed
  <2>4. CurrentLoadIsCandidate'
    BY DEF TypeOK, TicketsDistinct, CurrentLoadIsCandidate
  <2> QED BY <2>1, <2>2, <2>3, <2>4
<1>4. ASSUME NEW o \in Ops, MarkVerified(o) PROVE IInv'
  <2> USE <1>4 DEF MarkVerified, closeVars, State
  <2>1. TypeOK'
    BY DEF TypeOK, CandidateSide, Tags, Pcs, Optional
  <2>2. TicketsDistinct' /\ CandidateSide'
    BY DEF TypeOK, TicketsDistinct, CandidateSide
  <2>3. ReadyIsServed' /\ ServedWasHashed'
    BY DEF TypeOK, ReadyIsServed, ServedWasHashed
  <2>4. CurrentLoadIsCandidate'
    BY DEF TypeOK, TicketsDistinct, CurrentLoadIsCandidate
  <2> QED BY <2>1, <2>2, <2>3, <2>4
<1>5. ASSUME NEW o \in Ops, StartActivation(o) PROVE IInv'
  <2> USE <1>5 DEF StartActivation, NextGeneration, closeVars, State
  <2>1. TypeOK'
    BY DEF TypeOK, Tags, Pcs, Optional
  <2>2. TicketsDistinct' /\ CandidateSide'
    BY DEF TypeOK, TicketsDistinct, CandidateSide
  <2>3. ReadyIsServed' /\ ServedWasHashed'
    BY DEF TypeOK, CandidateSide, ReadyIsServed, ServedWasHashed
  <2>4. CurrentLoadIsCandidate'
    BY DEF TypeOK, TicketsDistinct, CurrentLoadIsCandidate
  <2> QED BY <2>1, <2>2, <2>3, <2>4
<1>6. ASSUME NEW o \in Ops, ActivationFails(o) PROVE IInv'
  <2> USE <1>6 DEF ActivationFails, CommitActivationFailure, closeVars, State
  <2>1. TypeOK'
    BY DEF TypeOK, Tags, Pcs, Optional
  <2>2. TicketsDistinct' /\ CandidateSide'
    BY DEF TypeOK, TicketsDistinct, CandidateSide
  <2>3. ReadyIsServed' /\ ServedWasHashed'
    BY DEF TypeOK, ReadyIsServed, ServedWasHashed
  <2>4. CurrentLoadIsCandidate'
    BY DEF TypeOK, TicketsDistinct, CurrentLoadIsCandidate
  <2> QED BY <2>1, <2>2, <2>3, <2>4
<1>7. ASSUME NEW o \in Ops, CommitActivation(o) PROVE IInv'
  <2> USE <1>7 DEF CommitActivation, closeVars, State
  <2>1. TypeOK'
    BY DEF TypeOK, Tags, Pcs, Optional
  <2>2. TicketsDistinct' /\ CandidateSide'
    BY DEF TypeOK, TicketsDistinct, CandidateSide
  <2>3. ReadyIsServed' /\ ServedWasHashed'
    BY DEF TypeOK, CandidateSide, ReadyIsServed, ServedWasHashed
  <2>4. CurrentLoadIsCandidate'
    BY DEF TypeOK, TicketsDistinct, CurrentLoadIsCandidate
  <2> QED BY <2>1, <2>2, <2>3, <2>4
<1>8. ASSUME Deactivate PROVE IInv'
  <2> USE <1>8 DEF Deactivate, NextGeneration, taskVars, State, NoModelSelected
  <2>1. TypeOK'
    BY DEF TypeOK, Tags, Pcs, Optional
  <2>2. TicketsDistinct' /\ CandidateSide'
    BY DEF TypeOK, TicketsDistinct, CandidateSide
  <2>3. ReadyIsServed' /\ ServedWasHashed' /\ CurrentLoadIsCandidate'
    BY DEF TypeOK, ReadyIsServed, ServedWasHashed, CurrentLoadIsCandidate
  <2> QED BY <2>1, <2>2, <2>3
<1>9. ASSUME FinishDeactivate PROVE IInv'
  <2> USE <1>9 DEF FinishDeactivate, taskVars, State, NoModelSelected
  <2>1. TypeOK'
    BY DEF TypeOK, Tags, Pcs, Optional
  <2>2. TicketsDistinct' /\ CandidateSide'
    BY DEF TypeOK, TicketsDistinct, CandidateSide
  <2>3. ReadyIsServed' /\ ServedWasHashed' /\ CurrentLoadIsCandidate'
    BY DEF TypeOK, TicketsDistinct, ReadyIsServed, ServedWasHashed,
           CurrentLoadIsCandidate
  <2> QED BY <2>1, <2>2, <2>3
<1>10. CASE UNCHANGED vars
  BY <1>10 DEF vars, TypeOK, TicketsDistinct, CandidateSide, ReadyIsServed,
     ServedWasHashed, CurrentLoadIsCandidate, State
<1> QED
  BY <1>1, <1>2, <1>3, <1>4, <1>5, <1>6, <1>7, <1>8, <1>9, <1>10
  DEF Next, TaskStep

\* The state that readiness_snapshot publishes, the slot and the candidate
\* side agree in every reachable state, and only verified artifacts serve.
THEOREM ActivationSafety ==
    Spec => [](TypeOK /\ ReadyIsServed /\ ServedWasHashed /\ CurrentLoadIsCandidate)
<1>1. IInv => TypeOK /\ ReadyIsServed /\ ServedWasHashed /\ CurrentLoadIsCandidate
  BY DEF IInv
<1> QED BY InitInv, StepInv, <1>1, PTL DEF Spec

\* activation.rs implements the generation-fenced backend slot: an older load
\* never replaces a newer backend and never undoes a deactivation.
THEOREM ActivationRefinesSlot == Spec => SlotSpec
<1>1. Init => Slot!Init
  BY DEF Init, Slot!Init
<1>2. IInv /\ [Next]_vars => [Slot!Next]_(Slot!slotVars)
  <2> SUFFICES ASSUME IInv, [Next]_vars PROVE [Slot!Next]_(Slot!slotVars)
    OBVIOUS
  <2> USE DEF IInv, Slot!slotVars
  <2>1. ASSUME NEW o \in Ops, CommitActivation(o)
        PROVE  [Slot!Next]_(Slot!slotVars)
    BY <2>1, ModelAssumption
       DEF CommitActivation, closeVars, TypeOK, TicketsDistinct, ServedWasHashed,
           Slot!Next, Slot!Install, Slot!Later
  <2>2. ASSUME Deactivate PROVE Slot!Next
    BY <2>2 DEF Deactivate, NextGeneration, TypeOK, Slot!Next, Slot!Remove,
                Slot!Later
  <2>3. ASSUME active' = active, slotGen' = slotGen,
               (closing = "open")' = (closing = "open")
        PROVE  [Slot!Next]_(Slot!slotVars)
    BY <2>3
  <2> QED
    BY <2>1, <2>2, <2>3 DEF Next, TaskStep, BeginVerification, GiveUp,
       MarkVerificationFailed, MarkVerified, StartActivation, ActivationFails,
       FinishDeactivate, serviceVars, closeVars, vars
<1> QED BY InitInv, StepInv, <1>1, <1>2, PTL DEF Spec, SlotSpec, Slot!Spec

=============================================================================
