---------------------------- MODULE BackendSlot ----------------------------
(***************************************************************************)
(* What ModelActivationService promises of the backend that serves         *)
(* inference turns (mukei-core/src/engine/activation.rs, lines 1-11): the  *)
(* slot holds at most one backend, only the one explicit deactivation      *)
(* empties it, and every change of it belongs to a later generation than   *)
(* the change before.  A load that was started before the last             *)
(* installation or removal can no longer reach the slot.                   *)
(***************************************************************************)
EXTENDS Naturals

CONSTANTS Models, None

VARIABLES
    served,   \* the model whose backend serves turns, or None
    epoch,    \* the generation of the last change of served
    open      \* shutdown has not deactivated the service yet

slotVars == <<served, epoch, open>>

Init == served = None /\ epoch = 0 /\ open = TRUE

Later == epoch' \in Nat /\ epoch' > epoch

\* A backend that finished loading takes the slot, evicting its predecessor.
Install == served' \in Models /\ Later /\ UNCHANGED open

\* Explicit deactivation empties the slot.
Remove == open = TRUE /\ open' = FALSE /\ served' = None /\ Later

Next == Install \/ Remove

Spec == Init /\ [][Next]_slotVars

=============================================================================
