-------------------------- MODULE MCModelCommands --------------------------
(* Two selections and a deletion, cancelled or shut down at any point.      *)
(* Models and selections are interchangeable.                               *)
EXTENDS ModelCommands, TLC

Symmetry == Permutations(Models) \cup Permutations(Ops)

=============================================================================
