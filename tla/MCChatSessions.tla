--------------------------- MODULE MCChatSessions ---------------------------
(* Two commands, which are interchangeable, on a durable conversation and a  *)
(* Temporary Chat.                                                           *)
EXTENDS ChatSessions, TLC

Symmetry == Permutations(Ops)

=============================================================================
