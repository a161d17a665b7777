----------------------------- MODULE MCChatRun -----------------------------
(* ChatRun for TLC: requests are interchangeable.                           *)
EXTENDS ChatRun, TLC

Symmetry == Permutations(Requests)

=============================================================================
