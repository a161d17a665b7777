----------------------------- MODULE MCChannel -----------------------------
(* Channel for TLC: the hosts are interchangeable.                          *)
EXTENDS Channel, TLC

Symmetry == Permutations(Hosts)

=============================================================================
