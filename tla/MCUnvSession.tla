---------------------------- MODULE MCUnvSession ----------------------------
(* UnvSession on small instances: two client processes, which TLC may swap. *)
EXTENDS UnvSession, TLC

ClientSymmetry == Permutations(Clients)
=============================================================================
