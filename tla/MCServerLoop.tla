---------------------------- MODULE MCServerLoop ----------------------------
(* Small instances of ServerLoop: connections are interchangeable. *)
EXTENDS ServerLoop, TLC

Symmetry == Permutations(Client)
=============================================================================
