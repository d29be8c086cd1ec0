---------------------------- MODULE MCDrawMirror ----------------------------
(* DrawMirror with clients and buffers that are interchangeable. *)
EXTENDS DrawMirror, TLC

Symmetry == Permutations(Client) \cup Permutations(VtxBuffer) \cup Permutations(CmdBuffer)
=============================================================================
