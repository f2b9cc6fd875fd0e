--------------------------- MODULE MCServerReload ---------------------------
(* ServerReload for TLC. *)
EXTENDS ServerReload, TLC

(* Requests are interchangeable. *)
Symmetry == Permutations(Requests)
=============================================================================
