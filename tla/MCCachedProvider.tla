-------------------------- MODULE MCCachedProvider --------------------------
(* CachedProvider for TLC: callers and identities are interchangeable.  Only
   runs of safety properties use the symmetry. *)
EXTENDS CachedProvider, TLC

Symmetry == Permutations(Callers) \cup Permutations(Identities)
=============================================================================
