--------------------------- MODULE MCOpaqueTracker --------------------------
(***************************************************************************)
(* OpaqueTracker for TLC: a word of Half * Half values, and a few objects. *)
(***************************************************************************)
EXTENDS OpaqueTracker, TLC

\* The objects are interchangeable.
Symmetry == Permutations(Box)
=============================================================================
