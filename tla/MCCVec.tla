------------------------------- MODULE MCCVec -------------------------------
(***************************************************************************)
(* CVec for TLC: two C structs, a few blocks and elements.                 *)
(***************************************************************************)
EXTENDS CVec, TLC

\* Blocks and elements are interchangeable; structs are not.
Symmetry == Permutations(Block) \cup Permutations(Elem)
=============================================================================
