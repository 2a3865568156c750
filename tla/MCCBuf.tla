------------------------------- MODULE MCCBuf -------------------------------
(***************************************************************************)
(* CBuf for TLC: a few fields, calls and blocks.                           *)
(***************************************************************************)
EXTENDS CBuf, TLC

\* A signed type of three bits.
MCLenType == [min |-> -4, max |-> 3]

\* Blocks, values, calls, and the places of one kind, are interchangeable.
Symmetry ==
  Permutations(Block) \cup Permutations(Val) \cup Permutations(Call) \cup Permutations(Field)
=============================================================================
