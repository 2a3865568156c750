---------------------------- MODULE MCCLikeAlloc ----------------------------
(***************************************************************************)
(* CLikeAlloc for TLC: two slots, two allocators, and a heap of two         *)
(* addresses.                                                              *)
(***************************************************************************)
EXTENDS CLikeAlloc, TLC

\* Addresses, slots and allocators are interchangeable.
Symmetry == Permutations(Addr) \cup Permutations(Slot) \cup Permutations(Alloc)
=============================================================================
