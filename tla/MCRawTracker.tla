---------------------------- MODULE MCRawTracker ----------------------------
(***************************************************************************)
(* RawTracker for TLC: a few objects and addresses.                        *)
(***************************************************************************)
EXTENDS RawTracker, TLC

\* The objects are interchangeable; the addresses are not, as one of them is
\* where objects of no size are.
Symmetry == Permutations(Box)
=============================================================================
