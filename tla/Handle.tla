------------------------------- MODULE Handle -------------------------------
(***************************************************************************)
(* Handle<T> (src/src/handle.rs): the usize token an OpaqueTracker gives   *)
(* to C.  The low half of the word is a slot index, the high half the      *)
(* generation of the slot.  Half stands for 1 << HALF_BITS, so usize has   *)
(* Half * Half values.  Nothing below needs Half to be a power of two: the *)
(* `|` of Handle::new joins two disjoint halves and is a sum.              *)
(***************************************************************************)
EXTENDS Naturals

CONSTANT Half       \* 1 << HALF_BITS: 2^32 on a 64-bit target

ASSUME HalfAssumption == Half \in Nat /\ Half >= 2

Usize == 0 .. (Half * Half - 1)

MAX_INDEX == Half - 1
MAX_GENERATION == Half - 1

\* Handle::new: `(generation << HALF_BITS) | index`.  A shift drops the bits
\* above the word, so a generation beyond MAX_GENERATION would wrap to 0.
New(index, generation) == ((generation * Half) % (Half * Half)) + index

\* Handle::index and Handle::generation: the mask and the shift back.
Index(id) == id % Half
Generation(id) == id \div Half

\* Handle::null
Null == 0
=============================================================================
