----------------------------- MODULE Allocator ------------------------------
(***************************************************************************)
(* What an Allocator is to the Rust code that uses it (the contract that   *)
(* the comment above impl Allocator for CLikeAlloc, src/src/alloc.rs,      *)
(* recalls): every block is memory of its own, of the size and alignment   *)
(* asked for, until it is deallocated or moved.  Nothing is said of        *)
(* addresses or of C: CLikeAlloc is shown to implement this module.        *)
(***************************************************************************)
EXTENDS Naturals, Sequences

CONSTANTS
  Slot,         \* the places where Rust code keeps a block
  Layout,       \* the layouts it asks for: records of a size and an alignment
  Byte,         \* the values of a byte, 0 among them
  Junk,         \* the value of a byte nobody has written
  None          \* no block

VARIABLES
  mem,          \* the block in each slot: its layout and its bytes
  reply         \* the last call, and whether it was answered Ok

vars == <<mem, reply>>

Bytes(n) == [1 .. n -> Byte \cup {Junk}]
Answer(op, ok) == [op |-> op, ok |-> ok]

Init ==
  /\ mem = [s \in Slot |-> None]
  /\ reply = Answer("none", TRUE)

Allocate(s, layout) ==
  /\ reply' = Answer("allocate", TRUE)
  /\ mem[s] = None
  /\ \E bytes \in Bytes(layout.size) :
       mem' = [mem EXCEPT ![s] = [layout |-> layout, bytes |-> bytes]]

AllocateZeroed(s, layout) ==
  /\ reply' = Answer("allocate_zeroed", TRUE)
  /\ mem[s] = None
  /\ mem' = [mem EXCEPT ![s] = [layout |-> layout, bytes |-> [i \in 1 .. layout.size |-> 0]]]

Deallocate(s) ==
  /\ reply' = Answer("deallocate", TRUE)
  /\ mem[s] # None
  /\ mem' = [mem EXCEPT ![s] = None]

\* grow and shrink keep what is in both sizes.
Resize(s, layout) ==
  /\ reply' = Answer("resize", TRUE)
  /\ mem[s] # None
  /\ \E bytes \in Bytes(layout.size) :
       /\ \A i \in 1 .. layout.size : i <= mem[s].layout.size => bytes[i] = mem[s].bytes[i]
       /\ mem' = [mem EXCEPT ![s] = [layout |-> layout, bytes |-> bytes]]

\* A call that fails leaves every block as it was.
Fails ==
  /\ \E op \in {"allocate", "allocate_zeroed", "resize"} : reply' = Answer(op, FALSE)
  /\ UNCHANGED mem

Write(s, i, v) ==
  /\ reply' = Answer("none", TRUE)
  /\ mem[s] # None /\ i \in 1 .. mem[s].layout.size
  /\ mem' = [mem EXCEPT ![s].bytes[i] = v]

\* C hands over a block, or takes one.
Give(s, layout) ==
  /\ reply' = Answer("none", TRUE)
  /\ mem[s] = None
  /\ \E bytes \in Bytes(layout.size) :
       mem' = [mem EXCEPT ![s] = [layout |-> layout, bytes |-> bytes]]

Take(s) ==
  /\ reply' = Answer("none", TRUE)
  /\ mem[s] # None
  /\ mem' = [mem EXCEPT ![s] = None]

Next ==
  \/ \E s \in Slot : Deallocate(s) \/ Take(s)
  \/ \E s \in Slot, layout \in Layout :
       Allocate(s, layout) \/ AllocateZeroed(s, layout) \/ Resize(s, layout) \/ Give(s, layout)
  \/ Fails
  \/ \E s \in Slot, v \in Byte : mem[s] # None /\ \E i \in 1 .. mem[s].layout.size : Write(s, i, v)

Spec == Init /\ [][Next]_vars
=============================================================================
