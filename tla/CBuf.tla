-------------------------------- MODULE CBuf --------------------------------
(***************************************************************************)
(* CBufPtr and OwnedCBufPtr (src/src/c_buf.rs): where the buffers behind   *)
(* the pointer fields of C structs come from and go to.                    *)
(*                                                                         *)
(* A block is a sequence of cells: raw, holding a value, or gone.  Cloning *)
(* runs T::clone for each element, which may panic and may use other       *)
(* buffers, so a clone is one step per element; several run at once.       *)
(* The length beside a pointer is of one of C's integer types: it may be   *)
(* negative, and it may be too narrow for one more element.                *)
(***************************************************************************)
EXTENDS CBufLen, Sequences, FiniteSets

CONSTANTS
  Field,        \* the CBufPtr fields, each with the length beside it
  Owned,        \* the OwnedCBufPtr fields
  Boxed,        \* the Box<[T], A> variables of the Rust caller
  Call,         \* the calls of try_clone_and_leak_in that can be under way
  Block,        \* the addresses of blocks
  Null,         \* the null pointer
  Dangling,     \* the pointer of an empty boxed slice
  None,         \* Option::None
  Val,          \* what a value of type T can be
  LenType,      \* the integer type of the lengths
  Size,         \* size_of::<T>()
  MaxLen        \* bound: the length of a boxed slice

Raw == "raw"
Gone == "gone"

\* A call under way: the frame of try_clone_and_leak_in with its CloneDropGuard.
CloneRecord ==
  [src : Field \cup Owned, dst : Field \cup Owned, ptr : Block, len : Nat,
   initialized : Nat, unwinding : BOOLEAN, next : Nat]

ASSUME CBufAssumption ==
  /\ Boxed \cap (Field \cup Owned) = {}
  /\ Null \notin Block /\ Dangling \notin Block /\ Null # Dangling
  /\ None \notin Block \cup {Null, Dangling} \cup CloneRecord
  /\ Raw \notin Val /\ Gone \notin Val
  /\ LenType \in IntType /\ Size \in 1 .. IsizeMax
  /\ MaxLen \in 0 .. MAX(LenType) /\ MaxLen <= MaxSliceLen(Size)

VARIABLES
  heap,         \* the blocks allocated: their cells
  bufs,         \* the pointer and the length in each field and variable
  clones,       \* the calls under way, None for the others
  faults        \* history: what went wrong with a drop or a deallocation

vars == <<heap, bufs, clones, faults>>

Place == Field \cup Owned \cup Boxed
Empty(x) == [ptr |-> IF x \in Boxed THEN None ELSE Null, len |-> 0]

Init ==
  /\ heap = [p \in {} |-> None]
  /\ bufs = [x \in Place |-> Empty(x)]
  /\ clones = [k \in Call |-> None]
  /\ faults = {}

FreeBlocks == Block \ DOMAIN heap
With(p, cells) == [q \in DOMAIN heap \cup {p} |-> IF q = p THEN cells ELSE heap[q]]
Without(p) == [q \in DOMAIN heap \ {p} |-> heap[q]]
Holds(p, i) == heap[p][i] \in Val

\* Deallocation of p: what is wrong with it, if anything, and what may not be
\* left in the block.  The T of an OwnedCBufPtr is Copy and has nothing to drop.
FreeFaults(p) == IF p \in DOMAIN heap THEN {} ELSE {"wild free"}
LeftIn(p) == IF p \in DOMAIN heap /\ \E i \in DOMAIN heap[p] : Holds(p, i)
               THEN {"element leaked"} ELSE {}

Running(k) == clones[k] # None
Borrowed(x) == \E k \in Call : Running(k) /\ clones[k].src = x
Awaited(x) == \E k \in Call : Running(k) /\ clones[k].dst = x

\* What Rust's borrow rules leave the caller free to move, free or overwrite.
Full(x) == bufs[x] # Empty(x) /\ ~Borrowed(x)
Vacant(x) == bufs[x] = Empty(x) /\ ~Awaited(x) /\ ~Borrowed(x)

(***************************************************************************)
(* with_len and as_vec_mut_in: the views of a pointer and its length.      *)
(* When they panic, nothing has changed.                                   *)
(***************************************************************************)
Length(x) == TryInto(bufs[x].len)

\* A view that is not of cells of the block: a negative length taken for a usize
\* is a huge one.
Past(x) ==
  /\ bufs[x].ptr # Null /\ bufs[x].len # 0
  /\ ~(bufs[x].ptr \in DOMAIN heap /\ bufs[x].len \in 1 .. Len(heap[bufs[x].ptr]))
PastFaults(x) == IF Past(x) THEN {"view past the block"} ELSE {}

\* Wrong on purpose: the limit is compared before the conversion, so that a
\* negative length is within it.
WithLenPanicsSigned(x) == bufs[x].ptr # Null /\ bufs[x].len > MaxSliceLen(Size)

WithLenPanics(x) ==
  \/ ~Length(x).ok
  \/ bufs[x].ptr # Null /\ Length(x).val > MaxSliceLen(Size)

WithLen(x) ==
  IF bufs[x].ptr = Null \/ bufs[x].len = 0 THEN <<>>
  ELSE SubSeq(heap[bufs[x].ptr], 1, bufs[x].len)

\* Wrong on purpose: as WithLenPanicsSigned.
AsVecMutPanicsSigned(x) ==
  \/ bufs[x].len > MaxSliceLen(Size)
  \/ bufs[x].ptr = Null /\ bufs[x].len # 0

AsVecMutPanics(x) ==
  \/ ~Length(x).ok
  \/ Length(x).val > MaxSliceLen(Size)
  \/ bufs[x].ptr = Null /\ Length(x).val # 0

\* The caller looks at the slice.
Read(x) ==
  /\ ~Awaited(x) /\ ~WithLenPanics(x)
  /\ faults' = faults \cup PastFaults(x)
               \cup (IF \A i \in DOMAIN WithLen(x) : WithLen(x)[i] \in Val
                     THEN {} ELSE {"read of no element"})
  /\ UNCHANGED <<heap, bufs, clones>>

(***************************************************************************)
(* The caller builds a boxed slice; an empty one has no block.             *)
(***************************************************************************)
NewBoxedSlice(x) ==
  /\ Vacant(x)
  /\ \E n \in 0 .. MaxLen :
       \/ /\ n = 0
          /\ bufs' = [bufs EXCEPT ![x] = [ptr |-> Dangling, len |-> 0]]
          /\ UNCHANGED heap
       \/ /\ n > 0
          /\ \E p \in FreeBlocks, cells \in [1 .. n -> Val] :
               /\ heap' = With(p, cells)
               /\ bufs' = [bufs EXCEPT ![x] = [ptr |-> p, len |-> n]]
  /\ UNCHANGED <<clones, faults>>

\* Wrong on purpose: an empty slice leaves its dangling pointer in the field.
FromBoxedSliceDangling(x, y) ==
  /\ Full(x) /\ Vacant(y)
  /\ bufs' = [bufs EXCEPT ![x] = Empty(x), ![y] = bufs[x]]
  /\ UNCHANGED <<heap, clones, faults>>

\* from_boxed_slice, of either pointer type: the box x becomes the buffer y.
FromBoxedSlice(x, y) ==
  /\ Full(x) /\ Vacant(y)
  /\ bufs' = [bufs EXCEPT ![x] = Empty(x),
                          ![y] = IF bufs[x].len = 0 THEN Empty(y) ELSE bufs[x]]
  /\ UNCHANGED <<heap, clones, faults>>

(***************************************************************************)
(* try_clone_and_leak_in: the elements of src, cloned into a new buffer    *)
(* that the caller stores in dst.                                          *)
(***************************************************************************)
CloneBegin(k, src, dst) ==
  /\ ~Running(k) /\ Vacant(dst) /\ src # dst /\ ~WithLenPanics(src)
  /\ \/ UNCHANGED <<heap, clones>>      \* Ok(null) for an empty slice, or Err(AllocError)
     \/ /\ WithLen(src) # <<>>
        /\ \E p \in FreeBlocks :
             /\ heap' = With(p, [i \in 1 .. bufs[src].len |-> Raw])
             /\ clones' = [clones EXCEPT ![k] =
                  [src |-> src, dst |-> dst, ptr |-> p, len |-> bufs[src].len,
                   initialized |-> 0, unwinding |-> FALSE, next |-> 0]]
  /\ faults' = faults \cup PastFaults(src)
  /\ UNCHANGED bufs

Cloning(k) == Running(k) /\ ~clones[k].unwinding /\ clones[k].initialized < clones[k].len

\* Wrong on purpose: clones the first element again and again.
CloneElemFirst(k) ==
  /\ Cloning(k)
  /\ LET i == clones[k].initialized + 1
     IN  /\ heap' = [heap EXCEPT ![clones[k].ptr][i] = WithLen(clones[k].src)[1]]
         /\ clones' = [clones EXCEPT ![k].initialized = i]
  /\ UNCHANGED <<bufs, faults>>

CloneElem(k) ==
  /\ Cloning(k)
  /\ LET i == clones[k].initialized + 1
     IN  /\ heap' = [heap EXCEPT ![clones[k].ptr][i] = WithLen(clones[k].src)[i]]
         /\ clones' = [clones EXCEPT ![k].initialized = i]
  /\ UNCHANGED <<bufs, faults>>

\* Wrong on purpose: the element was counted before it was cloned.
ClonePanicCounted(k) ==
  /\ Cloning(k)
  /\ clones' = [clones EXCEPT ![k].unwinding = TRUE, ![k].initialized = @ + 1]
  /\ UNCHANGED <<heap, bufs, faults>>

ClonePanic(k) ==
  /\ Cloning(k)
  /\ clones' = [clones EXCEPT ![k].unwinding = TRUE]
  /\ UNCHANGED <<heap, bufs, faults>>

\* CloneDropGuard::drop: the elements that are there, then the block.  (When a
\* drop panics too, the process aborts.)
GuardDrop(k) ==
  /\ Running(k) /\ clones[k].unwinding /\ clones[k].next < clones[k].initialized
  /\ LET p == clones[k].ptr
         i == clones[k].next + 1
     IN  /\ heap' = [heap EXCEPT ![p][i] = Gone]
         /\ faults' = faults \cup (IF Holds(p, i) THEN {} ELSE {"drop of no element"})
         /\ clones' = [clones EXCEPT ![k].next = i]
  /\ UNCHANGED bufs

\* Wrong on purpose: drops the elements and forgets the block.
GuardFreeNothing(k) ==
  /\ Running(k) /\ clones[k].unwinding /\ clones[k].next = clones[k].initialized
  /\ clones' = [clones EXCEPT ![k] = None]
  /\ UNCHANGED <<heap, bufs, faults>>

GuardFree(k) ==
  /\ Running(k) /\ clones[k].unwinding /\ clones[k].next = clones[k].initialized
  /\ heap' = Without(clones[k].ptr)
  /\ faults' = faults \cup FreeFaults(clones[k].ptr) \cup LeftIn(clones[k].ptr)
  /\ clones' = [clones EXCEPT ![k] = None]
  /\ UNCHANGED bufs

\* mem::forget(guard): the buffer is the caller's.
CloneDone(k) ==
  /\ Running(k) /\ ~clones[k].unwinding /\ clones[k].initialized = clones[k].len
  /\ bufs' = [bufs EXCEPT ![clones[k].dst] = [ptr |-> clones[k].ptr, len |-> clones[k].len]]
  /\ clones' = [clones EXCEPT ![k] = None]
  /\ UNCHANGED <<heap, faults>>

(***************************************************************************)
(* OwnedCBufPtr.                                                           *)
(***************************************************************************)
\* from_raw: the field gives its block up.
OwnedFromRaw(x, y) ==
  /\ Full(x) /\ Vacant(y)
  /\ bufs' = [bufs EXCEPT ![x] = Empty(x), ![y] = bufs[x]]
  /\ UNCHANGED <<heap, clones, faults>>

\* into_c_buf_ptr and into_raw: the wrapper is forgotten, its block is y's.
IntoCBufPtr(x, y) ==
  /\ Full(x) /\ Vacant(y)
  /\ bufs' = [bufs EXCEPT ![x] = Empty(x), ![y] = bufs[x]]
  /\ UNCHANGED <<heap, clones, faults>>

\* The drop of an OwnedCBufPtr: by the pointer alone, nothing for null.
OwnedDrop(x) ==
  /\ ~Borrowed(x) /\ ~Awaited(x)
  /\ \/ bufs[x].ptr = Null /\ UNCHANGED <<heap, bufs, faults>>
     \/ /\ bufs[x].ptr # Null
        /\ heap' = Without(bufs[x].ptr)
        /\ faults' = faults \cup FreeFaults(bufs[x].ptr)
        /\ bufs' = [bufs EXCEPT ![x] = Empty(x)]
  /\ UNCHANGED clones

\* clear drops the elements of its view, in the block or past it; those of the
\* block that are not in the view are lost with it.
DropFaults(x) ==
  LET p == bufs[x].ptr
      n == bufs[x].len
  IN  IF p \notin DOMAIN heap THEN {}
      ELSE (IF \A i \in DOMAIN heap[p] : i <= n => Holds(p, i) THEN {} ELSE {"drop of no element"})
           \cup (IF \E i \in DOMAIN heap[p] : i > n /\ Holds(p, i) THEN {"element leaked"} ELSE {})

\* The owner of a CBufPtr, or of what an OwnedCBufPtr derefs to, clears it
\* through as_vec_mut (see CVec).
FieldClear(x) ==
  /\ Full(x) /\ ~AsVecMutPanics(x)
  /\ heap' = Without(bufs[x].ptr)
  /\ faults' = faults \cup PastFaults(x) \cup DropFaults(x) \cup FreeFaults(bufs[x].ptr)
  /\ bufs' = [bufs EXCEPT ![x] = Empty(x)]
  /\ UNCHANGED clones

(***************************************************************************)
(* push_back through as_vec_mut, without a capacity field (see CVec for    *)
(* one with): a block of exactly one more element, here or elsewhere.  It  *)
(* panics, after the drop of the value, when the length or the memory does *)
(* not allow it.                                                           *)
(***************************************************************************)
NewLen(x) == TryFrom(LenType, Length(x).val + 1)
LenFits(x) == Length(x).val + 1 <= MaxSliceLen(Size) /\ NewLen(x).ok

PushBack(x, v) ==
  /\ ~Borrowed(x) /\ ~Awaited(x) /\ ~AsVecMutPanics(x) /\ LenFits(x)
  /\ \E q \in FreeBlocks \cup ({bufs[x].ptr} \ {Null}) :
       /\ heap' = [p \in (DOMAIN heap \ {bufs[x].ptr}) \cup {q} |->
                     IF p = q THEN Append(WithLen(x), v) ELSE heap[p]]
       /\ bufs' = [bufs EXCEPT ![x] = [ptr |-> q, len |-> NewLen(x).val]]
  /\ faults' = faults \cup PastFaults(x)
  /\ UNCHANGED clones

(***************************************************************************)
(* C, whose part the helpers of src/src/testing.rs play: it makes a buffer *)
(* with malloc, which has a block, or not, also when it is empty; it frees *)
(* one; it marks one with a negative length, and sets the length again.    *)
(***************************************************************************)
MallocArray(x, values) ==
  /\ Vacant(x)
  /\ \/ /\ values = <<>>
        /\ UNCHANGED <<heap, bufs>>
     \/ \E p \in FreeBlocks :
          /\ heap' = With(p, values)
          /\ bufs' = [bufs EXCEPT ![x] = [ptr |-> p, len |-> TryFrom(LenType, Len(values)).val]]
  /\ UNCHANGED <<clones, faults>>

\* free(ptr) in C, which has the elements no more.
FreeMalloced(x) ==
  /\ Full(x)
  /\ heap' = Without(bufs[x].ptr)
  /\ faults' = faults \cup FreeFaults(bufs[x].ptr)
  /\ bufs' = [bufs EXCEPT ![x] = Empty(x)]
  /\ UNCHANGED clones

CMarks(x) ==
  /\ Full(x) /\ bufs[x].len >= 0 /\ LenType.min < 0
  /\ bufs' = [bufs EXCEPT ![x].len = -1]
  /\ UNCHANGED <<heap, clones, faults>>

CRestores(x) ==
  /\ Full(x) /\ bufs[x].len < 0
  /\ bufs' = [bufs EXCEPT ![x].len = Len(heap[bufs[x].ptr])]
  /\ UNCHANGED <<heap, clones, faults>>

(***************************************************************************)
(* The entry points of the example c_buf_ptr: an IntArray is an owning     *)
(* field with its length.                                                  *)
(***************************************************************************)
AppendToArray(x, item) == PushBack(x, item)
SumArray(x) == Read(x)
FreeArray(x) == OwnedDrop(x)
CloneArray(k, x, y) == CloneBegin(k, x, y)

Next ==
  \/ \E x \in Boxed : NewBoxedSlice(x) \/ \E y \in Field \cup Owned : FromBoxedSlice(x, y)
  \/ \E k \in Call : \/ \E src \in Field \cup Owned, dst \in Field : CloneBegin(k, src, dst)
                     \/ \E src \in Field, dst \in Owned : CloneBegin(k, src, dst)
                     \/ \E x, y \in Owned : CloneArray(k, x, y)
                     \/ CloneElem(k) \/ ClonePanic(k) \/ GuardDrop(k) \/ GuardFree(k) \/ CloneDone(k)
  \/ \E x \in Field, y \in Owned : OwnedFromRaw(x, y) \/ IntoCBufPtr(y, x)
  \/ \E x \in Field : \/ Read(x) \/ FreeMalloced(x)
                     \/ \E v \in Val : PushBack(x, v)
                     \/ \E n \in 0 .. MaxLen : \E values \in [1 .. n -> Val] : MallocArray(x, values)
  \/ \E x \in Owned : SumArray(x) \/ FreeArray(x) \/ \E v \in Val : AppendToArray(x, v)
  \/ \E x \in Field \cup Owned : FieldClear(x) \/ CMarks(x) \/ CRestores(x)

Spec == Init /\ [][Next]_vars

-----------------------------------------------------------------------------
(***************************************************************************)
(* Properties.                                                             *)
(***************************************************************************)
\* The types of the state: a field holds null or a block, never a dangling pointer.
TypeOK ==
  /\ DOMAIN heap \in SUBSET Block
  /\ \A p \in DOMAIN heap : heap[p] \in Seq(Val \cup {Raw, Gone})
  /\ \A x \in Field \cup Owned : bufs[x] \in [ptr : Block \cup {Null}, len : Values(LenType)]
  /\ \A x \in Boxed : bufs[x] \in [ptr : Block \cup {Dangling, None}, len : Nat]
  /\ clones \in [Call -> CloneRecord \cup {None}]
  /\ faults \subseteq {"wild free", "element leaked", "drop of no element", "read of no element",
                      "view past the block"}

\* The safety invariants of CBufPtr: null with length 0, or a block of exactly
\* the length beside it, unless C has marked it, with every element initialised;
\* what a panic left half done is in no field.
Initialised ==
  \A x \in Field \cup Owned :
    \/ bufs[x] = Empty(x)
    \/ /\ bufs[x].ptr \in DOMAIN heap
       /\ bufs[x].len \in {-1, Len(heap[bufs[x].ptr])}
       /\ \A i \in DOMAIN heap[bufs[x].ptr] : Holds(bufs[x].ptr, i)

\* Every block has one owner: a field, a box, or a clone that is under way.  A
\* clone that panics at any element gives its block back.
BlocksOwnedOnce ==
  \A p \in Block :
    Cardinality({x \in Place : bufs[x].ptr = p})
      + Cardinality({k \in Call : Running(k) /\ clones[k].ptr = p})
    = IF p \in DOMAIN heap THEN 1 ELSE 0

\* No block is freed twice, no pointer freed that is not a block, no cell
\* dropped that holds no element, no element left behind in a freed block, and no
\* view of more than the block, whatever length C has set beside the pointer.
NoFault == faults = {}

\* A clone that returns Ok is the source, element by element, as it was when
\* the call began, and shares nothing with it.
CloneExact ==
  [][\A k \in Call : CloneDone(k) =>
       /\ heap'[bufs'[clones[k].dst].ptr] = WithLen(clones[k].src)
       /\ bufs'[clones[k].dst].ptr # bufs[clones[k].src].ptr]_vars
=============================================================================
