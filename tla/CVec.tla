-------------------------------- MODULE CVec --------------------------------
(***************************************************************************)
(* CVecRefMut (src/src/c_vec.rs) over the pointer, length and capacity     *)
(* fields of a C struct, as CBufPtr::as_vec_mut and as_vec_mut_with_cap    *)
(* (src/src/c_buf.rs) make it, on a heap of blocks.                        *)
(*                                                                         *)
(* A handle is the C struct with the view Rust takes of it: a call takes   *)
(* the view, runs, and gives it up.  clear runs in steps, since it runs    *)
(* the drop of each element, which may panic or use another handle.        *)
(* Lengths count elements; sizes of blocks do too.                         *)
(***************************************************************************)
EXTENDS Naturals, Sequences, FiniteSets

CONSTANTS
  Handle,       \* the C structs
  Tracking,     \* those with a capacity field (as_vec_mut_with_cap)
  Foreign,      \* those whose buffers come from a second, unequal allocator
  Block,        \* the addresses of blocks
  Elem,         \* the elements: each value of type T is one of them
  Null,         \* the null pointer
  None,         \* Option::None
  LenMax,       \* L::MAX
  CapMax,       \* C::MAX
  MaxSliceLen,  \* max_slice_len::<T>()
  MinNonZeroCap,\* min_non_zero_cap::<T>()
  EmptyBlock    \* the size of the block behind a non-null pointer of capacity 0

\* A clear that is running: the AllocDropGuard with the elements to drop.
Clearing == [ptr : Block, layout : Nat, len : Nat, next : Nat, panicking : BOOLEAN]

ASSUME CVecAssumption ==
  /\ Tracking \subseteq Handle /\ Foreign \subseteq Handle
  /\ Null \notin Block /\ None \notin Elem \cup Clearing
  /\ LenMax \in Nat /\ CapMax \in Nat /\ MaxSliceLen \in Nat /\ EmptyBlock \in Nat
  /\ MinNonZeroCap \in 1 .. MaxSliceLen /\ MinNonZeroCap <= CapMax

VARIABLES
  heap,         \* the blocks allocated: size, allocator, the initialised elements
  c,            \* the fields of each C struct
  clearing,     \* the clear that is running on each handle, None when none is
  held,         \* the elements the Rust caller owns
  made,         \* history: the elements made so far, by the caller or by C
  dropped,      \* history: the elements whose drop has run
  fits,         \* history: every block went back to its allocator with its own layout
  reply         \* what the last push answered

vars == <<heap, c, clearing, held, made, dropped, fits, reply>>

Smaller(a, b) == IF a < b THEN a ELSE b
Larger(a, b) == IF a > b THEN a ELSE b

Tracks(h) == h \in Tracking
Alloc(h) == IF h \in Foreign THEN "other" ELSE "self"

\* C::MAX: without a capacity field the type C is L.
CapTypeMax(h) == IF Tracks(h) THEN CapMax ELSE LenMax

\* CVecRefMut::capacity().unwrap_or(len)
Cap(h) == IF Tracks(h) THEN c[h].cap ELSE c[h].len

Reset == [ptr |-> Null, len |-> 0, cap |-> 0]
NoReply == [res |-> "none", handle |-> None]

\* The elements of a clear that it has not reached, and those of a vector.
Doomed(h) ==
  IF clearing[h] = None THEN {}
  ELSE LET r == clearing[h] IN {heap[r.ptr].elems[i] : i \in (r.next + 1) .. r.len}
Contents(h) == IF c[h].ptr = Null THEN <<>> ELSE SubSeq(heap[c[h].ptr].elems, 1, c[h].len)
InVec(h) == {Contents(h)[i] : i \in DOMAIN Contents(h)}

Init ==
  /\ heap = [p \in {} |-> None]
  /\ c = [h \in Handle |-> Reset]
  /\ clearing = [h \in Handle |-> None]
  /\ held = {}
  /\ made = {}
  /\ dropped = {}
  /\ fits = TRUE
  /\ reply = NoReply

Idle(h) == clearing[h] = None

(***************************************************************************)
(* The allocator of a handle (an Allocator of src/src/alloc.rs or of the   *)
(* user), which may fail.                                                  *)
(***************************************************************************)
FreeBlocks == Block \ DOMAIN heap
Plus(p, b) == [q \in DOMAIN heap \cup {p} |-> IF q = p THEN b ELSE heap[q]]
Minus(p) == [q \in DOMAIN heap \ {p} |-> heap[q]]

\* The contract of deallocate and grow: the block is allocated, by this
\* allocator, with this layout.
Fits(h, p, layout) ==
  p \in DOMAIN heap /\ heap[p].size = layout /\ heap[p].alloc = Alloc(h)

(***************************************************************************)
(* The caller and C.                                                       *)
(***************************************************************************)
\* An element is made once: a value that comes back is the same element.
NewElem(e) ==
  /\ e \notin made
  /\ made' = made \cup {e}
  /\ held' = held \cup {e}
  /\ reply' = NoReply
  /\ UNCHANGED <<heap, c, clearing, dropped, fits>>

\* C hands over a buffer it allocated: full, or with spare capacity where the
\* struct has a field for it, or kept although it is empty.
Distinct(s) == \A i, j \in DOMAIN s : s[i] = s[j] => i = j
NewElems == LET new == Elem \ made
            IN  UNION {{s \in [1 .. n -> new] : Distinct(s)} : n \in 0 .. Cardinality(new)}

CGives(h, p) ==
  /\ Idle(h) /\ c[h].ptr = Null
  /\ \E s \in NewElems, cap \in 0 .. Smaller(CapTypeMax(h), MaxSliceLen) :
       /\ Len(s) <= cap /\ Len(s) <= LenMax
       /\ ~Tracks(h) => cap = Len(s)
       /\ heap' = Plus(p, [size |-> IF cap = 0 THEN EmptyBlock ELSE cap,
                           alloc |-> Alloc(h), elems |-> s])
       /\ c' = [c EXCEPT ![h] = [ptr |-> p, len |-> Len(s), cap |-> IF Tracks(h) THEN cap ELSE 0]]
       /\ made' = made \cup {s[i] : i \in DOMAIN s}
  /\ reply' = NoReply
  /\ UNCHANGED <<clearing, held, dropped, fits>>

(***************************************************************************)
(* as_vec_mut_in and as_vec_mut_with_cap_in: the assertions on the struct. *)
(***************************************************************************)
AsVecMutIn(h) ==
  /\ c[h].len <= MaxSliceLen
  /\ c[h].ptr # Null \/ c[h].len = 0

AsVecMutWithCapIn(h) ==
  /\ c[h].cap <= MaxSliceLen
  /\ c[h].len <= c[h].cap
  /\ c[h].ptr # Null \/ c[h].cap = 0

AsVecMut(h) == IF Tracks(h) THEN AsVecMutWithCapIn(h) ELSE AsVecMutIn(h)

(***************************************************************************)
(* try_push_back.                                                          *)
(***************************************************************************)
\* Wrong on purpose: does not ask whether the length type holds the new length.
LenFitsUnchecked(h) == c[h].len + 1 <= MaxSliceLen

\* Wrong on purpose: one element short of the limit.
LenFitsShort(h) == c[h].len + 1 < MaxSliceLen /\ c[h].len + 1 < LenMax

LenFits(h) == c[h].len + 1 <= MaxSliceLen /\ c[h].len + 1 <= LenMax

Spare(h) == Tracks(h) /\ c[h].cap # c[h].len

WantedCap(h) ==
  CASE ~Tracks(h) -> c[h].len + 1
    [] Tracks(h) /\ c[h].cap = 0 -> MinNonZeroCap
    [] OTHER -> Smaller(2 * c[h].cap, MaxSliceLen)

\* Wrong on purpose: refuses when doubling does not fit the capacity type.
CapFitsDoubled(h) == WantedCap(h) <= CapTypeMax(h)

\* The capacity type may not hold it: then as much as it does hold, if that
\* is enough for one more element.
CapFits(h) == WantedCap(h) <= CapTypeMax(h) \/ c[h].len + 1 <= CapTypeMax(h)

\* Wrong on purpose: the capacity goes past what its type holds.
NewCapUnclamped(h) == WantedCap(h)

NewCap(h) == Smaller(WantedCap(h), CapTypeMax(h))

OldLayout(h) == Larger(Cap(h), 1)

\* Layout::array fails for neither layout: both are at most MaxSliceLen.
\* grow moves the block or not, and keeps what the old layout says it has.
Reallocated(h, q) ==
  LET p == c[h].ptr
      kept == IF p = Null THEN <<>>
              ELSE SubSeq(heap[p].elems, 1, Smaller(OldLayout(h), Len(heap[p].elems)))
  IN  [x \in (DOMAIN heap \ {p}) \cup {q} |->
         IF x = q THEN [size |-> NewCap(h), alloc |-> Alloc(h), elems |-> kept] ELSE heap[x]]

\* Wrong on purpose: the new element goes before the others.
WriteFront(map, h, e, p, cap) ==
  /\ heap' = [map EXCEPT ![p].elems = <<e>> \o SubSeq(@, 1, c[h].len)]
  /\ c' = [c EXCEPT ![h] = [ptr |-> p, len |-> c[h].len + 1,
                            cap |-> IF Tracks(h) THEN cap ELSE 0]]
  /\ held' = held \ {e}
  /\ reply' = [res |-> "Ok", handle |-> h]

\* The element is written at index len of the block at p, and len set.
Write(map, h, e, p, cap) ==
  /\ heap' = [map EXCEPT ![p].elems = Append(SubSeq(@, 1, c[h].len), e)]
  /\ c' = [c EXCEPT ![h] = [ptr |-> p, len |-> c[h].len + 1,
                            cap |-> IF Tracks(h) THEN cap ELSE 0]]
  /\ held' = held \ {e}
  /\ reply' = [res |-> "Ok", handle |-> h]

PushInPlace(h, e) ==
  /\ LenFits(h) /\ Spare(h)
  /\ Write(heap, h, e, c[h].ptr, c[h].cap)
  /\ UNCHANGED fits

PushGrow(h, e) ==
  /\ LenFits(h) /\ ~Spare(h) /\ CapFits(h)
  /\ \E q \in FreeBlocks \cup ({c[h].ptr} \ {Null}) :
       Write(Reallocated(h, q), h, e, q, NewCap(h))
  /\ fits' = (fits /\ (c[h].ptr # Null => Fits(h, c[h].ptr, OldLayout(h))))

\* Wrong on purpose: the value that does not fit is lost, neither given back nor
\* dropped.
PushErrLoses(h, e, res) ==
  /\ held' = held \ {e}
  /\ reply' = [res |-> res, handle |-> h]
  /\ UNCHANGED <<heap, c, dropped, fits>>

\* Err(value): try_push_back gives the element back, push_back drops it and
\* panics.
PushErr(h, e, res) ==
  /\ \/ UNCHANGED <<held, dropped>>
     \/ held' = held \ {e} /\ dropped' = dropped \cup {e}
  /\ reply' = [res |-> res, handle |-> h]
  /\ UNCHANGED <<heap, c, fits>>

PushBack(h, e) ==
  /\ Idle(h) /\ AsVecMut(h) /\ e \in held
  /\ \/ (PushInPlace(h, e) \/ PushGrow(h, e)) /\ UNCHANGED dropped
     \/ ~LenFits(h) /\ PushErr(h, e, "Limit")
     \/ LenFits(h) /\ ~Spare(h) /\ ~CapFits(h) /\ PushErr(h, e, "Limit")
     \/ LenFits(h) /\ ~Spare(h) /\ CapFits(h) /\ PushErr(h, e, "NoMemory")
  /\ UNCHANGED <<clearing, made>>

\* C appends in the spare capacity it sees in its struct.
CFills(h, e) ==
  /\ Idle(h) /\ Spare(h) /\ c[h].len < LenMax /\ e \notin made
  /\ made' = made \cup {e}
  /\ heap' = [heap EXCEPT ![c[h].ptr].elems = Append(@, e)]
  /\ c' = [c EXCEPT ![h].len = @ + 1]
  /\ reply' = NoReply
  /\ UNCHANGED <<clearing, held, dropped, fits>>

(***************************************************************************)
(* clear: the struct is emptied first; then the elements are dropped one   *)
(* by one, the rest of them also when one panics (a second panic aborts    *)
(* the process); the guard frees the block in either case.                 *)
(***************************************************************************)
TakenBy(h) ==
  IF c[h].ptr = Null THEN None
  ELSE [ptr |-> c[h].ptr, layout |-> OldLayout(h), len |-> c[h].len,
        next |-> 0, panicking |-> FALSE]

\* Wrong on purpose: the struct keeps its fields until the drops are done.
ClearBeginLate(h) ==
  /\ Idle(h) /\ AsVecMut(h)
  /\ clearing' = [clearing EXCEPT ![h] = TakenBy(h)]
  /\ reply' = NoReply
  /\ UNCHANGED <<heap, c, held, made, dropped, fits>>

ClearBegin(h) ==
  /\ Idle(h) /\ AsVecMut(h)
  /\ c' = [c EXCEPT ![h] = Reset]
  /\ clearing' = [clearing EXCEPT ![h] = TakenBy(h)]
  /\ reply' = NoReply
  /\ UNCHANGED <<heap, held, made, dropped, fits>>

\* Wrong on purpose: a drop that panics ends the drops.
ClearDropStops(h) ==
  /\ ~Idle(h) /\ clearing[h].next < clearing[h].len
  /\ LET r == clearing[h]
     IN  /\ dropped' = dropped \cup {heap[r.ptr].elems[r.next + 1]}
         /\ \E panics \in BOOLEAN :
              /\ ~(panics /\ r.panicking)
              /\ clearing' = [clearing EXCEPT ![h].next = IF panics THEN r.len ELSE r.next + 1,
                                              ![h].panicking = r.panicking \/ panics]
  /\ reply' = NoReply
  /\ UNCHANGED <<heap, c, held, made, fits>>

ClearDrop(h) ==
  /\ ~Idle(h) /\ clearing[h].next < clearing[h].len
  /\ LET r == clearing[h]
     IN  /\ dropped' = dropped \cup {heap[r.ptr].elems[r.next + 1]}
         /\ \E panics \in BOOLEAN :
              /\ ~(panics /\ r.panicking)
              /\ clearing' = [clearing EXCEPT ![h].next = r.next + 1,
                                              ![h].panicking = r.panicking \/ panics]
  /\ reply' = NoReply
  /\ UNCHANGED <<heap, c, held, made, fits>>

\* Wrong on purpose: no guard, a panic leaves before the block is freed.
ClearFreeUnguarded(h) ==
  /\ ~Idle(h) /\ clearing[h].next = clearing[h].len
  /\ IF clearing[h].panicking THEN UNCHANGED <<heap, fits>>
     ELSE /\ heap' = Minus(clearing[h].ptr)
          /\ fits' = (fits /\ Fits(h, clearing[h].ptr, clearing[h].layout))
  /\ clearing' = [clearing EXCEPT ![h] = None]
  /\ reply' = NoReply
  /\ UNCHANGED <<c, held, made, dropped>>

ClearFree(h) ==
  /\ ~Idle(h) /\ clearing[h].next = clearing[h].len
  /\ heap' = Minus(clearing[h].ptr)
  /\ fits' = (fits /\ Fits(h, clearing[h].ptr, clearing[h].layout))
  /\ clearing' = [clearing EXCEPT ![h] = None]
  /\ reply' = NoReply
  /\ UNCHANGED <<c, held, made, dropped>>

(***************************************************************************)
(* swap: the assertion on the allocators, then the capacities (which       *)
(* panics when only one of the two is tracked), then pointers and lengths. *)
(* Both panics come before the first change.                               *)
(***************************************************************************)
\* Wrong on purpose: does not compare the allocators.
SwapAnyAllocator(g, h) ==
  /\ g # h /\ Idle(g) /\ Idle(h) /\ AsVecMut(g) /\ AsVecMut(h)
  /\ Tracks(g) = Tracks(h)
  /\ c' = [c EXCEPT ![g] = c[h], ![h] = c[g]]
  /\ reply' = NoReply
  /\ UNCHANGED <<heap, clearing, held, made, dropped, fits>>

Swap(g, h) ==
  /\ g # h /\ Idle(g) /\ Idle(h) /\ AsVecMut(g) /\ AsVecMut(h)
  /\ Alloc(g) = Alloc(h)
  /\ Tracks(g) = Tracks(h)
  /\ c' = [c EXCEPT ![g] = c[h], ![h] = c[g]]
  /\ reply' = NoReply
  /\ UNCHANGED <<heap, clearing, held, made, dropped, fits>>

Next ==
  \/ \E e \in Elem : NewElem(e)
  \/ \E h \in Handle : \E p \in FreeBlocks : CGives(h, p)
  \/ \E h \in Handle, e \in Elem : CFills(h, e) \/ PushBack(h, e)
  \/ \E h \in Handle : ClearBegin(h) \/ ClearDrop(h) \/ ClearFree(h)
  \/ \E g, h \in Handle : Swap(g, h)

Spec == Init /\ [][Next]_vars

\* A clear that has begun goes on: drop returns, or unwinds.
Fairness == \A h \in Handle : WF_vars(ClearDrop(h) \/ ClearFree(h))
FairSpec == Spec /\ Fairness

-----------------------------------------------------------------------------
(***************************************************************************)
(* Properties.                                                             *)
(***************************************************************************)
Fields == [ptr : Block \cup {Null}, len : 0 .. LenMax, cap : 0 .. CapMax]
BlockType == [size : Nat, alloc : {"self", "other"}, elems : Seq(Elem)]

\* The types of the state: the length and the capacity of a struct are values of
\* the integer types C declared for them.
TypeOK ==
  /\ DOMAIN heap \in SUBSET Block
  /\ \A p \in DOMAIN heap : heap[p] \in BlockType
  /\ c \in [Handle -> Fields]
  /\ clearing \in [Handle -> Clearing \cup {None}]
  /\ held \in SUBSET Elem
  /\ made \in SUBSET Elem
  /\ dropped \in SUBSET Elem
  /\ fits \in BOOLEAN
  /\ reply \in [res : {"none", "Ok", "Limit", "NoMemory"}, handle : Handle \cup {None}]

\* The safety invariant in the doc of CVecRefMut, at every moment, also while
\* a clear runs the drop of an element: the block has exactly the capacity the
\* struct says, its first len elements are initialised and no others, and the
\* fields are within the limits of their types.
HandleValid ==
  \A h \in Handle :
    /\ c[h].len <= Cap(h) /\ Cap(h) <= MaxSliceLen
    /\ c[h].len <= LenMax /\ c[h].cap <= CapMax
    /\ Cap(h) > 0 => c[h].ptr # Null
    /\ c[h].ptr # Null =>
         /\ c[h].ptr \in DOMAIN heap
         /\ heap[c[h].ptr].size = (IF Cap(h) = 0 THEN EmptyBlock ELSE Cap(h))
         /\ heap[c[h].ptr].alloc = Alloc(h)
         /\ Len(heap[c[h].ptr].elems) = c[h].len

\* Every block has one owner, a struct or a clear: none is freed twice, none
\* is leaked, not even by a drop that panics.
BlocksOwnedOnce ==
  LET Owners(p) == {<<h, "c">> : h \in {g \in Handle : c[g].ptr = p}}
           \cup {<<h, "clear">> : h \in {g \in Handle : ~Idle(g) /\ clearing[g].ptr = p}}
  IN  \A p \in Block : Cardinality(Owners(p)) = IF p \in DOMAIN heap THEN 1 ELSE 0

\* Every element made is in exactly one place: with the caller, at one index of
\* one vector, in a clear that has not reached it, or dropped.  None is lost, by a
\* push that fails or a drop that panics; none is dropped twice or used after its
\* drop.
ElementsOnce ==
  /\ \A h \in Handle : Distinct(Contents(h)) /\ InVec(h) \cap Doomed(h) = {}
  /\ \A g, h \in Handle : g # h =>
       (InVec(g) \cup Doomed(g)) \cap (InVec(h) \cup Doomed(h)) = {}
  /\ \A h \in Handle : (InVec(h) \cup Doomed(h)) \cap (held \cup dropped) = {}
  /\ held \cap dropped = {}
  /\ made = held \cup dropped \cup UNION {InVec(h) \cup Doomed(h) : h \in Handle}

\* Every block is given back to its own allocator, and to grow, with exactly
\* the layout it was allocated with (the SAFETY comments of try_push_back and
\* of AllocDropGuard).
LayoutsFit == fits

\* A push refuses for a limit only when the length or the capacity field, or
\* the slice limit, has no room for one more: growth that doubles never makes
\* it refuse early.
RefusesOnlyAtLimit ==
  reply.res = "Limit" =>
    c[reply.handle].len = Smaller(Smaller(LenMax, MaxSliceLen), CapTypeMax(reply.handle))

\* A clear that has begun gives its block back, whatever the drops do.
ClearCompletes ==
  \A h \in Handle, p \in Block :
    (~Idle(h) /\ clearing[h].ptr = p) ~> p \notin DOMAIN heap

-----------------------------------------------------------------------------
\* Blocks, capacities and panics hidden, a handle is a vector: elements stay
\* in the order they were pushed in, through every reallocation and swap.
Abstract == INSTANCE Vec WITH contents <- [h \in Handle |-> Contents(h)], held <- held
ImplementsVec == Abstract!Spec
=============================================================================
