----------------------------- MODULE CLikeAlloc -----------------------------
(***************************************************************************)
(* CLikeAlloc<F> (src/src/alloc.rs) over C's allocation functions, for the *)
(* values of F there are: LibcFns, the CustomFns that the constructors     *)
(* new_with_malloc and new_with_calloc make, and the types of its users,   *)
(* with the default methods of AllocFns for the functions F lacks.         *)
(*                                                                         *)
(* C's functions give what C23 promises and no more: malloc(n) is aligned  *)
(* for the types of size at most n, its bytes are junk, and it may fail.   *)
(* A call touches only its own block, so calls of several threads are      *)
(* their interleaving.                                                     *)
(***************************************************************************)
EXTENDS Naturals, Sequences, FiniteSets

CONSTANTS
  Slot,         \* the places where Rust code keeps a block with its layout
  Alloc,        \* the allocator values
  Addr,         \* the addresses of the C heap
  Dangling,     \* Layout::dangling_ptr
  None,         \* Option::None, and no block
  Aligns,       \* the alignments of layouts: powers of two, 1 among them
  MALLOC_ALIGN, \* the alignment of max_align_t
  MaxSize,      \* bound: the size of a layout
  Byte,         \* the values of a byte, 0 among them
  Junk          \* the value of a byte nobody has written

(***************************************************************************)
(* The values of F.  A function pointer is named by the library it is of:  *)
(* the caller of a constructor vouches that its functions belong together. *)
(***************************************************************************)
Libraries == {"libc", "hooks"}
LibcFns == [malloc |-> "libc", calloc |-> "libc", realloc |-> "libc", free |-> "libc"]
NewWithMalloc(lib) == [malloc |-> lib, calloc |-> None, realloc |-> None, free |-> lib]
NewWithCalloc(lib) == [malloc |-> None, calloc |-> lib, realloc |-> None, free |-> lib]
CustomFns == {NewWithMalloc(lib) : lib \in Libraries} \cup {NewWithCalloc(lib) : lib \in Libraries}

\* Types of users (those of the tests): hooks that take a context, which is then
\* what their blocks belong to; and hooks of which malloc has company.
CtxFns(ctx) == [malloc |-> ctx, calloc |-> None, realloc |-> None, free |-> ctx]
MallocAndCallocFns == [CtxFns("hooks") EXCEPT !.calloc = "hooks"]
ReallocFns == [CtxFns("hooks") EXCEPT !.realloc = "hooks"]

AllocFns == {LibcFns, MallocAndCallocFns, ReallocFns} \cup CustomFns

\* A block in a slot, with a copy of its allocator; and what its user sees of it.
Layout == [size : 0 .. MaxSize, align : Aligns]
BlockRecord == [ptr : Addr \cup {Dangling}, layout : Layout, alloc : AllocFns]
Memory == [layout : Layout, bytes : Seq(Byte \cup {Junk})]

ASSUME CLikeAllocAssumption ==
  /\ Dangling \notin Addr /\ None \notin Addr \cup Libraries \cup BlockRecord \cup Memory
  /\ Aligns \subseteq Nat \ {0} /\ 1 \in Aligns /\ MALLOC_ALIGN \in Aligns
  /\ MaxSize \in Nat /\ 0 \in Byte /\ Junk \notin Byte

VARIABLES
  fns,          \* the functions each allocator value holds
  heap,         \* the blocks of the C heap: size, guaranteed alignment, bytes, whose they are
  blocks,       \* the block in each slot: pointer, layout and a copy of its allocator
  hollow,       \* history: the blocks C gave with a layout of size 0
  misused,      \* history: a function of C, or a copy, went outside its contract
  reply         \* the last call, and whether it was answered Ok

vars == <<fns, heap, blocks, hollow, misused, reply>>

Answer(op, ok) == [op |-> op, ok |-> ok]
Least(a, b) == IF a < b THEN a ELSE b
Greatest(a, b) == IF a > b THEN a ELSE b

\* Wrong on purpose: compares one of the two allocation functions only.
EqCallocOnly(f, g) == (f = LibcFns) = (g = LibcFns) /\ f.calloc = g.calloc

\* Values of LibcFns and of CustomFns have different types: they do not meet.
Eq(f, g) == f.malloc = g.malloc /\ f.calloc = g.calloc /\ f.free = g.free /\ f.realloc = g.realloc

\* All allocators of a program in one type F.
Init ==
  /\ fns \in UNION {[Alloc -> F] : F \in {{LibcFns}, CustomFns, {CtxFns(ctx) : ctx \in Libraries},
                                        {MallocAndCallocFns}, {ReallocFns}}}
  /\ heap = [p \in {} |-> None]
  /\ blocks = [s \in Slot |-> None]
  /\ hollow = {}
  /\ misused = FALSE
  /\ reply = Answer("none", TRUE)

(***************************************************************************)
(* The C heap.                                                             *)
(***************************************************************************)
FreeAddr == Addr \ DOMAIN heap

\* The alignment of the largest type of size at most n.
AlignOf(n) == CHOOSE a \in Aligns :
                /\ a <= MALLOC_ALIGN /\ a <= n
                /\ \A x \in Aligns : x <= MALLOC_ALIGN /\ x <= n => x <= a
Fill(n, v) == [i \in 1 .. n |-> v]
Block(bytes, lib) == [bytes |-> bytes, align |-> AlignOf(Len(bytes)), lib |-> lib]
With(p, b) == [q \in DOMAIN heap \cup {p} |-> IF q = p THEN b ELSE heap[q]]
Without(p) == [q \in DOMAIN heap \ {p} |-> heap[q]]

\* free and realloc take a live block of their own library, of at least n bytes.
Takes(f, p, n) == p \in DOMAIN heap /\ heap[p].lib = f.free /\ n <= Len(heap[p].bytes)

(***************************************************************************)
(* AllocFns: malloc and calloc fall back on each other, realloc on malloc, *)
(* a copy and free.                                                        *)
(***************************************************************************)
\* Wrong on purpose: no fallback.
MallocOnly(f, n) == Block(Fill(n, Junk), f.malloc)

Malloc(f, n) == IF f.malloc # None THEN Block(Fill(n, Junk), f.malloc)
                ELSE Block(Fill(n, 0), f.calloc)

\* Wrong on purpose: does not zero what malloc returned.
DefaultCallocJunk(f, n) == Block(Fill(n, Junk), f.malloc)

DefaultCalloc(f, n) == Block(Fill(n, 0), f.malloc)

Calloc(f, n) == IF f.calloc # None THEN Block(Fill(n, 0), f.calloc) ELSE DefaultCalloc(f, n)

Free(f, p) ==
  /\ heap' = Without(p)
  /\ misused' = (misused \/ ~Takes(f, p, 0))

\* C's realloc may stay in place and keeps what the two blocks share; the
\* default one has both blocks for a moment and copies what the sizes share.
Realloc(f, p, old, new, q) ==
  LET own == f.realloc # None
      fresh == IF own THEN Block(Fill(new, Junk), f.realloc) ELSE Malloc(f, new)
      kept == IF own /\ p \in DOMAIN heap THEN Least(Len(heap[p].bytes), new) ELSE Least(old, new)
  IN  /\ own \/ q # p
      /\ heap' = [x \in (DOMAIN heap \ {p}) \cup {q} |->
                    IF x # q THEN heap[x]
                    ELSE [fresh EXCEPT !.bytes = [i \in 1 .. new |->
                            IF i <= kept /\ Takes(f, p, i) THEN heap[p].bytes[i] ELSE @[i]]]]
      /\ misused' = (misused \/ ~Takes(f, p, IF own THEN 0 ELSE kept))

(***************************************************************************)
(* The Allocator.                                                          *)
(***************************************************************************)
\* Wrong on purpose: asks for no more bytes than the layout has.
MallocSizeBare(layout) == IF layout.align <= MALLOC_ALIGN THEN layout.size ELSE None

\* The bytes to ask for, so that the alignment C promises for them is enough.
MallocSize(layout) ==
  IF layout.align <= MALLOC_ALIGN THEN Greatest(layout.size, layout.align) ELSE None

Put(s, a, p, layout) ==
  blocks' = [blocks EXCEPT ![s] = [ptr |-> p, layout |-> layout, alloc |-> fns[a]]]

DanglingSlice(s, a, layout) == Put(s, a, Dangling, layout)

Fails(op) ==
  /\ reply' = Answer(op, FALSE)
  /\ UNCHANGED <<heap, blocks, misused>>

\* A new block in slot s; block is what C returns for it.
AllocateWith(op, s, a, layout, block) ==
  /\ \/ /\ layout.size = 0
        /\ DanglingSlice(s, a, layout)
        /\ reply' = Answer(op, TRUE)
        /\ UNCHANGED <<heap, misused>>
     \/ /\ layout.size # 0 /\ MallocSize(layout) # None
        /\ \E q \in FreeAddr :
             /\ heap' = With(q, block)
             /\ Put(s, a, q, layout)
        /\ reply' = Answer(op, TRUE)
        /\ UNCHANGED misused
     \/ layout.size # 0 /\ Fails(op)
  /\ UNCHANGED <<fns, hollow>>

Allocate(s, a, layout) ==
  blocks[s] = None /\ AllocateWith("allocate", s, a, layout, Malloc(fns[a], MallocSize(layout)))

AllocateZeroed(s, a, layout) ==
  blocks[s] = None /\ AllocateWith("allocate_zeroed", s, a, layout, Calloc(fns[a], MallocSize(layout)))

\* The slots whose block allocator a may be asked about.
Accepts(a, s) == blocks[s] # None /\ Eq(fns[a], blocks[s].alloc)

Release(s, a) ==
  IF blocks[s].layout.size # 0 THEN Free(fns[a], blocks[s].ptr) ELSE UNCHANGED <<heap, misused>>

Deallocate(s, a) ==
  /\ Accepts(a, s)
  /\ Release(s, a)
  /\ blocks' = [blocks EXCEPT ![s] = None]
  /\ reply' = Answer("deallocate", TRUE)
  /\ UNCHANGED <<fns, hollow>>

\* deallocate_by_ptr, from the drop of an OwnedCBufPtr: no layout, no allocator.
DeallocateByPtr(s) ==
  /\ blocks[s] # None /\ blocks[s].layout.size # 0 /\ blocks[s].alloc = LibcFns
  /\ Free(LibcFns, blocks[s].ptr)
  /\ blocks' = [blocks EXCEPT ![s] = None]
  /\ reply' = Answer("deallocate", TRUE)
  /\ UNCHANGED <<fns, hollow>>

\* A block that is not to be empty: a new one, or what realloc makes of it.
ResizeToSome(s, a, layout) ==
  LET old == blocks[s]
  IN  /\ layout.size # 0
      /\ \/ /\ old.layout.size = 0
            /\ AllocateWith("resize", s, a, layout, Malloc(fns[a], MallocSize(layout)))
         \/ /\ old.layout.size # 0 /\ MallocSize(layout) # None
            /\ \E q \in FreeAddr \cup {old.ptr} :
                 /\ Realloc(fns[a], old.ptr, old.layout.size, MallocSize(layout), q)
                 /\ Put(s, a, q, layout)
            /\ reply' = Answer("resize", TRUE)
            /\ UNCHANGED <<fns, hollow>>
         \/ /\ old.layout.size # 0
            /\ Fails("resize")
            /\ UNCHANGED <<fns, hollow>>

\* Wrong on purpose: shrinking to nothing does not free.
ResizeZeroKeeps(s, a, layout) ==
  /\ Accepts(a, s)
  /\ \/ /\ layout.size = 0
        /\ DanglingSlice(s, a, layout)
        /\ reply' = Answer("resize", TRUE)
        /\ UNCHANGED <<fns, heap, hollow, misused>>
     \/ ResizeToSome(s, a, layout)

\* resize, the body of grow and of shrink.
Resize(s, a, layout) ==
  /\ Accepts(a, s)
  /\ \/ /\ layout.size = 0
        /\ Release(s, a)
        /\ DanglingSlice(s, a, layout)
        /\ reply' = Answer("resize", TRUE)
        /\ UNCHANGED <<fns, hollow>>
     \/ ResizeToSome(s, a, layout)

(***************************************************************************)
(* The user of the blocks, and C.                                          *)
(***************************************************************************)
Write(s, i, v) ==
  /\ blocks[s] # None /\ i \in 1 .. blocks[s].layout.size
  /\ heap' = [heap EXCEPT ![blocks[s].ptr].bytes[i] = v]
  /\ reply' = Answer("none", TRUE)
  /\ UNCHANGED <<fns, blocks, hollow, misused>>

\* A block from C's malloc, with a layout whose size is within the block.  When
\* that size is 0 nobody looks into the block: one byte stands for any.
CGives(s, a, n, layout) ==
  /\ blocks[s] = None
  /\ layout.size \in 0 .. n /\ layout.align <= AlignOf(n)
  /\ layout.size = 0 => n = 1
  /\ \E p \in FreeAddr :
       /\ heap' = With(p, Block(Fill(n, Junk), fns[a].free))
       /\ Put(s, a, p, layout)
       /\ hollow' = IF layout.size = 0 THEN hollow \cup {p} ELSE hollow
  /\ reply' = Answer("none", TRUE)
  /\ UNCHANGED <<fns, misused>>

\* C releases a block with the matching free.
CFrees(s) ==
  /\ blocks[s] # None /\ blocks[s].ptr # Dangling
  /\ Free(blocks[s].alloc, blocks[s].ptr)
  /\ blocks' = [blocks EXCEPT ![s] = None]
  /\ hollow' = hollow \ {blocks[s].ptr}
  /\ reply' = Answer("none", TRUE)
  /\ UNCHANGED fns

Next ==
  \/ \E s \in Slot, a \in Alloc, layout \in Layout :
       Allocate(s, a, layout) \/ AllocateZeroed(s, a, layout) \/ Resize(s, a, layout)
  \/ \E s \in Slot, a \in Alloc : Deallocate(s, a)
  \/ \E s \in Slot : DeallocateByPtr(s) \/ CFrees(s)
  \/ \E s \in Slot, i \in 1 .. MaxSize, v \in Byte : Write(s, i, v)
  \/ \E s \in Slot, a \in Alloc, n \in 1 .. (MaxSize + 1), layout \in Layout : CGives(s, a, n, layout)

Spec == Init /\ [][Next]_vars

-----------------------------------------------------------------------------
(***************************************************************************)
(* Properties.                                                             *)
(***************************************************************************)
\* The types of the state; every block in the heap is of a library.
TypeOK ==
  /\ fns \in [Alloc -> AllocFns]
  /\ hollow \in SUBSET DOMAIN heap
  /\ DOMAIN heap \in SUBSET Addr
  /\ \A p \in DOMAIN heap : heap[p] \in
       [bytes : Seq(Byte \cup {Junk}), align : Aligns, lib : Libraries]
  /\ blocks \in [Slot -> BlockRecord \cup {None}]
  /\ misused \in BOOLEAN
  /\ reply.ok \in BOOLEAN

\* What a block is good for (the safety-usable invariant of malloc_size): it
\* has the size of its layout, and the alignment, by what C promises alone.
BlocksServe ==
  \A s \in Slot : blocks[s] # None /\ blocks[s].layout.size # 0 =>
    /\ blocks[s].ptr \in DOMAIN heap
    /\ blocks[s].layout.size <= Len(heap[blocks[s].ptr].bytes)
    /\ blocks[s].layout.align <= heap[blocks[s].ptr].align

\* No block of the C heap is leaked or has two owners, through every grow,
\* shrink, failure, and exchange with C, but for the blocks that C gave with a
\* layout of size 0: the allocator takes those for none and loses them.
BlocksOwnedOnce ==
  LET Owners(p) == Cardinality({s \in Slot : blocks[s] # None /\ blocks[s].ptr = p})
  IN  /\ \A p \in DOMAIN heap : Owners(p) = 1 \/ (p \in hollow /\ Owners(p) = 0)
      /\ \A s \in Slot : blocks[s] # None =>
           (blocks[s].layout.size = 0 <=> blocks[s].ptr \in hollow \cup {Dangling})

\* free and realloc get only live blocks of their own library, also when the
\* allocator that releases a block merely equals the one that made it, and the
\* copy of the default realloc stays within both blocks.
NeverMisused == ~misused

-----------------------------------------------------------------------------
\* Addresses and C hidden, a slot has memory of its own.
Abstract == INSTANCE Allocator
  WITH mem <- [s \in Slot |->
         IF blocks[s] = None THEN None
         ELSE [layout |-> blocks[s].layout,
               bytes |-> IF blocks[s].layout.size = 0 THEN <<>>
                         ELSE SubSeq(heap[blocks[s].ptr].bytes, 1, blocks[s].layout.size)]]

\* The bytes of a block are its user's alone, survive grow and shrink as far as
\* both sizes go, are zero after allocate_zeroed, and are there after an Err.
ImplementsAllocator == Abstract!Spec
=============================================================================
