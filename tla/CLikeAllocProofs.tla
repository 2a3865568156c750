-------------------------- MODULE CLikeAllocProofs --------------------------
(***************************************************************************)
(* Proofs about CLikeAlloc, for any number of slots, allocators, addresses *)
(* and alignments.                                                         *)
(*                                                                         *)
(* A call is about one slot and the addresses it has or gets, and no other *)
(* slot has a claim on these (Local).  So an action needs a proof for its  *)
(* slot (Mine), and lemma Frame gives the invariant for the rest, and that *)
(* the users of the other slots see no change.                             *)
(***************************************************************************)
EXTENDS CLikeAlloc, FiniteSetTheorems, SequenceTheorems, WellFoundedInduction, TLAPS

(***************************************************************************)
(* Lemmas about the operators of the model.                                *)
(***************************************************************************)
\* C's promise for n bytes is the greatest alignment that it may be.
LEMMA AlignOfIsGreatest ==
  ASSUME NEW n \in Nat \ {0}
  PROVE  /\ AlignOf(n) \in Aligns
         /\ \A a \in Aligns : a <= MALLOC_ALIGN /\ a <= n => a <= AlignOf(n)
PROOF
  <1> DEFINE Fits == {a \in Aligns : a <= MALLOC_ALIGN /\ a <= n}
             Gaps == {m \in Nat : MALLOC_ALIGN - m \in Fits}
             R == OpToRel(<, Nat)
  <1>1. MALLOC_ALIGN \in Nat \ {0} /\ Aligns \subseteq Nat \ {0} /\ 1 \in Aligns
    BY CLikeAllocAssumption
  <1>2. 1 \in Fits
    BY <1>1
  <1>3. MALLOC_ALIGN - 1 \in Gaps
    BY <1>1, <1>2
  <1>4. PICK m \in Gaps : \A y \in Gaps : <<y, m>> \notin R
    <2> HIDE DEF Gaps, R
    <2>1. IsWellFoundedOn(R, Nat)
      BY NatLessThanWellFounded DEF R
    <2>2. Gaps \subseteq Nat /\ Gaps # {}
      BY <1>3 DEF Gaps
    <2> QED
      BY <2>1, <2>2, WFMin
  <1>5. \A y \in Gaps : ~(y < m)
    BY <1>4 DEF OpToRel
  <1>6. ASSUME NEW a \in Fits PROVE a <= MALLOC_ALIGN - m
    <2>1. MALLOC_ALIGN - a \in Gaps
      BY <1>1
    <2>2. ~(MALLOC_ALIGN - a < m)
      BY <1>5, <2>1
    <2>3. m \in Nat /\ a \in Nat /\ MALLOC_ALIGN \in Nat
      BY <1>1
    <2> QED
      BY <2>2, <2>3
  <1>7. \E a \in Aligns :
          /\ a <= MALLOC_ALIGN /\ a <= n
          /\ \A x \in Aligns : x <= MALLOC_ALIGN /\ x <= n => x <= a
    BY <1>6
  <1> QED
    BY <1>7 DEF AlignOf

\* The functions of one allocator are of one library, the one of its free, and it
\* has a function to allocate with.
LEMMA OneLibrary ==
  ASSUME NEW f \in AllocFns
  PROVE  /\ f.free \in Libraries
         /\ f.malloc \in {f.free, None} /\ f.calloc \in {f.free, None}
         /\ f.realloc \in {f.free, None}
         /\ f.malloc # None \/ f.calloc # None
PROOF
  <1>1. None \notin Libraries
    BY CLikeAllocAssumption
  <1>2. CASE f = LibcFns
    BY <1>1, <1>2 DEF LibcFns, Libraries
  <1>3. CASE f = MallocAndCallocFns
    BY <1>1, <1>3 DEF MallocAndCallocFns, CtxFns, Libraries
  <1>4. CASE f = ReallocFns
    BY <1>1, <1>4 DEF ReallocFns, CtxFns, Libraries
  <1>5. CASE f \in CustomFns
    BY <1>1, <1>5 DEF CustomFns, NewWithMalloc, NewWithCalloc, Libraries
  <1> QED
    BY <1>2, <1>3, <1>4, <1>5 DEF AllocFns

CellByte == Byte \cup {Junk}
HeapBlock == [bytes : Seq(CellByte), align : Aligns, lib : Libraries]

\* A block of n bytes of one value.
LEMMA FilledBlock ==
  ASSUME NEW n \in Nat \ {0}, NEW v \in CellByte, NEW lib \in Libraries
  PROVE  /\ Block(Fill(n, v), lib) \in HeapBlock
         /\ Block(Fill(n, v), lib).lib = lib
         /\ Block(Fill(n, v), lib).align = AlignOf(n)
         /\ Len(Block(Fill(n, v), lib).bytes) = n
         /\ \A i \in 1 .. n : Block(Fill(n, v), lib).bytes[i] = v
PROOF
  <1> DEFINE b == Fill(n, v)
  <1>1. b \in Seq(CellByte) /\ Len(b) = n /\ \A i \in 1 .. n : b[i] = v
    BY DEF Fill
  <1> HIDE DEF b
  <1>2. AlignOf(n) \in Aligns
    BY AlignOfIsGreatest
  <1> QED
    BY <1>1, <1>2 DEF Block, HeapBlock, b

\* malloc and calloc, whichever function they fall back on, give a block of their
\* allocator's library; calloc's is zero.
LEMMA MallocBlock ==
  ASSUME NEW f \in AllocFns, NEW n \in Nat \ {0}
  PROVE  /\ Malloc(f, n) \in HeapBlock /\ Malloc(f, n).lib = f.free
         /\ Malloc(f, n).align = AlignOf(n) /\ Len(Malloc(f, n).bytes) = n
PROOF
  <1>1. Junk \in CellByte /\ 0 \in CellByte
    BY CLikeAllocAssumption DEF CellByte
  <1> QED
    BY <1>1, OneLibrary, FilledBlock DEF Malloc

LEMMA CallocBlock ==
  ASSUME NEW f \in AllocFns, NEW n \in Nat \ {0}
  PROVE  /\ Calloc(f, n) \in HeapBlock /\ Calloc(f, n).lib = f.free
         /\ Calloc(f, n).align = AlignOf(n) /\ Len(Calloc(f, n).bytes) = n
         /\ \A i \in 1 .. n : Calloc(f, n).bytes[i] = 0
PROOF
  <1>1. 0 \in CellByte
    BY CLikeAllocAssumption DEF CellByte
  <1>2. Calloc(f, n) = Block(Fill(n, 0), f.free)
    BY OneLibrary DEF Calloc, DefaultCalloc
  <1> QED
    BY <1>1, <1>2, OneLibrary, FilledBlock

\* malloc_size asks for enough bytes that C's promise for them is the layout's
\* alignment.
LEMMA MallocSizeServes ==
  ASSUME NEW layout \in Layout, MallocSize(layout) # None, layout.size # 0
  PROVE  /\ MallocSize(layout) \in Nat \ {0}
         /\ layout.size <= MallocSize(layout)
         /\ layout.align <= AlignOf(MallocSize(layout))
PROOF
  <1>1. layout.size \in Nat \ {0} /\ layout.align \in Aligns /\ layout.align \in Nat \ {0}
    <2>1. MaxSize \in Nat /\ Aligns \subseteq Nat \ {0}
      BY CLikeAllocAssumption
    <2>2. layout.size \in 0 .. MaxSize /\ layout.align \in Aligns
      BY DEF Layout
    <2>3. layout.size \in Nat \ {0}
      BY <2>1, <2>2
    <2>4. layout.align \in Nat \ {0}
      BY <2>1, <2>2
    <2> QED
      BY <2>2, <2>3, <2>4
  <1>2. layout.align <= MALLOC_ALIGN /\ MallocSize(layout) = Greatest(layout.size, layout.align)
    BY DEF MallocSize
  <1>3. /\ MallocSize(layout) \in Nat \ {0}
        /\ layout.size <= MallocSize(layout) /\ layout.align <= MallocSize(layout)
    BY <1>1, <1>2 DEF Greatest
  <1> QED
    BY <1>1, <1>2, <1>3, AlignOfIsGreatest

-----------------------------------------------------------------------------
(***************************************************************************)
(* The invariant.                                                          *)
(***************************************************************************)
\* What is in a slot: for a layout of size 0 nothing, or what C gave; otherwise
\* a block that serves the layout.  A block is of its allocator's library.
SlotOK(s) ==
  blocks[s] # None =>
    /\ blocks[s].layout.size = 0 => blocks[s].ptr \in hollow \cup {Dangling}
    /\ blocks[s].layout.size # 0 =>
         /\ blocks[s].ptr \in DOMAIN heap \ hollow
         /\ blocks[s].layout.size <= Len(heap[blocks[s].ptr].bytes)
         /\ blocks[s].layout.align <= heap[blocks[s].ptr].align
    /\ blocks[s].ptr # Dangling => heap[blocks[s].ptr].lib = blocks[s].alloc.free

\* Two slots have no block in common.
OneSlot ==
  \A s, t \in Slot :
    blocks[s] # None /\ blocks[t] # None /\ blocks[s].ptr = blocks[t].ptr => s = t \/ blocks[s].ptr = Dangling

\* A block that is in no slot was given by C with a layout of size 0.
NoLeak ==
  \A p \in DOMAIN heap \ hollow : \E s \in Slot : blocks[s] # None /\ blocks[s].ptr = p

IInv ==
  /\ TypeOK
  /\ \A s \in Slot : SlotOK(s)
  /\ OneSlot
  /\ NoLeak
  /\ NeverMisused

\* What the user of a slot sees of it, as in the abstract specification.
View(s) ==
  IF blocks[s] = None THEN None
  ELSE [layout |-> blocks[s].layout,
        bytes |-> IF blocks[s].layout.size = 0 THEN <<>>
                  ELSE SubSeq(heap[blocks[s].ptr].bytes, 1, blocks[s].layout.size)]

\* A step about slot s and the addresses P, and nothing else.
Local(s, P) ==
  /\ \A t \in Slot \ {s} : /\ blocks'[t] = blocks[t]
                           /\ blocks[t] # None => blocks[t].ptr \notin P
  /\ blocks[s] # None => blocks[s].ptr \notin Addr \ P
  /\ blocks'[s] # None => blocks'[s].ptr \notin Addr \ P
  /\ \A p \in Addr \ P : /\ p \in DOMAIN heap' <=> p \in DOMAIN heap
                         /\ p \in DOMAIN heap => heap'[p] = heap[p]
                         /\ p \in hollow' <=> p \in hollow

\* What an action has to show for its slot.
Mine(s, P) ==
  /\ SlotOK(s)'
  /\ \A p \in P : p \in DOMAIN heap' \ hollow' => blocks'[s] # None /\ blocks'[s].ptr = p

OthersKept(s) == \A t \in Slot \ {s} : View(t)' = View(t)

\* What is in a slot has a type.
LEMMA SlotType ==
  ASSUME TypeOK, NEW s \in Slot, blocks[s] # None
  PROVE  /\ blocks[s] \in BlockRecord
         /\ blocks[s].ptr \in Addr \cup {Dangling}
         /\ blocks[s].layout \in Layout /\ blocks[s].layout.size \in Nat
         /\ blocks[s].alloc \in AllocFns
PROOF
  <1>1. blocks[s] \in BlockRecord
    BY DEF TypeOK
  <1>2. blocks[s].layout \in Layout /\ blocks[s].ptr \in Addr \cup {Dangling} /\ blocks[s].alloc \in AllocFns
    BY <1>1 DEF BlockRecord
  <1>3. blocks[s].layout.size \in Nat
    BY <1>2, CLikeAllocAssumption DEF Layout
  <1> QED
    BY <1>1, <1>2, <1>3

\* A step keeps what it does not touch.
LEMMA Frame ==
  ASSUME NEW s \in Slot, NEW P \in SUBSET Addr,
         IInv, TypeOK', Local(s, P), Mine(s, P), ~misused'
  PROVE  IInv' /\ OthersKept(s)
PROOF
  <1>1. ASSUME NEW t \in Slot \ {s}
        PROVE  SlotOK(t)' /\ View(t)' = View(t)
    <2>1. blocks'[t] = blocks[t]
      BY DEF Local
    <2>2. CASE blocks[t] = None
      BY <2>1, <2>2 DEF SlotOK, View
    <2>3. CASE blocks[t] # None
      <3> DEFINE p == blocks[t].ptr
      <3>1. SlotOK(t) /\ p \in Addr \cup {Dangling} /\ p \notin P /\ hollow \subseteq DOMAIN heap
        BY <2>3, SlotType DEF Local, IInv, TypeOK
      <3>2. CASE p = Dangling
        <4>1. Dangling \notin Addr /\ DOMAIN heap \subseteq Addr
          BY CLikeAllocAssumption DEF IInv, TypeOK
        <4>2. blocks[t].layout.size = 0
          BY <2>3, <3>1, <3>2, <4>1 DEF SlotOK
        <4> QED
          BY <2>1, <2>3, <3>1, <3>2, <4>2 DEF SlotOK, View
      <3>3. CASE p \in Addr
        <4>1. /\ p \in DOMAIN heap' <=> p \in DOMAIN heap
              /\ p \in DOMAIN heap => heap'[p] = heap[p]
              /\ p \in hollow' <=> p \in hollow
          BY <3>1, <3>3 DEF Local
        <4>2. p # Dangling
          BY <3>3, CLikeAllocAssumption
        <4>3. p \in DOMAIN heap
          BY <2>3, <3>1, <4>2 DEF SlotOK
        <4> QED
          BY <2>1, <2>3, <3>1, <4>1, <4>3 DEF SlotOK, View
      <3> QED
        BY <3>1, <3>2, <3>3
    <2> QED
      BY <2>2, <2>3
  <1>2. OneSlot'
    <2> SUFFICES ASSUME NEW t \in Slot, NEW u \in Slot, blocks'[t] # None, blocks'[u] # None,
                        blocks'[t].ptr = blocks'[u].ptr, blocks'[t].ptr # Dangling
                 PROVE  t = u
      BY DEF OneSlot
    <2>1. blocks'[t].ptr \in Addr
      BY DEF TypeOK, BlockRecord
    <2> QED
      BY <2>1 DEF IInv, OneSlot, Local
  <1>3. NoLeak'
    <2> SUFFICES ASSUME NEW p \in DOMAIN heap' \ hollow'
                 PROVE  \E t \in Slot : blocks'[t] # None /\ blocks'[t].ptr = p
      BY DEF NoLeak
    <2>1. CASE p \in P
      BY <2>1 DEF Mine
    <2>2. CASE p \notin P
      <3>1. p \in Addr /\ p \in DOMAIN heap \ hollow
        BY <2>2 DEF Local, TypeOK
      <3>2. PICK t \in Slot : blocks[t] # None /\ blocks[t].ptr = p
        BY <3>1 DEF IInv, NoLeak
      <3>3. t # s
        BY <2>2, <3>1, <3>2 DEF Local
      <3> QED
        BY <3>2, <3>3 DEF Local
    <2> QED
      BY <2>1, <2>2
  <1> QED
    BY <1>1, <1>2, <1>3 DEF IInv, Mine, NeverMisused, OthersKept

-----------------------------------------------------------------------------
(***************************************************************************)
(* What a call does to its slot.                                           *)
(***************************************************************************)
\* A step about a slot of which only the reply differs.
LEMMA Same ==
  ASSUME IInv, UNCHANGED <<fns, heap, blocks, hollow, misused>>, reply'.ok \in BOOLEAN
  PROVE  IInv'
  BY DEF IInv, TypeOK, SlotOK, OneSlot, NoLeak, NeverMisused

\* What stays when a slot gets b.
LEMMA SlotGets ==
  ASSUME TypeOK, NEW s \in Slot, NEW b \in BlockRecord \cup {None}, blocks' = [blocks EXCEPT ![s] = b]
  PROVE  /\ blocks' \in [Slot -> BlockRecord \cup {None}]
         /\ blocks'[s] = b /\ \A t \in Slot \ {s} : blocks'[t] = blocks[t]
  BY DEF TypeOK

\* A slot without a block, or with one that its layout makes none, gets nothing,
\* or the empty block.
LEMMA Emptied ==
  ASSUME IInv, NEW s \in Slot, blocks[s] # None => blocks[s].layout.size = 0,
         NEW b \in BlockRecord \cup {None},
         b # None => b.layout.size = 0 /\ b.ptr = Dangling,
         blocks' = [blocks EXCEPT ![s] = b],
         UNCHANGED <<fns, heap, hollow, misused>>, reply'.ok \in BOOLEAN
  PROVE  IInv' /\ OthersKept(s)
PROOF
  <1> DEFINE P == {p \in Addr : blocks[s] # None /\ blocks[s].ptr = p}
  <1>1. /\ blocks' \in [Slot -> BlockRecord \cup {None}]
        /\ blocks'[s] = b /\ \A t \in Slot \ {s} : blocks'[t] = blocks[t]
    BY SlotGets DEF IInv
  <1>2. TypeOK'
    BY <1>1 DEF IInv, TypeOK
  <1>3. \A t \in Slot \ {s} : blocks[t] # None => blocks[t].ptr \notin P
    BY CLikeAllocAssumption DEF IInv, OneSlot
  <1>4. \A p \in P : p \in hollow
    BY CLikeAllocAssumption DEF IInv, SlotOK
  <1>5. Local(s, P)
    BY <1>1, <1>3, CLikeAllocAssumption DEF Local
  <1>6. SlotOK(s)'
    BY <1>1 DEF SlotOK
  <1>7. Mine(s, P)
    BY <1>4, <1>6 DEF Mine
  <1> HIDE DEF P
  <1>8. P \in SUBSET Addr
    BY DEF P
  <1> QED
    BY <1>2, <1>5, <1>7, <1>8, Frame DEF IInv, NeverMisused

\* The block of a slot goes back to C.
LEMMA Freed ==
  ASSUME IInv, NEW s \in Slot, blocks[s] # None, blocks[s].ptr # Dangling,
         NEW b \in BlockRecord \cup {None},
         b # None => b.layout.size = 0 /\ b.ptr = Dangling,
         heap' = Without(blocks[s].ptr), hollow' = hollow \ {blocks[s].ptr},
         blocks' = [blocks EXCEPT ![s] = b],
         UNCHANGED <<fns, misused>>, reply'.ok \in BOOLEAN
  PROVE  IInv' /\ OthersKept(s)
PROOF
  <1> DEFINE p == blocks[s].ptr
  <1>1. /\ blocks' \in [Slot -> BlockRecord \cup {None}]
        /\ blocks'[s] = b /\ \A t \in Slot \ {s} : blocks'[t] = blocks[t]
    BY SlotGets DEF IInv
  <1>2. /\ DOMAIN heap' = DOMAIN heap \ {p}
        /\ \A x \in DOMAIN heap' : heap'[x] = heap[x]
    BY DEF Without
  <1>3. p \in Addr
    BY SlotType DEF IInv
  <1>4. TypeOK'
    BY <1>1, <1>2 DEF IInv, TypeOK
  <1>5. \A t \in Slot \ {s} : blocks[t] # None => blocks[t].ptr # p
    BY DEF IInv, OneSlot
  <1>6. Local(s, {p})
    BY <1>1, <1>2, <1>5, CLikeAllocAssumption DEF Local
  <1>7. SlotOK(s)'
    BY <1>1 DEF SlotOK
  <1>8. Mine(s, {p})
    BY <1>2, <1>7 DEF Mine
  <1> QED
    BY <1>3, <1>4, <1>6, <1>8, Frame DEF IInv, NeverMisused

\* A slot without a block gets one that C made.
LEMMA Filled ==
  ASSUME IInv, NEW s \in Slot, blocks[s] # None => blocks[s].layout.size = 0,
         NEW q \in FreeAddr, NEW block \in HeapBlock, NEW b \in BlockRecord,
         b.ptr = q, b.layout.size <= Len(block.bytes), b.layout.align <= block.align,
         block.lib = b.alloc.free,
         heap' = With(q, block),
         hollow' = IF b.layout.size = 0 THEN hollow \cup {q} ELSE hollow,
         blocks' = [blocks EXCEPT ![s] = b],
         UNCHANGED <<fns, misused>>, reply'.ok \in BOOLEAN
  PROVE  IInv' /\ OthersKept(s)
PROOF
  <1> DEFINE P == {q} \cup {p \in Addr : blocks[s] # None /\ blocks[s].ptr = p}
  <1>1. /\ blocks' \in [Slot -> BlockRecord \cup {None}]
        /\ blocks'[s] = b /\ \A t \in Slot \ {s} : blocks'[t] = blocks[t]
    BY SlotGets DEF IInv
  <1>2. q \in Addr /\ q \notin DOMAIN heap /\ q # Dangling /\ hollow \subseteq DOMAIN heap
    BY CLikeAllocAssumption DEF FreeAddr, IInv, TypeOK
  <1>3. /\ DOMAIN heap' = DOMAIN heap \cup {q} /\ heap'[q] = block
        /\ \A x \in DOMAIN heap : heap'[x] = heap[x]
    BY <1>2 DEF With
  <1>4. hollow' \subseteq DOMAIN heap' /\ DOMAIN heap' \subseteq Addr
    BY <1>2, <1>3 DEF IInv, TypeOK
  <1>5. \A x \in DOMAIN heap' : heap'[x] \in HeapBlock
    BY <1>3 DEF IInv, TypeOK, HeapBlock, CellByte
  <1>6. TypeOK'
    BY <1>1, <1>4, <1>5 DEF IInv, TypeOK, HeapBlock, CellByte
  <1>7. \A t \in Slot : blocks[t] # None => blocks[t].ptr # q
    BY <1>2 DEF IInv, SlotOK
  <1>8. \A t \in Slot \ {s} : blocks[t] # None => blocks[t].ptr \notin P
    BY <1>7, CLikeAllocAssumption DEF IInv, OneSlot
  <1>9. Local(s, P)
    BY <1>1, <1>2, <1>3, <1>8, CLikeAllocAssumption DEF Local
  <1>10. SlotOK(s)'
    BY <1>1, <1>2, <1>3 DEF SlotOK
  <1>11. \A p \in P : p = q \/ p \in hollow
    BY CLikeAllocAssumption DEF IInv, SlotOK
  <1>12. Mine(s, P)
    <2>1. b # None
      BY CLikeAllocAssumption
    <2> QED
      BY <1>1, <1>10, <1>11, <2>1 DEF Mine
  <1> HIDE DEF P
  <1>13. P \in SUBSET Addr
    BY <1>2 DEF P
  <1> QED
    BY <1>6, <1>9, <1>12, <1>13, Frame DEF IInv, NeverMisused

\* The block of a slot moves, or changes where it is.
LEMMA Moved ==
  ASSUME IInv, NEW s \in Slot, blocks[s] # None, blocks[s].layout.size # 0,
         NEW q \in FreeAddr \cup {blocks[s].ptr}, NEW block \in HeapBlock, NEW b \in BlockRecord,
         b.ptr = q, b.layout.size # 0, b.layout.size <= Len(block.bytes), b.layout.align <= block.align,
         block.lib = b.alloc.free,
         DOMAIN heap' = (DOMAIN heap \ {blocks[s].ptr}) \cup {q}, heap'[q] = block,
         \A x \in DOMAIN heap' : x # q => heap'[x] = heap[x],
         blocks' = [blocks EXCEPT ![s] = b],
         UNCHANGED <<fns, hollow, misused>>, reply'.ok \in BOOLEAN
  PROVE  IInv' /\ OthersKept(s)
PROOF
  <1> DEFINE p == blocks[s].ptr
             P == {p, q}
  <1>1. /\ blocks' \in [Slot -> BlockRecord \cup {None}]
        /\ blocks'[s] = b /\ \A t \in Slot \ {s} : blocks'[t] = blocks[t]
    BY SlotGets DEF IInv
  <1>2. p \in DOMAIN heap \ hollow /\ hollow \subseteq DOMAIN heap /\ DOMAIN heap \subseteq Addr
    BY DEF IInv, SlotOK, TypeOK
  <1>3. q \in Addr /\ q \notin hollow
    BY <1>2 DEF FreeAddr
  <1>4. hollow' \subseteq DOMAIN heap' /\ DOMAIN heap' \subseteq Addr
    BY <1>2, <1>3
  <1>5. \A x \in DOMAIN heap' : heap'[x] \in HeapBlock
    BY DEF IInv, TypeOK, HeapBlock, CellByte
  <1>6. TypeOK'
    BY <1>1, <1>4, <1>5 DEF IInv, TypeOK, HeapBlock, CellByte
  <1>7. \A t \in Slot \ {s} : blocks[t] # None => blocks[t].ptr \notin P
    <2>1. \A t \in Slot \ {s} : blocks[t] # None => blocks[t].ptr # p
      BY <1>2, CLikeAllocAssumption DEF IInv, OneSlot
    <2>2. q \in FreeAddr => \A t \in Slot : blocks[t] # None => blocks[t].ptr # q
      BY <1>2, CLikeAllocAssumption DEF IInv, SlotOK, FreeAddr
    <2> QED
      BY <2>1, <2>2
  <1>8. Local(s, P)
    BY <1>1, <1>7 DEF Local
  <1>9. SlotOK(s)'
    BY <1>1, <1>3 DEF SlotOK
  <1>10. Mine(s, P)
    <2>1. b # None
      BY CLikeAllocAssumption
    <2> QED
      BY <1>1, <1>9, <2>1 DEF Mine
  <1> HIDE DEF P
  <1>11. P \in SUBSET Addr
    BY <1>2, <1>3 DEF P
  <1> QED
    BY <1>6, <1>8, <1>10, <1>11, Frame DEF IInv, NeverMisused

-----------------------------------------------------------------------------
(***************************************************************************)
(* What the user of a slot sees.                                           *)
(***************************************************************************)
Bytes(n) == [1 .. n -> CellByte]

\* The bytes that b shows in slot s are those of its block.
Shows(s, bytes) ==
  /\ bytes \in Bytes(blocks[s].layout.size)
  /\ View(s) = [layout |-> blocks[s].layout, bytes |-> bytes]
  /\ \A i \in 1 .. blocks[s].layout.size : bytes[i] = heap[blocks[s].ptr].bytes[i]

\* What is in a slot shows bytes.
LEMMA SlotShows == IInv => \A s \in Slot : blocks[s] # None => \E bytes : Shows(s, bytes)
PROOF
  <1> SUFFICES ASSUME IInv, NEW s \in Slot, blocks[s] # None
               PROVE  \E bytes : Shows(s, bytes)
    OBVIOUS
  <1> DEFINE n == blocks[s].layout.size
             seq == heap[blocks[s].ptr].bytes
  <1>1. n \in Nat
    BY SlotType DEF IInv
  <1>2. CASE n = 0
    <2>1. <<>> \in Bytes(0)
      BY DEF Bytes
    <2>2. Shows(s, <<>>)
      BY <1>2, <2>1 DEF Shows, View
    <2> QED
      BY <2>2
  <1>3. CASE n # 0
    <2>1. seq \in Seq(CellByte) /\ n <= Len(seq)
      BY <1>3 DEF IInv, SlotOK, TypeOK, CellByte
    <2> DEFINE bytes == SubSeq(seq, 1, n)
    <2>2. bytes \in Seq(CellByte) /\ Len(bytes) = n /\ \A i \in 1 .. n : bytes[i] = seq[i]
      <3>1. \A i \in 1 .. n : seq[i] \in CellByte
        BY <1>1, <2>1
      <3> HIDE DEF seq
      <3> QED
        BY <1>1, <1>3, <3>1, SubSeqProperties
    <2>3. bytes \in Bytes(n)
      <3> HIDE DEF bytes, n
      <3> QED
        BY <2>2, LenProperties DEF Bytes
    <2>4. View(s) = [layout |-> blocks[s].layout, bytes |-> bytes]
      BY <1>3 DEF View
    <2>5. Shows(s, bytes)
      BY <2>2, <2>3, <2>4 DEF Shows
    <2> QED
      BY <2>5
  <1> QED
    BY <1>2, <1>3

\* The same after a step.
LEMMA SlotShowsNext == IInv' => (\A s \in Slot : blocks[s] # None => \E bytes : Shows(s, bytes))'
  BY SlotShows, PTL

-----------------------------------------------------------------------------
(***************************************************************************)
(* The calls.                                                              *)
(***************************************************************************)
\* A call that failed.
Failed(op) == reply' = Answer(op, FALSE) /\ UNCHANGED <<heap, blocks>>

\* A call that put a block of this layout in slot s.
Placed(op, s, layout) ==
  /\ reply' = Answer(op, TRUE)
  /\ OthersKept(s)
  /\ blocks'[s] # None /\ blocks'[s].layout = layout

LEMMA FailsStep ==
  ASSUME IInv, NEW op, Fails(op), UNCHANGED <<fns, hollow>>
  PROVE  IInv' /\ Failed(op)
  BY Same DEF Fails, Failed, Answer

LEMMA PutBlock ==
  ASSUME TypeOK, NEW a \in Alloc, NEW p \in Addr \cup {Dangling}, NEW layout \in Layout
  PROVE  [ptr |-> p, layout |-> layout, alloc |-> fns[a]] \in BlockRecord
  BY DEF TypeOK, BlockRecord

\* The body of allocate and of allocate_zeroed.
LEMMA AllocateWithStep ==
  ASSUME IInv, NEW op, NEW s \in Slot, NEW a \in Alloc, NEW layout \in Layout, NEW block,
         blocks[s] # None => blocks[s].layout.size = 0,
         layout.size # 0 /\ MallocSize(layout) # None =>
           /\ block \in HeapBlock /\ block.lib = fns[a].free
           /\ block.align = AlignOf(MallocSize(layout)) /\ Len(block.bytes) = MallocSize(layout),
         AllocateWith(op, s, a, layout, block)
  PROVE  /\ IInv'
         /\ \/ Failed(op)
            \/ /\ Placed(op, s, layout)
               /\ layout.size # 0 => MallocSize(layout) # None /\ heap'[blocks'[s].ptr] = block
PROOF
  <1>1. CASE /\ layout.size = 0
             /\ DanglingSlice(s, a, layout)
             /\ reply' = Answer(op, TRUE)
             /\ UNCHANGED <<heap, misused>>
    <2> DEFINE b == [ptr |-> Dangling, layout |-> layout, alloc |-> fns[a]]
    <2>1. b \in BlockRecord
      BY PutBlock DEF IInv
    <2>2. b # None
      BY <2>1, CLikeAllocAssumption
    <2>3. b.ptr = Dangling /\ b.layout = layout
      OBVIOUS
    <2>4. blocks' = [blocks EXCEPT ![s] = b] /\ UNCHANGED <<fns, heap, hollow, misused>>
      BY <1>1 DEF DanglingSlice, Put, AllocateWith
    <2> HIDE DEF b
    <2>5. reply'.ok \in BOOLEAN
      BY <1>1 DEF Answer
    <2>6. IInv' /\ OthersKept(s)
      BY <1>1, <2>1, <2>3, <2>4, <2>5, Emptied
    <2>7. blocks'[s] = b
      BY <2>1, <2>4, SlotGets DEF IInv
    <2> QED
      BY <1>1, <2>2, <2>3, <2>6, <2>7 DEF Placed
  <1>2. CASE /\ layout.size # 0 /\ MallocSize(layout) # None
             /\ \E q \in FreeAddr : heap' = With(q, block) /\ Put(s, a, q, layout)
             /\ reply' = Answer(op, TRUE)
             /\ UNCHANGED misused
    <2>1. PICK q \in FreeAddr : heap' = With(q, block) /\ Put(s, a, q, layout)
      BY <1>2
    <2> DEFINE b == [ptr |-> q, layout |-> layout, alloc |-> fns[a]]
    <2>2. b \in BlockRecord
      BY PutBlock DEF IInv, FreeAddr
    <2>3. b # None
      BY <2>2, CLikeAllocAssumption
    <2>4. b.ptr = q /\ b.layout = layout /\ b.alloc = fns[a]
      OBVIOUS
    <2>5. blocks' = [blocks EXCEPT ![s] = b]
      BY <2>1 DEF Put
    <2> HIDE DEF b
    <2>6. /\ b.layout.size <= Len(block.bytes) /\ b.layout.align <= block.align
          /\ block \in HeapBlock /\ block.lib = b.alloc.free
      BY <1>2, <2>4, MallocSizeServes
    <2>7. reply'.ok \in BOOLEAN
      BY <1>2 DEF Answer
    <2>8. hollow' = IF b.layout.size = 0 THEN hollow \cup {q} ELSE hollow
      BY <1>2, <2>4 DEF AllocateWith
    <2>9. UNCHANGED <<fns, misused>>
      BY <1>2 DEF AllocateWith
    <2>10. IInv' /\ OthersKept(s)
      BY <2>1, <2>2, <2>4, <2>5, <2>6, <2>7, <2>8, <2>9, Filled
    <2>11. blocks'[s] = b
      BY <2>2, <2>5, SlotGets DEF IInv
    <2>12. heap'[q] = block
      BY <2>1 DEF With
    <2> QED
      BY <1>2, <2>3, <2>4, <2>10, <2>11, <2>12 DEF Placed
  <1>3. CASE layout.size # 0 /\ Fails(op)
    BY <1>3, FailsStep DEF AllocateWith
  <1> QED
    BY <1>1, <1>2, <1>3 DEF AllocateWith

LEMMA AllocateStep ==
  ASSUME IInv, NEW s \in Slot, NEW a \in Alloc, NEW layout \in Layout, Allocate(s, a, layout)
  PROVE  IInv' /\ (Failed("allocate") \/ Placed("allocate", s, layout))
PROOF
  <1> DEFINE block == Malloc(fns[a], MallocSize(layout))
  <1>1. fns[a] \in AllocFns
    BY DEF IInv, TypeOK
  <1>2. layout.size # 0 /\ MallocSize(layout) # None =>
           /\ block \in HeapBlock /\ block.lib = fns[a].free
           /\ block.align = AlignOf(MallocSize(layout)) /\ Len(block.bytes) = MallocSize(layout)
    BY <1>1, MallocSizeServes, MallocBlock
  <1>3. blocks[s] = None /\ AllocateWith("allocate", s, a, layout, block)
    BY DEF Allocate
  <1> HIDE DEF block
  <1> QED
    BY <1>2, <1>3, AllocateWithStep

LEMMA AllocateZeroedStep ==
  ASSUME IInv, NEW s \in Slot, NEW a \in Alloc, NEW layout \in Layout, AllocateZeroed(s, a, layout)
  PROVE  /\ IInv'
         /\ \/ Failed("allocate_zeroed")
            \/ /\ Placed("allocate_zeroed", s, layout)
               /\ \A i \in 1 .. layout.size : heap'[blocks'[s].ptr].bytes[i] = 0
PROOF
  <1> DEFINE block == Calloc(fns[a], MallocSize(layout))
  <1>1. fns[a] \in AllocFns
    BY DEF IInv, TypeOK
  <1>2. layout.size # 0 /\ MallocSize(layout) # None =>
           /\ block \in HeapBlock /\ block.lib = fns[a].free
           /\ block.align = AlignOf(MallocSize(layout)) /\ Len(block.bytes) = MallocSize(layout)
    BY <1>1, MallocSizeServes, CallocBlock
  <1>3. layout.size # 0 /\ MallocSize(layout) # None => \A i \in 1 .. layout.size : block.bytes[i] = 0
    <2>1. layout.size \in Nat
      BY CLikeAllocAssumption DEF Layout
    <2> QED
      BY <1>1, <2>1, MallocSizeServes, CallocBlock
  <1>4. blocks[s] = None /\ AllocateWith("allocate_zeroed", s, a, layout, block)
    BY DEF AllocateZeroed
  <1> HIDE DEF block
  <1>5. /\ IInv'
        /\ \/ Failed("allocate_zeroed")
           \/ /\ Placed("allocate_zeroed", s, layout)
              /\ layout.size # 0 => MallocSize(layout) # None /\ heap'[blocks'[s].ptr] = block
    BY <1>2, <1>4, AllocateWithStep
  <1>6. layout.size = 0 => 1 .. layout.size = {}
    OBVIOUS
  <1> QED
    BY <1>3, <1>5, <1>6

\* free of the block of a slot, by an allocator whose free is that of the block's.
LEMMA FreeTakes ==
  ASSUME IInv, NEW s \in Slot, blocks[s] # None, blocks[s].ptr # Dangling,
         NEW f, f.free = blocks[s].alloc.free
  PROVE  /\ Takes(f, blocks[s].ptr, 0)
         /\ Free(f, blocks[s].ptr) => heap' = Without(blocks[s].ptr) /\ misused' = misused
PROOF
  <1> DEFINE p == blocks[s].ptr
  <1>1. p \in DOMAIN heap /\ heap[p].lib = blocks[s].alloc.free
    BY DEF IInv, SlotOK, TypeOK
  <1>2. Len(heap[p].bytes) \in Nat
    BY <1>1 DEF IInv, TypeOK
  <1>3. Takes(f, p, 0)
    BY <1>1, <1>2 DEF Takes
  <1> QED
    BY <1>3 DEF Free, IInv, NeverMisused, TypeOK

\* A slot that gives its block up, and has none or the empty one then.
LEMMA ReleaseStep ==
  ASSUME IInv, NEW s \in Slot, NEW a \in Alloc, Accepts(a, s), Release(s, a),
         NEW b \in BlockRecord \cup {None},
         b # None => b.layout.size = 0 /\ b.ptr = Dangling,
         blocks' = [blocks EXCEPT ![s] = b],
         UNCHANGED <<fns, hollow>>, reply'.ok \in BOOLEAN
  PROVE  IInv' /\ OthersKept(s)
PROOF
  <1>1. blocks[s] # None /\ fns[a].free = blocks[s].alloc.free
    BY DEF Accepts, Eq
  <1>2. CASE blocks[s].layout.size = 0
    <2>1. UNCHANGED <<heap, misused>>
      BY <1>2 DEF Release
    <2> QED
      BY <1>2, <2>1, Emptied
  <1>3. CASE blocks[s].layout.size # 0
    <2>1. blocks[s].ptr # Dangling /\ blocks[s].ptr \notin hollow
      BY <1>1, <1>3, CLikeAllocAssumption DEF IInv, SlotOK, TypeOK
    <2>2. Free(fns[a], blocks[s].ptr)
      BY <1>3 DEF Release
    <2>3. heap' = Without(blocks[s].ptr) /\ misused' = misused
      BY <1>1, <2>1, <2>2, FreeTakes
    <2>4. hollow' = hollow \ {blocks[s].ptr}
      BY <2>1
    <2> QED
      BY <1>1, <2>1, <2>3, <2>4, Freed
  <1> QED
    BY <1>2, <1>3

\* A slot that had a block and has none.
Emptying(op, s) == reply' = Answer(op, TRUE) /\ OthersKept(s) /\ blocks[s] # None /\ blocks'[s] = None

LEMMA DeallocateStep ==
  ASSUME IInv, NEW s \in Slot, NEW a \in Alloc, Deallocate(s, a)
  PROVE  IInv' /\ Emptying("deallocate", s)
PROOF
  <1>1. /\ Accepts(a, s) /\ Release(s, a) /\ blocks' = [blocks EXCEPT ![s] = None]
        /\ reply' = Answer("deallocate", TRUE) /\ UNCHANGED <<fns, hollow>>
    BY DEF Deallocate
  <1>2. reply'.ok \in BOOLEAN
    BY <1>1 DEF Answer
  <1>3. IInv' /\ OthersKept(s)
    BY <1>1, <1>2, ReleaseStep
  <1>4. blocks'[s] = None
    BY <1>1, SlotGets DEF IInv
  <1> QED
    BY <1>1, <1>3, <1>4 DEF Emptying, Accepts

LEMMA DeallocateByPtrStep ==
  ASSUME IInv, NEW s \in Slot, DeallocateByPtr(s)
  PROVE  IInv' /\ Emptying("deallocate", s)
PROOF
  <1>1. /\ blocks[s] # None /\ blocks[s].layout.size # 0 /\ blocks[s].alloc = LibcFns
        /\ Free(LibcFns, blocks[s].ptr) /\ blocks' = [blocks EXCEPT ![s] = None]
        /\ reply' = Answer("deallocate", TRUE) /\ UNCHANGED <<fns, hollow>>
    BY DEF DeallocateByPtr
  <1>2. blocks[s].ptr # Dangling /\ blocks[s].ptr \notin hollow
    BY <1>1, CLikeAllocAssumption DEF IInv, SlotOK, TypeOK
  <1>3. heap' = Without(blocks[s].ptr) /\ misused' = misused
    BY <1>1, <1>2, FreeTakes
  <1>4. hollow' = hollow \ {blocks[s].ptr} /\ reply'.ok \in BOOLEAN
    BY <1>1, <1>2 DEF Answer
  <1>5. IInv' /\ OthersKept(s)
    BY <1>1, <1>2, <1>3, <1>4, Freed
  <1>6. blocks'[s] = None
    BY <1>1, SlotGets DEF IInv
  <1> QED
    BY <1>1, <1>5, <1>6 DEF Emptying

LEMMA CFreesStep ==
  ASSUME IInv, NEW s \in Slot, CFrees(s)
  PROVE  IInv' /\ Emptying("none", s)
PROOF
  <1>1. /\ blocks[s] # None /\ blocks[s].ptr # Dangling
        /\ Free(blocks[s].alloc, blocks[s].ptr) /\ blocks' = [blocks EXCEPT ![s] = None]
        /\ hollow' = hollow \ {blocks[s].ptr} /\ reply' = Answer("none", TRUE) /\ UNCHANGED fns
    BY DEF CFrees
  <1>2. heap' = Without(blocks[s].ptr) /\ misused' = misused /\ reply'.ok \in BOOLEAN
    BY <1>1, FreeTakes DEF Answer
  <1>3. IInv' /\ OthersKept(s)
    BY <1>1, <1>2, Freed
  <1>4. blocks'[s] = None
    BY <1>1, SlotGets DEF IInv
  <1> QED
    BY <1>1, <1>3, <1>4 DEF Emptying

LEMMA CGivesStep ==
  ASSUME IInv, NEW s \in Slot, NEW a \in Alloc, NEW n \in 1 .. (MaxSize + 1), NEW layout \in Layout,
         CGives(s, a, n, layout)
  PROVE  IInv' /\ Placed("none", s, layout) /\ blocks[s] = None
PROOF
  <1> DEFINE block == Block(Fill(n, Junk), fns[a].free)
  <1>1. PICK q \in FreeAddr :
          /\ heap' = With(q, block)
          /\ Put(s, a, q, layout)
          /\ hollow' = IF layout.size = 0 THEN hollow \cup {q} ELSE hollow
    BY DEF CGives
  <1>2. /\ blocks[s] = None /\ layout.size \in 0 .. n /\ layout.align <= AlignOf(n)
        /\ reply' = Answer("none", TRUE) /\ UNCHANGED <<fns, misused>>
    BY DEF CGives
  <1>3. n \in Nat \ {0} /\ Junk \in CellByte /\ fns[a].free \in Libraries
    BY OneLibrary, CLikeAllocAssumption DEF CellByte, IInv, TypeOK
  <1>4. /\ block \in HeapBlock /\ block.lib = fns[a].free
        /\ block.align = AlignOf(n) /\ Len(block.bytes) = n
    BY <1>3, FilledBlock
  <1> DEFINE b == [ptr |-> q, layout |-> layout, alloc |-> fns[a]]
  <1>5. b \in BlockRecord
    BY PutBlock DEF IInv, FreeAddr
  <1>6. b # None
    BY <1>5, CLikeAllocAssumption
  <1>7. b.ptr = q /\ b.layout = layout /\ b.alloc = fns[a]
    OBVIOUS
  <1>8. blocks' = [blocks EXCEPT ![s] = b]
    BY <1>1 DEF Put
  <1> HIDE DEF b, block
  <1>9. b.layout.size <= Len(block.bytes) /\ b.layout.align <= block.align /\ block.lib = b.alloc.free
    BY <1>2, <1>4, <1>7
  <1>10. hollow' = IF b.layout.size = 0 THEN hollow \cup {q} ELSE hollow
    BY <1>1, <1>7
  <1>11. reply'.ok \in BOOLEAN
    BY <1>2 DEF Answer
  <1>12. IInv' /\ OthersKept(s)
    BY <1>1, <1>2, <1>4, <1>5, <1>7, <1>8, <1>9, <1>10, <1>11, Filled
  <1>13. blocks'[s] = b
    BY <1>5, <1>8, SlotGets DEF IInv
  <1> QED
    BY <1>2, <1>6, <1>7, <1>12, <1>13 DEF Placed

\* What realloc made of the block in slot s: one of n bytes at q.
Reallocated(s, f, n, q) ==
  /\ misused' = misused
  /\ DOMAIN heap' = (DOMAIN heap \ {blocks[s].ptr}) \cup {q}
  /\ \A x \in DOMAIN heap' : x # q => heap'[x] = heap[x]
  /\ \E block \in HeapBlock :
       /\ heap'[q] = block /\ block.lib = f.free
       /\ block.align = AlignOf(n) /\ Len(block.bytes) = n
       /\ \A i \in 1 .. n : i <= blocks[s].layout.size => block.bytes[i] = heap[blocks[s].ptr].bytes[i]

\* realloc, C's or the default one, gives a block of the size asked for that
\* keeps what both sizes have, and stays within the old block.
LEMMA ReallocBlock ==
  ASSUME IInv, NEW s \in Slot, blocks[s] # None, blocks[s].layout.size # 0,
         NEW f \in AllocFns, f.free = blocks[s].alloc.free, NEW n \in Nat \ {0}, NEW q,
         Realloc(f, blocks[s].ptr, blocks[s].layout.size, n, q)
  PROVE  Reallocated(s, f, n, q)
PROOF
  <1> DEFINE p == blocks[s].ptr
             old == blocks[s].layout.size
             own == f.realloc # None
             fresh == IF own THEN Block(Fill(n, Junk), f.realloc) ELSE Malloc(f, n)
             kept == IF own /\ p \in DOMAIN heap THEN Least(Len(heap[p].bytes), n) ELSE Least(old, n)
             bytes == [i \in 1 .. n |->
                         IF i <= kept /\ Takes(f, p, i) THEN heap[p].bytes[i] ELSE fresh.bytes[i]]
             block == [fresh EXCEPT !.bytes = bytes]
  <1>1. /\ p \in DOMAIN heap /\ heap[p].lib = f.free
        /\ heap[p].bytes \in Seq(CellByte) /\ old <= Len(heap[p].bytes) /\ old \in Nat
    BY SlotType, CLikeAllocAssumption DEF IInv, SlotOK, TypeOK, CellByte
  <1>2. /\ fresh \in HeapBlock /\ fresh.lib = f.free
        /\ fresh.align = AlignOf(n) /\ Len(fresh.bytes) = n
    <2>1. Junk \in CellByte
      BY DEF CellByte
    <2> QED
      BY <2>1, OneLibrary, FilledBlock, MallocBlock
  <1>3. fresh.bytes \in Seq(CellByte)
    BY <1>2 DEF HeapBlock
  <1>4. /\ heap' = [x \in (DOMAIN heap \ {p}) \cup {q} |-> IF x # q THEN heap[x] ELSE block]
        /\ misused' = (misused \/ ~Takes(f, p, IF own THEN 0 ELSE kept))
    BY DEF Realloc
  <1>5. Len(heap[p].bytes) \in Nat /\ kept \in Nat /\ kept <= n /\ kept <= Len(heap[p].bytes)
    BY <1>1 DEF Least
  <1>6. \A i \in 1 .. n : i <= old => i <= kept
    BY <1>1 DEF Least
  <1> HIDE DEF fresh, kept
  <1>7. \A i \in 0 .. n : i <= kept => Takes(f, p, i)
    BY <1>1, <1>5 DEF Takes
  <1>8. misused' = misused
    <2>1. Takes(f, p, IF own THEN 0 ELSE kept)
      BY <1>5, <1>7
    <2> QED
      BY <1>4, <2>1 DEF IInv, NeverMisused, TypeOK
  <1>9. bytes \in Seq(CellByte) /\ Len(bytes) = n
    BY <1>1, <1>2, <1>3, <1>5
  <1>10. \A i \in 1 .. n : i <= old => bytes[i] = heap[p].bytes[i]
    BY <1>6, <1>7
  <1> HIDE DEF bytes
  <1>11. /\ block \in HeapBlock /\ block.lib = f.free
         /\ block.align = AlignOf(n) /\ block.bytes = bytes
    BY <1>2, <1>9 DEF HeapBlock
  <1> HIDE DEF block
  <1>12. /\ DOMAIN heap' = (DOMAIN heap \ {p}) \cup {q} /\ heap'[q] = block
         /\ \A x \in DOMAIN heap' : x # q => heap'[x] = heap[x]
    BY <1>4
  <1> QED
    BY <1>8, <1>9, <1>10, <1>11, <1>12 DEF Reallocated

LEMMA ResizeStep ==
  ASSUME IInv, NEW s \in Slot, NEW a \in Alloc, NEW layout \in Layout, Resize(s, a, layout)
  PROVE  /\ IInv' /\ blocks[s] # None
         /\ \/ Failed("resize")
            \/ /\ Placed("resize", s, layout)
               /\ \A i \in 1 .. layout.size : i <= blocks[s].layout.size =>
                    heap'[blocks'[s].ptr].bytes[i] = heap[blocks[s].ptr].bytes[i]
PROOF
  <1> DEFINE old == blocks[s]
  <1>1. /\ Accepts(a, s) /\ old # None /\ fns[a] \in AllocFns /\ fns[a].free = old.alloc.free
        /\ old.layout.size \in Nat /\ layout.size \in Nat
    BY SlotType, CLikeAllocAssumption DEF Resize, Accepts, Eq, IInv, TypeOK, Layout
  <1>2. CASE /\ layout.size = 0
             /\ Release(s, a)
             /\ DanglingSlice(s, a, layout)
             /\ reply' = Answer("resize", TRUE)
             /\ UNCHANGED <<fns, hollow>>
    <2> DEFINE b == [ptr |-> Dangling, layout |-> layout, alloc |-> fns[a]]
    <2>1. b \in BlockRecord
      BY PutBlock DEF IInv
    <2>2. b # None
      BY <2>1, CLikeAllocAssumption
    <2>3. b.ptr = Dangling /\ b.layout = layout
      OBVIOUS
    <2>4. blocks' = [blocks EXCEPT ![s] = b]
      BY <1>2 DEF DanglingSlice, Put
    <2> HIDE DEF b
    <2>5. reply'.ok \in BOOLEAN
      BY <1>2 DEF Answer
    <2>6. IInv' /\ OthersKept(s)
      BY <1>1, <1>2, <2>1, <2>3, <2>4, <2>5, ReleaseStep
    <2>7. blocks'[s] = b
      BY <2>1, <2>4, SlotGets DEF IInv
    <2> QED
      BY <1>1, <1>2, <2>2, <2>3, <2>6, <2>7 DEF Placed
  <1>3. CASE /\ layout.size # 0 /\ old.layout.size = 0
             /\ AllocateWith("resize", s, a, layout, Malloc(fns[a], MallocSize(layout)))
    <2> DEFINE block == Malloc(fns[a], MallocSize(layout))
    <2>1. layout.size # 0 /\ MallocSize(layout) # None =>
             /\ block \in HeapBlock /\ block.lib = fns[a].free
             /\ block.align = AlignOf(MallocSize(layout)) /\ Len(block.bytes) = MallocSize(layout)
      BY <1>1, MallocSizeServes, MallocBlock
    <2>2. AllocateWith("resize", s, a, layout, block)
      BY <1>3
    <2> HIDE DEF block
    <2>3. IInv' /\ (Failed("resize") \/ Placed("resize", s, layout))
      BY <1>3, <2>1, <2>2, AllocateWithStep
    <2>4. \A i \in 1 .. layout.size : ~(i <= old.layout.size)
      BY <1>3
    <2> QED
      BY <1>1, <2>3, <2>4
  <1>4. CASE /\ layout.size # 0 /\ old.layout.size # 0 /\ MallocSize(layout) # None
             /\ \E q \in FreeAddr \cup {old.ptr} :
                  /\ Realloc(fns[a], old.ptr, old.layout.size, MallocSize(layout), q)
                  /\ Put(s, a, q, layout)
             /\ reply' = Answer("resize", TRUE)
             /\ UNCHANGED <<fns, hollow>>
    <2>1. PICK q \in FreeAddr \cup {old.ptr} :
            /\ Realloc(fns[a], old.ptr, old.layout.size, MallocSize(layout), q)
            /\ Put(s, a, q, layout)
      BY <1>4
    <2>2. /\ MallocSize(layout) \in Nat \ {0} /\ layout.size <= MallocSize(layout)
          /\ layout.align <= AlignOf(MallocSize(layout))
      BY <1>4, MallocSizeServes
    <2>3. /\ misused' = misused
          /\ DOMAIN heap' = (DOMAIN heap \ {old.ptr}) \cup {q}
          /\ \A x \in DOMAIN heap' : x # q => heap'[x] = heap[x]
          /\ \E block \in HeapBlock :
               /\ heap'[q] = block /\ block.lib = fns[a].free
               /\ block.align = AlignOf(MallocSize(layout)) /\ Len(block.bytes) = MallocSize(layout)
               /\ \A i \in 1 .. MallocSize(layout) : i <= old.layout.size =>
                    block.bytes[i] = heap[old.ptr].bytes[i]
      <3>1. Reallocated(s, fns[a], MallocSize(layout), q)
        BY <1>1, <1>4, <2>1, <2>2, ReallocBlock
      <3> QED
        BY <3>1 DEF Reallocated
    <2>4. PICK block \in HeapBlock :
            /\ heap'[q] = block /\ block.lib = fns[a].free
            /\ block.align = AlignOf(MallocSize(layout)) /\ Len(block.bytes) = MallocSize(layout)
            /\ \A i \in 1 .. MallocSize(layout) : i <= old.layout.size =>
                 block.bytes[i] = heap[old.ptr].bytes[i]
      BY <2>3
    <2> DEFINE b == [ptr |-> q, layout |-> layout, alloc |-> fns[a]]
    <2>5. b \in BlockRecord
      <3>1. q \in Addr \cup {Dangling}
        BY <1>1, SlotType DEF IInv, FreeAddr
      <3> QED
        BY <3>1, PutBlock DEF IInv
    <2>6. b # None
      BY <2>5, CLikeAllocAssumption
    <2>7. b.ptr = q /\ b.layout = layout /\ b.alloc = fns[a]
      OBVIOUS
    <2>8. blocks' = [blocks EXCEPT ![s] = b]
      BY <2>1 DEF Put
    <2> HIDE DEF b
    <2>9. /\ b.layout.size # 0 /\ b.layout.size <= Len(block.bytes) /\ b.layout.align <= block.align
          /\ block.lib = b.alloc.free /\ reply'.ok \in BOOLEAN
      BY <1>4, <2>2, <2>4, <2>7 DEF Answer
    <2>10. heap'[q] = block /\ UNCHANGED <<fns, hollow, misused>>
      BY <1>4, <2>3, <2>4
    <2>11. IInv' /\ OthersKept(s)
      BY <1>1, <1>4, <2>3, <2>5, <2>7, <2>8, <2>9, <2>10, Moved
    <2>12. blocks'[s] = b
      BY <2>5, <2>8, SlotGets DEF IInv
    <2>13. \A i \in 1 .. layout.size : i <= old.layout.size => block.bytes[i] = heap[old.ptr].bytes[i]
      BY <1>1, <2>2, <2>4
    <2> QED
      BY <1>1, <1>4, <2>6, <2>7, <2>10, <2>11, <2>12, <2>13 DEF Placed
  <1>5. CASE Fails("resize") /\ UNCHANGED <<fns, hollow>>
    BY <1>1, <1>5, FailsStep
  <1> QED
    BY <1>2, <1>3, <1>4, <1>5 DEF Resize, ResizeToSome

\* One byte of the block in slot s got the value v.
Written(s, i, v) ==
  /\ reply' = Answer("none", TRUE) /\ blocks[s] # None /\ i \in 1 .. blocks[s].layout.size
  /\ blocks' = blocks /\ OthersKept(s)
  /\ \A j \in 1 .. blocks[s].layout.size :
       heap'[blocks[s].ptr].bytes[j] = IF j = i THEN v ELSE heap[blocks[s].ptr].bytes[j]

LEMMA WriteStep ==
  ASSUME IInv, NEW s \in Slot, NEW i \in 1 .. MaxSize, NEW v \in Byte, Write(s, i, v)
  PROVE  IInv' /\ Written(s, i, v)
PROOF
  <1> DEFINE b == blocks[s]
             p == b.ptr
             block == [heap[p] EXCEPT !.bytes = [@ EXCEPT ![i] = v]]
  <1>1. /\ b # None /\ i \in 1 .. b.layout.size /\ heap' = [heap EXCEPT ![p].bytes[i] = v]
        /\ reply' = Answer("none", TRUE) /\ UNCHANGED <<fns, blocks, hollow, misused>>
    BY DEF Write
  <1>2. b \in BlockRecord /\ b.layout.size \in Nat /\ b.layout.size # 0
    BY <1>1, SlotType DEF IInv
  <1>3. /\ p \in DOMAIN heap /\ heap[p] \in HeapBlock /\ heap[p].lib = b.alloc.free
        /\ b.layout.size <= Len(heap[p].bytes) /\ b.layout.align <= heap[p].align
    BY <1>1, <1>2, CLikeAllocAssumption DEF IInv, SlotOK, TypeOK, HeapBlock, CellByte
  <1>4. heap[p].bytes \in Seq(CellByte)
    BY <1>3 DEF HeapBlock
  <1> DEFINE bytes == [heap[p].bytes EXCEPT ![i] = v]
  <1>5. /\ bytes \in Seq(CellByte) /\ Len(bytes) = Len(heap[p].bytes)
        /\ \A j \in 1 .. Len(heap[p].bytes) : bytes[j] = IF j = i THEN v ELSE heap[p].bytes[j]
    <2>1. i \in 1 .. Len(heap[p].bytes) /\ v \in CellByte
      BY <1>1, <1>2, <1>3, <1>4 DEF CellByte
    <2> QED
      BY <1>4, <2>1, ExceptSeq
  <1>6. block = [heap[p] EXCEPT !.bytes = bytes]
    BY <1>3 DEF HeapBlock
  <1>7. heap' = [heap EXCEPT ![p] = block]
    BY <1>1
  <1> HIDE DEF bytes, block
  <1>8. block \in HeapBlock /\ block.lib = heap[p].lib /\ block.align = heap[p].align /\ block.bytes = bytes
    BY <1>3, <1>5, <1>6 DEF HeapBlock
  <1>9. /\ DOMAIN heap' = (DOMAIN heap \ {p}) \cup {p} /\ heap'[p] = block
        /\ \A x \in DOMAIN heap' : x # p => heap'[x] = heap[x]
    BY <1>3, <1>7
  <1>10. PICK c \in BlockRecord : c = b
    BY <1>2
  <1>11. blocks' = [blocks EXCEPT ![s] = c]
    BY <1>1, <1>10 DEF IInv, TypeOK
  <1>12. PICK q \in FreeAddr \cup {p} : q = p
    OBVIOUS
  <1>13. /\ c.ptr = q /\ c.layout.size # 0 /\ c.layout.size <= Len(block.bytes)
         /\ c.layout.align <= block.align /\ block.lib = c.alloc.free
    BY <1>2, <1>3, <1>5, <1>8, <1>10, <1>12
  <1>14. reply'.ok \in BOOLEAN /\ UNCHANGED <<fns, hollow, misused>>
    BY <1>1 DEF Answer
  <1>15. IInv' /\ OthersKept(s)
    <2>1. PICK z \in HeapBlock : z = block
      BY <1>8
    <2>2. /\ z.lib = c.alloc.free /\ c.layout.size <= Len(z.bytes) /\ c.layout.align <= z.align
          /\ c.ptr = q /\ c.layout.size # 0
      BY <1>13, <2>1
    <2>3. /\ DOMAIN heap' = (DOMAIN heap \ {blocks[s].ptr}) \cup {q} /\ heap'[q] = z
          /\ \A x \in DOMAIN heap' : x # q => heap'[x] = heap[x]
      BY <1>9, <1>12, <2>1
    <2>4. blocks[s] # None /\ blocks[s].layout.size # 0 /\ q \in FreeAddr \cup {blocks[s].ptr}
      BY <1>1, <1>2
    <2> HIDE DEF p, b
    <2> QED
      BY <1>11, <1>14, <2>2, <2>3, <2>4, Moved
  <1>16. \A j \in 1 .. b.layout.size : heap'[p].bytes[j] = IF j = i THEN v ELSE heap[p].bytes[j]
    BY <1>2, <1>3, <1>4, <1>5, <1>8, <1>9
  <1> QED
    BY <1>1, <1>15, <1>16 DEF Written

-----------------------------------------------------------------------------
LEMMA InitInv ==
  ASSUME Init
  PROVE  IInv
PROOF
  <1>1. fns \in [Alloc -> AllocFns]
    <2>1. /\ {LibcFns} \subseteq AllocFns /\ CustomFns \subseteq AllocFns
          /\ {MallocAndCallocFns} \subseteq AllocFns /\ {ReallocFns} \subseteq AllocFns
      BY DEF AllocFns
    <2>2. {CtxFns(ctx) : ctx \in Libraries} \subseteq AllocFns
      BY DEF AllocFns, CustomFns, CtxFns, NewWithMalloc
    <2>3. PICK F \in {{LibcFns}, CustomFns, {CtxFns(ctx) : ctx \in Libraries},
                      {MallocAndCallocFns}, {ReallocFns}} : fns \in [Alloc -> F]
      BY DEF Init
    <2>4. F \subseteq AllocFns
      BY <2>1, <2>2
    <2> QED
      BY <2>3, <2>4
  <1>2. DOMAIN heap = {} /\ hollow = {} /\ misused = FALSE /\ reply.ok \in BOOLEAN
    BY DEF Init, Answer
  <1>3. blocks \in [Slot -> BlockRecord \cup {None}] /\ \A s \in Slot : blocks[s] = None
    BY DEF Init
  <1> QED
    BY <1>1, <1>2, <1>3 DEF IInv, TypeOK, SlotOK, OneSlot, NoLeak, NeverMisused

LEMMA NextInv ==
  ASSUME IInv, [Next]_vars
  PROVE  IInv'
PROOF
  <1>1. CASE UNCHANGED vars
    BY <1>1, Same DEF vars, IInv, TypeOK
  <1>2. CASE Next
    BY <1>2, AllocateStep, AllocateZeroedStep, ResizeStep, DeallocateStep, DeallocateByPtrStep,
       CFreesStep, WriteStep, CGivesStep DEF Next
  <1> QED
    BY <1>1, <1>2

\* The inductive invariant holds of every reachable state.
THEOREM Invariance == Spec => []IInv
PROOF
  <1>1. Init => IInv
    BY InitInv
  <1>2. IInv /\ [Next]_vars => IInv'
    BY NextInv
  <1> QED
    BY <1>1, <1>2, PTL DEF Spec

\* The types of the state; every block of the heap is of a library.
THEOREM TypeCorrect == Spec => []TypeOK
PROOF
  <1>1. IInv => TypeOK
    BY DEF IInv
  <1> QED
    BY <1>1, Invariance, PTL

\* By what C promises alone, a block has the size and the alignment of its layout.
THEOREM BlocksAreUsable == Spec => []BlocksServe
PROOF
  <1>1. IInv => BlocksServe
    BY DEF IInv, SlotOK, BlocksServe
  <1> QED
    BY <1>1, Invariance, PTL

\* No function of C, and no copy, goes outside its contract.
THEOREM NothingMisused == Spec => []NeverMisused
PROOF
  <1>1. IInv => NeverMisused
    BY DEF IInv
  <1> QED
    BY <1>1, Invariance, PTL

\* No block leaks or has two owners, but for those of size 0 that C gave.
THEOREM BlockOwnership == Spec => []BlocksOwnedOnce
PROOF
  <1>1. ASSUME IInv PROVE BlocksOwnedOnce
    <2> DEFINE In(p) == {s \in Slot : blocks[s] # None /\ blocks[s].ptr = p}
    <2>1. Cardinality({}) = 0 /\ \A o : Cardinality({o}) = 1
      BY FS_EmptySet, FS_Singleton
    <2>2. ASSUME NEW p \in DOMAIN heap, NEW s \in Slot, blocks[s] # None, blocks[s].ptr = p
          PROVE  Cardinality(In(p)) = 1
      <3>1. p # Dangling
        BY <1>1, CLikeAllocAssumption DEF IInv, TypeOK
      <3>2. In(p) = {s}
        BY <1>1, <2>2, <3>1 DEF IInv, OneSlot
      <3> QED
        BY <2>1, <3>2
    <2>3. ASSUME NEW p \in DOMAIN heap, ~ \E s \in Slot : blocks[s] # None /\ blocks[s].ptr = p
          PROVE  Cardinality(In(p)) = 0 /\ p \in hollow
      <3>1. In(p) = {}
        BY <2>3
      <3>2. p \in hollow
        BY <1>1, <2>3 DEF IInv, NoLeak
      <3> QED
        BY <2>1, <3>1, <3>2
    <2>4. \A p \in DOMAIN heap : Cardinality(In(p)) = 1 \/ (p \in hollow /\ Cardinality(In(p)) = 0)
      BY <2>2, <2>3
    <2>5. \A s \in Slot : blocks[s] # None =>
            (blocks[s].layout.size = 0 <=> blocks[s].ptr \in hollow \cup {Dangling})
      BY <1>1, CLikeAllocAssumption DEF IInv, SlotOK, TypeOK
    <2> QED
      BY <2>4, <2>5 DEF BlocksOwnedOnce
  <1> QED
    BY <1>1, Invariance, PTL

-----------------------------------------------------------------------------
(***************************************************************************)
(* The refinement of Allocator.                                            *)
(***************************************************************************)
\* The memory of the abstract specification.
Mem == [s \in Slot |-> View(s)]

\* Slots that keep what they show, keep it in the memory.
LEMMA MemChanges ==
  ASSUME NEW s \in Slot, OthersKept(s), NEW m, View(s)' = m
  PROVE  Mem' = [Mem EXCEPT ![s] = m]
  BY DEF Mem, OthersKept

\* A call that changed nothing changed no memory.
LEMMA MemStays ==
  ASSUME UNCHANGED <<heap, blocks>>
  PROVE  Mem' = Mem
  BY DEF Mem, View

\* The memory of a slot is there when its block is.
LEMMA MemOfSlot ==
  ASSUME IInv, NEW s \in Slot
  PROVE  /\ blocks[s] = None => Mem[s] = None
         /\ blocks[s] # None =>
              /\ Mem[s] # None
              /\ \E bytes : Shows(s, bytes) /\ Mem[s] = [layout |-> blocks[s].layout, bytes |-> bytes]
PROOF
  <1>1. Mem[s] = View(s)
    BY DEF Mem
  <1>2. CASE blocks[s] = None
    BY <1>1, <1>2 DEF View
  <1>3. CASE blocks[s] # None
    <2>1. PICK bytes : Shows(s, bytes)
      BY <1>3, SlotShows
    <2>2. Mem[s] = [layout |-> blocks[s].layout, bytes |-> bytes]
      BY <1>1, <2>1 DEF Shows
    <2>3. blocks[s].layout \in Layout /\ blocks[s].layout.size \in Nat
      BY <1>3, SlotType DEF IInv
    <2>4. bytes \in Seq(Byte \cup {Junk})
      BY <2>1, <2>3 DEF Shows, Bytes, CellByte
    <2>5. Mem[s] \in Memory
      BY <2>2, <2>3, <2>4 DEF Memory
    <2>6. Mem[s] # None
      BY <2>5, CLikeAllocAssumption
    <2> QED
      BY <1>3, <2>1, <2>2, <2>6
  <1> QED
    BY <1>2, <1>3

\* The memory of a slot gets a layout and the first bytes of the block there.
MemGets(s, layout, bytes) ==
  /\ Mem' = [Mem EXCEPT ![s] = [layout |-> layout, bytes |-> bytes]]
  /\ \A i \in 1 .. layout.size : bytes[i] = heap'[blocks'[s].ptr].bytes[i]

\* What a slot shows when a call put a block of this layout in it.
LEMMA PlacedShows ==
  ASSUME IInv', NEW op, NEW s \in Slot, NEW layout, Placed(op, s, layout)
  PROVE  \E bytes \in Bytes(layout.size) : MemGets(s, layout, bytes)
PROOF
  <1>1. blocks'[s] # None /\ blocks'[s].layout = layout /\ OthersKept(s)
    BY DEF Placed
  <1>2. PICK bytes : Shows(s, bytes)'
    BY <1>1, SlotShowsNext
  <1>3. /\ bytes \in Bytes(layout.size)
        /\ View(s)' = [layout |-> layout, bytes |-> bytes]
        /\ \A i \in 1 .. layout.size : bytes[i] = heap'[blocks'[s].ptr].bytes[i]
    BY <1>1, <1>2 DEF Shows
  <1>4. Mem' = [Mem EXCEPT ![s] = [layout |-> layout, bytes |-> bytes]]
    BY <1>1, <1>3, MemChanges
  <1> QED
    BY <1>3, <1>4 DEF MemGets

LEMMA EmptyingShows ==
  ASSUME NEW op, NEW s \in Slot, Emptying(op, s)
  PROVE  Mem' = [Mem EXCEPT ![s] = None]
PROOF
  <1>1. View(s)' = None /\ OthersKept(s)
    BY DEF Emptying, View
  <1> QED
    BY <1>1, MemChanges

\* Each call is the call of Allocator of that name, or fails as it may.
LEMMA FailedMaps ==
  ASSUME NEW op \in {"allocate", "allocate_zeroed", "resize"}, Failed(op)
  PROVE  Abstract!Fails
PROOF
  <1>1. Mem' = Mem /\ reply' = Answer(op, FALSE)
    BY MemStays DEF Failed
  <1> QED
    BY <1>1 DEF Abstract!Fails, Abstract!Answer, Answer, Mem, View

LEMMA AllocateMaps ==
  ASSUME IInv, NEW s \in Slot, NEW a \in Alloc, NEW layout \in Layout, Allocate(s, a, layout)
  PROVE  Abstract!Fails \/ Abstract!Allocate(s, layout)
PROOF
  <1>1. IInv' /\ (Failed("allocate") \/ Placed("allocate", s, layout))
    BY AllocateStep
  <1>2. CASE Placed("allocate", s, layout)
    <2>1. PICK bytes \in Bytes(layout.size) : MemGets(s, layout, bytes)
      BY <1>1, <1>2, PlacedShows
    <2>2. Mem[s] = None /\ reply' = Answer("allocate", TRUE)
      BY <1>2, MemOfSlot DEF Allocate, Placed
    <2> QED
      BY <2>1, <2>2 DEF MemGets, Abstract!Allocate, Abstract!Bytes, Abstract!Answer, Answer, Bytes, CellByte, Mem, View
  <1> QED
    BY <1>1, <1>2, FailedMaps

LEMMA AllocateZeroedMaps ==
  ASSUME IInv, NEW s \in Slot, NEW a \in Alloc, NEW layout \in Layout, AllocateZeroed(s, a, layout)
  PROVE  Abstract!Fails \/ Abstract!AllocateZeroed(s, layout)
PROOF
  <1>1. CASE Failed("allocate_zeroed")
    BY <1>1, FailedMaps
  <1>2. CASE /\ Placed("allocate_zeroed", s, layout)
             /\ \A i \in 1 .. layout.size : heap'[blocks'[s].ptr].bytes[i] = 0
    <2>1. IInv'
      BY AllocateZeroedStep
    <2>2. PICK bytes \in Bytes(layout.size) : MemGets(s, layout, bytes)
      BY <1>2, <2>1, PlacedShows
    <2>3. bytes = [i \in 1 .. layout.size |-> 0]
      BY <1>2, <2>2 DEF MemGets, Bytes
    <2>4. Mem[s] = None /\ reply' = Answer("allocate_zeroed", TRUE)
      BY <1>2, MemOfSlot DEF AllocateZeroed, Placed
    <2> QED
      BY <2>2, <2>3, <2>4 DEF MemGets, Abstract!AllocateZeroed, Abstract!Answer, Answer, Mem, View
  <1> QED
    BY <1>1, <1>2, AllocateZeroedStep

LEMMA ResizeMaps ==
  ASSUME IInv, NEW s \in Slot, NEW a \in Alloc, NEW layout \in Layout, Resize(s, a, layout)
  PROVE  Abstract!Fails \/ Abstract!Resize(s, layout)
PROOF
  <1>1. CASE Failed("resize")
    BY <1>1, FailedMaps
  <1>2. CASE /\ Placed("resize", s, layout)
             /\ \A i \in 1 .. layout.size : i <= blocks[s].layout.size =>
                  heap'[blocks'[s].ptr].bytes[i] = heap[blocks[s].ptr].bytes[i]
    <2>1. IInv' /\ blocks[s] # None
      BY ResizeStep
    <2>2. PICK bytes \in Bytes(layout.size) : MemGets(s, layout, bytes)
      BY <1>2, <2>1, PlacedShows
    <2>3. PICK old : Shows(s, old) /\ Mem[s] = [layout |-> blocks[s].layout, bytes |-> old]
      BY <2>1, MemOfSlot
    <2>4. Mem[s] # None /\ reply' = Answer("resize", TRUE)
      BY <1>2, <2>1, MemOfSlot DEF Placed
    <2>5. Mem[s].layout.size = blocks[s].layout.size /\ Mem[s].bytes = old
      BY <2>3
    <2>6. ASSUME NEW i \in 1 .. layout.size, i <= Mem[s].layout.size
          PROVE  bytes[i] = Mem[s].bytes[i]
      <3>1. blocks[s].layout.size \in Nat /\ layout.size \in Nat
        BY <2>1, SlotType, CLikeAllocAssumption DEF IInv, Layout
      <3>2. i \in 1 .. blocks[s].layout.size
        BY <2>5, <2>6, <3>1
      <3>3. old[i] = heap[blocks[s].ptr].bytes[i]
        BY <2>3, <3>2 DEF Shows
      <3> QED
        BY <1>2, <2>2, <2>5, <2>6, <3>3 DEF MemGets
    <2> QED
      BY <2>2, <2>4, <2>6 DEF MemGets, Abstract!Resize, Abstract!Bytes, Abstract!Answer, Answer, Bytes, CellByte, Mem, View
  <1> QED
    BY <1>1, <1>2, ResizeStep

LEMMA DeallocateMaps ==
  ASSUME IInv, NEW s \in Slot, Emptying("deallocate", s)
  PROVE  Abstract!Deallocate(s)
PROOF
  <1>1. Mem' = [Mem EXCEPT ![s] = None]
    BY EmptyingShows
  <1>2. Mem[s] # None /\ reply' = Answer("deallocate", TRUE)
    BY MemOfSlot DEF Emptying
  <1> QED
    BY <1>1, <1>2 DEF Abstract!Deallocate, Abstract!Answer, Answer, Mem, View

LEMMA TakeMaps ==
  ASSUME IInv, NEW s \in Slot, Emptying("none", s)
  PROVE  Abstract!Take(s)
PROOF
  <1>1. Mem' = [Mem EXCEPT ![s] = None]
    BY EmptyingShows
  <1>2. Mem[s] # None /\ reply' = Answer("none", TRUE)
    BY MemOfSlot DEF Emptying
  <1> QED
    BY <1>1, <1>2 DEF Abstract!Take, Abstract!Answer, Answer, Mem, View

LEMMA GiveMaps ==
  ASSUME IInv, NEW s \in Slot, NEW a \in Alloc, NEW n \in 1 .. (MaxSize + 1), NEW layout \in Layout,
         CGives(s, a, n, layout)
  PROVE  Abstract!Give(s, layout)
PROOF
  <1>1. IInv' /\ Placed("none", s, layout) /\ blocks[s] = None
    BY CGivesStep
  <1>2. PICK bytes \in Bytes(layout.size) : MemGets(s, layout, bytes)
    BY <1>1, PlacedShows
  <1>3. Mem[s] = None /\ reply' = Answer("none", TRUE)
    BY <1>1, MemOfSlot DEF Placed
  <1> QED
    BY <1>2, <1>3 DEF MemGets, Abstract!Give, Abstract!Bytes, Abstract!Answer, Answer, Bytes, CellByte, Mem, View

LEMMA WriteMaps ==
  ASSUME IInv, NEW s \in Slot, NEW i \in 1 .. MaxSize, NEW v \in Byte, Write(s, i, v)
  PROVE  Mem[s] # None /\ i \in 1 .. Mem[s].layout.size /\ Abstract!Write(s, i, v)
PROOF
  <1>0. PICK layout : layout = blocks[s].layout
    OBVIOUS
  <1>1. /\ IInv' /\ OthersKept(s) /\ blocks' = blocks
        /\ reply' = Answer("none", TRUE) /\ blocks[s] # None /\ i \in 1 .. layout.size
        /\ \A j \in 1 .. layout.size :
             heap'[blocks[s].ptr].bytes[j] = IF j = i THEN v ELSE heap[blocks[s].ptr].bytes[j]
    <2>1. IInv' /\ Written(s, i, v)
      BY WriteStep
    <2> QED
      BY <1>0, <2>1 DEF Written
  <1>2. PICK old : Shows(s, old) /\ Mem[s] = [layout |-> layout, bytes |-> old]
    BY <1>0, <1>1, MemOfSlot
  <1>3. PICK new : Shows(s, new)'
    BY <1>1, SlotShowsNext
  <1>4. /\ View(s)' = [layout |-> layout, bytes |-> new] /\ new \in Bytes(layout.size)
        /\ \A j \in 1 .. layout.size : new[j] = heap'[blocks[s].ptr].bytes[j]
    BY <1>0, <1>1, <1>3 DEF Shows
  <1>5. /\ old \in Bytes(layout.size)
        /\ \A j \in 1 .. layout.size : old[j] = heap[blocks[s].ptr].bytes[j]
    BY <1>0, <1>2 DEF Shows
  <1>6. new = [old EXCEPT ![i] = v]
    BY <1>1, <1>4, <1>5 DEF Bytes
  <1>7. Mem' = [Mem EXCEPT ![s] = [layout |-> layout, bytes |-> new]]
    BY <1>1, <1>4, MemChanges
  <1>8. [layout |-> layout, bytes |-> new] = [Mem[s] EXCEPT !.bytes = [@ EXCEPT ![i] = v]]
    BY <1>2, <1>6
  <1>9. Mem' = [Mem EXCEPT ![s].bytes[i] = v]
    BY <1>7, <1>8
  <1>10. Mem[s] # None /\ i \in 1 .. Mem[s].layout.size
    BY <1>1, <1>2, MemOfSlot
  <1> QED
    BY <1>1, <1>9, <1>10 DEF Abstract!Write, Abstract!Answer, Answer, Mem, View

LEMMA StepMaps ==
  ASSUME IInv, [Next]_vars
  PROVE  [Abstract!Next]_(Abstract!vars)
PROOF
  <1>1. CASE UNCHANGED vars
    BY <1>1 DEF vars, Abstract!vars
  <1>2. ASSUME NEW s \in Slot, NEW a \in Alloc, NEW layout \in Layout,
               Allocate(s, a, layout) \/ AllocateZeroed(s, a, layout) \/ Resize(s, a, layout)
        PROVE  Abstract!Next
    BY <1>2, AllocateMaps, AllocateZeroedMaps, ResizeMaps DEF Abstract!Next
  <1>3. ASSUME NEW s \in Slot, NEW a \in Alloc, Deallocate(s, a)
        PROVE  Abstract!Next
    BY <1>3, DeallocateStep, DeallocateMaps DEF Abstract!Next
  <1>4. ASSUME NEW s \in Slot, DeallocateByPtr(s) \/ CFrees(s)
        PROVE  Abstract!Next
    BY <1>4, DeallocateByPtrStep, CFreesStep, DeallocateMaps, TakeMaps DEF Abstract!Next
  <1>5. ASSUME NEW s \in Slot, NEW i \in 1 .. MaxSize, NEW v \in Byte, Write(s, i, v)
        PROVE  Abstract!Next
    <2>1. Mem[s] # None /\ i \in 1 .. Mem[s].layout.size /\ Abstract!Write(s, i, v)
      BY <1>5, WriteMaps
    <2> QED
      BY <2>1 DEF Abstract!Next, Mem, View
  <1>6. ASSUME NEW s \in Slot, NEW a \in Alloc, NEW n \in 1 .. (MaxSize + 1), NEW layout \in Layout,
               CGives(s, a, n, layout)
        PROVE  Abstract!Next
    BY <1>6, GiveMaps DEF Abstract!Next
  <1>7. CASE Next
    BY <1>2, <1>3, <1>4, <1>5, <1>6, <1>7 DEF Next
  <1> QED
    BY <1>1, <1>7

\* Slots without addresses and without C: each block is memory of its user alone,
\* of the size and alignment asked for, whose bytes survive grow, shrink and Err.
THEOREM Refinement == Spec => ImplementsAllocator
PROOF
  <1>1. Init => Abstract!Init
    BY DEF Init, Abstract!Init, Abstract!Answer, Answer
  <1>2. IInv /\ [Next]_vars => [Abstract!Next]_(Abstract!vars)
    BY StepMaps
  <1> QED
    BY <1>1, <1>2, Invariance, PTL DEF Spec, ImplementsAllocator, Abstract!Spec
=============================================================================
