----------------------------- MODULE CBufProofs -----------------------------
(***************************************************************************)
(* Proofs about CBuf and about the integer types of CBufLen, whose lengths *)
(* it keeps (src/src/c_buf.rs).                                            *)
(*                                                                         *)
(* The first theorems are the requirements that the safety section of the  *)
(* CBufLen trait makes of its implementations, for every primitive type    *)
(* and every width of usize, and what the growth of a CVecRefMut           *)
(* (src/src/c_vec.rs) relies on.                                           *)
(*                                                                         *)
(* The others are about the buffers, for any number of fields, boxes,      *)
(* clones and blocks.  A step of the program touches a few places, at most *)
(* one clone and a few blocks, and no one else has a claim on those blocks *)
(* (Local).  So an action needs a proof for what it touches (Mine), and    *)
(* lemma Frame gives the invariant for the rest.                           *)
(***************************************************************************)
EXTENDS CBuf, FiniteSetTheorems, SequenceTheorems, TLAPS

\* The least value of a type is not above zero, and the greatest not below.
LEMMA TypeBounds ==
  ASSUME NEW t \in IntType
  PROVE  t.min \in Int /\ t.max \in Nat /\ t.min <= 0
  BY DEF IntType

\* A length that converts is a value of the type, and converts back to itself.
LEMMA Converts ==
  ASSUME NEW t \in IntType, NEW n \in Usize
  PROVE  /\ TryFrom(t, n).ok <=> n <= t.max
         /\ n <= t.max => TryFrom(t, n).val = n /\ n \in Values(t)
         /\ TryInto(n) = Ok(n)
PROOF
  <1>1. n \in Int /\ 0 <= n
    BY CBufLenAssumption DEF Usize
  <1>2. CASE n <= t.max
    <2>1. TryFrom(t, n) = Ok(n)
      BY <1>2 DEF TryFrom
    <2>2. n \in Values(t)
      BY <1>1, <1>2, TypeBounds DEF Values
    <2> QED
      BY <1>2, <2>1, <2>2 DEF Ok, TryInto
  <1>3. CASE ~(n <= t.max)
    <2>1. TryFrom(t, n) = Err
      BY <1>3 DEF TryFrom
    <2> QED
      BY <1>3, <2>1 DEF Err, TryInto
  <1> QED
    BY <1>2, <1>3

\* Requirements 2 and 3, round-trip equivalence and non-negative handling: what
\* converts to the type converts back to itself, and of the values of the type
\* that convert to a length, every one came from that length.
THEOREM RoundTrip ==
  ASSUME NEW t \in IntType
  PROVE  /\ \A n \in Usize : TryFrom(t, n).ok => TryInto(TryFrom(t, n).val) = Ok(n)
         /\ \A v \in Values(t) : TryInto(v).ok =>
              TryFrom(t, TryInto(v).val).ok /\ TryFrom(t, TryInto(v).val).val = v
PROOF
  <1>1. ASSUME NEW n \in Usize, TryFrom(t, n).ok
        PROVE  TryInto(TryFrom(t, n).val) = Ok(n)
    BY <1>1, Converts
  <1>2. ASSUME NEW v \in Values(t), TryInto(v).ok
        PROVE  TryFrom(t, TryInto(v).val).ok /\ TryFrom(t, TryInto(v).val).val = v
    <2>1. v \in Usize
      BY <1>2 DEF TryInto, Err
    <2>2. TryInto(v).val = v
      BY <2>1 DEF TryInto, Ok
    <2>3. v <= t.max
      BY TypeBounds DEF Values
    <2> QED
      BY <2>1, <2>2, <2>3, Converts
  <1> QED
    BY <1>1, <1>2

\* Requirement 5, maximum value: MAX is a usize that converts and round-trips,
\* so that the unwrap of C::try_from(C::MAX) in try_push_back cannot panic, and
\* no usize above it converts.
THEOREM MaximumValue ==
  ASSUME NEW t \in IntType
  PROVE  /\ MAX(t) \in Usize
         /\ TryFrom(t, MAX(t)).ok
         /\ TryInto(TryFrom(t, MAX(t)).val) = Ok(MAX(t))
         /\ \A n \in Usize : n > MAX(t) => ~TryFrom(t, n).ok
PROOF
  <1>1. MAX(t) \in Usize /\ MAX(t) <= t.max
    BY TypeBounds, CBufLenAssumption DEF MAX, ConstMin, Usize
  <1>2. ASSUME NEW n \in Usize, n > MAX(t)
        PROVE  ~(n <= t.max)
    BY <1>2, TypeBounds, CBufLenAssumption DEF MAX, ConstMin, Usize
  <1> QED
    BY <1>1, <1>2, Converts, RoundTrip

\* The division by the size of an element, as inequalities.
LEMMA DivisionBounds ==
  ASSUME NEW size \in 1 .. IsizeMax, NEW n \in Nat
  PROVE  /\ MaxSliceLen(size) \in Nat
         /\ n <= MaxSliceLen(size) <=> n * size <= IsizeMax
PROOF
  <1> DEFINE q == IsizeMax \div size
  <1>1. q \in Nat /\ size * q <= IsizeMax /\ IsizeMax < size * (q + 1)
    BY CBufLenAssumption
  <1> HIDE DEF q
  <1>2. ASSUME n <= q PROVE n * size <= IsizeMax
    <2>1. size * n <= size * q
      BY <1>1, <1>2
    <2> QED
      BY <1>1, <2>1, CBufLenAssumption
  <1>3. ASSUME n > q PROVE n * size > IsizeMax
    <2>1. size * n >= size * (q + 1)
      BY <1>1, <1>3
    <2> QED
      BY <1>1, <2>1, CBufLenAssumption
  <1> QED
    BY <1>1, <1>2, <1>3, CBufLenAssumption DEF q, MaxSliceLen

\* The layout of at most max_slice_len elements is one: neither Layout::array in
\* try_push_back, nor the one in clear, fails.
THEOREM LayoutArraySucceeds ==
  ASSUME NEW size \in 1 .. IsizeMax, NEW n \in Nat, n <= MaxSliceLen(size)
  PROVE  n * size <= IsizeMax
  BY DivisionBounds

\* The first capacity of a growing vector has a layout, room for an element, and
\* fits every type of a capacity field: what CVec assumes of MinNonZeroCap.
THEOREM FirstCapacityFits ==
  ASSUME NEW size \in 1 .. IsizeMax, NEW t \in Primitive
  PROVE  MinNonZeroCap(size) \in 1 .. MaxSliceLen(size) /\ MinNonZeroCap(size) <= MAX(t)
PROOF
  <1>1. MinNonZeroCap(size) \in {1, 4, 8}
    BY CBufLenAssumption DEF MinNonZeroCap
  <1>2. MinNonZeroCap(size) * size <= IsizeMax
    BY CBufLenAssumption DEF MinNonZeroCap
  <1>3. MinNonZeroCap(size) <= MaxSliceLen(size) /\ MaxSliceLen(size) \in Nat
    BY <1>1, <1>2, DivisionBounds
  <1>4. MinNonZeroCap(size) <= MAX(t)
    BY <1>1, CBufLenAssumption DEF Primitive, IntType, MAX, ConstMin
  <1> QED
    BY <1>1, <1>3, <1>4

-----------------------------------------------------------------------------
(***************************************************************************)
(* The buffers: the invariant.                                             *)
(***************************************************************************)
Cell == Val \cup {Raw, Gone}
Buffer == [ptr : Block \cup {Null, Dangling, None}, len : Int]

\* What has a type; no block is longer than a length can be.
StateOK ==
  /\ DOMAIN heap \subseteq Block
  /\ \A p \in DOMAIN heap : heap[p] \in Seq(Cell) /\ Len(heap[p]) <= LenType.max
  /\ bufs \in [Place -> Buffer]
  /\ clones \in [Call -> CloneRecord \cup {None}]

\* Every cell of a block holds a value.
Whole(p) == \A i \in DOMAIN heap[p] : Holds(p, i)

\* What a field or a box holds: nothing; the empty boxed slice; a whole block
\* with its length, or with C's mark.
PlaceOK(x) ==
  \/ bufs[x] = Empty(x)
  \/ x \in Boxed /\ bufs[x] = [ptr |-> Dangling, len |-> 0]
  \/ /\ bufs[x].ptr \in DOMAIN heap
     /\ Whole(bufs[x].ptr)
     /\ \/ bufs[x].len = Len(heap[bufs[x].ptr]) /\ (x \in Boxed => bufs[x].len > 0)
        \/ x \notin Boxed /\ bufs[x].len = -1 /\ LenType.min < 0

\* How far a clone has come: the cells that are dropped, those cloned from the
\* source, and those still raw.
CellOf(r, i) ==
  IF i <= r.next THEN Gone
  ELSE IF i <= r.initialized THEN heap[bufs[r.src].ptr][i] ELSE Raw

\* A clone under way has a block of its own, a source that lasts, and an empty
\* destination.
CloneOK(k) ==
  Running(k) =>
    /\ clones[k].ptr \in DOMAIN heap
    /\ Len(heap[clones[k].ptr]) = clones[k].len
    /\ bufs[clones[k].dst] = Empty(clones[k].dst)
    /\ bufs[clones[k].src].ptr \in DOMAIN heap
    /\ bufs[clones[k].src].len = clones[k].len
    /\ clones[k].next <= clones[k].initialized
    /\ clones[k].initialized <= clones[k].len
    /\ clones[k].next > 0 => clones[k].unwinding
    /\ \A i \in 1 .. clones[k].len : heap[clones[k].ptr][i] = CellOf(clones[k], i)

\* Every block has one owner, a place or a clone.
OneBlock ==
  /\ \A x, y \in Place : bufs[x].ptr \in Block /\ bufs[x].ptr = bufs[y].ptr => x = y
  /\ \A k, j \in Call : Running(k) /\ Running(j) /\ clones[k].ptr = clones[j].ptr => k = j
  /\ \A x \in Place, k \in Call : Running(k) => clones[k].ptr # bufs[x].ptr
  /\ \A p \in DOMAIN heap : \/ \E x \in Place : bufs[x].ptr = p
                            \/ \E k \in Call : Running(k) /\ clones[k].ptr = p

\* No two clones have the same destination.
OneDst == \A k, j \in Call : Running(k) /\ Running(j) /\ clones[k].dst = clones[j].dst => k = j

IInv ==
  /\ StateOK
  /\ \A x \in Place : PlaceOK(x)
  /\ \A k \in Call : CloneOK(k)
  /\ OneBlock
  /\ OneDst
  /\ NoFault

-----------------------------------------------------------------------------
\* A step that touches the places X, the calls K and the blocks P, and nothing else.
Local(X, K, P) ==
  /\ \A x \in Place \ X : bufs'[x] = bufs[x] /\ bufs[x].ptr \notin P
  /\ \A k \in Call \ K :
       /\ clones'[k] = clones[k]
       /\ Running(k) => clones[k].ptr \notin P /\ clones[k].src \notin X /\ clones[k].dst \notin X
  /\ \A x \in X : bufs[x].ptr \notin Block \ P /\ bufs'[x].ptr \notin Block \ P
  /\ \A k \in K : /\ Running(k) => clones[k].ptr \in P
                  /\ Running(k)' => clones'[k].ptr \in P
  /\ \A p \in Block \ P : p \in DOMAIN heap' <=> p \in DOMAIN heap
  /\ \A p \in DOMAIN heap \ P : heap'[p] = heap[p]

\* What an action has to show for what it touches.
Mine(X, K, P) ==
  /\ \A x \in X : PlaceOK(x)'
  /\ \A k \in K : CloneOK(k)'
  /\ \A x, y \in X : bufs'[x].ptr \in Block /\ bufs'[x].ptr = bufs'[y].ptr => x = y
  /\ \A k, j \in K : k = j
  /\ \A x \in X, k \in K : Running(k)' => clones'[k].ptr # bufs'[x].ptr
  /\ \A p \in P : p \in DOMAIN heap' => \/ \E x \in X : bufs'[x].ptr = p
                                        \/ \E k \in K : Running(k)' /\ clones'[k].ptr = p
  /\ \A k \in K, j \in Call \ K : Running(k)' /\ Running(j) => clones'[k].dst # clones[j].dst

\* An empty place has no block.
LEMMA EmptyHasNone ==
  ASSUME NEW x
  PROVE  Empty(x).ptr \notin Block /\ Empty(x).len = 0 /\ (x \notin Boxed => Empty(x).ptr = Null)
  BY CBufAssumption DEF Empty

\* The places of a clone's ends.
LEMMA CloneEnds ==
  ASSUME StateOK, NEW k \in Call, Running(k)
  PROVE  /\ clones[k] \in CloneRecord
         /\ clones[k].src \in Place /\ clones[k].dst \in Place
         /\ clones[k].src \notin Boxed /\ clones[k].dst \notin Boxed
         /\ clones[k].ptr \in Block
         /\ clones[k].len \in Nat /\ clones[k].initialized \in Nat /\ clones[k].next \in Nat
         /\ clones[k].unwinding \in BOOLEAN
  <1>1. clones[k] \in CloneRecord
    BY DEF StateOK, Running
  <1> QED
    BY <1>1, CBufAssumption DEF CloneRecord, Place

\* A step keeps what it does not touch.
LEMMA Frame ==
  ASSUME NEW X \in SUBSET Place, NEW K \in SUBSET Call, NEW P \in SUBSET Block,
         IInv, StateOK', Local(X, K, P), Mine(X, K, P), faults' = {}
  PROVE  IInv'
PROOF
  <1>1. ASSUME NEW x \in Place \ X
        PROVE  PlaceOK(x)'
    <2>1. bufs'[x] = bufs[x] /\ bufs[x].ptr \notin P
      BY DEF Local
    <2>2. bufs[x].ptr \in DOMAIN heap => bufs[x].ptr \in DOMAIN heap' /\ heap'[bufs[x].ptr] = heap[bufs[x].ptr]
      BY <2>1 DEF Local, IInv, StateOK
    <2> QED
      BY <2>1, <2>2 DEF IInv, PlaceOK, Whole, Holds, Empty
  <1>2. ASSUME NEW k \in Call \ K
        PROVE  CloneOK(k)'
    <2> SUFFICES ASSUME Running(k)' PROVE CloneOK(k)'
      BY DEF CloneOK
    <2>1. clones'[k] = clones[k] /\ Running(k)
      BY DEF Local, Running
    <2>2. clones[k].ptr \notin P /\ clones[k].src \in Place \ X /\ clones[k].dst \in Place \ X
      BY <2>1, CloneEnds DEF Local, IInv
    <2>3. bufs'[clones[k].src] = bufs[clones[k].src] /\ bufs'[clones[k].dst] = bufs[clones[k].dst]
      BY <2>2 DEF Local
    <2>4. bufs[clones[k].src].ptr \notin P
      BY <2>2 DEF Local
    <2>5. CloneOK(k)
      BY DEF IInv
    <2>6. clones[k].ptr \in DOMAIN heap' /\ heap'[clones[k].ptr] = heap[clones[k].ptr]
      BY <2>1, <2>2, <2>5 DEF CloneOK, Local, IInv, StateOK
    <2>7. /\ bufs[clones[k].src].ptr \in DOMAIN heap'
          /\ heap'[bufs[clones[k].src].ptr] = heap[bufs[clones[k].src].ptr]
      BY <2>1, <2>4, <2>5 DEF CloneOK, Local, IInv, StateOK
    <2> QED
      BY <2>1, <2>3, <2>5, <2>6, <2>7 DEF CloneOK, CellOf, Empty
  <1>3. OneBlock'
    <2>1. \A x, y \in Place : bufs'[x].ptr \in Block /\ bufs'[x].ptr = bufs'[y].ptr => x = y
      BY DEF IInv, OneBlock, Local, Mine
    <2>2. \A k, j \in Call : Running(k)' /\ Running(j)' /\ clones'[k].ptr = clones'[j].ptr => k = j
      BY DEF IInv, OneBlock, Local, Mine, Running
    <2>3. ASSUME NEW x \in Place, NEW k \in Call, Running(k)'
          PROVE  clones'[k].ptr # bufs'[x].ptr
      <3>1. clones'[k].ptr \in Block
        BY <2>3 DEF StateOK, Running, CloneRecord
      <3> QED
        BY <2>3, <3>1 DEF IInv, OneBlock, Local, Mine, Running
    <2>4. ASSUME NEW p \in DOMAIN heap'
          PROVE  \/ \E x \in Place : bufs'[x].ptr = p
                 \/ \E k \in Call : Running(k)' /\ clones'[k].ptr = p
      <3>1. CASE p \in P
        BY <3>1 DEF Mine
      <3>2. CASE p \notin P
        <4>1. p \in DOMAIN heap /\ p \in Block
          BY <3>2 DEF Local, StateOK
        <4>2. CASE \E x \in Place : bufs[x].ptr = p
          <5>1. PICK x \in Place : bufs[x].ptr = p
            BY <4>2
          <5>2. x \notin X
            BY <3>2, <4>1, <5>1 DEF Local
          <5> QED
            BY <5>1, <5>2 DEF Local
        <4>3. CASE \E k \in Call : Running(k) /\ clones[k].ptr = p
          <5>1. PICK k \in Call : Running(k) /\ clones[k].ptr = p
            BY <4>3
          <5>2. k \notin K
            BY <3>2, <5>1 DEF Local
          <5> QED
            BY <5>1, <5>2 DEF Local, Running
        <4> QED
          BY <4>1, <4>2, <4>3 DEF IInv, OneBlock
      <3> QED
        BY <3>1, <3>2
    <2> QED
      BY <2>1, <2>2, <2>3, <2>4 DEF OneBlock
  <1>4. OneDst'
    BY DEF IInv, OneDst, Local, Mine, Running
  <1> QED
    BY <1>1, <1>2, <1>3, <1>4 DEF IInv, Mine, NoFault

-----------------------------------------------------------------------------
\* The block of a place is a block of the heap, and no one else's.
LEMMA PlaceBlock ==
  ASSUME IInv, NEW x \in Place, bufs[x].ptr \in Block
  PROVE  /\ bufs[x].ptr \in DOMAIN heap /\ Whole(bufs[x].ptr)
         /\ \/ bufs[x].len = Len(heap[bufs[x].ptr]) /\ (x \in Boxed => bufs[x].len > 0)
            \/ x \notin Boxed /\ bufs[x].len = -1 /\ LenType.min < 0
         /\ \A y \in Place \ {x} : bufs[y].ptr # bufs[x].ptr
         /\ \A k \in Call : Running(k) => clones[k].ptr # bufs[x].ptr
PROOF
  <1>1. PlaceOK(x)
    BY DEF IInv
  <1>2. bufs[x] # Empty(x) /\ bufs[x] # [ptr |-> Dangling, len |-> 0]
    BY EmptyHasNone, CBufAssumption
  <1> QED
    BY <1>1, <1>2 DEF PlaceOK, IInv, OneBlock

\* A free block is no one's.
LEMMA FreeBlockIsNew ==
  ASSUME IInv, NEW p \in FreeBlocks
  PROVE  /\ p \in Block /\ p \notin DOMAIN heap
         /\ \A x \in Place : bufs[x].ptr # p
         /\ \A k \in Call : Running(k) => clones[k].ptr # p
  BY PlaceBlock DEF FreeBlocks, IInv, CloneOK

\* What is not empty is no clone's destination.
LEMMA FullIsNotAwaited ==
  ASSUME IInv, NEW x \in Place, bufs[x] # Empty(x)
  PROVE  ~Awaited(x)
  BY DEF Awaited, IInv, CloneOK

\* A field with something in it has a block.
LEMMA FullField ==
  ASSUME IInv, NEW x \in Field \cup Owned
  PROVE  /\ bufs[x] # Empty(x) <=> bufs[x].ptr \in Block
         /\ bufs[x] # Empty(x) <=> bufs[x].ptr # Null
         /\ x \in Place /\ x \notin Boxed
PROOF
  <1>1. PlaceOK(x) /\ x \in Place /\ x \notin Boxed
    BY CBufAssumption DEF IInv, Place
  <1> QED
    BY <1>1, CBufAssumption, EmptyHasNone DEF PlaceOK, IInv, StateOK

\* A step that changes nothing.
LEMMA Same ==
  ASSUME IInv, UNCHANGED vars
  PROVE  IInv'
  BY DEF vars, IInv, StateOK, PlaceOK, Whole, Holds, Empty, CloneOK, Running, CellOf,
         OneBlock, OneDst, NoFault

LEMMA InitInv ==
  ASSUME Init
  PROVE  IInv
PROOF
  <1>1. \A x \in Place : Empty(x) \in Buffer
    BY DEF Empty, Buffer
  <1>2. DOMAIN heap = {}
    BY DEF Init
  <1>3. StateOK
    BY <1>1, <1>2 DEF Init, StateOK
  <1>4. \A x \in Place : bufs[x] = Empty(x) /\ bufs[x].ptr \notin Block
    BY EmptyHasNone DEF Init
  <1>5. \A k \in Call : ~Running(k)
    BY DEF Init, Running
  <1> QED
    BY <1>2, <1>3, <1>4, <1>5 DEF Init, IInv, PlaceOK, CloneOK, OneBlock, OneDst, NoFault

-----------------------------------------------------------------------------
(***************************************************************************)
(* The steps that leave the blocks alone.                                  *)
(***************************************************************************)
\* A buffer goes from one place to another.
LEMMA Move ==
  ASSUME IInv, NEW x \in Place, NEW y \in Field \cup Owned, Full(x), Vacant(y),
         bufs[x].ptr \in Block,
         bufs' = [bufs EXCEPT ![x] = Empty(x), ![y] = bufs[x]],
         UNCHANGED <<heap, clones, faults>>
  PROVE  IInv'
PROOF
  <1> DEFINE p == bufs[x].ptr
  <1>1. y \in Place /\ y \notin Boxed /\ x # y
    BY FullField DEF Full, Vacant
  <1>2. bufs'[x] = Empty(x) /\ bufs'[y] = bufs[x] /\ \A z \in Place \ {x, y} : bufs'[z] = bufs[z]
    BY <1>1 DEF IInv, StateOK
  <1>3. Empty(x) \in Buffer
    BY DEF Empty, Buffer
  <1>4. StateOK'
    BY <1>1, <1>3 DEF IInv, StateOK
  <1>5. Local({x, y}, {}, {p})
    BY <1>1, <1>2, PlaceBlock, EmptyHasNone, FullIsNotAwaited
       DEF Local, Full, Vacant, Borrowed, Awaited, Running
  <1>6. PlaceOK(x)' /\ PlaceOK(y)'
    BY <1>1, <1>2, PlaceBlock DEF PlaceOK, Whole, Holds, Empty
  <1>7. Mine({x, y}, {}, {p})
    BY <1>1, <1>2, <1>6, EmptyHasNone DEF Mine
  <1> QED
    BY <1>1, <1>4, <1>5, <1>7, Frame DEF IInv, NoFault

\* A buffer without a block comes to a place, or is no more.
LEMMA NoBlock ==
  ASSUME IInv, NEW x \in Place, bufs[x].ptr \notin Block, ~Borrowed(x), ~Awaited(x),
         NEW b \in Buffer, b.ptr \notin Block, b = Empty(x) \/ (x \in Boxed /\ b = [ptr |-> Dangling, len |-> 0]),
         bufs' = [bufs EXCEPT ![x] = b],
         UNCHANGED <<heap, clones, faults>>
  PROVE  IInv'
PROOF
  <1>1. bufs'[x] = b /\ \A z \in Place \ {x} : bufs'[z] = bufs[z]
    BY DEF IInv, StateOK
  <1>2. StateOK'
    BY DEF IInv, StateOK
  <1>3. Local({x}, {}, {})
    BY <1>1 DEF Local, Borrowed, Awaited, Running
  <1>4. PlaceOK(x)'
    BY <1>1 DEF PlaceOK, Empty
  <1>5. Mine({x}, {}, {})
    BY <1>1, <1>4 DEF Mine
  <1> QED
    BY <1>2, <1>3, <1>5, Frame DEF IInv, NoFault

\* C marks a buffer, or takes its mark away.
LEMMA SetLen ==
  ASSUME IInv, NEW x \in Field \cup Owned, Full(x),
         NEW b \in Buffer, b.ptr = bufs[x].ptr,
         b.len = Len(heap[bufs[x].ptr]) \/ (b.len = -1 /\ LenType.min < 0),
         bufs' = [bufs EXCEPT ![x] = b],
         UNCHANGED <<heap, clones, faults>>
  PROVE  IInv'
PROOF
  <1> DEFINE p == bufs[x].ptr
  <1>1. x \in Place /\ x \notin Boxed /\ p \in Block
    BY FullField DEF Full
  <1>4. bufs'[x] = b /\ \A z \in Place \ {x} : bufs'[z] = bufs[z]
    BY <1>1 DEF IInv, StateOK
  <1>5. StateOK'
    BY DEF IInv, StateOK
  <1>6. Local({x}, {}, {p})
    BY <1>1, <1>4, PlaceBlock, FullIsNotAwaited DEF Local, Full, Borrowed, Awaited, Running
  <1>7. PlaceOK(x)'
    BY <1>1, <1>4, PlaceBlock DEF PlaceOK, Whole, Holds
  <1>8. Mine({x}, {}, {p})
    BY <1>4, <1>7 DEF Mine
  <1> QED
    BY <1>1, <1>5, <1>6, <1>8, Frame DEF IInv, NoFault

-----------------------------------------------------------------------------
(***************************************************************************)
(* The steps that allocate and free.                                       *)
(***************************************************************************)
\* A new block of values comes to a place that had another block, or none.
LEMMA Fill ==
  ASSUME IInv, NEW x \in Place, ~Borrowed(x), ~Awaited(x),
         NEW q \in Block, q \in FreeBlocks \/ q = bufs[x].ptr,
         NEW cells \in Seq(Val), Len(cells) <= LenType.max, x \in Boxed => Len(cells) > 0,
         heap' = [p \in (DOMAIN heap \ {bufs[x].ptr}) \cup {q} |-> IF p = q THEN cells ELSE heap[p]],
         bufs' = [bufs EXCEPT ![x] = [ptr |-> q, len |-> Len(cells)]],
         UNCHANGED <<clones, faults>>
  PROVE  IInv'
PROOF
  <1> DEFINE P == {bufs[x].ptr, q} \cap Block
             b == [ptr |-> q, len |-> Len(cells)]
  <1>1. cells \in Seq(Cell) /\ Len(cells) \in Nat /\ \A i \in DOMAIN cells : cells[i] \in Val
    BY DEF Cell
  <1>2. b \in Buffer /\ b.ptr = q /\ b.len = Len(cells)
    BY <1>1 DEF Buffer
  <1> HIDE DEF b
  <1>3. bufs'[x] = b /\ \A z \in Place \ {x} : bufs'[z] = bufs[z]
    BY DEF IInv, StateOK, b
  <1>4. StateOK'
    BY <1>1, <1>2 DEF IInv, StateOK, b
  <1>5. /\ q \in DOMAIN heap' /\ heap'[q] = cells
        /\ \A p \in Block \ P : p \in DOMAIN heap' <=> p \in DOMAIN heap
        /\ \A p \in DOMAIN heap \ P : heap'[p] = heap[p]
        /\ \A p \in P : p \in DOMAIN heap' => p = q
    BY DEF IInv, StateOK
  <1>6. /\ \A z \in Place \ {x} : bufs[z].ptr \notin P
        /\ \A k \in Call : Running(k) => clones[k].ptr \notin P
    BY PlaceBlock, FreeBlockIsNew
  <1>7. Local({x}, {}, P)
    BY <1>2, <1>3, <1>5, <1>6 DEF Local, Borrowed, Awaited
  <1>8. PlaceOK(x)'
    BY <1>1, <1>2, <1>3, <1>5 DEF PlaceOK, Whole, Holds
  <1>9. Mine({x}, {}, P)
    BY <1>2, <1>3, <1>5, <1>8 DEF Mine
  <1> HIDE DEF P
  <1>10. P \in SUBSET Block
    BY DEF P
  <1> QED
    BY <1>4, <1>7, <1>9, <1>10, Frame DEF IInv, NoFault

\* The block of a place is freed.
LEMMA TakeAway ==
  ASSUME IInv, NEW x \in Place, ~Borrowed(x), ~Awaited(x), bufs[x].ptr \in Block,
         heap' = Without(bufs[x].ptr),
         bufs' = [bufs EXCEPT ![x] = Empty(x)],
         faults' = faults, UNCHANGED clones
  PROVE  IInv'
PROOF
  <1> DEFINE p == bufs[x].ptr
  <1>1. bufs'[x] = Empty(x) /\ \A z \in Place \ {x} : bufs'[z] = bufs[z]
    BY DEF IInv, StateOK
  <1>2. Empty(x) \in Buffer
    BY DEF Empty, Buffer
  <1>3. StateOK'
    BY <1>2 DEF IInv, StateOK, Without
  <1>4. Local({x}, {}, {p})
    BY <1>1, PlaceBlock, EmptyHasNone DEF Local, Borrowed, Awaited, Without, IInv, StateOK
  <1>5. PlaceOK(x)'
    BY <1>1 DEF PlaceOK, Empty
  <1>6. Mine({x}, {}, {p})
    BY <1>1, <1>5, EmptyHasNone DEF Mine, Without
  <1> QED
    BY <1>3, <1>4, <1>6, Frame DEF IInv, NoFault

-----------------------------------------------------------------------------
(***************************************************************************)
(* The steps of a clone.                                                   *)
(***************************************************************************)
\* The source of a clone under way is whole, and is not the clone's own block.
LEMMA CloneSource ==
  ASSUME IInv, NEW k \in Call, Running(k)
  PROVE  LET q == bufs[clones[k].src].ptr
         IN  /\ q \in DOMAIN heap /\ q # clones[k].ptr
             /\ Len(heap[q]) = clones[k].len /\ heap[q] \in Seq(Val)
             /\ bufs[clones[k].src].len = clones[k].len
PROOF
  <1> DEFINE x == clones[k].src
             q == bufs[x].ptr
  <1>1. x \in Place /\ x \notin Boxed /\ clones[k].len \in Nat
    BY CloneEnds DEF IInv
  <1>2. CloneOK(k)
    BY DEF IInv
  <1>3. q \in DOMAIN heap /\ q \in Block /\ bufs[x].len = clones[k].len
    BY <1>2 DEF CloneOK, IInv, StateOK
  <1>4. q # clones[k].ptr /\ Whole(q) /\ Len(heap[q]) = clones[k].len
    BY <1>1, <1>3, PlaceBlock
  <1>5. heap[q] \in Seq(Val)
    BY <1>3, <1>4 DEF Whole, Holds, IInv, StateOK
  <1> QED
    BY <1>3, <1>4, <1>5

\* What with_len sees of a whole block with its length is all of it.
LEMMA WithLenIsAll ==
  ASSUME NEW x, bufs[x].ptr # Null, heap[bufs[x].ptr] \in Seq(Cell),
         bufs[x].len = Len(heap[bufs[x].ptr])
  PROVE  WithLen(x) = heap[bufs[x].ptr]
PROOF
  <1> DEFINE s == heap[bufs[x].ptr]
  <1>1. Len(s) \in Nat
    OBVIOUS
  <1>2. CASE Len(s) = 0
    BY <1>2, EmptySeq DEF WithLen
  <1>3. CASE Len(s) # 0
    <2>1. SubSeq(s, 1, Len(s)) = s
      BY <1>1, <1>3, SubSeqProperties, SeqEqual
    <2> QED
      BY <1>3, <2>1 DEF WithLen
  <1> QED
    BY <1>2, <1>3

\* A length that converts to a usize is the block's own: no view goes past it.
LEMMA ViewInBlock ==
  ASSUME IInv, NEW x \in Field \cup Owned, bufs[x].len \in Usize
  PROVE  PastFaults(x) = {}
PROOF
  <1>1. CASE bufs[x].ptr = Null
    BY <1>1 DEF PastFaults, Past
  <1>2. CASE bufs[x].ptr # Null
    <2> DEFINE p == bufs[x].ptr
    <2>1. p \in Block /\ x \in Place
      BY <1>2, FullField
    <2>2. p \in DOMAIN heap /\ bufs[x].len \in {-1, Len(heap[p])} /\ heap[p] \in Seq(Cell)
      BY <2>1, PlaceBlock DEF IInv, StateOK
    <2>3. Len(heap[p]) \in Nat /\ bufs[x].len = Len(heap[p])
      BY <2>2, CBufLenAssumption DEF Usize
    <2>4. bufs[x].len # 0 => bufs[x].len \in 1 .. Len(heap[p])
      <3> HIDE DEF p
      <3> QED
        BY <2>3
    <2>5. ~Past(x)
      BY <2>2, <2>4, Zenon DEF Past
    <2> QED
      BY <2>5 DEF PastFaults
  <1> QED
    BY <1>1, <1>2

\* A clone under way goes on.
LEMMA CloneStep ==
  ASSUME IInv, NEW k \in Call, Running(k), NEW r \in CloneRecord,
         r.src = clones[k].src, r.dst = clones[k].dst, r.ptr = clones[k].ptr, r.len = clones[k].len,
         r.next <= r.initialized, r.initialized <= r.len, r.next > 0 => r.unwinding,
         clones' = [clones EXCEPT ![k] = r],
         DOMAIN heap' = DOMAIN heap, \A q \in DOMAIN heap \ {r.ptr} : heap'[q] = heap[q],
         heap'[r.ptr] \in Seq(Cell), Len(heap'[r.ptr]) = r.len,
         \A i \in 1 .. r.len : heap'[r.ptr][i] = CellOf(r, i),
         UNCHANGED <<bufs, faults>>
  PROVE  IInv'
PROOF
  <1> DEFINE p == r.ptr
             q == bufs[r.src].ptr
  <1>1. p \in Block /\ r # None
    BY CloneEnds, CBufAssumption DEF IInv
  <1>2. clones'[k] = r /\ \A j \in Call \ {k} : clones'[j] = clones[j]
    BY DEF IInv, StateOK
  <1>3. CloneOK(k)
    BY DEF IInv
  <1>4. q \in DOMAIN heap /\ q # p
    BY CloneSource
  <1>5. r.len <= LenType.max /\ p \in DOMAIN heap
    BY <1>3 DEF IInv, StateOK, CloneOK
  <1>51. clones' \in [Call -> CloneRecord \cup {None}]
    BY DEF IInv, StateOK
  <1>52. StateOK'
    BY <1>5, <1>51 DEF IInv, StateOK
  <1>6. Local({}, {k}, {p})
    BY <1>1, <1>2 DEF Local, IInv, OneBlock
  <1>7. \A i \in 1 .. r.len : heap'[p][i] = CellOf(r, i)'
    BY <1>4 DEF CellOf
  <1>8. CloneOK(k)'
    BY <1>2, <1>3, <1>4, <1>7 DEF CloneOK, Empty
  <1>9. Mine({}, {k}, {p})
    BY <1>1, <1>2, <1>8 DEF Mine, Running, IInv, OneDst
  <1> QED
    BY <1>1, <1>52, <1>6, <1>9, Frame DEF IInv, NoFault

LEMMA CloneBeginStep ==
  ASSUME IInv, NEW k \in Call, NEW src \in Field \cup Owned, NEW dst \in Field \cup Owned,
         CloneBegin(k, src, dst)
  PROVE  IInv'
PROOF
  <1>0. bufs[src].len \in Usize /\ UNCHANGED <<bufs, faults>>
    <2>1. bufs[src].len \in Usize
      BY DEF CloneBegin, WithLenPanics, Length, TryInto, Err
    <2> QED
      BY <2>1, ViewInBlock DEF CloneBegin
  <1>1. CASE UNCHANGED <<heap, clones>>
    BY <1>0, <1>1, Same DEF vars
  <1>2. CASE /\ WithLen(src) # <<>>
             /\ \E p \in FreeBlocks :
                  /\ heap' = With(p, [i \in 1 .. bufs[src].len |-> Raw])
                  /\ clones' = [clones EXCEPT ![k] =
                       [src |-> src, dst |-> dst, ptr |-> p, len |-> bufs[src].len,
                        initialized |-> 0, unwinding |-> FALSE, next |-> 0]]
    <2>1. PICK p \in FreeBlocks :
            /\ heap' = With(p, [i \in 1 .. bufs[src].len |-> Raw])
            /\ clones' = [clones EXCEPT ![k] =
                 [src |-> src, dst |-> dst, ptr |-> p, len |-> bufs[src].len,
                  initialized |-> 0, unwinding |-> FALSE, next |-> 0]]
      BY <1>2
    <2> DEFINE n == bufs[src].len
               q == bufs[src].ptr
               r == [src |-> src, dst |-> dst, ptr |-> p, len |-> n,
                     initialized |-> 0, unwinding |-> FALSE, next |-> 0]
               cells == [i \in 1 .. n |-> Raw]
    <2>2. src \in Place /\ src \notin Boxed /\ dst \in Place
      BY FullField
    <2>3. q # Null /\ q \in Block
      BY <1>2, <2>2, FullField DEF WithLen
    <2>4. q \in DOMAIN heap /\ n \in {-1, Len(heap[q])} /\ heap[q] \in Seq(Cell) /\ Len(heap[q]) <= LenType.max
      BY <2>2, <2>3, PlaceBlock DEF IInv, StateOK
    <2>5. n \in Usize
      BY <1>0
    <2>6. n = Len(heap[q]) /\ n \in Nat
      BY <2>4, <2>5, CBufLenAssumption DEF Usize
    <2>7. p \in Block /\ p \notin DOMAIN heap
      BY FreeBlockIsNew
    <2>8. r \in CloneRecord
      BY <2>6, <2>7 DEF CloneRecord
    <2>81. r # None
      BY <2>8, CBufAssumption
    <2>9. cells \in Seq(Cell) /\ Len(cells) = n /\ \A i \in 1 .. n : cells[i] = Raw
      BY <2>6 DEF Cell
    <2>10. /\ r.src = src /\ r.dst = dst /\ r.ptr = p /\ r.len = n
           /\ r.initialized = 0 /\ r.next = 0 /\ ~r.unwinding
      OBVIOUS
    <2> HIDE DEF r, cells
    <2>11. /\ DOMAIN heap' = DOMAIN heap \cup {p} /\ heap'[p] = cells
           /\ \A z \in DOMAIN heap : heap'[z] = heap[z]
      BY <2>1, <2>7 DEF With, cells
    <2>12. clones'[k] = r /\ \A j \in Call \ {k} : clones'[j] = clones[j]
      BY <2>1 DEF IInv, StateOK, r
    <2>13. clones' \in [Call -> CloneRecord \cup {None}]
      BY <2>1, <2>8 DEF IInv, StateOK, r
    <2>14. StateOK'
      BY <1>0, <2>4, <2>6, <2>7, <2>9, <2>11, <2>13 DEF IInv, StateOK
    <2>15. Local({}, {k}, {p})
      BY <1>0, <2>10, <2>11, <2>12, FreeBlockIsNew DEF Local, CloneBegin, Running
    <2>16. CloneOK(k)'
      BY <1>0, <2>4, <2>6, <2>9, <2>10, <2>11, <2>12 DEF CloneOK, CellOf, CloneBegin, Vacant, Empty
    <2>17. Mine({}, {k}, {p})
      BY <2>81, <2>10, <2>12, <2>16 DEF Mine, Running, CloneBegin, Vacant, Awaited
    <2> QED
      BY <1>0, <2>7, <2>14, <2>15, <2>17, Frame DEF IInv, NoFault
  <1> QED
    BY <1>1, <1>2 DEF CloneBegin

LEMMA CloneElemStep ==
  ASSUME IInv, NEW k \in Call, CloneElem(k)
  PROVE  IInv'
PROOF
  <1> DEFINE c == clones[k]
             i == c.initialized + 1
             q == bufs[c.src].ptr
             r == [c EXCEPT !.initialized = i]
  <1>1. Running(k) /\ ~c.unwinding /\ c.initialized < c.len
    BY DEF CloneElem, Cloning
  <1>2. CloneOK(k)
    BY DEF IInv
  <1>3. c \in CloneRecord /\ c.ptr \in Block /\ c.len \in Nat /\ c.initialized \in Nat /\ c.next \in Nat
    BY <1>1, CloneEnds DEF IInv
  <1>4. c.next = 0
    BY <1>1, <1>2, <1>3 DEF CloneOK
  <1>5. /\ q \in DOMAIN heap /\ q # c.ptr /\ Len(heap[q]) = c.len /\ heap[q] \in Seq(Val)
        /\ bufs[c.src].len = c.len /\ q # Null
    BY <1>1, CloneSource, CBufAssumption DEF IInv, StateOK
  <1>6. WithLen(c.src) = heap[q]
    BY <1>5, WithLenIsAll DEF IInv, StateOK
  <1>7. r \in CloneRecord
    BY <1>3 DEF CloneRecord
  <1>8. /\ r.src = c.src /\ r.dst = c.dst /\ r.ptr = c.ptr /\ r.len = c.len
        /\ r.initialized = i /\ r.next = c.next /\ r.unwinding = c.unwinding
    BY <1>3 DEF CloneRecord
  <1>9. clones' = [clones EXCEPT ![k] = r]
    BY DEF CloneElem
  <1> HIDE DEF r
  <1>10. c.ptr \in DOMAIN heap /\ heap[c.ptr] \in Seq(Cell) /\ Len(heap[c.ptr]) = c.len
    BY <1>1, <1>2 DEF CloneOK, IInv, StateOK
  <1>11. heap' = [heap EXCEPT ![c.ptr][i] = heap[q][i]]
    BY <1>6 DEF CloneElem
  <1>12. DOMAIN heap' = DOMAIN heap /\ \A z \in DOMAIN heap \ {c.ptr} : heap'[z] = heap[z]
    BY <1>11
  <1>13. heap'[c.ptr] = [heap[c.ptr] EXCEPT ![i] = heap[q][i]]
    BY <1>10, <1>11
  <1>14. heap[q][i] \in Cell
    BY <1>1, <1>3, <1>5 DEF Cell
  <1>15. /\ heap'[c.ptr] \in Seq(Cell) /\ Len(heap'[c.ptr]) = c.len
         /\ \A j \in 1 .. c.len : heap'[c.ptr][j] = IF j = i THEN heap[q][i] ELSE heap[c.ptr][j]
    <2>1. PICK s : s = heap[c.ptr]
      OBVIOUS
    <2>2. PICK v : v = heap[q][i]
      OBVIOUS
    <2>3. s \in Seq(Cell) /\ Len(s) = c.len /\ v \in Cell
      BY <1>10, <1>14, <2>1, <2>2
    <2>4. i \in 1 .. Len(s)
      BY <1>1, <1>3, <2>3
    <2>5. heap'[c.ptr] = [s EXCEPT ![i] = v]
      BY <1>13, <2>1, <2>2
    <2> HIDE DEF i
    <2>6. /\ heap'[c.ptr] \in Seq(Cell) /\ Len(heap'[c.ptr]) = Len(s)
          /\ \A j \in 1 .. Len(s) : heap'[c.ptr][j] = IF j = i THEN v ELSE s[j]
      BY <2>3, <2>4, <2>5, ExceptSeq
    <2> QED BY <2>1, <2>2, <2>3, <2>6
  <1>16. \A j \in 1 .. c.len : heap'[c.ptr][j] = CellOf(r, j)
    BY <1>1, <1>2, <1>3, <1>4, <1>8, <1>15 DEF CloneOK, CellOf
  <1>17. r.next <= r.initialized /\ r.initialized <= r.len /\ (r.next > 0 => r.unwinding)
    BY <1>1, <1>3, <1>4, <1>8
  <1>18. UNCHANGED <<bufs, faults>>
    BY DEF CloneElem
  <1> QED
    BY <1>1, <1>7, <1>8, <1>9, <1>12, <1>15, <1>16, <1>17, <1>18, CloneStep

LEMMA ClonePanicStep ==
  ASSUME IInv, NEW k \in Call, ClonePanic(k)
  PROVE  IInv'
PROOF
  <1> DEFINE c == clones[k]
             r == [c EXCEPT !.unwinding = TRUE]
  <1>1. Running(k)
    BY DEF ClonePanic, Cloning
  <1>2. CloneOK(k)
    BY DEF IInv
  <1>3. c \in CloneRecord
    BY <1>1, CloneEnds DEF IInv
  <1>4. r \in CloneRecord
    BY <1>3 DEF CloneRecord
  <1>5. /\ r.src = c.src /\ r.dst = c.dst /\ r.ptr = c.ptr /\ r.len = c.len
        /\ r.initialized = c.initialized /\ r.next = c.next /\ r.unwinding
    BY <1>3 DEF CloneRecord
  <1>6. clones' = [clones EXCEPT ![k] = r]
    BY DEF ClonePanic
  <1> HIDE DEF r
  <1>7. heap[c.ptr] \in Seq(Cell) /\ Len(heap[c.ptr]) = c.len
    BY <1>1, <1>2 DEF CloneOK, IInv, StateOK
  <1>8. \A j \in 1 .. c.len : heap[c.ptr][j] = CellOf(r, j)
    BY <1>1, <1>2, <1>5 DEF CloneOK, CellOf
  <1>9. r.next <= r.initialized /\ r.initialized <= r.len
    BY <1>1, <1>2, <1>5 DEF CloneOK
  <1>10. UNCHANGED <<heap, bufs, faults>>
    BY DEF ClonePanic
  <1> QED
    BY <1>1, <1>4, <1>5, <1>6, <1>7, <1>8, <1>9, <1>10, CloneStep

LEMMA GuardDropStep ==
  ASSUME IInv, NEW k \in Call, GuardDrop(k)
  PROVE  IInv'
PROOF
  <1> DEFINE c == clones[k]
             i == c.next + 1
             q == bufs[c.src].ptr
             r == [c EXCEPT !.next = i]
  <1>1. Running(k) /\ c.unwinding /\ c.next < c.initialized
    BY DEF GuardDrop
  <1>2. CloneOK(k)
    BY DEF IInv
  <1>3. c \in CloneRecord /\ c.ptr \in Block /\ c.len \in Nat /\ c.initialized \in Nat /\ c.next \in Nat
    BY <1>1, CloneEnds DEF IInv
  <1>4. q \in DOMAIN heap /\ q # c.ptr /\ Len(heap[q]) = c.len /\ heap[q] \in Seq(Val)
    BY <1>1, CloneSource
  <1>5. c.initialized <= c.len /\ i \in 1 .. c.len
    BY <1>1, <1>2, <1>3 DEF CloneOK
  <1>6. r \in CloneRecord
    BY <1>3 DEF CloneRecord
  <1>7. /\ r.src = c.src /\ r.dst = c.dst /\ r.ptr = c.ptr /\ r.len = c.len
        /\ r.initialized = c.initialized /\ r.next = i /\ r.unwinding = c.unwinding
    BY <1>3 DEF CloneRecord
  <1>8. clones' = [clones EXCEPT ![k] = r]
    BY DEF GuardDrop
  <1> HIDE DEF r
  <1>9. c.ptr \in DOMAIN heap /\ heap[c.ptr] \in Seq(Cell) /\ Len(heap[c.ptr]) = c.len
    BY <1>1, <1>2 DEF CloneOK, IInv, StateOK
  <1>10. heap[c.ptr][i] = heap[q][i]
    <2>1. heap[c.ptr][i] = CellOf(c, i)
      BY <1>1, <1>2, <1>5 DEF CloneOK
    <2> QED
      BY <1>1, <1>3, <2>1 DEF CellOf
  <1>11. heap[q][i] \in Val
    BY <1>4, <1>5
  <1>12. faults' = faults
    BY <1>10, <1>11 DEF GuardDrop, Holds
  <1>13. heap' = [heap EXCEPT ![c.ptr][i] = Gone]
    BY DEF GuardDrop
  <1>14. DOMAIN heap' = DOMAIN heap /\ \A z \in DOMAIN heap \ {c.ptr} : heap'[z] = heap[z]
    BY <1>13
  <1>15. heap'[c.ptr] = [heap[c.ptr] EXCEPT ![i] = Gone]
    BY <1>9, <1>13
  <1>16. /\ heap'[c.ptr] \in Seq(Cell) /\ Len(heap'[c.ptr]) = c.len
         /\ \A j \in 1 .. c.len : heap'[c.ptr][j] = IF j = i THEN Gone ELSE heap[c.ptr][j]
    BY <1>5, <1>9, <1>15, ExceptSeq DEF Cell
  <1>17. \A j \in 1 .. c.len : heap'[c.ptr][j] = CellOf(r, j)
    BY <1>1, <1>2, <1>3, <1>7, <1>16 DEF CloneOK, CellOf
  <1>18. r.next <= r.initialized /\ r.initialized <= r.len /\ (r.next > 0 => r.unwinding)
    BY <1>1, <1>3, <1>5, <1>7
  <1>19. bufs' = bufs
    BY DEF GuardDrop
  <1> QED
    BY <1>1, <1>6, <1>7, <1>8, <1>12, <1>14, <1>16, <1>17, <1>18, <1>19, CloneStep, ZenonT(30)

LEMMA GuardFreeStep ==
  ASSUME IInv, NEW k \in Call, GuardFree(k)
  PROVE  IInv'
PROOF
  <1> DEFINE c == clones[k]
             p == c.ptr
  <1>1. Running(k) /\ c.unwinding /\ c.next = c.initialized
    BY DEF GuardFree
  <1>2. CloneOK(k)
    BY DEF IInv
  <1>3. p \in Block /\ c.len \in Nat /\ c.initialized \in Nat /\ c.next \in Nat
    BY <1>1, CloneEnds DEF IInv
  <1>4. p \in DOMAIN heap /\ heap[p] \in Seq(Cell) /\ Len(heap[p]) = c.len
    BY <1>1, <1>2 DEF CloneOK, IInv, StateOK
  <1>5. \A i \in 1 .. c.len : heap[p][i] \in {Gone, Raw}
    BY <1>1, <1>2, <1>3 DEF CloneOK, CellOf
  <1>6. FreeFaults(p) = {} /\ LeftIn(p) = {}
    <2>1. \A i \in DOMAIN heap[p] : ~Holds(p, i)
      BY <1>4, <1>5, CBufAssumption DEF Holds
    <2> QED
      BY <1>4, <2>1 DEF FreeFaults, LeftIn
  <1>7. faults' = {}
    BY <1>6 DEF GuardFree, IInv, NoFault
  <1>8. ~Running(k)' /\ \A j \in Call \ {k} : clones'[j] = clones[j]
    BY DEF GuardFree, IInv, StateOK, Running
  <1>9. StateOK'
    BY DEF GuardFree, IInv, StateOK, Without
  <1>10. Local({}, {k}, {p})
    BY <1>1, <1>3, <1>8 DEF Local, GuardFree, Without, IInv, OneBlock, StateOK
  <1>11. Mine({}, {k}, {p})
    BY <1>8 DEF Mine, CloneOK, GuardFree, Without
  <1> QED
    BY <1>3, <1>7, <1>9, <1>10, <1>11, Frame

\* The cells of a clone that is done are those of its source.
LEMMA CloneIsSource ==
  ASSUME IInv, NEW k \in Call, Running(k), ~clones[k].unwinding, clones[k].initialized = clones[k].len
  PROVE  heap[clones[k].ptr] = heap[bufs[clones[k].src].ptr]
PROOF
  <1> DEFINE c == clones[k]
             q == bufs[c.src].ptr
  <1>1. c.len \in Nat /\ c.initialized \in Nat /\ c.next \in Nat
    BY CloneEnds DEF IInv
  <1>2. CloneOK(k)
    BY DEF IInv
  <1>3. c.next = 0
    BY <1>1, <1>2 DEF CloneOK
  <1>4. heap[c.ptr] \in Seq(Cell) /\ Len(heap[c.ptr]) = c.len
    BY <1>2 DEF CloneOK, IInv, StateOK
  <1>5. heap[q] \in Seq(Cell) /\ Len(heap[q]) = c.len
    BY CloneSource DEF IInv, StateOK
  <1>6. \A i \in 1 .. c.len : heap[c.ptr][i] = heap[q][i]
    BY <1>1, <1>2, <1>3 DEF CloneOK, CellOf
  <1> QED
    BY <1>4, <1>5, <1>6, SeqEqual

LEMMA CloneDoneStep ==
  ASSUME IInv, NEW k \in Call, CloneDone(k)
  PROVE  IInv'
PROOF
  <1> DEFINE c == clones[k]
             p == c.ptr
             b == [ptr |-> p, len |-> c.len]
  <1>1. Running(k) /\ ~c.unwinding /\ c.initialized = c.len
    BY DEF CloneDone
  <1>2. CloneOK(k)
    BY DEF IInv
  <1> PICK y \in Place : y = c.dst
    BY <1>1, CloneEnds DEF IInv
  <1>3. y \notin Boxed /\ p \in Block /\ c.len \in Nat
    BY <1>1, CloneEnds DEF IInv
  <1>4. p \in DOMAIN heap /\ Len(heap[p]) = c.len /\ bufs[y] = Empty(y) /\ bufs[y].ptr \notin Block
    BY <1>1, <1>2, EmptyHasNone DEF CloneOK
  <1>5. heap[p] \in Seq(Val)
    BY <1>1, CloneIsSource, CloneSource
  <1>6. b \in Buffer /\ b.ptr = p /\ b.len = c.len
    BY <1>3 DEF Buffer
  <1>7. bufs' = [bufs EXCEPT ![y] = b]
    BY DEF CloneDone
  <1> HIDE DEF b
  <1>8. bufs'[y] = b /\ \A x \in Place \ {y} : bufs'[x] = bufs[x]
    BY <1>3, <1>7 DEF IInv, StateOK
  <1>9. ~Running(k)' /\ \A j \in Call \ {k} : clones'[j] = clones[j]
    BY DEF CloneDone, IInv, StateOK, Running
  <1>10. StateOK'
    BY <1>6, <1>7 DEF CloneDone, IInv, StateOK
  <1>11. ASSUME NEW j \in Call \ {k}, Running(j)
         PROVE  clones[j].src # y /\ clones[j].dst # y /\ clones[j].ptr # p
    <2>1. bufs[clones[j].src].ptr \in Block
      BY <1>11 DEF IInv, CloneOK, StateOK
    <2> QED
      BY <1>1, <1>4, <1>11, <2>1 DEF IInv, OneDst, OneBlock
  <1>12. \A x \in Place : bufs[x].ptr # p
    BY <1>1 DEF IInv, OneBlock
  <1>13. Local({y}, {k}, {p})
    BY <1>4, <1>6, <1>8, <1>9, <1>11, <1>12 DEF Local, CloneDone
  <1>14. PlaceOK(y)'
    <2>1. \A i \in DOMAIN heap[p] : heap[p][i] \in Val
      BY <1>5
    <2>2. heap' = heap
      BY DEF CloneDone
    <2> QED
      BY <1>3, <1>4, <1>6, <1>8, <2>1, <2>2 DEF PlaceOK, Whole, Holds
  <1>15. CloneOK(k)'
    BY <1>9 DEF CloneOK
  <1>16. Mine({y}, {k}, {p})
    BY <1>6, <1>8, <1>9, <1>14, <1>15 DEF Mine
  <1> QED
    BY <1>3, <1>10, <1>13, <1>16, Frame DEF CloneDone, IInv, NoFault

-----------------------------------------------------------------------------
(***************************************************************************)
(* The steps of the caller and of C.                                       *)
(***************************************************************************)
LEMMA NewBoxedSliceStep ==
  ASSUME IInv, NEW x \in Boxed, NewBoxedSlice(x)
  PROVE  IInv'
PROOF
  <1>1. x \in Place /\ bufs[x].ptr \notin Block /\ ~Borrowed(x) /\ ~Awaited(x)
    BY EmptyHasNone DEF NewBoxedSlice, Vacant, Place
  <1>2. PICK n \in 0 .. MaxLen :
          \/ /\ n = 0
             /\ bufs' = [bufs EXCEPT ![x] = [ptr |-> Dangling, len |-> 0]]
             /\ UNCHANGED heap
          \/ /\ n > 0
             /\ \E p \in FreeBlocks, cells \in [1 .. n -> Val] :
                  /\ heap' = With(p, cells)
                  /\ bufs' = [bufs EXCEPT ![x] = [ptr |-> p, len |-> n]]
    BY DEF NewBoxedSlice
  <1>3. CASE n = 0 /\ bufs' = [bufs EXCEPT ![x] = [ptr |-> Dangling, len |-> 0]] /\ UNCHANGED heap
    <2> DEFINE b == [ptr |-> Dangling, len |-> 0]
    <2>1. b \in Buffer /\ b.ptr \notin Block
      BY CBufAssumption DEF Buffer
    <2> QED
      BY <1>1, <1>3, <2>1, NoBlock DEF NewBoxedSlice
  <1>4. CASE /\ n > 0
             /\ \E p \in FreeBlocks, cells \in [1 .. n -> Val] :
                  /\ heap' = With(p, cells)
                  /\ bufs' = [bufs EXCEPT ![x] = [ptr |-> p, len |-> n]]
    <2>1. PICK q \in FreeBlocks, cells \in [1 .. n -> Val] :
            /\ heap' = With(q, cells)
            /\ bufs' = [bufs EXCEPT ![x] = [ptr |-> q, len |-> n]]
      BY <1>4
    <2>2. n \in Nat /\ n > 0 /\ n <= LenType.max
      BY <1>4, CBufAssumption, CBufLenAssumption DEF MAX, ConstMin, IntType
    <2>3. cells \in Seq(Val) /\ Len(cells) = n
      BY <2>2
    <2>4. heap' = [p \in (DOMAIN heap \ {bufs[x].ptr}) \cup {q} |-> IF p = q THEN cells ELSE heap[p]]
      <3>1. DOMAIN heap \ {bufs[x].ptr} = DOMAIN heap
        BY <1>1 DEF IInv, StateOK
      <3> QED
        BY <2>1, <3>1 DEF With
    <2> QED
      BY <1>1, <2>1, <2>2, <2>3, <2>4, Fill DEF NewBoxedSlice, FreeBlocks
  <1> QED
    BY <1>2, <1>3, <1>4

LEMMA FromBoxedSliceStep ==
  ASSUME IInv, NEW x \in Boxed, NEW y \in Field \cup Owned, FromBoxedSlice(x, y)
  PROVE  IInv'
PROOF
  <1>1. x \in Place /\ Full(x) /\ Vacant(y) /\ PlaceOK(x) /\ y \in Place /\ y \notin Boxed /\ x # y
    BY FullField DEF FromBoxedSlice, IInv, Place
  <1>2. CASE bufs[x] = [ptr |-> Dangling, len |-> 0]
    <2>1. bufs' = [bufs EXCEPT ![x] = Empty(x), ![y] = Empty(y)]
      BY <1>2 DEF FromBoxedSlice
    <2>2. bufs' = [bufs EXCEPT ![x] = Empty(x)]
      BY <1>1, <2>1 DEF Vacant, IInv, StateOK
    <2>3. bufs[x].ptr \notin Block
      BY <1>2, CBufAssumption
    <2>4. PICK b \in Buffer : b = Empty(x) /\ b.ptr \notin Block
      <3>1. Empty(x) \in Buffer
        BY DEF Empty, Buffer
      <3> QED
        BY <3>1, EmptyHasNone
    <2>5. ~Borrowed(x) /\ ~Awaited(x)
      BY <1>1, FullIsNotAwaited DEF Full
    <2>6. bufs' = [bufs EXCEPT ![x] = b] /\ UNCHANGED <<heap, clones, faults>>
      BY <2>2, <2>4 DEF FromBoxedSlice
    <2>7. x \in Place /\ (b = Empty(x) \/ (x \in Boxed /\ b = [ptr |-> Dangling, len |-> 0]))
      BY <1>1, <2>4
    <2> QED
      BY <2>3, <2>4, <2>5, <2>6, <2>7, NoBlock
  <1>3. CASE bufs[x] # [ptr |-> Dangling, len |-> 0]
    <2>1. bufs[x].ptr \in Block /\ bufs[x].len > 0 /\ bufs[x].len \in Int
      BY <1>1, <1>3 DEF PlaceOK, Full, IInv, StateOK
    <2>2. bufs' = [bufs EXCEPT ![x] = Empty(x), ![y] = bufs[x]]
      <3>1. bufs[x].len # 0
        BY <2>1
      <3> QED
        BY <3>1 DEF FromBoxedSlice
    <2> QED
      BY <1>1, <2>1, <2>2, Move DEF FromBoxedSlice
  <1> QED
    BY <1>2, <1>3

\* from_raw and into_raw give the block to the other pointer.
LEMMA RawStep ==
  ASSUME IInv, NEW x \in Field \cup Owned, NEW y \in Field \cup Owned, OwnedFromRaw(x, y) \/ IntoCBufPtr(x, y)
  PROVE  IInv'
  BY FullField, Move DEF OwnedFromRaw, IntoCBufPtr, Full

LEMMA OwnedDropStep ==
  ASSUME IInv, NEW x \in Field \cup Owned, OwnedDrop(x)
  PROVE  IInv'
PROOF
  <1>1. CASE UNCHANGED <<heap, bufs, faults>>
    BY <1>1, Same DEF OwnedDrop, vars
  <1>2. CASE /\ bufs[x].ptr # Null
             /\ heap' = Without(bufs[x].ptr)
             /\ faults' = faults \cup FreeFaults(bufs[x].ptr)
             /\ bufs' = [bufs EXCEPT ![x] = Empty(x)]
    <2>1. x \in Place /\ bufs[x].ptr \in Block
      BY <1>2, FullField
    <2>2. faults' = faults
      BY <1>2, <2>1, PlaceBlock DEF FreeFaults
    <2> QED
      BY <1>2, <2>1, <2>2, TakeAway DEF OwnedDrop
  <1> QED
    BY <1>1, <1>2 DEF OwnedDrop

LEMMA FieldClearStep ==
  ASSUME IInv, NEW x \in Field \cup Owned, FieldClear(x)
  PROVE  IInv'
PROOF
  <1> DEFINE p == bufs[x].ptr
  <1>1. x \in Place /\ p \in Block /\ ~Borrowed(x) /\ ~Awaited(x)
    BY FullField, FullIsNotAwaited DEF FieldClear, Full
  <1>2. p \in DOMAIN heap /\ Whole(p) /\ bufs[x].len \in {-1, Len(heap[p])} /\ heap[p] \in Seq(Cell)
    BY <1>1, PlaceBlock DEF IInv, StateOK
  <1>3. bufs[x].len \in Usize
    BY DEF FieldClear, AsVecMutPanics, Length, TryInto, Err
  <1>4. bufs[x].len = Len(heap[p])
    BY <1>2, <1>3, CBufLenAssumption DEF Usize
  <1>5. PastFaults(x) = {} /\ FreeFaults(p) = {}
    BY <1>2, <1>3, ViewInBlock DEF FreeFaults
  <1>51. DropFaults(x) = {}
    <2>1. \A i \in DOMAIN heap[p] : Holds(p, i) /\ ~(i > bufs[x].len)
      BY <1>2, <1>4 DEF Whole
    <2> QED
      BY <1>2, <2>1 DEF DropFaults
  <1>6. faults' = faults
    BY <1>5, <1>51 DEF FieldClear
  <1> QED
    BY <1>1, <1>6, TakeAway DEF FieldClear

LEMMA FreeMallocedStep ==
  ASSUME IInv, NEW x \in Field, FreeMalloced(x)
  PROVE  IInv'
PROOF
  <1>1. x \in Place /\ bufs[x].ptr \in Block /\ ~Borrowed(x) /\ ~Awaited(x)
    BY FullField, FullIsNotAwaited DEF FreeMalloced, Full
  <1>2. faults' = faults
    BY <1>1, PlaceBlock DEF FreeMalloced, FreeFaults
  <1> QED
    BY <1>1, <1>2, TakeAway DEF FreeMalloced

LEMMA MarkStep ==
  ASSUME IInv, NEW x \in Field \cup Owned, CMarks(x) \/ CRestores(x)
  PROVE  IInv'
PROOF
  <1>1. Full(x) /\ x \in Place /\ bufs[x].ptr \in Block /\ bufs[x] \in Buffer
    BY FullField DEF CMarks, CRestores, Full, IInv, StateOK
  <1>2. heap[bufs[x].ptr] \in Seq(Cell)
    BY <1>1, PlaceBlock DEF IInv, StateOK
  <1>3. PICK n \in Int : /\ n = Len(heap[bufs[x].ptr]) \/ (n = -1 /\ LenType.min < 0)
                         /\ bufs' = [bufs EXCEPT ![x].len = n]
    <2>1. CASE CMarks(x)
      <3>1. -1 \in Int /\ LenType.min < 0 /\ bufs' = [bufs EXCEPT ![x].len = -1]
        BY <2>1 DEF CMarks
      <3> QED
        BY <3>1
    <2>2. CASE CRestores(x)
      <3>1. Len(heap[bufs[x].ptr]) \in Int
        BY <1>2
      <3> QED
        BY <2>2, <3>1 DEF CRestores
    <2> QED
      BY <2>1, <2>2
  <1> DEFINE b == [bufs[x] EXCEPT !.len = n]
  <1>4. b \in Buffer /\ b.ptr = bufs[x].ptr /\ b.len = n
    BY <1>1 DEF Buffer
  <1>5. bufs' = [bufs EXCEPT ![x] = b] /\ UNCHANGED <<heap, clones, faults>>
    BY <1>3 DEF CMarks, CRestores
  <1> HIDE DEF b
  <1> QED
    BY <1>1, <1>3, <1>4, <1>5, SetLen

\* What a slice shows is whole.
LEMMA WithLenIsWhole ==
  ASSUME IInv, NEW x \in Field \cup Owned, bufs[x].len >= 0
  PROVE  WithLen(x) \in Seq(Val) /\ Len(WithLen(x)) = bufs[x].len
PROOF
  <1>1. CASE bufs[x].ptr = Null
    <2>1. bufs[x] = Empty(x)
      BY <1>1, FullField
    <2> QED
      BY <1>1, <2>1, EmptyHasNone, EmptySeq DEF WithLen
  <1>2. CASE bufs[x].ptr # Null
    <2> DEFINE p == bufs[x].ptr
    <2>1. p \in Block /\ x \in Place
      BY <1>2, FullField
    <2>2. p \in DOMAIN heap /\ Whole(p) /\ bufs[x].len \in {-1, Len(heap[p])} /\ heap[p] \in Seq(Cell)
      BY <2>1, PlaceBlock DEF IInv, StateOK
    <2>3. heap[p] \in Seq(Val) /\ bufs[x].len = Len(heap[p])
      BY <2>2 DEF Whole, Holds
    <2>4. WithLen(x) = heap[p]
      BY <1>2, <2>2, <2>3, WithLenIsAll
    <2> QED
      BY <2>3, <2>4
  <1> QED
    BY <1>1, <1>2

LEMMA ReadStep ==
  ASSUME IInv, NEW x \in Field \cup Owned, Read(x)
  PROVE  IInv'
PROOF
  <1>1. bufs[x].len \in Usize
    BY DEF Read, WithLenPanics, Length, TryInto, Err
  <1>2. bufs[x].len >= 0
    BY <1>1, CBufLenAssumption DEF Usize
  <1>3. \A i \in DOMAIN WithLen(x) : WithLen(x)[i] \in Val
    BY <1>2, WithLenIsWhole
  <1> QED
    BY <1>1, <1>3, ViewInBlock, Same DEF Read, vars

LEMMA PushBackStep ==
  ASSUME IInv, NEW x \in Field \cup Owned, NEW v \in Val, PushBack(x, v)
  PROVE  IInv'
PROOF
  <1> DEFINE n == bufs[x].len
             cells == Append(WithLen(x), v)
  <1>1. x \in Place /\ x \notin Boxed
    BY FullField
  <1>2. n \in Usize /\ Length(x).val = n
    BY DEF PushBack, AsVecMutPanics, Length, TryInto, Err, Ok
  <1>3. n \in Nat
    BY <1>2, CBufLenAssumption DEF Usize
  <1>4. NewLen(x).val = n + 1 /\ n + 1 <= LenType.max
    BY <1>2 DEF PushBack, LenFits, NewLen, TryFrom, Ok, Err
  <1>5. WithLen(x) \in Seq(Val) /\ Len(WithLen(x)) = n
    BY <1>3, WithLenIsWhole
  <1>6. cells \in Seq(Val) /\ Len(cells) = n + 1
    BY <1>5
  <1>7. PICK q \in FreeBlocks \cup ({bufs[x].ptr} \ {Null}) :
          /\ heap' = [p \in (DOMAIN heap \ {bufs[x].ptr}) \cup {q} |-> IF p = q THEN cells ELSE heap[p]]
          /\ bufs' = [bufs EXCEPT ![x] = [ptr |-> q, len |-> n + 1]]
    BY <1>4 DEF PushBack
  <1>8. q \in Block /\ (q \in FreeBlocks \/ q = bufs[x].ptr)
    BY FullField DEF FreeBlocks
  <1>9. UNCHANGED <<clones, faults>>
    BY <1>2, ViewInBlock DEF PushBack
  <1> HIDE DEF cells
  <1> QED
    BY <1>1, <1>4, <1>6, <1>7, <1>8, <1>9, Fill DEF PushBack

LEMMA MallocArrayStep ==
  ASSUME IInv, NEW x \in Field, NEW n \in 0 .. MaxLen, NEW values \in [1 .. n -> Val], MallocArray(x, values)
  PROVE  IInv'
PROOF
  <1>1. x \in Place /\ x \notin Boxed /\ bufs[x].ptr \notin Block /\ ~Borrowed(x) /\ ~Awaited(x)
    BY FullField, EmptyHasNone DEF MallocArray, Vacant
  <1>2. CASE UNCHANGED <<heap, bufs>>
    BY <1>2, Same DEF MallocArray, vars
  <1>3. CASE \E p \in FreeBlocks :
               /\ heap' = With(p, values)
               /\ bufs' = [bufs EXCEPT ![x] = [ptr |-> p, len |-> TryFrom(LenType, Len(values)).val]]
    <2>1. n \in Nat /\ n <= LenType.max
      BY CBufAssumption, CBufLenAssumption DEF MAX, ConstMin, IntType
    <2>2. values \in Seq(Val) /\ Len(values) = n
      BY <2>1
    <2>3. TryFrom(LenType, Len(values)).val = n
      BY <2>1, <2>2 DEF TryFrom, Ok
    <2>4. PICK q \in FreeBlocks :
            /\ heap' = With(q, values)
            /\ bufs' = [bufs EXCEPT ![x] = [ptr |-> q, len |-> Len(values)]]
      BY <1>3, <2>2, <2>3
    <2>5. heap' = [p \in (DOMAIN heap \ {bufs[x].ptr}) \cup {q} |-> IF p = q THEN values ELSE heap[p]]
      <3>1. DOMAIN heap \ {bufs[x].ptr} = DOMAIN heap
        BY <1>1 DEF IInv, StateOK
      <3> QED
        BY <2>4, <3>1 DEF With
    <2> QED
      BY <1>1, <2>1, <2>2, <2>4, <2>5, Fill DEF MallocArray, FreeBlocks
  <1> QED
    BY <1>2, <1>3 DEF MallocArray

-----------------------------------------------------------------------------
LEMMA NextInv ==
  ASSUME IInv, [Next]_vars
  PROVE  IInv'
PROOF
  <1>1. CASE \E x \in Boxed : NewBoxedSlice(x) \/ \E y \in Field \cup Owned : FromBoxedSlice(x, y)
    BY <1>1, NewBoxedSliceStep, FromBoxedSliceStep
  <1>2. CASE \E k \in Call : \E x, y \in Field \cup Owned : CloneBegin(k, x, y)
    BY <1>2, CloneBeginStep
  <1>3. CASE \E k \in Call : CloneElem(k) \/ ClonePanic(k) \/ GuardDrop(k) \/ GuardFree(k) \/ CloneDone(k)
    BY <1>3, CloneElemStep, ClonePanicStep, GuardDropStep, GuardFreeStep, CloneDoneStep
  <1>4. CASE \E x \in Field, y \in Owned : OwnedFromRaw(x, y) \/ IntoCBufPtr(y, x)
    BY <1>4, RawStep
  <1>5. CASE \E x \in Field \cup Owned : Read(x) \/ \E v \in Val : PushBack(x, v)
    BY <1>5, ReadStep, PushBackStep
  <1>6. CASE \E x \in Field : \/ FreeMalloced(x)
                              \/ \E n \in 0 .. MaxLen : \E values \in [1 .. n -> Val] : MallocArray(x, values)
    BY <1>6, FreeMallocedStep, MallocArrayStep
  <1>7. CASE \E x \in Owned : OwnedDrop(x)
    BY <1>7, OwnedDropStep
  <1>8. CASE \E x \in Field \cup Owned : FieldClear(x) \/ CMarks(x) \/ CRestores(x)
    BY <1>8, FieldClearStep, MarkStep
  <1>9. CASE UNCHANGED vars
    BY <1>9, Same
  <1> QED
    BY <1>1, <1>2, <1>3, <1>4, <1>5, <1>6, <1>7, <1>8, <1>9
       DEF Next, CloneArray, SumArray, FreeArray, AppendToArray

\* The inductive invariant holds of every reachable state.
THEOREM Invariance == Spec => []IInv
PROOF
  <1>1. Init => IInv
    BY InitInv
  <1>2. IInv /\ [Next]_vars => IInv'
    BY NextInv
  <1> QED
    BY <1>1, <1>2, PTL DEF Spec

\* The types of the state: a field holds null or a block and a length of its
\* type, never the dangling pointer of an empty slice.
THEOREM TypeCorrect == Spec => []TypeOK
PROOF
  <1>1. ASSUME IInv PROVE TypeOK
    <2>1. ASSUME NEW x \in Field \cup Owned
          PROVE  bufs[x] \in [ptr : Block \cup {Null}, len : Values(LenType)]
      <3>1. x \in Place /\ x \notin Boxed /\ PlaceOK(x) /\ bufs[x] \in Buffer
        BY <1>1, FullField DEF IInv, StateOK
      <3>2. LenType.min \in Int /\ LenType.min <= 0 /\ LenType.max \in Nat
        BY CBufAssumption DEF IntType
      <3>3. CASE bufs[x] = Empty(x)
        <4>1. 0 \in Values(LenType)
          BY <3>2 DEF Values
        <4> QED
          BY <3>1, <3>3, <4>1 DEF Empty
      <3>4. CASE bufs[x] # Empty(x)
        <4>1. bufs[x].ptr \in Block /\ bufs[x].ptr \in DOMAIN heap
          BY <1>1, <3>1, <3>4, FullField, PlaceBlock
        <4>2. heap[bufs[x].ptr] \in Seq(Cell) /\ Len(heap[bufs[x].ptr]) <= LenType.max
          BY <1>1, <4>1 DEF IInv, StateOK
        <4>3. \/ bufs[x].len = Len(heap[bufs[x].ptr])
              \/ bufs[x].len = -1 /\ LenType.min < 0
          BY <1>1, <3>1, <4>1, PlaceBlock
        <4>4. bufs[x].len \in Values(LenType)
          BY <3>2, <4>2, <4>3 DEF Values
        <4> QED
          BY <3>1, <4>1, <4>4 DEF Buffer
      <3> QED
        BY <3>3, <3>4
    <2>2. ASSUME NEW x \in Boxed
          PROVE  bufs[x] \in [ptr : Block \cup {Dangling, None}, len : Nat]
      <3>1. x \in Place /\ PlaceOK(x) /\ bufs[x] \in Buffer
        BY <1>1 DEF IInv, StateOK, Place
      <3>2. CASE bufs[x] = Empty(x)
        BY <3>2 DEF Empty
      <3>3. CASE bufs[x] = [ptr |-> Dangling, len |-> 0]
        BY <3>3
      <3>4. CASE bufs[x].ptr \in DOMAIN heap /\ bufs[x].len = Len(heap[bufs[x].ptr])
        <4>1. bufs[x].ptr \in Block /\ bufs[x].len \in Nat
          BY <1>1, <3>4 DEF IInv, StateOK
        <4> QED
          BY <3>1, <4>1 DEF Buffer
      <3> QED
        BY <3>1, <3>2, <3>3, <3>4 DEF PlaceOK
    <2>3. DOMAIN heap \in SUBSET Block /\ \A p \in DOMAIN heap : heap[p] \in Seq(Val \cup {Raw, Gone})
      BY <1>1 DEF IInv, StateOK, Cell
    <2> QED
      BY <1>1, <2>1, <2>2, <2>3 DEF IInv, StateOK, TypeOK, NoFault
  <1> QED
    BY <1>1, Invariance, PTL

\* A field is null with length 0, or has a block of exactly its length, unless C
\* has marked it, with every element initialised.
THEOREM FieldsInitialised == Spec => []Initialised
PROOF
  <1>1. ASSUME IInv PROVE Initialised
    <2> SUFFICES ASSUME NEW x \in Field \cup Owned, bufs[x] # Empty(x)
                 PROVE  /\ bufs[x].ptr \in DOMAIN heap
                        /\ bufs[x].len \in {-1, Len(heap[bufs[x].ptr])}
                        /\ Whole(bufs[x].ptr)
      BY DEF Initialised, Whole
    <2> QED
      BY <1>1, FullField, PlaceBlock
  <1> QED
    BY <1>1, Invariance, PTL

\* Nothing is freed or dropped twice, leaked by a panic, read that is not there, or
\* seen past its block.
THEOREM NothingWrong == Spec => []NoFault
PROOF
  <1>1. IInv => NoFault
    BY DEF IInv
  <1> QED
    BY <1>1, Invariance, PTL

\* Every block has one owner, however clones, panics and the caller interleave.
THEOREM BlockOwnership == Spec => []BlocksOwnedOnce
PROOF
  <1>1. ASSUME IInv PROVE BlocksOwnedOnce
    <2> DEFINE Places(p) == {x \in Place : bufs[x].ptr = p}
               Calls(p) == {k \in Call : Running(k) /\ clones[k].ptr = p}
    <2>1. Cardinality({}) = 0 /\ \A o : Cardinality({o}) = 1
      BY FS_EmptySet, FS_Singleton
    <2>2. ASSUME NEW p \in Block, p \notin DOMAIN heap
          PROVE  Cardinality(Places(p)) = 0 /\ Cardinality(Calls(p)) = 0
      <3>1. Places(p) = {} /\ Calls(p) = {}
        BY <1>1, <2>2, PlaceBlock DEF IInv, CloneOK
      <3> QED
        BY <2>1, <3>1
    <2>3. ASSUME NEW p \in Block, NEW x \in Place, bufs[x].ptr = p
          PROVE  Cardinality(Places(p)) = 1 /\ Cardinality(Calls(p)) = 0
      <3>1. Places(p) = {x} /\ Calls(p) = {}
        BY <1>1, <2>3, PlaceBlock
      <3> QED
        BY <2>1, <3>1
    <2>4. ASSUME NEW p \in Block, NEW k \in Call, Running(k), clones[k].ptr = p
          PROVE  Cardinality(Places(p)) = 0 /\ Cardinality(Calls(p)) = 1
      <3>1. Places(p) = {} /\ Calls(p) = {k}
        BY <1>1, <2>4 DEF IInv, OneBlock
      <3> QED
        BY <2>1, <3>1
    <2>5. \A p \in Block :
            Cardinality(Places(p)) + Cardinality(Calls(p)) = IF p \in DOMAIN heap THEN 1 ELSE 0
      <3> HIDE DEF Places, Calls
      <3> SUFFICES ASSUME NEW p \in Block
                   PROVE  Cardinality(Places(p)) + Cardinality(Calls(p)) = IF p \in DOMAIN heap THEN 1 ELSE 0
        OBVIOUS
      <3>1. CASE p \notin DOMAIN heap
        BY <2>2, <3>1
      <3>2. CASE p \in DOMAIN heap
        <4>1. \/ \E x \in Place : bufs[x].ptr = p
              \/ \E k \in Call : Running(k) /\ clones[k].ptr = p
          BY <1>1, <3>2 DEF IInv, OneBlock
        <4> QED
          BY <2>3, <2>4, <3>2, <4>1
      <3> QED
        BY <3>1, <3>2
    <2> QED
      BY <2>5 DEF BlocksOwnedOnce
  <1> QED
    BY <1>1, Invariance, PTL

\* What a clone returns is what the source holds, in a block of its own.
LEMMA DoneIsExact ==
  ASSUME IInv, NEW k \in Call, CloneDone(k)
  PROVE  /\ heap'[bufs'[clones[k].dst].ptr] = WithLen(clones[k].src)
         /\ bufs'[clones[k].dst].ptr # bufs[clones[k].src].ptr
PROOF
  <1> DEFINE c == clones[k]
             q == bufs[c.src].ptr
  <1>1. Running(k) /\ ~c.unwinding /\ c.initialized = c.len
    BY DEF CloneDone
  <1>2. c.dst \in Place
    BY <1>1, CloneEnds DEF IInv
  <1>3. bufs'[c.dst].ptr = c.ptr /\ heap' = heap
    BY <1>2 DEF CloneDone, IInv, StateOK
  <1>4. q \in DOMAIN heap /\ q # c.ptr /\ bufs[c.src].len = Len(heap[q]) /\ heap[q] \in Seq(Cell)
    BY <1>1, CloneSource DEF IInv, StateOK
  <1>5. q # Null
    BY <1>4, CBufAssumption DEF IInv, StateOK
  <1>6. WithLen(c.src) = heap[q]
    BY <1>4, <1>5, WithLenIsAll
  <1>7. heap[c.ptr] = heap[q]
    BY <1>1, CloneIsSource
  <1> QED
    BY <1>3, <1>4, <1>6, <1>7

\* A clone that returns Ok is its source, element by element, and shares
\* nothing with it.
THEOREM ClonesExact == Spec => CloneExact
PROOF
  <1>1. IInv /\ [Next]_vars =>
          [\A k \in Call : CloneDone(k) =>
             /\ heap'[bufs'[clones[k].dst].ptr] = WithLen(clones[k].src)
             /\ bufs'[clones[k].dst].ptr # bufs[clones[k].src].ptr]_vars
    BY DoneIsExact
  <1> QED
    BY <1>1, Invariance, PTL DEF Spec, CloneExact
=============================================================================
