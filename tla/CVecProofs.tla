----------------------------- MODULE CVecProofs -----------------------------
(***************************************************************************)
(* The safety of CVec for every set of structs, blocks and elements and    *)
(* for all limits of the length and capacity types.                        *)
(***************************************************************************)
EXTENDS CVec, FiniteSetTheorems, SequenceTheorems, TLAPS

(***************************************************************************)
(* A struct, or the clear that took its fields, is one owner: its block,   *)
(* the elements in the block, and the indexes of those not yet dropped.    *)
(***************************************************************************)
Ptr(h) == IF Idle(h) THEN c[h].ptr ELSE clearing[h].ptr
Elems(h) == IF Ptr(h) = Null THEN <<>> ELSE heap[Ptr(h)].elems
Alive(h) == IF Idle(h) THEN 1 .. Len(Elems(h)) ELSE (clearing[h].next + 1) .. Len(Elems(h))

\* HandleValid of one struct.
Valid(h) ==
  /\ c[h].len <= Cap(h) /\ Cap(h) <= MaxSliceLen
  /\ c[h].len <= LenMax /\ c[h].cap <= CapMax
  /\ Cap(h) > 0 => c[h].ptr # Null
  /\ c[h].ptr # Null =>
       /\ c[h].ptr \in DOMAIN heap
       /\ heap[c[h].ptr].size = (IF Cap(h) = 0 THEN EmptyBlock ELSE Cap(h))
       /\ heap[c[h].ptr].alloc = Alloc(h)
       /\ Len(heap[c[h].ptr].elems) = c[h].len

\* A clear has what the struct had, and the struct nothing.
ClearValid ==
  \A h \in Handle : ~Idle(h) =>
    /\ c[h] = Reset
    /\ clearing[h].ptr \in DOMAIN heap
    /\ heap[clearing[h].ptr].alloc = Alloc(h)
    /\ \/ heap[clearing[h].ptr].size = clearing[h].layout
       \/ heap[clearing[h].ptr].size = EmptyBlock /\ clearing[h].layout = 1
    /\ Len(heap[clearing[h].ptr].elems) = clearing[h].len
    /\ clearing[h].next <= clearing[h].len

OneBlock ==
  /\ \A g, h \in Handle : Ptr(g) = Ptr(h) /\ Ptr(g) # Null => g = h
  /\ \A p \in DOMAIN heap : \E h \in Handle : Ptr(h) = p

OneElem ==
  /\ \A g, h \in Handle : \A i \in Alive(g), j \in Alive(h) :
       Elems(g)[i] = Elems(h)[j] => g = h /\ i = j
  /\ \A h \in Handle : \A i \in Alive(h) : Elems(h)[i] \notin held \cup dropped
  /\ held \cap dropped = {}

\* No element is lost: those made are with the caller, dropped, or in a block,
\* where they are still to be dropped.
Has(h, e) == \E i \in Alive(h) : Elems(h)[i] = e
AllMade ==
  \A e \in Elem : e \in made <=> (e \in held \cup dropped \/ \E h \in Handle : Has(h, e))

\* The shape of the state, without what is in the elements or the answer.
Shape == TypeOK /\ HandleValid /\ ClearValid /\ OneBlock

IInv == Shape /\ OneElem /\ AllMade /\ RefusesOnlyAtLimit

-----------------------------------------------------------------------------

\* The state starts empty and every part of the invariant holds of it.
LEMMA InitInv == Init => IInv
<1> SUFFICES ASSUME Init PROVE IInv
  OBVIOUS
<1> USE CVecAssumption
<1>1. DOMAIN heap = {} /\ held = {} /\ made = {} /\ dropped = {} /\ fits = TRUE
      /\ reply = NoReply
      /\ c \in [Handle -> Fields]
      /\ clearing \in [Handle -> Clearing \cup {None}]
  BY DEF Init, Reset, Fields
<1>2. TypeOK
  BY <1>1 DEF TypeOK, NoReply
<1>3. \A h \in Handle : /\ Idle(h) /\ c[h].ptr = Null /\ c[h].len = 0 /\ c[h].cap = 0
                        /\ Cap(h) = 0
  BY DEF Init, Idle, Reset, Cap
<1>4. HandleValid
  BY <1>3 DEF HandleValid
<1>5. \A h \in Handle : Ptr(h) = Null /\ Elems(h) = <<>> /\ Alive(h) = {}
  BY <1>3 DEF Ptr, Elems, Alive
<1>6. ClearValid /\ OneBlock /\ OneElem /\ AllMade
  BY <1>1, <1>3, <1>5 DEF ClearValid, OneBlock, OneElem, AllMade, Has
<1>7. RefusesOnlyAtLimit
  BY <1>1 DEF RefusesOnlyAtLimit, NoReply
<1> QED
  BY <1>2, <1>4, <1>6, <1>7 DEF IInv, Shape

\* All of a sequence is the sequence.
LEMMA SubSeqAll ==
  ASSUME NEW S, NEW s \in Seq(S), NEW n \in Nat, n >= Len(s)
  PROVE  SubSeq(s, 1, Smaller(n, Len(s))) = s
<1>1. Smaller(n, Len(s)) = Len(s)
  BY DEF Smaller
<1>2. SubSeq(s, 1, Len(s)) = s
  OBVIOUS
<1> QED
  BY <1>1, <1>2

\* The types of the fields of a handle, and of its block.
LEMMA Types ==
  ASSUME TypeOK, NEW h \in Handle
  PROVE  /\ c[h].ptr \in Block \cup {Null} /\ c[h].len \in Nat /\ c[h].cap \in Nat
         /\ Cap(h) \in Nat
         /\ ~Idle(h) => /\ clearing[h] \in Clearing
                        /\ clearing[h].ptr \in Block /\ clearing[h].ptr # Null
                        /\ clearing[h].layout \in Nat /\ clearing[h].len \in Nat
                        /\ clearing[h].next \in Nat /\ clearing[h].panicking \in BOOLEAN
         /\ Null \notin DOMAIN heap
         /\ \A p \in DOMAIN heap : /\ p \in Block /\ heap[p].size \in Nat
                                   /\ heap[p].elems \in Seq(Elem)
<1>1. c[h] \in Fields
  BY DEF TypeOK
<1>2. c[h].ptr \in Block \cup {Null} /\ c[h].len \in Nat /\ c[h].cap \in Nat
  BY <1>1, CVecAssumption DEF Fields
<1>3. ~Idle(h) => clearing[h] \in Clearing
  BY DEF TypeOK, Idle
<1>4. \A p \in DOMAIN heap : p \in Block /\ heap[p] \in BlockType
  BY DEF TypeOK
<1> QED
  BY <1>2, <1>3, <1>4, CVecAssumption DEF Cap, BlockType, Clearing

\* What an owner has, in the terms of the invariant and of the module.
LEMMA Views ==
  ASSUME Shape, NEW h \in Handle
  PROVE  /\ Ptr(h) \in Block \cup {Null}
         /\ Ptr(h) # Null => Ptr(h) \in DOMAIN heap /\ Elems(h) = heap[Ptr(h)].elems
         /\ Elems(h) \in Seq(Elem)
         /\ Idle(h) => Ptr(h) = c[h].ptr /\ Len(Elems(h)) = c[h].len /\ Contents(h) = Elems(h)
         /\ ~Idle(h) => Len(Elems(h)) = clearing[h].len /\ Contents(h) = <<>>
         /\ InVec(h) = IF Idle(h) THEN {Elems(h)[i] : i \in Alive(h)} ELSE {}
         /\ Doomed(h) = IF Idle(h) THEN {} ELSE {Elems(h)[i] : i \in Alive(h)}
<1> USE DEF Shape
<1>1. Ptr(h) \in Block \cup {Null}
  BY Types DEF Ptr
<1>2. Ptr(h) # Null => Ptr(h) \in DOMAIN heap /\ Elems(h) = heap[Ptr(h)].elems
  BY DEF Ptr, Elems, HandleValid, ClearValid
<1>3. Elems(h) \in Seq(Elem)
  BY <1>2, Types DEF Elems
<1>4. ASSUME Idle(h)
      PROVE  /\ Ptr(h) = c[h].ptr /\ Len(Elems(h)) = c[h].len /\ Contents(h) = Elems(h)
             /\ InVec(h) = {Elems(h)[i] : i \in Alive(h)} /\ Doomed(h) = {}
  <2>1. Ptr(h) = c[h].ptr
    BY <1>4 DEF Ptr
  <2>2. Len(Elems(h)) = c[h].len
    <3>1. CASE c[h].ptr = Null
      <4>1. c[h].len = 0
        BY <3>1, Types DEF HandleValid
      <4> QED BY <2>1, <3>1, <4>1 DEF Elems
    <3>2. CASE c[h].ptr # Null
      BY <1>2, <2>1, <3>2 DEF HandleValid
    <3> QED BY <3>1, <3>2
  <2>3. Contents(h) = Elems(h)
    <3>1. CASE c[h].ptr = Null
      BY <2>1, <3>1 DEF Elems, Contents
    <3>2. CASE c[h].ptr # Null
      <4>1. Contents(h) = SubSeq(Elems(h), 1, Len(Elems(h)))
        BY <1>2, <2>1, <2>2, <3>2 DEF Contents
      <4> QED BY <1>3, <4>1
    <3> QED BY <3>1, <3>2
  <2>4. InVec(h) = {Elems(h)[i] : i \in Alive(h)} /\ Doomed(h) = {}
    BY <1>3, <1>4, <2>3 DEF InVec, Alive, Doomed, Idle
  <2> QED BY <2>1, <2>2, <2>3, <2>4
<1>5. ASSUME ~Idle(h)
      PROVE  /\ Len(Elems(h)) = clearing[h].len /\ Contents(h) = <<>>
             /\ InVec(h) = {} /\ Doomed(h) = {Elems(h)[i] : i \in Alive(h)}
  <2>1. Ptr(h) = clearing[h].ptr /\ Ptr(h) # Null
    BY <1>5, Types DEF Ptr
  <2>2. Len(Elems(h)) = clearing[h].len
    BY <1>2, <1>5, <2>1 DEF ClearValid
  <2>3. Contents(h) = <<>> /\ InVec(h) = {}
    BY <1>5 DEF ClearValid, Reset, Contents, InVec
  <2>4. Doomed(h) = {Elems(h)[i] : i \in Alive(h)}
    BY <1>2, <1>5, <2>1, <2>2 DEF Doomed, Alive, Idle
  <2> QED BY <2>2, <2>3, <2>4
<1> QED
  BY <1>1, <1>2, <1>3, <1>4, <1>5

\* An element not made yet is not held, not dropped and in no block.
LEMMA MadeMeans ==
  ASSUME IInv, NEW e \in Elem, e \notin made
  PROVE  /\ e \notin held \cup dropped
         /\ \A h \in Handle : \A i \in Alive(h) : Elems(h)[i] # e
BY DEF IInv, AllMade, Has

-----------------------------------------------------------------------------
(***************************************************************************)
(* What a step may do to the state, and the parts of the invariant that    *)
(* survive it.                                                             *)
(***************************************************************************)

\* The rest of the state has its types.
SidesOK ==
  /\ held \in SUBSET Elem /\ made \in SUBSET Elem /\ dropped \in SUBSET Elem
  /\ fits \in BOOLEAN
  /\ reply \in [res : {"none", "Ok", "Limit", "NoMemory"}, handle : Handle \cup {None}]

\* A step that leaves blocks, structs and clears alone.
LEMMA ShapeSame ==
  ASSUME Shape, UNCHANGED <<heap, c, clearing>>, SidesOK'
  PROVE  /\ Shape'
         /\ \A h \in Handle : Elems(h)' = Elems(h) /\ Alive(h)' = Alive(h)
<1>1. TypeOK'
  BY DEF Shape, TypeOK, SidesOK
<1>2. HandleValid' /\ ClearValid'
  BY DEF Shape, HandleValid, ClearValid, Cap, Idle
<1>3. \A h \in Handle : Ptr(h)' = Ptr(h) /\ Elems(h)' = Elems(h) /\ Alive(h)' = Alive(h)
  BY DEF Ptr, Elems, Alive, Idle
<1>4. OneBlock'
  BY <1>3 DEF Shape, OneBlock
<1> QED
  BY <1>1, <1>2, <1>3, <1>4 DEF Shape

\* The elements alive are as before or fewer, and none of them came to the caller.
LEMMA ElemsKept ==
  ASSUME OneElem, held' \cap dropped' = {},
         \A h \in Handle :
           /\ Elems(h)' = Elems(h)
           /\ \A i \in Alive(h)' : i \in Alive(h) /\ Elems(h)[i] \notin held' \cup dropped'
  PROVE  OneElem'
<1>1. \A g, h \in Handle : \A i \in Alive(g)', j \in Alive(h)' :
        Elems(g)'[i] = Elems(h)'[j] => g = h /\ i = j
  BY DEF OneElem
<1>2. \A h \in Handle : \A i \in Alive(h)' : Elems(h)'[i] \notin held' \cup dropped'
  OBVIOUS
<1> QED
  BY <1>1, <1>2 DEF OneElem

\* One owner has other elements: they are distinct and were nowhere else.
LEMMA ElemsSet ==
  ASSUME OneElem, NEW h \in Handle,
         \A g \in Handle \ {h} : Elems(g)' = Elems(g) /\ Alive(g)' = Alive(g),
         \A i, j \in Alive(h)' : Elems(h)'[i] = Elems(h)'[j] => i = j,
         \A i \in Alive(h)' : /\ Elems(h)'[i] \notin held' \cup dropped
                              /\ \A g \in Handle \ {h} : \A j \in Alive(g) :
                                   Elems(h)'[i] # Elems(g)[j],
         held' \subseteq held, dropped' = dropped
  PROVE  OneElem'
<1>1. ASSUME NEW g \in Handle, NEW f \in Handle, NEW i \in Alive(g)', NEW j \in Alive(f)',
             Elems(g)'[i] = Elems(f)'[j]
      PROVE  g = f /\ i = j
  <2>1. CASE g = h /\ f = h
    BY <1>1, <2>1
  <2>2. CASE g = h /\ f # h
    BY <1>1, <2>2
  <2>3. CASE g # h /\ f = h
    BY <1>1, <2>3
  <2>4. CASE g # h /\ f # h
    BY <1>1, <2>4 DEF OneElem
  <2> QED BY <2>1, <2>2, <2>3, <2>4
<1>2. ASSUME NEW g \in Handle, NEW i \in Alive(g)' PROVE Elems(g)'[i] \notin held' \cup dropped'
  BY DEF OneElem
<1>3. held' \cap dropped' = {}
  BY DEF OneElem
<1> QED
  BY <1>1, <1>2, <1>3 DEF OneElem

\* Owners that keep their elements have what they had.
LEMMA HasSame ==
  ASSUME NEW h \in Handle, Elems(h)' = Elems(h), Alive(h)' = Alive(h), NEW e
  PROVE  Has(h, e)' <=> Has(h, e)
BY DEF Has

\* No element is made, and none leaves the blocks, the caller and the dropped.
LEMMA MadeSame ==
  ASSUME AllMade, made' = made, held' \cup dropped' = held \cup dropped,
         \A h \in Handle : Elems(h)' = Elems(h) /\ Alive(h)' = Alive(h)
  PROVE  AllMade'
<1>1. \A e \in Elem : \A h \in Handle : Has(h, e)' <=> Has(h, e)
  BY HasSame
<1> QED
  BY <1>1 DEF AllMade

(***************************************************************************)
(* The caller makes an element; a push gives one back or drops it.         *)
(***************************************************************************)
\* The element is new, so in no block.
LEMMA NewElemInv ==
  ASSUME IInv, NEW e \in Elem, NewElem(e)
  PROVE  IInv'
<1>1. /\ held' = held \cup {e} /\ made' = made \cup {e} /\ reply' = NoReply
      /\ UNCHANGED <<heap, c, clearing, dropped, fits>>
  BY DEF NewElem
<1>2. e \notin held \cup dropped /\ \A h \in Handle : \A i \in Alive(h) : Elems(h)[i] # e
  BY MadeMeans DEF NewElem, IInv
<1>3. SidesOK'
  BY <1>1 DEF IInv, Shape, TypeOK, SidesOK, NoReply
<1>4. Shape' /\ \A h \in Handle : Elems(h)' = Elems(h) /\ Alive(h)' = Alive(h)
  BY <1>1, <1>3, ShapeSame DEF IInv
<1>5. OneElem'
  <2>1. held' \cap dropped' = {}
    BY <1>1, <1>2 DEF IInv, OneElem
  <2>2. \A h \in Handle : \A i \in Alive(h) : Elems(h)[i] \notin held' \cup dropped'
    BY <1>1, <1>2 DEF IInv, OneElem
  <2> QED BY <1>4, <2>1, <2>2, ElemsKept DEF IInv
<1>6. AllMade'
  <2>1. \A x \in Elem : \A h \in Handle : Has(h, x)' <=> Has(h, x)
    BY <1>4, HasSame
  <2> QED BY <1>1, <2>1 DEF IInv, AllMade
<1>7. RefusesOnlyAtLimit'
  BY <1>1 DEF RefusesOnlyAtLimit, NoReply
<1> QED
  BY <1>4, <1>5, <1>6, <1>7 DEF IInv

\* A push that is refused for a limit finds the fields at the limit.
LEMMA AtLimit ==
  ASSUME Shape, NEW h \in Handle, ~LenFits(h) \/ (LenFits(h) /\ ~Spare(h) /\ ~CapFits(h))
  PROVE  c[h].len = Smaller(Smaller(LenMax, MaxSliceLen), CapTypeMax(h))
<1>1. c[h].len \in Nat /\ c[h].cap \in Nat
  BY Types DEF Shape
<1>2. LenMax \in Nat /\ CapMax \in Nat /\ MaxSliceLen \in Nat
  BY CVecAssumption
<1>3. c[h].len <= Cap(h) /\ Cap(h) <= MaxSliceLen /\ c[h].len <= LenMax /\ c[h].cap <= CapMax
  BY DEF Shape, HandleValid
<1>4. c[h].len <= MaxSliceLen /\ c[h].len <= CapTypeMax(h)
  BY <1>1, <1>2, <1>3 DEF Cap, CapTypeMax
<1>5. CapTypeMax(h) \in Nat
  BY <1>2 DEF CapTypeMax
<1>6. CASE ~LenFits(h)
  <2>1. c[h].len = LenMax \/ c[h].len = MaxSliceLen
    BY <1>1, <1>2, <1>3, <1>4, <1>6 DEF LenFits
  <2> QED BY <1>1, <1>2, <1>3, <1>4, <1>5, <2>1 DEF Smaller
<1>7. CASE LenFits(h) /\ ~Spare(h) /\ ~CapFits(h)
  <2>1. c[h].len + 1 <= MaxSliceLen /\ c[h].len + 1 <= LenMax
        /\ ~(c[h].len + 1 <= CapTypeMax(h))
    BY <1>7 DEF LenFits, CapFits
  <2> QED BY <1>1, <1>2, <1>3, <1>4, <1>5, <2>1 DEF Smaller
<1> QED
  BY <1>6, <1>7

\* A push that fails changes no struct; it may drop the element it was given.
LEMMA PushErrInv ==
  ASSUME IInv, NEW h \in Handle, NEW e \in held, NEW res \in {"Limit", "NoMemory"},
         PushErr(h, e, res), UNCHANGED <<clearing, made>>,
         res = "Limit" => ~LenFits(h) \/ (LenFits(h) /\ ~Spare(h) /\ ~CapFits(h))
  PROVE  IInv'
<1>1. reply' = [res |-> res, handle |-> h] /\ UNCHANGED <<heap, c, clearing, fits>>
  BY DEF PushErr
<1>2. \/ UNCHANGED <<held, dropped>>
      \/ held' = held \ {e} /\ dropped' = dropped \cup {e}
  BY DEF PushErr
<1>3. SidesOK'
  BY <1>1, <1>2 DEF IInv, Shape, TypeOK, SidesOK
<1>4. Shape' /\ \A g \in Handle : Elems(g)' = Elems(g) /\ Alive(g)' = Alive(g)
  BY <1>1, <1>3, ShapeSame DEF IInv
<1>5. OneElem' /\ AllMade'
  <2>1. held' \cup dropped' = held \cup dropped /\ held' \cap dropped' = {}
    BY <1>2 DEF IInv, OneElem
  <2>2. OneElem'
    BY <1>4, <2>1, ElemsKept DEF IInv, OneElem
  <2>3. AllMade'
    BY <1>4, <2>1, MadeSame DEF IInv
  <2> QED BY <2>2, <2>3
<1>6. RefusesOnlyAtLimit'
  BY <1>1, AtLimit DEF IInv, RefusesOnlyAtLimit
<1> QED
  BY <1>4, <1>5, <1>6 DEF IInv

(***************************************************************************)
(* A struct comes to have block q, of n elements, with s in it: C gave the *)
(* block, or it is the struct's own, or grow put the contents there.       *)
(***************************************************************************)
Filled(h, q, n, s) ==
  /\ Idle(h) /\ UNCHANGED clearing
  /\ q \in Block /\ (q \in DOMAIN heap => q = c[h].ptr)
  /\ DOMAIN heap' = (DOMAIN heap \ {c[h].ptr}) \cup {q}
  /\ \A x \in DOMAIN heap' \ {q} : heap'[x] = heap[x]
  /\ heap'[q] = [size |-> IF n = 0 THEN EmptyBlock ELSE n, alloc |-> Alloc(h), elems |-> s]
  /\ c' = [c EXCEPT ![h] = [ptr |-> q, len |-> Len(s), cap |-> IF Tracks(h) THEN n ELSE 0]]
  /\ s \in Seq(Elem) /\ n \in Nat
  /\ Len(s) <= n /\ n <= MaxSliceLen /\ Len(s) <= LenMax
  /\ IF Tracks(h) THEN n <= CapMax ELSE n = Len(s)

\* Its block is its own, with the size the struct says.
LEMMA FilledShape ==
  ASSUME Shape, NEW h \in Handle, NEW q, NEW n, NEW s, Filled(h, q, n, s), SidesOK'
  PROVE  /\ Shape'
         /\ Elems(h)' = s /\ Alive(h)' = 1 .. Len(s)
         /\ \A g \in Handle \ {h} : Elems(g)' = Elems(g) /\ Alive(g)' = Alive(g)
<1> USE CVecAssumption DEF Shape
<1>1. /\ q # Null /\ q \in Block /\ n \in Nat /\ s \in Seq(Elem) /\ Len(s) \in Nat
      /\ Idle(h) /\ Alloc(h) \in {"self", "other"}
  BY DEF Filled, Alloc
<1> DEFINE fields == [ptr |-> q, len |-> Len(s), cap |-> IF Tracks(h) THEN n ELSE 0]
           b == [size |-> IF n = 0 THEN EmptyBlock ELSE n, alloc |-> Alloc(h), elems |-> s]
<1>a. /\ fields.ptr = q /\ fields.len = Len(s) /\ (Tracks(h) => fields.cap = n)
      /\ (~Tracks(h) => fields.cap = 0)
      /\ fields \in Fields
  <2>1. /\ Len(s) \in 0 .. LenMax
        /\ (IF Tracks(h) THEN n ELSE 0) \in 0 .. CapMax
    BY <1>1 DEF Filled
  <2> QED BY <1>1, <2>1 DEF Fields
<1>b. /\ b \in BlockType /\ b.size = (IF n = 0 THEN EmptyBlock ELSE n)
      /\ b.alloc = Alloc(h) /\ b.elems = s
  BY <1>1 DEF BlockType
<1>2. /\ c' = [c EXCEPT ![h] = fields] /\ clearing' = clearing
      /\ heap'[q] = b
      /\ DOMAIN heap' = (DOMAIN heap \ {c[h].ptr}) \cup {q}
      /\ \A x \in DOMAIN heap' \ {q} : heap'[x] = heap[x]
      /\ (q \in DOMAIN heap => q = c[h].ptr)
  BY DEF Filled
<1> HIDE DEF fields, b
<1>3. /\ c'[h] = fields /\ \A g \in Handle \ {h} : c'[g] = c[g]
      /\ c' \in [Handle -> Fields]
  BY <1>2, <1>a DEF TypeOK
<1>4. \A g \in Handle : Idle(g)' = Idle(g)
  BY <1>2 DEF Idle
\* The blocks of the other owners are where they were.
<1>5. ASSUME NEW g \in Handle \ {h}
      PROVE  /\ Ptr(g)' = Ptr(g) /\ Ptr(g) # q
             /\ Ptr(g) # Null => /\ Ptr(g) \in DOMAIN heap' /\ heap'[Ptr(g)] = heap[Ptr(g)]
  <2>1. Ptr(g)' = Ptr(g)
    BY <1>2, <1>3, <1>4 DEF Ptr
  <2>2. Ptr(g) # Null => Ptr(g) \in DOMAIN heap
    BY Views
  <2>3. Ptr(g) # Null => Ptr(g) # c[h].ptr
    BY <1>1 DEF OneBlock, Ptr
  <2> QED BY <1>1, <1>2, <2>1, <2>2, <2>3
<1>6. ASSUME NEW g \in Handle \ {h} PROVE Elems(g)' = Elems(g) /\ Alive(g)' = Alive(g)
  <2>1. Elems(g)' = Elems(g)
    BY <1>5 DEF Elems
  <2> QED BY <1>2, <1>4, <2>1 DEF Alive
<1>7. Ptr(h)' = q /\ Elems(h)' = s /\ Alive(h)' = 1 .. Len(s)
  <2>1. Ptr(h)' = q
    BY <1>1, <1>3, <1>4, <1>a DEF Ptr
  <2>2. Elems(h)' = s
    BY <1>1, <1>2, <1>b, <2>1 DEF Elems
  <2> QED BY <1>1, <1>4, <2>1, <2>2 DEF Alive
<1>8. TypeOK'
  <2>1. DOMAIN heap' \in SUBSET Block
    BY <1>1, <1>2 DEF TypeOK
  <2>2. ASSUME NEW x \in DOMAIN heap' PROVE heap'[x] \in BlockType
    <3>1. CASE x = q
      BY <1>2, <1>b, <3>1
    <3>2. CASE x # q
      BY <1>2, <3>2 DEF TypeOK
    <3> QED BY <3>1, <3>2
  <2> QED BY <1>2, <1>3, <2>1, <2>2 DEF TypeOK, SidesOK
<1>9. HandleValid'
  <2>1. ASSUME NEW g \in Handle \ {h}
        PROVE  /\ c'[g] = c[g] /\ Cap(g)' = Cap(g)
               /\ c[g].ptr # Null => c[g].ptr \in DOMAIN heap' /\ heap'[c[g].ptr] = heap[c[g].ptr]
    <3>1. c'[g] = c[g] /\ Cap(g)' = Cap(g)
      BY <1>3 DEF Cap
    <3>2. CASE Idle(g)
      BY <1>5, <3>1, <3>2 DEF Ptr
    <3>3. CASE ~Idle(g)
      BY <3>1, <3>3 DEF ClearValid, Reset
    <3> QED BY <3>1, <3>2, <3>3
  <2>2. Cap(h)' = n
    BY <1>1, <1>3, <1>a DEF Cap, Filled
  <2>3. /\ Len(s) <= n /\ n <= MaxSliceLen /\ Len(s) <= LenMax
        /\ IF Tracks(h) THEN n <= CapMax ELSE n = Len(s)
    BY DEF Filled
  <2>4. /\ c'[h].len = Len(s) /\ c'[h].ptr = q /\ c'[h].cap <= CapMax
    BY <1>3, <1>a, <2>3
  <2>5. /\ q \in DOMAIN heap' /\ heap'[q].size = (IF n = 0 THEN EmptyBlock ELSE n)
        /\ heap'[q].alloc = Alloc(h) /\ heap'[q].elems = s
    BY <1>2, <1>b
  <2>6. ASSUME NEW g \in Handle \ {h} PROVE Valid(g)'
    <3>1. Valid(g)
      BY DEF HandleValid, Valid
    <3> QED BY <2>1, <3>1 DEF Valid
  <2>7. Valid(h)'
    BY <1>1, <2>2, <2>3, <2>4, <2>5 DEF Valid
  <2> QED BY <2>6, <2>7 DEF HandleValid, Valid
<1>10. ClearValid'
  <2>1. ASSUME NEW g \in Handle, ~Idle(g)
        PROVE  /\ c'[g] = c[g] /\ clearing'[g] = clearing[g]
               /\ clearing[g].ptr \in DOMAIN heap' /\ heap'[clearing[g].ptr] = heap[clearing[g].ptr]
    BY <1>1, <1>2, <1>3, <1>5, <2>1, Types DEF Ptr
  <2> QED BY <1>4, <2>1 DEF ClearValid
<1>11. OneBlock'
  <2>1. ASSUME NEW p \in DOMAIN heap' PROVE \E g \in Handle : Ptr(g)' = p
    <3>1. CASE p = q
      BY <1>7, <3>1
    <3>2. CASE p # q
      <4>1. PICK g \in Handle : Ptr(g) = p
        BY <1>2, <3>2 DEF OneBlock
      <4>2. g # h
        BY <1>1, <1>2, <3>2, <4>1 DEF Ptr
      <4> QED BY <1>5, <4>1, <4>2
    <3> QED BY <3>1, <3>2
  <2>2. \A g, f \in Handle : Ptr(g)' = Ptr(f)' /\ Ptr(g)' # Null => g = f
    BY <1>5, <1>7 DEF OneBlock
  <2> QED BY <2>1, <2>2 DEF OneBlock
<1> QED
  BY <1>6, <1>7, <1>8, <1>9, <1>10, <1>11

\* Adding an element that is nowhere else keeps every element in one place.
LEMMA AppendKeeps ==
  ASSUME IInv, NEW h \in Handle, NEW e \in Elem, NEW q, NEW n,
         Filled(h, q, n, Append(Elems(h), e)), SidesOK',
         \A g \in Handle : \A i \in Alive(g) : Elems(g)[i] # e,
         e \notin dropped, held' = held \ {e}, made' = made \cup {e}, dropped' = dropped
  PROVE  Shape' /\ OneElem' /\ AllMade'
<1> DEFINE s == Append(Elems(h), e)
           N == Len(Elems(h))
<1>1. /\ Elems(h) \in Seq(Elem) /\ N \in Nat /\ Alive(h) = 1 .. N
      /\ Len(s) = N + 1 /\ s[N + 1] = e
      /\ \A i \in 1 .. N : s[i] = Elems(h)[i]
  BY Views DEF IInv, Filled, Alive
<1>2. Filled(h, q, n, s)
  OBVIOUS
<1> HIDE DEF s
<1>3. /\ Shape' /\ Elems(h)' = s /\ Alive(h)' = 1 .. Len(s)
      /\ \A g \in Handle \ {h} : Elems(g)' = Elems(g) /\ Alive(g)' = Alive(g)
  BY <1>2, FilledShape DEF IInv
<1>4. \A i \in 1 .. (N + 1) : i \in Alive(h) \/ i = N + 1
  BY <1>1
<1>5. \A i, j \in 1 .. (N + 1) : s[i] = s[j] => i = j
  BY <1>1, <1>4 DEF IInv, OneElem
<1>6. ASSUME NEW i \in 1 .. (N + 1)
      PROVE  /\ s[i] \notin held' \cup dropped
             /\ \A g \in Handle \ {h} : \A j \in Alive(g) : s[i] # Elems(g)[j]
  <2>1. CASE i = N + 1
    BY <1>1, <2>1
  <2>2. CASE i # N + 1
    BY <1>1, <1>4, <2>2 DEF IInv, OneElem
  <2> QED BY <2>1, <2>2
<1>7. \A x : Has(h, x)' <=> (Has(h, x) \/ x = e)
  <2>1. \A x : Has(h, x)' <=> \E i \in 1 .. (N + 1) : s[i] = x
    BY <1>1, <1>3 DEF Has
  <2>2. \A x : Has(h, x) <=> \E i \in 1 .. N : s[i] = x
    BY <1>1 DEF Has
  <2>3. \A i : i \in 1 .. (N + 1) <=> (i \in 1 .. N \/ i = N + 1)
    BY <1>1
  <2> HIDE DEF N
  <2> QED BY <1>1, <2>1, <2>2, <2>3, Zenon
<1> HIDE DEF N
<1>8. OneElem'
  BY <1>1, <1>3, <1>5, <1>6, ElemsSet DEF IInv
<1>9. AllMade'
  <2>1. \A x \in Elem : \A g \in Handle : Has(g, x)' <=> (Has(g, x) \/ (g = h /\ x = e))
    BY <1>3, <1>7, HasSame
  <2> QED BY <2>1 DEF IInv, AllMade
<1> QED
  BY <1>3, <1>8, <1>9

\* C's buffer has elements that are new and distinct.
LEMMA NewElemsAre ==
  ASSUME NEW s \in NewElems
  PROVE  /\ s \in Seq(Elem) /\ Distinct(s)
         /\ \A i \in 1 .. Len(s) : s[i] \in Elem /\ s[i] \notin made
<1>1. PICK n \in 0 .. Cardinality(Elem \ made) : s \in [1 .. n -> Elem \ made] /\ Distinct(s)
  BY DEF NewElems
<1>2. n \in Nat
  OBVIOUS
<1>3. s \in Seq(Elem \ made) /\ Len(s) = n
  BY <1>1, <1>2
<1> QED
  BY <1>1, <1>2, <1>3

\* The buffer C gives is a block that was free, with elements that were nowhere.
LEMMA CGivesFills ==
  ASSUME IInv, NEW h \in Handle, NEW p \in FreeBlocks, CGives(h, p)
  PROVE  \E s \in NewElems :
           (\E n : Filled(h, p, n, s)) /\ SidesOK' /\ made' = made \cup {s[i] : i \in DOMAIN s}
<1>1. PICK s \in NewElems, cap \in 0 .. Smaller(CapTypeMax(h), MaxSliceLen) :
         /\ Len(s) <= cap /\ Len(s) <= LenMax
         /\ ~Tracks(h) => cap = Len(s)
         /\ heap' = Plus(p, [size |-> IF cap = 0 THEN EmptyBlock ELSE cap,
                             alloc |-> Alloc(h), elems |-> s])
         /\ c' = [c EXCEPT ![h] = [ptr |-> p, len |-> Len(s), cap |-> IF Tracks(h) THEN cap ELSE 0]]
         /\ made' = made \cup {s[i] : i \in DOMAIN s}
  BY DEF CGives
<1>2. Idle(h) /\ c[h].ptr = Null /\ reply' = NoReply /\ UNCHANGED <<clearing, held, dropped, fits>>
  BY DEF CGives
<1>3. s \in Seq(Elem)
  BY NewElemsAre
<1>4. cap \in Nat /\ (Tracks(h) => cap <= CapMax) /\ cap <= MaxSliceLen
  BY CVecAssumption DEF Smaller, CapTypeMax
<1>5. SidesOK'
  <2>1. made' \in SUBSET Elem
    BY <1>1, <1>3 DEF IInv, Shape, TypeOK
  <2> QED BY <1>2, <2>1 DEF IInv, Shape, TypeOK, SidesOK, NoReply
<1>6. Filled(h, p, cap, s)
  <2>1. Null \notin DOMAIN heap /\ p \in Block /\ p \notin DOMAIN heap
    BY Types DEF IInv, Shape, FreeBlocks
  <2>2. /\ DOMAIN heap' = (DOMAIN heap \ {c[h].ptr}) \cup {p}
        /\ \A x \in DOMAIN heap' \ {p} : heap'[x] = heap[x]
        /\ heap'[p] = [size |-> IF cap = 0 THEN EmptyBlock ELSE cap, alloc |-> Alloc(h), elems |-> s]
    BY <1>1, <1>2, <2>1 DEF Plus
  <2> QED BY <1>1, <1>2, <1>3, <1>4, <2>1, <2>2 DEF Filled
<1> QED
  BY <1>1, <1>5, <1>6

\* C may hand a buffer over.
LEMMA CGivesInv ==
  ASSUME IInv, NEW h \in Handle, NEW p \in FreeBlocks, CGives(h, p)
  PROVE  IInv'
<1>1. PICK s \in NewElems :
        (\E n : Filled(h, p, n, s)) /\ SidesOK' /\ made' = made \cup {s[i] : i \in DOMAIN s}
  BY CGivesFills
<1>2. /\ Idle(h) /\ c[h].ptr = Null /\ reply' = NoReply /\ UNCHANGED <<held, dropped>>
  BY DEF CGives
<1>3. s \in Seq(Elem) /\ Distinct(s) /\ \A i \in 1 .. Len(s) : s[i] \in Elem /\ s[i] \notin made
  BY NewElemsAre
<1>4. /\ Shape' /\ Elems(h)' = s /\ Alive(h)' = 1 .. Len(s)
      /\ \A g \in Handle \ {h} : Elems(g)' = Elems(g) /\ Alive(g)' = Alive(g)
  BY <1>1, FilledShape DEF IInv
<1>5. OneElem'
  <2>1. \A i, j \in 1 .. Len(s) : s[i] = s[j] => i = j
    BY <1>3 DEF Distinct
  <2>2. \A i \in 1 .. Len(s) : /\ s[i] \notin held' \cup dropped
                              /\ \A g \in Handle : \A j \in Alive(g) : s[i] # Elems(g)[j]
    BY <1>2, <1>3, MadeMeans DEF IInv
  <2> QED BY <1>2, <1>4, <2>1, <2>2, ElemsSet DEF IInv
<1>6. AllMade'
  <2>1. Alive(h) = {}
    BY <1>2 DEF Alive, Elems, Ptr
  <2>2. \A x : ~Has(h, x) /\ (Has(h, x)' <=> x \in {s[i] : i \in DOMAIN s})
    BY <1>3, <1>4, <2>1 DEF Has
  <2>3. \A x \in Elem : \A g \in Handle \ {h} : Has(g, x)' <=> Has(g, x)
    BY <1>4, HasSame
  <2>4. ASSUME NEW x \in Elem
        PROVE  (\E g \in Handle : Has(g, x)') <=>
                 ((\E g \in Handle : Has(g, x)) \/ x \in {s[i] : i \in DOMAIN s})
    BY <2>2, <2>3
  <2> QED BY <1>1, <1>2, <2>4 DEF IInv, AllMade
<1>7. RefusesOnlyAtLimit'
  BY <1>2 DEF RefusesOnlyAtLimit, NoReply
<1> QED
  BY <1>4, <1>5, <1>6, <1>7 DEF IInv

\* A block with other elements.
LEMMA BlockWith ==
  ASSUME NEW b, NEW n, NEW a, NEW s, NEW t, b = [size |-> n, alloc |-> a, elems |-> s]
  PROVE  [b EXCEPT !.elems = t] = [size |-> n, alloc |-> a, elems |-> t]
OBVIOUS

\* What a struct has with capacity to spare, or full.
LEMMA Room ==
  ASSUME Shape, NEW h \in Handle, Idle(h)
  PROVE  /\ Spare(h) => /\ c[h].ptr # Null /\ c[h].len + 1 <= c[h].cap
         /\ c[h].ptr # Null => /\ c[h].ptr \in DOMAIN heap
                               /\ heap[c[h].ptr] = [size |-> heap[c[h].ptr].size,
                                     alloc |-> Alloc(h), elems |-> Elems(h)]
                               /\ heap[c[h].ptr].elems = Elems(h)
                               /\ heap[c[h].ptr].size = IF Cap(h) = 0 THEN EmptyBlock ELSE Cap(h)
         /\ Len(Elems(h)) = c[h].len /\ Elems(h) \in Seq(Elem)
         /\ Cap(h) <= MaxSliceLen /\ c[h].len <= Cap(h)
         /\ (c[h].ptr = Null => Cap(h) = 0)
<1>1. Valid(h)
  BY DEF Shape, HandleValid, Valid
<1>2. c[h].len \in Nat /\ c[h].cap \in Nat /\ Cap(h) \in Nat
  BY Types DEF Shape
<1>3. Spare(h) => c[h].ptr # Null /\ c[h].len + 1 <= c[h].cap
  BY <1>1, <1>2 DEF Spare, Cap, Valid
<1>4. c[h].ptr # Null => heap[c[h].ptr] \in BlockType /\ Elems(h) = heap[c[h].ptr].elems
  BY <1>1 DEF Shape, TypeOK, Valid, Elems, Ptr
<1>5. Len(Elems(h)) = c[h].len /\ Elems(h) \in Seq(Elem)
  BY Views
<1> QED
  BY <1>1, <1>2, <1>3, <1>4, <1>5 DEF Valid, BlockType

\* The capacity a push grows to has room for one more and is within the limits.
LEMMA Grown ==
  ASSUME Shape, NEW h \in Handle, Idle(h), LenFits(h), ~Spare(h), CapFits(h)
  PROVE  /\ NewCap(h) \in Nat /\ c[h].len + 1 <= NewCap(h) /\ NewCap(h) <= MaxSliceLen
         /\ IF Tracks(h) THEN NewCap(h) <= CapMax ELSE NewCap(h) = c[h].len + 1
<1>1. c[h].len \in Nat /\ c[h].cap \in Nat
  BY Types DEF Shape
<1>2. /\ CapMax \in Nat /\ LenMax \in Nat /\ MaxSliceLen \in Nat
      /\ MinNonZeroCap \in Nat /\ 1 <= MinNonZeroCap /\ MinNonZeroCap <= MaxSliceLen
      /\ MinNonZeroCap <= CapMax
  BY CVecAssumption
<1>3. c[h].len + 1 <= MaxSliceLen /\ c[h].len + 1 <= LenMax
  BY DEF LenFits
<1>4. CASE ~Tracks(h)
  <2>1. WantedCap(h) = c[h].len + 1 /\ CapTypeMax(h) = LenMax
    BY <1>4 DEF WantedCap, CapTypeMax
  <2> QED BY <1>1, <1>2, <1>3, <1>4, <2>1 DEF NewCap, Smaller
<1>5. CASE Tracks(h)
  <2>1. c[h].cap = c[h].len
    BY <1>5 DEF Spare
  <2>2. /\ WantedCap(h) \in Nat /\ c[h].len + 1 <= WantedCap(h) /\ WantedCap(h) <= MaxSliceLen
    BY <1>1, <1>2, <1>3, <1>5, <2>1 DEF WantedCap, Smaller
  <2>3. CapTypeMax(h) = CapMax /\ (WantedCap(h) <= CapMax \/ c[h].len + 1 <= CapMax)
    BY <1>5 DEF CapFits, CapTypeMax
  <2> QED BY <1>1, <1>2, <1>5, <2>2, <2>3 DEF NewCap, Smaller
<1> QED
  BY <1>4, <1>5

\* A push that succeeds appends its element, in place or in a block grow made.
LEMMA PushFills ==
  ASSUME IInv, NEW h \in Handle, NEW e \in held, Idle(h), UNCHANGED clearing,
         PushInPlace(h, e) \/ PushGrow(h, e)
  PROVE  /\ \E q, n : Filled(h, q, n, Append(Elems(h), e))
         /\ held' = held \ {e} /\ reply' = [res |-> "Ok", handle |-> h] /\ fits' \in BOOLEAN
<1> DEFINE s == Append(Elems(h), e)
<1>1. /\ e \in Elem /\ Elems(h) \in Seq(Elem) /\ Len(Elems(h)) = c[h].len /\ c[h].len \in Nat
      /\ s \in Seq(Elem) /\ Len(s) = c[h].len + 1
  <2>1. e \in Elem /\ Elems(h) \in Seq(Elem) /\ Len(Elems(h)) = c[h].len /\ c[h].len \in Nat
    BY Room, Types DEF IInv, Shape, TypeOK
  <2> QED BY <2>1
<1>2. /\ SubSeq(Elems(h), 1, c[h].len) = Elems(h)
      /\ LenFits(h) /\ c[h].len + 1 <= LenMax
  BY <1>1 DEF PushInPlace, PushGrow, LenFits
<1>3. Null \notin DOMAIN heap /\ \A p \in DOMAIN heap : p \in Block
  BY Types DEF IInv, Shape
<1> HIDE DEF s
<1>4. CASE PushInPlace(h, e)
  <2> DEFINE p == c[h].ptr
  <2>1. /\ p \in DOMAIN heap /\ p \in Block
        /\ heap[p] = [size |-> heap[p].size, alloc |-> Alloc(h), elems |-> Elems(h)]
        /\ heap[p].size = IF Cap(h) = 0 THEN EmptyBlock ELSE Cap(h)
        /\ c[h].len + 1 <= c[h].cap /\ c[h].cap <= MaxSliceLen /\ c[h].cap <= CapMax
        /\ Tracks(h) /\ Cap(h) = c[h].cap /\ c[h].cap \in Nat
    BY <1>3, <1>4, Room, Types DEF IInv, Shape, HandleValid, PushInPlace, Spare, Cap
  <2>2. /\ heap' = [heap EXCEPT ![p].elems = Append(SubSeq(@, 1, c[h].len), e)]
        /\ c' = [c EXCEPT ![h] = [ptr |-> p, len |-> c[h].len + 1,
                                  cap |-> IF Tracks(h) THEN c[h].cap ELSE 0]]
        /\ held' = held \ {e} /\ reply' = [res |-> "Ok", handle |-> h] /\ fits' = fits
    BY <1>4 DEF PushInPlace, Write
  <2>3. /\ DOMAIN heap' = DOMAIN heap
        /\ \A x \in DOMAIN heap' \ {p} : heap'[x] = heap[x]
    BY <2>2
  <2>4. heap'[p] = [size |-> c[h].cap, alloc |-> Alloc(h), elems |-> s]
    <3>1. heap'[p] = [heap[p] EXCEPT !.elems = Append(SubSeq(heap[p].elems, 1, c[h].len), e)]
      BY <2>1, <2>2
    <3>2. heap[p].elems = Elems(h) /\ heap[p].size = c[h].cap
      BY <1>1, <2>1
    <3>3. Append(SubSeq(heap[p].elems, 1, c[h].len), e) = s
      BY <1>2, <3>2 DEF s
    <3>4. heap[p] = [size |-> c[h].cap, alloc |-> Alloc(h), elems |-> Elems(h)]
      BY <2>1, <3>2
    <3>5. [heap[p] EXCEPT !.elems = s] = [size |-> c[h].cap, alloc |-> Alloc(h), elems |-> s]
      BY <3>4, BlockWith
    <3> QED BY <3>1, <3>3, <3>5
  <2>5. Filled(h, p, c[h].cap, s)
    BY <1>1, <1>2, <2>1, <2>2, <2>3, <2>4 DEF Filled
  <2> QED BY <2>2, <2>5 DEF IInv, Shape, TypeOK, s
<1>5. CASE PushGrow(h, e)
  <2> DEFINE p == c[h].ptr
             n == NewCap(h)
  <2>1. PICK q \in FreeBlocks \cup ({p} \ {Null}) : Write(Reallocated(h, q), h, e, q, n)
    BY <1>5 DEF PushGrow
  <2>2. /\ n \in Nat /\ c[h].len + 1 <= n /\ n <= MaxSliceLen
        /\ IF Tracks(h) THEN n <= CapMax ELSE n = c[h].len + 1
    BY <1>5, Grown DEF IInv, PushGrow
  <2>3. q \in Block /\ (q \in DOMAIN heap => q = p)
    BY <1>3, Types DEF IInv, Shape, FreeBlocks
  <2> DEFINE kept == IF p = Null THEN <<>>
                     ELSE SubSeq(heap[p].elems, 1, Smaller(OldLayout(h), Len(heap[p].elems)))
  <2>4. kept = Elems(h)
    <3>1. CASE p = Null
      BY <3>1 DEF Elems, Ptr
    <3>2. CASE p # Null
      <4>1. heap[p].elems = Elems(h) /\ c[h].len <= Cap(h) /\ Cap(h) \in Nat
        BY <3>2, Room, Types DEF IInv, Shape
      <4>2. OldLayout(h) \in Nat /\ OldLayout(h) >= Len(Elems(h))
        BY <1>1, <4>1 DEF OldLayout, Larger
      <4> QED BY <1>1, <3>2, <4>1, <4>2, SubSeqAll
    <3> QED BY <3>1, <3>2
  <2> DEFINE b == [size |-> n, alloc |-> Alloc(h), elems |-> kept]
             map == Reallocated(h, q)
  <2>5. map = [x \in (DOMAIN heap \ {p}) \cup {q} |-> IF x = q THEN b ELSE heap[x]]
    BY DEF Reallocated
  <2>a. b.size = n /\ b.alloc = Alloc(h) /\ b.elems = kept
        /\ [b EXCEPT !.elems = s] = [size |-> n, alloc |-> Alloc(h), elems |-> s]
    OBVIOUS
  <2> HIDE DEF n, kept, b, map
  <2>6. /\ DOMAIN map = (DOMAIN heap \ {p}) \cup {q} /\ map[q] = b
        /\ \A x \in DOMAIN map \ {q} : map[x] = heap[x]
    BY <2>5
  <2>7. /\ heap' = [map EXCEPT ![q].elems = Append(SubSeq(@, 1, c[h].len), e)]
        /\ c' = [c EXCEPT ![h] = [ptr |-> q, len |-> c[h].len + 1,
                                  cap |-> IF Tracks(h) THEN n ELSE 0]]
        /\ held' = held \ {e} /\ reply' = [res |-> "Ok", handle |-> h]
    BY <2>1 DEF Write, map
  <2>8. /\ DOMAIN heap' = (DOMAIN heap \ {p}) \cup {q}
        /\ \A x \in DOMAIN heap' \ {q} : heap'[x] = heap[x]
    BY <2>6, <2>7
  <2>9. heap'[q] = [size |-> n, alloc |-> Alloc(h), elems |-> s]
    <3>1. Append(SubSeq(b.elems, 1, c[h].len), e) = s
      BY <1>2, <2>4, <2>a DEF s
    <3>2. heap'[q] = [b EXCEPT !.elems = Append(SubSeq(b.elems, 1, c[h].len), e)]
      BY <2>6, <2>7
    <3> QED BY <2>a, <3>1, <3>2
  <2>10. n # 0
    BY <1>1, <2>2
  <2>11. Filled(h, q, n, s)
    BY <1>1, <1>2, <2>2, <2>3, <2>7, <2>8, <2>9, <2>10 DEF Filled
  <2>12. fits' \in BOOLEAN
    BY <1>5 DEF PushGrow, IInv, Shape, TypeOK
  <2> QED BY <2>7, <2>11, <2>12 DEF s
<1> QED
  BY <1>4, <1>5

\* A push moves its element from the caller to the end of the vector, or fails.
LEMMA PushBackInv ==
  ASSUME IInv, NEW h \in Handle, NEW e \in Elem, PushBack(h, e)
  PROVE  IInv'
<1>1. Idle(h) /\ e \in held /\ UNCHANGED <<clearing, made>>
  BY DEF PushBack
<1>2. CASE (PushInPlace(h, e) \/ PushGrow(h, e)) /\ UNCHANGED dropped
  <2>1. /\ held' = held \ {e} /\ reply' = [res |-> "Ok", handle |-> h]
        /\ fits' \in BOOLEAN /\ dropped' = dropped
    BY <1>1, <1>2, PushFills
  <2>2. PICK q, n : Filled(h, q, n, Append(Elems(h), e))
    BY <1>1, <1>2, PushFills
  <2>3. SidesOK'
    BY <1>1, <2>1 DEF IInv, Shape, TypeOK, SidesOK
  <2>4. e \notin dropped /\ \A g \in Handle : \A i \in Alive(g) : Elems(g)[i] # e
    BY <1>1 DEF IInv, OneElem
  <2>a. made' = made \cup {e}
    BY <1>1 DEF IInv, AllMade
  <2>5. Shape' /\ OneElem' /\ AllMade'
    BY <2>1, <2>2, <2>3, <2>4, <2>a, AppendKeeps
  <2>6. RefusesOnlyAtLimit'
    BY <2>1 DEF RefusesOnlyAtLimit
  <2> QED BY <2>5, <2>6 DEF IInv
<1>3. CASE \/ ~LenFits(h) /\ PushErr(h, e, "Limit")
           \/ LenFits(h) /\ ~Spare(h) /\ ~CapFits(h) /\ PushErr(h, e, "Limit")
  BY <1>1, <1>3, PushErrInv
<1>4. CASE PushErr(h, e, "NoMemory")
  BY <1>1, <1>4, PushErrInv
<1> QED
  BY <1>2, <1>3, <1>4 DEF PushBack

\* C appends a new element where the struct has room.
LEMMA CFillsFills ==
  ASSUME IInv, NEW h \in Handle, NEW e \in Elem, CFills(h, e)
  PROVE  \E q, n : Filled(h, q, n, Append(Elems(h), e)) /\ SidesOK'
<1> DEFINE s == Append(Elems(h), e)
           p == c[h].ptr
<1>1. /\ Idle(h) /\ Spare(h) /\ c[h].len < LenMax /\ e \notin made /\ reply' = NoReply
      /\ made' = made \cup {e}
      /\ heap' = [heap EXCEPT ![p].elems = Append(@, e)]
      /\ c' = [c EXCEPT ![h].len = @ + 1]
      /\ UNCHANGED <<clearing, held, dropped, fits>>
  BY DEF CFills
<1>2. /\ p \in DOMAIN heap /\ p \in Block
      /\ heap[p] = [size |-> heap[p].size, alloc |-> Alloc(h), elems |-> Elems(h)]
      /\ heap[p].size = IF Cap(h) = 0 THEN EmptyBlock ELSE Cap(h)
      /\ c[h].len + 1 <= c[h].cap /\ c[h].cap <= MaxSliceLen /\ c[h].cap <= CapMax
      /\ Tracks(h) /\ Cap(h) = c[h].cap /\ c[h].cap \in Nat /\ c[h].len \in Nat
  BY <1>1, Room, Types DEF IInv, Shape, HandleValid, Spare, Cap
<1>3. Elems(h) \in Seq(Elem) /\ Len(Elems(h)) = c[h].len /\ s \in Seq(Elem) /\ Len(s) = c[h].len + 1
  <2>1. Elems(h) \in Seq(Elem) /\ Len(Elems(h)) = c[h].len
    BY <1>1, Room DEF IInv
  <2> QED BY <2>1
<1>4. c' = [c EXCEPT ![h] = [ptr |-> p, len |-> Len(s), cap |-> IF Tracks(h) THEN c[h].cap ELSE 0]]
  <2>1. c[h] \in [ptr : Block \cup {Null}, len : Nat, cap : Nat]
    <3>1. c[h] \in Fields
      BY DEF IInv, Shape, TypeOK
    <3> QED BY <3>1, CVecAssumption DEF Fields
  <2>2. [c[h] EXCEPT !.len = @ + 1] = [ptr |-> p, len |-> Len(s), cap |-> IF Tracks(h) THEN c[h].cap ELSE 0]
    <3> HIDE DEF s
    <3> QED BY <1>2, <1>3, <2>1
  <2> HIDE DEF s, p
  <2> QED BY <1>1, <2>2
<1>5. /\ DOMAIN heap' = DOMAIN heap
      /\ \A x \in DOMAIN heap' \ {p} : heap'[x] = heap[x]
      /\ heap'[p] = [size |-> c[h].cap, alloc |-> Alloc(h), elems |-> s]
  <2>1. heap'[p] = [heap[p] EXCEPT !.elems = Append(heap[p].elems, e)]
    BY <1>1, <1>2
  <2>2. heap[p].elems = Elems(h) /\ heap[p].size = c[h].cap
    BY <1>2, <1>3
  <2>3. heap[p] = [size |-> c[h].cap, alloc |-> Alloc(h), elems |-> Elems(h)]
    BY <1>2, <2>2
  <2>4. [heap[p] EXCEPT !.elems = s] = [size |-> c[h].cap, alloc |-> Alloc(h), elems |-> s]
    <3> HIDE DEF s, p
    <3> QED BY <2>3, BlockWith
  <2> QED BY <1>1, <2>1, <2>2, <2>4
<1>6. Filled(h, p, c[h].cap, s)
  <2>1. Len(s) <= LenMax /\ Len(s) <= c[h].cap /\ c[h].cap # 0
    BY <1>1, <1>2, <1>3, CVecAssumption
  <2> HIDE DEF s
  <2> QED BY <1>1, <1>2, <1>3, <1>4, <1>5, <2>1, ZenonT(30) DEF Filled
<1>7. SidesOK'
  BY <1>1 DEF IInv, Shape, TypeOK, SidesOK, NoReply
<1> QED
  BY <1>6, <1>7

\* C may append.
LEMMA CFillsInv ==
  ASSUME IInv, NEW h \in Handle, NEW e \in Elem, CFills(h, e)
  PROVE  IInv'
<1>1. PICK q, n : Filled(h, q, n, Append(Elems(h), e)) /\ SidesOK'
  BY CFillsFills
<1>2. e \notin made /\ made' = made \cup {e} /\ reply' = NoReply /\ UNCHANGED <<held, dropped>>
  BY DEF CFills
<1>3. e \notin held \cup dropped /\ \A g \in Handle : \A i \in Alive(g) : Elems(g)[i] # e
  BY <1>2, MadeMeans DEF IInv
<1>4. Shape' /\ OneElem' /\ AllMade'
  <2>1. held' = held \ {e}
    BY <1>2, <1>3
  <2> QED BY <1>1, <1>2, <1>3, <2>1, AppendKeeps
<1>5. RefusesOnlyAtLimit'
  BY <1>2 DEF RefusesOnlyAtLimit, NoReply
<1> QED
  BY <1>4, <1>5 DEF IInv

(***************************************************************************)
(* clear.                                                                  *)
(***************************************************************************)
\* A clear takes over what the struct had.
LEMMA ClearBeginInv ==
  ASSUME IInv, NEW h \in Handle, ClearBegin(h)
  PROVE  IInv'
<1> USE CVecAssumption DEF Shape
<1>1. /\ Idle(h) /\ reply' = NoReply /\ UNCHANGED <<heap, held, made, dropped, fits>>
      /\ c' = [c EXCEPT ![h] = Reset] /\ clearing' = [clearing EXCEPT ![h] = TakenBy(h)]
  BY DEF ClearBegin
<1> DEFINE r == [ptr |-> c[h].ptr, layout |-> OldLayout(h), len |-> c[h].len,
                 next |-> 0, panicking |-> FALSE]
<1>2. /\ c[h].ptr \in Block \cup {Null} /\ c[h].len \in Nat
      /\ OldLayout(h) \in Nat /\ OldLayout(h) = IF Cap(h) = 0 THEN 1 ELSE Cap(h)
  BY Types DEF IInv, OldLayout, Larger
<1>3. /\ r.ptr = c[h].ptr /\ r.layout = OldLayout(h) /\ r.len = c[h].len /\ r.next = 0
      /\ TakenBy(h) = IF c[h].ptr = Null THEN None ELSE r
      /\ c[h].ptr # Null => r \in Clearing /\ r # None
  <2>1. c[h].ptr # Null => r \in Clearing
    BY <1>2 DEF Clearing
  <2> QED BY <2>1 DEF TakenBy
<1> HIDE DEF r
<1>4. /\ c'[h] = Reset /\ \A g \in Handle \ {h} : c'[g] = c[g]
      /\ c' \in [Handle -> Fields]
  <2>1. Reset \in Fields
    BY DEF Reset, Fields
  <2> QED BY <1>1, <2>1 DEF IInv, TypeOK
<1>5. /\ clearing'[h] = TakenBy(h) /\ \A g \in Handle \ {h} : clearing'[g] = clearing[g]
      /\ clearing' \in [Handle -> Clearing \cup {None}]
  BY <1>1, <1>3 DEF IInv, TypeOK
<1>6. \A g \in Handle : (g # h => Idle(g)' = Idle(g)) /\ (Idle(h)' <=> c[h].ptr = Null)
  BY <1>3, <1>5 DEF Idle
<1>7. \A g \in Handle : Ptr(g)' = Ptr(g)
  BY <1>1, <1>3, <1>4, <1>5, <1>6 DEF Ptr, Reset
<1>8. \A g \in Handle : Elems(g)' = Elems(g)
  BY <1>1, <1>7 DEF Elems
<1>9. \A g \in Handle : Alive(g)' = Alive(g)
  <2>1. \A g \in Handle \ {h} : Alive(g)' = Alive(g)
    BY <1>5, <1>6, <1>8 DEF Alive
  <2>2. Alive(h)' = Alive(h)
    BY <1>1, <1>3, <1>5, <1>6, <1>8 DEF Alive
  <2> QED BY <2>1, <2>2
<1>10. TypeOK'
  BY <1>1, <1>4, <1>5 DEF IInv, TypeOK, NoReply
<1>11. HandleValid'
  <2>1. ASSUME NEW g \in Handle \ {h} PROVE Valid(g)'
    BY <1>1, <1>4 DEF IInv, HandleValid, Valid, Cap
  <2>2. Valid(h)'
    BY <1>4 DEF Valid, Cap, Reset
  <2> QED BY <2>1, <2>2 DEF HandleValid, Valid
<1>12. ClearValid'
  <2>1. ASSUME NEW g \in Handle \ {h}, ~Idle(g)'
        PROVE  /\ c'[g] = Reset /\ clearing'[g] = clearing[g] /\ ~Idle(g)
    BY <1>4, <1>5, <1>6, <2>1 DEF IInv, ClearValid
  <2>2. ASSUME ~Idle(h)'
        PROVE  /\ c'[h] = Reset /\ clearing'[h] = r /\ r.ptr \in DOMAIN heap
               /\ heap[r.ptr].alloc = Alloc(h)
               /\ \/ heap[r.ptr].size = r.layout
                  \/ heap[r.ptr].size = EmptyBlock /\ r.layout = 1
               /\ Len(heap[r.ptr].elems) = r.len
               /\ r.next <= r.len
    <3>1. c[h].ptr # Null /\ Valid(h)
      BY <1>6, <2>2 DEF IInv, HandleValid, Valid
    <3> QED BY <1>2, <1>3, <1>4, <1>5, <3>1 DEF Valid
  <2> QED BY <1>1, <2>1, <2>2 DEF IInv, ClearValid
<1>13. OneBlock'
  BY <1>1, <1>7 DEF IInv, OneBlock
<1>14. OneElem'
  <2>1. \A g \in Handle : \A i \in Alive(g)' : i \in Alive(g) /\ Elems(g)[i] \notin held' \cup dropped'
    BY <1>1, <1>9 DEF IInv, OneElem
  <2>2. held' \cap dropped' = {}
    BY <1>1 DEF IInv, OneElem
  <2> QED BY <1>8, <2>1, <2>2, ElemsKept DEF IInv
<1>15. AllMade'
  BY <1>1, <1>8, <1>9, MadeSame DEF IInv
<1>16. RefusesOnlyAtLimit'
  BY <1>1 DEF RefusesOnlyAtLimit, NoReply
<1> QED
  BY <1>10, <1>11, <1>12, <1>13, <1>14, <1>15, <1>16 DEF IInv

\* The indexes of the elements that are not dropped, when the next one is.
LEMMA FirstOfMore ==
  ASSUME NEW n \in Nat, NEW m \in Nat, n < m
  PROVE  \A i : i \in (n + 1) .. m <=> (i \in (n + 2) .. m \/ i = n + 1)
OBVIOUS

\* The drop of one element: it is with none of the owners any more.
LEMMA ClearDropInv ==
  ASSUME IInv, NEW h \in Handle, ClearDrop(h)
  PROVE  IInv'
<1> USE CVecAssumption DEF Shape
<1> DEFINE e == heap[clearing[h].ptr].elems[clearing[h].next + 1]
<1>1. /\ ~Idle(h) /\ clearing[h].next < clearing[h].len /\ reply' = NoReply
      /\ UNCHANGED <<heap, c, held, made, fits>> /\ dropped' = dropped \cup {e}
  BY DEF ClearDrop
<1>a. PICK panics \in BOOLEAN :
        clearing' = [clearing EXCEPT ![h].next = clearing[h].next + 1,
                                     ![h].panicking = clearing[h].panicking \/ panics]
  BY DEF ClearDrop
<1>2. PICK flag \in BOOLEAN :
        clearing' = [clearing EXCEPT ![h].next = clearing[h].next + 1, ![h].panicking = flag]
  BY <1>a
<1>3. /\ clearing[h] \in Clearing /\ clearing[h].next \in Nat /\ clearing[h].len \in Nat
      /\ clearing[h].panicking \in BOOLEAN
  BY <1>1, Types DEF IInv
<1>4. /\ clearing'[h] \in Clearing /\ clearing'[h] # None
      /\ clearing'[h].ptr = clearing[h].ptr /\ clearing'[h].layout = clearing[h].layout
      /\ clearing'[h].len = clearing[h].len /\ clearing'[h].next = clearing[h].next + 1
      /\ \A g \in Handle \ {h} : clearing'[g] = clearing[g]
      /\ clearing' \in [Handle -> Clearing \cup {None}]
  <2>1. clearing \in [Handle -> Clearing \cup {None}]
    BY DEF IInv, TypeOK
  <2>2. clearing' = [clearing EXCEPT ![h] =
          [clearing[h] EXCEPT !.next = clearing[h].next + 1,
                              !.panicking = flag]]
    BY <1>2, <2>1
  <2>3. clearing'[h] = [clearing[h] EXCEPT !.next = clearing[h].next + 1,
                                           !.panicking = flag]
    BY <2>1, <2>2
  <2>4. clearing'[h] \in Clearing
    <3>1. clearing[h].next + 1 \in Nat
      BY <1>3
    <3> QED BY <1>3, <2>3, <3>1 DEF Clearing
  <2>5. /\ clearing'[h].ptr = clearing[h].ptr /\ clearing'[h].layout = clearing[h].layout
        /\ clearing'[h].len = clearing[h].len /\ clearing'[h].next = clearing[h].next + 1
    BY <1>3, <2>3 DEF Clearing
  <2>6. \A g \in Handle \ {h} : clearing'[g] = clearing[g]
    BY <2>1, <2>2
  <2> QED BY <2>1, <2>2, <2>3, <2>4, <2>5, <2>6
<1>5. \A g \in Handle : Idle(g)' = Idle(g)
  BY <1>1, <1>4 DEF Idle
<1>6. \A g \in Handle : Ptr(g)' = Ptr(g)
  BY <1>1, <1>4, <1>5 DEF Ptr
<1>7. \A g \in Handle : Elems(g)' = Elems(g)
  BY <1>1, <1>6 DEF Elems
<1>8. /\ \A g \in Handle \ {h} : Alive(g)' = Alive(g)
      /\ Alive(h) = (clearing[h].next + 1) .. clearing[h].len
      /\ Alive(h)' = (clearing[h].next + 2) .. clearing[h].len
      /\ Elems(h)[clearing[h].next + 1] = e
  <2>1. \A g \in Handle \ {h} : Alive(g)' = Alive(g)
    BY <1>4, <1>5, <1>7 DEF Alive
  <2>2. Len(Elems(h)) = clearing[h].len
    BY <1>1, Views DEF IInv
  <2>3. Ptr(h) = clearing[h].ptr /\ Ptr(h) # Null
    BY <1>1, Types DEF IInv, Ptr
  <2> QED BY <1>1, <1>3, <1>4, <1>5, <1>7, <2>1, <2>2, <2>3 DEF Alive, Elems
<1>9. e \in Elem
  <2>1. Elems(h) \in Seq(Elem) /\ Len(Elems(h)) = clearing[h].len
    BY <1>1, Views DEF IInv
  <2>2. clearing[h].next + 1 \in 1 .. Len(Elems(h))
    BY <1>1, <1>3, <2>1
  <2> QED BY <1>8, <2>1, <2>2
<1> HIDE DEF e
<1>10. TypeOK'
  BY <1>1, <1>4, <1>9 DEF IInv, TypeOK, NoReply
<1>11. HandleValid'
  BY <1>1 DEF IInv, HandleValid, Cap
<1>12. ClearValid'
  <2>1. clearing'[h].next <= clearing[h].len
    BY <1>1, <1>3, <1>4
  <2> QED BY <1>1, <1>4, <1>5, <2>1 DEF IInv, ClearValid
<1>13. OneBlock'
  BY <1>1, <1>6 DEF IInv, OneBlock
<1>14. OneElem'
  <2>1. clearing[h].next + 1 \in Alive(h)
    BY <1>1, <1>3, <1>8
  <2>a. ASSUME NEW g \in Handle, NEW i \in Alive(g), Elems(g)[i] = e
        PROVE  g = h /\ i = clearing[h].next + 1
    <3>1. Elems(g)[i] = Elems(h)[clearing[h].next + 1]
      BY <1>8, <2>a
    <3> QED BY <2>1, <3>1 DEF IInv, OneElem
  <2>2. ASSUME NEW g \in Handle, NEW i \in Alive(g)' PROVE i \in Alive(g) /\ Elems(g)[i] # e
    <3>1. CASE g = h
      <4>1. i \in Alive(h) /\ i # clearing[h].next + 1
        BY <1>3, <1>8, <2>2, <3>1
      <4> QED BY <2>a, <3>1, <4>1
    <3>2. CASE g # h
      BY <1>8, <2>2, <2>a, <3>2
    <3> QED BY <3>1, <3>2
  <2>3. e \notin held
    BY <1>8, <2>1 DEF IInv, OneElem
  <2>4. held' \cap dropped' = {}
    BY <1>1, <2>3 DEF IInv, OneElem
  <2>5. \A g \in Handle : \A i \in Alive(g)' : i \in Alive(g) /\ Elems(g)[i] \notin held' \cup dropped'
    BY <1>1, <2>2 DEF IInv, OneElem
  <2> QED BY <1>7, <2>4, <2>5, ElemsKept DEF IInv
\* The element that is dropped is the only one its owner loses.
<1>15. AllMade'
  <2>1. \A i : i \in Alive(h) <=> (i \in Alive(h)' \/ i = clearing[h].next + 1)
    BY <1>1, <1>3, <1>8, FirstOfMore, Zenon
  <2>2. \A x : Has(h, x) <=> (Has(h, x)' \/ x = e)
    <3>1. \A x : Has(h, x)' <=> \E i \in Alive(h)' : Elems(h)[i] = x
      BY <1>7 DEF Has
    <3>2. Elems(h)[clearing[h].next + 1] = e
      BY <1>8
    <3> QED BY <2>1, <3>1, <3>2, Zenon DEF Has
  <2>3. \A x \in Elem : \A g \in Handle \ {h} : Has(g, x)' <=> Has(g, x)
    BY <1>7, <1>8, HasSame
  <2>4. ASSUME NEW x \in Elem
        PROVE  (\E g \in Handle : Has(g, x)) <=> ((\E g \in Handle : Has(g, x)') \/ x = e)
    BY <2>2, <2>3
  <2> QED BY <1>1, <2>4 DEF IInv, AllMade
<1>16. RefusesOnlyAtLimit'
  BY <1>1 DEF RefusesOnlyAtLimit, NoReply
<1> QED
  BY <1>10, <1>11, <1>12, <1>13, <1>14, <1>15, <1>16 DEF IInv

\* The guard gives the block back when no element of it is alive.
LEMMA ClearFreeInv ==
  ASSUME IInv, NEW h \in Handle, ClearFree(h)
  PROVE  IInv'
<1> USE CVecAssumption DEF Shape
<1> DEFINE p == clearing[h].ptr
<1>1. /\ ~Idle(h) /\ clearing[h].next = clearing[h].len /\ reply' = NoReply
      /\ UNCHANGED <<c, held, made, dropped>>
      /\ heap' = Minus(p) /\ clearing' = [clearing EXCEPT ![h] = None]
  BY DEF ClearFree
<1>2. fits' \in BOOLEAN
  BY DEF ClearFree, IInv, TypeOK
<1>3. c[h] = Reset /\ p \in DOMAIN heap /\ Ptr(h) = p /\ p # Null
  BY <1>1, Types DEF IInv, ClearValid, Ptr
<1>4. DOMAIN heap' = DOMAIN heap \ {p} /\ \A x \in DOMAIN heap' : heap'[x] = heap[x]
  BY <1>1 DEF Minus
<1>5. /\ clearing'[h] = None /\ \A g \in Handle \ {h} : clearing'[g] = clearing[g]
      /\ clearing' \in [Handle -> Clearing \cup {None}]
  BY <1>1 DEF IInv, TypeOK
<1> HIDE DEF p
<1>6. Idle(h)' /\ \A g \in Handle \ {h} : Idle(g)' = Idle(g)
  BY <1>5 DEF Idle
<1>7. /\ Ptr(h)' = Null
      /\ \A g \in Handle \ {h} :
           /\ Ptr(g)' = Ptr(g) /\ Ptr(g) # p
           /\ Ptr(g) # Null => /\ Ptr(g) \in DOMAIN heap' /\ heap'[Ptr(g)] = heap[Ptr(g)]
  <2>1. Ptr(h)' = Null
    BY <1>1, <1>3, <1>6 DEF Ptr, Reset
  <2>2. ASSUME NEW g \in Handle \ {h} PROVE Ptr(g)' = Ptr(g) /\ Ptr(g) # p
    BY <1>1, <1>3, <1>5, <1>6 DEF Ptr, IInv, OneBlock
  <2>3. \A g \in Handle : Ptr(g) # Null => Ptr(g) \in DOMAIN heap
    BY Views DEF IInv
  <2> QED BY <1>4, <2>1, <2>2, <2>3
<1>8. /\ Elems(h)' = <<>> /\ Alive(h)' = {}
      /\ \A g \in Handle \ {h} : Elems(g)' = Elems(g) /\ Alive(g)' = Alive(g)
  <2>1. Elems(h)' = <<>>
    BY <1>7 DEF Elems
  <2>2. Alive(h)' = {}
    BY <1>6, <2>1 DEF Alive
  <2>3. \A g \in Handle \ {h} : Elems(g)' = Elems(g)
    BY <1>7 DEF Elems
  <2> QED BY <1>5, <1>6, <2>1, <2>2, <2>3 DEF Alive
<1>9. TypeOK'
  BY <1>1, <1>2, <1>4, <1>5 DEF IInv, TypeOK, NoReply
<1>10. HandleValid'
  <2>1. ASSUME NEW g \in Handle PROVE Valid(g)'
    <3>0. Valid(g) /\ c'[g] = c[g] /\ Cap(g)' = Cap(g)
      BY <1>1 DEF IInv, HandleValid, Valid, Cap
    <3>1. CASE c[g].ptr = Null
      BY <3>0, <3>1 DEF Valid
    <3>2. CASE c[g].ptr # Null
      <4>1. Idle(g) /\ g # h
        BY <1>3, <3>2 DEF IInv, ClearValid, Reset
      <4>2. Ptr(g) = c[g].ptr
        BY <4>1 DEF Ptr
      <4> QED BY <1>7, <3>0, <3>2, <4>1, <4>2 DEF Valid
    <3> QED BY <3>1, <3>2
  <2> QED BY <2>1 DEF HandleValid, Valid
<1>11. ClearValid'
  <2>1. ASSUME NEW g \in Handle, ~Idle(g)'
        PROVE  /\ c'[g] = c[g] /\ clearing'[g] = clearing[g] /\ ~Idle(g)
               /\ clearing[g].ptr \in DOMAIN heap' /\ heap'[clearing[g].ptr] = heap[clearing[g].ptr]
    <3>1. g # h /\ ~Idle(g) /\ clearing'[g] = clearing[g]
      BY <1>5, <1>6, <2>1
    <3>2. Ptr(g) = clearing[g].ptr /\ Ptr(g) # Null
      BY <3>1, Types DEF IInv, Ptr
    <3> QED BY <1>1, <1>7, <3>1, <3>2
  <2> QED BY <2>1 DEF IInv, ClearValid
<1>12. OneBlock'
  <2>1. \A g, f \in Handle : Ptr(g)' = Ptr(f)' /\ Ptr(g)' # Null => g = f
    BY <1>7 DEF IInv, OneBlock
  <2>2. ASSUME NEW x \in DOMAIN heap' PROVE \E g \in Handle : Ptr(g)' = x
    <3>1. PICK g \in Handle : Ptr(g) = x
      BY <1>4 DEF IInv, OneBlock
    <3>2. g # h
      BY <1>3, <1>4, <3>1
    <3> QED BY <1>7, <3>1, <3>2
  <2> QED BY <2>1, <2>2 DEF OneBlock
<1>13. OneElem'
  <2>1. /\ \A i, j \in Alive(h)' : Elems(h)'[i] = Elems(h)'[j] => i = j
        /\ \A i \in Alive(h)' : /\ Elems(h)'[i] \notin held' \cup dropped
                                /\ \A g \in Handle \ {h} : \A j \in Alive(g) :
                                     Elems(h)'[i] # Elems(g)[j]
    BY <1>8
  <2> QED BY <1>1, <1>8, <2>1, ElemsSet DEF IInv
\* The block that goes has no element that is still to be dropped.
<1>14. AllMade'
  <2>1. Alive(h) = {}
    <3>1. Len(Elems(h)) = clearing[h].len /\ clearing[h].next \in Nat
      BY <1>1, Views, Types DEF IInv
    <3> QED BY <1>1, <3>1 DEF Alive
  <2>2. \A x : ~Has(h, x) /\ ~Has(h, x)'
    BY <1>8, <2>1 DEF Has
  <2>3. \A x \in Elem : \A g \in Handle : Has(g, x)' <=> Has(g, x)
    BY <1>8, <2>2, HasSame
  <2> QED BY <1>1, <2>3 DEF IInv, AllMade
<1>15. RefusesOnlyAtLimit'
  BY <1>1 DEF RefusesOnlyAtLimit, NoReply
<1> QED
  BY <1>9, <1>10, <1>11, <1>12, <1>13, <1>14, <1>15 DEF IInv

(***************************************************************************)
(* swap: two idle structs exchange their blocks.                           *)
(***************************************************************************)
\* Renaming the two owners in the invariant before gives the one after.
LEMMA SwapInv ==
  ASSUME IInv, NEW g \in Handle, NEW h \in Handle, Swap(g, h)
  PROVE  IInv'
<1> USE CVecAssumption DEF Shape
<1> DEFINE other(f) == IF f = g THEN h ELSE IF f = h THEN g ELSE f
<1>1. /\ g # h /\ Idle(g) /\ Idle(h) /\ Alloc(g) = Alloc(h) /\ Tracks(g) = Tracks(h)
      /\ reply' = NoReply /\ UNCHANGED <<heap, clearing, held, made, dropped, fits>>
      /\ c' = [c EXCEPT ![g] = c[h], ![h] = c[g]]
  BY DEF Swap
<1>2. \A f \in Handle : /\ other(f) \in Handle /\ c'[f] = c[other(f)]
                        /\ other(other(f)) = f
                        /\ Idle(other(f)) <=> Idle(f)
                        /\ ~Idle(f) => other(f) = f
                        /\ Alloc(other(f)) = Alloc(f) /\ Tracks(other(f)) = Tracks(f)
  BY <1>1 DEF IInv, TypeOK
<1>3. c' \in [Handle -> Fields]
  BY <1>1 DEF IInv, TypeOK
<1>4. \A f, k \in Handle : other(f) = other(k) => f = k
  OBVIOUS
<1> HIDE DEF other
<1>5. \A f \in Handle : Idle(f)' = Idle(f)
  BY <1>1 DEF Idle
<1>6. ASSUME NEW f \in Handle PROVE Ptr(f)' = Ptr(other(f))
  <2>1. CASE Idle(f)
    BY <1>2, <1>5, <2>1 DEF Ptr
  <2>2. CASE ~Idle(f)
    <3>1. other(f) = f /\ c'[f] = c[f] /\ clearing' = clearing
      BY <1>1, <1>2, <2>2
    <3> QED BY <1>5, <2>2, <3>1 DEF Ptr
  <2> QED BY <2>1, <2>2
<1>7. \A f \in Handle : Elems(f)' = Elems(other(f))
  BY <1>1, <1>6 DEF Elems
<1>8. \A f \in Handle : Alive(f)' = Alive(other(f))
  BY <1>1, <1>2, <1>5, <1>7 DEF Alive
<1>9. TypeOK'
  BY <1>1, <1>3 DEF IInv, TypeOK, NoReply
<1>10. HandleValid'
  <2>1. ASSUME NEW f \in Handle PROVE Valid(f)'
    <3>1. Valid(other(f)) /\ c'[f] = c[other(f)]
      BY <1>2 DEF IInv, HandleValid, Valid
    <3>2. Cap(f)' = Cap(other(f)) /\ Alloc(f) = Alloc(other(f))
      BY <1>2 DEF Cap
    <3> QED BY <1>1, <3>1, <3>2 DEF Valid
  <2> QED BY <2>1 DEF HandleValid, Valid
<1>11. ClearValid'
  <2>1. \A f \in Handle : ~Idle(f) => c'[f] = c[f]
    BY <1>2
  <2> QED BY <1>1, <1>5, <2>1 DEF IInv, ClearValid
<1>12. OneBlock'
  BY <1>1, <1>2, <1>4, <1>6 DEF IInv, OneBlock
<1>13. OneElem'
  <2>1. \A f, k \in Handle : \A i \in Alive(f)', j \in Alive(k)' :
          Elems(f)'[i] = Elems(k)'[j] => f = k /\ i = j
    BY <1>2, <1>4, <1>7, <1>8 DEF IInv, OneElem
  <2>2. \A f \in Handle : \A i \in Alive(f)' : Elems(f)'[i] \notin held' \cup dropped'
    BY <1>1, <1>2, <1>7, <1>8 DEF IInv, OneElem
  <2>3. held' \cap dropped' = {}
    BY <1>1 DEF IInv, OneElem
  <2> QED BY <2>1, <2>2, <2>3 DEF OneElem
<1>14. AllMade'
  <2>1. \A x \in Elem : \A f \in Handle : Has(f, x)' <=> Has(other(f), x)
    BY <1>7, <1>8 DEF Has
  <2>2. \A x \in Elem : (\E f \in Handle : Has(f, x)') <=> (\E f \in Handle : Has(f, x))
    BY <1>2, <2>1
  <2> QED BY <1>1, <2>2 DEF IInv, AllMade
<1>15. RefusesOnlyAtLimit'
  BY <1>1 DEF RefusesOnlyAtLimit, NoReply
<1> QED
  BY <1>9, <1>10, <1>11, <1>12, <1>13, <1>14, <1>15 DEF IInv

-----------------------------------------------------------------------------

\* Every step keeps the invariant.
LEMMA NextInv == IInv /\ [Next]_vars => IInv'
<1> SUFFICES ASSUME IInv, [Next]_vars PROVE IInv'
  OBVIOUS
<1>1. ASSUME NEW e \in Elem, NewElem(e) PROVE IInv'
  BY <1>1, NewElemInv
<1>2. ASSUME NEW h \in Handle, NEW p \in FreeBlocks, CGives(h, p) PROVE IInv'
  BY <1>2, CGivesInv
<1>3. ASSUME NEW h \in Handle, NEW e \in Elem, CFills(h, e) \/ PushBack(h, e) PROVE IInv'
  BY <1>3, CFillsInv, PushBackInv
<1>4. ASSUME NEW h \in Handle, ClearBegin(h) \/ ClearDrop(h) \/ ClearFree(h) PROVE IInv'
  BY <1>4, ClearBeginInv, ClearDropInv, ClearFreeInv
<1>5. ASSUME NEW g \in Handle, NEW h \in Handle, Swap(g, h) PROVE IInv'
  BY <1>5, SwapInv
<1>6. CASE UNCHANGED vars
  <2>1. SidesOK'
    BY <1>6 DEF vars, IInv, Shape, TypeOK, SidesOK
  <2>2. Shape' /\ \A h \in Handle : Elems(h)' = Elems(h) /\ Alive(h)' = Alive(h)
    BY <1>6, <2>1, ShapeSame DEF vars, IInv
  <2>3. OneElem'
    BY <1>6, <2>2, ElemsKept DEF vars, IInv, OneElem
  <2>4. AllMade'
    BY <1>6, <2>2, MadeSame DEF vars, IInv
  <2> QED BY <1>6, <2>2, <2>3, <2>4 DEF vars, IInv, RefusesOnlyAtLimit
<1> QED
  BY <1>1, <1>2, <1>3, <1>4, <1>5, <1>6 DEF Next

\* The invariant holds in every state of every run.
THEOREM Invariance == Spec => []IInv
<1> QED BY InitInv, NextInv, PTL DEF Spec

\* Every state is well typed.
THEOREM TypeCorrect == Spec => []TypeOK
<1>1. IInv => TypeOK
  BY DEF IInv, Shape
<1> QED BY <1>1, Invariance, PTL

\* The fields of a struct are valid at every moment, also while a clear runs
\* the drop of an element.
THEOREM StructsValid == Spec => []HandleValid
<1>1. IInv => HandleValid
  BY DEF IInv, Shape
<1> QED BY <1>1, Invariance, PTL

\* A push refuses for a limit only when there is no room for one more.
THEOREM RefusalsJustified == Spec => []RefusesOnlyAtLimit
<1>1. IInv => RefusesOnlyAtLimit
  BY DEF IInv
<1> QED BY <1>1, Invariance, PTL

\* Every element made is in exactly one place: none is lost, by a push that fails
\* or a drop that panics, none is in two places, dropped twice, or used after its
\* drop.
THEOREM ElementOwnership == Spec => []ElementsOnce
<1>1. ASSUME IInv PROVE ElementsOnce
  <2>1. \A h \in Handle :
          /\ InVec(h) = IF Idle(h) THEN {Elems(h)[i] : i \in Alive(h)} ELSE {}
          /\ Doomed(h) = IF Idle(h) THEN {} ELSE {Elems(h)[i] : i \in Alive(h)}
    BY <1>1, Views DEF IInv
  <2>2. \A h \in Handle : InVec(h) \cup Doomed(h) = {Elems(h)[i] : i \in Alive(h)}
    BY <2>1
  <2>3. ASSUME NEW h \in Handle PROVE Distinct(Contents(h)) /\ InVec(h) \cap Doomed(h) = {}
    <3>1. CASE Idle(h)
      <4>1. Contents(h) = Elems(h) /\ DOMAIN Elems(h) = Alive(h)
        BY <1>1, <3>1, Views DEF IInv, Alive
      <4> QED BY <1>1, <2>1, <3>1, <4>1 DEF IInv, OneElem, Distinct
    <3>2. CASE ~Idle(h)
      BY <1>1, <2>1, <3>2, Views DEF IInv, Distinct
    <3> QED BY <3>1, <3>2
  <2>4. \A g, h \in Handle : g # h =>
          (InVec(g) \cup Doomed(g)) \cap (InVec(h) \cup Doomed(h)) = {}
    BY <1>1, <2>2 DEF IInv, OneElem
  <2>5. \A h \in Handle : (InVec(h) \cup Doomed(h)) \cap (held \cup dropped) = {}
    BY <1>1, <2>2 DEF IInv, OneElem
  <2>6. made = held \cup dropped \cup UNION {InVec(h) \cup Doomed(h) : h \in Handle}
    <3>1. \A h \in Handle : \A e : e \in InVec(h) \cup Doomed(h) <=> Has(h, e)
      BY <2>2 DEF Has
    <3>2. \A h \in Handle : \A e : Has(h, e) => e \in Elem
      <4>1. ASSUME NEW h \in Handle, NEW i \in Alive(h) PROVE Elems(h)[i] \in Elem
        <5>1. Elems(h) \in Seq(Elem) /\ (~Idle(h) => clearing[h].next \in Nat)
          BY <1>1, Views, Types DEF IInv, Shape
        <5>2. i \in 1 .. Len(Elems(h))
          BY <5>1 DEF Alive
        <5> QED BY <5>1, <5>2
      <4> QED BY <4>1 DEF Has
    <3>3. made \subseteq Elem /\ held \subseteq Elem /\ dropped \subseteq Elem
      BY <1>1 DEF IInv, Shape, TypeOK
    <3>4. \A e : e \in made <=> (e \in held \cup dropped \/ \E h \in Handle : Has(h, e))
      BY <1>1, <3>2, <3>3 DEF IInv, AllMade
    <3> QED BY <3>1, <3>4
  <2> QED BY <1>1, <2>3, <2>4, <2>5, <2>6 DEF IInv, OneElem, ElementsOnce
<1> QED BY <1>1, Invariance, PTL

\* No block has two owners, and none that is allocated has none.
THEOREM BlockOwnership == Spec => []BlocksOwnedOnce
<1>1. ASSUME IInv PROVE BlocksOwnedOnce
  <2> DEFINE Owners(p) == {<<h, "c">> : h \in {g \in Handle : c[g].ptr = p}}
             \cup {<<h, "clear">> : h \in {g \in Handle : ~Idle(g) /\ clearing[g].ptr = p}}
  <2>1. ASSUME NEW p \in Block, NEW g \in Handle, c[g].ptr = p
        PROVE  Idle(g) /\ Ptr(g) = p /\ p \in DOMAIN heap
    <3>1. Idle(g)
      BY <1>1, <2>1, CVecAssumption DEF IInv, Shape, ClearValid, Reset
    <3> QED BY <1>1, <2>1, <3>1, Views, CVecAssumption DEF IInv, Ptr
  <2>2. ASSUME NEW p \in Block, NEW g \in Handle, ~Idle(g), clearing[g].ptr = p
        PROVE  Ptr(g) = p /\ p \in DOMAIN heap
    BY <1>1, <2>2 DEF IInv, Shape, ClearValid, Ptr
  <2>3. ASSUME NEW p \in Block, p \notin DOMAIN heap
        PROVE  Cardinality(Owners(p)) = 0
    <3>1. Owners(p) = {}
      BY <2>1, <2>2, <2>3
    <3> QED BY <3>1, FS_EmptySet
  <2>4. ASSUME NEW p \in Block, p \in DOMAIN heap
        PROVE  Cardinality(Owners(p)) = 1
    <3>1. PICK h \in Handle : Ptr(h) = p
      BY <1>1, <2>4 DEF IInv, Shape, OneBlock
    <3>2. \A g \in Handle : Ptr(g) = p => g = h
      BY <1>1, <3>1, CVecAssumption DEF IInv, Shape, OneBlock
    <3>3. CASE Idle(h)
      <4>1. {g \in Handle : c[g].ptr = p} = {h}
        BY <2>1, <3>1, <3>2, <3>3 DEF Ptr
      <4>2. {g \in Handle : ~Idle(g) /\ clearing[g].ptr = p} = {}
        BY <2>2, <3>2, <3>3
      <4>3. Owners(p) = {<<h, "c">>}
        BY <4>1, <4>2
      <4> QED BY <4>3, FS_Singleton
    <3>4. CASE ~Idle(h)
      <4>1. {g \in Handle : c[g].ptr = p} = {}
        BY <2>1, <3>2, <3>4
      <4>2. {g \in Handle : ~Idle(g) /\ clearing[g].ptr = p} = {h}
        BY <2>2, <3>1, <3>2, <3>4 DEF Ptr
      <4>3. Owners(p) = {<<h, "clear">>}
        BY <4>1, <4>2
      <4> QED BY <4>3, FS_Singleton
    <3> QED BY <3>3, <3>4
  <2> QED BY <2>3, <2>4 DEF BlocksOwnedOnce
<1> QED BY <1>1, Invariance, PTL

-----------------------------------------------------------------------------
(***************************************************************************)
(* The layouts: the one place where EmptyBlock matters.                    *)
(***************************************************************************)

\* A block that goes to grow or to deallocate goes with its own layout, if the
\* block of a non-null pointer with capacity 0 has one element.
LEMMA FitsStep ==
  ASSUME EmptyBlock = 1, IInv, fits, [Next]_vars
  PROVE  fits'
<1>1. CASE UNCHANGED fits
  BY <1>1
<1>2. ASSUME NEW h \in Handle, NEW e \in Elem, PushBack(h, e), PushGrow(h, e) PROVE fits'
  <2>1. Idle(h) /\ fits' = (fits /\ (c[h].ptr # Null => Fits(h, c[h].ptr, OldLayout(h))))
    BY <1>2 DEF PushBack, PushGrow
  <2>2. ASSUME c[h].ptr # Null PROVE Fits(h, c[h].ptr, OldLayout(h))
    <3>1. /\ c[h].ptr \in DOMAIN heap /\ heap[c[h].ptr].alloc = Alloc(h)
          /\ heap[c[h].ptr].size = IF Cap(h) = 0 THEN 1 ELSE Cap(h)
      BY <2>2 DEF IInv, Shape, HandleValid
    <3>2. OldLayout(h) = IF Cap(h) = 0 THEN 1 ELSE Cap(h)
      BY Types DEF IInv, Shape, OldLayout, Larger
    <3> QED BY <3>1, <3>2 DEF Fits
  <2> QED BY <2>1, <2>2
<1>3. ASSUME NEW h \in Handle, ClearFree(h) PROVE fits'
  <2>1. Fits(h, clearing[h].ptr, clearing[h].layout)
    BY <1>3 DEF ClearFree, IInv, Shape, ClearValid, Fits
  <2> QED BY <1>3, <2>1 DEF ClearFree
<1> QED
  BY <1>1, <1>2, <1>3 DEF Next, vars, NewElem, CGives, CFills, PushBack, PushInPlace, PushErr,
     ClearBegin, ClearDrop, Swap

\* Every block goes back with the layout it was allocated with.
THEOREM LayoutsMatch == EmptyBlock = 1 => (Spec => []LayoutsFit)
<1> SUFFICES ASSUME EmptyBlock = 1 PROVE Spec => []LayoutsFit
  OBVIOUS
<1>1. Init => LayoutsFit
  BY DEF Init, LayoutsFit
<1>2. IInv /\ LayoutsFit /\ [Next]_vars => LayoutsFit'
  BY FitsStep DEF LayoutsFit
<1> QED BY <1>1, <1>2, Invariance, PTL DEF Spec

-----------------------------------------------------------------------------
(***************************************************************************)
(* CVec implements Vec.                                                    *)
(***************************************************************************)

\* What the user of an idle handle sees is what is in its block; while a clear
\* runs it sees nothing.
LEMMA ContentsIs ==
  Shape => \A h \in Handle : Contents(h) = IF Idle(h) THEN Elems(h) ELSE <<>>
BY Views

\* The same of the next state.
LEMMA ContentsNext ==
  (Shape => \A h \in Handle : Contents(h) = IF Idle(h) THEN Elems(h) ELSE <<>>)'
BY ContentsIs, PTL

\* An element not made yet is new to the abstract vectors as well.
LEMMA MadeFresh ==
  ASSUME IInv, NEW e \in Elem, e \notin made
  PROVE  Abstract!Fresh(e)
<1>1. e \notin held /\ \A h \in Handle : \A i \in Alive(h) : Elems(h)[i] # e
  BY MadeMeans
<1>2. ASSUME NEW h \in Handle, NEW i \in DOMAIN Contents(h) PROVE Contents(h)[i] # e
  <2>1. CASE Idle(h)
    <3>1. Contents(h) = Elems(h) /\ Elems(h) \in Seq(Elem) /\ Alive(h) = 1 .. Len(Elems(h))
      BY <2>1, Views DEF IInv, Alive
    <3> QED BY <1>1, <1>2, <3>1
  <2>2. CASE ~Idle(h)
    BY <1>2, <2>2, Views DEF IInv
  <2> QED BY <2>1, <2>2
<1> QED
  BY <1>1, <1>2 DEF Abstract!Fresh

\* A struct that is filled shows its new contents; the others show what they did.
LEMMA FilledContents ==
  ASSUME Shape, NEW h \in Handle, NEW q, NEW n, NEW s, Filled(h, q, n, s), SidesOK'
  PROVE  \A g \in Handle : Contents(g)' = IF g = h THEN s ELSE Contents(g)
<1>1. Idle(h) /\ \A g \in Handle : Idle(g)' = Idle(g)
  BY DEF Filled, Idle
<1>2. /\ Shape' /\ Elems(h)' = s
      /\ \A g \in Handle \ {h} : Elems(g)' = Elems(g)
  BY FilledShape
<1>3. \A g \in Handle : Contents(g)' = IF Idle(g)' THEN Elems(g)' ELSE <<>>
  BY <1>2, ContentsNext
<1> QED
  BY <1>1, <1>2, <1>3, ContentsIs

\* What the user sees is appended to.
LEMMA AppendMaps ==
  ASSUME Shape, NEW h \in Handle, NEW e, NEW q, NEW n,
         Filled(h, q, n, Append(Elems(h), e)), SidesOK'
  PROVE  [g \in Handle |-> Contents(g)]' =
           [[g \in Handle |-> Contents(g)] EXCEPT ![h] = Append(@, e)]
<1>1. Idle(h)
  BY DEF Filled
<1>2. Contents(h) = Elems(h)
  BY <1>1, ContentsIs
<1>3. \A g \in Handle : Contents(g)' = IF g = h THEN Append(Contents(h), e) ELSE Contents(g)
  BY <1>2, FilledContents
<1> QED
  BY <1>3

\* C's buffer is the abstract vector's contents.
LEMMA CGivesMaps ==
  ASSUME IsFiniteSet(Elem), IInv, NEW h \in Handle, NEW p \in FreeBlocks, CGives(h, p)
  PROVE  Abstract!Give(h)
<1>1. PICK s \in NewElems : (\E n : Filled(h, p, n, s)) /\ SidesOK'
  BY CGivesFills
<1>2. c[h].ptr = Null /\ held' = held
  BY DEF CGives
<1>3. s \in Abstract!NewElems
  <2> DEFINE new == {e \in Elem : Abstract!Fresh(e)}
  <2>1. PICK n \in 0 .. Cardinality(Elem \ made) : s \in [1 .. n -> Elem \ made] /\ Distinct(s)
    BY DEF NewElems
  <2>2. Elem \ made \subseteq new
    BY MadeFresh
  <2>3. Cardinality(Elem \ made) \in Nat /\ Cardinality(new) \in Nat
        /\ Cardinality(Elem \ made) <= Cardinality(new)
    <3>1. IsFiniteSet(new)
      BY FS_Subset
    <3> HIDE DEF new
    <3> QED BY <2>2, <3>1, FS_Subset, FS_CardinalityType
  <2>4. n \in 0 .. Cardinality(new)
    <3> HIDE DEF new
    <3> QED BY <2>1, <2>3
  <2>5. Abstract!Distinct(s)
    BY <2>1 DEF Distinct, Abstract!Distinct
  <2>6. s \in [1 .. n -> new]
    <3> HIDE DEF new
    <3> QED BY <2>1, <2>2
  <2>7. s \in {t \in [1 .. n -> new] : Abstract!Distinct(t)}
    BY <2>5, <2>6
  <2>8. Abstract!NewElems =
          UNION {{t \in [1 .. k -> new] : Abstract!Distinct(t)} : k \in 0 .. Cardinality(new)}
    <3>1. \A S : Abstract!Cardinality(S) = Cardinality(S)
      BY DEF Abstract!Cardinality, Cardinality
    <3> QED BY <3>1 DEF Abstract!NewElems
  <2> HIDE DEF new
  <2> QED BY <2>4, <2>7, <2>8
<1>4. \A g \in Handle : Contents(g)' = IF g = h THEN s ELSE Contents(g)
  BY <1>1, FilledContents DEF IInv
<1>5. Contents(h) = <<>>
  BY <1>2 DEF Contents
<1> QED
  BY <1>2, <1>3, <1>4, <1>5 DEF Abstract!Give

\* C's element goes to the end.
LEMMA CFillsMaps ==
  ASSUME IInv, NEW h \in Handle, NEW e \in Elem, CFills(h, e)
  PROVE  Abstract!Fill(h, e)
<1>1. PICK q, n : Filled(h, q, n, Append(Elems(h), e)) /\ SidesOK'
  BY CFillsFills
<1>2. Abstract!Fresh(e) /\ held' = held
  BY MadeFresh DEF CFills
<1> QED
  BY <1>1, <1>2, AppendMaps DEF IInv, Abstract!Fill

\* A push that succeeds is Push; one that fails gives the element back or drops it.
LEMMA PushBackMaps ==
  ASSUME IInv, NEW h \in Handle, NEW e \in Elem, PushBack(h, e)
  PROVE  Abstract!Push(h, e) \/ Abstract!PushFails(e) \/ UNCHANGED Abstract!vars
<1>1. Idle(h) /\ e \in held /\ UNCHANGED <<clearing, made>>
  BY DEF PushBack
<1>2. CASE (PushInPlace(h, e) \/ PushGrow(h, e)) /\ UNCHANGED dropped
  <2>1. PICK q, n : Filled(h, q, n, Append(Elems(h), e))
    BY <1>1, <1>2, PushFills
  <2>2. /\ held' = held \ {e} /\ reply' = [res |-> "Ok", handle |-> h]
        /\ fits' \in BOOLEAN /\ dropped' = dropped
    BY <1>1, <1>2, PushFills
  <2>3. SidesOK'
    BY <1>1, <2>2 DEF IInv, Shape, TypeOK, SidesOK
  <2>4. Abstract!Push(h, e)
    BY <1>1, <2>1, <2>2, <2>3, AppendMaps DEF IInv, Abstract!Push
  <2> QED BY <2>4
<1>3. CASE PushErr(h, e, "Limit") \/ PushErr(h, e, "NoMemory")
  <2>1. \A g \in Handle : Contents(g)' = Contents(g)
    BY <1>3 DEF PushErr, Contents
  <2>2. held' = held \/ held' = held \ {e}
    BY <1>3 DEF PushErr
  <2> QED BY <1>1, <2>1, <2>2 DEF Abstract!PushFails, Abstract!vars
<1> QED
  BY <1>2, <1>3 DEF PushBack

\* The vector is empty from the first step of clear on; freeing the block of a
\* clear takes no contents away from another vector.
LEMMA ClearMaps ==
  ASSUME IInv, IInv', NEW h \in Handle, ClearBegin(h) \/ ClearDrop(h) \/ ClearFree(h)
  PROVE  Abstract!Clear(h) \/ UNCHANGED Abstract!vars
<1>1. held' = held
  BY DEF ClearBegin, ClearDrop, ClearFree
<1>2. CASE ClearBegin(h)
  <2>1. c' = [c EXCEPT ![h] = Reset] /\ heap' = heap
    BY <1>2 DEF ClearBegin
  <2>2. \A g \in Handle : Contents(g)' = IF g = h THEN <<>> ELSE Contents(g)
    BY <2>1 DEF IInv, Shape, TypeOK, Contents, Reset
  <2>3. Abstract!Clear(h)
    BY <1>1, <2>2 DEF Abstract!Clear
  <2> QED BY <2>3
<1>3. CASE ClearDrop(h)
  BY <1>1, <1>3 DEF ClearDrop, Contents, Abstract!vars
<1>4. CASE ClearFree(h)
  <2>1. ~Idle(h) /\ c' = c /\ heap' = Minus(clearing[h].ptr)
    BY <1>4 DEF ClearFree
  <2>2. ASSUME NEW g \in Handle, c[g].ptr # Null
        PROVE  c[g].ptr \in DOMAIN heap /\ c[g].ptr # clearing[h].ptr
    <3>1. Idle(g)
      BY <2>2 DEF IInv, Shape, ClearValid, Reset
    <3>2. Ptr(g) = c[g].ptr /\ Ptr(h) = clearing[h].ptr
      BY <2>1, <3>1 DEF Ptr
    <3> QED BY <2>1, <2>2, <3>1, <3>2 DEF IInv, Shape, OneBlock, HandleValid
  <2>3. \A g \in Handle : Contents(g)' = Contents(g)
    BY <2>1, <2>2 DEF Contents, Minus
  <2> QED BY <1>1, <2>3 DEF Abstract!vars
<1> QED
  BY <1>2, <1>3, <1>4

\* The contents go with the fields.
LEMMA SwapMaps ==
  ASSUME IInv, NEW g \in Handle, NEW h \in Handle, Swap(g, h)
  PROVE  Abstract!Swap(g, h)
<1>1. /\ c' = [c EXCEPT ![g] = c[h], ![h] = c[g]] /\ heap' = heap /\ held' = held /\ g # h
  BY DEF Swap
<1>2. \A f \in Handle : Contents(f)' = IF f = g THEN Contents(h)
                                       ELSE IF f = h THEN Contents(g) ELSE Contents(f)
  BY <1>1 DEF IInv, Shape, TypeOK, Contents
<1> QED
  BY <1>1, <1>2 DEF Abstract!Swap

\* Every step maps to a step of Vec or to a stutter.
LEMMA StepMaps ==
  ASSUME IsFiniteSet(Elem)
  PROVE  IInv /\ IInv' /\ [Next]_vars => [Abstract!Next]_(Abstract!vars)
<1> SUFFICES ASSUME IInv, IInv', [Next]_vars PROVE [Abstract!Next]_(Abstract!vars)
  OBVIOUS
<1>1. CASE UNCHANGED vars
  BY <1>1 DEF vars, Contents, Abstract!vars
<1>2. ASSUME NEW e \in Elem, NewElem(e) PROVE Abstract!NewElem(e)
  <2>1. UNCHANGED <<heap, c>> /\ held' = held \cup {e} /\ Abstract!Fresh(e)
    BY <1>2, MadeFresh DEF NewElem
  <2> QED BY <2>1 DEF Contents, Abstract!NewElem
<1>3. CASE \E h \in Handle : \E p \in FreeBlocks : CGives(h, p)
  BY <1>3, CGivesMaps DEF Abstract!Next
<1>4. CASE \E h \in Handle, e \in Elem : CFills(h, e) \/ PushBack(h, e)
  BY <1>4, CFillsMaps, PushBackMaps DEF Abstract!Next
<1>5. CASE \E h \in Handle : ClearBegin(h) \/ ClearDrop(h) \/ ClearFree(h)
  BY <1>5, ClearMaps DEF Abstract!Next
<1>6. CASE \E g, h \in Handle : Swap(g, h)
  BY <1>6, SwapMaps DEF Abstract!Next
<1> QED
  BY <1>1, <1>2, <1>3, <1>4, <1>5, <1>6 DEF Next, Abstract!Next

\* CVec implements Vec: whatever grow, swap and clear do to blocks and fields,
\* the user has sequences.  (Of an infinite set of elements C could not choose
\* some: NewElems counts them.)
THEOREM Refinement == IsFiniteSet(Elem) => (Spec => ImplementsVec)
<1> SUFFICES ASSUME IsFiniteSet(Elem) PROVE Spec => ImplementsVec
  OBVIOUS
<1>1. Init => Abstract!Init
  <2> SUFFICES ASSUME Init PROVE Abstract!Init
    OBVIOUS
  <2>1. \A h \in Handle : Contents(h) = <<>>
    BY DEF Init, Reset, Contents
  <2> QED
    BY <2>1 DEF Init, Abstract!Init
<1>2. IInv /\ IInv' /\ [Next]_vars => [Abstract!Next]_(Abstract!vars)
  BY StepMaps
<1> QED
  BY <1>1, <1>2, Invariance, PTL DEF Spec, ImplementsVec, Abstract!Spec
=============================================================================
