------------------------ MODULE OpaqueHistoryProofs -------------------------
(***************************************************************************)
(* What a handle means across the whole history of an OpaqueTracker: it is *)
(* given out once, and once it is dead it stays dead.  What a refused call *)
(* says of it.  And that the slots behave as trait Tracker promises, each  *)
(* step of them being a step of Tracker.  All of it follows from the       *)
(* invariant of OpaqueTrackerProofs, step by step.                         *)
(***************************************************************************)
EXTENDS OpaqueTrackerProofs

\* The handle register makes is not null and was never given out.
LEMMA RegisterFresh ==
  ASSUME IInv, NEW b \in Box, Register(b), reply'.res = "Ok"
  PROVE  reply'.key # Null /\ issued[reply'.key] = None
<1>1. CASE RegisterReuse(b)
  <2> DEFINE i == Head(free_indices)
  <2>1. i \in FreeSlots
    BY <1>1, FreeListTail DEF RegisterReuse, IInv
  <2>2. reply'.key = New(i, Slot(i).generation)
    BY <1>1 DEF RegisterReuse, Registered, Answer
  <2> QED BY <2>1, <2>2, FrontSlot
<1>2. CASE RegisterPush(b)
  <2> DEFINE i == Len(entries)
  <2>1. /\ i \in 0 .. MAX_INDEX /\ i \notin Slots
        /\ 1 \in 0 .. MAX_GENERATION /\ 1 \in 1 .. MAX_GENERATION
    BY <1>2, Limits DEF RegisterPush, IInv, TypeOK, Slots
  <2>2. reply'.key = New(i, 1)
    BY <1>2 DEF RegisterPush, Registered, Answer
  <2> HIDE DEF i
  <2>3. New(i, 1) \in Usize /\ Index(New(i, 1)) = i
    BY <2>1, RoundTrip
  <2>4. issued[New(i, 1)] = None
    BY <2>1, <2>3 DEF IInv, IssuedBounded
  <2> QED BY <2>1, <2>2, <2>4, IssuedNotNull
<1>3. CASE RegisterFull(b)
  BY <1>3 DEF RegisterFull, Answer
<1> QED
  BY <1>1, <1>2, <1>3 DEF Register

\* No handle is given out twice, and null never.
THEOREM NeverReissued == Spec => HandlesNeverReissued
<1>1. IInv /\ [Next]_vars =>
        [\A b \in Box : Register(b) /\ reply'.res = "Ok"
           => reply'.key # Null /\ issued[reply'.key] = None]_vars
  BY RegisterFresh
<1> QED
  BY <1>1, Invariance, PTL DEF Spec, HandlesNeverReissued

-----------------------------------------------------------------------------

\* A slot that comes to have an object, or a new guard, makes one handle live.
\* A dead handle that was given out is not that one.
LEMMA DeadAfterRegister ==
  ASSUME IInv, NEW b \in Box, Register(b),
         NEW key \in Usize, issued[key] # None, ~Live(key)
  PROVE  ~Live(key)'
<1>1. ~Guarded(key)' /\ guards' = guards /\ forgotten' = forgotten
  BY DEF Live, Guarded, Register, RegisterReuse, RegisterPush, RegisterFull, Registered
<1>2. CASE RegisterReuse(b)
  <2> DEFINE i == Head(free_indices)
             id == New(i, Slot(i).generation)
  <2>1. i \in FreeSlots /\ entries' = [entries EXCEPT ![i + 1].value = b]
    BY <1>2, FreeListTail DEF RegisterReuse, IInv
  <2>2. /\ i \in Slots /\ id \in Usize /\ issued[id] = None
        /\ Index(id) = i /\ Generation(id) = Slot(i).generation
    BY <2>1, FrontSlot
  <2> HIDE DEF i, id
  <2>3. /\ Slots' = Slots
        /\ \A j \in Slots : /\ Slot(j)'.value = IF j = i THEN b ELSE Slot(j).value
                            /\ Slot(j)'.generation = Slot(j).generation
    BY <2>1, <2>2, ValueSet, ZenonT(30) DEF IInv, TypeOK
  <2>4. CASE Index(key) = i
    <3>1. Generation(key) # Slot(i).generation
      BY <2>2, <2>4, HalvesDetermine
    <3> QED BY <1>1, <2>2, <2>3, <2>4, <3>1 DEF Live, Resolves, Current
  <2>5. CASE Index(key) # i
    BY <1>1, <2>3, <2>5 DEF Live, Resolves, Current
  <2> QED BY <2>4, <2>5
<1>3. CASE RegisterPush(b)
  <2> DEFINE e == [value |-> b, generation |-> 1]
  <2>1. Index(key) \in Slots
    BY DEF IInv, IssuedBounded
  <2>2. \A j \in Slots : Slot(j)' = Slot(j)
    <3>1. entries' = Append(entries, e) /\ e \in Entry
      BY <1>3, Limits DEF RegisterPush, Entry
    <3> HIDE DEF e
    <3>2. \A n \in 1 .. Len(entries) : entries'[n] = entries[n]
      BY <3>1 DEF IInv, TypeOK
    <3>3. \A j \in Slots : j + 1 \in 1 .. Len(entries)
      BY DEF Slots, IInv, TypeOK
    <3> QED BY <3>2, <3>3 DEF Slot
  <2> QED BY <1>1, <2>1, <2>2 DEF Live, Resolves, Current
<1>4. CASE RegisterFull(b)
  BY <1>1, <1>4 DEF RegisterFull, Live, Resolves, Current, Slots, Slot
<1> QED
  BY <1>2, <1>3, <1>4 DEF Register

\* reclaim empties one slot and makes no guard.
LEMMA DeadAfterReclaim ==
  ASSUME IInv, NEW k \in Usize, Reclaim(k), NEW key \in Usize, ~Live(key)
  PROVE  ~Live(key)'
<1>1. ~Guarded(key)'
  BY DEF Live, Guarded, Reclaim, Reclaimed, Refuse
<1>2. CASE Refuse("reclaim", k)
  BY <1>1, <1>2 DEF Refuse, Live, Resolves, Current, Slots, Slot
<1>3. CASE ~Refuse("reclaim", k)
  <2>1. PICK generation \in {Generation(k), Generation(k) + 1} :
          /\ Resolves(k)
          /\ entries' = [entries EXCEPT ![Index(k) + 1] =
                           [value |-> None, generation |-> generation]]
          /\ generation \in 1 .. MAX_GENERATION
    <3>1. Resolves(k)
      BY <1>3 DEF Reclaim, Reclaimed
    <3>2. Generation(k) \in 1 .. MAX_GENERATION /\ MAX_GENERATION \in Nat
      BY <3>1, ResolvedSlot, Limits
    <3> QED BY <1>3, <3>1, <3>2 DEF Reclaim, Reclaimed
  <2> DEFINE e == [value |-> None, generation |-> generation]
  <2>2. Index(k) \in Slots /\ e \in Entry /\ e.value = None
    BY <2>1, ResolvedSlot DEF Entry
  <2> HIDE DEF e
  <2>3. /\ Slots' = Slots
        /\ \A j \in Slots : Slot(j)' = IF j = Index(k) THEN e ELSE Slot(j)
    BY <2>1, <2>2, SlotUpdated DEF IInv, TypeOK, e
  <2> QED BY <1>1, <2>2, <2>3 DEF Live, Resolves, Current
<1> QED
  BY <1>2, <1>3

\* borrow_mut empties a slot for a guard of a handle that was live already.
LEMMA DeadAfterBorrow ==
  ASSUME IInv, NEW k \in Usize, BorrowMut(k), NEW key \in Usize, ~Live(key)
  PROVE  ~Live(key)'
<1>1. CASE Refuse("borrow_mut", k)
  BY <1>1 DEF Refuse, Live, Guarded, Resolves, Current, Slots, Slot
<1>2. CASE ~Refuse("borrow_mut", k)
  <2> DEFINE g == [key |-> k, val |-> Slot(Index(k)).value]
  <2>1. /\ Resolves(k)
        /\ entries' = [entries EXCEPT ![Index(k) + 1].value = None]
        /\ guards' = guards \cup {g} /\ forgotten' = forgotten
    BY <1>2 DEF BorrowMut
  <2>2. Index(k) \in Slots /\ g.key = k
    BY <2>1, ResolvedSlot
  <2>3. k # key
    BY <2>1 DEF Live
  <2> HIDE DEF g
  <2>4. ~Guarded(key)'
    BY <2>1, <2>2, <2>3 DEF Live, Guarded
  <2>5. /\ Slots' = Slots
        /\ \A j \in Slots :
             /\ Slot(j)'.value = IF j = Index(k) THEN None ELSE Slot(j).value
             /\ Slot(j)'.generation = Slot(j).generation
    BY <2>1, <2>2, ValueSet DEF IInv, TypeOK
  <2> QED BY <2>4, <2>5 DEF Live, Resolves, Current
<1> QED
  BY <1>1, <1>2

\* The end of a guard: its handle was live, and a slot has one live handle.
LEMMA DeadAfterGuard ==
  ASSUME IInv, NEW g \in guards, TrackedDrop(g) \/ ForgetGuard(g),
         NEW key \in Usize, ~Live(key)
  PROVE  ~Live(key)'
<1>1. CASE TrackedDrop(g)
  <2>1. /\ guards' = guards \ {g} /\ forgotten' = forgotten
        /\ entries' = [entries EXCEPT ![Index(g.key) + 1].value = g.val]
    BY <1>1 DEF TrackedDrop, ReturnMut
  <2>2. /\ g.key \in Usize /\ g.val \in Box
        /\ Index(g.key) \in Slots
        /\ Slot(Index(g.key)).generation = Generation(g.key)
    BY GuardSlot DEF Out
  <2>3. /\ Slots' = Slots
        /\ \A j \in Slots :
             /\ Slot(j)'.value = IF j = Index(g.key) THEN g.val ELSE Slot(j).value
             /\ Slot(j)'.generation = Slot(j).generation
    BY <2>1, <2>2, ValueSet DEF IInv, TypeOK
  <2>4. key # g.key /\ ~Guarded(key)'
    BY <2>1 DEF Live, Guarded
  <2>5. CASE Index(key) = Index(g.key)
    <3>1. Generation(key) # Generation(g.key)
      BY <2>2, <2>4, <2>5, HalvesDetermine
    <3> QED BY <2>2, <2>3, <2>4, <2>5, <3>1 DEF Live, Resolves, Current
  <2>6. CASE Index(key) # Index(g.key)
    BY <2>3, <2>4, <2>6 DEF Live, Resolves, Current
  <2> QED BY <2>5, <2>6
<1>2. CASE ForgetGuard(g)
  BY <1>2 DEF ForgetGuard, Live, Guarded, Resolves, Current, Slots, Slot
<1> QED
  BY <1>1, <1>2

\* No step brings a dead handle back.
LEMMA DeadStep ==
  ASSUME IInv, [Next]_vars, NEW key \in Usize, issued[key] # None, ~Live(key)
  PROVE  ~Live(key)'
<1>1. ASSUME NEW b \in Box, NewBox(b) \/ DropBox(b) PROVE ~Live(key)'
  BY <1>1 DEF NewBox, DropBox, Live, Guarded, Resolves, Current, Slots, Slot
<1>2. ASSUME NEW b \in Box, Register(b) PROVE ~Live(key)'
  BY <1>2, DeadAfterRegister
<1>3. ASSUME NEW k \in Usize, Reclaim(k) PROVE ~Live(key)'
  BY <1>3, DeadAfterReclaim
<1>4. ASSUME NEW k \in Usize, BorrowMut(k) PROVE ~Live(key)'
  BY <1>4, DeadAfterBorrow
<1>5. ASSUME NEW g \in guards, TrackedDrop(g) \/ ForgetGuard(g) PROVE ~Live(key)'
  BY <1>5, DeadAfterGuard
<1>6. CASE UNCHANGED vars
  BY <1>6 DEF vars, Live, Guarded, Resolves, Current, Slots, Slot
<1> QED
  BY <1>1, <1>2, <1>3, <1>4, <1>5, <1>6 DEF Next

\* A handle whose object was reclaimed never resolves again.
THEOREM DeadForever == Spec => DeadStaysDead
<1>1. IInv /\ [Next]_vars =>
        [\A key \in Usize : issued[key] # None /\ ~Live(key) => ~Live(key)']_vars
  BY DeadStep
<1> QED
  BY <1>1, Invariance, PTL DEF Spec, DeadStaysDead
-----------------------------------------------------------------------------

\* A guard on the slot of a current handle has that handle as its key.
LEMMA GuardOfSlot ==
  ASSUME IInv, NEW g \in Out, NEW key \in Usize, Current(key), Index(g.key) = Index(key)
  PROVE  g.key = key
<1>1. g.key \in Usize
  BY DEF IInv, TypeOK, Guard, Out
<1>2. Generation(g.key) = Generation(key)
  BY DEF IInv, GuardsPinned, Current, Out
<1> QED
  BY <1>1, <1>2, HalvesDetermine

\* A refusal is right about the handle it was asked for.
LEMMA RefusalExact ==
  ASSUME IInv, NEW key \in Usize, NEW op, Refuse(op, key)
  PROVE  ErrorKind'
<1>1. reply'.key = key /\ reply'.res = Refusal(key)
  BY DEF Refuse, Answer
<1>2. /\ Live(key)' = Live(key) /\ Guarded(key)' = Guarded(key)
      /\ Retired(Index(key))' = Retired(Index(key)) /\ issued' = issued
  BY DEF Refuse, Live, Guarded, Resolves, Current, Retired, FreeSlots, Slots, Slot
<1>3. CASE ~Current(key)
  <2>1. ~Guarded(key)
    BY <1>3 DEF Guarded, IInv, GuardsPinned, Current
  <2>2. ~Live(key)
    BY <1>3, <2>1 DEF Live, Resolves
  <2> QED
    BY <1>1, <1>2, <1>3, <2>2 DEF Refusal, ErrorKind
<1>4. CASE Current(key)
  <2>1. Slot(Index(key)).value = None
    BY <1>4 DEF Refuse, Resolves
  <2>2. ASSUME Index(key) \in FreeSlots
        PROVE  issued[key] = None
    <3>1. /\ Generation(key) = Slot(Index(key)).generation
          /\ issued[New(Index(key), Slot(Index(key)).generation)] = None
      BY <1>4, <2>2 DEF Current, IInv, FreeListSound
    <3>2. /\ Index(key) \in 0 .. MAX_INDEX /\ Generation(key) \in 0 .. MAX_GENERATION
      BY HalvesOfWord
    <3>3. New(Index(key), Generation(key)) = key
      BY <3>2, RoundTrip, HalvesDetermine
    <3> QED
      BY <3>1, <3>3
  <2>3. ASSUME NEW g \in Out, Index(g.key) = Index(key)
        PROVE  Guarded(key)
    BY <1>4, <2>3, GuardOfSlot DEF Guarded, Out
  <2>4. Guarded(key) \/ Retired(Index(key)) \/ issued[key] = None
    BY <2>1, <2>2, <2>3 DEF Retired, Out
  <2> QED
    BY <1>1, <1>2, <1>4, <2>4 DEF Refusal, ErrorKind
<1> QED
  BY <1>3, <1>4

\* Every step answers with the right error, or with none.
LEMMA ErrorStep == IInv /\ ErrorKind /\ [Next]_vars => ErrorKind'
<1> SUFFICES ASSUME IInv, ErrorKind, [Next]_vars PROVE ErrorKind'
  OBVIOUS
<1>1. ASSUME NEW b \in Box, NewBox(b) \/ DropBox(b) \/ Register(b) PROVE ErrorKind'
  BY <1>1 DEF NewBox, DropBox, Register, RegisterReuse, RegisterPush, RegisterFull,
     Registered, NoReply, Answer, ErrorKind
<1>2. ASSUME NEW key \in Usize, Reclaim(key) PROVE ErrorKind'
  <2>1. CASE Refuse("reclaim", key)
    BY <2>1, RefusalExact
  <2>2. CASE ~Refuse("reclaim", key)
    BY <1>2, <2>2 DEF Reclaim, Reclaimed, Answer, ErrorKind
  <2> QED
    BY <2>1, <2>2
<1>3. ASSUME NEW key \in Usize, BorrowMut(key) PROVE ErrorKind'
  <2>1. CASE Refuse("borrow_mut", key)
    BY <2>1, RefusalExact
  <2>2. CASE ~Refuse("borrow_mut", key)
    BY <1>3, <2>2 DEF BorrowMut, Answer, ErrorKind
  <2> QED
    BY <2>1, <2>2
<1>4. ASSUME NEW g \in guards, TrackedDrop(g) \/ ForgetGuard(g) PROVE ErrorKind'
  BY <1>4 DEF TrackedDrop, ForgetGuard, NoReply, ErrorKind
<1>5. CASE UNCHANGED vars
  BY <1>5 DEF vars, ErrorKind, Live, Guarded, Resolves, Current, Retired, FreeSlots,
     Slots, Slot
<1> QED
  BY <1>1, <1>2, <1>3, <1>4, <1>5 DEF Next

\* NotFound is said of a dead handle only, AlreadyBorrowedMutably of one with a
\* guard, or of one that no slot can be reached by.
THEOREM ErrorsExact == Spec => []ErrorKind
<1>1. Init => ErrorKind
  BY DEF Init, NoReply, ErrorKind
<1> QED
  BY <1>1, ErrorStep, Invariance, PTL DEF Spec

-----------------------------------------------------------------------------

\* A slot that is not on the free list has an object, or a guard that does, or
\* has given out its last generation.
LEMMA SlotTaken ==
  ASSUME IInv, NEW i \in Slots, i \notin FreeSlots
  PROVE  \/ \E generation \in 1 .. MAX_GENERATION : Live(New(i, generation))
         \/ issued[New(i, MAX_GENERATION)] # None
<1> DEFINE n == Slot(i).generation
<1>1. /\ i \in 0 .. MAX_INDEX /\ n \in 1 .. MAX_GENERATION /\ n \in 0 .. MAX_GENERATION
  BY SlotRange DEF IInv
<1>2. New(i, n) \in Usize /\ Index(New(i, n)) = i /\ Generation(New(i, n)) = n
  BY <1>1, RoundTrip
<1>3. Current(New(i, n))
  BY <1>2 DEF Current
<1>4. CASE Slot(i).value # None
  BY <1>1, <1>2, <1>3, <1>4 DEF Live, Resolves
<1>5. CASE \E g \in Out : Index(g.key) = i
  <2>1. PICK g \in Out : Index(g.key) = i
    BY <1>5
  <2>2. g.key = New(i, n)
    BY <1>2, <1>3, <2>1, GuardOfSlot
  <2> QED
    BY <1>1, <2>2 DEF Live, Guarded, Out
<1>6. CASE Slot(i).value = None /\ ~\E g \in Out : Index(g.key) = i
  BY <1>6 DEF IInv, NoSlotLost, Retired, Out
<1> QED
  BY <1>4, <1>5, <1>6

\* register gives up only when every index there can be is taken or retired.
LEMMA FullStep ==
  ASSUME IInv, NEW b \in Box, Register(b), reply'.res = "CapacityExceeded",
         NEW i \in 0 .. MAX_INDEX
  PROVE  \/ \E generation \in 1 .. MAX_GENERATION : Live(New(i, generation))
         \/ issued[New(i, MAX_GENERATION)] # None
<1>1. RegisterFull(b)
  BY DEF Register, RegisterReuse, RegisterPush, Registered, Answer
<1>2. i \in Slots /\ i \notin FreeSlots
  BY <1>1, Limits DEF RegisterFull, FreeSlots, Slots, IInv, TypeOK
<1> QED
  BY <1>2, SlotTaken

\* register fails only at capacity.
THEOREM CapacityUsed == Spec => CapacityExceededOnlyAtCapacity
<1>1. IInv /\ [Next]_vars =>
        [\A b \in Box : Register(b) /\ reply'.res = "CapacityExceeded"
           => \A i \in 0 .. MAX_INDEX :
                \/ \E generation \in 1 .. MAX_GENERATION : Live(New(i, generation))
                \/ issued[New(i, MAX_GENERATION)] # None]_vars
  BY FullStep
<1> QED
  BY <1>1, Invariance, PTL DEF Spec, CapacityExceededOnlyAtCapacity

-----------------------------------------------------------------------------
(***************************************************************************)
(* The refinement: which handles are live after each call.                 *)
(***************************************************************************)

\* A live handle was given out, for the object it has now.
LEMMA LiveIssued ==
  ASSUME IInv, NEW key \in Usize, Live(key)
  PROVE  /\ issued[key] \in Box /\ issued[key] # None
         /\ Resolves(key) => issued[key] = Slot(Index(key)).value
<1>1. CASE Resolves(key)
  BY <1>1, ResolvedSlot, NoneAssumption
<1>2. CASE Guarded(key) /\ ~Resolves(key)
  BY <1>2, GuardSlot DEF Guarded, Out
<1> QED
  BY <1>1, <1>2 DEF Live

\* A handle that resolves has no guard.
LEMMA ResolvesUnguarded ==
  ASSUME IInv, NEW key \in Usize, Resolves(key)
  PROVE  ~Guarded(key)
BY ResolvedSlot DEF Guarded, Out

\* The handle register gives out was not live, is live, and no other changes.
LEMMA RegisterLive ==
  ASSUME IInv, NEW b \in Box, RegisterReuse(b) \/ RegisterPush(b)
  PROVE  \E id \in Usize :
           /\ issued[id] = None /\ ~Live(id) /\ Live(id)'
           /\ \A key \in Usize \ {id} : Live(key)' <=> Live(key)
           /\ Registered(b, id)
<1>1. \A key \in Usize : Guarded(key)' <=> Guarded(key)
  BY DEF RegisterReuse, RegisterPush, Registered, Guarded
<1>0. b # None
  BY NoneAssumption
<1>2. CASE RegisterReuse(b)
  <2>1. PICK i \in FreeSlots :
           /\ entries' = [entries EXCEPT ![i + 1].value = b]
           /\ Registered(b, New(i, Slot(i).generation))
    BY <1>2, FreeListTail DEF RegisterReuse, IInv
  <2>2. PICK id \in Usize :
           /\ id = New(i, Slot(i).generation)
           /\ i \in Slots /\ issued[id] = None /\ Slot(i).value = None
           /\ Index(id) = i /\ Generation(id) = Slot(i).generation
    BY <2>1, FrontSlot
  <2>3. /\ Slots' = Slots
        /\ \A j \in Slots : /\ Slot(j)'.value = IF j = i THEN b ELSE Slot(j).value
                            /\ Slot(j)'.generation = Slot(j).generation
    BY <2>1, <2>2, ValueSet DEF IInv, TypeOK
  <2>4. ~Live(id)
    BY <2>2, LiveIssued
  <2>5. Live(id)'
    BY <1>0, <2>2, <2>3 DEF Live, Resolves, Current
  <2>6. ASSUME NEW key \in Usize \ {id} PROVE Live(key)' <=> Live(key)
    <3>1. CASE Index(key) = i
      <4>1. Generation(key) # Slot(i).generation
        BY <2>2, <3>1, HalvesDetermine
      <4> QED BY <1>1, <2>2, <2>3, <3>1, <4>1 DEF Live, Resolves, Current
    <3>2. CASE Index(key) # i
      BY <1>1, <2>3, <3>2 DEF Live, Resolves, Current
    <3> QED BY <3>1, <3>2
  <2> QED BY <2>1, <2>2, <2>4, <2>5, <2>6
<1>3. CASE RegisterPush(b)
  <2> DEFINE e == [value |-> b, generation |-> 1]
  <2>1. PICK i \in 0 .. MAX_INDEX : i = Len(entries) /\ i \notin Slots
    BY <1>3, Limits DEF RegisterPush, IInv, TypeOK, Slots
  <2>a. 1 \in 0 .. MAX_GENERATION /\ 1 \in 1 .. MAX_GENERATION
    BY Limits
  <2>2. PICK id \in Usize : id = New(i, 1) /\ Index(id) = i /\ Generation(id) = 1
    BY <2>a, RoundTrip
  <2>3. entries' = Append(entries, e) /\ e.value = b /\ e.generation = 1 /\ Registered(b, id)
    BY <1>3, <2>1, <2>2 DEF RegisterPush
  <2> HIDE DEF e
  <2>4. /\ Slots' = Slots \cup {i} /\ Slot(i)' = e
        /\ \A j \in Slots : Slot(j)' = Slot(j)
    <3>1. /\ Len(entries) \in Nat /\ Len(entries') = Len(entries) + 1
          /\ \A n \in 1 .. Len(entries) : entries'[n] = entries[n]
          /\ entries'[Len(entries) + 1] = e
      BY <2>3 DEF IInv, TypeOK
    <3>2. \A j \in Slots : j + 1 \in 1 .. Len(entries)
      BY <3>1 DEF Slots
    <3> QED BY <2>1, <3>1, <3>2 DEF Slot, Slots
  <2>5. issued[id] = None
    BY <2>1, <2>2 DEF IInv, IssuedBounded
  <2>6. ~Live(id)
    BY <2>2, <2>5, LiveIssued
  <2>7. Live(id)'
    BY <1>0, <2>2, <2>3, <2>4 DEF Live, Resolves, Current
  <2>8. ASSUME NEW key \in Usize \ {id} PROVE Live(key)' <=> Live(key)
    <3>1. CASE Index(key) = i
      <4>1. Generation(key) # 1
        BY <2>2, <3>1, HalvesDetermine
      <4> QED BY <1>1, <2>1, <2>3, <2>4, <3>1, <4>1 DEF Live, Resolves, Current
    <3>2. CASE Index(key) # i
      BY <1>1, <2>4, <3>2 DEF Live, Resolves, Current
    <3> QED BY <3>1, <3>2
  <2> QED BY <2>2, <2>3, <2>5, <2>6, <2>7, <2>8
<1> QED
  BY <1>2, <1>3

\* reclaim makes its handle dead, and no other.
LEMMA ReclaimLive ==
  ASSUME IInv, NEW key \in Usize, Reclaim(key), ~Refuse("reclaim", key)
  PROVE  /\ Resolves(key) /\ ~Live(key)'
         /\ \A k \in Usize \ {key} : Live(k)' <=> Live(k)
<1>1. PICK generation \in {Generation(key), Generation(key) + 1} :
        /\ Resolves(key)
        /\ entries' = [entries EXCEPT ![Index(key) + 1] =
                         [value |-> None, generation |-> generation]]
        /\ generation \in 1 .. MAX_GENERATION
  <2>1. Resolves(key)
    BY DEF Reclaim, Reclaimed
  <2>2. Generation(key) \in 1 .. MAX_GENERATION /\ MAX_GENERATION \in Nat
    BY <2>1, ResolvedSlot, Limits
  <2> QED BY <2>1, <2>2 DEF Reclaim, Reclaimed
<1> DEFINE e == [value |-> None, generation |-> generation]
<1>2. /\ Index(key) \in Slots /\ Slot(Index(key)).generation = Generation(key)
      /\ e \in Entry /\ e.value = None
  BY <1>1, ResolvedSlot DEF Entry
<1> HIDE DEF e
<1>3. /\ Slots' = Slots
      /\ \A j \in Slots : Slot(j)' = IF j = Index(key) THEN e ELSE Slot(j)
  BY <1>1, <1>2, SlotUpdated DEF IInv, TypeOK, e
<1>4. \A k \in Usize : Guarded(k)' <=> Guarded(k)
  BY DEF Reclaim, Reclaimed, Guarded
<1>5. ~Live(key)'
  BY <1>1, <1>2, <1>3, <1>4, ResolvesUnguarded DEF Live, Resolves, Current
<1>6. ASSUME NEW k \in Usize \ {key} PROVE Live(k)' <=> Live(k)
  <2>1. CASE Index(k) = Index(key)
    <3>1. Generation(k) # Generation(key)
      BY <2>1, HalvesDetermine
    <3> QED BY <1>2, <1>3, <1>4, <2>1, <3>1 DEF Live, Resolves, Current
  <2>2. CASE Index(k) # Index(key)
    BY <1>3, <1>4, <2>2 DEF Live, Resolves, Current
  <2> QED BY <2>1, <2>2
<1> QED
  BY <1>1, <1>5, <1>6

\* A loan changes who has the object of its handle, and no handle's life.
LEMMA BorrowLive ==
  ASSUME IInv, NEW key \in Usize, BorrowMut(key), ~Refuse("borrow_mut", key)
  PROVE  /\ Resolves(key)
         /\ \A k \in Usize : Live(k)' <=> Live(k)
         /\ \A k \in Usize : Guarded(k)' <=> Guarded(k) \/ k = key
<1> DEFINE g == [key |-> key, val |-> Slot(Index(key)).value]
<1>1. /\ Resolves(key)
      /\ entries' = [entries EXCEPT ![Index(key) + 1].value = None]
      /\ guards' = guards \cup {g} /\ forgotten' = forgotten
  BY DEF BorrowMut
<1>2. Index(key) \in Slots /\ Slot(Index(key)).generation = Generation(key) /\ g.key = key
  BY <1>1, ResolvedSlot
<1> HIDE DEF g
<1>3. \A k \in Usize : Guarded(k)' <=> Guarded(k) \/ k = key
  BY <1>1, <1>2 DEF Guarded
<1>4. /\ Slots' = Slots
      /\ \A j \in Slots :
           /\ Slot(j)'.value = IF j = Index(key) THEN None ELSE Slot(j).value
           /\ Slot(j)'.generation = Slot(j).generation
  BY <1>1, <1>2, ValueSet DEF IInv, TypeOK
<1>5. ASSUME NEW k \in Usize PROVE Live(k)' <=> Live(k)
  <2>1. CASE k = key
    BY <1>1, <1>3, <2>1 DEF Live
  <2>2. CASE k # key /\ Index(k) = Index(key)
    <3>1. Generation(k) # Generation(key)
      BY <2>2, HalvesDetermine
    <3> QED BY <1>2, <1>3, <1>4, <2>2, <3>1 DEF Live, Resolves, Current
  <2>3. CASE k # key /\ Index(k) # Index(key)
    BY <1>3, <1>4, <2>3 DEF Live, Resolves, Current
  <2> QED BY <2>1, <2>2, <2>3
<1> QED
  BY <1>1, <1>3, <1>5

\* So does the end of a guard.
LEMMA ReturnLive ==
  ASSUME IInv, NEW g \in guards, TrackedDrop(g)
  PROVE  /\ \A k \in Usize : Live(k)' <=> Live(k)
         /\ \A k \in Usize : Guarded(k)' <=> Guarded(k) /\ k # g.key
<1>1. /\ guards' = guards \ {g} /\ forgotten' = forgotten
      /\ entries' = [entries EXCEPT ![Index(g.key) + 1].value = g.val]
  BY DEF TrackedDrop, ReturnMut
<1>2. /\ g \in Out /\ g.key \in Usize /\ g.val \in Box /\ g.val # None
      /\ Index(g.key) \in Slots
      /\ Slot(Index(g.key)).generation = Generation(g.key)
      /\ Slot(Index(g.key)).value = None
  BY GuardSlot DEF Out
<1>3. \A k \in Usize : Guarded(k)' <=> Guarded(k) /\ k # g.key
  <2>1. g \notin forgotten /\ \A h \in guards \cup forgotten : h.key = g.key => h = g
    BY <1>2 DEF IInv, UniqueOwner, GuardsPinned, Out
  <2> QED BY <1>1, <2>1 DEF Guarded
<1>4. /\ Slots' = Slots
      /\ \A j \in Slots :
           /\ Slot(j)'.value = IF j = Index(g.key) THEN g.val ELSE Slot(j).value
           /\ Slot(j)'.generation = Slot(j).generation
  BY <1>1, <1>2, ValueSet DEF IInv, TypeOK
<1>5. ASSUME NEW k \in Usize PROVE Live(k)' <=> Live(k)
  <2>1. CASE k = g.key
    <3>1. Live(k)
      BY <2>1 DEF Live, Guarded
    <3>2. Live(k)'
      BY <1>2, <1>4, <2>1 DEF Live, Resolves, Current
    <3> QED BY <3>1, <3>2
  <2>2. CASE k # g.key /\ Index(k) = Index(g.key)
    <3>1. Generation(k) # Generation(g.key)
      BY <1>2, <2>2, HalvesDetermine
    <3> QED BY <1>2, <1>3, <1>4, <2>2, <3>1 DEF Live, Resolves, Current
  <2>3. CASE k # g.key /\ Index(k) # Index(g.key)
    BY <1>3, <1>4, <2>3 DEF Live, Resolves, Current
  <2> QED BY <2>1, <2>2, <2>3
<1> QED
  BY <1>3, <1>5

\* The same handles live and given out, the same map from keys to objects.
LEMMA BarsSame ==
  ASSUME UNCHANGED issued, \A k \in Usize : Live(k)' <=> Live(k)
  PROVE  liveBar' = liveBar /\ usedBar' = usedBar
BY DEF liveBar, usedBar

\* The objects of the abstract tracker are those of the slots and guards.
LEMMA RegisteredBar ==
  ASSUME IInv
  PROVE  Abstract!Registered \subseteq InSlots \cup InGuards
<1>1. ASSUME NEW key \in Usize, liveBar[key] # None
      PROVE  liveBar[key] \in InSlots \cup InGuards
  <2>1. Live(key) /\ liveBar[key] = issued[key]
    BY <1>1 DEF liveBar
  <2>2. CASE Resolves(key)
    BY <1>1, <2>1, <2>2, ResolvedSlot DEF InSlots
  <2>3. CASE Guarded(key)
    BY <2>1, <2>3, GuardSlot DEF Guarded, Out, InGuards
  <2> QED
    BY <2>1, <2>2, <2>3 DEF Live
<1> QED
  BY <1>1 DEF Abstract!Registered

\* The caller's steps are the abstract caller's.
LEMMA CallerMaps ==
  ASSUME IInv, NEW b \in Box, NewBox(b) \/ DropBox(b)
  PROVE  Abstract!NewBox(b) \/ Abstract!DropBox(b)
<1>1. UNCHANGED <<entries, guards, forgotten, issued>> /\ reply' = NoReply
  BY DEF NewBox, DropBox
<1>2. liveBar' = liveBar /\ borrowedBar' = borrowedBar /\ usedBar' = usedBar
  BY <1>1 DEF liveBar, borrowedBar, usedBar, Live, Resolves, Current, Guarded, Slots, Slot
<1>3. replyBar' = Abstract!NoReply
  BY <1>1 DEF replyBar, NoReply, Abstract!NoReply
<1>4. CASE NewBox(b)
  <2>1. b \notin held \cup Abstract!Registered
    BY <1>4, RegisteredBar DEF NewBox
  <2> QED
    BY <1>2, <1>3, <1>4, <2>1 DEF NewBox, Abstract!NewBox
<1>5. CASE DropBox(b)
  BY <1>2, <1>3, <1>5 DEF DropBox, Abstract!DropBox
<1> QED
  BY <1>4, <1>5

\* register gives its object a key never used, or drops it.
LEMMA RegisterMaps ==
  ASSUME IInv, NEW b \in Box, Register(b)
  PROVE  Abstract!RegisterFails(b) \/ \E k \in Usize : Abstract!Register(b, k)
<1>1. b \in held /\ held' = held \ {b} /\ UNCHANGED <<guards, forgotten>> /\ b # None
  BY NoneAssumption DEF Register, RegisterReuse, RegisterPush, RegisterFull, Registered
<1>2. borrowedBar' = borrowedBar
  BY <1>1 DEF borrowedBar, Guarded
<1>3. CASE RegisterFull(b)
  <2>1. UNCHANGED <<entries, guards, forgotten, issued>>
        /\ reply' = Answer("register", None, "CapacityExceeded", None)
    BY <1>3 DEF RegisterFull
  <2>2. liveBar' = liveBar /\ usedBar' = usedBar
    BY <2>1 DEF liveBar, usedBar, Live, Resolves, Current, Guarded, Slots, Slot
  <2>3. replyBar' = Abstract!Answer("register", None, FALSE, None)
    BY <2>1 DEF replyBar, Answer, Abstract!Answer
  <2> QED
    BY <1>1, <1>2, <2>2, <2>3 DEF Abstract!RegisterFails
<1>4. CASE RegisterReuse(b) \/ RegisterPush(b)
  <2>1. PICK id \in Usize :
           /\ issued[id] = None /\ ~Live(id) /\ Live(id)'
           /\ \A key \in Usize \ {id} : Live(key)' <=> Live(key)
           /\ Registered(b, id)
    BY <1>4, RegisterLive
  <2>2. /\ issued' = [issued EXCEPT ![id] = b] /\ issued \in [Usize -> Box \cup {None}]
        /\ reply' = Answer("register", id, "Ok", b)
    BY <2>1 DEF Registered, IInv, TypeOK
  <2>3. liveBar' = [liveBar EXCEPT ![id] = b] /\ liveBar[id] = None
    BY <2>1, <2>2 DEF liveBar
  <2>4. usedBar' = usedBar \cup {id} /\ id \notin usedBar
    BY <1>1, <2>1, <2>2 DEF usedBar
  <2>5. replyBar' = Abstract!Answer("register", id, TRUE, b)
    BY <2>2 DEF replyBar, Answer, Abstract!Answer
  <2> QED
    BY <1>1, <1>2, <2>3, <2>4, <2>5 DEF Abstract!Register
<1> QED
  BY <1>3, <1>4 DEF Register

\* A refused call is refused by the abstract tracker.
LEMMA RefuseMaps ==
  ASSUME IInv, NEW key \in Usize, NEW op \in {"reclaim", "borrow_mut"}, Refuse(op, key)
  PROVE  Abstract!Refuse(key)
<1>1. liveBar' = liveBar /\ borrowedBar' = borrowedBar /\ usedBar' = usedBar /\ held' = held
  BY DEF Refuse, liveBar, borrowedBar, usedBar, Live, Resolves, Current, Guarded, Slots, Slot
<1>2. replyBar' = Abstract!Answer(op, key, FALSE, None)
  BY DEF Refuse, Refusal, Answer, replyBar, Abstract!Answer
<1>3. ~Abstract!Available(key)
  BY DEF Refuse, Live, liveBar, borrowedBar, Abstract!Available
<1> QED
  BY <1>1, <1>2, <1>3 DEF Abstract!Refuse

\* A handle that resolves is available, with the object of its slot.
LEMMA AvailableBar ==
  ASSUME IInv, NEW key \in Usize, Resolves(key)
  PROVE  Abstract!Available(key) /\ liveBar[key] = Slot(Index(key)).value
<1>1. Live(key)
  BY DEF Live
<1> QED
  BY <1>1, LiveIssued, ResolvesUnguarded DEF Abstract!Available, borrowedBar, liveBar

\* reclaim is the abstract Reclaim, or its Refuse.
LEMMA ReclaimMaps ==
  ASSUME IInv, NEW key \in Usize, Reclaim(key)
  PROVE  Abstract!Refuse(key) \/ Abstract!Reclaim(key)
<1>1. CASE Refuse("reclaim", key)
  BY <1>1, RefuseMaps
<1>2. CASE ~Refuse("reclaim", key)
  <2>1. /\ Resolves(key) /\ ~Live(key)'
        /\ \A k \in Usize \ {key} : Live(k)' <=> Live(k)
    BY <1>2, ReclaimLive
  <2>2. /\ held' = held \cup {Slot(Index(key)).value}
        /\ reply' = Answer("reclaim", key, "Ok", Slot(Index(key)).value)
        /\ UNCHANGED <<guards, forgotten, issued>>
    BY <1>2 DEF Reclaim, Reclaimed
  <2>3. Abstract!Available(key) /\ liveBar[key] = Slot(Index(key)).value
    BY <2>1, AvailableBar
  <2>4. liveBar' = [liveBar EXCEPT ![key] = None] /\ usedBar' = usedBar
    BY <2>1, <2>2 DEF liveBar, usedBar
  <2>5. borrowedBar' = borrowedBar
    BY <2>2 DEF borrowedBar, Guarded
  <2>6. replyBar' = Abstract!Answer("reclaim", key, TRUE, liveBar[key])
    BY <2>2, <2>3 DEF replyBar, Answer, Abstract!Answer
  <2> QED
    BY <2>2, <2>3, <2>4, <2>5, <2>6 DEF Abstract!Reclaim
<1> QED
  BY <1>1, <1>2

\* borrow_mut leaves the object under its key and marks the key borrowed.
LEMMA BorrowMutMaps ==
  ASSUME IInv, NEW key \in Usize, BorrowMut(key)
  PROVE  Abstract!Refuse(key) \/ Abstract!BorrowMut(key)
<1>1. CASE Refuse("borrow_mut", key)
  BY <1>1, RefuseMaps
<1>2. CASE ~Refuse("borrow_mut", key)
  <2>1. /\ Resolves(key)
        /\ \A k \in Usize : Live(k)' <=> Live(k)
        /\ \A k \in Usize : Guarded(k)' <=> Guarded(k) \/ k = key
    BY <1>2, BorrowLive
  <2>2. /\ reply' = Answer("borrow_mut", key, "Ok", Slot(Index(key)).value)
        /\ UNCHANGED <<held, issued>>
    BY <1>2 DEF BorrowMut
  <2>3. Abstract!Available(key) /\ liveBar[key] = Slot(Index(key)).value
    BY <2>1, AvailableBar
  <2>4. liveBar' = liveBar /\ usedBar' = usedBar
    BY <2>1, <2>2, BarsSame
  <2>5. borrowedBar' = borrowedBar \cup {key}
    BY <2>1 DEF borrowedBar
  <2>6. replyBar' = Abstract!Answer("borrow_mut", key, TRUE, liveBar[key])
    BY <2>2, <2>3 DEF replyBar, Answer, Abstract!Answer
  <2> QED
    BY <2>2, <2>3, <2>4, <2>5, <2>6 DEF Abstract!BorrowMut
<1> QED
  BY <1>1, <1>2

\* A guard that is dropped gives its key back; one that is forgotten does not.
LEMMA GuardMaps ==
  ASSUME IInv, NEW g \in guards, TrackedDrop(g) \/ ForgetGuard(g)
  PROVE  \E k \in Usize : Abstract!ReturnMut(k) \/ Abstract!Forget(k)
<1>1. g.key \in Usize /\ g.key \in borrowedBar
  BY GuardSlot DEF Out, borrowedBar, Guarded
<1>2. reply' = NoReply /\ held' = held /\ issued' = issued
  BY DEF TrackedDrop, ForgetGuard
<1>3. replyBar' = Abstract!NoReply
  BY <1>2 DEF replyBar, NoReply, Abstract!NoReply
<1>4. CASE TrackedDrop(g)
  <2>1. /\ \A k \in Usize : Live(k)' <=> Live(k)
        /\ \A k \in Usize : Guarded(k)' <=> Guarded(k) /\ k # g.key
    BY <1>4, ReturnLive
  <2>2. liveBar' = liveBar /\ usedBar' = usedBar
    BY <1>2, <2>1, BarsSame
  <2>3. borrowedBar' = borrowedBar \ {g.key}
    BY <2>1 DEF borrowedBar
  <2> QED
    BY <1>1, <1>2, <1>3, <2>2, <2>3 DEF Abstract!ReturnMut
<1>5. CASE ForgetGuard(g)
  <2>1. guards' \cup forgotten' = guards \cup forgotten /\ entries' = entries
    BY <1>5 DEF ForgetGuard
  <2>2. liveBar' = liveBar /\ borrowedBar' = borrowedBar /\ usedBar' = usedBar
    BY <1>2, <2>1 DEF liveBar, borrowedBar, usedBar, Live, Resolves, Current, Guarded,
       Slots, Slot
  <2> QED
    BY <1>1, <1>2, <1>3, <2>2 DEF Abstract!Forget
<1> QED
  BY <1>4, <1>5

\* Every step of OpaqueTracker is a step of Tracker, or changes none of its
\* variables.
LEMMA StepMaps == IInv /\ [Next]_vars => [Abstract!Next]_(Abstract!vars)
<1> SUFFICES ASSUME IInv, [Next]_vars PROVE [Abstract!Next]_(Abstract!vars)
  OBVIOUS
<1>1. CASE UNCHANGED vars
  BY <1>1 DEF vars, Abstract!vars, liveBar, borrowedBar, usedBar, replyBar, Live, Resolves,
     Current, Guarded, Slots, Slot
<1>2. CASE \E b \in Box : NewBox(b) \/ DropBox(b) \/ Register(b)
  BY <1>2, CallerMaps, RegisterMaps DEF Abstract!Next
<1>3. CASE \E key \in Usize : Reclaim(key) \/ BorrowMut(key)
  BY <1>3, ReclaimMaps, BorrowMutMaps DEF Abstract!Next
<1>4. CASE \E g \in guards : TrackedDrop(g) \/ ForgetGuard(g)
  BY <1>4, GuardMaps DEF Abstract!Next
<1> QED
  BY <1>1, <1>2, <1>3, <1>4 DEF Next

\* OpaqueTracker implements what trait Tracker promises, no key ever given out
\* a second time.
THEOREM Refinement == Spec => ImplementsTracker
<1>1. Init => Abstract!Init
  <2> SUFFICES ASSUME Init PROVE Abstract!Init
    OBVIOUS
  <2>1. entries = <<>> /\ guards = {} /\ forgotten = {} /\ issued = [k \in Usize |-> None]
    BY DEF Init
  <2>2. liveBar = [key \in Usize |-> None] /\ borrowedBar = {} /\ usedBar = {}
    BY <2>1 DEF liveBar, borrowedBar, usedBar, Guarded
  <2>3. replyBar = Abstract!NoReply
    BY DEF Init, replyBar, NoReply, Abstract!NoReply
  <2> QED
    BY <2>2, <2>3 DEF Init, Abstract!Init
<1> QED
  BY <1>1, StepMaps, Invariance, PTL DEF Spec, ImplementsTracker, Abstract!Spec
=============================================================================
