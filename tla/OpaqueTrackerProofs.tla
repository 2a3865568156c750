------------------------- MODULE OpaqueTrackerProofs ------------------------
(***************************************************************************)
(* The safety of OpaqueTracker for every word size and every set of        *)
(* objects.  IInv adds to the properties of the runs what ties the slots   *)
(* and the guards to the history of handles given out: it is inductive.    *)
(***************************************************************************)
EXTENDS OpaqueTracker, HandleProofs, SequenceTheorems

Out == guards \cup forgotten

\* The handle under which a slot's object can be reached is the one it was
\* registered under, and so is the key of a guard.
SlotsIssued ==
  \A i \in Slots : Slot(i).value # None =>
    issued[New(i, Slot(i).generation)] = Slot(i).value

GuardsIssued == \A g \in Out : issued[g.key] = g.val

\* Every handle given out names a slot that exists, at its present generation
\* or an earlier one.
IssuedBounded ==
  \A k \in Usize : issued[k] # None =>
    /\ Index(k) \in Slots
    /\ Generation(k) \in 1 .. Slot(Index(k)).generation

IInv ==
  /\ TypeOK
  /\ UniqueOwner
  /\ GuardsPinned
  /\ FreeListSound
  /\ NoSlotLost
  /\ SlotsIssued
  /\ GuardsIssued
  /\ IssuedBounded

-----------------------------------------------------------------------------

\* The state starts empty and every part of the invariant holds of it.
LEMMA InitInv == Init => IInv
<1> SUFFICES ASSUME Init PROVE IInv
  OBVIOUS
<1>1. Slots = {} /\ FreeSlots = {} /\ Out = {}
  BY DEF Init, Slots, FreeSlots, Out
<1>2. TypeOK
  BY Limits DEF Init, TypeOK, NoReply, Ops, Results
<1>3. InSlots = {} /\ InGuards = {}
  BY <1>1 DEF InSlots, InGuards, Out
<1> QED
  BY <1>1, <1>2, <1>3 DEF Init, IInv, UniqueOwner, GuardsPinned, FreeListSound,
     NoSlotLost, SlotsIssued, GuardsIssued, IssuedBounded, Out

\* Calls that change neither the slots, the free list, the guards nor the
\* history: only the caller's boxes and the answer.
LEMMA SlotsUntouched ==
  ASSUME IInv, TypeOK', held' \cap (InSlots \cup InGuards) = {},
         UNCHANGED <<entries, free_indices, guards, forgotten, issued>>
  PROVE  IInv'
<1>1. Slots' = Slots /\ FreeSlots' = FreeSlots /\ Out' = Out
  BY DEF Slots, FreeSlots, Out
<1>2. InSlots' = InSlots /\ InGuards' = InGuards
  BY DEF InSlots, InGuards, Slots, Slot
<1>3. UniqueOwner'
  BY <1>1, <1>2 DEF IInv, UniqueOwner, Slot
<1>4. GuardsPinned' /\ GuardsIssued' /\ SlotsIssued' /\ IssuedBounded'
  BY <1>1 DEF IInv, GuardsPinned, GuardsIssued, SlotsIssued, IssuedBounded, Slot, Out
<1>5. FreeListSound'
  BY <1>1 DEF IInv, FreeListSound, Slot
<1>6. NoSlotLost'
  BY <1>1 DEF IInv, NoSlotLost, Retired, Slot
<1> QED
  BY <1>3, <1>4, <1>5, <1>6 DEF IInv

\* A new box, a dropped box, a refused call: the answer and held only.
LEMMA CallerInv ==
  ASSUME IInv, NEW b \in Box, NewBox(b) \/ DropBox(b) \/ RegisterFull(b)
  PROVE  IInv'
<1>1. TypeOK'
  BY NoneAssumption DEF IInv, TypeOK, NewBox, DropBox, RegisterFull, NoReply, Answer,
     Ops, Results
<1>2. held' \cap (InSlots \cup InGuards) = {}
  BY DEF IInv, UniqueOwner, NewBox, DropBox, RegisterFull
<1> QED
  BY <1>1, <1>2, SlotsUntouched DEF NewBox, DropBox, RegisterFull

LEMMA RefuseInv ==
  ASSUME IInv, NEW key \in Usize, NEW op \in {"reclaim", "borrow_mut"}, Refuse(op, key)
  PROVE  IInv'
<1>1. TypeOK'
  BY DEF IInv, TypeOK, Refuse, Refusal, Answer, Ops, Results
<1>2. held' \cap (InSlots \cup InGuards) = {}
  BY DEF IInv, UniqueOwner, Refuse
<1> QED
  BY <1>1, <1>2, SlotsUntouched DEF Refuse

-----------------------------------------------------------------------------

\* One slot is replaced: the others stay, and so do the bounds.
LEMMA SlotUpdated ==
  ASSUME entries \in Seq(Entry), NEW i \in Slots, NEW e \in Entry,
         entries' = [entries EXCEPT ![i + 1] = e]
  PROVE  /\ entries' \in Seq(Entry)
         /\ Len(entries') = Len(entries)
         /\ Slots' = Slots
         /\ \A j \in Slots : Slot(j)' = IF j = i THEN e ELSE Slot(j)
<1>1. Len(entries) \in Nat /\ i \in Int /\ i + 1 \in 1 .. Len(entries)
  BY DEF Slots
<1>2. /\ entries' \in Seq(Entry)
      /\ Len(entries') = Len(entries)
      /\ \A n \in 1 .. Len(entries) : entries'[n] = IF n = i + 1 THEN e ELSE entries[n]
  BY <1>1
<1>3. \A j \in Slots : j \in Int /\ j + 1 \in 1 .. Len(entries) /\ (j + 1 = i + 1 <=> j = i)
  BY <1>1 DEF Slots
<1> QED
  BY <1>1, <1>2, <1>3 DEF Slots, Slot

\* The value of one slot is set.
LEMMA ValueSet ==
  ASSUME entries \in Seq(Entry), NEW i \in Slots, NEW v \in Box \cup {None},
         entries' = [entries EXCEPT ![i + 1].value = v]
  PROVE  /\ entries' \in Seq(Entry)
         /\ Len(entries') = Len(entries)
         /\ Slots' = Slots
         /\ \A j \in Slots : /\ Slot(j)'.value = IF j = i THEN v ELSE Slot(j).value
                             /\ Slot(j)'.generation = Slot(j).generation
<1> DEFINE e == [value |-> v, generation |-> Slot(i).generation]
<1>1. /\ Len(entries) \in Nat /\ i + 1 \in 1 .. Len(entries)
      /\ entries[i + 1] \in Entry
  BY DEF Slots
<1>2. e \in Entry /\ [entries[i + 1] EXCEPT !.value = v] = e
  BY <1>1, SMTT(30) DEF Entry, Slot
<1>3. entries' = [entries EXCEPT ![i + 1] = e]
  BY <1>2
<1>4. /\ entries' \in Seq(Entry)
      /\ Len(entries') = Len(entries)
      /\ Slots' = Slots
      /\ \A j \in Slots : Slot(j)' = IF j = i THEN e ELSE Slot(j)
  <2> HIDE DEF e
  <2> QED BY <1>2, <1>3, SlotUpdated
<1> QED
  BY <1>4

\* Slots and generations are within the limits of the handle.
LEMMA SlotRange ==
  ASSUME TypeOK
  PROVE  \A i \in Slots : /\ i \in 0 .. MAX_INDEX
                          /\ Slot(i) \in Entry
                          /\ Slot(i).value \in Box \cup {None}
                          /\ Slot(i).generation \in 1 .. MAX_GENERATION
                          /\ Slot(i).generation \in 0 .. MAX_GENERATION
<1> SUFFICES ASSUME NEW i \in Slots
             PROVE  /\ i \in 0 .. MAX_INDEX
                    /\ Slot(i) \in Entry
  BY Limits DEF Entry
<1>1. Len(entries) \in Nat /\ i \in 0 .. (Len(entries) - 1) /\ i + 1 \in 1 .. Len(entries)
  BY DEF TypeOK, Slots
<1> QED
  BY <1>1, Limits DEF TypeOK, Slot

\* The first index of the free list is not in the rest of it.
LEMMA FreeListTail ==
  ASSUME TypeOK, FreeListSound, free_indices # <<>>,
         free_indices' = Tail(free_indices)
  PROVE  /\ free_indices' \in Seq(0 .. MAX_INDEX)
         /\ Head(free_indices) \in FreeSlots
         /\ FreeSlots' = FreeSlots \ {Head(free_indices)}
         /\ \A m, n \in DOMAIN free_indices' : free_indices'[m] = free_indices'[n] => m = n
<1> DEFINE f == free_indices
           N == Len(free_indices)
<1>1. /\ f \in Seq(0 .. MAX_INDEX) /\ N \in Nat /\ N >= 1 /\ DOMAIN f = 1 .. N
      /\ Head(f) = f[1]
  BY DEF TypeOK
<1>2. /\ f' \in Seq(0 .. MAX_INDEX)
      /\ DOMAIN f' = 1 .. (N - 1)
      /\ \A n \in 1 .. (N - 1) : f'[n] = f[n + 1]
  BY <1>1
<1>3. \A m, n \in 1 .. N : f[m] = f[n] => m = n
  BY <1>1 DEF FreeListSound
<1>4. \A m, n \in DOMAIN f' : f'[m] = f'[n] => m = n
  BY <1>1, <1>2, <1>3
<1>5. FreeSlots' = FreeSlots \ {f[1]}
  <2>1. ASSUME NEW x \in FreeSlots' PROVE x \in FreeSlots /\ x # f[1]
    BY <1>1, <1>2, <1>3 DEF FreeSlots
  <2>2. ASSUME NEW x \in FreeSlots, x # f[1] PROVE x \in FreeSlots'
    <3>1. PICK n \in 1 .. N : x = f[n]
      BY <1>1 DEF FreeSlots
    <3>2. n - 1 \in 1 .. (N - 1) /\ x = f'[n - 1]
      BY <1>1, <1>2, <3>1, <2>2
    <3> QED
      BY <1>2, <3>2 DEF FreeSlots
  <2> QED
    BY <2>1, <2>2
<1>6. f[1] \in FreeSlots
  BY <1>1 DEF FreeSlots
<1> QED
  BY <1>1, <1>2, <1>4, <1>5, <1>6

LEMMA FreeListAppend ==
  ASSUME TypeOK, FreeListSound, NEW i \in 0 .. MAX_INDEX, i \notin FreeSlots,
         free_indices' = Append(free_indices, i)
  PROVE  /\ free_indices' \in Seq(0 .. MAX_INDEX)
         /\ FreeSlots' = FreeSlots \cup {i}
         /\ \A m, n \in DOMAIN free_indices' : free_indices'[m] = free_indices'[n] => m = n
<1> DEFINE f == free_indices
           N == Len(free_indices)
<1>1. /\ f \in Seq(0 .. MAX_INDEX) /\ N \in Nat /\ DOMAIN f = 1 .. N
      /\ \A m, n \in 1 .. N : f[m] = f[n] => m = n
  BY DEF TypeOK, FreeListSound
<1>2. /\ f' \in Seq(0 .. MAX_INDEX)
      /\ DOMAIN f' = 1 .. (N + 1)
      /\ \A n \in 1 .. N : f'[n] = f[n]
      /\ f'[N + 1] = i
  BY <1>1
<1>3. \A n \in 1 .. N : f[n] # i
  BY <1>1 DEF FreeSlots
<1> QED
  BY <1>1, <1>2, <1>3 DEF FreeSlots

-----------------------------------------------------------------------------

\* What is known of the slot at the front of the free list and of the handle
\* register is about to give out for it.
LEMMA FrontSlot ==
  ASSUME IInv, NEW i \in FreeSlots
  PROVE  /\ i \in Slots
         /\ Slot(i).value = None
         /\ \A g \in Out : Index(g.key) # i
         /\ New(i, Slot(i).generation) \in Usize
         /\ Index(New(i, Slot(i).generation)) = i
         /\ Generation(New(i, Slot(i).generation)) = Slot(i).generation
         /\ New(i, Slot(i).generation) # Null
         /\ issued[New(i, Slot(i).generation)] = None
<1>1. /\ i \in Slots
      /\ Slot(i).value = None
      /\ \A g \in Out : Index(g.key) # i
      /\ issued[New(i, Slot(i).generation)] = None
  BY DEF IInv, FreeListSound, Out
<1>2. /\ i \in 0 .. MAX_INDEX
      /\ Slot(i).generation \in 1 .. MAX_GENERATION
      /\ Slot(i).generation \in 0 .. MAX_GENERATION
  BY <1>1, SlotRange DEF IInv
<1> QED
  BY <1>1, <1>2, RoundTrip, IssuedNotNull

\* What a guard's key says of its slot.
LEMMA GuardSlot ==
  ASSUME IInv, NEW g \in Out
  PROVE  /\ g \in Guard
         /\ g.key \in Usize
         /\ g.val \in Box
         /\ g.val # None
         /\ Index(g.key) \in Slots
         /\ Slot(Index(g.key)).generation = Generation(g.key)
         /\ Slot(Index(g.key)).value = None
         /\ New(Index(g.key), Generation(g.key)) = g.key
         /\ issued[g.key] = g.val
         /\ Index(g.key) \notin FreeSlots
<1>1. g \in Guard
  BY DEF IInv, TypeOK, Out
<1>2. g.key \in Usize /\ g.val \in Box
  BY <1>1 DEF Guard
<1>3. /\ Index(g.key) \in Slots
      /\ Slot(Index(g.key)).generation = Generation(g.key)
      /\ Slot(Index(g.key)).value = None
      /\ issued[g.key] = g.val
      /\ Index(g.key) \notin FreeSlots
  BY DEF IInv, GuardsPinned, GuardsIssued, FreeListSound, Out
<1>4. New(Index(g.key), Generation(g.key)) = g.key
  <2>1. /\ Index(g.key) \in 0 .. MAX_INDEX
        /\ Generation(g.key) \in 0 .. MAX_GENERATION
    BY <1>2, HalvesOfWord
  <2> QED
    BY <1>2, <2>1, RoundTrip, HalvesDetermine
<1> QED
  BY <1>1, <1>2, <1>3, <1>4, NoneAssumption

\* What a handle that resolves says of its slot.
LEMMA ResolvedSlot ==
  ASSUME IInv, NEW key \in Usize, Resolves(key)
  PROVE  /\ Index(key) \in Slots
         /\ Slot(Index(key)).generation = Generation(key)
         /\ Generation(key) \in 1 .. MAX_GENERATION
         /\ Slot(Index(key)).value \in Box
         /\ New(Index(key), Generation(key)) = key
         /\ issued[key] = Slot(Index(key)).value
         /\ Index(key) \notin FreeSlots
         /\ \A g \in Out : Index(g.key) # Index(key)
<1>1. /\ Index(key) \in Slots
      /\ Slot(Index(key)).generation = Generation(key)
      /\ Slot(Index(key)).value # None
  BY DEF Resolves, Current
<1>2. /\ Slot(Index(key)).value \in Box
      /\ Generation(key) \in 1 .. MAX_GENERATION
      /\ Generation(key) \in 0 .. MAX_GENERATION
      /\ Index(key) \in 0 .. MAX_INDEX
  BY <1>1, SlotRange DEF IInv
<1>3. New(Index(key), Generation(key)) = key
  BY <1>2, RoundTrip, HalvesDetermine
<1>4. issued[key] = Slot(Index(key)).value
  BY <1>1, <1>3 DEF IInv, SlotsIssued
<1>5. /\ Index(key) \notin FreeSlots
      /\ \A g \in Out : Index(g.key) # Index(key)
  BY <1>1 DEF IInv, FreeListSound, GuardsPinned, Out
<1> QED
  BY <1>1, <1>2, <1>3, <1>4, <1>5

\* register on a slot of the free list.
LEMMA RegisterReuseInv ==
  ASSUME IInv, NEW b \in Box, RegisterReuse(b)
  PROVE  IInv'
<1> DEFINE i == Head(free_indices)
           id == New(i, Slot(i).generation)
<1>1. /\ b \in held /\ free_indices # <<>>
      /\ free_indices' = Tail(free_indices)
      /\ entries' = [entries EXCEPT ![i + 1].value = b]
      /\ held' = held \ {b}
      /\ issued' = [issued EXCEPT ![id] = b]
      /\ reply' = Answer("register", id, "Ok", b)
      /\ guards' = guards /\ forgotten' = forgotten
  BY DEF RegisterReuse, Registered
<1>2. /\ free_indices' \in Seq(0 .. MAX_INDEX)
      /\ i \in FreeSlots
      /\ FreeSlots' = FreeSlots \ {i}
      /\ \A m, n \in DOMAIN free_indices' : free_indices'[m] = free_indices'[n] => m = n
  BY <1>1, FreeListTail DEF IInv
<1>3. /\ i \in Slots
      /\ Slot(i).value = None
      /\ \A g \in Out : Index(g.key) # i
      /\ id \in Usize /\ Index(id) = i /\ Generation(id) = Slot(i).generation
      /\ issued[id] = None
  BY <1>2, FrontSlot
<1> HIDE DEF i, id
<1>4. /\ entries' \in Seq(Entry)
      /\ Len(entries') = Len(entries)
      /\ Slots' = Slots
      /\ \A j \in Slots : /\ Slot(j)'.value = IF j = i THEN b ELSE Slot(j).value
                          /\ Slot(j)'.generation = Slot(j).generation
  BY <1>1, <1>3, ValueSet DEF IInv, TypeOK
<1>5. /\ issued' \in [Usize -> Box \cup {None}]
      /\ \A k \in Usize : issued'[k] = IF k = id THEN b ELSE issued[k]
  BY <1>1, <1>3 DEF IInv, TypeOK
<1>6. Out' = Out /\ InGuards' = InGuards /\ InSlots' = InSlots \cup {b}
  <2>1. Out' = Out /\ InGuards' = InGuards
    BY <1>1 DEF Out, InGuards
  <2>2. InSlots' = InSlots \cup {b}
    BY <1>3, <1>4, NoneAssumption DEF InSlots
  <2> QED BY <2>1, <2>2
<1>7. b \notin InSlots /\ b \notin InGuards /\ b # None
  BY <1>1, NoneAssumption DEF IInv, UniqueOwner
<1>8. \A j \in Slots : /\ New(j, Slot(j).generation) \in Usize
                       /\ (New(j, Slot(j).generation) = id => j = i)
                       /\ Index(New(j, Slot(j).generation)) = j
  BY <1>3, SlotRange, RoundTrip DEF IInv
<1>a. TypeOK'
  BY <1>1, <1>2, <1>3, <1>4, <1>5 DEF IInv, TypeOK, Answer, Ops, Results
<1>b. UniqueOwner'
  <2>1. \A j, k \in Slots' : Slot(j)'.value # None /\ Slot(j)'.value = Slot(k)'.value => j = k
    BY <1>4, <1>7 DEF IInv, UniqueOwner, InSlots
  <2> QED
    BY <1>1, <1>6, <1>7, <2>1 DEF IInv, UniqueOwner
<1>c. GuardsPinned'
  BY <1>1, <1>3, <1>4, <1>6 DEF IInv, GuardsPinned, Out
<1>d. FreeListSound'
  <2>1. \A j \in FreeSlots' : j \in Slots /\ j # i
    BY <1>2 DEF IInv, FreeListSound
  <2>2. \A j \in FreeSlots' : issued'[New(j, Slot(j)'.generation)] = None
    BY <1>2, <1>4, <1>5, <1>8, <2>1 DEF IInv, FreeListSound
  <2> QED
    BY <1>1, <1>2, <1>4, <2>1, <2>2 DEF IInv, FreeListSound
<1>e. NoSlotLost'
  <2> SUFFICES ASSUME NEW j \in Slots, Retired(j)'
               PROVE  /\ Slot(j)'.generation = MAX_GENERATION
                      /\ issued'[New(j, MAX_GENERATION)] # None
    BY <1>4 DEF NoSlotLost
  <2>1. j # i
    BY <1>4, <1>7 DEF Retired
  <2>2. Retired(j)
    BY <1>1, <1>2, <1>4, <2>1 DEF Retired
  <2>3. Slot(j).generation = MAX_GENERATION /\ issued[New(j, MAX_GENERATION)] # None
    BY <2>2 DEF IInv, NoSlotLost
  <2> QED
    BY <1>4, <1>5, <1>7, <1>8, <2>3
<1>f. SlotsIssued'
  <2> SUFFICES ASSUME NEW j \in Slots, Slot(j)'.value # None
               PROVE  issued'[New(j, Slot(j)'.generation)] = Slot(j)'.value
    BY <1>4 DEF SlotsIssued
  <2>1. CASE j = i
    BY <2>1, <1>3, <1>4, <1>5 DEF id
  <2>2. CASE j # i
    BY <2>2, <1>4, <1>5, <1>8 DEF IInv, SlotsIssued
  <2> QED BY <2>1, <2>2
<1>g. GuardsIssued'
  BY <1>3, <1>5, <1>6, GuardSlot DEF IInv, GuardsIssued
<1>h. IssuedBounded'
  <2> SUFFICES ASSUME NEW k \in Usize, issued'[k] # None
               PROVE  Index(k) \in Slots /\ Generation(k) \in 1 .. Slot(Index(k)).generation
    BY <1>4 DEF IssuedBounded
  <2>1. CASE k = id
    BY <2>1, <1>3, SlotRange DEF IInv
  <2>2. CASE k # id
    BY <2>2, <1>5 DEF IInv, IssuedBounded
  <2> QED BY <2>1, <2>2
<1> QED
  BY <1>a, <1>b, <1>c, <1>d, <1>e, <1>f, <1>g, <1>h DEF IInv

\* register with a new slot: every other slot stays, and no handle given out
\* names the new one.
LEMMA RegisterPushInv ==
  ASSUME IInv, NEW b \in Box, RegisterPush(b), NEW i, i = Len(entries)
  PROVE  IInv'
<1> DEFINE id == New(i, 1)
           e == [value |-> b, generation |-> 1]
<1>1. /\ b \in held /\ free_indices = <<>>
      /\ Len(entries) <= MAX_INDEX
      /\ entries' = Append(entries, e)
      /\ held' = held \ {b}
      /\ issued' = [issued EXCEPT ![id] = b]
      /\ reply' = Answer("register", id, "Ok", b)
      /\ guards' = guards /\ forgotten' = forgotten /\ free_indices' = free_indices
  BY DEF RegisterPush, Registered
<1>2. e \in Entry /\ e.value = b /\ e.generation = 1
  BY Limits DEF Entry
<1>3. /\ i \in 0 .. MAX_INDEX /\ i \in Nat
      /\ id \in Usize /\ Index(id) = i /\ Generation(id) = 1
  BY <1>1, Limits, RoundTrip DEF IInv, TypeOK
<1>4. /\ entries' \in Seq(Entry)
      /\ Len(entries') = i + 1
      /\ Slots' = Slots \cup {i}
      /\ i \notin Slots
      /\ \A j \in Slots : Slot(j)' = Slot(j)
      /\ Slot(i)' = e
  <2> HIDE DEF e
  <2>1. /\ entries \in Seq(Entry) /\ i \in Nat
        /\ entries' \in Seq(Entry)
        /\ Len(entries') = i + 1
        /\ \A n \in 1 .. i : entries'[n] = entries[n]
        /\ entries'[i + 1] = e
    BY <1>1, <1>2 DEF IInv, TypeOK
  <2>2. \A j \in Slots : j + 1 \in 1 .. i
    BY <2>1 DEF Slots
  <2> QED
    BY <2>1, <2>2 DEF Slots, Slot
<1> HIDE DEF id, e
<1>5. /\ issued' \in [Usize -> Box \cup {None}]
      /\ \A k \in Usize : issued'[k] = IF k = id THEN b ELSE issued[k]
  BY <1>1, <1>3 DEF IInv, TypeOK
<1>6. Out' = Out /\ InGuards' = InGuards /\ InSlots' = InSlots \cup {b}
  <2>1. Out' = Out /\ InGuards' = InGuards
    BY <1>1 DEF Out, InGuards
  <2>2. InSlots' = InSlots \cup {b}
    BY <1>2, <1>4, NoneAssumption DEF InSlots
  <2> QED BY <2>1, <2>2
<1>7. b \notin InSlots /\ b \notin InGuards /\ b # None
  BY <1>1, NoneAssumption DEF IInv, UniqueOwner
<1>8. \A j \in Slots : /\ New(j, Slot(j).generation) # id
                       /\ Index(New(j, Slot(j).generation)) = j
                       /\ New(j, Slot(j).generation) \in Usize
  BY <1>3, <1>4, SlotRange, RoundTrip DEF IInv
<1>9. FreeSlots = {} /\ FreeSlots' = {}
  BY <1>1 DEF FreeSlots
<1>a. TypeOK'
  BY <1>1, <1>3, <1>4, <1>5, Limits DEF IInv, TypeOK, Answer, Ops, Results
<1>b. UniqueOwner'
  <2>1. \A j, k \in Slots' : Slot(j)'.value # None /\ Slot(j)'.value = Slot(k)'.value => j = k
    BY <1>2, <1>4, <1>7 DEF IInv, UniqueOwner, InSlots
  <2> QED
    BY <1>1, <1>6, <1>7, <2>1 DEF IInv, UniqueOwner
<1>c. GuardsPinned'
  BY <1>1, <1>4, <1>6 DEF IInv, GuardsPinned, Out
<1>d. FreeListSound'
  BY <1>1, <1>9 DEF IInv, FreeListSound
<1>e. NoSlotLost'
  <2> SUFFICES ASSUME NEW j \in Slots', Retired(j)'
               PROVE  /\ Slot(j)'.generation = MAX_GENERATION
                      /\ issued'[New(j, MAX_GENERATION)] # None
    BY DEF NoSlotLost
  <2>1. j \in Slots
    BY <1>2, <1>4, <1>7 DEF Retired
  <2>2. Retired(j)
    BY <1>1, <1>9, <1>4, <2>1 DEF Retired
  <2>3. Slot(j).generation = MAX_GENERATION /\ issued[New(j, MAX_GENERATION)] # None
    BY <2>1, <2>2 DEF IInv, NoSlotLost
  <2> QED
    BY <1>4, <1>5, <1>7, <1>8, <2>1, <2>3
<1>f. SlotsIssued'
  <2> SUFFICES ASSUME NEW j \in Slots', Slot(j)'.value # None
               PROVE  issued'[New(j, Slot(j)'.generation)] = Slot(j)'.value
    BY DEF SlotsIssued
  <2>1. CASE j = i
    BY <2>1, <1>2, <1>3, <1>4, <1>5 DEF id
  <2>2. CASE j \in Slots
    BY <2>2, <1>4, <1>5, <1>8 DEF IInv, SlotsIssued
  <2> QED BY <2>1, <2>2, <1>4
<1>g. GuardsIssued'
  <2> SUFFICES ASSUME NEW g \in Out PROVE issued'[g.key] = g.val
    BY <1>6 DEF GuardsIssued
  <2> QED
    BY <1>3, <1>4, <1>5, GuardSlot
<1>h. IssuedBounded'
  <2> SUFFICES ASSUME NEW k \in Usize, issued'[k] # None
               PROVE  Index(k) \in Slots' /\ Generation(k) \in 1 .. Slot(Index(k))'.generation
    BY DEF IssuedBounded, Slot
  <2>1. CASE k = id
    BY <2>1, <1>2, <1>3, <1>4
  <2>2. CASE k # id
    BY <2>2, <1>4, <1>5 DEF IInv, IssuedBounded
  <2> QED BY <2>1, <2>2
<1> QED
  BY <1>a, <1>b, <1>c, <1>d, <1>e, <1>f, <1>g, <1>h DEF IInv

\* reclaim with a next generation to move to, or the last one.
LEMMA ReclaimInv ==
  ASSUME IInv, NEW key \in Usize, NEW generation,
         \/ /\ Generation(key) < MAX_GENERATION
            /\ generation = Generation(key) + 1
            /\ free_indices' = Append(free_indices, Index(key))
         \/ /\ Generation(key) >= MAX_GENERATION
            /\ generation = Generation(key)
            /\ free_indices' = free_indices,
         Reclaimed(key, generation)
  PROVE  IInv'
<1> DEFINE i == Index(key)
           b == Slot(Index(key)).value
           e == [value |-> None, generation |-> generation]
<1>1. /\ Resolves(key)
      /\ held' = held \cup {b}
      /\ reply' = Answer("reclaim", key, "Ok", b)
      /\ entries' = [entries EXCEPT ![i + 1] = e]
      /\ guards' = guards /\ forgotten' = forgotten /\ issued' = issued
  BY DEF Reclaimed
<1>2. /\ i \in Slots /\ i \in 0 .. MAX_INDEX
      /\ Slot(i).generation = Generation(key)
      /\ Slot(i).value = b
      /\ Generation(key) \in 1 .. MAX_GENERATION
      /\ b \in Box /\ b # None
      /\ New(i, Generation(key)) = key
      /\ issued[key] = b
      /\ i \notin FreeSlots
      /\ \A g \in Out : Index(g.key) # i
  BY <1>1, ResolvedSlot, SlotRange, NoneAssumption DEF IInv
<1>3. /\ generation \in 1 .. MAX_GENERATION
      /\ generation \in 0 .. MAX_GENERATION
      /\ generation >= Generation(key)
      /\ e \in Entry /\ e.value = None /\ e.generation = generation
  BY <1>2, Limits DEF Entry
<1> HIDE DEF i, b, e
<1>4. /\ entries' \in Seq(Entry)
      /\ Len(entries') = Len(entries)
      /\ Slots' = Slots
      /\ \A j \in Slots : Slot(j)' = IF j = i THEN e ELSE Slot(j)
  BY <1>1, <1>2, <1>3, SlotUpdated DEF IInv, TypeOK
<1>5. /\ free_indices' \in Seq(0 .. MAX_INDEX)
      /\ \A m, n \in DOMAIN free_indices' : free_indices'[m] = free_indices'[n] => m = n
      /\ \/ FreeSlots' = FreeSlots \cup {i} /\ generation = Generation(key) + 1
         \/ FreeSlots' = FreeSlots /\ generation = MAX_GENERATION /\ generation = Generation(key)
  <2>1. CASE Generation(key) < MAX_GENERATION
    BY <2>1, <1>2, FreeListAppend, Limits DEF IInv, i
  <2>2. CASE Generation(key) >= MAX_GENERATION
    BY <2>2, <1>2, Limits DEF IInv, TypeOK, FreeListSound, FreeSlots
  <2> QED BY <2>1, <2>2, <1>2, Limits
<1>6. Out' = Out /\ InGuards' = InGuards /\ InSlots' = InSlots \ {b} /\ b \in InSlots
  <2>1. Out' = Out /\ InGuards' = InGuards
    BY <1>1 DEF Out, InGuards
  <2>2. InSlots' = InSlots \ {b} /\ b \in InSlots
    BY <1>2, <1>3, <1>4 DEF InSlots, IInv, UniqueOwner
  <2> QED BY <2>1, <2>2
<1>a. TypeOK'
  BY <1>1, <1>2, <1>4, <1>5 DEF IInv, TypeOK, Answer, Ops, Results
<1>b. UniqueOwner'
  <2>1. \A j, k \in Slots' : Slot(j)'.value # None /\ Slot(j)'.value = Slot(k)'.value => j = k
    BY <1>3, <1>4 DEF IInv, UniqueOwner
  <2> QED
    BY <1>1, <1>6, <2>1 DEF IInv, UniqueOwner
<1>c. GuardsPinned'
  BY <1>1, <1>2, <1>4, <1>6 DEF IInv, GuardsPinned, Out
<1>d. FreeListSound'
  <2> SUFFICES ASSUME NEW j \in FreeSlots'
               PROVE  /\ j \in Slots
                      /\ Slot(j)'.value = None
                      /\ \A g \in guards \cup forgotten : Index(g.key) # j
                      /\ issued[New(j, Slot(j)'.generation)] = None
    BY <1>1, <1>4, <1>5 DEF FreeListSound
  <2>1. CASE j = i
    <3>1. FreeSlots' = FreeSlots \cup {i} /\ generation = Generation(key) + 1
      BY <2>1, <1>2, <1>5
    <3>2. /\ New(i, generation) \in Usize
          /\ Index(New(i, generation)) = i
          /\ Generation(New(i, generation)) = generation
      BY <1>2, <1>3, RoundTrip
    <3>3. issued[New(i, generation)] = None
      BY <3>1, <3>2, <1>2 DEF IInv, IssuedBounded
    <3> QED
      BY <2>1, <3>3, <1>2, <1>3, <1>4 DEF Out
  <2>2. CASE j # i
    BY <2>2, <1>4, <1>5 DEF IInv, FreeListSound
  <2> QED BY <2>1, <2>2
<1>e. NoSlotLost'
  <2> SUFFICES ASSUME NEW j \in Slots, Retired(j)'
               PROVE  /\ Slot(j)'.generation = MAX_GENERATION
                      /\ issued[New(j, MAX_GENERATION)] # None
    BY <1>1, <1>4 DEF NoSlotLost
  <2>1. CASE j = i
    BY <2>1, <1>2, <1>3, <1>4, <1>5 DEF Retired
  <2>2. CASE j # i
    <3>1. Retired(j)
      BY <1>1, <1>5, <1>4, <2>2 DEF Retired
    <3> QED
      BY <3>1, <2>2, <1>4 DEF IInv, NoSlotLost
  <2> QED BY <2>1, <2>2
<1>f. SlotsIssued'
  BY <1>1, <1>3, <1>4 DEF IInv, SlotsIssued
<1>g. GuardsIssued'
  BY <1>1, <1>6 DEF IInv, GuardsIssued
<1>h. IssuedBounded'
  <2> SUFFICES ASSUME NEW k \in Usize, issued[k] # None
               PROVE  Index(k) \in Slots /\ Generation(k) \in 1 .. Slot(Index(k))'.generation
    BY <1>1, <1>4 DEF IssuedBounded, Slot
  <2>1. Index(k) \in Slots /\ Generation(k) \in 1 .. Slot(Index(k)).generation
    BY DEF IInv, IssuedBounded
  <2>2. CASE Index(k) = i
    BY <2>1, <2>2, <1>2, <1>3, <1>4
  <2>3. CASE Index(k) # i
    BY <2>1, <2>3, <1>4
  <2> QED BY <2>1, <2>2, <2>3
<1> QED
  BY <1>a, <1>b, <1>c, <1>d, <1>e, <1>f, <1>g, <1>h DEF IInv

\* borrow_mut: the object leaves its slot for a guard pinned to the slot.
LEMMA BorrowInv ==
  ASSUME IInv, NEW key \in Usize, BorrowMut(key), Resolves(key)
  PROVE  IInv'
<1> DEFINE i == Index(key)
           b == Slot(Index(key)).value
           h == [key |-> key, val |-> b]
<1>1. /\ entries' = [entries EXCEPT ![i + 1].value = None]
      /\ guards' = guards \cup {h}
      /\ reply' = Answer("borrow_mut", key, "Ok", b)
      /\ free_indices' = free_indices /\ forgotten' = forgotten
      /\ held' = held /\ issued' = issued
  BY DEF BorrowMut, Refuse
<1>2. /\ i \in Slots
      /\ Slot(i).generation = Generation(key)
      /\ Slot(i).value = b
      /\ b \in Box /\ b # None
      /\ New(i, Generation(key)) = key
      /\ issued[key] = b
      /\ i \notin FreeSlots
      /\ \A g \in Out : Index(g.key) # i
  BY ResolvedSlot, NoneAssumption
<1>3. h \in Guard /\ h.key = key /\ h.val = b
  BY <1>2 DEF Guard
<1>4. Index(h.key) = i
  BY <1>3
<1> HIDE DEF i, b, h
<1>5. /\ entries' \in Seq(Entry)
      /\ Len(entries') = Len(entries)
      /\ Slots' = Slots
      /\ \A j \in Slots : /\ Slot(j)'.value = IF j = i THEN None ELSE Slot(j).value
                          /\ Slot(j)'.generation = Slot(j).generation
  BY <1>1, <1>2, ValueSet DEF IInv, TypeOK
<1>6. /\ Out' = Out \cup {h} /\ h \notin Out
      /\ InGuards' = InGuards \cup {b}
      /\ InSlots' = InSlots \ {b} /\ b \in InSlots /\ FreeSlots' = FreeSlots
  <2>1. Out' = Out \cup {h} /\ h \notin Out /\ FreeSlots' = FreeSlots
    BY <1>1, <1>2, <1>4 DEF Out, FreeSlots
  <2>2. InGuards' = InGuards \cup {b}
    BY <1>1, <1>3 DEF InGuards
  <2>3. InSlots' = InSlots \ {b} /\ b \in InSlots
    BY <1>2, <1>5 DEF InSlots, IInv, UniqueOwner
  <2> QED BY <2>1, <2>2, <2>3
<1>a. TypeOK'
  BY <1>1, <1>2, <1>3, <1>5 DEF IInv, TypeOK, Answer, Ops, Results
<1>b. UniqueOwner'
  <2>1. \A j, k \in Slots' : Slot(j)'.value # None /\ Slot(j)'.value = Slot(k)'.value => j = k
    BY <1>5 DEF IInv, UniqueOwner
  <2>2. \A g \in Out : g.val # b
    BY <1>6 DEF IInv, UniqueOwner, InGuards, Out
  <2>3. \A g, l \in Out' : g.val = l.val => g = l
    BY <1>3, <1>6, <2>2 DEF IInv, UniqueOwner, Out
  <2>4. guards' \cap forgotten' = {}
    BY <1>1, <1>6 DEF IInv, UniqueOwner, Out
  <2> QED
    BY <1>1, <1>6, <2>1, <2>3, <2>4 DEF IInv, UniqueOwner, Out
<1>c. GuardsPinned'
  <2>1. \A g \in Out' : /\ Index(g.key) \in Slots'
                        /\ Slot(Index(g.key))'.generation = Generation(g.key)
                        /\ Slot(Index(g.key))'.value = None
    BY <1>2, <1>3, <1>4, <1>5, <1>6, GuardSlot
  <2>2. \A g, l \in Out' : Index(g.key) = Index(l.key) => g = l
    BY <1>2, <1>4, <1>6 DEF IInv, GuardsPinned, Out
  <2> QED BY <2>1, <2>2 DEF GuardsPinned, Out, Slot
<1>d. FreeListSound'
  <2>1. \A g \in Out' : Index(g.key) \notin FreeSlots
    BY <1>2, <1>4, <1>6, GuardSlot
  <2> QED
    BY <2>1, <1>1, <1>2, <1>5, <1>6 DEF IInv, FreeListSound, Out
<1>e. NoSlotLost'
  <2> SUFFICES ASSUME NEW j \in Slots, Retired(j)'
               PROVE  /\ Slot(j)'.generation = MAX_GENERATION
                      /\ issued[New(j, MAX_GENERATION)] # None
    BY <1>1, <1>5 DEF NoSlotLost
  <2>1. j # i
    BY <1>1, <1>4 DEF Retired
  <2>2. Retired(j)
    BY <2>1, <1>1, <1>5, <1>6 DEF Retired
  <2> QED
    BY <2>2, <1>5 DEF IInv, NoSlotLost
<1>f. SlotsIssued'
  BY <1>1, <1>5 DEF IInv, SlotsIssued
<1>g. GuardsIssued'
  BY <1>1, <1>2, <1>3, <1>6 DEF IInv, GuardsIssued
<1>h. IssuedBounded'
  <2> SUFFICES ASSUME NEW k \in Usize, issued[k] # None
               PROVE  Index(k) \in Slots /\ Generation(k) \in 1 .. Slot(Index(k))'.generation
    BY <1>1, <1>5 DEF IssuedBounded, Slot
  <2> QED BY <1>5 DEF IInv, IssuedBounded
<1> QED
  BY <1>a, <1>b, <1>c, <1>d, <1>e, <1>f, <1>g, <1>h DEF IInv

\* The drop of a guard: its object is back in the slot it came from.
LEMMA ReturnInv ==
  ASSUME IInv, NEW g \in guards, TrackedDrop(g)
  PROVE  IInv'
<1> DEFINE i == Index(g.key)
           b == g.val
<1>1. /\ entries' = [entries EXCEPT ![i + 1].value = b]
      /\ guards' = guards \ {g}
      /\ reply' = NoReply
      /\ free_indices' = free_indices /\ forgotten' = forgotten
      /\ held' = held /\ issued' = issued
  BY DEF TrackedDrop, ReturnMut
<1>2. /\ g \in Out
      /\ i \in Slots
      /\ Slot(i).generation = Generation(g.key)
      /\ Slot(i).value = None
      /\ b \in Box /\ b # None
      /\ New(i, Generation(g.key)) = g.key
      /\ issued[g.key] = b
      /\ i \notin FreeSlots
  BY GuardSlot DEF Out
<1>3. \A l \in Out : l # g => Index(l.key) # i /\ l.val # b
  BY <1>2 DEF IInv, GuardsPinned, UniqueOwner, Out
<1> HIDE DEF i, b
<1>5. /\ entries' \in Seq(Entry)
      /\ Len(entries') = Len(entries)
      /\ Slots' = Slots
      /\ \A j \in Slots : /\ Slot(j)'.value = IF j = i THEN b ELSE Slot(j).value
                          /\ Slot(j)'.generation = Slot(j).generation
  <2>1. entries \in Seq(Entry) /\ b \in Box \cup {None}
    BY <1>2 DEF IInv, TypeOK
  <2>2. entries' = [entries EXCEPT ![i + 1].value = b]
    BY <1>1
  <2> HIDE DEF TrackedDrop
  <2> QED BY ONLY <2>1, <2>2, <1>2, ValueSet
<1>6. /\ Out' = Out \ {g}
      /\ InGuards' = InGuards \ {b} /\ b \in InGuards
      /\ InSlots' = InSlots \cup {b} /\ b \notin InSlots /\ FreeSlots' = FreeSlots
  <2>1. Out' = Out \ {g} /\ FreeSlots' = FreeSlots
    BY <1>1 DEF Out, FreeSlots, IInv, UniqueOwner
  <2>2. InGuards' = InGuards \ {b} /\ b \in InGuards
    BY <2>1, <1>2, <1>3 DEF InGuards, Out, b
  <2>3. InSlots' = InSlots \cup {b}
    BY <1>2, <1>5 DEF InSlots
  <2>4. b \notin InSlots
    BY <2>2 DEF IInv, UniqueOwner
  <2> QED BY <2>1, <2>2, <2>3, <2>4
<1>a. TypeOK'
  BY <1>1, <1>5 DEF IInv, TypeOK, NoReply, Ops, Results
<1>b. UniqueOwner'
  <2>1. \A j, k \in Slots' : Slot(j)'.value # None /\ Slot(j)'.value = Slot(k)'.value => j = k
    BY <1>5, <1>6 DEF IInv, UniqueOwner, InSlots
  <2>2. b \notin held
    BY <1>6 DEF IInv, UniqueOwner
  <2> QED
    BY <1>1, <1>6, <2>1, <2>2 DEF IInv, UniqueOwner, Out
<1>c. GuardsPinned'
  <2>1. \A l \in Out' : /\ Index(l.key) \in Slots'
                        /\ Slot(Index(l.key))'.generation = Generation(l.key)
                        /\ Slot(Index(l.key))'.value = None
    BY <1>3, <1>5, <1>6, GuardSlot
  <2>2. \A k, l \in Out' : Index(k.key) = Index(l.key) => k = l
    BY <1>6 DEF IInv, GuardsPinned, Out
  <2> QED BY <2>1, <2>2 DEF GuardsPinned, Out, Slot
<1>d. FreeListSound'
  <2>1. \A l \in Out' : Index(l.key) \notin FreeSlots
    BY <1>6, GuardSlot
  <2> QED
    BY <2>1, <1>1, <1>2, <1>5, <1>6 DEF IInv, FreeListSound, Out
<1>e. NoSlotLost'
  <2> SUFFICES ASSUME NEW j \in Slots, Retired(j)'
               PROVE  /\ Slot(j)'.generation = MAX_GENERATION
                      /\ issued[New(j, MAX_GENERATION)] # None
    BY <1>1, <1>5 DEF NoSlotLost
  <2>1. j # i
    BY <1>2, <1>5 DEF Retired
  <2>2. Retired(j)
    BY <2>1, <1>1, <1>2, <1>5, <1>6 DEF Retired, i
  <2> QED
    BY <2>2, <1>5 DEF IInv, NoSlotLost
<1>f. SlotsIssued'
  BY <1>1, <1>2, <1>5 DEF IInv, SlotsIssued
<1>g. GuardsIssued'
  BY <1>1, <1>6 DEF IInv, GuardsIssued
<1>h. IssuedBounded'
  <2> SUFFICES ASSUME NEW k \in Usize, issued[k] # None
               PROVE  Index(k) \in Slots /\ Generation(k) \in 1 .. Slot(Index(k))'.generation
    BY <1>1, <1>5 DEF IssuedBounded, Slot
  <2> QED BY <1>5 DEF IInv, IssuedBounded
<1> QED
  BY <1>a, <1>b, <1>c, <1>d, <1>e, <1>f, <1>g, <1>h DEF IInv

\* A forgotten guard: nothing moves, the slot stays pinned for good.
LEMMA ForgetInv ==
  ASSUME IInv, NEW g \in guards, ForgetGuard(g)
  PROVE  IInv'
<1>1. /\ guards' = guards \ {g} /\ forgotten' = forgotten \cup {g}
      /\ reply' = NoReply
      /\ entries' = entries /\ free_indices' = free_indices
      /\ held' = held /\ issued' = issued
  BY DEF ForgetGuard
<1>2. guards' \cup forgotten' = guards \cup forgotten /\ Slots' = Slots /\ FreeSlots' = FreeSlots
  BY <1>1 DEF Slots, FreeSlots
<1>3. Out' = Out /\ InGuards' = InGuards /\ InSlots' = InSlots
  BY <1>1, <1>2 DEF Out, InGuards, InSlots, Slots, Slot
<1>a. TypeOK'
  BY <1>1 DEF IInv, TypeOK, NoReply, Ops, Results
<1>b. UniqueOwner'
  BY <1>1, <1>2, <1>3 DEF IInv, UniqueOwner, Slot
<1>c. GuardsPinned' /\ GuardsIssued' /\ SlotsIssued' /\ IssuedBounded'
  BY <1>1, <1>2, <1>3 DEF IInv, GuardsPinned, GuardsIssued, SlotsIssued, IssuedBounded, Slot
<1>d. FreeListSound'
  BY <1>1, <1>2 DEF IInv, FreeListSound, Slot
<1>e. NoSlotLost'
  BY <1>1, <1>2 DEF IInv, NoSlotLost, Retired, Slot
<1> QED
  BY <1>a, <1>b, <1>c, <1>d, <1>e DEF IInv

\* Every step keeps the invariant.
LEMMA NextInv == IInv /\ [Next]_vars => IInv'
<1> SUFFICES ASSUME IInv, [Next]_vars PROVE IInv'
  OBVIOUS
<1>1. ASSUME NEW b \in Box, NewBox(b) \/ DropBox(b) PROVE IInv'
  BY <1>1, CallerInv
<1>2. ASSUME NEW b \in Box, Register(b) PROVE IInv'
  <2>1. CASE RegisterReuse(b)
    BY <2>1, RegisterReuseInv
  <2>2. CASE RegisterPush(b)
    BY <2>2, RegisterPushInv
  <2>3. CASE RegisterFull(b)
    BY <2>3, CallerInv
  <2> QED BY <1>2, <2>1, <2>2, <2>3 DEF Register
<1>3. ASSUME NEW key \in Usize, Reclaim(key) PROVE IInv'
  <2>1. CASE Refuse("reclaim", key)
    BY <2>1, RefuseInv
  <2>2. CASE /\ Generation(key) < MAX_GENERATION
             /\ Reclaimed(key, Generation(key) + 1)
             /\ free_indices' = Append(free_indices, Index(key))
    BY <2>2, ReclaimInv
  <2>3. CASE /\ Generation(key) >= MAX_GENERATION
             /\ Reclaimed(key, Generation(key))
             /\ UNCHANGED free_indices
    BY <2>3, ReclaimInv
  <2> QED BY <1>3, <2>1, <2>2, <2>3 DEF Reclaim
<1>4. ASSUME NEW key \in Usize, BorrowMut(key) PROVE IInv'
  <2>1. CASE Refuse("borrow_mut", key)
    BY <2>1, RefuseInv
  <2>2. CASE Resolves(key)
    BY <1>4, <2>2, BorrowInv
  <2> QED BY <1>4, <2>1, <2>2 DEF BorrowMut
<1>5. ASSUME NEW g \in guards, TrackedDrop(g) \/ ForgetGuard(g) PROVE IInv'
  BY <1>5, ReturnInv, ForgetInv
<1>6. CASE UNCHANGED vars
  <2>1. TypeOK' /\ held' \cap (InSlots \cup InGuards) = {}
    BY <1>6 DEF IInv, TypeOK, vars, UniqueOwner
  <2> QED BY <1>6, <2>1, SlotsUntouched DEF vars
<1> QED
  BY <1>1, <1>2, <1>3, <1>4, <1>5, <1>6 DEF Next

\* The invariant holds in every state of every run of the tracker.
THEOREM Invariance == Spec => []IInv
<1> QED BY InitInv, NextInv, PTL DEF Spec

\* Every state is well typed.
THEOREM TypeCorrect == Spec => []TypeOK
<1>1. IInv => TypeOK BY DEF IInv
<1> QED BY <1>1, Invariance, PTL

\* No object ever has two owners, in Rust or in the tracker.
THEOREM Ownership == Spec => []UniqueOwner
<1>1. IInv => UniqueOwner BY DEF IInv
<1> QED BY <1>1, Invariance, PTL

\* The expect and the debug_assert_eq of return_mut never fail, and it never
\* overwrites an object.
THEOREM ReturnNeverPanics == Spec => []GuardsPinned
<1>1. IInv => GuardsPinned BY DEF IInv
<1> QED BY <1>1, Invariance, PTL

\* The free list can be trusted: register may use its front unchecked.
THEOREM FreeListTrusted == Spec => []FreeListSound
<1>1. IInv => FreeListSound BY DEF IInv
<1> QED BY <1>1, Invariance, PTL

\* A slot is out of use only when its generations are used up.
THEOREM SlotsAccounted == Spec => []NoSlotLost
<1>1. IInv => NoSlotLost BY DEF IInv
<1> QED BY <1>1, Invariance, PTL
=============================================================================
