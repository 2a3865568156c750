------------------------- MODULE TrackerLockProofs --------------------------
(***************************************************************************)
(* The safety of the tracker's mutex, and that under it every method is    *)
(* one step of trait Tracker, for every number of threads, objects and     *)
(* bits of a handle, whatever loggers and the boundary do.                 *)
(***************************************************************************)
EXTENDS TrackerLock, HandleProofs, SequenceTheorems

(***************************************************************************)
(* What a call has: a guard, a box, and a slot that is its own although    *)
(* the slot is vacant and others may look at it.                           *)
(***************************************************************************)
Guarding(r) == r.op \in {"user", "return_mut"}
Owning(r) == r # None /\ (Guarding(r) \/ r.op = "register" \/ r.at \in {"taken", "advanced", "drop"})
Pointing(r) == r # None /\ (Guarding(r) \/ r.at \in {"slot", "taken", "advanced"})
Target(r) == IF r.op = "register" THEN r.key ELSE Index(r.key)

\* entry.value of slot i.
ValueIn(st, i) == st.entries[i + 1].value

\* The statements of each method, and what its locals are by then.
Places(op) ==
  CASE op = "register"   -> {"lock", "locked", "slot", "log", "self"}
    [] op = "reclaim"    -> {"lock", "locked", "taken", "advanced", "drop", "log", "self"}
    [] op = "borrow_mut" -> {"lock", "locked", "log", "self"}
    [] op = "user"       -> {"use"}
    [] OTHER             -> {"lock", "locked"}
CallOK(r) ==
  r # None => /\ r.at \in Places(r.op)
              /\ r.op # "register" => r.key \in Usize
              /\ Owning(r) => r.box \in Box

FreeOK ==
  /\ Len(state.entries) <= MAX_INDEX + 1
  /\ \A i \in DOMAIN state.free_indices :
       state.free_indices[i] \in Slots /\ ValueIn(state, state.free_indices[i]) = None
  /\ \A i, j \in DOMAIN state.free_indices :
       state.free_indices[i] = state.free_indices[j] => i = j

PointOK ==
  /\ \A t \in Thread : Pointing(call[t]) =>
       /\ Target(call[t]) \in Slots /\ ValueIn(state, Target(call[t])) = None
       /\ \A i \in DOMAIN state.free_indices : state.free_indices[i] # Target(call[t])
  /\ \A t, u \in Thread :
       Pointing(call[t]) /\ Pointing(call[u]) /\ Target(call[t]) = Target(call[u]) => t = u

\* OneOwner, of one object at a time.
BoxOK ==
  /\ \A t, u \in Thread :
       Owning(call[t]) /\ Owning(call[u]) /\ call[t].box = call[u].box => t = u
  /\ \A t \in Thread : Owning(call[t]) =>
       /\ \A i \in Slots : ValueIn(state, i) # call[t].box
       /\ \A g \in lost : g.val # call[t].box
  /\ \A g \in lost : g.val \in Box /\ \A i \in Slots : ValueIn(state, i) # g.val
  /\ \A i, j \in Slots : ValueIn(state, i) # None /\ ValueIn(state, i) = ValueIn(state, j) => i = j

\* Slots and calls.
Core ==
  /\ state \in State
  /\ call \in [Thread -> Call \cup {None}]
  /\ \A t \in Thread : CallOK(call[t])
  /\ FreeOK /\ PointOK /\ BoxOK

\* Exactly the thread that is between lock and unlock has the mutex.
Held(r) == r # None /\ r.at \in Holding
Mutex ==
  /\ mutex \in [owner : Thread \cup {None}, poisoned : BOOLEAN]
  /\ \A t \in Thread : mutex.owner = t <=> Held(call[t])

Rest == committed \in State /\ aborted \in BOOLEAN /\ issued \subseteq Usize

IInv == Core /\ Mutex /\ Rest

-----------------------------------------------------------------------------

\* No entry, no call.
LEMMA InitInv == Init => IInv
<1> SUFFICES ASSUME Init PROVE IInv
  OBVIOUS
<1> USE TrackerLockAssumption
<1>1. /\ state.entries = <<>> /\ state.free_indices = <<>> /\ state \in State
      /\ call \in [Thread -> Call \cup {None}] /\ lost = {}
      /\ \A t \in Thread : call[t] = None
  BY DEF Init, State
<1>2. Slots = {} /\ Len(state.entries) = 0 /\ DOMAIN state.free_indices = {}
  BY <1>1 DEF Slots
<1>3. \A t \in Thread : CallOK(call[t]) /\ ~Owning(call[t]) /\ ~Pointing(call[t]) /\ ~Held(call[t])
  BY <1>1 DEF CallOK, Owning, Pointing, Held
<1>4. FreeOK
  BY <1>2, Limits DEF FreeOK
<1>5. PointOK /\ BoxOK
  BY <1>1, <1>2, <1>3 DEF PointOK, BoxOK
<1>6. Mutex /\ Rest
  BY <1>1, <1>3 DEF Init, Mutex, Rest
<1> QED
  BY <1>1, <1>3, <1>4, <1>5, <1>6 DEF IInv, Core

\* A call of the program is a record of its type.
LEMMA CallIs ==
  ASSUME Core, NEW t \in Thread, InCall(t)
  PROVE  /\ call[t] \in Call /\ CallOK(call[t]) /\ call[t] # None
         /\ call[t].op \in {"register", "reclaim", "borrow_mut", "user", "return_mut"}
         /\ call[t].key \in Usize \cup {None} /\ call[t].box \in Box \cup {None}
         /\ call[t].unwinding \in BOOLEAN
BY DEF Core, InCall, Call

\* What the steps that write more than `at` make of a call: register has found
\* its index, reclaim has taken the box, borrow_mut has returned a guard, and
\* the drop of a guard calls return_mut.
WithSlot(r, x) == [r EXCEPT !.at = "slot", !.key = x]
WithBox(r, b) == [r EXCEPT !.at = "taken", !.box = b]
WithGuard(r, b) == [r EXCEPT !.op = "user", !.at = "use", !.box = b]
Returning(r, panics) == [r EXCEPT !.op = "return_mut", !.at = "lock", !.unwinding = panics]

\* All four are calls, with the other fields as they were.
LEMMA WithSlotIs ==
  ASSUME NEW r \in Call, NEW x \in Usize
  PROVE  LET s == WithSlot(r, x)
         IN  s \in Call /\ s # None /\ s.op = r.op /\ s.at = "slot" /\ s.key = x /\ s.box = r.box
<1>1. LET s == WithSlot(r, x)
      IN  s \in Call /\ s.op = r.op /\ s.at = "slot" /\ s.key = x /\ s.box = r.box
  BY DEF WithSlot, Call, Holding
<1> QED BY <1>1, TrackerLockAssumption

\* As WithSlotIs.
LEMMA WithBoxIs ==
  ASSUME NEW r \in Call, NEW b \in Box \cup {None}
  PROVE  LET s == WithBox(r, b)
         IN  s \in Call /\ s # None /\ s.op = r.op /\ s.at = "taken" /\ s.key = r.key /\ s.box = b
<1>1. LET s == WithBox(r, b)
      IN  s \in Call /\ s.op = r.op /\ s.at = "taken" /\ s.key = r.key /\ s.box = b
  BY DEF WithBox, Call, Holding
<1> QED BY <1>1, TrackerLockAssumption

\* As WithSlotIs.
LEMMA WithGuardIs ==
  ASSUME NEW r \in Call, NEW b \in Box \cup {None}
  PROVE  LET s == WithGuard(r, b)
         IN  s \in Call /\ s # None /\ s.op = "user" /\ s.at = "use" /\ s.key = r.key /\ s.box = b
<1>1. LET s == WithGuard(r, b)
      IN  s \in Call /\ s.op = "user" /\ s.at = "use" /\ s.key = r.key /\ s.box = b
  BY DEF WithGuard, Call
<1> QED BY <1>1, TrackerLockAssumption

\* As WithSlotIs.
LEMMA ReturningIs ==
  ASSUME NEW r \in Call, NEW panics \in BOOLEAN
  PROVE  LET s == Returning(r, panics)
         IN  s \in Call /\ s # None /\ s.op = "return_mut" /\ s.at = "lock" /\ s.key = r.key /\ s.box = r.box
<1>1. LET s == Returning(r, panics)
      IN  s \in Call /\ s.op = "return_mut" /\ s.at = "lock" /\ s.key = r.key /\ s.box = r.box
  BY DEF Returning, Call
<1> QED BY <1>1, TrackerLockAssumption

\* A call that goes on to another statement.
LEMMA CallAt ==
  ASSUME NEW r \in Call, NEW a \in {"lock", "drop", "use"} \cup Holding
  PROVE  LET s == [r EXCEPT !.at = a]
         IN  /\ s \in Call /\ s.at = a /\ s # None
             /\ s.op = r.op /\ s.key = r.key /\ s.box = r.box /\ s.unwinding = r.unwinding
BY TrackerLockAssumption DEF Call

\* The calls of the others stay as they are.
LEMMA CallNext ==
  ASSUME Core, NEW t \in Thread, NEW r \in Call \cup {None}, call' = [call EXCEPT ![t] = r]
  PROVE  /\ call' \in [Thread -> Call \cup {None}] /\ call'[t] = r
         /\ \A u \in Thread \ {t} : call'[u] = call[u]
BY DEF Core

\* The entries are records, their slots numbers below their count.
LEMMA Entries ==
  ASSUME state \in State
  PROVE  /\ state.entries \in Seq(Entry) /\ state.free_indices \in Seq(0 .. MAX_INDEX)
         /\ Len(state.entries) \in Nat
         /\ \A i \in Slots : /\ i \in Nat /\ i + 1 \in 1 .. Len(state.entries) /\ Slot(i) \in Entry
                             /\ ValueIn(state, i) \in Box \cup {None}
                             /\ Slot(i).generation \in 1 .. MAX_GENERATION
<1>1. state.entries \in Seq(Entry) /\ state.free_indices \in Seq(0 .. MAX_INDEX)
  BY DEF State
<1>2. Len(state.entries) \in Nat
  BY <1>1
<1>3. ASSUME NEW i \in Slots
      PROVE  i \in Nat /\ i + 1 \in 1 .. Len(state.entries) /\ Slot(i) \in Entry
  <2>1. i \in Nat /\ i + 1 \in 1 .. Len(state.entries)
    BY <1>2 DEF Slots
  <2> QED BY <1>1, <2>1 DEF Slot
<1> QED
  BY <1>1, <1>2, <1>3 DEF Entry, Slot, ValueIn

(***************************************************************************)
(* The kinds of step.                                                      *)
(***************************************************************************)

\* No slot has another value, none is freed and none is taken from the free list.
SameValues ==
  /\ state' \in State
  /\ Len(state'.entries) = Len(state.entries)
  /\ state'.free_indices = state.free_indices
  /\ \A i \in Slots : ValueIn(state', i) = ValueIn(state, i)

\* The call of t becomes r, by which it comes to own and point at nothing new.
LEMMA Control ==
  ASSUME Core, NEW t \in Thread, NEW r \in Call \cup {None}, call' = [call EXCEPT ![t] = r],
         state' = state \/ SameValues, UNCHANGED lost, CallOK(r),
         Owning(r) => Owning(call[t]) /\ r.box = call[t].box,
         Pointing(r) => Pointing(call[t]) /\ Target(r) = Target(call[t])
  PROVE  Core'
<1>1. /\ call' \in [Thread -> Call \cup {None}] /\ call'[t] = r
      /\ \A u \in Thread \ {t} : call'[u] = call[u]
  BY CallNext
<1>2. \A u \in Thread : Owning(call'[u]) => Owning(call[u]) /\ call'[u].box = call[u].box
  BY <1>1
<1>3. \A u \in Thread : Pointing(call'[u]) => Pointing(call[u]) /\ Target(call'[u]) = Target(call[u])
  BY <1>1
<1>4. SameValues
  BY DEF Core, SameValues
<1>5. Slots' = Slots
  BY <1>4 DEF SameValues, Slots
<1>6. FreeOK'
  BY <1>4, <1>5 DEF Core, FreeOK, SameValues
<1>7. PointOK'
  BY <1>3, <1>4, <1>5 DEF Core, PointOK, SameValues
<1>8. BoxOK'
  BY <1>2, <1>4, <1>5 DEF Core, BoxOK, SameValues
<1>9. \A u \in Thread : CallOK(call'[u])
  BY <1>1 DEF Core
<1> QED
  BY <1>1, <1>4, <1>6, <1>7, <1>8, <1>9 DEF Core, SameValues

\* The slot x has v; the others, the generations apart, have what they had.
Stored(x, v) ==
  /\ x \in Slots /\ state' \in State
  /\ Len(state'.entries) = Len(state.entries)
  /\ state'.free_indices = state.free_indices
  /\ \A i \in Slots : ValueIn(state', i) = IF i = x THEN v ELSE ValueIn(state, i)

\* An assignment to entry.value.
LEMMA SetValue ==
  ASSUME state \in State, NEW x \in Slots, NEW v \in Box \cup {None},
         state' = [state EXCEPT !.entries[x + 1].value = v]
  PROVE  Stored(x, v)
<1> DEFINE e == state.entries
           new == [e EXCEPT ![x + 1] = [e[x + 1] EXCEPT !.value = v]]
<1>1. /\ e \in Seq(Entry) /\ Len(e) \in Nat /\ x + 1 \in 1 .. Len(e) /\ e[x + 1] \in Entry
      /\ state.free_indices \in Seq(0 .. MAX_INDEX)
  BY Entries DEF Slot
<1>2. [e[x + 1] EXCEPT !.value = v] \in Entry /\ [e[x + 1] EXCEPT !.value = v].value = v
  BY <1>1 DEF Entry
<1>3. new \in Seq(Entry) /\ Len(new) = Len(e)
      /\ \A i \in 1 .. Len(e) : new[i] = IF i = x + 1 THEN [e[x + 1] EXCEPT !.value = v] ELSE e[i]
  BY <1>1, <1>2
<1>4. state' = [state EXCEPT !.entries = new]
  OBVIOUS
<1> HIDE DEF new
<1>5. state'.entries = new /\ state'.free_indices = state.free_indices /\ state' \in State
  BY <1>1, <1>3, <1>4 DEF State
<1>6. ASSUME NEW i \in Slots PROVE ValueIn(state', i) = IF i = x THEN v ELSE ValueIn(state, i)
  <2>1. i \in Nat /\ x \in Nat /\ i + 1 \in 1 .. Len(e)
    BY Entries
  <2> QED BY <1>2, <1>3, <1>5, <2>1 DEF ValueIn
<1> QED
  BY <1>3, <1>5, <1>6 DEF Stored

\* A slot that is stored to is one there was; what is free stays free if it was
\* not stored to.
LEMMA StoredFree ==
  ASSUME Core, NEW x, NEW v, Stored(x, v),
         \A i \in DOMAIN state.free_indices : state.free_indices[i] # x
  PROVE  Slots' = Slots /\ FreeOK'
BY DEF Core, FreeOK, Stored, Slots

\* t puts its box in the slot it points at, and returns.
LEMMA Fill ==
  ASSUME Core, NEW t \in Thread, call' = [call EXCEPT ![t] = None], UNCHANGED lost,
         Owning(call[t]), Pointing(call[t]), Stored(Target(call[t]), call[t].box)
  PROVE  Core'
<1> DEFINE x == Target(call[t])
           b == call[t].box
<1>1. /\ call' \in [Thread -> Call \cup {None}] /\ call'[t] = None
      /\ \A u \in Thread \ {t} : call'[u] = call[u]
  BY CallNext
<1>2. ~Owning(None) /\ ~Pointing(None) /\ CallOK(None)
  BY DEF Owning, Pointing, CallOK
<1>3. /\ Slots' = Slots /\ FreeOK'
      /\ \A i \in Slots : ValueIn(state', i) = IF i = x THEN b ELSE ValueIn(state, i)
  BY StoredFree DEF Core, PointOK, Stored
<1>4. PointOK'
  <2>1. \A u \in Thread : Pointing(call'[u]) => u # t /\ Pointing(call[u]) /\ call'[u] = call[u]
                                               /\ Target(call[u]) # x
    BY <1>1, <1>2 DEF Core, PointOK
  <2>2. state'.free_indices = state.free_indices
    BY DEF Stored
  <2> QED BY <1>3, <2>1, <2>2 DEF Core, PointOK
<1>5. BoxOK'
  <2>1. \A u \in Thread : Owning(call'[u]) => u # t /\ Owning(call[u]) /\ call'[u] = call[u]
                                             /\ call[u].box # b
    BY <1>1, <1>2 DEF Core, BoxOK
  <2>2. \A g \in lost : g.val # b
    BY DEF Core, BoxOK
  <2>3. \A i \in Slots : ValueIn(state, i) # b
    BY DEF Core, BoxOK
  <2> HIDE DEF x, b
  <2> QED BY <1>3, <2>1, <2>2, <2>3 DEF Core, BoxOK
<1>6. \A u \in Thread : CallOK(call'[u])
  BY <1>1, <1>2 DEF Core
<1> QED
  BY <1>1, <1>3, <1>4, <1>5, <1>6 DEF Core, Stored

\* t takes the box of a slot that has one, and points at the slot from now on.
LEMMA Empty ==
  ASSUME Core, NEW t \in Thread, NEW r \in Call, call' = [call EXCEPT ![t] = r],
         UNCHANGED lost, CallOK(r), r.box # None,
         NEW x \in Slots, ValueIn(state, x) = r.box, Target(r) = x, Stored(x, None)
  PROVE  Core'
<1> DEFINE b == r.box
<1>1. /\ call' \in [Thread -> Call \cup {None}] /\ call'[t] = r
      /\ \A u \in Thread \ {t} : call'[u] = call[u]
  BY CallNext
<1>2. \A i \in DOMAIN state.free_indices : state.free_indices[i] # x
  BY DEF Core, FreeOK
<1>3. /\ Slots' = Slots /\ FreeOK' /\ state'.free_indices = state.free_indices
      /\ \A i \in Slots : ValueIn(state', i) = IF i = x THEN None ELSE ValueIn(state, i)
  <2>1. Slots' = Slots /\ FreeOK'
    BY <1>2, StoredFree
  <2> QED BY <2>1 DEF Stored
<1>4. PointOK'
  <2>1. \A u \in Thread : Pointing(call[u]) => Target(call[u]) # x
    BY DEF Core, PointOK
  <2>2. \A u \in Thread : Pointing(call'[u]) =>
          /\ Target(call'[u]) \in Slots /\ ValueIn(state', Target(call'[u])) = None
          /\ \A i \in DOMAIN state.free_indices : state.free_indices[i] # Target(call'[u])
    BY <1>1, <1>2, <1>3 DEF Core, PointOK
  <2>3. \A u, w \in Thread :
          Pointing(call'[u]) /\ Pointing(call'[w]) /\ Target(call'[u]) = Target(call'[w]) => u = w
    BY <1>1, <2>1 DEF Core, PointOK
  <2> QED BY <1>3, <2>2, <2>3 DEF PointOK
<1>5. BoxOK'
  <2>1. \A u \in Thread \ {t} : Owning(call'[u]) => Owning(call[u]) /\ call[u].box # b
    BY <1>1 DEF Core, BoxOK
  <2>2. b \in Box /\ (\A g \in lost : g.val # b)
    BY Entries DEF Core, BoxOK
  <2>3. \A i \in Slots : ValueIn(state', i) = None \/ (ValueIn(state', i) = ValueIn(state, i) /\ ValueIn(state, i) # b)
    BY <1>3 DEF Core, BoxOK
  <2>4. \A u, w \in Thread :
          Owning(call'[u]) /\ Owning(call'[w]) /\ call'[u].box = call'[w].box => u = w
    BY <1>1, <2>1 DEF Core, BoxOK
  <2>5. ASSUME NEW u \in Thread, Owning(call'[u])
        PROVE  /\ \A i \in Slots : ValueIn(state', i) # call'[u].box
               /\ \A g \in lost : g.val # call'[u].box
    <3>1. CASE u = t
      BY <1>1, <2>2, <2>3, <3>1, TrackerLockAssumption
    <3>2. CASE u # t
      <4>1. call'[u] = call[u] /\ Owning(call[u]) /\ call[u].box # None
        BY <1>1, <2>5, <3>2, TrackerLockAssumption DEF Core, CallOK, Owning
      <4> QED BY <2>3, <4>1 DEF Core, BoxOK
    <3> QED BY <3>1, <3>2
  <2>6. \A g \in lost : g.val \in Box /\ \A i \in Slots : ValueIn(state', i) # g.val
    BY <2>3, TrackerLockAssumption DEF Core, BoxOK
  <2>7. \A i, j \in Slots : ValueIn(state', i) # None /\ ValueIn(state', i) = ValueIn(state', j) => i = j
    BY <2>3 DEF Core, BoxOK
  <2> QED BY <1>3, <2>4, <2>5, <2>6, <2>7 DEF BoxOK
<1>6. \A u \in Thread : CallOK(call'[u])
  BY <1>1 DEF Core
<1> QED
  BY <1>1, <1>3, <1>4, <1>5, <1>6 DEF Core, Stored

\* The owners and the places of the module are those of the invariant.
LEMMA Owners ==
  ASSUME Core
  PROVE  /\ \A t \in Thread : Owning(call[t]) <=> HasGuard(t) \/ HasBox(t)
         /\ \A b \in InSlots(state) : \E i \in Slots : ValueIn(state, i) = b /\ b # None
         /\ \A i \in Slots : ValueIn(state, i) # None => ValueIn(state, i) \in InSlots(state)
<1>1. \A t \in Thread : Owning(call[t]) <=> HasGuard(t) \/ HasBox(t)
  BY DEF Owning, Guarding, HasGuard, HasBox, InCall
<1>2. Len(state.entries) \in Nat /\ DOMAIN state.entries = 1 .. Len(state.entries)
  BY Entries DEF Core
<1>3. ASSUME NEW b \in InSlots(state) PROVE \E i \in Slots : ValueIn(state, i) = b /\ b # None
  <2>1. PICK i \in 1 .. Len(state.entries) : state.entries[i].value = b /\ b # None
    BY <1>2 DEF InSlots
  <2>2. i - 1 \in Slots /\ (i - 1) + 1 = i
    BY <1>2 DEF Slots
  <2> QED BY <2>1, <2>2 DEF ValueIn
<1>4. ASSUME NEW i \in Slots, ValueIn(state, i) # None PROVE ValueIn(state, i) \in InSlots(state)
  <2>1. i + 1 \in DOMAIN state.entries
    BY <1>2, Entries DEF Core
  <2> QED BY <1>4, <2>1 DEF ValueIn, InSlots
<1> QED
  BY <1>1, <1>3, <1>4

\* t comes to own a box that was nowhere.
LEMMA Acquire ==
  ASSUME Core, NEW t \in Thread, NEW r \in Call, call' = [call EXCEPT ![t] = r],
         UNCHANGED <<state, lost>>, CallOK(r), ~Pointing(r),
         r.box \in Box \ (InSlots(state) \cup InFrames \cup InLost)
  PROVE  Core'
<1>1. /\ call' \in [Thread -> Call \cup {None}] /\ call'[t] = r
      /\ \A u \in Thread \ {t} : call'[u] = call[u]
  BY CallNext
<1>2. /\ \A u \in Thread : Owning(call[u]) => call[u].box # r.box
      /\ \A g \in lost : g.val # r.box
      /\ \A i \in Slots : ValueIn(state, i) # r.box
  BY Owners, TrackerLockAssumption DEF InFrames, InLost
<1>3. Slots' = Slots
  BY DEF Slots
<1>4. FreeOK'
  BY <1>3 DEF Core, FreeOK
<1>5. PointOK'
  BY <1>1, <1>3 DEF Core, PointOK
<1>6. BoxOK'
  BY <1>1, <1>2, <1>3 DEF Core, BoxOK
<1>7. \A u \in Thread : CallOK(call'[u])
  BY <1>1 DEF Core
<1> QED
  BY <1>1, <1>4, <1>5, <1>6, <1>7 DEF Core

\* t loses the object of its guard.
LEMMA Lose ==
  ASSUME Core, NEW t \in Thread, call' = [call EXCEPT ![t] = None], UNCHANGED state,
         Owning(call[t]), NEW g, g.val = call[t].box, lost' = lost \cup {g}
  PROVE  Core'
<1>1. /\ call' \in [Thread -> Call \cup {None}] /\ call'[t] = None
      /\ \A u \in Thread \ {t} : call'[u] = call[u]
  BY CallNext
<1>2. ~Owning(None) /\ ~Pointing(None) /\ CallOK(None)
  BY DEF Owning, Pointing, CallOK
<1>3. Slots' = Slots
  BY DEF Slots
<1>4. FreeOK'
  BY <1>3 DEF Core, FreeOK
<1>5. PointOK'
  BY <1>1, <1>2, <1>3 DEF Core, PointOK
<1>6. BoxOK'
  <2>1. \A u \in Thread : Owning(call'[u]) => u # t /\ Owning(call[u]) /\ call'[u] = call[u]
                                             /\ call[u].box # g.val
    BY <1>1, <1>2 DEF Core, BoxOK
  <2>2. g.val \in Box /\ \A i \in Slots : ValueIn(state, i) # g.val
    BY DEF Core, BoxOK, CallOK, Owning
  <2> QED BY <1>3, <2>1, <2>2 DEF Core, BoxOK
<1>7. \A u \in Thread : CallOK(call'[u])
  BY <1>1, <1>2 DEF Core
<1> QED
  BY <1>1, <1>4, <1>5, <1>6, <1>7 DEF Core

\* What the statements of register and reclaim do to the free list and to entries.
Popped(x) ==
  /\ state.free_indices # <<>> /\ x = Head(state.free_indices)
  /\ state' = [state EXCEPT !.free_indices = Tail(@)]
Pushed(x) ==
  /\ Len(state.entries) <= MAX_INDEX /\ x = Len(state.entries)
  /\ state' = [state EXCEPT !.entries = Append(@, [value |-> None, generation |-> 1])]
Freed(x) == state' = [state EXCEPT !.free_indices = Append(@, x)]

\* register takes an index off the free list.
LEMMA Pop ==
  ASSUME Core, NEW t \in Thread, NEW r \in Call, call' = [call EXCEPT ![t] = r],
         UNCHANGED lost, CallOK(r),
         Owning(r) => Owning(call[t]) /\ r.box = call[t].box,
         Popped(Target(r))
  PROVE  Core'
<1> DEFINE f == state.free_indices
           tail == Tail(f)
<1>1. /\ call' \in [Thread -> Call \cup {None}] /\ call'[t] = r
      /\ \A u \in Thread \ {t} : call'[u] = call[u]
  BY CallNext
<1>2. /\ f \in Seq(0 .. MAX_INDEX) /\ Len(f) \in Nat /\ Len(f) # 0 /\ Target(r) = f[1]
      /\ tail \in Seq(0 .. MAX_INDEX) /\ DOMAIN tail = 1 .. (Len(f) - 1)
      /\ \A i \in 1 .. (Len(f) - 1) : tail[i] = f[i + 1]
  <2>1. f \in Seq(0 .. MAX_INDEX) /\ f # <<>> /\ Target(r) = Head(f)
    BY Entries DEF Core, Popped
  <2>2. /\ Len(f) \in Nat /\ Len(f) # 0 /\ Head(f) = f[1]
    BY <2>1
  <2>3. /\ tail \in Seq(0 .. MAX_INDEX) /\ Len(tail) = Len(f) - 1
        /\ \A i \in 1 .. Len(tail) : tail[i] = f[i + 1]
    BY <2>1, HeadTailProperties
  <2> HIDE DEF tail
  <2> QED BY <2>1, <2>2, <2>3
<1>3. /\ \A i \in DOMAIN tail : i + 1 \in DOMAIN f /\ i + 1 # 1 /\ tail[i] = f[i + 1]
      /\ \A i, j \in DOMAIN tail : i + 1 = j + 1 => i = j
      /\ 1 \in DOMAIN f
  BY <1>2
<1> HIDE DEF tail
<1>4. state'.free_indices = tail /\ state'.entries = state.entries /\ state' \in State
  BY <1>2 DEF Core, State, Popped, tail
<1>5. /\ Slots' = Slots
      /\ \A i \in Slots : ValueIn(state', i) = ValueIn(state, i)
  BY <1>4 DEF Slots, ValueIn
<1>6. FreeOK'
  BY <1>3, <1>4, <1>5 DEF Core, FreeOK
<1>7. PointOK'
  <2>1. ASSUME NEW u \in Thread, Pointing(call'[u])
        PROVE  /\ Target(call'[u]) \in Slots /\ ValueIn(state', Target(call'[u])) = None
               /\ \A i \in DOMAIN tail : tail[i] # Target(call'[u])
    <3>1. CASE u = t
      BY <1>1, <1>2, <1>3, <1>5, <3>1 DEF Core, FreeOK
    <3>2. CASE u # t
      BY <1>1, <1>3, <1>5, <2>1, <3>2 DEF Core, PointOK
    <3> QED BY <3>1, <3>2
  <2>2. \A u \in Thread \ {t} : Pointing(call[u]) => Target(call[u]) # f[1]
    BY <1>3 DEF Core, PointOK
  <2>3. \A u, w \in Thread :
          Pointing(call'[u]) /\ Pointing(call'[w]) /\ Target(call'[u]) = Target(call'[w]) => u = w
    BY <1>1, <1>2, <2>2 DEF Core, PointOK
  <2> QED BY <1>4, <1>5, <2>1, <2>3 DEF PointOK
<1>8. BoxOK'
  <2>1. \A u \in Thread : Owning(call'[u]) => Owning(call[u]) /\ call'[u].box = call[u].box
    BY <1>1
  <2> QED BY <1>5, <2>1 DEF Core, BoxOK
<1>9. \A u \in Thread : CallOK(call'[u])
  BY <1>1 DEF Core
<1> QED
  BY <1>1, <1>4, <1>6, <1>7, <1>8, <1>9 DEF Core

\* register makes an entry.
LEMMA Push ==
  ASSUME Core, NEW t \in Thread, NEW r \in Call, call' = [call EXCEPT ![t] = r],
         UNCHANGED lost, CallOK(r),
         Owning(r) => Owning(call[t]) /\ r.box = call[t].box,
         Pushed(Target(r))
  PROVE  Core'
<1> DEFINE e == state.entries
           n == Len(e)
           b == [value |-> None, generation |-> 1]
           new == Append(e, b)
<1>1. /\ call' \in [Thread -> Call \cup {None}] /\ call'[t] = r
      /\ \A u \in Thread \ {t} : call'[u] = call[u]
  BY CallNext
<1>t. Target(r) = n
  BY DEF Pushed
<1>2. b \in Entry /\ b.value = None
  BY Limits DEF Entry
<1>3. /\ e \in Seq(Entry) /\ n \in Nat /\ new \in Seq(Entry) /\ Len(new) = n + 1
      /\ new[n + 1] = b /\ \A i \in 1 .. n : new[i] = e[i]
  <2> HIDE DEF b
  <2>1. e \in Seq(Entry)
    BY Entries DEF Core
  <2> QED BY <1>2, <2>1
<1> HIDE DEF new, b
<1>4. state'.entries = new /\ state'.free_indices = state.free_indices /\ state' \in State
  BY <1>3 DEF Core, State, Pushed, new, b
<1>5. /\ Slots' = Slots \cup {n} /\ n \notin Slots
      /\ \A i \in Slots : ValueIn(state', i) = ValueIn(state, i)
      /\ ValueIn(state', n) = None
  <2>1. Slots = 0 .. (n - 1) /\ Slots' = 0 .. n /\ (n + 1) - 1 = n
    BY <1>3, <1>4 DEF Slots
  <2>2. \A i \in Slots : i + 1 \in 1 .. n
    BY <1>3, <2>1
  <2> QED BY <1>2, <1>3, <1>4, <2>1, <2>2 DEF ValueIn
<1>6. FreeOK'
  <2>1. Len(new) <= MAX_INDEX + 1
    BY <1>3, Limits DEF Pushed
  <2> QED BY <1>4, <1>5, <2>1 DEF Core, FreeOK
<1>7. PointOK'
  <2>1. ASSUME NEW u \in Thread, Pointing(call'[u])
        PROVE  /\ Target(call'[u]) \in Slots' /\ ValueIn(state', Target(call'[u])) = None
               /\ \A i \in DOMAIN state.free_indices : state.free_indices[i] # Target(call'[u])
    <3>1. CASE u = t
      BY <1>1, <1>5, <1>t, <3>1 DEF Core, FreeOK
    <3>2. CASE u # t
      BY <1>1, <1>5, <2>1, <3>2 DEF Core, PointOK
    <3> QED BY <3>1, <3>2
  <2>2. \A u \in Thread \ {t} : Pointing(call[u]) => Target(call[u]) # n
    BY <1>5 DEF Core, PointOK
  <2>3. \A u, w \in Thread :
          Pointing(call'[u]) /\ Pointing(call'[w]) /\ Target(call'[u]) = Target(call'[w]) => u = w
    BY <1>1, <1>t, <2>2 DEF Core, PointOK
  <2> QED BY <1>4, <2>1, <2>3 DEF PointOK
<1>8. BoxOK'
  <2>1. \A u \in Thread : Owning(call'[u]) => Owning(call[u]) /\ call'[u].box = call[u].box
                                             /\ call[u].box # None
    BY <1>1, TrackerLockAssumption DEF Core, CallOK, Owning
  <2>2. \A g \in lost : g.val # None
    BY TrackerLockAssumption DEF Core, BoxOK
  <2> QED BY <1>5, <2>1, <2>2 DEF Core, BoxOK
<1>9. \A u \in Thread : CallOK(call'[u])
  BY <1>1 DEF Core
<1> QED
  BY <1>1, <1>4, <1>6, <1>7, <1>8, <1>9 DEF Core

\* reclaim frees the index it points at.
LEMMA Free ==
  ASSUME Core, NEW t \in Thread, NEW r \in Call, call' = [call EXCEPT ![t] = r],
         UNCHANGED lost, CallOK(r), ~Pointing(r),
         Owning(r) => Owning(call[t]) /\ r.box = call[t].box,
         Pointing(call[t]), Freed(Target(call[t]))
  PROVE  Core'
<1> DEFINE f == state.free_indices
           x == Target(call[t])
           new == Append(f, x)
<1>1. /\ call' \in [Thread -> Call \cup {None}] /\ call'[t] = r
      /\ \A u \in Thread \ {t} : call'[u] = call[u]
  BY CallNext
<1>2. x \in Slots /\ ValueIn(state, x) = None /\ \A i \in DOMAIN f : f[i] # x
  BY DEF Core, PointOK
<1>3. x \in 0 .. MAX_INDEX
  <2>1. Len(state.entries) \in Nat /\ Len(state.entries) <= MAX_INDEX + 1
    BY Entries DEF Core, FreeOK
  <2> QED BY <1>2, <2>1, Limits DEF Slots
<1> HIDE DEF x
<1>4. /\ f \in Seq(0 .. MAX_INDEX) /\ Len(f) \in Nat /\ DOMAIN f = 1 .. Len(f)
      /\ new \in Seq(0 .. MAX_INDEX) /\ DOMAIN new = 1 .. (Len(f) + 1)
      /\ new[Len(f) + 1] = x /\ \A i \in 1 .. Len(f) : new[i] = f[i]
  <2>1. f \in Seq(0 .. MAX_INDEX)
    BY Entries DEF Core
  <2> QED BY <1>3, <2>1
<1>5. \A i \in DOMAIN new : (i \in DOMAIN f /\ new[i] = f[i]) \/ (i = Len(f) + 1 /\ new[i] = x)
  BY <1>4
<1> HIDE DEF new
<1>6. state'.free_indices = new /\ state'.entries = state.entries /\ state' \in State
  BY <1>4 DEF Core, State, Freed, new, x
<1>7. /\ Slots' = Slots
      /\ \A i \in Slots : ValueIn(state', i) = ValueIn(state, i)
  BY <1>6 DEF Slots, ValueIn
<1>8. FreeOK'
  BY <1>2, <1>5, <1>6, <1>7 DEF Core, FreeOK
<1>9. PointOK'
  <2>1. \A u \in Thread : Pointing(call'[u]) => /\ u # t /\ call'[u] = call[u] /\ Pointing(call[u])
                                               /\ Target(call[u]) # x
    BY <1>1 DEF Core, PointOK, x
  <2>2. \A u \in Thread : Pointing(call'[u]) => \A i \in DOMAIN new : new[i] # Target(call'[u])
    BY <1>5, <2>1 DEF Core, PointOK
  <2> QED BY <1>6, <1>7, <2>1, <2>2 DEF Core, PointOK
<1>10. BoxOK'
  <2>1. \A u \in Thread : Owning(call'[u]) => Owning(call[u]) /\ call'[u].box = call[u].box
    BY <1>1
  <2> QED BY <1>7, <2>1 DEF Core, BoxOK
<1>11. \A u \in Thread : CallOK(call'[u])
  BY <1>1 DEF Core
<1> QED
  BY <1>1, <1>6, <1>8, <1>9, <1>10, <1>11 DEF Core

\* Nobody but t gets or gives back the mutex.
LEMMA MutexNext ==
  ASSUME Core, Mutex, NEW t \in Thread, NEW r \in Call \cup {None}, call' = [call EXCEPT ![t] = r],
         \/ mutex' = mutex /\ (Held(r) <=> Held(call[t]))
         \/ mutex.owner = None /\ mutex' = [mutex EXCEPT !.owner = t] /\ Held(r)
         \/ /\ Held(call[t]) /\ ~Held(r)
            /\ mutex' = [mutex EXCEPT !.owner = None] \/ mutex' = [owner |-> None, poisoned |-> TRUE]
  PROVE  Mutex'
<1>1. /\ call'[t] = r /\ \A u \in Thread \ {t} : call'[u] = call[u]
  BY CallNext
<1>2. /\ mutex \in [owner : Thread \cup {None}, poisoned : BOOLEAN]
      /\ \A u \in Thread : mutex.owner = u <=> Held(call[u])
      /\ None \notin Thread
  BY TrackerLockAssumption DEF Mutex
<1>3. /\ mutex' \in [owner : Thread \cup {None}, poisoned : BOOLEAN]
      /\ \/ mutex'.owner = mutex.owner /\ (Held(r) <=> Held(call[t]))
         \/ mutex.owner = None /\ mutex'.owner = t /\ Held(r)
         \/ Held(call[t]) /\ ~Held(r) /\ mutex'.owner = None
  <2>1. CASE mutex' = mutex /\ (Held(r) <=> Held(call[t]))
    BY <1>2, <2>1
  <2>2. CASE mutex.owner = None /\ mutex' = [mutex EXCEPT !.owner = t] /\ Held(r)
    BY <1>2, <2>2
  <2>3. CASE Held(call[t]) /\ ~Held(r) /\ mutex' = [mutex EXCEPT !.owner = None]
    BY <1>2, <2>3
  <2>4. CASE Held(call[t]) /\ ~Held(r) /\ mutex' = [owner |-> None, poisoned |-> TRUE]
    BY <1>2, <2>4
  <2> QED BY <2>1, <2>2, <2>3, <2>4
<1> QED
  BY <1>1, <1>2, <1>3 DEF Mutex

-----------------------------------------------------------------------------
(***************************************************************************)
(* The actions.                                                            *)
(***************************************************************************)

\* A statement that only goes on to another one.
LEMMA GotoIs ==
  ASSUME Core, NEW t \in Thread, InCall(t), NEW a \in {"lock", "drop", "use"} \cup Holding, Goto(t, a)
  PROVE  \E r \in Call :
           /\ call' = [call EXCEPT ![t] = r] /\ r # None /\ r.at = a
           /\ r.op = call[t].op /\ r.key = call[t].key /\ r.box = call[t].box
<1> DEFINE r == [call[t] EXCEPT !.at = a]
<1>1. /\ r \in Call /\ r # None /\ r.at = a
      /\ r.op = call[t].op /\ r.key = call[t].key /\ r.box = call[t].box
  BY CallIs, CallAt
<1>2. call' = [call EXCEPT ![t] = r]
  BY DEF Goto
<1> QED
  BY <1>1, <1>2

\* No call at all is a call like the others.
LEMMA NoCall == CallOK(None) /\ ~Owning(None) /\ ~Pointing(None) /\ ~Held(None)
BY DEF CallOK, Owning, Pointing, Held

\* C calls: the box of new_counter is one that is nowhere.
LEMMA EnterInv ==
  ASSUME IInv, NEW t \in Thread,
         NewCounter(t) \/ \E key \in Passed : FreeCounter(t, key) \/ IncreaseCounter(t, key)
  PROVE  IInv'
<1>1. PICK op \in {"register", "reclaim", "borrow_mut"}, key \in Usize \cup {None}, box \in Box \cup {None} :
        /\ Enter(t, op, key, box)
        /\ op = "register" => box \in Box \ (InSlots(state) \cup InFrames \cup InLost)
        /\ op # "register" => key \in Usize
  BY DEF NewCounter, FreeCounter, IncreaseCounter, Passed
<1> DEFINE r == [op |-> op, at |-> "lock", key |-> key, box |-> box, unwinding |-> FALSE]
<1>2. /\ ~InCall(t) /\ call' = [call EXCEPT ![t] = r]
      /\ UNCHANGED <<state, mutex, aborted, committed, issued, lost>>
  BY <1>1 DEF Enter
<1>3. /\ r \in Call /\ r # None /\ r.op = op /\ r.at = "lock" /\ r.key = key /\ r.box = box
  <2>1. r \in Call
    BY DEF Call
  <2> QED BY <2>1, TrackerLockAssumption
<1> HIDE DEF r
<1>4. CallOK(r) /\ ~Pointing(r) /\ ~Held(r) /\ (Owning(r) => op = "register")
  BY <1>1, <1>3 DEF CallOK, Places, Pointing, Guarding, Held, Holding, Owning
<1>5. Core'
  <2>1. CASE op = "register"
    BY <1>1, <1>2, <1>3, <1>4, <2>1, Acquire DEF IInv
  <2>2. CASE op # "register"
    BY <1>2, <1>3, <1>4, <2>2, Control DEF IInv
  <2> QED BY <2>1, <2>2
<1>6. ~Held(call[t])
  BY <1>2 DEF Held, InCall
<1>7. Mutex'
  BY <1>2, <1>3, <1>4, <1>6, MutexNext DEF IInv
<1> QED
  BY <1>2, <1>5, <1>7 DEF IInv, Rest

\* lock() succeeds.
LEMMA LockInv ==
  ASSUME IInv, NEW t \in Thread, Lock(t)
  PROVE  IInv'
<1>1. /\ InCall(t) /\ call[t].at = "lock" /\ mutex.owner = None
      /\ mutex' = [mutex EXCEPT !.owner = t] /\ Goto(t, "locked")
      /\ UNCHANGED <<state, aborted, committed, issued, lost>>
  BY DEF Lock
<1>2. PICK r \in Call : /\ call' = [call EXCEPT ![t] = r] /\ r # None /\ r.at = "locked"
                        /\ r.op = call[t].op /\ r.key = call[t].key /\ r.box = call[t].box
  BY <1>1, GotoIs DEF IInv, Holding
<1>3. CallOK(call[t]) /\ call[t] # None
  BY <1>1, CallIs DEF IInv
<1>4. /\ CallOK(r) /\ Held(r)
      /\ Owning(r) => Owning(call[t]) /\ r.box = call[t].box
      /\ Pointing(r) => Pointing(call[t]) /\ Target(r) = Target(call[t])
  BY <1>1, <1>2, <1>3 DEF CallOK, Places, Held, Holding, Owning, Guarding, Pointing, Target
<1> QED
  BY <1>1, <1>2, <1>4, Control, MutexNext DEF IInv, Rest

\* lock() fails: the process aborts, or what the call had is gone.
LEMMA LockPoisonedInv ==
  ASSUME IInv, NEW t \in Thread, LockPoisoned(t)
  PROVE  IInv'
<1>1. /\ InCall(t) /\ call[t].at = "lock" /\ UNCHANGED <<state, mutex, committed, issued>>
  BY DEF LockPoisoned
<1>2. CASE aborted' = TRUE /\ UNCHANGED <<call, lost>>
  <2>1. Core'
    BY <1>1, <1>2 DEF IInv, Core, FreeOK, PointOK, BoxOK, Slots
  <2> QED BY <1>1, <1>2, <2>1 DEF IInv, Mutex, Rest
<1>3. CASE Unwound(t) /\ lost' = lost \cup (IF HasGuard(t) THEN {GuardOf(t)} ELSE {})
  <2>1. call' = [call EXCEPT ![t] = None] /\ aborted' \in BOOLEAN
    BY <1>3 DEF Unwound, Return, IInv, Rest
  <2>2. Core'
    <3>1. CASE HasGuard(t)
      <4>1. Owning(call[t]) /\ GuardOf(t).val = call[t].box
        BY <3>1, Owners DEF IInv, GuardOf
      <4> QED BY <1>1, <1>3, <2>1, <3>1, <4>1, Lose DEF IInv
    <3>2. CASE ~HasGuard(t)
      BY <1>1, <1>3, <2>1, <3>2, NoCall, Control DEF IInv
    <3> QED BY <3>1, <3>2
  <2>3. ~Held(call[t])
    BY <1>1 DEF Held, Holding
  <2>4. Mutex'
    BY <1>1, <2>1, <2>3, NoCall, MutexNext DEF IInv
  <2> QED BY <1>1, <2>1, <2>2, <2>4 DEF IInv, Rest
<1> QED
  BY <1>2, <1>3 DEF LockPoisoned

\* register finds an index or has none to give.
LEMMA RegisterSlotInv ==
  ASSUME IInv, NEW t \in Thread, RegisterSlot(t)
  PROVE  IInv'
<1>1. /\ InCall(t) /\ call[t].op = "register" /\ call[t].at = "locked"
      /\ UNCHANGED <<mutex, aborted, committed, issued, lost>>
  BY DEF RegisterSlot, At
<1>2. /\ call[t] \in Call /\ call[t] # None /\ CallOK(call[t])
      /\ Held(call[t]) /\ Owning(call[t])
  BY <1>1, CallIs DEF IInv, Held, Holding, Owning
<1>3. ASSUME NEW x \in 0 .. MAX_INDEX, Popped(x) \/ Pushed(x),
             call' = [call EXCEPT ![t].at = "slot", ![t].key = x]
      PROVE  IInv'
  <2> DEFINE r == WithSlot(call[t], x)
  <2>1. call' = [call EXCEPT ![t] = r]
    BY <1>3 DEF WithSlot
  <2>2. x \in Usize
    BY HalfAssumption, Limits DEF Usize
  <2>3. r \in Call /\ r # None /\ r.op = "register" /\ r.at = "slot" /\ r.key = x /\ r.box = call[t].box
    BY <1>1, <1>2, <2>2, WithSlotIs
  <2> HIDE DEF r
  <2>4. CallOK(r) /\ Held(r) /\ Target(r) = x
    BY <1>2, <2>3 DEF CallOK, Places, Held, Holding, Target
  <2>5. Core'
    BY <1>1, <1>2, <1>3, <2>1, <2>3, <2>4, Pop, Push DEF IInv
  <2>6. Mutex'
    BY <1>1, <1>2, <2>1, <2>3, <2>4, MutexNext DEF IInv
  <2> QED BY <1>1, <2>5, <2>6 DEF IInv, Rest
<1>4. CASE Goto(t, "log") /\ UNCHANGED state
  <2>1. PICK r \in Call : /\ call' = [call EXCEPT ![t] = r] /\ r # None /\ r.at = "log"
                          /\ r.op = call[t].op /\ r.key = call[t].key /\ r.box = call[t].box
    BY <1>1, <1>4, GotoIs DEF IInv, Holding
  <2>2. CallOK(r) /\ Held(r) /\ ~Pointing(r)
    BY <1>1, <1>2, <2>1 DEF CallOK, Places, Held, Holding, Pointing, Guarding
  <2> QED BY <1>1, <1>2, <1>4, <2>1, <2>2, Control, MutexNext DEF IInv, Rest
<1>5. CASE /\ state.free_indices # <<>>
           /\ state' = [state EXCEPT !.free_indices = Tail(@)]
           /\ call' = [call EXCEPT ![t].at = "slot", ![t].key = Head(state.free_indices)]
  <2>1. Head(state.free_indices) \in 0 .. MAX_INDEX
    BY <1>5, Entries, HeadTailProperties DEF IInv, Core
  <2> QED BY <1>3, <1>5, <2>1 DEF Popped
<1>6. CASE /\ state.free_indices = <<>> /\ Len(state.entries) <= MAX_INDEX
           /\ state' = [state EXCEPT !.entries = Append(@, [value |-> None, generation |-> 1])]
           /\ call' = [call EXCEPT ![t].at = "slot", ![t].key = Len(state.entries)]
  <2>1. Len(state.entries) \in 0 .. MAX_INDEX
    BY <1>6, Entries, Limits DEF IInv, Core
  <2> QED BY <1>3, <1>6, <2>1 DEF Pushed
<1> QED
  BY <1>4, <1>5, <1>6 DEF RegisterSlot

\* register stores the object and returns its handle.
LEMMA RegisterStoreInv ==
  ASSUME IInv, NEW t \in Thread, RegisterStore(t)
  PROVE  IInv'
<1> DEFINE x == call[t].key
<1>1. /\ InCall(t) /\ call[t].op = "register" /\ call[t].at = "slot"
      /\ state' = [state EXCEPT !.entries[x + 1].value = call[t].box]
      /\ issued' = issued \cup {NewHandle(t)}
      /\ mutex' = [mutex EXCEPT !.owner = None] /\ committed' = state'
      /\ call' = [call EXCEPT ![t] = None]
      /\ UNCHANGED <<aborted, lost>>
  BY DEF RegisterStore, At, Unlock, Return
<1>2. /\ Held(call[t]) /\ Owning(call[t]) /\ Pointing(call[t]) /\ Target(call[t]) = x
      /\ call[t].box \in Box
  BY <1>1, CallIs DEF IInv, Held, Holding, Owning, Pointing, Target, CallOK
<1>3. x \in Slots
  BY <1>2 DEF IInv, Core, PointOK
<1>4. Stored(x, call[t].box)
  BY <1>1, <1>2, <1>3, SetValue DEF IInv, Core
<1>5. Core'
  BY <1>1, <1>2, <1>4, Fill DEF IInv
<1>6. Mutex'
  BY <1>1, <1>2, NoCall, MutexNext DEF IInv
<1>7. NewHandle(t) \in Usize
  <2>1. /\ Slot(x).generation \in 1 .. MAX_GENERATION
        /\ Len(state.entries) \in Nat /\ Len(state.entries) <= MAX_INDEX + 1
    BY <1>3, Entries DEF IInv, Core, FreeOK
  <2>2. x \in 0 .. MAX_INDEX /\ Slot(x).generation \in 0 .. MAX_GENERATION
    BY <1>3, <2>1, Limits DEF Slots
  <2> QED BY <2>2, RoundTrip DEF NewHandle
<1>8. Rest'
  BY <1>1, <1>5, <1>7 DEF IInv, Rest, Core
<1> QED
  BY <1>5, <1>6, <1>8 DEF IInv

\* reclaim or borrow_mut refuses; the logger is called, and returns or not.
LEMMA RefusedInv ==
  ASSUME IInv, NEW t \in Thread, Refused(t) \/ LogReenters(t)
  PROVE  IInv'
<1>1. PICK a \in {"log", "self"} :
        /\ InCall(t) /\ Goto(t, a)
        /\ UNCHANGED <<state, mutex, aborted, committed, issued, lost>>
        /\ \/ call[t].op \in {"reclaim", "borrow_mut"} /\ call[t].at = "locked"
           \/ call[t].at = "log"
  BY DEF Refused, LogReenters, Logging, At
<1>2. PICK r \in Call : /\ call' = [call EXCEPT ![t] = r] /\ r # None /\ r.at = a
                        /\ r.op = call[t].op /\ r.key = call[t].key /\ r.box = call[t].box
  BY <1>1, GotoIs DEF IInv, Holding
<1>3. CallOK(call[t]) /\ call[t] # None
      /\ call[t].op \in {"register", "reclaim", "borrow_mut", "user", "return_mut"}
  BY <1>1, CallIs DEF IInv
<1>4. call[t].op \in {"register", "reclaim", "borrow_mut"}
  BY <1>1, <1>3 DEF CallOK, Places
<1>5. /\ CallOK(r) /\ Held(r) /\ Held(call[t]) /\ ~Pointing(r)
      /\ Owning(r) => Owning(call[t]) /\ r.box = call[t].box
  BY <1>1, <1>2, <1>3, <1>4 DEF CallOK, Places, Held, Holding, Owning, Guarding, Pointing
<1> QED
  BY <1>1, <1>2, <1>5, Control, MutexNext DEF IInv, Rest

\* The call is over: its Err, its panic, or the drop of the box it got.
LEMMA LogInv ==
  ASSUME IInv, NEW t \in Thread, LogReturns(t) \/ LogPanics(t) \/ DropCounter(t)
  PROVE  IInv'
<1>1. /\ InCall(t) /\ call' = [call EXCEPT ![t] = None]
      /\ UNCHANGED <<state, issued, lost>>
      /\ aborted' \in BOOLEAN /\ committed' \in {committed, state}
  BY DEF LogReturns, LogPanics, DropCounter, Logging, At, Unlock, Return, Unwound, IInv, Rest
<1>2. Core'
  BY <1>1, NoCall, Control DEF IInv
<1>3. \/ /\ call[t].at = "log"
         /\ mutex' = [mutex EXCEPT !.owner = None] \/ mutex' = [owner |-> None, poisoned |-> TRUE]
      \/ call[t].at = "drop" /\ mutex' = mutex
  BY DEF LogReturns, LogPanics, DropCounter, Logging, At, Unlock
<1>4. (call[t].at = "log" => Held(call[t])) /\ (call[t].at = "drop" => ~Held(call[t]))
  BY <1>1 DEF Held, Holding, InCall
<1>5. Mutex'
  BY <1>1, <1>3, <1>4, NoCall, MutexNext DEF IInv
<1> QED
  BY <1>1, <1>2, <1>5 DEF IInv, Rest, Core

\* entry.value.take(): reclaim and borrow_mut point at the slot they emptied.
LEMMA TakeInv ==
  ASSUME IInv, NEW t \in Thread, ReclaimTake(t) \/ BorrowMut(t)
  PROVE  IInv'
<1> DEFINE key == call[t].key
           x == Index(key)
           v == Value(key)
<1>1. /\ InCall(t) /\ call[t].at = "locked" /\ call[t].op \in {"reclaim", "borrow_mut"}
      /\ Take(key) /\ UNCHANGED <<aborted, issued, lost>>
  BY DEF ReclaimTake, BorrowMut, At
<1>2. /\ call[t] \in Call /\ call[t] # None /\ key \in Usize
      /\ Held(call[t])
  BY <1>1, CallIs DEF IInv, CallOK, Held, Holding
<1>3. /\ x \in Slots /\ ValueIn(state, x) = v /\ v \in Box
      /\ state' = [state EXCEPT !.entries[x + 1].value = None]
  <2>1. x \in Slots /\ Slot(x).value = v /\ v # None
    BY <1>1 DEF Take, Resolves, Current, Value
  <2>2. v \in Box /\ ValueIn(state, x) = v
    BY <2>1, Entries DEF IInv, Core, ValueIn, Slot
  <2> QED BY <1>1, <2>1, <2>2 DEF Take
<1>4. Stored(x, None)
  BY <1>3, SetValue DEF IInv, Core
<1>5. PICK r \in Call :
        /\ call' = [call EXCEPT ![t] = r] /\ r # None /\ r.key = key /\ r.box = v
        /\ \/ r.op = "reclaim" /\ r.at = "taken" /\ UNCHANGED <<mutex, committed>>
           \/ r.op = "user" /\ r.at = "use" /\ Unlock
  <2>1. CASE ReclaimTake(t)
    <3> DEFINE r == WithBox(call[t], v)
    <3>1. call' = [call EXCEPT ![t] = r] /\ UNCHANGED <<mutex, committed>> /\ call[t].op = "reclaim"
      BY <2>1 DEF ReclaimTake, At, WithBox
    <3>2. r \in Call /\ r.key = key /\ r.box = v /\ r.at = "taken" /\ r.op = "reclaim" /\ r # None
      BY <1>2, <1>3, <3>1, WithBoxIs
    <3> QED BY <3>1, <3>2
  <2>2. CASE BorrowMut(t)
    <3> DEFINE r == WithGuard(call[t], v)
    <3>1. call' = [call EXCEPT ![t] = r] /\ Unlock
      BY <2>2 DEF BorrowMut, WithGuard
    <3>2. r \in Call /\ r.key = key /\ r.box = v /\ r.at = "use" /\ r.op = "user" /\ r # None
      BY <1>2, <1>3, WithGuardIs
    <3> QED BY <3>1, <3>2
  <2> QED BY <2>1, <2>2
<1> HIDE DEF key, x, v
<1>6. CallOK(r) /\ Target(r) = Index(key) /\ r.box # None /\ (Held(r) <=> r.op = "reclaim")
  BY <1>2, <1>3, <1>5, TrackerLockAssumption DEF CallOK, Places, Target, Held, Holding
<1>7. Core'
  BY <1>1, <1>3, <1>4, <1>5, <1>6, Empty DEF IInv, x
<1>8. Mutex'
  BY <1>2, <1>5, <1>6, MutexNext DEF IInv, Unlock
<1>9. Rest'
  BY <1>1, <1>5, <1>7 DEF IInv, Rest, Unlock, Core
<1> QED
  BY <1>7, <1>8, <1>9 DEF IInv

\* reclaim gives the slot its next generation, or retires it.
LEMMA ReclaimGenerationInv ==
  ASSUME IInv, NEW t \in Thread, ReclaimGeneration(t)
  PROVE  IInv'
<1> DEFINE x == Index(call[t].key)
<1>1. /\ InCall(t) /\ call[t].op = "reclaim" /\ call[t].at = "taken"
      /\ UNCHANGED <<aborted, issued, lost>>
      /\ \/ /\ Slot(x).generation < MAX_GENERATION
            /\ state' = [state EXCEPT !.entries[x + 1].generation = @ + 1]
            /\ Goto(t, "advanced") /\ UNCHANGED <<mutex, committed>>
         \/ UNCHANGED state /\ Unlock /\ Goto(t, "drop")
  BY DEF ReclaimGeneration, At
<1>2. /\ call[t] # None /\ CallOK(call[t]) /\ Held(call[t]) /\ Owning(call[t]) /\ Pointing(call[t])
      /\ Target(call[t]) = x
  BY <1>1, CallIs DEF IInv, Held, Holding, Owning, Pointing, Target
<1>3. x \in Slots
  BY <1>2 DEF IInv, Core, PointOK
<1> HIDE DEF x
<1>4. PICK r \in Call :
        /\ call' = [call EXCEPT ![t] = r] /\ r # None /\ r.op = "reclaim"
        /\ r.key = call[t].key /\ r.box = call[t].box
        /\ \/ r.at = "advanced" /\ UNCHANGED <<mutex, committed>>
           \/ r.at = "drop" /\ Unlock /\ UNCHANGED state
  BY <1>1, GotoIs DEF IInv, Holding
<1>5. state' = state \/ SameValues
  <2>1. CASE /\ Slot(x).generation < MAX_GENERATION
             /\ state' = [state EXCEPT !.entries[x + 1].generation = @ + 1]
    <3> DEFINE e == state.entries
               b == [e[x + 1] EXCEPT !.generation = @ + 1]
               new == [e EXCEPT ![x + 1] = b]
    <3>1. /\ e \in Seq(Entry) /\ Len(e) \in Nat /\ x + 1 \in 1 .. Len(e) /\ e[x + 1] \in Entry
          /\ state.free_indices \in Seq(0 .. MAX_INDEX)
          /\ e[x + 1].generation \in 1 .. MAX_GENERATION /\ e[x + 1].generation < MAX_GENERATION
      BY <1>3, <2>1, Entries DEF IInv, Core, Slot
    <3>2. b \in Entry /\ b.value = e[x + 1].value
      <4>1. e[x + 1].generation + 1 \in 1 .. MAX_GENERATION
        BY <3>1, Limits
      <4> QED BY <3>1, <4>1 DEF Entry
    <3> HIDE DEF b
    <3>3. new \in Seq(Entry) /\ Len(new) = Len(e)
          /\ \A i \in 1 .. Len(e) : new[i] = IF i = x + 1 THEN b ELSE e[i]
      BY <3>1, <3>2
    <3>4. state' = [state EXCEPT !.entries = new]
      BY <2>1 DEF b
    <3> HIDE DEF new
    <3>5. state'.entries = new /\ state'.free_indices = state.free_indices /\ state' \in State
      BY <3>1, <3>3, <3>4 DEF State, IInv, Core
    <3>6. ASSUME NEW i \in Slots PROVE ValueIn(state', i) = ValueIn(state, i)
      <4>1. i + 1 \in 1 .. Len(e)
        BY Entries DEF IInv, Core
      <4> QED BY <3>2, <3>3, <3>5, <4>1 DEF ValueIn
    <3> QED BY <3>3, <3>5, <3>6 DEF SameValues
  <2> QED BY <1>1, <2>1
<1>6. /\ CallOK(r) /\ (Held(r) <=> r.at = "advanced")
      /\ Target(r) = x
  BY <1>1, <1>2, <1>4 DEF CallOK, Places, Held, Holding, Target, Owning, x
<1>7. Core'
  BY <1>1, <1>2, <1>4, <1>5, <1>6, Control DEF IInv
<1>8. Mutex'
  BY <1>2, <1>4, <1>6, MutexNext DEF IInv, Unlock
<1>9. Rest'
  BY <1>1, <1>4, <1>7 DEF IInv, Rest, Unlock, Core
<1> QED
  BY <1>7, <1>8, <1>9 DEF IInv

\* reclaim frees the index.
LEMMA ReclaimFreeInv ==
  ASSUME IInv, NEW t \in Thread, ReclaimFree(t)
  PROVE  IInv'
<1>1. /\ InCall(t) /\ call[t].op = "reclaim" /\ call[t].at = "advanced"
      /\ state' = [state EXCEPT !.free_indices = Append(@, Index(call[t].key))]
      /\ mutex' = [mutex EXCEPT !.owner = None] /\ committed' = state' /\ Goto(t, "drop")
      /\ UNCHANGED <<aborted, issued, lost>>
  BY DEF ReclaimFree, At, Unlock
<1>2. /\ call[t] # None /\ CallOK(call[t]) /\ Held(call[t]) /\ Owning(call[t]) /\ Pointing(call[t])
      /\ Target(call[t]) = Index(call[t].key)
  BY <1>1, CallIs DEF IInv, Held, Holding, Owning, Pointing, Target
<1>3. PICK r \in Call : /\ call' = [call EXCEPT ![t] = r] /\ r # None /\ r.at = "drop"
                        /\ r.op = call[t].op /\ r.key = call[t].key /\ r.box = call[t].box
  BY <1>1, GotoIs DEF IInv
<1>4. CallOK(r) /\ ~Held(r) /\ ~Pointing(r)
  BY <1>1, <1>2, <1>3 DEF CallOK, Places, Held, Holding, Owning, Pointing, Guarding
<1>5. Core'
  BY <1>1, <1>2, <1>3, <1>4, Free DEF IInv, Freed
<1>6. Mutex'
  BY <1>1, <1>2, <1>3, <1>4, MutexNext DEF IInv
<1>7. Rest'
  BY <1>1, <1>5 DEF IInv, Rest, Core
<1> QED
  BY <1>5, <1>6, <1>7 DEF IInv

\* The user's code returns or panics: the guard is dropped.
LEMMA UseInv ==
  ASSUME IInv, NEW t \in Thread, Use(t)
  PROVE  IInv'
<1>1. PICK panics \in BOOLEAN :
        call' = [call EXCEPT ![t].op = "return_mut", ![t].at = "lock", ![t].unwinding = panics]
  BY DEF Use
<1>2. /\ InCall(t) /\ call[t].op = "user" /\ call[t].at = "use"
      /\ UNCHANGED <<state, mutex, aborted, committed, issued, lost>>
  BY DEF Use, At
<1>3. call[t] \in Call /\ call[t] # None /\ CallOK(call[t])
  BY <1>2, CallIs DEF IInv
<1> DEFINE r == Returning(call[t], panics)
<1>4. call' = [call EXCEPT ![t] = r]
  BY <1>1 DEF Returning
<1>5. /\ r \in Call /\ r # None /\ r.op = "return_mut" /\ r.at = "lock"
      /\ r.key = call[t].key /\ r.box = call[t].box
  BY <1>3, ReturningIs
<1> HIDE DEF r
<1>6. /\ CallOK(r) /\ ~Held(r) /\ ~Held(call[t])
      /\ Owning(call[t]) /\ Pointing(call[t]) /\ Target(r) = Target(call[t])
  BY <1>2, <1>3, <1>5 DEF CallOK, Places, Held, Holding, Owning, Guarding, Pointing, Target
<1> QED
  BY <1>2, <1>4, <1>5, <1>6, Control, MutexNext DEF IInv, Rest

\* return_mut fills the slot that was kept for the object.
LEMMA ReturnMutInv ==
  ASSUME IInv, NEW t \in Thread, ReturnMut(t)
  PROVE  IInv'
<1> DEFINE x == Index(call[t].key)
<1>1. /\ InCall(t) /\ call[t].op = "return_mut" /\ call[t].at = "locked"
      /\ state' = [state EXCEPT !.entries[x + 1].value = call[t].box]
      /\ mutex' = [mutex EXCEPT !.owner = None] /\ committed' = state'
      /\ call' = [call EXCEPT ![t] = None]
      /\ aborted' \in BOOLEAN /\ UNCHANGED <<issued, lost>>
  BY DEF ReturnMut, At, Unlock, Return, Unwound, IInv, Rest
<1>2. /\ Held(call[t]) /\ Owning(call[t]) /\ Pointing(call[t]) /\ Target(call[t]) = x
      /\ call[t].box \in Box
  BY <1>1, CallIs DEF IInv, Held, Holding, Owning, Guarding, Pointing, Target, CallOK
<1>3. x \in Slots
  BY <1>2 DEF IInv, Core, PointOK
<1>4. Stored(x, call[t].box)
  BY <1>1, <1>2, <1>3, SetValue DEF IInv, Core
<1>5. Core'
  BY <1>1, <1>2, <1>4, Fill DEF IInv
<1>6. Mutex'
  BY <1>1, <1>2, NoCall, MutexNext DEF IInv
<1>7. Rest'
  BY <1>1, <1>5 DEF IInv, Rest, Core
<1> QED
  BY <1>5, <1>6, <1>7 DEF IInv

-----------------------------------------------------------------------------

\* Every step keeps the invariant.
LEMMA NextInv == IInv /\ [Next]_vars => IInv'
<1> SUFFICES ASSUME IInv, [Next]_vars PROVE IInv'
  OBVIOUS
<1>1. CASE UNCHANGED vars
  <2>1. Core'
    BY <1>1 DEF vars, IInv, Core, FreeOK, PointOK, BoxOK, Slots
  <2> QED BY <1>1, <2>1 DEF vars, IInv, Mutex, Rest
<1>2. ASSUME NEW t \in Thread,
             NewCounter(t) \/ \E key \in Passed : FreeCounter(t, key) \/ IncreaseCounter(t, key)
      PROVE  IInv'
  BY <1>2, EnterInv
<1>3. ASSUME NEW t \in Thread, Step(t) PROVE IInv'
  <2>1. CASE Lock(t) \/ LockPoisoned(t)
    BY <2>1, LockInv, LockPoisonedInv
  <2>2. CASE RegisterSlot(t) \/ RegisterStore(t)
    BY <2>2, RegisterSlotInv, RegisterStoreInv
  <2>3. CASE Refused(t) \/ LogReturns(t) \/ LogPanics(t) \/ LogReenters(t) \/ DropCounter(t)
    BY <2>3, RefusedInv, LogInv
  <2>4. CASE ReclaimTake(t) \/ ReclaimGeneration(t) \/ ReclaimFree(t) \/ BorrowMut(t)
    BY <2>4, TakeInv, ReclaimGenerationInv, ReclaimFreeInv
  <2>5. CASE Use(t) \/ ReturnMut(t)
    BY <2>5, UseInv, ReturnMutInv
  <2> QED BY <1>3, <2>1, <2>2, <2>3, <2>4, <2>5 DEF Step
<1> QED
  BY <1>1, <1>2, <1>3 DEF Next

\* The invariant holds in every state of every run.
THEOREM Invariance == Spec => []IInv
<1> QED BY InitInv, NextInv, PTL DEF Spec

\* The state is well typed, and exactly the thread that is between lock and
\* unlock has the mutex.
THEOREM TypeCorrect == Spec => []TypeOK
<1>1. IInv => TypeOK
  BY DEF IInv, Core, Mutex, Rest, TypeOK, Held, InCall
<1> QED BY <1>1, Invariance, PTL

\* No object is in two slots, in two calls, or in a slot and a call: nothing of
\* a method that is half done is there for another thread.
THEOREM Ownership == Spec => []OneOwner
<1>1. ASSUME IInv PROVE OneOwner
  <2> USE <1>1 DEF IInv
  <2>1. \A t \in Thread : Owning(call[t]) <=> HasGuard(t) \/ HasBox(t)
    BY Owners
  <2>2. \A t, u \in Thread : t # u /\ (HasGuard(t) \/ HasBox(t)) /\ (HasGuard(u) \/ HasBox(u))
          => call[t].box # call[u].box
    BY <2>1 DEF Core, BoxOK
  <2>3. \A b \in InFrames : \E t \in Thread : Owning(call[t]) /\ call[t].box = b
    BY <2>1 DEF InFrames
  <2>4. \A b \in InLost : \E g \in lost : g.val = b
    BY DEF InLost
  <2>5. \A b \in InSlots(state) : \E i \in Slots : ValueIn(state, i) = b
    BY Owners
  <2>6. InSlots(state) \cap (InFrames \cup InLost) = {} /\ InFrames \cap InLost = {}
    BY <2>3, <2>4, <2>5 DEF Core, BoxOK
  <2>7. \A i, j \in Slots : Slot(i).value # None /\ Slot(i).value = Slot(j).value => i = j
    BY DEF Core, BoxOK, Slot, ValueIn
  <2> QED BY <2>2, <2>6, <2>7 DEF OneOwner
<1> QED BY <1>1, Invariance, PTL

-----------------------------------------------------------------------------
(***************************************************************************)
(* The refinement of Tracker.  What other threads can see is committed,    *)
(* which differs from state by no more than the holder of the mutex did.   *)
(***************************************************************************)
CommitOK(r) ==
  r # None =>
    /\ r.at \in {"locked", "log", "self"} => committed = state
    /\ r.at = "slot" =>
         /\ Len(committed.entries) <= Len(state.entries)
         /\ \A i \in Slots : IF i < Len(committed.entries) THEN committed.entries[i + 1] = Slot(i)
                                                           ELSE i = r.key
    /\ r.at \in {"taken", "advanced"} =>
         /\ Len(committed.entries) = Len(state.entries)
         /\ \A i \in Slots : i # Index(r.key) => committed.entries[i + 1] = Slot(i)
         /\ committed.entries[Index(r.key) + 1] = [value |-> r.box, generation |-> Generation(r.key)]

\* The slot of a guard, or of an object being reclaimed, is at the generation of
\* its key, until reclaim has moved it on.
PinOK(r) ==
  Pointing(r) /\ r.op # "register" =>
    Slot(Target(r)).generation =
      IF r.at = "advanced" THEN Generation(r.key) + 1 ELSE Generation(r.key)

\* The handle that slot i is ready for was never given out.
Fresh(i) == New(i, Slot(i).generation) \notin issued
FreshOK(r) == r # None /\ r.at \in {"slot", "advanced"} => Fresh(Target(r))

\* A call that logs that its key is refused is right.
RefusalOK(r) == r # None /\ r.at = "log" /\ r.op # "register" => ~Resolves(r.key)

CallHist(r) == CommitOK(r) /\ PinOK(r) /\ FreshOK(r) /\ RefusalOK(r)

Poison ==
  /\ lost # {} => mutex.poisoned
  /\ mutex.poisoned => mutex.owner = None
  /\ mutex.owner = None => committed = state

Given ==
  /\ \A i \in DOMAIN state.free_indices : Fresh(state.free_indices[i])
  /\ \A key \in issued : Index(key) \in Slots /\ Generation(key) <= Slot(Index(key)).generation

Hist == Poison /\ Given /\ \A t \in Thread : CallHist(call[t])

-----------------------------------------------------------------------------

\* No call at all has no history.
LEMMA NoCallHist == CallHist(None)
BY NoCall DEF CallHist, CommitOK, PinOK, FreshOK, RefusalOK

\* A call without the mutex has at most a slot that waits for its object.
LEMMA FreeCall ==
  ASSUME NEW r, ~Held(r), PinOK(r)
  PROVE  CallHist(r)
BY DEF Held, Holding, CallHist, CommitOK, FreshOK, RefusalOK

\* The mutex has one holder, and is not poisoned while it has.
LEMMA Holder ==
  ASSUME IInv, Hist, NEW t \in Thread, Held(call[t])
  PROVE  /\ mutex.owner = t /\ t # None /\ mutex.poisoned = FALSE /\ lost = {}
         /\ \A u \in Thread \ {t} : ~Held(call[u])
<1>1. /\ mutex \in [owner : Thread \cup {None}, poisoned : BOOLEAN]
      /\ \A u \in Thread : mutex.owner = u <=> Held(call[u])
  BY DEF IInv, Mutex
<1>2. mutex.owner = t /\ t # None
  BY <1>1, TrackerLockAssumption
<1>3. mutex.poisoned = FALSE /\ lost = {}
  BY <1>1, <1>2 DEF Hist, Poison
<1> QED
  BY <1>1, <1>2, <1>3

\* A step of t that changes no more than its own call.
LEMMA HistOutside ==
  ASSUME IInv, Hist, NEW t \in Thread, NEW r \in Call \cup {None}, call' = [call EXCEPT ![t] = r],
         UNCHANGED <<state, committed, issued>>, Poison', CallHist(r)
  PROVE  Hist'
<1>1. call'[t] = r /\ \A u \in Thread \ {t} : call'[u] = call[u]
  BY CallNext DEF IInv
<1>2. \A u \in Thread : CallHist(call'[u])
  BY <1>1 DEF Hist
<1>3. \A u \in Thread : CallHist(call[u])'
  BY <1>2 DEF CallHist, CommitOK, PinOK, FreshOK, RefusalOK, Fresh, Resolves, Current, Slots, Slot
<1>4. Given'
  BY DEF Hist, Given, Fresh, Slots, Slot
<1> QED
  BY <1>3, <1>4 DEF Hist

\* A step of the holder of the mutex, which may change the slots.
LEMMA HistInside ==
  ASSUME IInv, Hist, NEW t \in Thread, Held(call[t]),
         NEW r \in Call \cup {None}, call' = [call EXCEPT ![t] = r],
         \A i \in Slots : /\ i \in Slots'
                          /\ ~Pointing(call[t]) \/ i # Target(call[t]) =>
                               Slot(i)'.generation = Slot(i).generation,
         Poison', Given', CallHist(call[t])'
  PROVE  Hist'
<1>1. call'[t] = r /\ \A u \in Thread \ {t} : call'[u] = call[u]
  BY CallNext DEF IInv
<1>2. ASSUME NEW u \in Thread \ {t} PROVE CallHist(call[u])'
  <2>1. call'[u] = call[u] /\ ~Held(call[u]) /\ PinOK(call[u])
    BY <1>1, Holder DEF Hist, CallHist
  <2>2. Pointing(call[u]) => /\ Target(call[u]) \in Slots
                             /\ Pointing(call[t]) => Target(call[u]) # Target(call[t])
    BY DEF IInv, Core, PointOK
  <2>3. PinOK(call[u])'
    BY <2>1, <2>2 DEF PinOK
  <2>4. CommitOK(call[u])' /\ FreshOK(call[u])' /\ RefusalOK(call[u])'
    BY <2>1 DEF Held, Holding, CommitOK, FreshOK, RefusalOK
  <2> QED BY <2>3, <2>4 DEF CallHist
<1> QED
  BY <1>2 DEF Hist

\* Nobody has done anything yet.
LEMMA InitHist == Init => Hist
<1> SUFFICES ASSUME Init PROVE Hist
  OBVIOUS
<1>1. /\ \A t \in Thread : call[t] = None
      /\ lost = {} /\ mutex.owner = None /\ committed = state /\ mutex.poisoned = FALSE
      /\ DOMAIN state.free_indices = {} /\ issued = {}
  BY DEF Init
<1> QED
  BY <1>1, NoCallHist DEF Hist, Poison, Given

\* A call begins.
LEMMA EnterHist ==
  ASSUME IInv, Hist, NEW t \in Thread,
         NewCounter(t) \/ \E key \in Passed : FreeCounter(t, key) \/ IncreaseCounter(t, key)
  PROVE  Hist'
<1>1. PICK op \in {"register", "reclaim", "borrow_mut"}, key \in Usize \cup {None}, box \in Box \cup {None} :
        Enter(t, op, key, box)
  BY DEF NewCounter, FreeCounter, IncreaseCounter, Passed
<1> DEFINE r == [op |-> op, at |-> "lock", key |-> key, box |-> box, unwinding |-> FALSE]
<1>2. /\ call' = [call EXCEPT ![t] = r]
      /\ UNCHANGED <<state, mutex, aborted, committed, issued, lost>>
  BY <1>1 DEF Enter
<1>3. r \in Call /\ r.op = op /\ r.at = "lock"
  BY DEF Call
<1> HIDE DEF r
<1>4. CallHist(r)
  <2>1. ~Held(r) /\ ~Pointing(r)
    BY <1>3 DEF Held, Holding, Pointing, Guarding
  <2> QED BY <2>1, FreeCall DEF PinOK
<1>5. Poison'
  BY <1>2 DEF Hist, Poison
<1> QED
  BY <1>2, <1>3, <1>4, <1>5, HistOutside

\* lock(), of a mutex that is not poisoned or is.
LEMMA LockHist ==
  ASSUME IInv, Hist, NEW t \in Thread, Lock(t)
  PROVE  Hist'
<1>1. /\ InCall(t) /\ call[t].at = "lock" /\ mutex.owner = None /\ ~mutex.poisoned
      /\ mutex' = [mutex EXCEPT !.owner = t] /\ Goto(t, "locked")
      /\ UNCHANGED <<state, aborted, committed, issued, lost>>
  BY DEF Lock
<1>2. PICK r \in Call : /\ call' = [call EXCEPT ![t] = r] /\ r # None /\ r.at = "locked"
                        /\ r.op = call[t].op /\ r.key = call[t].key
  BY <1>1, GotoIs DEF IInv, Holding
<1>3. committed = state /\ PinOK(call[t]) /\ call[t] # None
  BY <1>1 DEF Hist, Poison, CallHist, InCall
<1>4. Pointing(r) => Pointing(call[t]) /\ Target(r) = Target(call[t])
  BY <1>1, <1>2, <1>3 DEF Pointing, Guarding, Target
<1>5. CallHist(r)
  BY <1>1, <1>2, <1>3, <1>4 DEF CallHist, CommitOK, PinOK, FreshOK, RefusalOK
<1>6. Poison'
  <2>1. mutex'.owner = t /\ mutex'.poisoned = FALSE /\ t # None
    BY <1>1, TrackerLockAssumption DEF IInv, Mutex
  <2> QED BY <1>1, <2>1 DEF Hist, Poison
<1> QED
  BY <1>1, <1>2, <1>5, <1>6, HistOutside

\* lock() fails: the others see what they saw.
LEMMA LockPoisonedHist ==
  ASSUME IInv, Hist, NEW t \in Thread, LockPoisoned(t)
  PROVE  Hist'
<1>1. mutex.owner = None /\ mutex.poisoned /\ UNCHANGED <<state, mutex, committed, issued>>
  BY DEF LockPoisoned
<1>2. Poison'
  BY <1>1 DEF Hist, Poison
<1>3. CASE UNCHANGED call
  <2>1. \A u \in Thread : CallHist(call[u])'
    BY <1>1, <1>3 DEF Hist, CallHist, CommitOK, PinOK, FreshOK, RefusalOK, Fresh, Resolves, Current,
       Slots, Slot
  <2>2. Given'
    BY <1>1 DEF Hist, Given, Fresh, Slots, Slot
  <2> QED BY <1>2, <2>1, <2>2 DEF Hist
<1>4. CASE call' = [call EXCEPT ![t] = None]
  BY <1>1, <1>2, <1>4, NoCallHist, HistOutside
<1> QED
  BY <1>3, <1>4 DEF LockPoisoned, Unwound, Return

\* The user's code returns or panics; the box of a counter is dropped.
LEMMA UserHist ==
  ASSUME IInv, Hist, NEW t \in Thread, Use(t) \/ DropCounter(t)
  PROVE  Hist'
<1>1. InCall(t) /\ UNCHANGED <<state, mutex, committed, issued, lost>>
  BY DEF Use, DropCounter, At
<1>2. Poison'
  BY <1>1 DEF Hist, Poison
<1>3. CASE DropCounter(t)
  BY <1>1, <1>2, <1>3, NoCallHist, HistOutside DEF DropCounter, Return
<1>4. CASE Use(t)
  <2>1. PICK panics \in BOOLEAN :
          call' = [call EXCEPT ![t].op = "return_mut", ![t].at = "lock", ![t].unwinding = panics]
    BY <1>4 DEF Use
  <2>2. call[t] \in Call /\ call[t] # None /\ call[t].op = "user" /\ call[t].at = "use"
    BY <1>1, <1>4, CallIs DEF Use, At, IInv
  <2> DEFINE r == Returning(call[t], panics)
  <2>3. call' = [call EXCEPT ![t] = r]
    BY <2>1 DEF Returning
  <2>4. r \in Call /\ r # None /\ r.op = "return_mut" /\ r.at = "lock" /\ r.key = call[t].key
    BY <2>2, ReturningIs
  <2> HIDE DEF r
  <2>5. ~Held(r) /\ Pointing(call[t]) /\ Target(r) = Target(call[t]) /\ PinOK(call[t])
    BY <2>2, <2>4 DEF Held, Holding, Pointing, Guarding, Target, Hist, CallHist
  <2>6. CallHist(r)
    BY <2>2, <2>4, <2>5, FreeCall DEF PinOK
  <2> QED BY <1>1, <1>2, <2>3, <2>4, <2>6, HistOutside
<1> QED
  BY <1>3, <1>4

\* A call is refused, and its Err logged.
LEMMA LogHist ==
  ASSUME IInv, Hist, NEW t \in Thread,
         \/ Refused(t) \/ LogReenters(t) \/ LogReturns(t) \/ LogPanics(t)
         \/ RegisterSlot(t) /\ UNCHANGED state
  PROVE  Hist'
<1>1. /\ InCall(t) /\ call[t].at \in {"locked", "log"} /\ UNCHANGED <<state, issued, lost>>
      /\ call[t].at = "locked" => call[t].op \in {"register", "reclaim", "borrow_mut"}
  BY DEF Refused, LogReenters, LogReturns, LogPanics, RegisterSlot, At, Logging
<1>2. Held(call[t]) /\ call[t] # None /\ CommitOK(call[t]) /\ CallOK(call[t])
  BY <1>1, CallIs DEF Held, Holding, InCall, Hist, CallHist, IInv
<1>3. committed = state
  BY <1>1, <1>2 DEF CommitOK
<1>4. mutex \in [owner : Thread \cup {None}, poisoned : BOOLEAN] /\ lost = {}
  BY <1>2, Holder DEF IInv, Mutex
<1>5. CASE LogReturns(t) \/ LogPanics(t)
  <2>1. /\ call' = [call EXCEPT ![t] = None] /\ committed' = state'
        /\ mutex' = [mutex EXCEPT !.owner = None] \/ mutex' = [owner |-> None, poisoned |-> TRUE]
    BY <1>5 DEF LogReturns, LogPanics, Unlock, Unwound, Return
  <2>2. mutex'.owner = None
    BY <1>4, <2>1
  <2>3. Poison'
    BY <1>1, <1>4, <2>1, <2>2 DEF Poison
  <2> QED BY <1>1, <1>3, <2>1, <2>3, NoCallHist, HistOutside
<1>6. CASE Refused(t) \/ LogReenters(t) \/ (RegisterSlot(t) /\ UNCHANGED state)
  <2>1. PICK a \in {"log", "self"} :
          /\ Goto(t, a) /\ UNCHANGED <<mutex, committed>>
          /\ a = "log" /\ call[t].op # "register" => ~Resolves(call[t].key)
    <3>1. CASE RegisterSlot(t) /\ UNCHANGED state
      <4>1. state.entries \in Seq(Entry) /\ state.free_indices \in Seq(0 .. MAX_INDEX) /\ state \in State
        BY Entries DEF IInv, Core
      <4>2. state.free_indices # <<>> => Tail(state.free_indices) # state.free_indices
        <5>1. ASSUME state.free_indices # <<>>
              PROVE  Len(Tail(state.free_indices)) = Len(state.free_indices) - 1
          BY <4>1, <5>1, HeadTailProperties
        <5>2. Len(state.free_indices) - 1 # Len(state.free_indices)
          BY <4>1
        <5> QED BY <5>1, <5>2, Zenon
      <4>3. Append(state.entries, [value |-> None, generation |-> 1]) # state.entries
        BY <4>1
      <4>4. Goto(t, "log")
        BY <3>1, <4>1, <4>2, <4>3 DEF RegisterSlot, State
      <4> QED BY <3>1, <4>4 DEF RegisterSlot, At
    <3> QED BY <1>6, <3>1 DEF Refused, LogReenters
  <2>2. PICK r \in Call : /\ call' = [call EXCEPT ![t] = r] /\ r # None /\ r.at = a
                          /\ r.op = call[t].op /\ r.key = call[t].key
    BY <1>1, <2>1, GotoIs DEF IInv, Holding
  <2>3. call[t].op \in {"register", "reclaim", "borrow_mut"}
    BY <1>1, <1>2, CallIs DEF CallOK, Places, IInv
  <2>4. ~Pointing(r)
    BY <2>1, <2>2, <2>3 DEF Pointing, Guarding
  <2>5. CallHist(r)
    BY <1>3, <2>1, <2>2, <2>4 DEF CallHist, CommitOK, PinOK, FreshOK, RefusalOK
  <2>6. Poison'
    BY <1>1, <2>1 DEF Hist, Poison
  <2> QED BY <1>1, <2>1, <2>2, <2>5, <2>6, HistOutside
<1> QED
  BY <1>5, <1>6

\* A step of the holder of the mutex that returns, or is at a place without a history.
LEMMA Returned ==
  ASSUME NEW t \in Thread, call'[t] = None
  PROVE  CallHist(call[t])'
BY NoCall DEF CallHist, CommitOK, PinOK, FreshOK, RefusalOK

\* Slot x is assigned to.
SlotSet(x, e) ==
  /\ Slots' = Slots /\ state'.free_indices = state.free_indices
  /\ Len(state'.entries) = Len(state.entries)
  /\ \A i \in Slots : Slot(i)' = IF i = x THEN e ELSE Slot(i)

\* An assignment to state.entries[x + 1].
LEMMA SetSlot ==
  ASSUME state \in State, NEW x \in Slots, NEW e \in Entry,
         state' = [state EXCEPT !.entries = [@ EXCEPT ![x + 1] = e]]
  PROVE  SlotSet(x, e)
<1> DEFINE new == [state.entries EXCEPT ![x + 1] = e]
<1>1. /\ state.entries \in Seq(Entry) /\ Len(state.entries) \in Nat /\ x + 1 \in 1 .. Len(state.entries)
      /\ x \in Nat
  BY Entries
<1>2. Len(new) = Len(state.entries)
      /\ \A i \in 1 .. Len(state.entries) : new[i] = IF i = x + 1 THEN e ELSE state.entries[i]
  BY <1>1
<1>3. state'.entries = new /\ state'.free_indices = state.free_indices
  BY DEF State
<1> HIDE DEF new
<1>4. ASSUME NEW i \in Slots PROVE Slot(i)' = IF i = x THEN e ELSE Slot(i)
  <2>1. i \in Nat /\ i + 1 \in 1 .. Len(state.entries)
    BY Entries
  <2> QED BY <1>1, <1>2, <1>3, <2>1 DEF Slot
<1> QED
  BY <1>2, <1>3, <1>4 DEF SlotSet, Slots

\* entry.value = v, and entry.generation += 1.
LEMMA SetSlotValue ==
  ASSUME state \in State, NEW x \in Slots, NEW v \in Box \cup {None},
         state' = [state EXCEPT !.entries[x + 1].value = v]
  PROVE  SlotSet(x, [value |-> v, generation |-> Slot(x).generation])
<1> DEFINE e == [value |-> v, generation |-> Slot(x).generation]
<1>1. Slot(x) \in Entry
  BY Entries
<1>2. e \in Entry /\ e = [Slot(x) EXCEPT !.value = v]
  BY <1>1 DEF Entry
<1>3. state' = [state EXCEPT !.entries = [@ EXCEPT ![x + 1] = e]]
  BY <1>2 DEF Slot
<1> HIDE DEF e
<1>4. SlotSet(x, e)
  BY <1>2, <1>3, SetSlot
<1> QED
  BY <1>4 DEF e

\* entry.generation += 1, within the limit.
LEMMA SetSlotGeneration ==
  ASSUME state \in State, NEW x \in Slots, Slot(x).generation < MAX_GENERATION,
         state' = [state EXCEPT !.entries[x + 1].generation = @ + 1]
  PROVE  SlotSet(x, [value |-> Slot(x).value, generation |-> Slot(x).generation + 1])
<1> DEFINE e == [value |-> Slot(x).value, generation |-> Slot(x).generation + 1]
<1>1. Slot(x) \in Entry /\ Slot(x).generation + 1 \in 1 .. MAX_GENERATION
  BY Entries, Limits
<1>2. e \in Entry /\ e = [Slot(x) EXCEPT !.generation = Slot(x).generation + 1]
  BY <1>1 DEF Entry
<1>3. state' = [state EXCEPT !.entries = [@ EXCEPT ![x + 1] = e]]
  BY <1>2 DEF Slot
<1> HIDE DEF e
<1>4. SlotSet(x, e)
  BY <1>2, <1>3, SetSlot
<1> QED
  BY <1>4 DEF e

\* A handle is of the slot it was made for.
LEMMA HandleOf ==
  ASSUME Core, NEW i \in Slots
  PROVE  /\ New(i, Slot(i).generation) \in Usize
         /\ Index(New(i, Slot(i).generation)) = i
         /\ Generation(New(i, Slot(i).generation)) = Slot(i).generation
<1>1. Len(state.entries) \in Nat /\ Len(state.entries) <= MAX_INDEX + 1 /\ Slot(i).generation \in 1 .. MAX_GENERATION
  BY Entries DEF Core, FreeOK
<1>2. i \in 0 .. MAX_INDEX /\ Slot(i).generation \in 0 .. MAX_GENERATION
  BY <1>1, Limits DEF Slots
<1> QED
  BY <1>2, RoundTrip

\* Handles were given out for the generations that slots have had.
LEMMA GivenKept ==
  ASSUME IInv, Given, NEW x \in Slots, NEW e, SlotSet(x, e),
         e.generation = Slot(x).generation, UNCHANGED issued
  PROVE  Given'
<1>1. /\ Slots' = Slots /\ state'.free_indices = state.free_indices
      /\ \A i \in Slots : Slot(i)'.generation = Slot(i).generation
  BY DEF SlotSet
<1>2. \A i \in DOMAIN state.free_indices : Fresh(state.free_indices[i])'
  BY <1>1 DEF Given, Fresh, IInv, Core, FreeOK
<1>3. \A key \in issued : Index(key) \in Slots' /\ Generation(key) <= Slot(Index(key))'.generation
  BY <1>1 DEF Given
<1> QED
  BY <1>1, <1>2, <1>3 DEF Given

\* What taking an index off the free list and making an entry do to the slots.
LEMMA PopSlots ==
  ASSUME state \in State, NEW x, Popped(x)
  PROVE  /\ x = state.free_indices[1] /\ 1 \in DOMAIN state.free_indices
         /\ state'.entries = state.entries
         /\ \A i \in DOMAIN state'.free_indices :
              i + 1 \in DOMAIN state.free_indices /\ state'.free_indices[i] = state.free_indices[i + 1]
<1> DEFINE f == state.free_indices
           tail == Tail(f)
<1>1. f \in Seq(0 .. MAX_INDEX) /\ f # <<>> /\ x = Head(f)
  BY Entries DEF Popped
<1>2. /\ Len(f) \in Nat /\ Len(f) # 0 /\ Head(f) = f[1] /\ DOMAIN f = 1 .. Len(f)
  BY <1>1
<1>3. /\ tail \in Seq(0 .. MAX_INDEX) /\ Len(tail) = Len(f) - 1
      /\ \A i \in 1 .. Len(tail) : tail[i] = f[i + 1]
  BY <1>1, HeadTailProperties
<1>4. state'.free_indices = tail /\ state'.entries = state.entries
  BY DEF Popped, State
<1>5. \A i \in DOMAIN tail : i + 1 \in DOMAIN f /\ tail[i] = f[i + 1]
  <2> HIDE DEF tail, f
  <2>1. DOMAIN tail = 1 .. Len(tail)
    BY <1>3
  <2> QED BY <1>2, <1>3, <2>1
<1> HIDE DEF tail
<1> QED
  BY <1>1, <1>2, <1>4, <1>5

\* A new entry is one more slot, vacant and of the first generation.
LEMMA PushSlots ==
  ASSUME state \in State, NEW x, Pushed(x)
  PROVE  /\ x \notin Slots /\ Slots' = Slots \cup {x} /\ state'.free_indices = state.free_indices
         /\ Len(state.entries) <= Len(state'.entries) /\ ~(x < Len(state.entries))
         /\ \A i \in Slots : Slot(i)' = Slot(i) /\ i < Len(state.entries)
         /\ Slot(x)' = [value |-> None, generation |-> 1]
<1> DEFINE e == state.entries
           b == [value |-> None, generation |-> 1]
           new == Append(e, b)
<1>1. x = Len(e) /\ state'.entries = new /\ state'.free_indices = state.free_indices
  BY DEF Pushed, State
<1>2. b \in Entry /\ e \in Seq(Entry)
  BY Entries, Limits DEF Entry
<1> HIDE DEF b
<1>3. /\ Len(e) \in Nat /\ Len(new) = Len(e) + 1
      /\ new[Len(e) + 1] = b /\ \A i \in 1 .. Len(e) : new[i] = e[i]
  BY <1>2
<1> HIDE DEF new
<1>4. Slots = 0 .. (Len(e) - 1) /\ Slots' = 0 .. Len(e)
  BY <1>1, <1>3 DEF Slots
<1>5. \A i \in Slots : i + 1 \in 1 .. Len(e)
  BY <1>3, <1>4
<1>6. \A i \in Slots : Slot(i)' = Slot(i) /\ i < Len(e)
  BY <1>1, <1>3, <1>4, <1>5 DEF Slot
<1>7. Slot(x)' = b
  BY <1>1, <1>3 DEF Slot
<1> QED
  BY <1>1, <1>3, <1>4, <1>6, <1>7 DEF b

\* register has a slot for its object.
LEMMA RegisterSlotHist ==
  ASSUME IInv, Hist, NEW t \in Thread, RegisterSlot(t)
  PROVE  Hist'
<1>1. /\ InCall(t) /\ call[t].op = "register" /\ call[t].at = "locked"
      /\ UNCHANGED <<mutex, aborted, committed, issued, lost>>
  BY DEF RegisterSlot, At
<1>2. /\ call[t] \in Call /\ call[t] # None /\ Held(call[t]) /\ ~Pointing(call[t]) /\ state \in State
  BY <1>1, CallIs DEF IInv, Core, Held, Holding, Pointing, Guarding
<1>3. committed = state /\ Given
  BY <1>1, <1>2 DEF Hist, CallHist, CommitOK
<1>4. Poison'
  BY <1>1, <1>2, Holder DEF Hist, Poison
<1>5. ASSUME NEW x \in 0 .. MAX_INDEX, call' = [call EXCEPT ![t].at = "slot", ![t].key = x],
             Popped(x) \/ Pushed(x)
      PROVE  Hist'
  <2> DEFINE r == WithSlot(call[t], x)
  <2>1. call' = [call EXCEPT ![t] = r]
    BY <1>5 DEF WithSlot
  <2>2. r \in Call /\ r # None /\ r.op = "register" /\ r.at = "slot" /\ r.key = x
    <3>1. x \in Usize
      BY HalfAssumption, Limits DEF Usize
    <3> QED BY <1>1, <1>2, <3>1, WithSlotIs
  <2> HIDE DEF r
  <2>3. call'[t] = r
    BY <2>1, <2>2, CallNext DEF IInv
  <2>4. Fresh(x)' /\ Given' /\ CommitOK(call[t])'
        /\ \A i \in Slots : i \in Slots' /\ Slot(i)'.generation = Slot(i).generation
    <3>1. CASE Popped(x)
      <4>1. /\ x = state.free_indices[1] /\ 1 \in DOMAIN state.free_indices
            /\ state'.entries = state.entries
            /\ \A i \in DOMAIN state'.free_indices :
                 i + 1 \in DOMAIN state.free_indices /\ state'.free_indices[i] = state.free_indices[i + 1]
        BY <1>2, <3>1, PopSlots
      <4>2. Slots' = Slots /\ \A i : Slot(i)' = Slot(i)
        BY <4>1 DEF Slots, Slot
      <4>3. Fresh(x)' /\ Given'
        BY <1>1, <1>3, <4>1, <4>2 DEF Given, Fresh
      <4>4. CommitOK(call[t])'
        <5>1. Len(state.entries) \in Nat
          BY <1>2, Entries
        <5>2. \A i \in Slots : i < Len(state.entries)
          BY <5>1 DEF Slots
        <5> QED BY <1>1, <1>3, <2>2, <2>3, <4>1, <4>2, <5>1, <5>2 DEF CommitOK, Slot
      <4> QED BY <4>2, <4>3, <4>4
    <3>2. CASE Pushed(x)
      <4>1. /\ x \notin Slots /\ Slots' = Slots \cup {x} /\ state'.free_indices = state.free_indices
            /\ Len(state.entries) <= Len(state'.entries) /\ ~(x < Len(state.entries))
            /\ \A i \in Slots : Slot(i)' = Slot(i) /\ i < Len(state.entries)
            /\ Slot(x)' = [value |-> None, generation |-> 1]
        BY <1>2, <3>2, PushSlots
      <4>2. Given'
        BY <1>1, <1>3, <4>1 DEF Given, Fresh, IInv, Core, FreeOK
      <4>3. Fresh(x)'
        <5>1. Index(New(x, 1)) = x
          BY Limits, RoundTrip
        <5> QED BY <1>1, <1>3, <4>1, <5>1 DEF Given, Fresh
      <4>4. CommitOK(call[t])'
        BY <1>1, <1>3, <2>2, <2>3, <4>1 DEF CommitOK, Slot
      <4> QED BY <4>1, <4>2, <4>3, <4>4
    <3> QED BY <1>5, <3>1, <3>2
  <2>5. CallHist(call[t])'
    BY <2>2, <2>3, <2>4 DEF CallHist, PinOK, FreshOK, RefusalOK, Target
  <2> QED BY <1>2, <1>4, <2>1, <2>2, <2>4, <2>5, HistInside
<1>6. CASE UNCHANGED state
  BY <1>6, LogHist
<1>7. CASE /\ state.free_indices # <<>>
           /\ state' = [state EXCEPT !.free_indices = Tail(@)]
           /\ call' = [call EXCEPT ![t].at = "slot", ![t].key = Head(state.free_indices)]
  <2>1. Head(state.free_indices) \in 0 .. MAX_INDEX
    BY <1>2, <1>7, Entries, HeadTailProperties
  <2> QED BY <1>5, <1>7, <2>1 DEF Popped
<1>8. CASE /\ state.free_indices = <<>> /\ Len(state.entries) <= MAX_INDEX
           /\ state' = [state EXCEPT !.entries = Append(@, [value |-> None, generation |-> 1])]
           /\ call' = [call EXCEPT ![t].at = "slot", ![t].key = Len(state.entries)]
  <2>1. Len(state.entries) \in 0 .. MAX_INDEX
    BY <1>2, <1>8, Entries, Limits
  <2> QED BY <1>5, <1>8, <2>1 DEF Pushed
<1> QED
  BY <1>6, <1>7, <1>8 DEF RegisterSlot

\* register stores the object, under a handle that was never given out.
LEMMA RegisterStoreHist ==
  ASSUME IInv, Hist, NEW t \in Thread, RegisterStore(t)
  PROVE  Hist'
<1>1. PICK x : x = call[t].key
  OBVIOUS
<1>2. /\ InCall(t) /\ call[t].op = "register" /\ call[t].at = "slot"
      /\ state' = [state EXCEPT !.entries[x + 1].value = call[t].box]
      /\ issued' = issued \cup {New(x, Slot(x).generation)}
      /\ mutex' = [mutex EXCEPT !.owner = None] /\ committed' = state'
      /\ call' = [call EXCEPT ![t] = None] /\ UNCHANGED lost
  BY <1>1 DEF RegisterStore, At, Unlock, Return, NewHandle
<1>3. /\ Held(call[t]) /\ Owning(call[t]) /\ Pointing(call[t]) /\ Target(call[t]) = x
      /\ call[t].box \in Box /\ call'[t] = None
  BY <1>1, <1>2, CallIs, CallNext DEF IInv, Held, Holding, Owning, Pointing, Target, CallOK
<1>4. x \in Slots /\ \A i \in DOMAIN state.free_indices : state.free_indices[i] # x
  BY <1>3 DEF IInv, Core, PointOK
<1>5. SlotSet(x, [value |-> call[t].box, generation |-> Slot(x).generation])
  BY <1>2, <1>3, <1>4, SetSlotValue DEF IInv, Core
<1>6. /\ Slots' = Slots /\ state'.free_indices = state.free_indices
      /\ \A i \in Slots : Slot(i)'.generation = Slot(i).generation
  BY <1>5 DEF SlotSet
<1>7. Poison'
  <2>1. mutex'.owner = None /\ mutex'.poisoned = FALSE /\ lost = {}
    BY <1>2, <1>3, Holder DEF IInv, Mutex
  <2> QED BY <1>2, <2>1 DEF Poison
<1>8. Given'
  <2>1. ASSUME NEW i \in DOMAIN state.free_indices PROVE Fresh(state.free_indices[i])'
    <3>1. PICK j \in Slots : j = state.free_indices[i] /\ j # x
      BY <1>4 DEF IInv, Core, FreeOK
    <3>2. New(j, Slot(j).generation) # New(x, Slot(x).generation)
      BY <1>4, <3>1, HandleOf DEF IInv
    <3> QED BY <1>2, <1>6, <3>1, <3>2 DEF Hist, Given, Fresh
  <2>2. ASSUME NEW key \in issued'
        PROVE  Index(key) \in Slots /\ Generation(key) <= Slot(Index(key)).generation
    <3>1. CASE key \in issued
      BY <3>1 DEF Hist, Given
    <3>2. CASE key = New(x, Slot(x).generation)
      <4>1. Index(key) = x /\ Generation(key) = Slot(x).generation /\ Slot(x).generation \in 1 .. MAX_GENERATION
        BY <1>4, <3>2, HandleOf, Entries DEF IInv, Core
      <4> QED BY <1>4, <4>1, Limits
    <3> QED BY <1>2, <3>1, <3>2
  <2> QED BY <1>6, <2>1, <2>2 DEF Given
<1> QED
  BY <1>2, <1>3, <1>6, <1>7, <1>8, Returned, HistInside

\* reclaim and borrow_mut take the object of a slot at the generation of the key.
LEMMA TakeHist ==
  ASSUME IInv, Hist, NEW t \in Thread, ReclaimTake(t) \/ BorrowMut(t)
  PROVE  Hist'
<1>1. PICK key : key = call[t].key
  OBVIOUS
<1>2. PICK x : x = Index(key)
  OBVIOUS
<1>3. PICK v : v = Slot(x).value
  OBVIOUS
<1>4. /\ InCall(t) /\ call[t].op \in {"reclaim", "borrow_mut"} /\ call[t].at = "locked"
      /\ x \in Slots /\ Slot(x).generation = Generation(key) /\ v # None
      /\ state' = [state EXCEPT !.entries[x + 1].value = None]
      /\ UNCHANGED <<aborted, issued, lost>>
  BY <1>1, <1>2, <1>3 DEF ReclaimTake, BorrowMut, At, Take, Resolves, Current
<1>5. /\ call[t] \in Call /\ call[t] # None /\ key \in Usize /\ Held(call[t]) /\ ~Pointing(call[t])
      /\ Slot(x) \in Entry /\ v \in Box /\ committed = state
  <2>1. /\ call[t] \in Call /\ call[t] # None /\ key \in Usize /\ Held(call[t]) /\ ~Pointing(call[t])
    BY <1>1, <1>4, CallIs DEF IInv, CallOK, Held, Holding, Pointing, Guarding
  <2>2. Slot(x) \in Entry
    BY <1>4, Entries DEF IInv, Core
  <2> QED BY <1>3, <1>4, <2>1, <2>2 DEF Entry, Hist, CallHist, CommitOK
<1>6. PICK r \in Call :
        /\ call' = [call EXCEPT ![t] = r] /\ r # None /\ r.key = key /\ r.box = v
        /\ \/ r.op = "reclaim" /\ r.at = "taken" /\ UNCHANGED <<mutex, committed>>
           \/ r.op = "user" /\ r.at = "use" /\ Unlock
  <2>1. CASE ReclaimTake(t)
    <3> DEFINE r == WithBox(call[t], v)
    <3>1. call' = [call EXCEPT ![t] = r] /\ UNCHANGED <<mutex, committed>> /\ call[t].op = "reclaim"
      BY <1>1, <1>2, <1>3, <2>1 DEF ReclaimTake, At, Value, WithBox
    <3>2. r \in Call /\ r.key = key /\ r.box = v /\ r.at = "taken" /\ r.op = "reclaim" /\ r # None
      BY <1>1, <1>5, <3>1, WithBoxIs
    <3> QED BY <3>1, <3>2
  <2>2. CASE BorrowMut(t)
    <3> DEFINE r == WithGuard(call[t], v)
    <3>1. call' = [call EXCEPT ![t] = r] /\ Unlock
      BY <1>1, <1>2, <1>3, <2>2 DEF BorrowMut, Value, WithGuard
    <3>2. r \in Call /\ r.key = key /\ r.box = v /\ r.at = "use" /\ r.op = "user" /\ r # None
      BY <1>1, <1>5, WithGuardIs
    <3> QED BY <3>1, <3>2
  <2> QED BY <1>4, <2>1, <2>2
<1>7. SlotSet(x, [value |-> None, generation |-> Slot(x).generation])
  BY <1>4, SetSlotValue DEF IInv, Core
<1>8. /\ Slots' = Slots /\ Len(state'.entries) = Len(state.entries)
      /\ \A i \in Slots : /\ Slot(i)'.generation = Slot(i).generation
                          /\ i # x => Slot(i)' = Slot(i)
  BY <1>7 DEF SlotSet
<1>9. call'[t] = r
  BY <1>6, CallNext DEF IInv
<1>10. Poison'
  <2>1. mutex.poisoned = FALSE /\ lost = {}
    BY <1>5, Holder
  <2>2. mutex' = mutex \/ (mutex'.owner = None /\ mutex'.poisoned = FALSE /\ committed' = state')
    BY <1>6, <2>1 DEF Unlock, IInv, Mutex
  <2>3. mutex.owner # None
    BY <1>5, Holder
  <2> QED BY <1>4, <2>1, <2>2, <2>3 DEF Poison
<1>11. Given'
  BY <1>4, <1>7, GivenKept DEF Hist
<1>12. CommitOK(call[t])'
  <2>1. CASE r.at = "taken"
    <3>1. Slot(x) = [value |-> v, generation |-> Generation(key)]
      BY <1>3, <1>4, <1>5 DEF Entry
    <3> QED BY <1>2, <1>5, <1>6, <1>8, <1>9, <2>1, <3>1 DEF CommitOK, Slot
  <2> QED BY <1>6, <1>9, <2>1 DEF CommitOK
<1>13. CallHist(call[t])'
  BY <1>2, <1>4, <1>6, <1>8, <1>9, <1>12 DEF CallHist, PinOK, FreshOK, RefusalOK, Target
<1> QED
  BY <1>5, <1>6, <1>8, <1>10, <1>11, <1>13, HistInside

\* return_mut puts the object back.
LEMMA ReturnMutHist ==
  ASSUME IInv, Hist, NEW t \in Thread, ReturnMut(t)
  PROVE  Hist'
<1>1. PICK x : x = Index(call[t].key)
  OBVIOUS
<1>2. /\ InCall(t) /\ call[t].op = "return_mut" /\ call[t].at = "locked"
      /\ state' = [state EXCEPT !.entries[x + 1].value = call[t].box]
      /\ mutex' = [mutex EXCEPT !.owner = None] /\ committed' = state'
      /\ call' = [call EXCEPT ![t] = None] /\ UNCHANGED <<issued, lost>>
  BY <1>1 DEF ReturnMut, At, Unlock, Return, Unwound
<1>3. /\ Held(call[t]) /\ Pointing(call[t]) /\ Target(call[t]) = x
      /\ call[t].box \in Box /\ call'[t] = None
  BY <1>1, <1>2, CallIs, CallNext DEF IInv, Held, Holding, Owning, Guarding, Pointing, Target, CallOK
<1>4. x \in Slots
  BY <1>3 DEF IInv, Core, PointOK
<1>5. SlotSet(x, [value |-> call[t].box, generation |-> Slot(x).generation])
  BY <1>2, <1>3, <1>4, SetSlotValue DEF IInv, Core
<1>6. Slots' = Slots /\ \A i \in Slots : Slot(i)'.generation = Slot(i).generation
  BY <1>5 DEF SlotSet
<1>7. Poison'
  <2>1. mutex'.owner = None /\ mutex'.poisoned = FALSE /\ lost = {}
    BY <1>2, <1>3, Holder DEF IInv, Mutex
  <2> QED BY <1>2, <2>1 DEF Poison
<1>8. Given'
  <2> DEFINE e == [value |-> call[t].box, generation |-> Slot(x).generation]
  <2>1. e.generation = Slot(x).generation
    OBVIOUS
  <2> HIDE DEF e
  <2> QED BY <1>2, <1>4, <1>5, <2>1, GivenKept DEF Hist, e
<1> QED
  BY <1>2, <1>3, <1>6, <1>7, <1>8, Returned, HistInside

\* reclaim moves its slot on to a generation that no handle has, or leaves it.
LEMMA ReclaimGenerationHist ==
  ASSUME IInv, Hist, NEW t \in Thread, ReclaimGeneration(t)
  PROVE  Hist'
<1>1. PICK x : x = Index(call[t].key)
  OBVIOUS
<1>2. /\ InCall(t) /\ call[t].op = "reclaim" /\ call[t].at = "taken" /\ UNCHANGED <<aborted, issued, lost>>
      /\ \/ /\ Slot(x).generation < MAX_GENERATION
            /\ state' = [state EXCEPT !.entries[x + 1].generation = @ + 1]
            /\ Goto(t, "advanced") /\ UNCHANGED <<mutex, committed>>
         \/ UNCHANGED state /\ Unlock /\ Goto(t, "drop")
  BY <1>1 DEF ReclaimGeneration, At
<1>3. /\ call[t] # None /\ Held(call[t]) /\ Pointing(call[t]) /\ Target(call[t]) = x
      /\ CallHist(call[t]) /\ lost = {} /\ mutex.poisoned = FALSE /\ mutex.owner # None
  BY <1>1, <1>2, CallIs, Holder DEF IInv, Held, Holding, Pointing, Target, Hist
<1>4. x \in Slots /\ \A i \in DOMAIN state.free_indices : state.free_indices[i] # x
  BY <1>3 DEF IInv, Core, PointOK
<1>5. PICK r \in Call :
        /\ call' = [call EXCEPT ![t] = r] /\ r # None /\ r.op = "reclaim"
        /\ r.key = call[t].key /\ r.box = call[t].box
        /\ \/ /\ r.at = "advanced" /\ UNCHANGED <<mutex, committed>>
              /\ Slot(x).generation < MAX_GENERATION
              /\ state' = [state EXCEPT !.entries[x + 1].generation = @ + 1]
           \/ r.at = "drop" /\ Unlock /\ UNCHANGED state
  BY <1>2, GotoIs DEF IInv, Holding
<1>6. call'[t] = r
  BY <1>5, CallNext DEF IInv
<1>7. CASE r.at = "drop" /\ Unlock /\ UNCHANGED state
  <2>1. Poison'
    BY <1>2, <1>3, <1>7 DEF Poison, Unlock, IInv, Mutex
  <2>2. Given' /\ \A i \in Slots : i \in Slots' /\ Slot(i)' = Slot(i)
    BY <1>2, <1>7 DEF Hist, Given, Fresh, Slots, Slot
  <2>3. CallHist(call[t])'
    BY <1>5, <1>6, <1>7 DEF CallHist, CommitOK, PinOK, FreshOK, RefusalOK, Pointing, Guarding
  <2> QED BY <1>3, <1>5, <2>1, <2>2, <2>3, HistInside
<1>8. CASE /\ r.at = "advanced" /\ UNCHANGED <<mutex, committed>>
           /\ Slot(x).generation < MAX_GENERATION
           /\ state' = [state EXCEPT !.entries[x + 1].generation = @ + 1]
  <2>1. PICK n : n = Slot(x).generation + 1
    OBVIOUS
  <2>2. SlotSet(x, [value |-> Slot(x).value, generation |-> n])
    BY <1>4, <1>8, <2>1, SetSlotGeneration DEF IInv, Core
  <2>3. /\ Slots' = Slots /\ state'.free_indices = state.free_indices
        /\ Len(state'.entries) = Len(state.entries)
        /\ \A i \in Slots : i # x => Slot(i)' = Slot(i)
        /\ Slot(x)'.generation = n
    BY <1>4, <2>2 DEF SlotSet
  <2>4. Slot(x).generation \in 1 .. MAX_GENERATION /\ x \in 0 .. MAX_INDEX /\ n \in 1 .. MAX_GENERATION
    <3>1. Len(state.entries) \in Nat /\ Len(state.entries) <= MAX_INDEX + 1 /\ Slot(x).generation \in 1 .. MAX_GENERATION
      BY <1>4, Entries DEF IInv, Core, FreeOK
    <3> QED BY <1>4, <1>8, <2>1, <3>1, Limits DEF Slots
  <2>5. \A key \in issued : key \in Usize /\ Generation(key) \in Nat
    <3>1. issued \subseteq Usize
      BY DEF IInv, Rest
    <3> QED BY <3>1, HalvesOfWord, Limits
  <2>6. Fresh(x)'
    <3>1. Index(New(x, n)) = x /\ Generation(New(x, n)) = n
      BY <2>4, RoundTrip, Limits
    <3>2. New(x, n) \notin issued
      BY <2>1, <2>4, <3>1 DEF Hist, Given
    <3> QED BY <1>2, <2>3, <3>2 DEF Fresh
  <2>7. Given'
    <3>1. \A i \in DOMAIN state.free_indices : Fresh(state.free_indices[i])'
      BY <1>2, <1>4, <2>3 DEF Hist, Given, Fresh, IInv, Core, FreeOK
    <3>2. \A key \in issued : Index(key) \in Slots /\ Generation(key) <= Slot(Index(key))'.generation
      <4> TAKE key \in issued
      <4>1. Index(key) \in Slots /\ Generation(key) <= Slot(Index(key)).generation /\ Generation(key) \in Nat
        BY <2>5 DEF Hist, Given
      <4> QED BY <2>1, <2>3, <2>4, <4>1
    <3> QED BY <1>2, <2>3, <3>1, <3>2 DEF Given
  <2>8. Poison'
    BY <1>2, <1>3, <1>8 DEF Poison
  <2>9. CallHist(call[t])'
    <3>1. CommitOK(call[t])'
      BY <1>1, <1>2, <1>3, <1>5, <1>6, <1>8, <2>3 DEF CallHist, CommitOK
    <3>2. PinOK(call[t])'
      BY <1>1, <1>2, <1>3, <1>5, <1>6, <1>8, <2>1, <2>3 DEF CallHist, PinOK, Target
    <3>3. FreshOK(call[t])'
      BY <1>1, <1>5, <1>6, <1>8, <2>6 DEF FreshOK, Target
    <3> QED BY <1>5, <1>6, <1>8, <3>1, <3>2, <3>3 DEF CallHist, RefusalOK
  <2> QED BY <1>3, <1>5, <2>3, <2>7, <2>8, <2>9, HistInside
<1> QED
  BY <1>5, <1>7, <1>8

\* reclaim frees an index whose next handle was never given out.
LEMMA ReclaimFreeHist ==
  ASSUME IInv, Hist, NEW t \in Thread, ReclaimFree(t)
  PROVE  Hist'
<1>1. PICK x : x = Index(call[t].key)
  OBVIOUS
<1>2. /\ InCall(t) /\ call[t].op = "reclaim" /\ call[t].at = "advanced"
      /\ state' = [state EXCEPT !.free_indices = Append(@, x)]
      /\ mutex' = [mutex EXCEPT !.owner = None] /\ committed' = state' /\ Goto(t, "drop")
      /\ UNCHANGED <<aborted, issued, lost>>
  BY <1>1 DEF ReclaimFree, At, Unlock
<1>3. /\ call[t] # None /\ Held(call[t]) /\ Pointing(call[t]) /\ Target(call[t]) = x /\ Fresh(x)
      /\ lost = {} /\ mutex.poisoned = FALSE
  BY <1>1, <1>2, CallIs, Holder DEF IInv, Held, Holding, Pointing, Target, Hist, CallHist, FreshOK
<1>4. PICK r \in Call : /\ call' = [call EXCEPT ![t] = r] /\ r # None /\ r.at = "drop"
                        /\ r.op = "reclaim"
  BY <1>2, GotoIs DEF IInv
<1>5. call'[t] = r
  BY <1>4, CallNext DEF IInv
<1>6. /\ state'.entries = state.entries
      /\ \A i \in DOMAIN state'.free_indices :
           \/ i \in DOMAIN state.free_indices /\ state'.free_indices[i] = state.free_indices[i]
           \/ state'.free_indices[i] = x
  <2> DEFINE f == state.free_indices
             new == Append(f, x)
  <2>1. f \in Seq(0 .. MAX_INDEX) /\ state'.free_indices = new /\ state'.entries = state.entries
    BY <1>2, Entries DEF IInv, Core, State
  <2>2. x \in 0 .. MAX_INDEX
    BY <1>1, <1>3, CallIs, HalvesOfWord, <1>2 DEF IInv, CallOK
  <2>3. /\ Len(f) \in Nat /\ DOMAIN f = 1 .. Len(f) /\ DOMAIN new = 1 .. (Len(f) + 1)
        /\ new[Len(f) + 1] = x /\ \A i \in 1 .. Len(f) : new[i] = f[i]
    BY <2>1, <2>2
  <2> HIDE DEF new
  <2> QED BY <2>1, <2>3
<1>7. Slots' = Slots /\ \A i : Slot(i)' = Slot(i)
  BY <1>6 DEF Slots, Slot
<1>8. Given'
  <2>1. \A i \in DOMAIN state'.free_indices : Fresh(state'.free_indices[i])
    BY <1>3, <1>6 DEF Hist, Given
  <2> QED BY <1>2, <1>7, <2>1 DEF Hist, Given, Fresh
<1>9. Poison'
  BY <1>2, <1>3 DEF Poison, IInv, Mutex
<1>10. CallHist(call[t])'
  BY <1>4, <1>5 DEF CallHist, CommitOK, PinOK, FreshOK, RefusalOK, Pointing, Guarding
<1> QED
  BY <1>3, <1>4, <1>7, <1>8, <1>9, <1>10, HistInside

\* Every step keeps the history.
LEMMA NextHist == IInv /\ Hist /\ [Next]_vars => Hist'
<1> SUFFICES ASSUME IInv, Hist, [Next]_vars PROVE Hist'
  OBVIOUS
<1>1. CASE UNCHANGED vars
  BY <1>1 DEF vars, Hist, Poison, Given, CallHist, CommitOK, PinOK, FreshOK, RefusalOK, Fresh,
     Resolves, Current, Slots, Slot
<1>2. ASSUME NEW t \in Thread,
             NewCounter(t) \/ \E key \in Passed : FreeCounter(t, key) \/ IncreaseCounter(t, key)
      PROVE  Hist'
  BY <1>2, EnterHist
<1>3. ASSUME NEW t \in Thread, Step(t) PROVE Hist'
  <2>1. CASE Lock(t) \/ LockPoisoned(t) \/ Use(t) \/ DropCounter(t)
    BY <2>1, LockHist, LockPoisonedHist, UserHist
  <2>2. CASE RegisterSlot(t) \/ RegisterStore(t)
    BY <2>2, RegisterSlotHist, RegisterStoreHist
  <2>3. CASE Refused(t) \/ LogReturns(t) \/ LogPanics(t) \/ LogReenters(t)
    BY <2>3, LogHist
  <2>4. CASE ReclaimTake(t) \/ BorrowMut(t) \/ ReturnMut(t)
    BY <2>4, TakeHist, ReturnMutHist
  <2>5. CASE ReclaimGeneration(t) \/ ReclaimFree(t)
    BY <2>5, ReclaimGenerationHist, ReclaimFreeHist
  <2> QED BY <1>3, <2>1, <2>2, <2>3, <2>4, <2>5 DEF Step
<1> QED
  BY <1>1, <1>2, <1>3 DEF Next

-----------------------------------------------------------------------------
(***************************************************************************)
(* The state of Tracker, taken apart.                                      *)
(***************************************************************************)
Lends(r) == r # None /\ Guarding(r)
Lent(r) == [key |-> r.key, val |-> r.box]
Keeps(r) == r # None /\ (r.op = "register" \/ r.at = "drop")
GuardsOf(c) == {Lent(c[t]) : t \in {u \in Thread : Lends(c[u])}}
HeldOf(c) == {c[t].box : t \in {u \in Thread : Keeps(c[u])}}

\* The object that a key has in st, guards apart.
Seen(st, key) ==
  IF Index(key) < Len(st.entries) /\ st.entries[Index(key) + 1].generation = Generation(key)
  THEN st.entries[Index(key) + 1].value ELSE None
BarOf(out, st) ==
  [key \in Usize |->
     IF \E g \in out : g.key = key THEN (CHOOSE g \in out : g.key = key).val ELSE Seen(st, key)]
KeysOf(out) == {g.key : g \in out}

\* The mapping of ImplementsTracker is in these terms, before a step ...
LEMMA Bars ==
  /\ Guards = GuardsOf(call) /\ heldBar = HeldOf(call)
  /\ liveBar = BarOf(GuardsOf(call) \cup lost, committed)
  /\ {g.key : g \in Guards \cup lost} = KeysOf(GuardsOf(call) \cup lost)
<1>1. Guards = GuardsOf(call)
  BY DEF Guards, GuardsOf, GuardOf, Lent, Lends, Guarding, HasGuard, InCall
<1>2. heldBar = HeldOf(call)
  BY DEF heldBar, HeldOf, Keeps, InCall
<1>3. liveBar = BarOf(GuardsOf(call) \cup lost, committed)
  BY <1>1 DEF liveBar, BarOf, Seen
<1> QED
  BY <1>1, <1>2, <1>3 DEF KeysOf

\* ... and after it.
LEMMA BarsNext ==
  /\ heldBar' = HeldOf(call')
  /\ liveBar' = BarOf(GuardsOf(call') \cup lost', committed')
  /\ {g.key : g \in Guards \cup lost}' = KeysOf(GuardsOf(call') \cup lost')
<1>1. (/\ Guards = GuardsOf(call) /\ heldBar = HeldOf(call)
       /\ liveBar = BarOf(GuardsOf(call) \cup lost, committed)
       /\ {g.key : g \in Guards \cup lost} = KeysOf(GuardsOf(call) \cup lost))'
  BY Bars, PTL
<1> QED
  BY <1>1

\* The actions of Tracker, in these terms.
LEMMA MapNewBox ==
  ASSUME NEW b \in Box, b \notin heldBar, \A k \in Usize : liveBar[k] # b,
         heldBar' = heldBar \cup {b},
         UNCHANGED <<liveBar, {g.key : g \in Guards \cup lost}, issued>>
  PROVE  Abstract(NoAnswer)!Next
BY DEF Abstract!Next, Abstract!NewBox, Abstract!Registered, Abstract!NoReply, NoAnswer, Answer

\* The caller drops a box it has.
LEMMA MapDropBox ==
  ASSUME NEW b \in Box, b \in heldBar, heldBar' = heldBar \ {b},
         UNCHANGED <<liveBar, {g.key : g \in Guards \cup lost}, issued>>
  PROVE  Abstract(NoAnswer)!Next
BY DEF Abstract!Next, Abstract!DropBox, Abstract!NoReply, NoAnswer, Answer

\* register succeeds under a key that is free and was never given out.
LEMMA MapRegister ==
  ASSUME NEW b \in Box, NEW k \in Usize, NEW ans, ans = Answer("register", k, TRUE, b),
         b \in heldBar, liveBar[k] = None, k \notin issued,
         liveBar' = [liveBar EXCEPT ![k] = b], issued' = issued \cup {k}, heldBar' = heldBar \ {b},
         UNCHANGED {g.key : g \in Guards \cup lost}
  PROVE  Abstract(ans)!Next
<1>1. Abstract(ans)!Register(b, k)
  BY DEF Abstract!Register, Abstract!Answer, Answer
<1> QED
  BY <1>1 DEF Abstract!Next

\* register fails, and its box is gone.
LEMMA MapRegisterFails ==
  ASSUME NEW b \in Box, NEW ans, ans = Answer("register", None, FALSE, None),
         b \in heldBar, heldBar' = heldBar \ {b},
         UNCHANGED <<liveBar, {g.key : g \in Guards \cup lost}, issued>>
  PROVE  Abstract(ans)!Next
<1>1. Abstract(ans)!RegisterFails(b)
  BY DEF Abstract!RegisterFails, Abstract!Answer, Answer
<1> QED
  BY <1>1 DEF Abstract!Next

\* reclaim hands back what the key has.
LEMMA MapReclaim ==
  ASSUME NEW k \in Usize, NEW ans, ans = Answer("reclaim", k, TRUE, liveBar[k]),
         liveBar[k] # None, k \notin {g.key : g \in Guards \cup lost},
         liveBar' = [liveBar EXCEPT ![k] = None], heldBar' = heldBar \cup {liveBar[k]},
         UNCHANGED <<{g.key : g \in Guards \cup lost}, issued>>
  PROVE  Abstract(ans)!Next
<1>1. Abstract(ans)!Reclaim(k)
  BY DEF Abstract!Reclaim, Abstract!Available, Abstract!Answer, Answer
<1> QED
  BY <1>1 DEF Abstract!Next

\* borrow_mut lends what the key has.
LEMMA MapBorrowMut ==
  ASSUME NEW k \in Usize, NEW ans, ans = Answer("borrow_mut", k, TRUE, liveBar[k]),
         liveBar[k] # None, k \notin {g.key : g \in Guards \cup lost},
         {g.key : g \in Guards \cup lost}' = {g.key : g \in Guards \cup lost} \cup {k},
         UNCHANGED <<liveBar, heldBar, issued>>
  PROVE  Abstract(ans)!Next
<1>1. Abstract(ans)!BorrowMut(k)
  BY DEF Abstract!BorrowMut, Abstract!Available, Abstract!Answer, Answer
<1> QED
  BY <1>1 DEF Abstract!Next

\* A call is refused where the key has nothing to give.
LEMMA MapRefuse ==
  ASSUME NEW k \in Usize, NEW op \in {"reclaim", "borrow_mut"}, NEW ans,
         ans = Answer(op, k, FALSE, None),
         liveBar[k] = None \/ k \in {g.key : g \in Guards \cup lost},
         UNCHANGED <<liveBar, {g.key : g \in Guards \cup lost}, issued, heldBar>>
  PROVE  Abstract(ans)!Next
<1>1. Abstract(ans)!Refuse(k)
  BY DEF Abstract!Refuse, Abstract!Available, Abstract!Answer, Answer
<1> QED
  BY <1>1 DEF Abstract!Next

\* A guard is dropped.
LEMMA MapReturnMut ==
  ASSUME NEW k \in Usize, NEW ans, ans = NoAnswer,
         k \in {g.key : g \in Guards \cup lost},
         {g.key : g \in Guards \cup lost}' = {g.key : g \in Guards \cup lost} \ {k},
         UNCHANGED <<liveBar, heldBar, issued>>
  PROVE  Abstract(ans)!Next
<1>1. Abstract(ans)!ReturnMut(k)
  BY DEF Abstract!ReturnMut, Abstract!NoReply, NoAnswer, Answer
<1> QED
  BY <1>1 DEF Abstract!Next

\* The call of t becomes r.
Becomes(t, r) == call'[t] = r /\ \A u \in Thread \ {t} : call'[u] = call[u]

\* The guards stay, gain the one of t, or lose it.
LEMMA GuardsNext ==
  ASSUME NEW t \in Thread, NEW r, Becomes(t, r)
  PROVE  /\ ((Lends(call[t]) <=> Lends(r)) /\ (Lends(r) => Lent(call[t]) = Lent(r)))
              => GuardsOf(call') = GuardsOf(call)
         /\ ~Lends(call[t]) /\ Lends(r) => GuardsOf(call') = GuardsOf(call) \cup {Lent(r)}
         /\ (/\ Lends(call[t]) /\ ~Lends(r)
             /\ \A u \in Thread \ {t} : Lends(call[u]) => Lent(call[u]) # Lent(call[t]))
              => GuardsOf(call') = GuardsOf(call) \ {Lent(call[t])}
<1>1. /\ \A g \in GuardsOf(call) : \E u \in Thread : Lends(call[u]) /\ g = Lent(call[u])
      /\ \A u \in Thread : Lends(call[u]) => Lent(call[u]) \in GuardsOf(call)
      /\ \A g \in GuardsOf(call') : \E u \in Thread : Lends(call'[u]) /\ g = Lent(call'[u])
      /\ \A u \in Thread : Lends(call'[u]) => Lent(call'[u]) \in GuardsOf(call')
  BY DEF GuardsOf
<1>2. call'[t] = r /\ \A u \in Thread \ {t} : call'[u] = call[u]
  BY DEF Becomes
<1>3. ASSUME Lends(call[t]) <=> Lends(r), Lends(r) => Lent(call[t]) = Lent(r)
      PROVE  GuardsOf(call') = GuardsOf(call)
  <2>1. \A u \in Thread : /\ Lends(call'[u]) <=> Lends(call[u])
                          /\ Lends(call[u]) => Lent(call'[u]) = Lent(call[u])
    BY <1>2, <1>3
  <2> QED BY <1>1, <2>1
<1>4. ASSUME ~Lends(call[t]), Lends(r)
      PROVE  GuardsOf(call') = GuardsOf(call) \cup {Lent(r)}
  <2>1. \A g \in GuardsOf(call') : g \in GuardsOf(call) \/ g = Lent(r)
    BY <1>1, <1>2
  <2>2. \A g \in GuardsOf(call) : g \in GuardsOf(call')
    BY <1>1, <1>2, <1>4
  <2>3. Lent(r) \in GuardsOf(call')
    BY <1>1, <1>2, <1>4
  <2> QED BY <2>1, <2>2, <2>3
<1>5. ASSUME Lends(call[t]), ~Lends(r),
             \A u \in Thread \ {t} : Lends(call[u]) => Lent(call[u]) # Lent(call[t])
      PROVE  GuardsOf(call') = GuardsOf(call) \ {Lent(call[t])}
  <2>1. \A g \in GuardsOf(call') : g \in GuardsOf(call) /\ g # Lent(call[t])
    BY <1>1, <1>2, <1>5
  <2>2. \A g \in GuardsOf(call) : g # Lent(call[t]) => g \in GuardsOf(call')
    BY <1>1, <1>2, <1>5
  <2> QED BY <2>1, <2>2
<1> QED
  BY <1>3, <1>4, <1>5

\* So do the boxes kept.
LEMMA HeldNext ==
  ASSUME NEW t \in Thread, NEW r, Becomes(t, r)
  PROVE  /\ ((Keeps(call[t]) <=> Keeps(r)) /\ (Keeps(r) => call[t].box = r.box))
              => HeldOf(call') = HeldOf(call)
         /\ ~Keeps(call[t]) /\ Keeps(r) => HeldOf(call') = HeldOf(call) \cup {r.box}
         /\ (/\ Keeps(call[t]) /\ ~Keeps(r)
             /\ \A u \in Thread \ {t} : Keeps(call[u]) => call[u].box # call[t].box)
              => HeldOf(call') = HeldOf(call) \ {call[t].box}
<1>1. /\ \A b \in HeldOf(call) : \E u \in Thread : Keeps(call[u]) /\ b = call[u].box
      /\ \A u \in Thread : Keeps(call[u]) => call[u].box \in HeldOf(call)
      /\ \A b \in HeldOf(call') : \E u \in Thread : Keeps(call'[u]) /\ b = call'[u].box
      /\ \A u \in Thread : Keeps(call'[u]) => call'[u].box \in HeldOf(call')
  BY DEF HeldOf
<1>2. call'[t] = r /\ \A u \in Thread \ {t} : call'[u] = call[u]
  BY DEF Becomes
<1>3. ASSUME Keeps(call[t]) <=> Keeps(r), Keeps(r) => call[t].box = r.box
      PROVE  HeldOf(call') = HeldOf(call)
  <2>1. \A u \in Thread : /\ Keeps(call'[u]) <=> Keeps(call[u])
                          /\ Keeps(call[u]) => call'[u].box = call[u].box
    BY <1>2, <1>3
  <2>2. \A b \in HeldOf(call) : b \in HeldOf(call')
    BY <1>1, <2>1
  <2>3. \A b \in HeldOf(call') : b \in HeldOf(call)
    BY <1>1, <2>1
  <2> QED BY <2>2, <2>3
<1>4. ASSUME ~Keeps(call[t]), Keeps(r)
      PROVE  HeldOf(call') = HeldOf(call) \cup {r.box}
  <2>1. \A b \in HeldOf(call') : b \in HeldOf(call) \/ b = r.box
    BY <1>1, <1>2
  <2>2. \A b \in HeldOf(call) : b \in HeldOf(call')
    BY <1>1, <1>2, <1>4
  <2>3. r.box \in HeldOf(call')
    BY <1>1, <1>2, <1>4
  <2> QED BY <2>1, <2>2, <2>3
<1>5. ASSUME Keeps(call[t]), ~Keeps(r),
             \A u \in Thread \ {t} : Keeps(call[u]) => call[u].box # call[t].box
      PROVE  HeldOf(call') = HeldOf(call) \ {call[t].box}
  <2>1. \A b \in HeldOf(call') : b \in HeldOf(call) /\ b # call[t].box
    BY <1>1, <1>2, <1>5
  <2>2. \A b \in HeldOf(call) : b # call[t].box => b \in HeldOf(call')
    BY <1>1, <1>2, <1>5
  <2> QED BY <2>1, <2>2
<1> QED
  BY <1>3, <1>4, <1>5

\* What no other call has: a guard's key, once nothing is lost, and a kept box.
LEMMA Apart ==
  ASSUME IInv, NEW t \in Thread
  PROVE  /\ \A r : (Lends(r) => Pointing(r) /\ Owning(r) /\ Target(r) = Index(r.key)) /\ (Keeps(r) => Owning(r))
         /\ \A u \in Thread \ {t} : Lends(call[u]) /\ Lends(call[t]) => Lent(call[u]) # Lent(call[t])
         /\ \A u \in Thread \ {t} : Keeps(call[u]) /\ Keeps(call[t]) => call[u].box # call[t].box
         /\ \A u \in Thread \ {t} : Lends(call[u]) /\ Pointing(call[t]) => Index(call[u].key) # Target(call[t])
<1>1. \A r : (Lends(r) => Pointing(r) /\ Owning(r) /\ Target(r) = Index(r.key)) /\ (Keeps(r) => Owning(r))
  BY DEF Lends, Keeps, Pointing, Owning, Guarding, Target
<1>2. \A u \in Thread \ {t} : Owning(call[u]) /\ Owning(call[t]) => call[u].box # call[t].box
  BY DEF IInv, Core, BoxOK
<1>3. \A u \in Thread \ {t} : Pointing(call[u]) /\ Pointing(call[t]) => Target(call[u]) # Target(call[t])
  BY DEF IInv, Core, PointOK
<1> QED
  BY <1>1, <1>2, <1>3 DEF Lent

\* The value under a key, with and without a guard.
LEMMA BarValue ==
  ASSUME NEW out, NEW st, NEW key \in Usize
  PROVE  /\ (\A g \in out : g.key # key) => BarOf(out, st)[key] = Seen(st, key)
         /\ \A g \in out : g.key = key /\ (\A h \in out : h.key = key => h = g) => BarOf(out, st)[key] = g.val
         /\ (\E g \in out : g.key = key) => \E g \in out : BarOf(out, st)[key] = g.val
<1>1. BarOf(out, st)[key] =
        IF \E g \in out : g.key = key THEN (CHOOSE g \in out : g.key = key).val ELSE Seen(st, key)
  BY DEF BarOf
<1> QED
  BY <1>1

-----------------------------------------------------------------------------
(***************************************************************************)
(* Every step is a step of Tracker or none.                                *)
(***************************************************************************)
Silent == UNCHANGED <<liveBar, {g.key : g \in Guards \cup lost}, issued, heldBar>>
Quiet == (\A u \in Thread : ~Unlocks(u)) /\ (Silent \/ Abstract(NoAnswer)!Next)

\* A step that leaves the mutex, gets it or poisons it does not unlock it.
LEMMA NoUnlock ==
  ASSUME mutex' = mutex \/ mutex'.owner \in Thread \/ (mutex.poisoned = FALSE /\ mutex'.poisoned = TRUE)
  PROVE  \A u \in Thread : ~Unlocks(u)
BY TrackerLockAssumption DEF Unlocks

\* A step that changes neither the guards, nor the boxes kept, nor what is
\* committed is none of Tracker.
LEMMA SilentStep ==
  ASSUME NEW t \in Thread, NEW r, Becomes(t, r), UNCHANGED <<committed, issued, lost>>,
         (Lends(call[t]) <=> Lends(r)) /\ (Lends(r) => Lent(call[t]) = Lent(r)),
         (Keeps(call[t]) <=> Keeps(r)) /\ (Keeps(r) => call[t].box = r.box)
  PROVE  Silent
<1>1. GuardsOf(call') = GuardsOf(call)
  BY GuardsNext
<1>2. HeldOf(call') = HeldOf(call)
  BY HeldNext
<1> QED
  BY <1>1, <1>2, Bars, BarsNext DEF Silent

\* A box that is dropped is out of the tracker for good.
LEMMA DropStep ==
  ASSUME IInv, NEW t \in Thread, Becomes(t, None), UNCHANGED <<committed, issued, lost>>,
         Keeps(call[t]), ~Lends(call[t]), call[t].box \in Box
  PROVE  /\ UNCHANGED <<liveBar, {g.key : g \in Guards \cup lost}, issued>>
         /\ call[t].box \in heldBar /\ heldBar' = heldBar \ {call[t].box}
<1>1. ~Lends(None) /\ ~Keeps(None)
  BY DEF Lends, Keeps
<1>2. GuardsOf(call') = GuardsOf(call)
  BY <1>1, GuardsNext
<1>3. HeldOf(call') = HeldOf(call) \ {call[t].box}
  BY <1>1, HeldNext, Apart
<1>4. call[t].box \in HeldOf(call)
  BY DEF HeldOf
<1> QED
  BY <1>2, <1>3, <1>4, Bars, BarsNext

\* The call of t becomes r.
LEMMA BecomesIs ==
  ASSUME IInv, NEW t \in Thread, NEW r \in Call \cup {None}, call' = [call EXCEPT ![t] = r]
  PROVE  Becomes(t, r)
BY CallNext DEF IInv, Becomes

\* What is committed is in a slot, or on its way out of one.
LEMMA CommittedValue ==
  ASSUME IInv, Hist, NEW i \in Nat, i < Len(committed.entries)
  PROVE  \/ committed.entries[i + 1].value = None
         \/ committed.entries[i + 1].value \in InSlots(state) \cup InFrames
<1>1. Len(state.entries) \in Nat /\ Len(committed.entries) \in Nat
  BY Entries DEF IInv, Core, Rest, State
<1>2. ASSUME i \in Slots, committed.entries[i + 1] = Slot(i)
      PROVE  \/ committed.entries[i + 1].value = None
             \/ committed.entries[i + 1].value \in InSlots(state)
  BY <1>2, Owners DEF IInv, ValueIn, Slot
<1>3. CASE committed = state
  <2>1. i \in Slots
    BY <1>1, <1>3 DEF Slots
  <2> QED BY <1>2, <1>3, <2>1 DEF Slot
<1>4. CASE committed # state
  <2>1. PICK h \in Thread : Held(call[h]) /\ CallHist(call[h]) /\ CallOK(call[h])
    BY <1>4 DEF Hist, Poison, IInv, Mutex, Core
  <2>2. call[h] # None /\ call[h].at \in {"slot", "taken", "advanced"}
    BY <1>4, <2>1 DEF Held, Holding, CallHist, CommitOK
  <2>3. CASE call[h].at = "slot"
    <3>1. i \in Slots
      BY <1>1, <2>1, <2>2, <2>3 DEF CallHist, CommitOK, Slots
    <3> QED BY <1>2, <2>1, <2>2, <2>3, <3>1 DEF CallHist, CommitOK
  <2>4. CASE call[h].at \in {"taken", "advanced"}
    <3>1. i \in Slots
      BY <1>1, <2>1, <2>2, <2>4 DEF CallHist, CommitOK, Slots
    <3>2. i # Index(call[h].key) => committed.entries[i + 1] = Slot(i)
      BY <2>1, <2>2, <2>4, <3>1 DEF CallHist, CommitOK
    <3>3. i = Index(call[h].key) => committed.entries[i + 1].value = call[h].box
      BY <2>1, <2>2, <2>4 DEF CallHist, CommitOK
    <3>4. call[h].box \in InFrames
      BY <2>2, <2>4 DEF InFrames, HasBox, InCall
    <3> QED BY <1>2, <3>1, <3>2, <3>3, <3>4
  <2> QED BY <2>2, <2>3, <2>4
<1> QED
  BY <1>3, <1>4

\* So is what Tracker has under a key.
LEMMA LiveWhere ==
  ASSUME IInv, Hist, NEW key \in Usize
  PROVE  liveBar[key] = None \/ liveBar[key] \in InSlots(state) \cup InFrames \cup InLost
<1>1. PICK out : out = GuardsOf(call) \cup lost
  OBVIOUS
<1>2. liveBar = BarOf(out, committed)
  BY <1>1, Bars
<1>3. CASE \E g \in out : g.key = key
  <2>1. PICK g \in out : liveBar[key] = g.val
    BY <1>2, <1>3, BarValue
  <2>2. CASE g \in lost
    BY <2>1, <2>2 DEF InLost
  <2>3. CASE g \in GuardsOf(call)
    <3>1. PICK u \in Thread : Lends(call[u]) /\ g = Lent(call[u])
      BY <2>3 DEF GuardsOf
    <3>2. g.val = call[u].box /\ HasGuard(u)
      BY <3>1 DEF Lent, Lends, Guarding, HasGuard, InCall
    <3> QED BY <2>1, <3>2 DEF InFrames
  <2> QED BY <1>1, <2>1, <2>2, <2>3
<1>4. CASE \A g \in out : g.key # key
  <2>1. liveBar[key] = Seen(committed, key)
    BY <1>2, <1>4, BarValue
  <2>2. Index(key) \in Nat
    BY HalvesOfWord, Limits
  <2>3. liveBar[key] = None
        \/ (Index(key) < Len(committed.entries) /\ liveBar[key] = committed.entries[Index(key) + 1].value)
    BY <2>1 DEF Seen
  <2> QED BY <2>2, <2>3, CommittedValue
<1> QED
  BY <1>3, <1>4

\* new_counter has made a box; the other entry points have done nothing yet.
LEMMA EnterMap ==
  ASSUME IInv, Hist, NEW t \in Thread,
         NewCounter(t) \/ \E key \in Passed : FreeCounter(t, key) \/ IncreaseCounter(t, key)
  PROVE  Quiet
<1>1. PICK op \in {"register", "reclaim", "borrow_mut"}, key \in Usize \cup {None}, box \in Box \cup {None} :
        /\ Enter(t, op, key, box)
        /\ op = "register" => box \in Box \ (InSlots(state) \cup InFrames \cup InLost)
  BY DEF NewCounter, FreeCounter, IncreaseCounter, Passed
<1> DEFINE r == [op |-> op, at |-> "lock", key |-> key, box |-> box, unwinding |-> FALSE]
<1>2. /\ call[t] = None /\ call' = [call EXCEPT ![t] = r]
      /\ UNCHANGED <<state, mutex, aborted, committed, issued, lost>>
  BY <1>1 DEF Enter, InCall
<1>3. r \in Call /\ r # None /\ r.op = op /\ r.at = "lock" /\ r.key = key /\ r.box = box
  <2>1. r \in Call
    BY DEF Call
  <2> QED BY <2>1, TrackerLockAssumption
<1> HIDE DEF r
<1>4. Becomes(t, r) /\ ~Lends(call[t]) /\ ~Keeps(call[t]) /\ ~Lends(r) /\ (Keeps(r) <=> op = "register")
  BY <1>2, <1>3, BecomesIs DEF Lends, Keeps, Guarding
<1>5. CASE op # "register"
  <2>1. Silent
    BY <1>2, <1>4, <1>5, SilentStep
  <2> QED BY <1>2, <2>1, NoUnlock DEF Quiet
<1>6. CASE op = "register"
  <2>1. GuardsOf(call') = GuardsOf(call) /\ HeldOf(call') = HeldOf(call) \cup {box}
    BY <1>3, <1>4, <1>6, GuardsNext, HeldNext
  <2>2. /\ heldBar' = heldBar \cup {box}
        /\ UNCHANGED <<liveBar, {g.key : g \in Guards \cup lost}, issued>>
    BY <1>2, <2>1, Bars, BarsNext
  <2>3. box \in Box /\ box # None /\ box \notin InSlots(state) \cup InFrames \cup InLost
    BY <1>1, <1>6, TrackerLockAssumption
  <2>4. \A k \in Usize : liveBar[k] # box
    BY <2>3, LiveWhere
  <2>5. box \notin heldBar
    <3>1. \A u \in Thread : Keeps(call[u]) => call[u].box \in InFrames
      BY DEF Keeps, InFrames, HasBox, InCall
    <3> QED BY <2>3, <3>1, Bars DEF HeldOf
  <2>6. Abstract(NoAnswer)!Next
    BY <2>2, <2>3, <2>4, <2>5, MapNewBox
  <2> QED BY <1>2, <2>6, NoUnlock DEF Quiet
<1> QED
  BY <1>5, <1>6

\* The statements that only the thread itself can tell.
LEMMA InnerMap ==
  ASSUME IInv, Hist, NEW t \in Thread,
         \/ Lock(t) \/ Refused(t) \/ LogReenters(t) \/ RegisterSlot(t) \/ ReclaimTake(t) \/ Use(t)
         \/ ReclaimGeneration(t) /\ UNCHANGED mutex
  PROVE  Quiet
<1>1. InCall(t) /\ UNCHANGED <<issued, lost>>
  BY DEF Lock, Refused, LogReenters, RegisterSlot, ReclaimTake, Use, ReclaimGeneration, At, Logging
<1>2. call[t] \in Call /\ call[t] # None /\ mutex \in [owner : Thread \cup {None}, poisoned : BOOLEAN]
  BY <1>1, CallIs DEF IInv, Mutex
<1>3. UNCHANGED committed /\ (mutex' = mutex \/ mutex'.owner \in Thread)
  <2>1. CASE Lock(t)
    BY <1>2, <2>1 DEF Lock
  <2>2. CASE ReclaimGeneration(t) /\ UNCHANGED mutex
    <3>1. Held(call[t])
      BY <1>2, <2>2 DEF ReclaimGeneration, At, Held, Holding
    <3>2. mutex'.owner # None
      BY <2>2, <3>1, Holder
    <3> QED BY <1>2, <2>2, <3>2 DEF ReclaimGeneration, Unlock
  <2> QED BY <2>1, <2>2 DEF Refused, LogReenters, RegisterSlot, ReclaimTake, Use
<1>4. ASSUME NEW r \in Call, call' = [call EXCEPT ![t] = r],
             (Lends(call[t]) <=> Lends(r)) /\ (Lends(r) => Lent(call[t]) = Lent(r)),
             (Keeps(call[t]) <=> Keeps(r)) /\ (Keeps(r) => call[t].box = r.box)
      PROVE  Quiet
  <2>1. Silent
    BY <1>1, <1>3, <1>4, BecomesIs, SilentStep
  <2> QED BY <1>3, <2>1, NoUnlock DEF Quiet
<1>5. ASSUME NEW a \in Holding, Goto(t, a), call[t].at \in {"lock"} \cup Holding
      PROVE  Quiet
  <2>1. PICK r \in Call : /\ call' = [call EXCEPT ![t] = r] /\ r # None /\ r.at = a
                          /\ r.op = call[t].op /\ r.key = call[t].key /\ r.box = call[t].box
    BY <1>1, <1>5, GotoIs DEF IInv, Holding
  <2>2. (Lends(call[t]) <=> Lends(r)) /\ Lent(call[t]) = Lent(r) /\ (Keeps(call[t]) <=> Keeps(r))
    BY <1>2, <1>5, <2>1 DEF Lends, Lent, Keeps, Guarding, Holding
  <2> QED BY <1>4, <2>1, <2>2
<1>6. CASE Lock(t) \/ Refused(t) \/ LogReenters(t) \/ (ReclaimGeneration(t) /\ UNCHANGED mutex)
  <2>1. CASE ReclaimGeneration(t) /\ UNCHANGED mutex
    <3>1. Held(call[t]) /\ call[t].at = "taken"
      BY <1>2, <2>1 DEF ReclaimGeneration, At, Held, Holding
    <3>2. mutex'.owner # None
      BY <2>1, <3>1, Holder
    <3>3. Goto(t, "advanced")
      BY <1>2, <2>1, <3>2 DEF ReclaimGeneration, Unlock
    <3> QED BY <1>5, <3>1, <3>3 DEF Holding
  <2> QED BY <1>5, <1>6, <2>1 DEF Lock, Refused, LogReenters, At, Logging, Holding
<1>7. CASE RegisterSlot(t)
  <2>1. call[t].op = "register" /\ call[t].at = "locked"
    BY <1>7 DEF RegisterSlot, At
  <2>2. CASE Goto(t, "log")
    BY <1>5, <2>1, <2>2 DEF Holding
  <2>3. ASSUME NEW x \in 0 .. MAX_INDEX, call' = [call EXCEPT ![t].at = "slot", ![t].key = x]
        PROVE  Quiet
    <3> DEFINE r == WithSlot(call[t], x)
    <3>1. call' = [call EXCEPT ![t] = r]
      BY <2>3 DEF WithSlot
    <3>2. x \in Usize
      BY HalfAssumption, Limits DEF Usize
    <3>3. r \in Call /\ r # None /\ r.op = "register" /\ r.box = call[t].box
      BY <1>2, <2>1, <3>2, WithSlotIs
    <3> HIDE DEF r
    <3> QED BY <1>2, <1>4, <2>1, <3>1, <3>3 DEF Lends, Keeps, Guarding
  <2>4. CASE /\ state.free_indices # <<>>
             /\ call' = [call EXCEPT ![t].at = "slot", ![t].key = Head(state.free_indices)]
    <3>1. Head(state.free_indices) \in 0 .. MAX_INDEX
      BY <2>4, Entries, HeadTailProperties DEF IInv, Core
    <3> QED BY <2>3, <2>4, <3>1
  <2>5. CASE /\ Len(state.entries) <= MAX_INDEX
             /\ call' = [call EXCEPT ![t].at = "slot", ![t].key = Len(state.entries)]
    <3>1. Len(state.entries) \in 0 .. MAX_INDEX
      BY <2>5, Entries, Limits DEF IInv, Core
    <3> QED BY <2>3, <2>5, <3>1
  <2> QED BY <1>7, <2>2, <2>4, <2>5 DEF RegisterSlot
<1>8. CASE ReclaimTake(t)
  <2>1. PICK v : v = Value(call[t].key)
    OBVIOUS
  <2> DEFINE r == WithBox(call[t], v)
  <2>2. call' = [call EXCEPT ![t] = r] /\ call[t].op = "reclaim" /\ call[t].at = "locked"
    BY <1>8, <2>1 DEF ReclaimTake, At, WithBox
  <2>3. v \in Box \cup {None}
    BY <1>8, <2>1, Entries DEF ReclaimTake, Take, Resolves, Current, Value, IInv, Core, ValueIn, Slot
  <2>4. r \in Call /\ r.op = "reclaim" /\ r.at = "taken"
    BY <1>2, <2>2, <2>3, WithBoxIs
  <2> HIDE DEF r
  <2> QED BY <1>4, <2>2, <2>4 DEF Lends, Keeps, Guarding
<1>9. CASE Use(t)
  <2>1. PICK panics \in BOOLEAN :
          call' = [call EXCEPT ![t].op = "return_mut", ![t].at = "lock", ![t].unwinding = panics]
    BY <1>9 DEF Use
  <2> DEFINE r == Returning(call[t], panics)
  <2>2. call' = [call EXCEPT ![t] = r] /\ call[t].op = "user" /\ call[t].at = "use"
    BY <1>9, <2>1 DEF Use, At, Returning
  <2>3. r \in Call /\ r # None /\ r.op = "return_mut" /\ r.at = "lock"
        /\ r.key = call[t].key /\ r.box = call[t].box
    BY <1>2, ReturningIs
  <2> HIDE DEF r
  <2> QED BY <1>2, <1>4, <2>2, <2>3 DEF Lends, Lent, Keeps, Guarding
<1> QED
  BY <1>6, <1>7, <1>8, <1>9

\* The box of a counter is dropped; a call fails because of a panic under the lock.
LEMMA DropMap ==
  ASSUME IInv, Hist, NEW t \in Thread, DropCounter(t) \/ LogPanics(t)
  PROVE  Quiet
<1>1. /\ InCall(t) /\ call' = [call EXCEPT ![t] = None] /\ UNCHANGED <<issued, lost>>
      /\ \/ DropCounter(t) /\ call[t].at = "drop" /\ call[t].op = "reclaim" /\ UNCHANGED <<mutex, committed>>
         \/ /\ LogPanics(t) /\ call[t].at = "log" /\ committed' = state
            /\ mutex' = [owner |-> None, poisoned |-> TRUE]
  BY DEF DropCounter, LogPanics, Logging, At, Unwound, Return
<1>2. call[t] # None /\ CallOK(call[t]) /\ Becomes(t, None) /\ ~Lends(None) /\ ~Keeps(None)
  BY <1>1, CallIs, BecomesIs DEF IInv, Lends, Keeps
<1>3. UNCHANGED committed /\ \A u \in Thread : ~Unlocks(u)
  <2>1. CASE DropCounter(t)
    BY <1>1, <2>1, NoUnlock DEF DropCounter
  <2>2. CASE LogPanics(t) /\ call[t].at = "log"
    <3>1. Held(call[t])
      BY <1>2, <2>2 DEF Held, Holding
    <3>2. mutex.poisoned = FALSE /\ committed = state
      BY <1>2, <2>2, <3>1, Holder DEF Hist, CallHist, CommitOK
    <3> QED BY <2>2, <3>2, NoUnlock DEF LogPanics
  <2> QED BY <1>1, <2>1, <2>2
<1>4. ~Lends(call[t])
  BY <1>1, <1>2, CallIs DEF IInv, CallOK, Places, Lends, Guarding
<1>5. CASE Keeps(call[t])
  <2>1. call[t].box \in Box
    BY <1>2, <1>5, Apart DEF CallOK
  <2>2. /\ UNCHANGED <<liveBar, {g.key : g \in Guards \cup lost}, issued>>
        /\ call[t].box \in heldBar /\ heldBar' = heldBar \ {call[t].box}
    BY <1>1, <1>2, <1>3, <1>4, <1>5, <2>1, DropStep
  <2>3. Abstract(NoAnswer)!Next
    BY <2>1, <2>2, MapDropBox
  <2> QED BY <1>3, <2>3 DEF Quiet
<1>6. CASE ~Keeps(call[t])
  <2>1. Silent
    BY <1>1, <1>2, <1>3, <1>4, <1>6, SilentStep
  <2> QED BY <1>3, <2>1 DEF Quiet
<1> QED
  BY <1>5, <1>6

\* A poisoned mutex: register drops its box, return_mut loses its object.
LEMMA LockPoisonedMap ==
  ASSUME IInv, Hist, NEW t \in Thread, LockPoisoned(t)
  PROVE  Quiet
<1>1. InCall(t) /\ call[t].at = "lock" /\ UNCHANGED <<mutex, committed, issued>>
  BY DEF LockPoisoned
<1>2. \A u \in Thread : ~Unlocks(u)
  BY <1>1, NoUnlock
<1>3. CASE UNCHANGED <<call, lost>>
  BY <1>1, <1>2, <1>3, Bars, BarsNext DEF Quiet, Silent
<1>4. CASE Unwound(t) /\ lost' = lost \cup (IF HasGuard(t) THEN {GuardOf(t)} ELSE {})
  <2>1. call' = [call EXCEPT ![t] = None] /\ call[t] # None /\ CallOK(call[t])
    BY <1>1, <1>4, CallIs DEF Unwound, Return, IInv
  <2>2. Becomes(t, None) /\ ~Lends(None) /\ ~Keeps(None)
    BY <2>1, BecomesIs DEF Lends, Keeps
  <2>3. Lends(call[t]) <=> HasGuard(t)
    BY DEF Lends, HasGuard, Guarding, InCall
  <2>4. CASE HasGuard(t)
    <3>1. ~Keeps(call[t])
      BY <1>1, <2>4 DEF Keeps, HasGuard
    <3>2. HeldOf(call') = HeldOf(call)
      BY <2>2, <3>1, HeldNext
    <3>3. GuardsOf(call') = GuardsOf(call) \ {Lent(call[t])}
      BY <2>2, <2>3, <2>4, GuardsNext, Apart
    <3>4. Lent(call[t]) \in GuardsOf(call) /\ lost' = lost \cup {Lent(call[t])}
      BY <1>4, <2>3, <2>4 DEF GuardsOf, GuardOf, Lent
    <3>5. GuardsOf(call') \cup lost' = GuardsOf(call) \cup lost
      BY <3>3, <3>4
    <3>6. Silent
      BY <1>1, <3>2, <3>5, Bars, BarsNext DEF Silent
    <3> QED BY <1>2, <3>6 DEF Quiet
  <2>5. CASE ~HasGuard(t) /\ Keeps(call[t])
    <3>1. call[t].box \in Box
      BY <2>1, <2>5, Apart DEF CallOK
    <3>2. /\ UNCHANGED <<liveBar, {g.key : g \in Guards \cup lost}, issued>>
          /\ call[t].box \in heldBar /\ heldBar' = heldBar \ {call[t].box}
      BY <1>1, <1>4, <2>2, <2>3, <2>5, <3>1, DropStep
    <3>3. Abstract(NoAnswer)!Next
      BY <3>1, <3>2, MapDropBox
    <3> QED BY <1>2, <3>3 DEF Quiet
  <2>6. CASE ~HasGuard(t) /\ ~Keeps(call[t])
    <3>1. Silent
      BY <1>1, <1>4, <2>2, <2>3, <2>6, SilentStep
    <3> QED BY <1>2, <3>1 DEF Quiet
  <2> QED BY <2>4, <2>5, <2>6
<1> QED
  BY <1>3, <1>4 DEF LockPoisoned

\* A method takes effect, and answers.
Effect(t) == Unlocks(t) /\ \E answer \in {Answered(t)} : Abstract(answer)!Next

\* The holder of the mutex unlocks it.
LEMMA UnlockIs ==
  ASSUME IInv, Hist, NEW t \in Thread, Held(call[t]), mutex' = [mutex EXCEPT !.owner = None]
  PROVE  Unlocks(t)
<1>1. mutex.owner = t
  BY Holder
<1> QED
  BY <1>1 DEF Unlocks, IInv, Mutex

\* The keys of guards, while nothing is lost, are each of one guard, whose slot is vacant.
LEMMA GuardKeys ==
  ASSUME IInv
  PROVE  /\ \A g, h \in GuardsOf(call) : g.key = h.key => g = h
         /\ \A g \in GuardsOf(call) : Index(g.key) \in Slots /\ Slot(Index(g.key)).value = None
         /\ \A t \in Thread : Pointing(call[t]) /\ ~Lends(call[t]) =>
              \A g \in GuardsOf(call) : Index(g.key) # Target(call[t])
<1>1. \A g \in GuardsOf(call) : \E u \in Thread :
        /\ Lends(call[u]) /\ g = Lent(call[u]) /\ g.key = call[u].key
        /\ Pointing(call[u]) /\ Target(call[u]) = Index(g.key)
  BY DEF GuardsOf, Lent, Lends, Pointing, Guarding, Target
<1>2. \A t, u \in Thread : Pointing(call[t]) /\ Pointing(call[u]) /\ Target(call[t]) = Target(call[u]) => t = u
  BY DEF IInv, Core, PointOK
<1>3. \A g \in GuardsOf(call) : Index(g.key) \in Slots /\ Slot(Index(g.key)).value = None
  BY <1>1 DEF IInv, Core, PointOK, ValueIn, Slot
<1>4. \A g, h \in GuardsOf(call) : g.key = h.key => g = h
  <2> TAKE g, h \in GuardsOf(call)
  <2> HAVE g.key = h.key
  <2>1. PICK u \in Thread : g = Lent(call[u]) /\ Pointing(call[u]) /\ Target(call[u]) = Index(g.key)
    BY <1>1
  <2>2. PICK w \in Thread : h = Lent(call[w]) /\ Pointing(call[w]) /\ Target(call[w]) = Index(h.key)
    BY <1>1
  <2> QED BY <1>2, <2>1, <2>2
<1>5. \A t \in Thread : Pointing(call[t]) /\ ~Lends(call[t]) =>
        \A g \in GuardsOf(call) : Index(g.key) # Target(call[t])
  BY <1>1, <1>2
<1> QED
  BY <1>3, <1>4, <1>5

\* What state shows under a key.
LEMMA SeenIs ==
  ASSUME state \in State, NEW key \in Usize
  PROVE  Seen(state, key) = IF Current(key) THEN Slot(Index(key)).value ELSE None
<1>1. Index(key) \in Nat /\ Len(state.entries) \in Nat
  BY HalvesOfWord, Limits, Entries
<1>2. Index(key) \in Slots <=> Index(key) < Len(state.entries)
  BY <1>1 DEF Slots
<1> QED
  BY <1>2 DEF Seen, Current, Slot

\* An Err changes nothing, but register has dropped its box.
LEMMA LogReturnsMap ==
  ASSUME IInv, Hist, NEW t \in Thread, LogReturns(t)
  PROVE  Effect(t)
<1>1. /\ InCall(t) /\ call[t].at = "log" /\ call' = [call EXCEPT ![t] = None]
      /\ mutex' = [mutex EXCEPT !.owner = None] /\ committed' = state /\ UNCHANGED <<issued, lost>>
  BY DEF LogReturns, Logging, Unlock, Return
<1>2. /\ call[t] # None /\ CallOK(call[t]) /\ Held(call[t]) /\ CallHist(call[t])
      /\ call[t].op \in {"register", "reclaim", "borrow_mut", "user", "return_mut"}
  BY <1>1, CallIs DEF IInv, Held, Holding, Hist
<1>3. call[t].op \in {"register", "reclaim", "borrow_mut"} /\ ~Lends(call[t])
  BY <1>1, <1>2 DEF CallOK, Places, Lends, Guarding
<1>4. UNCHANGED committed /\ committed = state /\ Becomes(t, None) /\ ~Lends(None) /\ ~Keeps(None)
  BY <1>1, <1>2, BecomesIs DEF CallHist, CommitOK, Lends, Keeps
<1>5. Unlocks(t)
  BY <1>1, <1>2, UnlockIs
<1>6. PICK ans : ans = Answered(t)
  OBVIOUS
<1>7. CASE call[t].op = "register"
  <2>1. Keeps(call[t]) /\ call[t].box \in Box /\ ans = Answer("register", None, FALSE, None)
    BY <1>1, <1>2, <1>6, <1>7 DEF Keeps, CallOK, Owning, Answered
  <2>2. /\ UNCHANGED <<liveBar, {g.key : g \in Guards \cup lost}, issued>>
        /\ call[t].box \in heldBar /\ heldBar' = heldBar \ {call[t].box}
    BY <1>1, <1>3, <1>4, <2>1, DropStep
  <2>3. Abstract(ans)!Next
    BY <2>1, <2>2, MapRegisterFails
  <2> QED BY <1>5, <1>6, <2>3 DEF Effect
<1>8. CASE call[t].op # "register"
  <2>1. PICK k \in Usize : k = call[t].key
    BY <1>2, <1>8 DEF CallOK
  <2>2. PICK op \in {"reclaim", "borrow_mut"} : op = call[t].op
    BY <1>3, <1>8
  <2>3. ans = Answer(op, k, FALSE, None)
    BY <1>1, <1>6, <1>8, <2>1, <2>2 DEF Answered
  <2>4. Silent
    <3>1. ~Keeps(call[t])
      BY <1>1, <1>8 DEF Keeps
    <3> QED BY <1>1, <1>3, <1>4, <3>1, SilentStep
  <2>5. liveBar[k] = None \/ k \in {g.key : g \in Guards \cup lost}
    <3>1. ~Resolves(k)
      BY <1>1, <1>2, <1>8, <2>1 DEF CallHist, RefusalOK
    <3>2. Seen(committed, k) = None
      BY <1>4, <3>1, SeenIs DEF IInv, Core, Resolves
    <3>3. CASE \A g \in GuardsOf(call) \cup lost : g.key # k
      BY <3>2, <3>3, Bars, BarValue
    <3>4. CASE \E g \in GuardsOf(call) \cup lost : g.key = k
      BY <3>4, Bars DEF KeysOf
    <3> QED BY <3>3, <3>4
  <2>6. Abstract(ans)!Next
    BY <2>3, <2>4, <2>5, MapRefuse DEF Silent
  <2> QED BY <1>5, <1>6, <2>6 DEF Effect
<1> QED
  BY <1>7, <1>8

\* The same after a step.
LEMMA SeenNext ==
  ASSUME state' \in State, NEW key \in Usize
  PROVE  Seen(state', key) = IF Index(key) \in Slots' /\ Slot(Index(key))'.generation = Generation(key)
                             THEN Slot(Index(key))'.value ELSE None
<1>1. Index(key) \in Nat /\ Len(state'.entries) \in Nat
  <2>1. state'.entries \in Seq(Entry)
    BY DEF State
  <2> QED BY <2>1, HalvesOfWord, Limits
<1>2. Index(key) \in Slots' <=> Index(key) < Len(state'.entries)
  BY <1>1 DEF Slots
<1> QED
  BY <1>2 DEF Seen, Slot

\* What it shows once slot x is assigned to.
LEMMA SeenSet ==
  ASSUME state \in State, state' \in State, NEW x \in Slots, NEW e, SlotSet(x, e), NEW key \in Usize
  PROVE  Seen(state', key) = IF Index(key) = x
                             THEN IF e.generation = Generation(key) THEN e.value ELSE None
                             ELSE Seen(state, key)
<1>1. Slots' = Slots /\ \A i \in Slots : Slot(i)' = IF i = x THEN e ELSE Slot(i)
  BY DEF SlotSet
<1>2. Seen(state', key) = IF Index(key) \in Slots /\ Slot(Index(key))'.generation = Generation(key)
                          THEN Slot(Index(key))'.value ELSE None
  BY <1>1, SeenNext
<1>3. Seen(state, key) = IF Current(key) THEN Slot(Index(key)).value ELSE None
  BY SeenIs
<1> QED
  BY <1>1, <1>2, <1>3 DEF Current

\* What is committed shows when t, with the mutex, has changed slot x.
LEMMA SeenCommitted ==
  ASSUME IInv, NEW r, CommitOK(r), r # None, NEW key \in Usize
  PROVE  /\ r.at = "slot" /\ r.key \in Slots /\ Slot(r.key).value = None =>
              Seen(committed, key) = IF Index(key) = r.key THEN None ELSE Seen(state, key)
         /\ r.at \in {"taken", "advanced"} /\ Index(r.key) \in Slots =>
              Seen(committed, key) = IF Index(key) = Index(r.key)
                                     THEN IF Generation(key) = Generation(r.key) THEN r.box ELSE None
                                     ELSE Seen(state, key)
<1>1. Index(key) \in Nat /\ Len(state.entries) \in Nat /\ Len(committed.entries) \in Nat
  BY HalvesOfWord, Limits, Entries DEF IInv, Core, Rest, State
<1>2. Index(key) \in Slots <=> Index(key) < Len(state.entries)
  BY <1>1 DEF Slots
<1>3. Seen(state, key) = IF Current(key) THEN Slot(Index(key)).value ELSE None
  BY SeenIs DEF IInv, Core
<1>4. ASSUME r.at = "slot", r.key \in Slots, Slot(r.key).value = None
      PROVE  Seen(committed, key) = IF Index(key) = r.key THEN None ELSE Seen(state, key)
  <2>1. /\ Len(committed.entries) <= Len(state.entries)
        /\ \A i \in Slots : IF i < Len(committed.entries) THEN committed.entries[i + 1] = Slot(i)
                                                          ELSE i = r.key
    BY <1>4 DEF CommitOK
  <2>2. CASE Index(key) < Len(committed.entries)
    <3>1. Index(key) \in Slots /\ committed.entries[Index(key) + 1] = Slot(Index(key))
      BY <1>1, <1>2, <2>1, <2>2
    <3> QED BY <1>3, <1>4, <2>2, <3>1 DEF Seen, Current
  <2>3. CASE ~(Index(key) < Len(committed.entries))
    <3>1. Seen(committed, key) = None
      BY <2>3 DEF Seen
    <3>2. Index(key) # r.key => ~Current(key)
      BY <2>1, <2>3 DEF Current
    <3> QED BY <1>3, <3>1, <3>2
  <2> QED BY <2>2, <2>3
<1>5. ASSUME r.at \in {"taken", "advanced"}, Index(r.key) \in Slots
      PROVE  Seen(committed, key) = IF Index(key) = Index(r.key)
                                    THEN IF Generation(key) = Generation(r.key) THEN r.box ELSE None
                                    ELSE Seen(state, key)
  <2>1. /\ Len(committed.entries) = Len(state.entries)
        /\ \A i \in Slots : i # Index(r.key) => committed.entries[i + 1] = Slot(i)
        /\ committed.entries[Index(r.key) + 1] = [value |-> r.box, generation |-> Generation(r.key)]
    BY <1>5 DEF CommitOK
  <2>2. CASE Index(key) # Index(r.key)
    BY <1>2, <1>3, <2>1, <2>2 DEF Seen, Current
  <2>3. CASE Index(key) = Index(r.key)
    BY <1>2, <1>5, <2>1, <2>3 DEF Seen
  <2> QED BY <2>2, <2>3
<1> QED
  BY <1>4, <1>5

\* Under two states, key by key.
LEMMA BarAt ==
  ASSUME NEW out, NEW s, NEW st, NEW key \in Usize,
         (\A g \in out : g.key # key) => Seen(s, key) = Seen(st, key)
  PROVE  BarOf(out, s)[key] = BarOf(out, st)[key]
BY DEF BarOf

\* A map with another object under one key.
Put(map, k, b) == [map EXCEPT ![k] = b]

\* Under all keys but one.
LEMMA BarExcept ==
  ASSUME NEW out, NEW s, NEW st, NEW k \in Usize, \A g \in out : g.key # k,
         \A key \in Usize \ {k} : Seen(s, key) = Seen(st, key)
  PROVE  BarOf(out, s) = Put(BarOf(out, st), k, Seen(s, k))
<1>1. BarOf(out, s)[k] = Seen(s, k)
  BY BarValue
<1>2. \A key \in Usize \ {k} : BarOf(out, s)[key] = BarOf(out, st)[key]
  BY BarAt
<1>3. PICK f : f = BarOf(out, s)
  OBVIOUS
<1>4. PICK h : h = BarOf(out, st)
  OBVIOUS
<1>5. f = [key \in Usize |-> f[key]] /\ h = [key \in Usize |-> h[key]]
  BY <1>3, <1>4 DEF BarOf
<1>6. f = [h EXCEPT ![k] = Seen(s, k)]
  BY <1>1, <1>2, <1>3, <1>4, <1>5
<1> QED
  BY <1>3, <1>4, <1>6 DEF Put

\* A guard has what the slot of its key had.
LEMMA LendBar ==
  ASSUME NEW out, NEW s, NEW st, NEW k \in Usize, NEW b, NEW l, l = [key |-> k, val |-> b],
         \A g \in out : g.key # k, \A g, h \in out : g.key = h.key => g = h,
         \A key \in Usize : key # k => Seen(st, key) = Seen(s, key), BarOf(out, s)[k] = b
  PROVE  BarOf(out \cup {l}, st) = BarOf(out, s)
<1>1. l \in out \cup {l} /\ l.key = k /\ l.val = b /\ \A h \in out \cup {l} : h.key = k => h = l
  OBVIOUS
<1>2. BarOf(out \cup {l}, st)[k] = b
  BY <1>1, BarValue
<1>3. ASSUME NEW key \in Usize, key # k
      PROVE  BarOf(out \cup {l}, st)[key] = BarOf(out, s)[key]
  <2>1. CASE \A g \in out : g.key # key
    <3>1. \A g \in out \cup {l} : g.key # key
      BY <1>1, <1>3, <2>1
    <3> QED BY <1>3, <2>1, <3>1, BarValue
  <2>2. CASE \E g \in out : g.key = key
    <3>1. PICK g \in out : g.key = key
      BY <2>2
    <3>2. \A h \in out : h.key = key => h = g
      BY <3>1
    <3>3. \A h \in out \cup {l} : h.key = key => h = g
      BY <1>1, <1>3, <3>2
    <3>4. g \in out \cup {l}
      BY <3>1
    <3>5. BarOf(out, s)[key] = g.val
      BY <3>1, <3>2, BarValue
    <3>6. BarOf(out \cup {l}, st)[key] = g.val
      BY <3>1, <3>3, <3>4, BarValue
    <3> QED BY <3>5, <3>6
  <2> QED BY <2>1, <2>2
<1>4. PICK f : f = BarOf(out \cup {l}, st)
  OBVIOUS
<1>5. PICK h : h = BarOf(out, s)
  OBVIOUS
<1>6. f = [key \in Usize |-> f[key]] /\ h = [key \in Usize |-> h[key]]
  BY <1>4, <1>5 DEF BarOf
<1>7. f = h
  BY <1>2, <1>3, <1>4, <1>5, <1>6
<1> QED
  BY <1>4, <1>5, <1>7

\* register takes effect with the object in its slot.
LEMMA RegisterStoreMap ==
  ASSUME IInv, IInv', Hist, NEW t \in Thread, RegisterStore(t)
  PROVE  Effect(t)
<1>1. PICK x : x = call[t].key
  OBVIOUS
<1>2. PICK b : b = call[t].box
  OBVIOUS
<1>3. PICK k : k = New(x, Slot(x).generation)
  OBVIOUS
<1>4. /\ InCall(t) /\ call[t].op = "register" /\ call[t].at = "slot"
      /\ state' = [state EXCEPT !.entries[x + 1].value = b]
      /\ issued' = issued \cup {k}
      /\ mutex' = [mutex EXCEPT !.owner = None] /\ committed' = state'
      /\ call' = [call EXCEPT ![t] = None] /\ UNCHANGED lost
  BY <1>1, <1>2, <1>3 DEF RegisterStore, At, Unlock, Return, NewHandle
<1>5. /\ call[t] # None /\ Held(call[t]) /\ Pointing(call[t]) /\ Target(call[t]) = x
      /\ b \in Box /\ CallHist(call[t]) /\ Becomes(t, None) /\ lost = {}
      /\ Keeps(call[t]) /\ ~Lends(call[t]) /\ ~Keeps(None) /\ ~Lends(None)
  <2>1. call[t] # None /\ Held(call[t]) /\ Pointing(call[t]) /\ Target(call[t]) = x /\ b \in Box
    BY <1>1, <1>2, <1>4, CallIs DEF IInv, Held, Holding, Owning, Pointing, Target, CallOK
  <2>2. CallHist(call[t]) /\ lost = {}
    BY <2>1, Holder DEF Hist
  <2>3. Becomes(t, None)
    BY <1>4, BecomesIs
  <2> QED BY <1>4, <2>1, <2>2, <2>3 DEF Keeps, Lends, Guarding
<1>6. /\ x \in Slots /\ Slot(x).value = None /\ state \in State /\ state' \in State
      /\ \A g \in GuardsOf(call) : Index(g.key) # x
  BY <1>5, GuardKeys DEF IInv, Core, PointOK, ValueIn, Slot
<1>7. k \in Usize /\ Index(k) = x /\ Generation(k) = Slot(x).generation
  BY <1>3, <1>6, HandleOf DEF IInv
<1>8. SlotSet(x, [value |-> b, generation |-> Slot(x).generation])
  BY <1>4, <1>5, <1>6, SetSlotValue
<1>9. ASSUME NEW key \in Usize
      PROVE  /\ Seen(committed, key) = IF Index(key) = x THEN None ELSE Seen(state, key)
             /\ Seen(state', key) = IF key = k THEN b ELSE Seen(committed, key)
  <2>1. Seen(committed, key) = IF Index(key) = x THEN None ELSE Seen(state, key)
    BY <1>1, <1>4, <1>5, <1>6, SeenCommitted DEF CallHist
  <2>2. Seen(state', key) = IF Index(key) = x
                            THEN IF Slot(x).generation = Generation(key) THEN b ELSE None
                            ELSE Seen(state, key)
    <3> DEFINE e == [value |-> b, generation |-> Slot(x).generation]
    <3>1. e.value = b /\ e.generation = Slot(x).generation
      OBVIOUS
    <3>2. SlotSet(x, e)
      BY <1>8
    <3> HIDE DEF e
    <3> QED BY <1>6, <3>1, <3>2, SeenSet
  <2>3. Index(key) = x /\ Slot(x).generation = Generation(key) <=> key = k
    BY <1>7, HalvesDetermine
  <2> QED BY <2>1, <2>2, <2>3
<1>10. GuardsOf(call') \cup lost' = GuardsOf(call) \cup lost
  BY <1>4, <1>5, GuardsNext
<1>11. HeldOf(call') = HeldOf(call) \ {b} /\ b \in HeldOf(call)
  <2>1. HeldOf(call') = HeldOf(call) \ {b}
    BY <1>2, <1>5, HeldNext, Apart
  <2> QED BY <1>2, <1>5, <2>1 DEF HeldOf
<1>12. /\ BarOf(GuardsOf(call) \cup lost, committed)[k] = None
       /\ BarOf(GuardsOf(call) \cup lost, state') =
            [BarOf(GuardsOf(call) \cup lost, committed) EXCEPT ![k] = b]
  <2>1. PICK out : out = GuardsOf(call) \cup lost
    OBVIOUS
  <2>2. \A g \in out : g.key # k
    BY <1>5, <1>6, <1>7, <2>1
  <2>3. BarOf(out, committed)[k] = None
    BY <1>7, <1>9, <2>2, BarValue
  <2>4. BarOf(out, state') = Put(BarOf(out, committed), k, Seen(state', k))
    BY <1>7, <1>9, <2>2, BarExcept
  <2> QED BY <1>7, <1>9, <2>1, <2>3, <2>4 DEF Put
<1>13. PICK ans : ans = Answered(t)
  OBVIOUS
<1>14. ans = Answer("register", k, TRUE, b)
  BY <1>1, <1>2, <1>3, <1>4, <1>13 DEF Answered, NewHandle
<1>15. k \notin issued
  BY <1>3, <1>4, <1>5 DEF CallHist, FreshOK, Fresh
<1>16. Abstract(ans)!Next
  <2>1. liveBar[k] = None /\ liveBar' = [liveBar EXCEPT ![k] = b]
    BY <1>4, <1>10, <1>12, Bars, BarsNext
  <2>2. b \in heldBar /\ heldBar' = heldBar \ {b} /\ UNCHANGED {g.key : g \in Guards \cup lost}
    BY <1>10, <1>11, Bars, BarsNext
  <2> QED BY <1>4, <1>5, <1>7, <1>14, <1>15, <2>1, <2>2, MapRegister
<1> QED
  BY <1>4, <1>5, <1>13, <1>16, UnlockIs DEF Effect

\* reclaim takes effect at its last statement, which retires the slot or frees it.
LEMMA ReclaimMap ==
  ASSUME IInv, IInv', Hist, NEW t \in Thread,
         ReclaimFree(t) \/ (ReclaimGeneration(t) /\ mutex' # mutex)
  PROVE  Effect(t)
<1>1. PICK k : k = call[t].key
  OBVIOUS
<1>2. PICK x : x = Index(k)
  OBVIOUS
<1>3. PICK b : b = call[t].box
  OBVIOUS
<1>4. /\ InCall(t) /\ call[t].op = "reclaim" /\ call[t].at \in {"taken", "advanced"}
      /\ mutex' = [mutex EXCEPT !.owner = None] /\ committed' = state' /\ Goto(t, "drop")
      /\ UNCHANGED <<issued, lost>>
      /\ state' = state \/ state' = [state EXCEPT !.free_indices = Append(@, x)]
  BY <1>1, <1>2 DEF ReclaimFree, ReclaimGeneration, At, Unlock
<1>5. state'.entries = state.entries /\ state \in State
  BY <1>4 DEF IInv, Core, State
<1>6. /\ call[t] # None /\ Held(call[t]) /\ Pointing(call[t]) /\ Target(call[t]) = x
      /\ k \in Usize /\ b \in Box /\ b # None /\ CallHist(call[t]) /\ lost = {}
      /\ ~Keeps(call[t]) /\ ~Lends(call[t])
  <2>1. /\ call[t] # None /\ Held(call[t]) /\ Pointing(call[t]) /\ Target(call[t]) = x
        /\ k \in Usize /\ b \in Box
    BY <1>1, <1>2, <1>3, <1>4, CallIs DEF IInv, Held, Holding, Owning, Pointing, Target, CallOK
  <2>2. CallHist(call[t]) /\ lost = {}
    BY <2>1, Holder DEF Hist
  <2> QED BY <1>4, <2>1, <2>2, TrackerLockAssumption DEF Keeps, Lends, Guarding
<1>7. PICK r \in Call : /\ call' = [call EXCEPT ![t] = r] /\ r # None /\ r.at = "drop"
                        /\ r.op = "reclaim" /\ r.box = b
  BY <1>3, <1>4, GotoIs DEF IInv
<1>8. Becomes(t, r) /\ Keeps(r) /\ ~Lends(r)
  BY <1>7, BecomesIs DEF Keeps, Lends, Guarding
<1>9. /\ x \in Slots /\ Slot(x).value = None
      /\ \A g \in GuardsOf(call) : Index(g.key) # x
  BY <1>6, GuardKeys DEF IInv, Core, PointOK, ValueIn, Slot
<1>10. ASSUME NEW key \in Usize
       PROVE  /\ key # k => Seen(state', key) = Seen(committed, key)
              /\ Seen(state', k) = None /\ Seen(committed, k) = b
  <2>1. \A l \in Usize : Seen(committed, l) = IF Index(l) = x
                                              THEN IF Generation(l) = Generation(k) THEN b ELSE None
                                              ELSE Seen(state, l)
    BY <1>1, <1>2, <1>3, <1>4, <1>6, <1>9, SeenCommitted DEF CallHist
  <2>2. \A l \in Usize : Seen(state', l) = Seen(state, l)
    BY <1>5 DEF Seen
  <2>3. \A l \in Usize : Index(l) = x => Seen(state, l) = None
    BY <1>5, <1>9, SeenIs
  <2>4. Index(key) = x /\ Generation(key) = Generation(k) => key = k
    BY <1>2, <1>6, HalvesDetermine
  <2> QED BY <1>2, <1>6, <2>1, <2>2, <2>3, <2>4
<1>11. GuardsOf(call') \cup lost' = GuardsOf(call) \cup lost
  BY <1>4, <1>6, <1>8, GuardsNext
<1>12. HeldOf(call') = HeldOf(call) \cup {b}
  BY <1>6, <1>7, <1>8, HeldNext
<1>13. /\ BarOf(GuardsOf(call) \cup lost, committed)[k] = b
       /\ BarOf(GuardsOf(call) \cup lost, state') =
            [BarOf(GuardsOf(call) \cup lost, committed) EXCEPT ![k] = None]
       /\ \A g \in GuardsOf(call) \cup lost : g.key # k
  <2>1. PICK out : out = GuardsOf(call) \cup lost
    OBVIOUS
  <2>2. \A g \in out : g.key # k
    BY <1>2, <1>6, <1>9, <2>1
  <2>3. BarOf(out, committed)[k] = b
    BY <1>6, <1>10, <2>2, BarValue
  <2>4. BarOf(out, state') = Put(BarOf(out, committed), k, Seen(state', k))
    <3>1. k \in Usize
      BY <1>6
    <3>2. \A key \in Usize \ {k} : Seen(state', key) = Seen(committed, key)
      BY <1>10
    <3> QED BY <2>2, <3>1, <3>2, BarExcept
  <2> QED BY <1>6, <1>10, <2>1, <2>2, <2>3, <2>4 DEF Put
<1>14. PICK ans : ans = Answered(t)
  OBVIOUS
<1>15. ans = Answer("reclaim", k, TRUE, b)
  BY <1>1, <1>3, <1>4, <1>14 DEF Answered
<1>16. Abstract(ans)!Next
  <2>1. liveBar[k] = b /\ liveBar' = [liveBar EXCEPT ![k] = None]
    BY <1>4, <1>11, <1>13, Bars, BarsNext
  <2>2. heldBar' = heldBar \cup {b} /\ UNCHANGED {g.key : g \in Guards \cup lost}
    BY <1>11, <1>12, Bars, BarsNext
  <2>3. k \notin {g.key : g \in Guards \cup lost}
    BY <1>13, Bars DEF KeysOf
  <2> QED BY <1>4, <1>6, <1>15, <2>1, <2>2, <2>3, MapReclaim
<1> QED
  BY <1>4, <1>6, <1>14, <1>16, UnlockIs DEF Effect

\* borrow_mut takes effect with the object in the guard.
LEMMA BorrowMutMap ==
  ASSUME IInv, IInv', Hist, NEW t \in Thread, BorrowMut(t)
  PROVE  Effect(t)
<1>1. PICK k : k = call[t].key
  OBVIOUS
<1>2. PICK x : x = Index(k)
  OBVIOUS
<1>3. PICK b : b = Slot(x).value
  OBVIOUS
<1>4. /\ InCall(t) /\ call[t].op = "borrow_mut" /\ call[t].at = "locked"
      /\ Current(k) /\ b # None
      /\ state' = [state EXCEPT !.entries[x + 1].value = None]
      /\ call' = [call EXCEPT ![t].op = "user", ![t].at = "use", ![t].box = b]
      /\ mutex' = [mutex EXCEPT !.owner = None] /\ committed' = state'
      /\ UNCHANGED <<aborted, issued, lost>>
  BY <1>1, <1>2, <1>3 DEF BorrowMut, At, Take, Resolves, Value, Unlock
<1>5. /\ call[t] \in Call /\ call[t] # None /\ k \in Usize /\ Held(call[t])
      /\ committed = state /\ lost = {} /\ state \in State /\ state' \in State
      /\ ~Lends(call[t]) /\ ~Keeps(call[t])
  <2>1. call[t] \in Call /\ call[t] # None /\ k \in Usize /\ Held(call[t])
    BY <1>1, <1>4, CallIs DEF IInv, CallOK, Held, Holding
  <2>2. committed = state /\ lost = {}
    BY <1>4, <2>1, Holder DEF Hist, CallHist, CommitOK
  <2> QED BY <1>4, <2>1, <2>2 DEF Lends, Keeps, Guarding, IInv, Core
<1>6. x \in Slots /\ Slot(x).generation = Generation(k) /\ b \in Box
  <2>1. x \in Slots /\ Slot(x).generation = Generation(k)
    BY <1>2, <1>4 DEF Current
  <2> QED BY <1>3, <1>4, <1>5, <2>1, Entries DEF ValueIn, Slot
<1> DEFINE r == WithGuard(call[t], b)
<1>7. /\ call' = [call EXCEPT ![t] = r]
      /\ r \in Call /\ r # None /\ r.op = "user" /\ r.at = "use" /\ r.key = k /\ r.box = b
  <2>1. call' = [call EXCEPT ![t] = r]
    BY <1>4 DEF WithGuard
  <2> QED BY <1>1, <1>5, <1>6, <2>1, WithGuardIs
<1> HIDE DEF r
<1>8. Becomes(t, r) /\ Lends(r) /\ ~Keeps(r) /\ Lent(r) = [key |-> k, val |-> b]
  BY <1>7, BecomesIs DEF Lends, Keeps, Guarding, Lent
<1>9. PICK l : l = [key |-> k, val |-> b]
  OBVIOUS
<1>10. SlotSet(x, [value |-> None, generation |-> Generation(k)])
  BY <1>4, <1>5, <1>6, SetSlotValue
<1>11. ASSUME NEW key \in Usize
       PROVE  key # k => Seen(state', key) = Seen(state, key)
  <2> DEFINE e == [value |-> None, generation |-> Generation(k)]
  <2>1. e.value = None /\ e.generation = Generation(k) /\ SlotSet(x, e)
    BY <1>10
  <2> HIDE DEF e
  <2>2. Seen(state', key) = IF Index(key) = x THEN None ELSE Seen(state, key)
    BY <1>5, <1>6, <2>1, SeenSet
  <2>3. Index(key) = x /\ Generation(key) = Generation(k) => key = k
    BY <1>2, <1>5, HalvesDetermine
  <2>4. Index(key) = x /\ key # k => Seen(state, key) = None
    BY <1>5, <1>6, <2>3, SeenIs DEF Current
  <2> QED BY <2>2, <2>4
<1>12. PICK out : out = GuardsOf(call)
  OBVIOUS
<1>13. /\ GuardsOf(call) \cup lost = out /\ GuardsOf(call') \cup lost' = out \cup {l}
       /\ HeldOf(call') = HeldOf(call)
  BY <1>4, <1>5, <1>8, <1>9, <1>12, GuardsNext, HeldNext
<1>14. \A g \in out : g.key # k
  BY <1>2, <1>3, <1>4, <1>12, GuardKeys
<1>15. BarOf(out, state)[k] = b /\ BarOf(out \cup {l}, state') = BarOf(out, state)
  <2>1. BarOf(out, state)[k] = b
    BY <1>2, <1>3, <1>4, <1>5, <1>14, BarValue, SeenIs
  <2>2. \A g, h \in out : g.key = h.key => g = h
    BY <1>12, GuardKeys
  <2>3. BarOf(out \cup {l}, state') = BarOf(out, state)
    BY <1>5, <1>9, <1>11, <1>14, <2>1, <2>2, LendBar
  <2> QED BY <2>1, <2>3
<1>16. PICK ans : ans = Answered(t)
  OBVIOUS
<1>17. ans = Answer("borrow_mut", k, TRUE, b)
  BY <1>1, <1>2, <1>3, <1>4, <1>16 DEF Answered, Value
<1>18. Abstract(ans)!Next
  <2>1. liveBar[k] = b /\ liveBar' = liveBar
    BY <1>4, <1>5, <1>13, <1>15, Bars, BarsNext
  <2>2. heldBar' = heldBar
    BY <1>13, Bars, BarsNext
  <2>3. /\ {g.key : g \in Guards \cup lost} = KeysOf(out)
        /\ {g.key : g \in Guards \cup lost}' = KeysOf(out \cup {l})
    BY <1>13, Bars, BarsNext
  <2>4. k \notin KeysOf(out) /\ KeysOf(out \cup {l}) = KeysOf(out) \cup {k}
    BY <1>9, <1>14 DEF KeysOf
  <2> QED BY <1>4, <1>5, <1>17, <2>1, <2>2, <2>3, <2>4, MapBorrowMut
<1> QED
  BY <1>4, <1>5, <1>16, <1>18, UnlockIs DEF Effect

\* return_mut takes effect with the object back in its slot.
LEMMA ReturnMutMap ==
  ASSUME IInv, IInv', Hist, NEW t \in Thread, ReturnMut(t)
  PROVE  Effect(t)
<1>1. PICK k : k = call[t].key
  OBVIOUS
<1>2. PICK x : x = Index(k)
  OBVIOUS
<1>3. PICK b : b = call[t].box
  OBVIOUS
<1>4. /\ InCall(t) /\ call[t].op = "return_mut" /\ call[t].at = "locked"
      /\ state' = [state EXCEPT !.entries[x + 1].value = b]
      /\ call' = [call EXCEPT ![t] = None]
      /\ mutex' = [mutex EXCEPT !.owner = None] /\ committed' = state'
      /\ UNCHANGED <<issued, lost>>
  BY <1>1, <1>2, <1>3 DEF ReturnMut, At, Unlock, Return, Unwound
<1>5. /\ call[t] # None /\ k \in Usize /\ b \in Box /\ Held(call[t]) /\ Lends(call[t]) /\ ~Keeps(call[t])
      /\ Pointing(call[t]) /\ Target(call[t]) = x /\ CallHist(call[t])
      /\ committed = state /\ lost = {} /\ state \in State /\ state' \in State
      /\ ~Lends(None) /\ ~Keeps(None) /\ Becomes(t, None)
  <2>1. /\ call[t] # None /\ k \in Usize /\ b \in Box /\ Held(call[t]) /\ Lends(call[t]) /\ ~Keeps(call[t])
        /\ Pointing(call[t]) /\ Target(call[t]) = x
    BY <1>1, <1>2, <1>3, <1>4, CallIs DEF IInv, CallOK, Held, Holding, Lends, Keeps, Owning, Guarding,
       Pointing, Target
  <2>2. CallHist(call[t]) /\ committed = state /\ lost = {}
    BY <1>4, <2>1, Holder DEF Hist, CallHist, CommitOK
  <2>3. Becomes(t, None)
    BY <1>4, BecomesIs
  <2> QED BY <2>1, <2>2, <2>3 DEF Lends, Keeps, IInv, Core
<1>6. x \in Slots /\ Slot(x).generation = Generation(k)
  BY <1>1, <1>4, <1>5 DEF IInv, Core, PointOK, CallHist, PinOK
<1>7. PICK l : l = [key |-> k, val |-> b]
  OBVIOUS
<1>8. SlotSet(x, [value |-> b, generation |-> Generation(k)])
  BY <1>4, <1>5, <1>6, SetSlotValue
<1>9. ASSUME NEW key \in Usize
      PROVE  Seen(state', key) = IF key = k THEN b ELSE Seen(state, key)
  <2> DEFINE e == [value |-> b, generation |-> Generation(k)]
  <2>1. e.value = b /\ e.generation = Generation(k) /\ SlotSet(x, e)
    BY <1>8
  <2> HIDE DEF e
  <2>2. Seen(state', key) = IF Index(key) = x THEN IF Generation(k) = Generation(key) THEN b ELSE None
                                              ELSE Seen(state, key)
    BY <1>5, <1>6, <2>1, SeenSet
  <2>3. Index(key) = x /\ Generation(key) = Generation(k) <=> key = k
    BY <1>2, <1>5, HalvesDetermine
  <2>4. Index(key) = x /\ key # k => Seen(state, key) = None
    BY <1>5, <1>6, <2>3, SeenIs DEF Current
  <2> QED BY <2>2, <2>3, <2>4
<1>10. PICK out : out = GuardsOf(call) \ {l}
  OBVIOUS
<1>11. /\ GuardsOf(call) \cup lost = out \cup {l} /\ GuardsOf(call') \cup lost' = out
       /\ HeldOf(call') = HeldOf(call)
       /\ (\A g \in out : g.key # k) /\ \A g, h \in out : g.key = h.key => g = h
  <2>1. l = Lent(call[t]) /\ l \in GuardsOf(call)
    BY <1>1, <1>3, <1>5, <1>7 DEF Lent, GuardsOf
  <2>2. GuardsOf(call') = GuardsOf(call) \ {l} /\ HeldOf(call') = HeldOf(call)
    BY <1>5, <2>1, GuardsNext, HeldNext, Apart
  <2>3. \A g, h \in GuardsOf(call) : g.key = h.key => g = h
    BY GuardKeys
  <2>4. l.key = k /\ out \subseteq GuardsOf(call)
    BY <1>7, <1>10
  <2>5. lost = {} /\ lost' = {}
    BY <1>4, <1>5
  <2>6. GuardsOf(call) \cup lost = out \cup {l} /\ GuardsOf(call') \cup lost' = out
    BY <1>10, <2>1, <2>2, <2>5
  <2>7. \A g \in out : g.key # k
    BY <1>10, <2>1, <2>3, <2>4
  <2> QED BY <2>2, <2>3, <2>4, <2>6, <2>7
<1>12. BarOf(out \cup {l}, state) = BarOf(out, state')
  <2>1. BarOf(out, state')[k] = b
    BY <1>5, <1>9, <1>11, BarValue
  <2>2. \A key \in Usize : key # k => Seen(state, key) = Seen(state', key)
    BY <1>9
  <2>3. PICK s : s = state'
    OBVIOUS
  <2>4. PICK st : st = state
    OBVIOUS
  <2>5. BarOf(out, s)[k] = b /\ \A key \in Usize : key # k => Seen(st, key) = Seen(s, key)
    BY <2>1, <2>2, <2>3, <2>4
  <2>6. k \in Usize /\ (\A g \in out : g.key # k) /\ \A g, h \in out : g.key = h.key => g = h
    BY <1>5, <1>11
  <2>7. BarOf(out \cup {l}, st) = BarOf(out, s)
    BY <1>7, <2>5, <2>6, LendBar
  <2> QED BY <2>3, <2>4, <2>7
<1>13. PICK ans : ans = Answered(t)
  OBVIOUS
<1>14. ans = NoAnswer
  BY <1>4, <1>13 DEF Answered
<1>15. Abstract(ans)!Next
  <2>1. liveBar' = liveBar /\ heldBar' = heldBar
    BY <1>4, <1>5, <1>11, <1>12, Bars, BarsNext
  <2>2. /\ {g.key : g \in Guards \cup lost} = KeysOf(out \cup {l})
        /\ {g.key : g \in Guards \cup lost}' = KeysOf(out)
    BY <1>11, Bars, BarsNext
  <2>3. k \in KeysOf(out \cup {l}) /\ KeysOf(out) = KeysOf(out \cup {l}) \ {k}
    BY <1>7, <1>11 DEF KeysOf
  <2> QED BY <1>4, <1>5, <1>14, <2>1, <2>2, <2>3, MapReturnMut
<1> QED
  BY <1>4, <1>5, <1>13, <1>15, UnlockIs DEF Effect

\* Every step takes effect, is one of Tracker, or is none.
LEMMA StepMap ==
  ASSUME IInv, IInv', Hist, Next
  PROVE  Quiet \/ \E t \in Thread : Effect(t)
<1>1. ASSUME NEW t \in Thread,
             NewCounter(t) \/ \E key \in Passed : FreeCounter(t, key) \/ IncreaseCounter(t, key)
      PROVE  Quiet
  BY <1>1, EnterMap
<1>2. ASSUME NEW t \in Thread, Step(t) PROVE Quiet \/ Effect(t)
  <2>1. CASE Lock(t) \/ Refused(t) \/ LogReenters(t) \/ RegisterSlot(t) \/ ReclaimTake(t) \/ Use(t)
    BY <2>1, InnerMap
  <2>2. CASE LockPoisoned(t) \/ DropCounter(t) \/ LogPanics(t)
    BY <2>2, LockPoisonedMap, DropMap
  <2>3. CASE ReclaimGeneration(t)
    BY <2>3, InnerMap, ReclaimMap
  <2>4. CASE ReclaimFree(t) \/ RegisterStore(t) \/ LogReturns(t) \/ BorrowMut(t) \/ ReturnMut(t)
    BY <2>4, ReclaimMap, RegisterStoreMap, LogReturnsMap, BorrowMutMap, ReturnMutMap
  <2> QED BY <1>2, <2>1, <2>2, <2>3, <2>4 DEF Step
<1> QED
  BY <1>1, <1>2 DEF Next

\* No entry, no handle, no box.
LEMMA InitMap == Init => Abstract(NoAnswer)!Init
<1> SUFFICES ASSUME Init PROVE Abstract(NoAnswer)!Init
  OBVIOUS
<1>1. /\ Core /\ lost = {} /\ issued = {} /\ committed = state /\ Len(state.entries) = 0
      /\ \A t \in Thread : call[t] = None
  BY InitInv DEF Init, IInv
<1>2. GuardsOf(call) = {} /\ HeldOf(call) = {}
  BY <1>1 DEF GuardsOf, HeldOf, Lends, Keeps
<1>3. \A key \in Usize : Seen(committed, key) = None
  BY <1>1, SeenIs DEF Core, Current, Slots
<1>4. liveBar = [key \in Usize |-> None]
  BY <1>1, <1>2, <1>3, Bars DEF BarOf
<1>5. {g.key : g \in Guards \cup lost} = {} /\ heldBar = {}
  BY <1>1, <1>2, Bars DEF KeysOf
<1> QED
  BY <1>1, <1>4, <1>5 DEF Abstract!Init, Abstract!NoReply, NoAnswer, Answer

\* Every step is the one ImplementsTracker asks for.
LEMMA NextMaps == IInv /\ IInv' /\ Hist /\ [Next]_vars => [TrackerStep]_vars
<1> SUFFICES ASSUME IInv, IInv', Hist, Next PROVE TrackerStep
  OBVIOUS
<1>1. CASE Quiet
  BY <1>1 DEF Quiet, Silent, TrackerStep
<1>2. CASE \E t \in Thread : Effect(t)
  <2>1. PICK t \in Thread : Effect(t)
    BY <1>2
  <2>2. Unlocks(t) /\ \A u \in Thread : Unlocks(u) => u = t
    BY <2>1 DEF Effect, Unlocks
  <2>3. (CHOOSE u \in Thread : Unlocks(u)) = t
    BY <2>2
  <2> QED BY <2>1, <2>2, <2>3 DEF Effect, TrackerStep
<1> QED
  BY <1>1, <1>2, StepMap

\* For every other thread a method happens at once, as trait Tracker says, and
\* answers what Tracker answers, whatever panics in between.
THEOREM Refinement == Spec => ImplementsTracker
<1>1. Spec => [](IInv /\ Hist)
  <2>1. IInv /\ Hist /\ [Next]_vars => (IInv /\ Hist)'
    BY NextInv, NextHist
  <2>2. Init => IInv /\ Hist
    BY InitInv, InitHist
  <2> QED BY <2>1, <2>2, PTL DEF Spec
<1>2. Spec => [][TrackerStep]_vars
  BY <1>1, NextMaps, PTL DEF Spec
<1>3. Spec => Abstract(NoAnswer)!Init
  BY InitMap DEF Spec
<1> QED
  BY <1>2, <1>3, PTL DEF ImplementsTracker
=============================================================================
