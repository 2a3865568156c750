-------------------------- MODULE RawTrackerProofs --------------------------
(***************************************************************************)
(* The safety of RawTracker for every set of objects and addresses, for    *)
(* types with a size and without.  The properties of the run are inductive *)
(* together with OneAddress, which is what the allocator promises.         *)
(***************************************************************************)
EXTENDS RawTracker, TLAPS

Out == guards \cup forgotten

\* Two objects that exist are at two addresses, unless they have no size.
OneAddress ==
  ~zero_sized => \A b, c \in Box : at[b] # None /\ at[b] = at[c] => b = c

IInv ==
  /\ TypeOK
  /\ UniqueOwner
  /\ KeyIsAddress
  /\ GuardsPinned
  /\ OneAddress
  /\ CapacityExceededOnlyZeroSized
  /\ ErrorKind

-----------------------------------------------------------------------------

\* The state starts empty and every part of the invariant holds of it.
LEMMA InitInv == Init => IInv
<1> SUFFICES ASSUME Init PROVE IInv
  OBVIOUS
<1>1. DOMAIN state = {} /\ guards = {} /\ forgotten = {} /\ held = {}
  BY DEF Init
<1>2. TypeOK
  BY <1>1 DEF Init, TypeOK, NoReply, Ops, Results
<1>3. InEntries = {} /\ InGuards = {}
  BY <1>1 DEF InEntries, InGuards
<1>4. UniqueOwner /\ OneAddress
  BY <1>1, <1>3 DEF Init, UniqueOwner, OneAddress
<1>5. KeyIsAddress /\ GuardsPinned
  BY <1>1 DEF KeyIsAddress, GuardsPinned
<1> QED
  BY <1>2, <1>4, <1>5 DEF Init, IInv, NoReply, CapacityExceededOnlyZeroSized, ErrorKind

-----------------------------------------------------------------------------

\* A new object goes where none is.
LEMMA NewBoxInv ==
  ASSUME IInv, NEW b \in Box, NewBox(b)
  PROVE  IInv'
<1> USE DEF IInv
<1>0. PICK a \in Addr : /\ at' = [at EXCEPT ![b] = a]
                        /\ IF zero_sized THEN a = Dangling ELSE Vacant(a)
  BY DEF NewBox
<1>a. /\ at \in [Box -> Addr \cup {None}] /\ at[b] = None
      /\ at'[b] = a /\ a # None /\ \A x \in Box : x # b => at'[x] = at[x]
  BY <1>0, RawAssumption DEF NewBox, TypeOK
<1>b. b \notin held \cup InEntries \cup InGuards
  BY <1>a DEF UniqueOwner
<1>c. InEntries' = InEntries /\ InGuards' = InGuards
  BY DEF NewBox, InEntries, InGuards
<1>1. TypeOK'
  BY <1>0 DEF NewBox, TypeOK, NoReply, Ops, Results
<1>2. UniqueOwner'
  <2>1. {x \in Box : at[x] # None}' = {x \in Box : at[x] # None} \cup {b}
    BY <1>a
  <2> QED
    BY <2>1, <1>b, <1>c DEF NewBox, UniqueOwner
<1>3. KeyIsAddress'
  <2>1. \A x \in DOMAIN state : state[x] # None => state[x] \in InEntries /\ state[x] \in Box
    BY DEF InEntries, TypeOK
  <2>2. \A g \in guards \cup forgotten : g.val \in InGuards /\ g.val \in Box
    BY DEF InGuards, TypeOK, Guard
  <2> QED
    BY <1>a, <1>b, <2>1, <2>2 DEF NewBox, KeyIsAddress
<1>4. GuardsPinned'
  BY DEF NewBox, GuardsPinned, Guarded
<1>5. OneAddress'
  BY <1>0, <1>a DEF NewBox, OneAddress, Vacant
<1>6. CapacityExceededOnlyZeroSized' /\ ErrorKind'
  BY DEF NewBox, NoReply, CapacityExceededOnlyZeroSized, ErrorKind
<1> QED
  BY <1>1, <1>2, <1>3, <1>4, <1>5, <1>6

\* An object the caller had is freed, and nothing else changes: the drop of a
\* Box, and a register that fails.
LEMMA FreedInv ==
  ASSUME IInv, NEW b \in held,
         held' = held \ {b}, at' = [at EXCEPT ![b] = None],
         UNCHANGED <<zero_sized, state, guards, forgotten>>
  PROVE  UniqueOwner' /\ KeyIsAddress' /\ GuardsPinned' /\ OneAddress'
<1> USE DEF IInv
<1>a. /\ b \in Box /\ at \in [Box -> Addr \cup {None}]
      /\ at'[b] = None /\ \A x \in Box : x # b => at'[x] = at[x]
  BY DEF TypeOK
<1>b. b \notin InEntries \cup InGuards
  BY DEF UniqueOwner
<1>c. InEntries' = InEntries /\ InGuards' = InGuards
  BY DEF InEntries, InGuards
<1>2. UniqueOwner'
  <2>1. {x \in Box : at[x] # None}' = {x \in Box : at[x] # None} \ {b}
    BY <1>a
  <2> QED
    BY <2>1, <1>b, <1>c DEF UniqueOwner
<1>3. KeyIsAddress'
  <2>1. \A x \in DOMAIN state : state[x] # None => state[x] \in InEntries /\ state[x] \in Box
    BY DEF InEntries, TypeOK
  <2>2. \A g \in guards \cup forgotten : g.val \in InGuards /\ g.val \in Box
    BY DEF InGuards, TypeOK, Guard
  <2> QED
    BY <1>a, <1>b, <2>1, <2>2 DEF KeyIsAddress
<1>4. GuardsPinned'
  BY DEF GuardsPinned, Guarded
<1>5. OneAddress'
  BY <1>a DEF OneAddress
<1> QED
  BY <1>2, <1>3, <1>4, <1>5

LEMMA DropBoxInv ==
  ASSUME IInv, NEW b \in Box, DropBox(b)
  PROVE  IInv'
<1>1. TypeOK'
  BY DEF IInv, DropBox, TypeOK, NoReply, Ops, Results
<1>2. UniqueOwner' /\ KeyIsAddress' /\ GuardsPinned' /\ OneAddress'
  BY FreedInv DEF DropBox
<1>3. CapacityExceededOnlyZeroSized' /\ ErrorKind'
  BY DEF DropBox, NoReply, CapacityExceededOnlyZeroSized, ErrorKind
<1> QED
  BY <1>1, <1>2, <1>3 DEF IInv

\* An address has an entry only if an object is there, which is another than
\* the caller's: two objects at one address have no size.
LEMMA CollisionZeroSized ==
  ASSUME IInv, NEW b \in held, at[b] \in DOMAIN state
  PROVE  zero_sized
<1> USE DEF IInv
<1>1. b \in Box /\ at[b] # None
  BY DEF TypeOK, UniqueOwner
<1>2. \E x \in InEntries \cup InGuards : x \in Box /\ at[x] = at[b]
  <2>1. CASE state[at[b]] # None
    BY <2>1 DEF KeyIsAddress, InEntries, TypeOK
  <2>2. CASE state[at[b]] = None
    <3>1. PICK g \in guards \cup forgotten : g.key = at[b]
      BY <2>2 DEF GuardsPinned, Guarded
    <3> QED
      BY <3>1 DEF KeyIsAddress, InGuards, TypeOK, Guard
  <2> QED
    BY <2>1, <2>2
<1>3. \A x \in InEntries \cup InGuards : x # b
  BY DEF UniqueOwner
<1> QED
  BY <1>1, <1>2, <1>3 DEF OneAddress

\* register takes the box: to the entry of its address, or to its drop.
LEMMA RegisterInv ==
  ASSUME IInv, NEW b \in Box, Register(b)
  PROVE  IInv'
<1> USE DEF IInv
<1>0. b \in held /\ at[b] \in Addr /\ at[b] # None
  BY RawAssumption DEF Register, UniqueOwner, TypeOK
<1>1. CASE at[b] \in DOMAIN state
  <2>1. TypeOK'
    BY <1>1 DEF Register, TypeOK, Answer, Ops, Results
  <2>2. UniqueOwner' /\ KeyIsAddress' /\ GuardsPinned' /\ OneAddress'
    BY <1>0, <1>1, FreedInv DEF Register
  <2>3. CapacityExceededOnlyZeroSized'
    BY <1>0, <1>1, CollisionZeroSized DEF Register, CapacityExceededOnlyZeroSized
  <2>4. ErrorKind'
    BY <1>1 DEF Register, Answer, ErrorKind
  <2> QED
    BY <2>1, <2>2, <2>3, <2>4
<1>2. CASE at[b] \notin DOMAIN state
  <2>0. /\ state' = With(state, at[b], b) /\ held' = held \ {b}
        /\ UNCHANGED <<zero_sized, at, guards, forgotten>>
        /\ reply' = Answer("register", at[b], "Ok", b)
    BY <1>2 DEF Register
  <2>a. /\ DOMAIN state' = DOMAIN state \cup {at[b]} /\ state'[at[b]] = b
        /\ \A x \in DOMAIN state : state'[x] = state[x]
        /\ state' = [x \in DOMAIN state' |-> state'[x]]
    BY <2>0, <1>2 DEF With
  <2>b. InGuards' = InGuards /\ b \notin InEntries \cup InGuards
    BY <1>0, <2>0 DEF InGuards, UniqueOwner
  <2>c. b # None
    BY RawAssumption
  <2>1. TypeOK'
    <3>1. state' \in [DOMAIN state' -> Box \cup {None}]
      BY <2>a DEF TypeOK
    <3> QED
      BY <1>0, <2>0, <2>a, <3>1 DEF TypeOK, Answer, Ops, Results, Pointers
  <2>2. UniqueOwner'
    <3>1. InEntries' = InEntries \cup {b}
      BY <2>a, <2>c, <1>2 DEF InEntries
    <3>2. \A x, y \in DOMAIN state' : state'[x] # None /\ state'[x] = state'[y] => x = y
      BY <2>a, <2>b, <2>c DEF UniqueOwner, InEntries
    <3> QED
      BY <3>1, <3>2, <2>0, <2>b, <1>0 DEF UniqueOwner
  <2>3. KeyIsAddress'
    BY <2>0, <2>a DEF KeyIsAddress
  <2>4. GuardsPinned'
    <3>1. \A x : Guarded(x)' <=> Guarded(x)
      BY <2>0 DEF Guarded
    <3>2. ~Guarded(at[b])
      BY <1>2 DEF Guarded, GuardsPinned
    <3> QED
      BY <3>1, <3>2, <2>0, <2>a, <2>c DEF GuardsPinned
  <2>5. OneAddress'
    BY <2>0 DEF OneAddress
  <2>6. CapacityExceededOnlyZeroSized' /\ ErrorKind'
    BY <2>0 DEF Answer, CapacityExceededOnlyZeroSized, ErrorKind
  <2> QED
    BY <2>1, <2>2, <2>3, <2>4, <2>5, <2>6
<1> QED
  BY <1>1, <1>2

\* The answer of a refused call: only reply changes.
LEMMA RefuseInv ==
  ASSUME IInv, NEW key \in Pointers, NEW op \in {"reclaim", "borrow_mut"}, Refuse(op, key)
  PROVE  IInv'
<1> USE DEF IInv
<1>1. TypeOK'
  BY DEF TypeOK, Refuse, Refusal, Answer, Ops, Results
<1>2. InEntries' = InEntries /\ InGuards' = InGuards
  BY DEF Refuse, InEntries, InGuards
<1>3. UniqueOwner' /\ OneAddress'
  BY <1>2 DEF Refuse, UniqueOwner, OneAddress
<1>4. KeyIsAddress' /\ GuardsPinned'
  BY DEF Refuse, KeyIsAddress, GuardsPinned, Guarded
<1>5. CapacityExceededOnlyZeroSized'
  BY DEF Refuse, Refusal, Answer, CapacityExceededOnlyZeroSized
<1>6. ErrorKind'
  <2>1. key \in DOMAIN state => Guarded(key)
    BY DEF Refuse, Resolves, GuardsPinned
  <2>2. key \notin DOMAIN state => ~Guarded(key)
    BY DEF GuardsPinned, Guarded
  <2>3. Guarded(key)' = Guarded(key) /\ Resolves(key)' = Resolves(key)
    BY DEF Refuse, Guarded, Resolves
  <2>4. reply'.key = key /\ reply'.res = Refusal(key)
    BY DEF Refuse, Answer
  <2> QED
    BY <2>1, <2>2, <2>3, <2>4 DEF Refusal, ErrorKind, Refuse
<1> QED
  BY <1>1, <1>3, <1>4, <1>5, <1>6

\* What a key that resolves says of its entry.
LEMMA ResolvesTo ==
  ASSUME IInv, NEW key, Resolves(key)
  PROVE  /\ key \in DOMAIN state /\ key \in Addr /\ state[key] \in Box
         /\ state[key] \in InEntries /\ state[key] \notin InGuards /\ state[key] \notin held
         /\ at[state[key]] = key
         /\ ~Guarded(key)
         /\ \A x \in DOMAIN state : state[x] = state[key] => x = key
<1> USE DEF IInv
<1>1. key \in DOMAIN state /\ key \in Addr /\ state[key] \in Box /\ state[key] # None
  BY DEF Resolves, TypeOK
<1>2. state[key] \in InEntries
  BY <1>1 DEF InEntries
<1> QED
  BY <1>1, <1>2 DEF UniqueOwner, KeyIsAddress, GuardsPinned

\* reclaim gives the object to the caller and the entry up.
LEMMA ReclaimInv ==
  ASSUME IInv, NEW key \in Pointers, Reclaim(key)
  PROVE  IInv'
<1> USE DEF IInv
<1>1. CASE Refuse("reclaim", key)
  BY <1>1, RefuseInv
<1>2. CASE ~Refuse("reclaim", key)
  <2>0. /\ Resolves(key) /\ state' = Without(state, key) /\ held' = held \cup {state[key]}
        /\ reply' = Answer("reclaim", key, "Ok", state[key])
        /\ UNCHANGED <<zero_sized, at, guards, forgotten>>
    BY <1>2 DEF Reclaim
  <2>a. /\ DOMAIN state' = DOMAIN state \ {key}
        /\ \A x \in DOMAIN state' : state'[x] = state[x]
        /\ state' = [x \in DOMAIN state' |-> state'[x]]
    BY <2>0 DEF Without
  <2>b. InGuards' = InGuards
    BY <2>0 DEF InGuards
  <2>1. TypeOK'
    <3>1. state' \in [DOMAIN state' -> Box \cup {None}]
      BY <2>a DEF TypeOK
    <3> QED
      BY <2>0, <2>a, <3>1, ResolvesTo DEF TypeOK, Answer, Ops, Results
  <2>2. UniqueOwner'
    <3>1. InEntries' = InEntries \ {state[key]}
      BY <2>a, <2>0, ResolvesTo DEF InEntries
    <3> QED
      BY <3>1, <2>0, <2>a, <2>b, ResolvesTo DEF UniqueOwner
  <2>3. KeyIsAddress'
    BY <2>0, <2>a DEF KeyIsAddress
  <2>4. GuardsPinned'
    <3>1. \A x : Guarded(x)' <=> Guarded(x)
      BY <2>0 DEF Guarded
    <3>2. \A g \in guards \cup forgotten : g.key # key
      BY <2>0, ResolvesTo DEF Guarded
    <3> QED
      BY <3>1, <3>2, <2>0, <2>a DEF GuardsPinned
  <2>5. OneAddress'
    BY <2>0 DEF OneAddress
  <2>6. CapacityExceededOnlyZeroSized' /\ ErrorKind'
    BY <2>0 DEF Answer, CapacityExceededOnlyZeroSized, ErrorKind
  <2> QED
    BY <2>1, <2>2, <2>3, <2>4, <2>5, <2>6
<1> QED
  BY <1>1, <1>2

\* borrow_mut moves the object from its entry to the guard.
LEMMA BorrowMutInv ==
  ASSUME IInv, NEW key \in Pointers, BorrowMut(key)
  PROVE  IInv'
<1> USE DEF IInv
<1>1. CASE Refuse("borrow_mut", key)
  BY <1>1, RefuseInv
<1>2. CASE ~Refuse("borrow_mut", key)
  <2> DEFINE lent == [key |-> key, val |-> state[key]]
  <2>0. /\ Resolves(key) /\ state' = With(state, key, None) /\ guards' = guards \cup {lent}
        /\ reply' = Answer("borrow_mut", key, "Ok", state[key])
        /\ UNCHANGED <<zero_sized, at, forgotten, held>>
    BY <1>2 DEF BorrowMut
  <2>a. /\ DOMAIN state' = DOMAIN state /\ state'[key] = None
        /\ \A x \in DOMAIN state : x # key => state'[x] = state[x]
        /\ state' = [x \in DOMAIN state' |-> state'[x]]
    BY <2>0, ResolvesTo DEF With
  <2>b. InGuards' = InGuards \cup {state[key]}
    <3>1. (guards \cup forgotten)' = (guards \cup forgotten) \cup {lent} /\ lent.val = state[key]
      BY <2>0
    <3> HIDE DEF lent
    <3> QED
      BY <3>1 DEF InGuards
  <2>c. \A g \in guards \cup forgotten : g.key # key /\ g.val # state[key]
    BY <2>0, ResolvesTo DEF Guarded, InGuards
  <2>1. TypeOK'
    <3>1. state' \in [DOMAIN state' -> Box \cup {None}]
      BY <2>a DEF TypeOK
    <3>2. lent \in Guard
      BY <2>0, ResolvesTo DEF Guard
    <3> QED
      BY <2>0, <2>a, <3>1, <3>2, ResolvesTo DEF TypeOK, Answer, Ops, Results
  <2>2. UniqueOwner'
    <3>1. InEntries' = InEntries \ {state[key]}
      BY <2>a, <2>0, ResolvesTo DEF InEntries
    <3>2. \A x, y \in DOMAIN state' : state'[x] # None /\ state'[x] = state'[y] => x = y
      BY <2>a DEF UniqueOwner
    <3>3. \A g, h \in (guards \cup forgotten)' : g.val = h.val => g = h
      BY <2>0, <2>c DEF UniqueOwner
    <3>4. lent \notin forgotten
      BY <2>c
    <3> QED
      BY <3>1, <3>2, <3>3, <3>4, <2>0, <2>b, ResolvesTo DEF UniqueOwner
  <2>3. KeyIsAddress'
    BY <2>0, <2>a, ResolvesTo DEF KeyIsAddress
  <2>4. GuardsPinned'
    <3>1. (guards \cup forgotten)' = (guards \cup forgotten) \cup {lent} /\ lent.key = key
      BY <2>0
    <3> HIDE DEF lent
    <3>2. \A x : Guarded(x)' <=> Guarded(x) \/ x = key
      BY <3>1 DEF Guarded
    <3>3. \A g, h \in (guards \cup forgotten)' : g.key = h.key => g = h
      BY <3>1, <2>c DEF GuardsPinned
    <3> QED
      BY <3>1, <3>2, <3>3, <2>0, <2>a, <2>c, ResolvesTo DEF GuardsPinned
  <2>5. OneAddress'
    BY <2>0 DEF OneAddress
  <2>6. CapacityExceededOnlyZeroSized' /\ ErrorKind'
    BY <2>0 DEF Answer, CapacityExceededOnlyZeroSized, ErrorKind
  <2> QED
    BY <2>1, <2>2, <2>3, <2>4, <2>5, <2>6
<1> QED
  BY <1>1, <1>2

\* The drop of a guard takes its object back to the entry.
LEMMA TrackedDropInv ==
  ASSUME IInv, NEW g \in guards, TrackedDrop(g)
  PROVE  IInv'
<1> USE DEF IInv
<1>0. /\ guards' = guards \ {g} /\ state' = With(state, g.key, g.val)
      /\ reply' = NoReply /\ UNCHANGED <<zero_sized, at, forgotten, held>>
  BY DEF TrackedDrop, ReturnMut
<1>a. /\ g.key \in Addr /\ g.val \in Box /\ g.val # None
      /\ g.key \in DOMAIN state /\ state[g.key] = None
      /\ g.val \in InGuards /\ g.val \notin InEntries /\ g \notin forgotten
  BY RawAssumption DEF TypeOK, Guard, GuardsPinned, Guarded, UniqueOwner, InGuards
<1>b. /\ DOMAIN state' = DOMAIN state /\ state'[g.key] = g.val
      /\ \A x \in DOMAIN state : x # g.key => state'[x] = state[x]
      /\ state' = [x \in DOMAIN state' |-> state'[x]]
  BY <1>0, <1>a DEF With
<1>c. (guards \cup forgotten)' = (guards \cup forgotten) \ {g}
  BY <1>0, <1>a
<1>1. TypeOK'
  <2>1. state' \in [DOMAIN state' -> Box \cup {None}]
    BY <1>a, <1>b DEF TypeOK
  <2> QED
    BY <1>0, <1>b, <2>1 DEF TypeOK, NoReply, Ops, Results
<1>2. UniqueOwner'
  <2>1. InEntries' = InEntries \cup {g.val}
    BY <1>a, <1>b DEF InEntries
  <2>2. InGuards' = InGuards \ {g.val}
    BY <1>c DEF InGuards, UniqueOwner
  <2>3. \A x, y \in DOMAIN state' : state'[x] # None /\ state'[x] = state'[y] => x = y
    BY <1>a, <1>b DEF UniqueOwner, InEntries
  <2> QED
    BY <1>0, <1>a, <1>c, <2>1, <2>2, <2>3 DEF UniqueOwner
<1>3. KeyIsAddress'
  BY <1>0, <1>b, <1>c DEF KeyIsAddress
<1>4. GuardsPinned'
  <2>1. \A x : Guarded(x)' <=> Guarded(x) /\ x # g.key
    BY <1>c DEF Guarded, GuardsPinned
  <2> QED
    BY <2>1, <1>a, <1>b, <1>c DEF GuardsPinned
<1>5. OneAddress'
  BY <1>0 DEF OneAddress
<1>6. CapacityExceededOnlyZeroSized' /\ ErrorKind'
  BY <1>0 DEF NoReply, CapacityExceededOnlyZeroSized, ErrorKind
<1> QED
  BY <1>1, <1>2, <1>3, <1>4, <1>5, <1>6

\* A guard that is leaked pins its entry as one that is alive.
LEMMA ForgetGuardInv ==
  ASSUME IInv, NEW g \in guards, ForgetGuard(g)
  PROVE  IInv'
<1> USE DEF IInv
<1>0. /\ guards' = guards \ {g} /\ forgotten' = forgotten \cup {g}
      /\ (guards \cup forgotten)' = guards \cup forgotten
      /\ reply' = NoReply /\ UNCHANGED <<zero_sized, state, at, held>>
  BY DEF ForgetGuard
<1>1. TypeOK'
  BY <1>0 DEF TypeOK, NoReply, Ops, Results
<1>2. InEntries' = InEntries /\ InGuards' = InGuards
  BY <1>0 DEF InEntries, InGuards
<1>3. UniqueOwner' /\ OneAddress'
  BY <1>0, <1>2 DEF UniqueOwner, OneAddress
<1>4. KeyIsAddress' /\ GuardsPinned'
  BY <1>0 DEF KeyIsAddress, GuardsPinned, Guarded
<1>5. CapacityExceededOnlyZeroSized' /\ ErrorKind'
  BY <1>0 DEF NoReply, CapacityExceededOnlyZeroSized, ErrorKind
<1> QED
  BY <1>1, <1>3, <1>4, <1>5

-----------------------------------------------------------------------------

\* A step that changes nothing.
LEMMA StutterInv ==
  ASSUME IInv, UNCHANGED vars
  PROVE  IInv'
<1> USE DEF IInv, vars
<1>1. TypeOK' /\ OneAddress' /\ CapacityExceededOnlyZeroSized'
  BY DEF TypeOK, OneAddress, CapacityExceededOnlyZeroSized
<1>2. UniqueOwner'
  BY DEF UniqueOwner, InEntries, InGuards
<1>3. KeyIsAddress' /\ GuardsPinned' /\ ErrorKind'
  BY DEF KeyIsAddress, GuardsPinned, Guarded, ErrorKind, Resolves
<1> QED
  BY <1>1, <1>2, <1>3

\* The invariant holds in every reachable state: every operation keeps it.
THEOREM Invariance == Spec => []IInv
<1>1. ASSUME IInv, [Next]_vars PROVE IInv'
  <2>1. CASE UNCHANGED vars
    BY <1>1, <2>1, StutterInv
  <2>2. CASE \E b \in Box : NewBox(b) \/ DropBox(b) \/ Register(b)
    BY <1>1, <2>2, NewBoxInv, DropBoxInv, RegisterInv
  <2>3. CASE \E key \in Pointers : Reclaim(key) \/ BorrowMut(key)
    BY <1>1, <2>3, ReclaimInv, BorrowMutInv
  <2>4. CASE \E g \in guards : TrackedDrop(g) \/ ForgetGuard(g)
    BY <1>1, <2>4, TrackedDropInv, ForgetGuardInv
  <2> QED
    BY <1>1, <2>1, <2>2, <2>3, <2>4 DEF Next
<1> QED
  BY <1>1, InitInv, PTL DEF Spec

\* The state keeps its types.
THEOREM TypeCorrect == Spec => []TypeOK
<1>1. IInv => TypeOK
  BY DEF IInv
<1> QED
  BY <1>1, Invariance, PTL

\* Every object has one owner: none is freed twice, none under a guard.
THEOREM Ownership == Spec => []UniqueOwner
<1>1. IInv => UniqueOwner
  BY DEF IInv
<1> QED
  BY <1>1, Invariance, PTL

\* The pointer C has for an object is the object's address, in the tracker and
\* under a guard, however often the allocator gives addresses out again.
THEOREM PointersRight == Spec => []KeyIsAddress
<1>1. IInv => KeyIsAddress
  BY DEF IInv
<1> QED
  BY <1>1, Invariance, PTL

\* The expect of return_mut never fails, and it overwrites no object.
THEOREM ReturnNeverPanics == Spec => []GuardsPinned
<1>1. IInv => GuardsPinned
  BY DEF IInv
<1> QED
  BY <1>1, Invariance, PTL

\* register of an object with a size never fails.
THEOREM RegisterSucceeds == Spec => []CapacityExceededOnlyZeroSized
<1>1. IInv => CapacityExceededOnlyZeroSized
  BY DEF IInv
<1> QED
  BY <1>1, Invariance, PTL

\* A refused call says why: no object under the key, or one that is borrowed.
THEOREM ErrorsExact == Spec => []ErrorKind
<1>1. IInv => ErrorKind
  BY DEF IInv
<1> QED
  BY <1>1, Invariance, PTL

-----------------------------------------------------------------------------
(***************************************************************************)
(* The refinement: what Tracker!live is, as equations instead of a CHOOSE. *)
(***************************************************************************)
Bars ==
  /\ liveBar = [key \in Pointers |-> liveBar[key]]
  /\ \A key \in DOMAIN state : key \in Pointers
  /\ \A key \in DOMAIN state : state[key] # None => liveBar[key] = state[key]
  /\ \A g \in Out : g.key \in Pointers /\ liveBar[g.key] = g.val
  /\ \A key \in Pointers : key \notin DOMAIN state => liveBar[key] = None
  /\ \A key \in DOMAIN state : state[key] = None => \E g \in Out : g.key = key

\* Each key has the object of its entry, or of its one guard, or none.
LEMMA BarValues == IInv => Bars
<1> SUFFICES ASSUME IInv PROVE Bars
  OBVIOUS
<1> USE DEF IInv
<1>1. liveBar = [key \in Pointers |-> liveBar[key]]
  BY DEF liveBar
<1>2. \A key \in DOMAIN state : key \in Pointers
  BY DEF TypeOK, Pointers
<1>3. \A key \in DOMAIN state : state[key] # None => liveBar[key] = state[key]
  BY <1>2 DEF liveBar, Resolves
<1>4. ASSUME NEW g \in Out PROVE g.key \in Pointers /\ liveBar[g.key] = g.val
  <2>1. g.key \in DOMAIN state /\ g.key \in Pointers
    BY <1>2 DEF Out, GuardsPinned
  <2>2. state[g.key] = None /\ Guarded(g.key)
    BY <2>1 DEF Out, GuardsPinned, Guarded
  <2>3. \A h \in guards \cup forgotten : h.key = g.key => h = g
    BY DEF Out, GuardsPinned
  <2>4. (CHOOSE h \in guards \cup forgotten : h.key = g.key) = g
    BY <2>3 DEF Out
  <2>5. liveBar[g.key] = (CHOOSE h \in guards \cup forgotten : h.key = g.key).val
    BY <2>1, <2>2 DEF liveBar, Resolves
  <2> QED
    BY <2>1, <2>4, <2>5
<1>5. ASSUME NEW key \in Pointers, key \notin DOMAIN state PROVE liveBar[key] = None
  BY <1>5 DEF liveBar, Resolves, Guarded, GuardsPinned
<1>6. \A key \in DOMAIN state : state[key] = None => \E g \in Out : g.key = key
  BY DEF GuardsPinned, Guarded, Out
<1> QED
  BY <1>1, <1>2, <1>3, <1>4, <1>5, <1>6 DEF Bars

\* Two states that give each key the same object have the same live.
LEMMA SameLive ==
  ASSUME Bars, Bars', NEW key \in Pointers, NEW v,
         v = liveBar'[key],
         \A x \in Pointers \ {key} : liveBar'[x] = liveBar[x]
  PROVE  liveBar' = [liveBar EXCEPT ![key] = v]
<1>1. liveBar = [x \in Pointers |-> liveBar[x]] /\ liveBar' = [x \in Pointers |-> liveBar'[x]]
  BY DEF Bars, Pointers
<1> QED
  BY <1>1

\* The objects of the abstract tracker are those of the entries and guards.
LEMMA RegisteredBar ==
  ASSUME IInv
  PROVE  Abstract!Registered \subseteq InEntries \cup InGuards
<1>1. Bars
  BY BarValues
<1>2. ASSUME NEW key \in Pointers, liveBar[key] # None
      PROVE  liveBar[key] \in InEntries \cup InGuards
  <2>1. key \in DOMAIN state
    BY <1>1, <1>2 DEF Bars
  <2>2. CASE state[key] # None
    BY <1>1, <2>1, <2>2 DEF Bars, InEntries
  <2>3. CASE state[key] = None
    BY <1>1, <2>1, <2>3 DEF Bars, InGuards, Out
  <2> QED
    BY <2>2, <2>3
<1> QED
  BY <1>2 DEF Abstract!Registered

\* The caller's steps are the abstract caller's.
LEMMA CallerMaps ==
  ASSUME IInv, NEW b \in Box, NewBox(b) \/ DropBox(b)
  PROVE  Abstract!NewBox(b) \/ Abstract!DropBox(b)
<1>1. UNCHANGED <<state, guards, forgotten>> /\ reply' = NoReply
  BY DEF NewBox, DropBox
<1>2. liveBar' = liveBar /\ borrowedBar' = borrowedBar
  BY <1>1 DEF liveBar, borrowedBar, Resolves, Guarded
<1>3. replyBar' = Abstract!NoReply
  BY <1>1 DEF replyBar, NoReply, Abstract!NoReply
<1>4. CASE NewBox(b)
  <2>1. b \notin held \cup InEntries \cup InGuards
    BY <1>4 DEF IInv, UniqueOwner, NewBox
  <2>2. b \notin held \cup Abstract!Registered
    BY <2>1, RegisteredBar
  <2> QED
    BY <1>2, <1>3, <1>4, <2>2 DEF NewBox, Abstract!NewBox
<1>5. CASE DropBox(b)
  BY <1>2, <1>3, <1>5 DEF DropBox, Abstract!DropBox
<1> QED
  BY <1>4, <1>5

\* A refused call is refused by the abstract tracker.
LEMMA RefuseMaps ==
  ASSUME IInv, NEW key \in Pointers, NEW op \in {"reclaim", "borrow_mut"}, Refuse(op, key)
  PROVE  Abstract!Refuse(key)
<1>1. liveBar' = liveBar /\ borrowedBar' = borrowedBar /\ held' = held
  BY DEF Refuse, liveBar, borrowedBar, Resolves, Guarded
<1>2. replyBar' = Abstract!Answer(op, key, FALSE, None)
  BY DEF Refuse, Refusal, Answer, replyBar, Abstract!Answer
<1>3. Bars
  BY BarValues
<1>4. ~Abstract!Available(key)
  <2>1. CASE key \notin DOMAIN state
    BY <1>3, <2>1 DEF Bars, Abstract!Available
  <2>2. CASE key \in DOMAIN state
    BY <2>2 DEF Refuse, Resolves, IInv, GuardsPinned, borrowedBar, Abstract!Available
  <2> QED
    BY <2>1, <2>2
<1> QED
  BY <1>1, <1>2, <1>4 DEF Abstract!Refuse

\* register enters the object under its address, which had none, or drops it.
LEMMA RegisterMaps ==
  ASSUME IInv, IInv', NEW b \in Box, Register(b)
  PROVE  Abstract!RegisterFails(b) \/ \E k \in Pointers : Abstract!Register(b, k)
<1>0. Bars /\ Bars'
  BY BarValues, PTL
<1>1. b \in held /\ held' = held \ {b} /\ UNCHANGED <<guards, forgotten>> /\ b # None
  BY RawAssumption DEF Register
<1>2. borrowedBar' = borrowedBar
  BY <1>1 DEF borrowedBar, Guarded
<1>3. CASE at[b] \in DOMAIN state
  <2>1. state' = state /\ reply' = Answer("register", None, "CapacityExceeded", None)
    BY <1>3 DEF Register
  <2>2. liveBar' = liveBar
    BY <1>1, <2>1 DEF liveBar, Resolves, Guarded
  <2>3. replyBar' = Abstract!Answer("register", None, FALSE, None)
    BY <2>1 DEF replyBar, Answer, Abstract!Answer
  <2> QED
    BY <1>1, <1>2, <2>2, <2>3 DEF Abstract!RegisterFails
<1>4. CASE at[b] \notin DOMAIN state
  <2>1. state' = With(state, at[b], b) /\ reply' = Answer("register", at[b], "Ok", b)
    BY <1>4 DEF Register
  <2>2. at[b] \in Pointers
    BY <1>1 DEF IInv, UniqueOwner, TypeOK, Pointers
  <2>3. DOMAIN state' = DOMAIN state \cup {at[b]} /\ state'[at[b]] = b
        /\ \A x \in DOMAIN state : state'[x] = state[x]
    BY <1>4, <2>1 DEF With
  <2>4. liveBar'[at[b]] = b
    BY <1>0, <1>1, <2>3 DEF Bars
  <2>5. ASSUME NEW x \in Pointers \ {at[b]} PROVE liveBar'[x] = liveBar[x]
    <3>1. CASE x \notin DOMAIN state
      BY <1>0, <2>3, <3>1 DEF Bars, Pointers
    <3>2. CASE x \in DOMAIN state /\ state[x] # None
      BY <1>0, <2>3, <3>2 DEF Bars
    <3>3. CASE x \in DOMAIN state /\ state[x] = None
      <4>1. PICK g \in Out : g.key = x
        BY <1>0, <3>3 DEF Bars
      <4>2. g \in Out'
        BY <1>1 DEF Out
      <4> QED
        BY <1>0, <4>1, <4>2 DEF Bars
    <3> QED
      BY <3>1, <3>2, <3>3
  <2>6. liveBar' = [liveBar EXCEPT ![at[b]] = b]
    BY <1>0, <2>2, <2>4, <2>5, SameLive
  <2>7. liveBar[at[b]] = None
    BY <1>0, <1>4, <2>2 DEF Bars
  <2>8. replyBar' = Abstract!Answer("register", at[b], TRUE, b)
    BY <2>1 DEF replyBar, Answer, Abstract!Answer
  <2> QED
    BY <1>1, <1>2, <2>2, <2>6, <2>7, <2>8 DEF Abstract!Register
<1> QED
  BY <1>3, <1>4

\* A key that resolves is available, with the object of its entry.
LEMMA AvailableBar ==
  ASSUME IInv, NEW key \in Pointers, Resolves(key)
  PROVE  Abstract!Available(key) /\ liveBar[key] = state[key]
<1>1. Bars
  BY BarValues
<1>2. ~Guarded(key) /\ state[key] # None /\ key \in DOMAIN state
  BY ResolvesTo DEF Resolves
<1> QED
  BY <1>1, <1>2 DEF Bars, Abstract!Available, borrowedBar

\* reclaim is the abstract Reclaim, or its Refuse.
LEMMA ReclaimMaps ==
  ASSUME IInv, IInv', NEW key \in Pointers, Reclaim(key)
  PROVE  Abstract!Refuse(key) \/ Abstract!Reclaim(key)
<1>0. Bars /\ Bars'
  BY BarValues, PTL
<1>1. CASE Refuse("reclaim", key)
  BY <1>1, RefuseMaps
<1>2. CASE ~Refuse("reclaim", key)
  <2>0. /\ Resolves(key) /\ state' = Without(state, key) /\ held' = held \cup {state[key]}
        /\ reply' = Answer("reclaim", key, "Ok", state[key])
        /\ UNCHANGED <<guards, forgotten>>
    BY <1>2 DEF Reclaim
  <2>1. DOMAIN state' = DOMAIN state \ {key} /\ \A x \in DOMAIN state' : state'[x] = state[x]
    BY <2>0 DEF Without
  <2>2. Abstract!Available(key) /\ liveBar[key] = state[key]
    BY <2>0, AvailableBar
  <2>3. borrowedBar' = borrowedBar
    BY <2>0 DEF borrowedBar, Guarded
  <2>4. liveBar'[key] = None
    BY <1>0, <2>1 DEF Bars, Pointers
  <2>5. ASSUME NEW x \in Pointers \ {key} PROVE liveBar'[x] = liveBar[x]
    <3>1. CASE x \notin DOMAIN state
      BY <1>0, <2>1, <3>1 DEF Bars, Pointers
    <3>2. CASE x \in DOMAIN state /\ state[x] # None
      BY <1>0, <2>1, <3>2 DEF Bars
    <3>3. CASE x \in DOMAIN state /\ state[x] = None
      <4>1. PICK g \in Out : g.key = x
        BY <1>0, <3>3 DEF Bars
      <4>2. g \in Out'
        BY <2>0 DEF Out
      <4> QED
        BY <1>0, <4>1, <4>2 DEF Bars
    <3> QED
      BY <3>1, <3>2, <3>3
  <2>6. liveBar' = [liveBar EXCEPT ![key] = None]
    BY <1>0, <2>4, <2>5, SameLive
  <2>7. replyBar' = Abstract!Answer("reclaim", key, TRUE, state[key])
    BY <2>0 DEF replyBar, Answer, Abstract!Answer
  <2> QED
    BY <2>0, <2>2, <2>3, <2>6, <2>7 DEF Abstract!Reclaim
<1> QED
  BY <1>1, <1>2

\* borrow_mut leaves the object under its key and marks the key borrowed.
LEMMA BorrowMutMaps ==
  ASSUME IInv, IInv', NEW key \in Pointers, BorrowMut(key)
  PROVE  Abstract!Refuse(key) \/ Abstract!BorrowMut(key)
<1>0. Bars /\ Bars'
  BY BarValues, PTL
<1>1. CASE Refuse("borrow_mut", key)
  BY <1>1, RefuseMaps
<1>2. CASE ~Refuse("borrow_mut", key)
  <2> DEFINE g == [key |-> key, val |-> state[key]]
  <2>0. /\ Resolves(key) /\ state' = With(state, key, None) /\ guards' = guards \cup {g}
        /\ reply' = Answer("borrow_mut", key, "Ok", state[key])
        /\ UNCHANGED <<forgotten, held>>
    BY <1>2 DEF BorrowMut
  <2>a. g.key = key /\ g.val = state[key] /\ g \in Out'
    BY <2>0 DEF Out
  <2> HIDE DEF g
  <2>1. DOMAIN state' = DOMAIN state /\ \A x \in DOMAIN state \ {key} : state'[x] = state[x]
    BY <2>0 DEF With, Resolves
  <2>2. Abstract!Available(key) /\ liveBar[key] = state[key]
    BY <2>0, AvailableBar
  <2>3. borrowedBar' = borrowedBar \cup {key}
    <3>1. \A x : Guarded(x)' <=> Guarded(x) \/ x = key
      BY <2>0, <2>a DEF Guarded
    <3> QED
      BY <3>1 DEF borrowedBar, Pointers
  <2>4. liveBar'[key] = state[key]
    BY <1>0, <2>a DEF Bars
  <2>5. ASSUME NEW x \in Pointers \ {key} PROVE liveBar'[x] = liveBar[x]
    <3>1. CASE x \notin DOMAIN state
      BY <1>0, <2>1, <3>1 DEF Bars, Pointers
    <3>2. CASE x \in DOMAIN state /\ state[x] # None
      BY <1>0, <2>1, <3>2 DEF Bars
    <3>3. CASE x \in DOMAIN state /\ state[x] = None
      <4>1. PICK h \in Out : h.key = x
        BY <1>0, <3>3 DEF Bars
      <4>2. h \in Out'
        BY <2>0 DEF Out
      <4> QED
        BY <1>0, <4>1, <4>2 DEF Bars
    <3> QED
      BY <3>1, <3>2, <3>3
  <2>6. liveBar' = liveBar
    BY <1>0, <2>2, <2>4, <2>5 DEF Bars, Pointers
  <2>7. replyBar' = Abstract!Answer("borrow_mut", key, TRUE, state[key])
    BY <2>0 DEF replyBar, Answer, Abstract!Answer
  <2> QED
    BY <2>0, <2>2, <2>3, <2>6, <2>7 DEF Abstract!BorrowMut
<1> QED
  BY <1>1, <1>2

\* A guard that is dropped gives its key back; one that is forgotten does not.
LEMMA GuardMaps ==
  ASSUME IInv, IInv', NEW g \in guards, TrackedDrop(g) \/ ForgetGuard(g)
  PROVE  \E k \in Pointers : Abstract!ReturnMut(k) \/ Abstract!Forget(k)
<1>0. Bars /\ Bars'
  BY BarValues, PTL
<1>1. g \in Out /\ g.key \in Pointers /\ g.key \in borrowedBar /\ liveBar[g.key] = g.val
  BY <1>0 DEF Out, Bars, borrowedBar, Guarded
<1>2. CASE TrackedDrop(g)
  <2>0. /\ state' = With(state, g.key, g.val) /\ guards' = guards \ {g}
        /\ reply' = NoReply /\ UNCHANGED <<forgotten, held>>
    BY <1>2 DEF TrackedDrop, ReturnMut
  <2>1. /\ g.key \in DOMAIN state /\ g.val \in Box /\ g.val # None
        /\ g \notin forgotten
        /\ \A h \in Out : h.key = g.key => h = g
    BY <1>1, RawAssumption DEF IInv, GuardsPinned, Out, TypeOK, Guard, UniqueOwner
  <2>2. /\ DOMAIN state' = DOMAIN state /\ state'[g.key] = g.val
        /\ \A x \in DOMAIN state \ {g.key} : state'[x] = state[x]
    BY <2>0, <2>1 DEF With
  <2>3. borrowedBar' = borrowedBar \ {g.key}
    <3>1. \A x : Guarded(x)' <=> Guarded(x) /\ x # g.key
      BY <2>0, <2>1 DEF Guarded, Out
    <3> QED
      BY <3>1 DEF borrowedBar, Pointers
  <2>4. ASSUME NEW x \in Pointers PROVE liveBar'[x] = liveBar[x]
    <3>0. CASE x = g.key
      BY <1>0, <1>1, <2>1, <2>2, <3>0 DEF Bars
    <3>1. CASE x \notin DOMAIN state
      BY <1>0, <2>2, <3>1 DEF Bars, Pointers
    <3>2. CASE x # g.key /\ x \in DOMAIN state /\ state[x] # None
      BY <1>0, <2>2, <3>2 DEF Bars
    <3>3. CASE x # g.key /\ x \in DOMAIN state /\ state[x] = None
      <4>1. PICK h \in Out : h.key = x
        BY <1>0, <3>3 DEF Bars
      <4>2. h \in Out'
        BY <2>0, <3>3, <4>1 DEF Out
      <4> QED
        BY <1>0, <4>1, <4>2 DEF Bars
    <3> QED
      BY <3>0, <3>1, <3>2, <3>3
  <2>5. liveBar' = liveBar
    BY <1>0, <2>4 DEF Bars, Pointers
  <2>6. replyBar' = Abstract!NoReply
    BY <2>0 DEF replyBar, NoReply, Abstract!NoReply
  <2> QED
    BY <1>1, <2>0, <2>3, <2>5, <2>6 DEF Abstract!ReturnMut
<1>3. CASE ForgetGuard(g)
  <2>0. guards' \cup forgotten' = guards \cup forgotten /\ state' = state
        /\ reply' = NoReply /\ held' = held
    BY <1>3 DEF ForgetGuard
  <2>1. liveBar' = liveBar /\ borrowedBar' = borrowedBar
    BY <2>0 DEF liveBar, borrowedBar, Resolves, Guarded
  <2>2. replyBar' = Abstract!NoReply
    BY <2>0 DEF replyBar, NoReply, Abstract!NoReply
  <2> QED
    BY <1>1, <2>0, <2>1, <2>2 DEF Abstract!Forget
<1> QED
  BY <1>2, <1>3

\* Every step of RawTracker is a step of Tracker, or changes none of its variables.
LEMMA StepMaps == IInv /\ IInv' /\ [Next]_vars => [Abstract!Next]_(Abstract!vars)
<1> SUFFICES ASSUME IInv, IInv', [Next]_vars PROVE [Abstract!Next]_(Abstract!vars)
  OBVIOUS
<1>1. CASE UNCHANGED vars
  BY <1>1 DEF vars, Abstract!vars, liveBar, borrowedBar, replyBar, Resolves, Guarded
<1>2. CASE \E b \in Box : NewBox(b) \/ DropBox(b) \/ Register(b)
  BY <1>2, CallerMaps, RegisterMaps DEF Abstract!Next
<1>3. CASE \E key \in Pointers : Reclaim(key) \/ BorrowMut(key)
  BY <1>3, ReclaimMaps, BorrowMutMaps DEF Abstract!Next
<1>4. CASE \E g \in guards : TrackedDrop(g) \/ ForgetGuard(g)
  BY <1>4, GuardMaps DEF Abstract!Next
<1> QED
  BY <1>1, <1>2, <1>3, <1>4 DEF Next

\* RawTracker implements what trait Tracker promises, its keys recurring.
THEOREM Refinement == Spec => ImplementsTracker
<1>1. Init => Abstract!Init
  <2> SUFFICES ASSUME Init PROVE Abstract!Init
    OBVIOUS
  <2>1. DOMAIN state = {} /\ guards = {} /\ forgotten = {}
    BY DEF Init
  <2>2. liveBar = [key \in Pointers |-> None] /\ borrowedBar = {}
    BY <2>1 DEF liveBar, borrowedBar, Resolves, Guarded
  <2>3. replyBar = Abstract!NoReply
    BY DEF Init, replyBar, NoReply, Abstract!NoReply
  <2> QED
    BY <2>2, <2>3 DEF Init, Abstract!Init
<1> QED
  BY <1>1, StepMaps, Invariance, PTL DEF Spec, ImplementsTracker, Abstract!Spec
=============================================================================
