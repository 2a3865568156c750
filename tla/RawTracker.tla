----------------------------- MODULE RawTracker -----------------------------
(***************************************************************************)
(* RawTracker<T> (src/src/raw.rs): the key of an object is the address of  *)
(* its Box, so a key recurs when the allocator gives the address out again *)
(* (the ABA its doc warns of).  As in OpaqueTracker each method is one     *)
(* action under the mutex, and C may pass any pointer.                     *)
(***************************************************************************)
EXTENDS FiniteSets

CONSTANTS
  Box,          \* the objects: each Box<T> of the program is one of them
  Addr,         \* the addresses the allocator can place an object at
  Null,         \* a pointer C can pass that is no object's address
  None          \* Option::None

ASSUME RawAssumption ==
  /\ None \notin Box /\ None \notin Addr /\ Null \notin Addr /\ Null # None

VARIABLES
  zero_sized,   \* whether T has size 0, so that every Box<T> is at one address
  state,        \* state.lock(): the value of the entry under each address that has one
  at,           \* the address of each object that exists
  guards,       \* the Tracked guards alive, each with its key and its object
  forgotten,    \* the guards that mem::forget leaked
  held,         \* the objects the Rust caller owns as a Box
  reply         \* what the last call on the tracker answered

vars == <<zero_sized, state, at, guards, forgotten, held, reply>>

Pointers == Addr \cup {Null}
Guard == [key : Addr, val : Box]

NoReply == [op |-> "none", key |-> None, res |-> "Ok", box |-> None]
Answer(op, key, res, box) == [op |-> op, key |-> key, res |-> res, box |-> box]

Init ==
  /\ zero_sized \in BOOLEAN
  /\ state = [a \in {} |-> None]
  /\ at = [b \in Box |-> None]
  /\ guards = {}
  /\ forgotten = {}
  /\ held = {}
  /\ reply = NoReply

\* A map with one key more, or set, and with one key less.
With(map, a, v) == [x \in DOMAIN map \cup {a} |-> IF x = a THEN v ELSE map[x]]
Without(map, a) == [x \in DOMAIN map \ {a} |-> map[x]]

(***************************************************************************)
(* The caller and its allocator: a new object goes where none is, unless   *)
(* it has no size.                                                         *)
(***************************************************************************)
Vacant(a) == \A b \in Box : at[b] # a
Dangling == CHOOSE a \in Addr : TRUE

NewBox(b) ==
  /\ at[b] = None
  /\ \E a \in Addr :
       /\ IF zero_sized THEN a = Dangling ELSE Vacant(a)
       /\ at' = [at EXCEPT ![b] = a]
  /\ held' = held \cup {b}
  /\ reply' = NoReply
  /\ UNCHANGED <<zero_sized, state, guards, forgotten>>

DropBox(b) ==
  /\ b \in held
  /\ held' = held \ {b}
  /\ at' = [at EXCEPT ![b] = None]
  /\ reply' = NoReply
  /\ UNCHANGED <<zero_sized, state, guards, forgotten>>

(***************************************************************************)
(* register: the object is entered under its address, or dropped when the  *)
(* address has an entry.                                                   *)
(***************************************************************************)
\* Wrong on purpose: inserts without looking, and drops what was there.
RegisterOverwrite(b) ==
  /\ b \in held
  /\ held' = held \ {b}
  /\ state' = With(state, at[b], b)
  /\ reply' = Answer("register", at[b], "Ok", b)
  /\ UNCHANGED <<zero_sized, at, guards, forgotten>>

Register(b) ==
  /\ b \in held
  /\ held' = held \ {b}
  /\ \/ /\ at[b] \in DOMAIN state
        /\ reply' = Answer("register", None, "CapacityExceeded", None)
        /\ at' = [at EXCEPT ![b] = None]
        /\ UNCHANGED state
     \/ /\ at[b] \notin DOMAIN state
        /\ state' = With(state, at[b], b)
        /\ reply' = Answer("register", at[b], "Ok", b)
        /\ UNCHANGED at
  /\ UNCHANGED <<zero_sized, guards, forgotten>>

(***************************************************************************)
(* The checks reclaim and borrow_mut share, in the order of the code.      *)
(***************************************************************************)
Resolves(key) == key \in DOMAIN state /\ state[key] # None

\* Wrong on purpose: the two errors are taken for one another.
RefusalSwapped(key) == IF key \in DOMAIN state THEN "NotFound" ELSE "AlreadyBorrowedMutably"

Refusal(key) == IF key \in DOMAIN state THEN "AlreadyBorrowedMutably" ELSE "NotFound"

Refuse(op, key) ==
  /\ ~Resolves(key)
  /\ reply' = Answer(op, key, Refusal(key), None)
  /\ UNCHANGED <<zero_sized, state, at, guards, forgotten, held>>

\* Wrong on purpose: the entry is removed before its value is looked at.
ReclaimRemoveFirst(key) ==
  \/ /\ key \notin DOMAIN state
     /\ Refuse("reclaim", key)
  \/ /\ key \in DOMAIN state
     /\ state' = Without(state, key)
     /\ held' = held \cup ({state[key]} \ {None})
     /\ reply' = Answer("reclaim", key,
                        IF state[key] = None THEN Refusal(key) ELSE "Ok", state[key])
     /\ UNCHANGED <<zero_sized, at, guards, forgotten>>

\* Wrong on purpose: hands out what the entry has without looking.
ReclaimUnchecked(key) ==
  \/ /\ key \notin DOMAIN state
     /\ Refuse("reclaim", key)
  \/ /\ key \in DOMAIN state
     /\ state' = Without(state, key)
     /\ held' = held \cup {state[key]}
     /\ reply' = Answer("reclaim", key, "Ok", state[key])
     /\ UNCHANGED <<zero_sized, at, guards, forgotten>>

\* Wrong on purpose: the entry stays, without its value.
ReclaimKeepsEntry(key) ==
  \/ Refuse("reclaim", key)
  \/ /\ Resolves(key)
     /\ state' = With(state, key, None)
     /\ held' = held \cup {state[key]}
     /\ reply' = Answer("reclaim", key, "Ok", state[key])
     /\ UNCHANGED <<zero_sized, at, guards, forgotten>>

Reclaim(key) ==
  \/ Refuse("reclaim", key)
  \/ /\ Resolves(key)
     /\ state' = Without(state, key)
     /\ held' = held \cup {state[key]}
     /\ reply' = Answer("reclaim", key, "Ok", state[key])
     /\ UNCHANGED <<zero_sized, at, guards, forgotten>>

\* Wrong on purpose: the entry keeps the object it lends.
BorrowMutCopy(key) ==
  \/ Refuse("borrow_mut", key)
  \/ /\ Resolves(key)
     /\ guards' = guards \cup {[key |-> key, val |-> state[key]]}
     /\ reply' = Answer("borrow_mut", key, "Ok", state[key])
     /\ UNCHANGED <<zero_sized, state, at, forgotten, held>>

BorrowMut(key) ==
  \/ Refuse("borrow_mut", key)
  \/ /\ Resolves(key)
     /\ state' = With(state, key, None)
     /\ guards' = guards \cup {[key |-> key, val |-> state[key]]}
     /\ reply' = Answer("borrow_mut", key, "Ok", state[key])
     /\ UNCHANGED <<zero_sized, at, forgotten, held>>

\* Wrong on purpose: the object goes nowhere.
ReturnMutLost(key, val) == UNCHANGED state

\* return_mut, from Tracked::drop.  Its expect never fails: see GuardsPinned.
ReturnMut(key, val) == state' = With(state, key, val)

TrackedDrop(g) ==
  /\ g \in guards
  /\ guards' = guards \ {g}
  /\ ReturnMut(g.key, g.val)
  /\ reply' = NoReply
  /\ UNCHANGED <<zero_sized, at, forgotten, held>>

ForgetGuard(g) ==
  /\ g \in guards
  /\ guards' = guards \ {g}
  /\ forgotten' = forgotten \cup {g}
  /\ reply' = NoReply
  /\ UNCHANGED <<zero_sized, state, at, held>>

Next ==
  \/ \E b \in Box : NewBox(b) \/ DropBox(b) \/ Register(b)
  \/ \E key \in Pointers : Reclaim(key) \/ BorrowMut(key)
  \/ \E g \in guards : TrackedDrop(g) \/ ForgetGuard(g)

Spec == Init /\ [][Next]_vars

-----------------------------------------------------------------------------
(***************************************************************************)
(* Properties.                                                             *)
(***************************************************************************)
Ops == {"none", "register", "reclaim", "borrow_mut"}
Results == {"Ok", "NotFound", "AlreadyBorrowedMutably", "CapacityExceeded"}

\* The types of the state; only an object that exists has an address.
TypeOK ==
  /\ zero_sized \in BOOLEAN
  /\ DOMAIN state \in SUBSET Addr
  /\ state \in [DOMAIN state -> Box \cup {None}]
  /\ at \in [Box -> Addr \cup {None}]
  /\ guards \in SUBSET Guard
  /\ forgotten \in SUBSET Guard
  /\ held \in SUBSET Box
  /\ reply \in [op : Ops, key : Pointers \cup {None}, res : Results, box : Box \cup {None}]

InEntries == {state[a] : a \in DOMAIN state} \ {None}
InGuards == {g.val : g \in guards \cup forgotten}
Guarded(key) == \E g \in guards \cup forgotten : g.key = key

\* Every object that exists has exactly one owner: an entry, a guard or the
\* caller.  A second owner would free it twice; none would leak it.
UniqueOwner ==
  /\ \A a, c \in DOMAIN state : state[a] # None /\ state[a] = state[c] => a = c
  /\ \A g, h \in guards \cup forgotten : g.val = h.val => g = h
  /\ guards \cap forgotten = {}
  /\ InEntries \cap InGuards = {}
  /\ held \cap (InEntries \cup InGuards) = {}
  /\ {b \in Box : at[b] # None} = held \cup InEntries \cup InGuards

\* The object under a key, in the tracker or with its guard, is the one at
\* that address: the pointer C has is the pointer Rust would use.
KeyIsAddress ==
  /\ \A a \in DOMAIN state : state[a] # None => at[state[a]] = a
  /\ \A g \in guards \cup forgotten : at[g.val] = g.key

\* return_mut finds its entry (its expect), finds it vacant, and no other
\* guard has it; an entry is vacant only while a guard, alive or forgotten,
\* has its object.
GuardsPinned ==
  /\ \A a \in DOMAIN state : state[a] = None <=> Guarded(a)
  /\ \A g \in guards \cup forgotten : g.key \in DOMAIN state
  /\ \A g, h \in guards \cup forgotten : g.key = h.key => g = h

\* register fails for zero-sized types only: an object with a size has its
\* address to itself for as long as the tracker or a guard has it.
CapacityExceededOnlyZeroSized == reply.res = "CapacityExceeded" => zero_sized

\* The kind of each error is exact: NotFound for a key with no object,
\* AlreadyBorrowedMutably for a key whose object is with a guard.
ErrorKind ==
  /\ reply.res = "NotFound" => ~Resolves(reply.key) /\ ~Guarded(reply.key)
  /\ reply.res = "AlreadyBorrowedMutably" => Guarded(reply.key)

-----------------------------------------------------------------------------
(***************************************************************************)
(* The tracker implements its abstract specification, keys recurring.      *)
(***************************************************************************)
liveBar ==
  [key \in Pointers |->
     IF Resolves(key) THEN state[key]
     ELSE IF Guarded(key) THEN (CHOOSE g \in guards \cup forgotten : g.key = key).val
     ELSE None]
borrowedBar == {key \in Pointers : Guarded(key)}
replyBar == [op |-> reply.op, key |-> reply.key,
             ok |-> reply.op # "none" /\ reply.res = "Ok", box |-> reply.box]

Abstract == INSTANCE Tracker
  WITH Key <- Pointers, KeysRecur <- TRUE, live <- liveBar, borrowed <- borrowedBar,
       used <- {}, reply <- replyBar

\* Seen through Tracked and pointers, the map of entries behaves as a map from
\* keys to objects: a call succeeds exactly when its key is live and not borrowed.
ImplementsTracker == Abstract!Spec
=============================================================================
