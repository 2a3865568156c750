---------------------------- MODULE OpaqueTracker ---------------------------
(***************************************************************************)
(* OpaqueTracker<T> (src/src/opaque.rs) with the guards it hands out       *)
(* (Tracked, src/src/tracker.rs).  Each method runs from lock() to the     *)
(* release of the same mutex, so each is one action; what runs outside the *)
(* lock (building the guard, the caller's own code between two calls)      *)
(* touches only values no other thread can reach.  Threads appear as the   *)
(* interleaving of calls, with any number of guards alive at once.         *)
(*                                                                         *)
(* C may pass any word as a handle: a stale one, one never issued, null.   *)
(***************************************************************************)
EXTENDS Handle, Sequences, FiniteSets

CONSTANTS
  Box,          \* the objects: each Box<T> of the program is one of them
  None          \* Option::None

ASSUME NoneAssumption == None \notin Box /\ None \notin Usize

VARIABLES
  entries,      \* state.entries: slot i is entries[i + 1]
  free_indices, \* state.free_indices, front first
  guards,       \* the Tracked guards alive, each with its key and its object
  forgotten,    \* the guards that mem::forget leaked
  held,         \* the objects the Rust caller owns as a Box
  issued,       \* history: the object registered under each handle given out
  reply         \* what the last call on the tracker answered

vars == <<entries, free_indices, guards, forgotten, held, issued, reply>>

Entry == [value : Box \cup {None}, generation : 1 .. MAX_GENERATION]
Guard == [key : Usize, val : Box]
Slots == 0 .. (Len(entries) - 1)
Slot(i) == entries[i + 1]

NoReply == [op |-> "none", key |-> None, res |-> "Ok", box |-> None]
Answer(op, key, res, box) == [op |-> op, key |-> key, res |-> res, box |-> box]

Init ==
  /\ entries = <<>>
  /\ free_indices = <<>>
  /\ guards = {}
  /\ forgotten = {}
  /\ held = {}
  /\ issued = [k \in Usize |-> None]
  /\ reply = NoReply

InSlots == {Slot(i).value : i \in Slots} \ {None}
InGuards == {g.val : g \in guards \cup forgotten}

(***************************************************************************)
(* The caller: Box::new, and the drop of a Box it owns.                    *)
(***************************************************************************)
NewBox(b) ==
  /\ b \notin held \cup InSlots \cup InGuards
  /\ held' = held \cup {b}
  /\ reply' = NoReply
  /\ UNCHANGED <<entries, free_indices, guards, forgotten, issued>>

DropBox(b) ==
  /\ b \in held
  /\ held' = held \ {b}
  /\ reply' = NoReply
  /\ UNCHANGED <<entries, free_indices, guards, forgotten, issued>>

(***************************************************************************)
(* register: the slot freed first is used again, else one is added.        *)
(***************************************************************************)
Registered(b, handle) ==
  /\ held' = held \ {b}
  /\ issued' = [issued EXCEPT ![handle] = b]
  /\ reply' = Answer("register", handle, "Ok", b)
  /\ UNCHANGED <<guards, forgotten>>

RegisterReuse(b) ==
  /\ b \in held
  /\ free_indices # <<>>
  /\ LET index == Head(free_indices)
     IN  /\ free_indices' = Tail(free_indices)
         /\ entries' = [entries EXCEPT ![index + 1].value = b]
         /\ Registered(b, New(index, Slot(index).generation))

\* Wrong on purpose: adds one slot too many.
RegisterPushOverflow(b) ==
  /\ b \in held
  /\ free_indices = <<>>
  /\ Len(entries) <= MAX_INDEX + 1
  /\ entries' = Append(entries, [value |-> b, generation |-> 1])
  /\ Registered(b, New(Len(entries), 1))
  /\ UNCHANGED free_indices

RegisterPush(b) ==
  /\ b \in held
  /\ free_indices = <<>>
  /\ Len(entries) <= MAX_INDEX
  /\ entries' = Append(entries, [value |-> b, generation |-> 1])
  /\ Registered(b, New(Len(entries), 1))
  /\ UNCHANGED free_indices

\* Wrong on purpose: gives up one slot too early.
RegisterFullEarly(b) ==
  /\ b \in held
  /\ free_indices = <<>>
  /\ Len(entries) >= MAX_INDEX
  /\ held' = held \ {b}
  /\ reply' = Answer("register", None, "CapacityExceeded", None)
  /\ UNCHANGED <<entries, free_indices, guards, forgotten, issued>>

\* The error path drops the object it was given.
RegisterFull(b) ==
  /\ b \in held
  /\ free_indices = <<>>
  /\ Len(entries) > MAX_INDEX
  /\ held' = held \ {b}
  /\ reply' = Answer("register", None, "CapacityExceeded", None)
  /\ UNCHANGED <<entries, free_indices, guards, forgotten, issued>>

Register(b) == RegisterReuse(b) \/ RegisterPush(b) \/ RegisterFull(b)

(***************************************************************************)
(* The checks reclaim and borrow_mut share, in the order of the code.      *)
(***************************************************************************)
\* Wrong on purpose: forgets to compare the generations.
CurrentAnyGeneration(key) == Index(key) \in Slots

Current(key) == Index(key) \in Slots /\ Slot(Index(key)).generation = Generation(key)
Resolves(key) == Current(key) /\ Slot(Index(key)).value # None

\* Wrong on purpose: looks at the value before the generation.
RefusalValueFirst(key) ==
  IF Index(key) \in Slots /\ Slot(Index(key)).value = None
    THEN "AlreadyBorrowedMutably" ELSE "NotFound"

Refusal(key) == IF Current(key) THEN "AlreadyBorrowedMutably" ELSE "NotFound"

Refuse(op, key) ==
  /\ ~Resolves(key)
  /\ reply' = Answer(op, key, Refusal(key), None)
  /\ UNCHANGED <<entries, free_indices, guards, forgotten, held, issued>>

\* What reclaim hands out, and the slot it leaves behind.
Reclaimed(key, generation) ==
  LET index == Index(key)
  IN  /\ Resolves(key)
      /\ held' = held \cup {Slot(index).value}
      /\ reply' = Answer("reclaim", key, "Ok", Slot(index).value)
      /\ entries' = [entries EXCEPT ![index + 1] =
                       [value |-> None, generation |-> generation]]
      /\ UNCHANGED <<guards, forgotten, issued>>

\* Wrong on purpose: moves to the next generation before it has looked for
\* the object.
ReclaimAdvanceFirst(key) ==
  \/ /\ ~Current(key)
     /\ Refuse("reclaim", key)
  \/ /\ Current(key) /\ ~Resolves(key) /\ Generation(key) < MAX_GENERATION
     /\ entries' = [entries EXCEPT ![Index(key) + 1].generation = @ + 1]
     /\ reply' = Answer("reclaim", key, Refusal(key), None)
     /\ UNCHANGED <<free_indices, guards, forgotten, held, issued>>
  \/ /\ Reclaimed(key, IF Generation(key) < MAX_GENERATION
                         THEN Generation(key) + 1 ELSE MAX_GENERATION)
     /\ free_indices' = IF Generation(key) < MAX_GENERATION
                          THEN Append(free_indices, Index(key)) ELSE free_indices

\* Wrong on purpose: the slot is free again at its old generation.
ReclaimSameGeneration(key) ==
  \/ Refuse("reclaim", key)
  \/ /\ Reclaimed(key, Generation(key))
     /\ free_indices' = Append(free_indices, Index(key))

\* Wrong on purpose: a slot out of generations is put on the free list.
ReclaimNeverRetires(key) ==
  \/ Refuse("reclaim", key)
  \/ /\ Reclaimed(key, IF Generation(key) < MAX_GENERATION
                         THEN Generation(key) + 1 ELSE MAX_GENERATION)
     /\ free_indices' = Append(free_indices, Index(key))

\* Wrong on purpose: retires a slot one generation early.
ReclaimRetiresEarly(key) ==
  \/ Refuse("reclaim", key)
  \/ /\ Generation(key) + 1 < MAX_GENERATION
     /\ Reclaimed(key, Generation(key) + 1)
     /\ free_indices' = Append(free_indices, Index(key))
  \/ /\ Generation(key) + 1 >= MAX_GENERATION
     /\ Reclaimed(key, Generation(key))
     /\ UNCHANGED free_indices

\* reclaim takes the object out; the slot moves to its next generation, or is
\* retired when it has none left.
Reclaim(key) ==
  \/ Refuse("reclaim", key)
  \/ /\ Generation(key) < MAX_GENERATION
     /\ Reclaimed(key, Generation(key) + 1)
     /\ free_indices' = Append(free_indices, Index(key))
  \/ /\ Generation(key) >= MAX_GENERATION
     /\ Reclaimed(key, Generation(key))
     /\ UNCHANGED free_indices

\* Wrong on purpose: the slot keeps the object it lends.
BorrowMutCopy(key) ==
  \/ Refuse("borrow_mut", key)
  \/ /\ Resolves(key)
     /\ LET val == Slot(Index(key)).value
        IN  /\ guards' = guards \cup {[key |-> key, val |-> val]}
            /\ reply' = Answer("borrow_mut", key, "Ok", val)
     /\ UNCHANGED <<entries, free_indices, forgotten, held, issued>>

BorrowMut(key) ==
  \/ Refuse("borrow_mut", key)
  \/ /\ Resolves(key)
     /\ LET val == Slot(Index(key)).value
        IN  /\ entries' = [entries EXCEPT ![Index(key) + 1].value = None]
            /\ guards' = guards \cup {[key |-> key, val |-> val]}
            /\ reply' = Answer("borrow_mut", key, "Ok", val)
     /\ UNCHANGED <<free_indices, forgotten, held, issued>>

(***************************************************************************)
(* The end of a guard: Tracked::drop calls return_mut.  The expect and the *)
(* debug_assert_eq of return_mut never fail: see GuardsPinned.             *)
(***************************************************************************)
\* Wrong on purpose: the object goes nowhere.
ReturnMutLost(key, val) == UNCHANGED entries

ReturnMut(key, val) == entries' = [entries EXCEPT ![Index(key) + 1].value = val]

TrackedDrop(g) ==
  /\ g \in guards
  /\ guards' = guards \ {g}
  /\ ReturnMut(g.key, g.val)
  /\ reply' = NoReply
  /\ UNCHANGED <<free_indices, forgotten, held, issued>>

ForgetGuard(g) ==
  /\ g \in guards
  /\ guards' = guards \ {g}
  /\ forgotten' = forgotten \cup {g}
  /\ reply' = NoReply
  /\ UNCHANGED <<entries, free_indices, held, issued>>

Next ==
  \/ \E b \in Box : NewBox(b) \/ DropBox(b) \/ Register(b)
  \/ \E key \in Usize : Reclaim(key) \/ BorrowMut(key)
  \/ \E g \in guards : TrackedDrop(g) \/ ForgetGuard(g)

Spec == Init /\ [][Next]_vars
-----------------------------------------------------------------------------
(***************************************************************************)
(* Properties.                                                             *)
(***************************************************************************)
Ops == {"none", "register", "reclaim", "borrow_mut"}
Results == {"Ok", "NotFound", "AlreadyBorrowedMutably", "CapacityExceeded"}

\* The types of the state.
TypeOK ==
  /\ entries \in Seq(Entry)
  /\ Len(entries) <= MAX_INDEX + 1
  /\ free_indices \in Seq(0 .. MAX_INDEX)
  /\ guards \in SUBSET Guard
  /\ forgotten \in SUBSET Guard
  /\ held \in SUBSET Box
  /\ issued \in [Usize -> Box \cup {None}]
  /\ reply \in [op : Ops, key : Usize \cup {None}, res : Results, box : Box \cup {None}]

Guarded(key) == \E g \in guards \cup forgotten : g.key = key

\* A handle is live from register to the reclaim of its object.
Live(key) == Resolves(key) \/ Guarded(key)

FreeSlots == {free_indices[n] : n \in DOMAIN free_indices}
Retired(i) == /\ Slot(i).value = None
              /\ i \notin FreeSlots
              /\ \A g \in guards \cup forgotten : Index(g.key) # i

\* Every object has one owner: one slot, one guard, or the caller.  A second
\* owner would be a Box freed twice and two &mut to one object; it would come
\* of a take() that leaves the value, or of a handle that resolves too late.
UniqueOwner ==
  /\ \A i, j \in Slots : Slot(i).value # None /\ Slot(i).value = Slot(j).value => i = j
  /\ \A g, h \in guards \cup forgotten : g.val = h.val => g = h
  /\ guards \cap forgotten = {}
  /\ InSlots \cap InGuards = {}
  /\ held \cap (InSlots \cup InGuards) = {}

\* return_mut finds the slot it took its object from: the index is in bounds
\* (its expect), the generation is the guard's (its debug_assert_eq), and the
\* slot is vacant, so that the assignment drops nothing; and no two guards
\* have the same slot.  The slot may neither move on nor be given to another
\* object while a guard, even a forgotten one, has its object.
GuardsPinned ==
  /\ \A g \in guards \cup forgotten :
       /\ Index(g.key) \in Slots
       /\ Slot(Index(g.key)).generation = Generation(g.key)
       /\ Slot(Index(g.key)).value = None
  /\ \A g, h \in guards \cup forgotten : Index(g.key) = Index(h.key) => g = h

\* An index in free_indices is there once, names a slot that exists, is vacant
\* and has no guard, and the slot's generation was never given out: register
\* takes it unchecked, overwrites the slot and returns the handle.
FreeListSound ==
  /\ \A m, n \in DOMAIN free_indices : free_indices[m] = free_indices[n] => m = n
  /\ \A i \in FreeSlots :
       /\ i \in Slots
       /\ Slot(i).value = None
       /\ \A g \in guards \cup forgotten : Index(g.key) # i
       /\ issued[New(i, Slot(i).generation)] = None

\* No slot is lost: one that is vacant, not free and not out with a guard has
\* used its last generation, and that handle was given out.
NoSlotLost ==
  \A i \in Slots : Retired(i) =>
    /\ Slot(i).generation = MAX_GENERATION
    /\ issued[New(i, MAX_GENERATION)] # None

\* No handle is given out twice, null never: a stale handle in C's hands can
\* never come to name another object, however often its slot is used again.
HandlesNeverReissued ==
  [][\A b \in Box : Register(b) /\ reply'.res = "Ok"
       => reply'.key # Null /\ issued[reply'.key] = None]_vars

\* A handle whose object was reclaimed never resolves again.
DeadStaysDead ==
  [][\A key \in Usize : issued[key] # None /\ ~Live(key) => ~Live(key)']_vars

\* The kind of each error is right: NotFound is never said of a live handle,
\* nor AlreadyBorrowedMutably of a live handle no guard has; and when it is
\* said of a dead handle, no slot can be reached by it any more or yet: the
\* slot is retired or its generation was not given out.
ErrorKind ==
  /\ reply.res = "NotFound" => ~Live(reply.key)
  /\ reply.res = "AlreadyBorrowedMutably" =>
       \/ Guarded(reply.key)
       \/ Retired(Index(reply.key))
       \/ issued[reply.key] = None

\* register fails only when each of the MAX_INDEX + 1 slots is occupied, out
\* with a guard, or retired: none could have taken the object.
CapacityExceededOnlyAtCapacity ==
  [][\A b \in Box : Register(b) /\ reply'.res = "CapacityExceeded"
       => \A i \in 0 .. MAX_INDEX :
            \/ \E generation \in 1 .. MAX_GENERATION : Live(New(i, generation))
            \/ issued[New(i, MAX_GENERATION)] # None]_vars

-----------------------------------------------------------------------------
(***************************************************************************)
(* The tracker implements its abstract specification.                      *)
(***************************************************************************)
liveBar == [key \in Usize |-> IF Live(key) THEN issued[key] ELSE None]
borrowedBar == {key \in Usize : Guarded(key)}
usedBar == {key \in Usize : issued[key] # None}
replyBar == [op |-> reply.op, key |-> reply.key,
             ok |-> reply.op # "none" /\ reply.res = "Ok", box |-> reply.box]

Abstract == INSTANCE Tracker
  WITH Key <- Usize, KeysRecur <- FALSE, live <- liveBar, borrowed <- borrowedBar,
       used <- usedBar, reply <- replyBar

\* Seen through Tracked and Handle, the slots behave as a map from keys to
\* objects: a call succeeds exactly when its handle is live and not borrowed.
ImplementsTracker == Abstract!Spec

-----------------------------------------------------------------------------
(***************************************************************************)
(* Claims of the repository that the code does not keep.                   *)
(***************************************************************************)

\* test_stale_handle (opaque.rs:226) asserts NotFound for a handle whose
\* object was reclaimed.
StaleHandleNotFound ==
  reply.op \in {"reclaim", "borrow_mut"} /\ reply.res # "Ok"
    /\ issued[reply.key] # None /\ ~Live(reply.key)
    => reply.res = "NotFound"

\* SKILL.md (line 175) says that register fails with CapacityExceeded only
\* when the number of live objects fills the index space.
CapacityExceededOnlyWhenFull ==
  reply.res = "CapacityExceeded"
    => Cardinality({key \in Usize : Live(key)}) = MAX_INDEX + 1
=============================================================================
