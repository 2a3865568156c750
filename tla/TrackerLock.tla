----------------------------- MODULE TrackerLock ----------------------------
(***************************************************************************)
(* The mutex of an OpaqueTracker (src/src/opaque.rs), statement by         *)
(* statement, under threads that call the entry points of                  *)
(* src/examples/opaque_tracker/opaque_tracker.rs.                          *)
(*                                                                         *)
(* OpaqueTracker has each method as one action; here a method locks, runs, *)
(* may call the application's logger with the mutex held, and unlocks.     *)
(* A panic unwinds: the MutexGuard poisons the mutex, a Tracked guard      *)
(* gives its object back, and the extern "C" boundary aborts the process,  *)
(* unless the body is wrapped in catch_unwind.                             *)
(***************************************************************************)
EXTENDS Handle, Sequences

CONSTANTS
  Thread,       \* the threads of C code
  Box,          \* the counters: each Box<Counter> of the program is one of them
  None,         \* Option::None, no thread, no call
  LoggerMay,    \* what the logger may do besides returning: "panic", "reenter"
  Boundary      \* what becomes of a panic at extern "C": "abort", "catch"

\* Between lock and unlock.
Holding == {"locked", "slot", "taken", "advanced", "log", "self"}

\* A call: the method, the statement it is at, and its locals.
Call == [op : {"register", "reclaim", "borrow_mut", "user", "return_mut"},
         at : {"lock", "drop", "use"} \cup Holding,
         key : Usize \cup {None}, box : Box \cup {None}, unwinding : BOOLEAN]

ASSUME TrackerLockAssumption ==
  /\ None \notin Thread \cup Box \cup Usize \cup Call
  /\ LoggerMay \subseteq {"panic", "reenter"}
  /\ Boundary \subseteq {"abort", "catch"} /\ Boundary # {}

VARIABLES
  state,        \* what the mutex guards: entries and free_indices
  mutex,        \* the thread that has it, and the poison flag
  call,         \* the call each thread is in, None outside of the API
  aborted,      \* the process is gone
  committed,    \* history: state as the last thread to unlock left it
  issued,       \* history: the handles given out
  lost          \* history: the objects a failed return_mut dropped, with their keys

vars == <<state, mutex, call, aborted, committed, issued, lost>>

Init ==
  /\ state = [entries |-> <<>>, free_indices |-> <<>>]
  /\ committed = state
  /\ mutex = [owner |-> None, poisoned |-> FALSE]
  /\ call = [t \in Thread |-> None]
  /\ aborted = FALSE
  /\ issued = {}
  /\ lost = {}

Slots == 0 .. (Len(state.entries) - 1)
Slot(i) == state.entries[i + 1]
Current(key) == Index(key) \in Slots /\ Slot(Index(key)).generation = Generation(key)
Resolves(key) == Current(key) /\ Slot(Index(key)).value # None

InCall(t) == call[t] # None
At(t, op, at) == InCall(t) /\ call[t].op = op /\ call[t].at = at

(***************************************************************************)
(* What the frames of the calls own: a Tracked guard, or a box.            *)
(***************************************************************************)
HasGuard(t) == InCall(t) /\ call[t].op \in {"user", "return_mut"}
HasBox(t) == InCall(t) /\ (call[t].op = "register" \/ call[t].at \in {"taken", "advanced", "drop"})
GuardOf(t) == [key |-> call[t].key, val |-> call[t].box]
Guards == {GuardOf(t) : t \in {u \in Thread : HasGuard(u)}}
InSlots(st) == {st.entries[i].value : i \in DOMAIN st.entries} \ {None}
InFrames == {call[t].box : t \in {u \in Thread : HasGuard(u) \/ HasBox(u)}}
InLost == {g.val : g \in lost}

(***************************************************************************)
(* C calls new_counter, free_counter or increase_counter.                  *)
(***************************************************************************)
Enter(t, op, key, box) ==
  /\ ~InCall(t)
  /\ call' = [call EXCEPT ![t] = [op |-> op, at |-> "lock", key |-> key, box |-> box,
                                  unwinding |-> FALSE]]
  /\ UNCHANGED <<state, mutex, aborted, committed, issued, lost>>

\* Box::new(Counter::default()), then register.
NewCounter(t) ==
  \E b \in Box \ (InSlots(state) \cup InFrames \cup InLost) : Enter(t, "register", None, b)

\* The handles C passes: those of an object that is there when it calls (it
\* may be gone, or be another's, when the call has the mutex), and null.
Passed == {key \in Usize : key = Null \/ Current(key)}

FreeCounter(t, key) == Enter(t, "reclaim", key, None)
IncreaseCounter(t, key) == Enter(t, "borrow_mut", key, None)

Goto(t, at) == call' = [call EXCEPT ![t].at = at]
Return(t) == call' = [call EXCEPT ![t] = None]

\* A panic has unwound the frames of the call, and reaches extern "C".
Unwound(t) ==
  /\ Return(t)
  /\ \/ "catch" \in Boundary /\ UNCHANGED aborted
     \/ "abort" \in Boundary /\ aborted' = TRUE

(***************************************************************************)
(* self.state.lock().unwrap(), and the drop of the MutexGuard.             *)
(***************************************************************************)
\* Wrong on purpose: does not wait for the mutex.
LockAnyway(t) ==
  /\ InCall(t) /\ call[t].at = "lock" /\ ~mutex.poisoned
  /\ mutex' = [mutex EXCEPT !.owner = t]
  /\ Goto(t, "locked")
  /\ UNCHANGED <<state, aborted, committed, issued, lost>>

Lock(t) ==
  /\ InCall(t) /\ call[t].at = "lock" /\ mutex.owner = None /\ ~mutex.poisoned
  /\ mutex' = [mutex EXCEPT !.owner = t]
  /\ Goto(t, "locked")
  /\ UNCHANGED <<state, aborted, committed, issued, lost>>

\* lock() gives an Err with the guard in it: unwrap panics, and what the method
\* was given is dropped.  A second panic while one unwinds aborts at once.
LockPoisoned(t) ==
  /\ InCall(t) /\ call[t].at = "lock" /\ mutex.owner = None /\ mutex.poisoned
  /\ \/ /\ call[t].unwinding
        /\ aborted' = TRUE
        /\ UNCHANGED <<call, lost>>
     \/ /\ ~call[t].unwinding
        /\ Unwound(t)
        /\ lost' = lost \cup (IF HasGuard(t) THEN {GuardOf(t)} ELSE {})
  /\ UNCHANGED <<state, mutex, committed, issued>>

\* Other threads see what state' is.
Unlock ==
  /\ mutex' = [mutex EXCEPT !.owner = None]
  /\ committed' = state'

(***************************************************************************)
(* register.                                                               *)
(***************************************************************************)
RegisterSlot(t) ==
  /\ At(t, "register", "locked")
  /\ \/ /\ state.free_indices # <<>>
        /\ state' = [state EXCEPT !.free_indices = Tail(@)]
        /\ call' = [call EXCEPT ![t].at = "slot", ![t].key = Head(state.free_indices)]
     \/ /\ state.free_indices = <<>> /\ Len(state.entries) <= MAX_INDEX
        /\ state' = [state EXCEPT !.entries = Append(@, [value |-> None, generation |-> 1])]
        /\ call' = [call EXCEPT ![t].at = "slot", ![t].key = Len(state.entries)]
     \/ /\ state.free_indices = <<>> /\ Len(state.entries) > MAX_INDEX
        /\ Goto(t, "log")
        /\ UNCHANGED state
  /\ UNCHANGED <<mutex, aborted, committed, issued, lost>>

\* call[t].key is the local `index` until the handle is made of it.
NewHandle(t) == New(call[t].key, Slot(call[t].key).generation)

RegisterStore(t) ==
  /\ At(t, "register", "slot")
  /\ state' = [state EXCEPT !.entries[call[t].key + 1].value = call[t].box]
  /\ issued' = issued \cup {NewHandle(t)}
  /\ Unlock
  /\ Return(t)
  /\ UNCHANGED <<aborted, lost>>

(***************************************************************************)
(* reclaim and borrow_mut.                                                 *)
(***************************************************************************)
Refused(t) ==
  /\ At(t, "reclaim", "locked") \/ At(t, "borrow_mut", "locked")
  /\ ~Resolves(call[t].key)
  /\ Goto(t, "log")
  /\ UNCHANGED <<state, mutex, aborted, committed, issued, lost>>

Value(key) == Slot(Index(key)).value
Take(key) ==
  /\ Resolves(key)
  /\ state' = [state EXCEPT !.entries[Index(key) + 1].value = None]

ReclaimTake(t) ==
  /\ At(t, "reclaim", "locked")
  /\ Take(call[t].key)
  /\ call' = [call EXCEPT ![t].at = "taken", ![t].box = Value(call[t].key)]
  /\ UNCHANGED <<mutex, aborted, committed, issued, lost>>

ReclaimGeneration(t) ==
  /\ At(t, "reclaim", "taken")
  /\ LET index == Index(call[t].key)
     IN  \/ /\ Slot(index).generation < MAX_GENERATION
            /\ state' = [state EXCEPT !.entries[index + 1].generation = @ + 1]
            /\ Goto(t, "advanced")
            /\ UNCHANGED <<mutex, committed>>
         \/ /\ Slot(index).generation >= MAX_GENERATION
            /\ UNCHANGED state
            /\ Unlock
            /\ Goto(t, "drop")
  /\ UNCHANGED <<aborted, issued, lost>>

ReclaimFree(t) ==
  /\ At(t, "reclaim", "advanced")
  /\ state' = [state EXCEPT !.free_indices = Append(@, Index(call[t].key))]
  /\ Unlock
  /\ Goto(t, "drop")
  /\ UNCHANGED <<aborted, issued, lost>>

\* `let _ = TRACKER.reclaim(counter)` drops the box it got.
DropCounter(t) ==
  /\ At(t, "reclaim", "drop")
  /\ Return(t)
  /\ UNCHANGED <<state, mutex, aborted, committed, issued, lost>>

\* Wrong on purpose: the slot keeps the object it lends.
BorrowMutCopy(t) ==
  /\ At(t, "borrow_mut", "locked") /\ Resolves(call[t].key)
  /\ UNCHANGED state
  /\ call' = [call EXCEPT ![t].op = "user", ![t].at = "use", ![t].box = Value(call[t].key)]
  /\ Unlock
  /\ UNCHANGED <<aborted, issued, lost>>

\* The mutex is free again when the caller has its guard.
BorrowMut(t) ==
  /\ At(t, "borrow_mut", "locked")
  /\ Take(call[t].key)
  /\ call' = [call EXCEPT ![t].op = "user", ![t].at = "use", ![t].box = Value(call[t].key)]
  /\ Unlock
  /\ UNCHANGED <<aborted, issued, lost>>

(***************************************************************************)
(* log::error! with the mutex held, on every path that returns an Err.     *)
(***************************************************************************)
Logging(t) == InCall(t) /\ call[t].at = "log"

\* The Err; register drops the box it was given.
LogReturns(t) ==
  /\ Logging(t)
  /\ UNCHANGED state
  /\ Unlock
  /\ Return(t)
  /\ UNCHANGED <<aborted, issued, lost>>

\* Wrong on purpose: the mutex stays locked.
LogPanicsLocked(t) ==
  /\ Logging(t) /\ "panic" \in LoggerMay
  /\ mutex' = [mutex EXCEPT !.poisoned = TRUE]
  /\ Unwound(t)
  /\ UNCHANGED <<state, committed, issued, lost>>

\* The unwinding drops the MutexGuard, which poisons the mutex.
LogPanics(t) ==
  /\ Logging(t) /\ "panic" \in LoggerMay
  /\ mutex' = [owner |-> None, poisoned |-> TRUE]
  /\ UNCHANGED state
  /\ committed' = state'
  /\ Unwound(t)
  /\ UNCHANGED <<issued, lost>>

\* The logger calls the tracker: its thread waits for itself.
LogReenters(t) ==
  /\ Logging(t) /\ "reenter" \in LoggerMay
  /\ Goto(t, "self")
  /\ UNCHANGED <<state, mutex, aborted, committed, issued, lost>>

(***************************************************************************)
(* The guard is alive, the mutex is not held: increase and get through     *)
(* deref_mut and deref.  The addition may panic, by overflow.              *)
(***************************************************************************)
\* Wrong on purpose: a guard dropped by a panic keeps its object.
UseForgets(t) ==
  /\ At(t, "user", "use")
  /\ \/ /\ call' = [call EXCEPT ![t].op = "return_mut", ![t].at = "lock"]
        /\ UNCHANGED aborted
     \/ Unwound(t)
  /\ UNCHANGED <<state, mutex, committed, issued, lost>>

\* In either case the guard's drop takes its object to return_mut.
Use(t) ==
  /\ At(t, "user", "use")
  /\ \E panics \in BOOLEAN :
       call' = [call EXCEPT ![t].op = "return_mut", ![t].at = "lock", ![t].unwinding = panics]
  /\ UNCHANGED <<state, mutex, aborted, committed, issued, lost>>

\* The object is back in its slot.  A mutex that was locked while unwinding is
\* not poisoned when it is unlocked.
ReturnMut(t) ==
  /\ At(t, "return_mut", "locked")
  /\ state' = [state EXCEPT !.entries[Index(call[t].key) + 1].value = call[t].box]
  /\ Unlock
  /\ \/ ~call[t].unwinding /\ Return(t) /\ UNCHANGED aborted
     \/ call[t].unwinding /\ Unwound(t)
  /\ UNCHANGED <<issued, lost>>

Step(t) ==
  \/ Lock(t) \/ LockPoisoned(t)
  \/ RegisterSlot(t) \/ RegisterStore(t)
  \/ Refused(t) \/ LogReturns(t) \/ LogPanics(t) \/ LogReenters(t)
  \/ ReclaimTake(t) \/ ReclaimGeneration(t) \/ ReclaimFree(t) \/ DropCounter(t)
  \/ BorrowMut(t) \/ Use(t) \/ ReturnMut(t)

Next ==
  /\ ~aborted
  /\ \E t \in Thread :
       \/ NewCounter(t)
       \/ \E key \in Passed : FreeCounter(t, key) \/ IncreaseCounter(t, key)
       \/ Step(t)

Spec == Init /\ [][Next]_vars

\* A thread inside of a call goes on when it can.  Nothing is said of who gets
\* the mutex: std's is not fair.
Fairness == \A t \in Thread : WF_vars(~aborted /\ Step(t))
FairSpec == Spec /\ Fairness

-----------------------------------------------------------------------------
(***************************************************************************)
(* Properties.                                                             *)
(***************************************************************************)
Entry == [value : Box \cup {None}, generation : 1 .. MAX_GENERATION]
State == [entries : Seq(Entry), free_indices : Seq(0 .. MAX_INDEX)]

\* The types of the state; exactly the thread that is between lock and unlock
\* has the mutex.
TypeOK ==
  /\ state \in State /\ committed \in State
  /\ mutex \in [owner : Thread \cup {None}, poisoned : BOOLEAN]
  /\ call \in [Thread -> Call \cup {None}]
  /\ aborted \in BOOLEAN
  /\ issued \subseteq Usize
  /\ \A t \in Thread : mutex.owner = t <=> InCall(t) /\ call[t].at \in Holding

\* An object that a call works on, with the mutex or without, is in no slot and
\* in no other call: no two &mut to one Counter, no free under a guard, and
\* nothing for another thread to see of a method that is half done.
OneOwner ==
  /\ \A t, u \in Thread : t # u /\ (HasGuard(t) \/ HasBox(t)) /\ (HasGuard(u) \/ HasBox(u))
       => call[t].box # call[u].box
  /\ InSlots(state) \cap (InFrames \cup InLost) = {} /\ InFrames \cap InLost = {}
  /\ \A i, j \in Slots : Slot(i).value # None /\ Slot(i).value = Slot(j).value => i = j

-----------------------------------------------------------------------------
(***************************************************************************)
(* Each method takes effect at its unlock.  reply is no variable here: the *)
(* step that unlocks says what the call is about to answer.                *)
(***************************************************************************)
liveBar ==
  [key \in Usize |->
     IF \E g \in Guards \cup lost : g.key = key THEN (CHOOSE g \in Guards \cup lost : g.key = key).val
     ELSE IF Index(key) < Len(committed.entries)
               /\ committed.entries[Index(key) + 1].generation = Generation(key)
       THEN committed.entries[Index(key) + 1].value ELSE None]
heldBar == {call[t].box : t \in {u \in Thread : InCall(u) /\ (call[u].op = "register" \/ call[u].at = "drop")}}

Abstract(answer) == INSTANCE Tracker
  WITH Key <- Usize, KeysRecur <- FALSE, live <- liveBar,
       borrowed <- {g.key : g \in Guards \cup lost}, used <- issued,
       held <- heldBar, reply <- answer

Answer(op, key, ok, box) == [op |-> op, key |-> key, ok |-> ok, box |-> box]
NoAnswer == Answer("none", None, FALSE, None)

Answered(t) ==
  IF call[t].at = "log"
  THEN Answer(call[t].op, IF call[t].op = "register" THEN None ELSE call[t].key, FALSE, None)
  ELSE CASE call[t].op = "register"   -> Answer("register", NewHandle(t), TRUE, call[t].box)
         [] call[t].op = "reclaim"    -> Answer("reclaim", call[t].key, TRUE, call[t].box)
         [] call[t].op = "borrow_mut" -> Answer("borrow_mut", call[t].key, TRUE, Value(call[t].key))
         [] call[t].op = "return_mut" -> NoAnswer

Unlocks(t) == mutex.owner = t /\ mutex'.owner = None /\ mutex'.poisoned = mutex.poisoned

\* The step of Tracker that a step here is: a method's own, where it unlocks.
TrackerStep ==
  IF \E t \in Thread : Unlocks(t)
  THEN LET t == CHOOSE u \in Thread : Unlocks(u)
       IN  \E answer \in {Answered(t)} : Abstract(answer)!Next
  ELSE \/ UNCHANGED <<liveBar, {g.key : g \in Guards \cup lost}, issued, heldBar>>
       \/ Abstract(NoAnswer)!Next

\* For every other thread a method happens at once, as trait Tracker says, with
\* the answer its caller gets, however far apart its statements are.  A panic
\* of the logger changes nothing but the poison flag, one of the user's code
\* gives the object back, and return_mut under a poisoned mutex loses it.
ImplementsTracker == Abstract(NoAnswer)!Init /\ [][TrackerStep]_vars

WaitsForItself == \E t \in Thread : InCall(t) /\ call[t].at = "self"

\* Every call returns, or the process aborts, or a logger has called the
\* tracker, or the mutex goes to others for ever.  In particular no panic
\* leaves the mutex locked, and no two threads wait for each other.
CallsReturn ==
  \A t \in Thread :
    \/ []<>~InCall(t)
    \/ <>[](aborted \/ WaitsForItself)
    \/ \E u \in Thread \ {t} : []<>InCall(u) /\ []<>~InCall(u)
=============================================================================
