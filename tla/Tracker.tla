------------------------------ MODULE Tracker -------------------------------
(***************************************************************************)
(* What trait Tracker<T> (src/src/tracker.rs) promises, whatever the key:  *)
(* an object is registered under a key, may be borrowed by one guard at a  *)
(* time, and is handed back once.  Nothing is said of slots, generations,  *)
(* addresses or of the kind of an error: OpaqueTracker and RawTracker are  *)
(* shown to implement this module.                                         *)
(***************************************************************************)
CONSTANTS
  Key,          \* the values C can pass as a key
  Box,          \* the objects: each Box<T> of the program is one of them
  None,         \* Option::None
  KeysRecur     \* TRUE when a key may be given out again after a reclaim

VARIABLES
  live,         \* the object registered under each key, None where no object is
  borrowed,     \* the keys whose object a guard has
  used,         \* where keys do not recur, the keys ever given out
  held,         \* the objects the Rust caller owns as a Box
  reply         \* what the last call on the tracker answered

vars == <<live, borrowed, used, held, reply>>

NoReply == [op |-> "none", key |-> None, ok |-> FALSE, box |-> None]

Answer(op, key, ok, box) == [op |-> op, key |-> key, ok |-> ok, box |-> box]

TypeOK ==
  /\ live \in [Key -> Box \cup {None}]
  /\ borrowed \in SUBSET Key
  /\ used \in SUBSET Key
  /\ held \in SUBSET Box

Init ==
  /\ live = [k \in Key |-> None]
  /\ borrowed = {}
  /\ used = {}
  /\ held = {}
  /\ reply = NoReply

Registered == {live[k] : k \in Key} \ {None}

\* The caller makes a new object, or drops one it owns.
NewBox(b) ==
  /\ b \notin held \cup Registered
  /\ held' = held \cup {b}
  /\ reply' = NoReply
  /\ UNCHANGED <<live, borrowed, used>>

DropBox(b) ==
  /\ b \in held
  /\ held' = held \ {b}
  /\ reply' = NoReply
  /\ UNCHANGED <<live, borrowed, used>>

\* register takes the object in both cases: a failed call drops it.
Register(b, k) ==
  /\ b \in held
  /\ live[k] = None
  /\ KeysRecur \/ k \notin used
  /\ live' = [live EXCEPT ![k] = b]
  /\ used' = IF KeysRecur THEN used ELSE used \cup {k}
  /\ held' = held \ {b}
  /\ reply' = Answer("register", k, TRUE, b)
  /\ UNCHANGED borrowed

RegisterFails(b) ==
  /\ b \in held
  /\ held' = held \ {b}
  /\ reply' = Answer("register", None, FALSE, None)
  /\ UNCHANGED <<live, borrowed, used>>

Available(k) == live[k] # None /\ k \notin borrowed

Reclaim(k) ==
  /\ Available(k)
  /\ live' = [live EXCEPT ![k] = None]
  /\ held' = held \cup {live[k]}
  /\ reply' = Answer("reclaim", k, TRUE, live[k])
  /\ UNCHANGED <<borrowed, used>>

BorrowMut(k) ==
  /\ Available(k)
  /\ borrowed' = borrowed \cup {k}
  /\ reply' = Answer("borrow_mut", k, TRUE, live[k])
  /\ UNCHANGED <<live, used, held>>

\* A call on a key whose object cannot be had changes nothing.
Refuse(k) ==
  /\ ~Available(k)
  /\ \E op \in {"reclaim", "borrow_mut"} : reply' = Answer(op, k, FALSE, None)
  /\ UNCHANGED <<live, borrowed, used, held>>

\* The guard is dropped: the object is back under its key.
ReturnMut(k) ==
  /\ k \in borrowed
  /\ borrowed' = borrowed \ {k}
  /\ reply' = NoReply
  /\ UNCHANGED <<live, used, held>>

\* The guard is forgotten: it never returns its object.
Forget(k) ==
  /\ k \in borrowed
  /\ reply' = NoReply
  /\ UNCHANGED <<live, borrowed, used, held>>

Next ==
  \/ \E b \in Box : NewBox(b) \/ DropBox(b) \/ RegisterFails(b)
  \/ \E b \in Box, k \in Key : Register(b, k)
  \/ \E k \in Key : Reclaim(k) \/ BorrowMut(k) \/ Refuse(k) \/ ReturnMut(k) \/ Forget(k)

Spec == Init /\ [][Next]_vars
=============================================================================
