-------------------------------- MODULE Vec ---------------------------------
(***************************************************************************)
(* What a CVecRefMut (src/src/c_vec.rs) is to its user: a sequence that    *)
(* grows at its end, is emptied, and is swapped with another.  Nothing is  *)
(* said of blocks, capacities or layouts: CVec is shown to implement this. *)
(***************************************************************************)
EXTENDS Naturals, Sequences, FiniteSets

CONSTANTS
  Handle,       \* the vectors
  Elem          \* the elements: each value of type T is one of them

VARIABLES
  contents,     \* the elements of each vector, in order
  held          \* the elements the Rust caller owns

vars == <<contents, held>>

Distinct(s) == \A i, j \in DOMAIN s : s[i] = s[j] => i = j
Fresh(e) == e \notin held /\ \A h \in Handle : \A i \in DOMAIN contents[h] : contents[h][i] # e

Init ==
  /\ contents = [h \in Handle |-> <<>>]
  /\ held = {}

\* The caller makes an element.
NewElem(e) ==
  /\ Fresh(e)
  /\ held' = held \cup {e}
  /\ UNCHANGED contents

\* C gives an empty vector its elements, or adds one to a vector.
NewElems == LET new == {e \in Elem : Fresh(e)}
            IN  UNION {{s \in [1 .. n -> new] : Distinct(s)} : n \in 0 .. Cardinality(new)}

Give(h) ==
  /\ contents[h] = <<>>
  /\ \E s \in NewElems : contents' = [contents EXCEPT ![h] = s]
  /\ UNCHANGED held

Fill(h, e) ==
  /\ Fresh(e)
  /\ contents' = [contents EXCEPT ![h] = Append(@, e)]
  /\ UNCHANGED held

Push(h, e) ==
  /\ e \in held
  /\ contents' = [contents EXCEPT ![h] = Append(@, e)]
  /\ held' = held \ {e}

\* A push that fails leaves the vector alone; push_back then drops the element,
\* try_push_back gives it back (no change at all).
PushFails(e) ==
  /\ e \in held
  /\ held' = held \ {e}
  /\ UNCHANGED contents

Clear(h) ==
  /\ contents' = [contents EXCEPT ![h] = <<>>]
  /\ UNCHANGED held

Swap(g, h) ==
  /\ contents' = [contents EXCEPT ![g] = contents[h], ![h] = contents[g]]
  /\ UNCHANGED held

Next ==
  \/ \E e \in Elem : NewElem(e) \/ PushFails(e)
  \/ \E h \in Handle : Clear(h) \/ Give(h)
  \/ \E h \in Handle, e \in Elem : Fill(h, e) \/ Push(h, e)
  \/ \E g, h \in Handle : Swap(g, h)

Spec == Init /\ [][Next]_vars
=============================================================================
