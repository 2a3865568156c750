------------------------------- MODULE CBufLen ------------------------------
(***************************************************************************)
(* CBufLen (src/src/c_buf.rs): the integer types a C struct may keep a     *)
(* length or a capacity in, their conversions from and to usize, and the   *)
(* limits that the size of an element sets (src/src/c_buf.rs and           *)
(* src/src/c_vec.rs).                                                      *)
(*                                                                         *)
(* A primitive integer type is its least and its greatest value; the width *)
(* of usize is the platform's.                                             *)
(***************************************************************************)
EXTENDS Integers

CONSTANTS
  UsizeMax,     \* usize::MAX
  IsizeMax      \* isize::MAX

\* No platform of Rust has pointers of less than 16 bits.
ASSUME CBufLenAssumption ==
  /\ IsizeMax \in Nat /\ IsizeMax >= 32767
  /\ UsizeMax = 2 * IsizeMax + 1

Usize == 0 .. UsizeMax

\* The integer types, and those wide enough to be one of Rust's.
IntType == {t \in [min : Int, max : Nat] : t.min = 0 \/ t.min = -t.max - 1}
Primitive == {t \in IntType : t.max >= 127}
Values(t) == t.min .. t.max

Ok(n) == [ok |-> TRUE, val |-> n]
Err == [ok |-> FALSE, val |-> 0]

ConstMin(a, b) == IF a < b THEN a ELSE b

\* CBufLen::MAX
MAX(t) == ConstMin(t.max, UsizeMax)

\* TryInto<usize> of a value of the type: fails below zero, and above usize.
TryInto(v) == IF v \in Usize THEN Ok(v) ELSE Err

\* Wrong on purpose: a length that does not fit loses its upper bits.
TryFromTruncates(t, n) == Ok(n % (t.max + 1))

\* TryFrom<usize> of the type.
TryFrom(t, n) == IF n <= t.max THEN Ok(n) ELSE Err

\* max_slice_len::<T>() and min_non_zero_cap::<T>(), for a T of this size.
MaxSliceLen(size) == IsizeMax \div size

MinNonZeroCap(size) ==
  CASE size = 1 -> 8
    [] size \in 2 .. 1024 -> 4
    [] size > 1024 -> 1
=============================================================================
