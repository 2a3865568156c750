---------------------------- MODULE HandleProofs ----------------------------
(***************************************************************************)
(* The packing of Handle<T> loses nothing, for every word size: index and  *)
(* generation come back as they went in, every word is the packing of its  *)
(* own halves, and no handle with a generation from 1 up is null.          *)
(***************************************************************************)
EXTENDS Handle, TLAPS

\* Division with remainder.
LEMMA DivMod ==
  ASSUME NEW a \in Nat, NEW h \in Nat, h >= 2
  PROVE  /\ a \div h \in Nat
         /\ a % h \in 0 .. (h - 1)
         /\ a = h * (a \div h) + (a % h)
OBVIOUS

\* Quotient and remainder are unique.
LEMMA DivModUnique ==
  ASSUME NEW h \in Nat, h >= 2, NEW q \in Nat, NEW p \in Nat,
         NEW r \in 0 .. (h - 1), NEW s \in 0 .. (h - 1),
         h * q + r = h * p + s
  PROVE  q = p /\ r = s
OBVIOUS

\* A number below the divisor is its own remainder.
LEMMA SmallMod ==
  ASSUME NEW a \in Nat, NEW h \in Nat, h >= 2, a < h
  PROVE  a % h = a
OBVIOUS

\* The limits are what one half of the word can count.
LEMMA Limits ==
  /\ MAX_INDEX \in Nat /\ MAX_INDEX >= 1 /\ MAX_INDEX = Half - 1
  /\ MAX_GENERATION \in Nat /\ MAX_GENERATION >= 1 /\ MAX_GENERATION = Half - 1
BY HalfAssumption DEF MAX_INDEX, MAX_GENERATION

\* The halves of a word are an index and a generation within their limits.
THEOREM HalvesOfWord ==
  ASSUME NEW id \in Usize
  PROVE  /\ Index(id) \in 0 .. MAX_INDEX
         /\ Generation(id) \in 0 .. MAX_GENERATION
         /\ id = Half * Generation(id) + Index(id)
<1>1. id \in Nat /\ id < Half * Half
  BY HalfAssumption DEF Usize
<1>2. /\ id \div Half \in Nat
      /\ id % Half \in 0 .. (Half - 1)
      /\ id = Half * (id \div Half) + (id % Half)
  BY <1>1, DivMod, HalfAssumption
<1>3. id \div Half < Half
  BY <1>1, <1>2, HalfAssumption
<1> QED
  BY <1>2, <1>3, HalfAssumption DEF Index, Generation, MAX_INDEX, MAX_GENERATION

\* Handle::new shifts no bit out of the word: the sum is exact.
LEMMA NewIsSum ==
  ASSUME NEW index \in 0 .. MAX_INDEX, NEW generation \in 0 .. MAX_GENERATION
  PROVE  /\ New(index, generation) = Half * generation + index
         /\ New(index, generation) \in Usize
<1> DEFINE a == generation * Half
           h == Half * Half
<1>1. /\ index \in 0 .. (Half - 1) /\ index \in Nat
      /\ generation \in 0 .. (Half - 1) /\ generation \in Nat
  BY HalfAssumption DEF MAX_INDEX, MAX_GENERATION
<1>2. a \in Nat /\ h \in Nat /\ h >= 2 /\ a + Half <= h
  BY <1>1, HalfAssumption
<1>3. a % h = a
  BY <1>1, <1>2, SmallMod, HalfAssumption
<1> QED
  BY <1>1, <1>2, <1>3, HalfAssumption DEF New, Usize

\* Handle::index and Handle::generation invert Handle::new.
THEOREM RoundTrip ==
  ASSUME NEW index \in 0 .. MAX_INDEX, NEW generation \in 0 .. MAX_GENERATION
  PROVE  /\ New(index, generation) \in Usize
         /\ Index(New(index, generation)) = index
         /\ Generation(New(index, generation)) = generation
<1> DEFINE id == New(index, generation)
<1>1. id = Half * generation + index /\ id \in Usize
  BY NewIsSum
<1>2. /\ Index(id) \in 0 .. (Half - 1)
      /\ Generation(id) \in Nat
      /\ id = Half * Generation(id) + Index(id)
  BY <1>1, HalvesOfWord, HalfAssumption DEF MAX_INDEX, MAX_GENERATION
<1>3. index \in 0 .. (Half - 1) /\ generation \in Nat
  BY HalfAssumption DEF MAX_INDEX, MAX_GENERATION
<1>4. Generation(id) = generation /\ Index(id) = index
  BY <1>1, <1>2, <1>3, DivModUnique, HalfAssumption
<1> QED
  BY <1>1, <1>4

\* Two words with the same halves are the same word.
LEMMA HalvesDetermine ==
  ASSUME NEW k \in Usize, NEW l \in Usize,
         Index(k) = Index(l), Generation(k) = Generation(l)
  PROVE  k = l
BY HalvesOfWord

\* A handle as register makes it, with a generation of 1 or more, is not null.
THEOREM IssuedNotNull ==
  ASSUME NEW index \in 0 .. MAX_INDEX, NEW generation \in 1 .. MAX_GENERATION
  PROVE  New(index, generation) # Null
<1>1. generation \in 0 .. MAX_GENERATION
  BY Limits
<1>2. New(index, generation) = Half * generation + index
  BY <1>1, NewIsSum
<1> QED
  BY <1>2, Limits, HalfAssumption DEF Null
=============================================================================
