# A TLA+ model of safer_cffi

safer_cffi is a Rust library for replacing C libraries: it keeps Rust objects
that C holds as handles or pointers, and gives safe views of the buffers that C
structs hold as a pointer, a length and perhaps a capacity. Its unsafe code rests on
invariants that comments state in words. This project states them in TLA+,
checks them with TLC on small instances, and proves the most important ones with
TLAPS for every value of the constants. Paths below are relative to the
repository.

## The system

| component | source | state | operations | models |
|---|---|---|---|---|
| Handle | `src/handle.rs` | one word: index and generation | `new`, `index`, `generation`, `null` | `Handle`, `HandleProofs` |
| Tracker, Tracked | `src/tracker.rs`, `src/errors.rs` | the guards alive | `register`, `reclaim`, `borrow_mut`, drop of a guard | `Tracker` |
| OpaqueTracker | `src/opaque.rs` | a vector of slots, a queue of free indices, under one mutex | as `Tracker` | `OpaqueTracker`, `OpaqueTrackerProofs`, `OpaqueHistoryProofs`; its mutex in `TrackerLock`, `TrackerLockProofs` |
| RawTracker | `src/raw.rs` | an ordered map (`BTreeMap`) from addresses, under one mutex | as `Tracker` | `RawTracker`, `RawTrackerProofs` |
| CVecRefMut | `src/c_vec.rs` | borrows pointer, length and capacity of a C struct | `try_push_back`, `push_back`, `clear`, `swap`, slices | `Vec`, `CVec`, `CVecProofs` |
| CBufPtr, OwnedCBufPtr | `src/c_buf.rs` | a raw pointer | `from_boxed_slice`, `try_clone_and_leak_in`, `with_len`, views, `into_c_buf_ptr`, drop | `CBuf`, `CBufProofs`, the views as vectors in `CVec` |
| CBufLen | `src/c_buf.rs` | none: conversions between C integers and `usize` | `try_into`, `try_from`, `MAX`, `max_slice_len` | `CBufLen`, `CBufProofs`; used by `CBuf` |
| CLikeAlloc, LibcAlloc, CustomFns | `src/alloc.rs` | C function pointers | `allocate`, `allocate_zeroed`, `deallocate`, `grow`, `shrink`, `deallocate_by_ptr`, equality | `Allocator`, `CLikeAlloc`, `CLikeAllocProofs` |
| Examples | `examples/` | one tracker, or a struct with a buffer | `new_counter`, `free_counter`, `increase_counter`; `append_to_array`, `sum_array`, `free_array` | callers in `TrackerLock`, `CBuf` |
| Test support | `src/testing.rs` | none of its own | `malloc_array_typed`, `free_array` | C's side in `CBuf` |
| CStrRef, crate root | `src/c_str.rs`, `src/lib.rs` | none | | not modelled |

**Interactions.** C code calls `extern "C"` functions that the library's user writes;
those call a tracker, which is a `static` that all threads share behind one mutex. A
borrow moves the object out of the tracker into a `Tracked` guard, and the drop of the guard calls
`return_mut`. On every `Err` a tracker calls the application's logger with its
mutex held. A `CVecRefMut` borrows fields of a struct whose other user is C; it calls its allocator, and `clear` calls the drop of each element, which is
code of the user and may panic. `try_clone_and_leak_in` does the same
with `T::clone`. Every block that C may free comes from `CLikeAlloc`.

**What is hard.** Threads that meet in the middle of a method, a logger or user code that panics
there, and a mutex that is poisoned for good; handles that C keeps too long; a slot used again, until its
generations run out; a guard that lives across other calls, or is leaked; addresses that
the allocator gives out again; panics half way through a clear or a clone; allocations that
fail; limits of three integer types that meet in one push, and lengths that C has made negative; blocks of size zero;
what C's `malloc` guarantees for small sizes.

**What makes each part correct.** A tracker answers a key with the object
registered under it or not at all, hands an object to one owner at a time, drops nothing and
never panics in `return_mut`. A vector's fields describe its block at
every moment user code can see them, its block goes back once, with the layout and the allocator
that made it, and no element is lost, duplicated or dropped twice. A clone is complete or
leaves nothing. An allocator's blocks serve their layouts and are freed once, by functions of
their own library.

## Modules

| module | what it is | uses |
|---|---|---|
| `Handle` | the packing of index and generation, for a word of `Half * Half` values | |
| `HandleProofs` | lemmas on division and remainder, and the round trip | `Handle` |
| `Tracker` | what trait `Tracker` promises: a map from keys to objects, guards, and boxes; keys and errors are nondeterministic within the contract | |
| `OpaqueTracker` | the slots, the free list, the guards | `Handle`; INSTANCE `Tracker` |
| `OpaqueTrackerProofs` | the inductive invariant and the theorems | `OpaqueTracker`, `HandleProofs` |
| `OpaqueHistoryProofs` | the theorems on steps: what a handle means over the whole history, what a refusal says, and the refinement of `Tracker` | `OpaqueTrackerProofs` |
| `TrackerLock` | the mutex of a tracker: threads, the poison flag, the logger, panics | `Handle`; INSTANCE `Tracker` |
| `TrackerLockProofs` | the inductive invariants, the theorems, and that each method is one step of `Tracker` | `TrackerLock`, `HandleProofs` |
| `RawTracker` | the map of addresses, the guards, and the allocator that places objects | INSTANCE `Tracker` |
| `RawTrackerProofs` | the inductive invariant, the theorems, and the refinement of `Tracker` | `RawTracker` |
| `Vec` | a vector without memory: contents, the caller's elements, drops | |
| `CVec` | the C structs, the heap, clears under way | INSTANCE `Vec` |
| `CVecProofs` | the inductive invariant, the theorems, and the refinement of `Vec` | `CVec` |
| `CBufLen` | the lengths of C: conversions, `MAX`, `max_slice_len`, the first capacity | |
| `CBuf` | buffers that move between struct fields, boxed slices, owning fields and C; clones under way | `CBufLen` |
| `CBufProofs` | what the doc of `CBufLen` requires of the conversions; the inductive invariant of the buffers and the theorems | `CBuf` |
| `Allocator` | what Rust code expects of an allocator: memory of its own per block | |
| `CLikeAlloc` | `CLikeAlloc<F>` for each `F` there is, over a C heap | INSTANCE `Allocator` |
| `CLikeAllocProofs` | the inductive invariant, the theorems, and the refinement of `Allocator` | `CLikeAlloc` |
| `MC*` | the symmetry sets of the runs | the module of that name |

Definitions whose comment begins "Wrong on purpose" are faulty variants of the
definition after them. Nothing uses them; putting one in place of the right definition must break a
property, which shows that the property says something about the code.

### Tracker, OpaqueTracker, RawTracker

`entries`, `free_indices`, `guards`, `state` are the fields of the code. `held`
is the set of boxes that Rust callers own, `forgotten` the guards leaked by
`mem::forget`, and `issued` is history: the object registered under each handle. `reply`
is the answer to the last call, so that invariants can speak of answers.

Each method locks the mutex first and returns with it, so a call is one
action. What the code does after the unlock is to build the guard or the answer from local
values. Threads are the interleaving of calls; any number of guards may be alive at once. `Reclaim` and
`BorrowMut` take *any* word (or any address and null) as a key, because C can pass
anything. `TrackedDrop` is the drop of a guard, whose `return_mut` writes to the slot without a
check; `GuardsPinned` is why it may, and why neither its `expect` nor its
`debug_assert_eq!` can fail.

`Half` stands for 2^32 (2^16 or 2^8 on smaller targets): index and generation are the
remainder and the quotient of the word by it. With `Half = 3` there are three slots of two
generations each, enough for a slot to be used again, to reach its last generation and
retire, and for all slots to be used up.

In `RawTracker`, `at` is the address of each object. Freeing a box makes its address free for
the next, which is the ABA that the documentation warns of. `zero_sized` is fixed at the start: when it
holds, all objects are at one address, as Rust places objects of size zero.

### TrackerLock

`OpaqueTracker` has each method as one action, because each runs under the mutex. `TrackerLock` is what
that rests on: the same methods statement by statement, called by threads through the entry points of
the example `opaque_tracker`. `call[t]` is the call a thread is in: the method, the statement it
is at, the key (for `register`, the local `index` until there is a key), the box that its frames own, and
whether they are unwinding. `mutex` has the owner and the poison flag of `std::sync::Mutex`. `op = "user"`
is the caller with its `Tracked` guard and without the mutex.

On every path with an `Err` the method stops at `"log"`, mutex held, and the logger returns, panics
(the mutex is poisoned when its guard is dropped) or calls the tracker. The user's code under a guard may
panic, as the addition in `Counter::increase` does by overflow: `return_mut` then runs while
unwinding. `Boundary` says what becomes of a panic at `extern "C"`: the process aborts, or
the body is in a `catch_unwind`, as the guide advises for an API that must survive. A second panic while
one unwinds aborts in any case: that is what a poisoned mutex does to a panic under a guard.

`committed` is history, the state at the last unlock, which is what other threads can see. The refinement maps
`Tracker`'s map to it, so that each method takes effect in the step that unlocks, and `lost` says which
objects a poisoned `return_mut` dropped: for `Tracker` those are guards leaked by `mem::forget`.

`RawTracker` has the same shape: one mutex, taken first, held over the log, never over user code.

### Vec, CVec

`c[h]` is the C struct behind handle h: pointer, length, capacity. `heap` has for each block its
size in elements, its allocator and its initialised elements. A push is one action:
nothing of the user's runs inside it. `clear` is split where user code runs: `ClearBegin`
empties the struct, each `ClearDrop` drops one element and may panic, and `ClearFree` is the drop of
`AllocDropGuard`. The struct itself stays borrowed meanwhile, but is already what the caller of a
panicking clear will find, and other structs may be used between two of these. `CGives` and `CFills` are C's side. `fits`
is history: whether each `grow` and `deallocate` got the layout and the allocator of its block. So is `made`,
the elements there have been: `ElementsOnce` says that these are exactly the ones in some place, and each in
one, so an element that a refused push or a panicking clear loses without a drop is seen as lost.

`LenMax`, `CapMax` and `MaxSliceLen` are the limits of the length type, the capacity type and
`max_slice_len`. Each run has another of them as the one that a push meets: the capacity type in `c_vec`,
the length type in `c_vec_mixed`, the slice limit in `c_vec_clear`. Without a capacity field the new capacity is
converted to the length type (`CapTypeMax`).
`MinNonZeroCap` is where doubling starts. `EmptyBlock` is the size of a block C gives with
capacity 0 (1, or 0 for `malloc(0)`).

### CBuf

A block is a sequence of cells: `raw`, a value, or `gone`. Elements never change blocks, so a cell tells
whether a drop hits a live element. A clone is one step per `T::clone`, and several are under way
at once. `ClonePanic` starts the unwinding and `GuardDrop`/`GuardFree` are
`CloneDropGuard::drop`. A drop that panics while unwinding aborts the process; there is no
state after it. The allocation failure and the empty slice change nothing.
Rust's borrow rules are guards: a field that a clone reads from is neither moved nor freed. `Owned` fields
exist only for `T: Copy`, whose elements need no drop; a run with none of their actions is that of any other `T`.

The length beside a pointer is a value of `LenType`, an integer type of C, and every access converts it
as the code does. `WithLenPanics` and `AsVecMutPanics` are the panics of the views, which change
nothing. What they prevent is kept in `faults`: a view with more elements than its block has cells, as a negative
length taken for a `usize` would make, and a field cleared with elements left in its block. (Their check of `max_slice_len` never
decides in the run, where no length that C may write is above it.) `CMarks` sets a length to -1 and `CRestores` back, as C code does that uses it as a mark.
`PushBack` is a push without a capacity field, where the block grows by one element each time; pushes with one
are `CVec`'s. The entry points of the example `c_buf_ptr` are actions on the owning field, and C's `malloc` and
`free` are those of `src/testing.rs`.

### CBufLen

`IntType` is any integer type of C, signed or not, narrower or wider than `usize`, down to three bits so that TLC can
reach its limits. `TryInto` and `TryFrom` are the `TryFrom` conversions of Rust's integers between it and `usize`, `MAX` is the
constant of the trait, computed by `const_min_u128` as in the code.
`Primitive` are the types of eight bits and more, which are all that implement the trait.

### Allocator, CLikeAlloc

`heap` is the C heap: for each block its bytes, the alignment C23 guarantees for its size, and
the library it is of. `blocks` is what Rust has: pointer, layout, allocator value. `fns` are the
functions each allocator holds: those of `LibcFns`, or those of a `CustomFns` made by one of
the two constructors, with the default `calloc` and `realloc` of `AllocFns` where there
is none, or an `AllocFns` of a user's own: one that takes a context, one with `malloc` and
`calloc` and the default `realloc`, one with a `realloc` and the default `calloc`. These three are a user's types, not the
crate's: they are taken from the tests, which show what a user may write.
Two libraries stand for functions that must not be mixed. A block keeps the value of the allocator
that made it, since a value may be copied and dropped. Any allocation may fail. A call
of `grow` or `shrink` is `Resize`, which is one function in the code. C gives blocks with any layout within
them, also of size 0: `hollow` is history, the blocks that came so, which `deallocate` and `resize` lose.

## Runs

| run | instance | what it shows |
|---|---|---|
| `opaque_tracker` | 3 objects, word of 9 | ownership, free list, retired slots, kinds of error, capacity |
| `opaque_tracker_steps` | 2 objects, word of 9 | no handle given out twice, dead handles stay dead, `OpaqueTracker` implements `Tracker` |
| `stale_handle_not_found` | 2 objects, word of 9 | violation, see below |
| `capacity_exceeded_only_when_full` | 2 objects, word of 9 | violation, see below |
| `raw_tracker` | 4 objects, 4 addresses, with and without a size | a key resolves to the object at its address, also when addresses recur; a second zero-sized object is refused without harm to the first; `RawTracker` implements `Tracker` |
| `tracker_lock` | 2 threads, 2 objects, word of 9, a logger that may panic or call back, panics that abort or are caught, fair | no two threads see one object or half a method; each method is atomic, as `Tracker` says; every call returns, unless the process is gone or the logger called the tracker |
| `c_vec` | 2 structs with capacity, 3 blocks, 4 elements | the safety invariant at every drop, one owner per block, each element made in one place and none lost, a push refused only at the limit of the capacity type, `CVec` implements `Vec` |
| `c_vec_mixed` | 3 structs: one of another allocator, one without a capacity field | types, layouts, swaps refused across the differences; the limit of the length type binds, for lengths and for capacities without a field |
| `c_vec_clear` | as `c_vec`, 2 blocks, 3 elements, slices of at most 2, fair | a push is refused only at the slice limit; a clear that has begun frees its block |
| `c_vec_empty_block` | `EmptyBlock = 0` | violation, see below |
| `c_buf` | 2 fields, 1 owning field, 1 boxed slice, 4 blocks, 2 clones at once, lengths of -4 to 3 | the length is that of the block after every push, and no view goes past what C's length says; no half-made buffer is seen, nothing is leaked or released twice when a clone panics or a buffer changes owner, a clone equals its source |
| `c_like_alloc` | 2 allocators of every kind, 2 slots, 2 addresses, sizes to 2, alignments to 4 | blocks serve their layouts, have one owner, go to functions of their own library, also through an equal allocator; `CLikeAlloc` implements `Allocator` |

The refinement of `Tracker` has a run of its own with one object less, because its check is by far
the slowest: with three objects the slots have 317940 states. `tracker_lock` has 164284, `c_buf` 216892
and `c_like_alloc` 83289.

**Bounds.** Threads, objects, blocks, elements, slots and clones are finite sets of model values; no counter
is capped, as indices, generations, lengths and sizes are bounded by the code's own limits, which are
constants. Two more bounds are on inputs. `Passed` in `TrackerLock`: C passes null, or a handle that
names a live or lent object when the call begins (it may be dead, and its slot another's, by the time
the call has the mutex); in `OpaqueTracker` it passes any word. `MaxLen` bounds a boxed slice, and what C allocates,
at three elements, so that a clone can panic before, between and after elements. `LenType` is
a signed type of three bits and `Size` 8000 under an `isize::MAX` of 32767, so that a fourth element is within the
slice limit and not within the length type. `MaxSize` bounds a layout at two units of size, with
alignment 4 above `MALLOC_ALIGN` and alignment 2 above the smallest size; C's blocks are up to one unit
larger. Two structs are enough for
swaps, three for the two kinds of swap that are refused, and three blocks for a
reallocation while both structs own one. Sets of interchangeable model values are
symmetric; `c_vec_clear` and `tracker_lock`, which check liveness, use no symmetry.

**Fairness.** `c_vec_clear` assumes weak fairness of the steps of a clear that
has begun: the thread in `clear` goes on when the drop it called returns or unwinds, and the model has no
drop that runs forever. `tracker_lock` assumes weak fairness of each thread's next step inside
a call: a thread is scheduled, and the logger and the user's code come to an end. Of the mutex nothing
is assumed, since `std`'s is not fair: a thread that waits may be overtaken for ever, and `CallsReturn`
allows it that. Threads need never call. Nothing else must happen: the library has no thread of its own, and every
other call is the user's choice. Deadlock is checked in every run but `tracker_lock`, where an aborted process stops,
and so does one whose logger has called the tracker; `CallsReturn` says that nothing else does.

### Where the code and its documents part

* `stale_handle_not_found`: after the last generation of a slot is reclaimed, its handle is answered
  `AlreadyBorrowedMutably`, because the generation stays and the slot is empty
  (`src/opaque.rs:108`); `test_stale_handle` says that a reclaimed handle is `NotFound`. It takes 2^32 - 1
  uses of one slot. No object is reached by the dead handle.
* `capacity_exceeded_only_when_full`: retired slots count, so `register` can fail with no
  object alive (`src/opaque.rs:57`), where the guide says it needs about four billion live objects.
* `c_vec_empty_block`: a struct with a non-null pointer and capacity 0 has its block grown and freed
  with the layout of one element (`src/c_vec.rs:198`), which is not the layout the
  SAFETY comment says it was allocated with. With `LibcAlloc` this is harmless, as `realloc` and
  `free` take no layout.

More is visible in the models, without a run of its own. A block of C's `malloc` passed to
`deallocate` with a layout of size 0 is not freed (`src/alloc.rs:346`), although the doc of `CLikeAlloc`
allows any layout within the block (`src/alloc.rs:120`): `hollow` in `CLikeAlloc`, which
`BlocksOwnedOnce` excuses and does not rule out. A logger that calls the tracker waits for the mutex its own
thread holds: `CallsReturn` excuses that too, under the name `WaitsForItself`. And `catch_unwind` does not make an API survive every panic, as
the guide has it: once a logger has panicked under the mutex, a panic of user code under a guard
panics again in the drop of the guard, and aborts (`LockPoisoned` in `TrackerLock`).

## Proofs

Every invariant and every action property that a passing run checks is a theorem, and so are the
refinements: of `Tracker` by `OpaqueTracker`, `RawTracker` and `TrackerLock`, of `Vec` by `CVec`, of
`Allocator` by `CLikeAlloc`. The modules prove an inductive invariant action by action (`Invariance`, from no
more than the named assumptions on the constants), and what they say of states and steps follows from it. TLC has checked each of these invariants on the instance of the module's run.

`HandleProofs` proves that index and generation come out of the word as they were put in
(`RoundTrip`), that a handle of generation 1 or more is not null (`IssuedNotNull`), and that any word is the
handle of its halves (`HalvesOfWord`). The only assumption is `HalfAssumption`, that `Half` is a
natural number above 1. All of it rests on one lemma on quotient and remainder.

`OpaqueTrackerProofs` proves, for every word width and every set of objects, finite or not, that the
types are kept (`TypeCorrect`), each object has one owner (`Ownership`), `return_mut` never
panics or overwrites (`ReturnNeverPanics`), `register` may trust the free list
(`FreeListTrusted`), and a slot that is out of use has spent its generations (`SlotsAccounted`).
Besides `HalfAssumption` it assumes that `None` is no object and no handle.

These invariants are not inductive alone. That the front of the free list has a
generation never given out says something about all handles given out before. `IInv` adds three facts
that tie slots and guards to the history: an object in a slot is registered under the
slot's present handle (`SlotsIssued`), so is an object with a guard (`GuardsIssued`), and every handle
given out is of a slot that exists, at its present generation or an earlier one
(`IssuedBounded`). A handle of a later generation was therefore never given out, and a reclaim, which
moves the slot on by one, puts a fresh handle on the free list. `Invariance` is
proved action by action.

`OpaqueHistoryProofs` goes from states to steps: `register` never gives out a handle twice
(`NeverReissued`), and a handle that is dead stays dead (`DeadForever`), though its slot is
used again and again. The first is `IssuedBounded` and the free list's invariant; the second has a lemma per
operation that touches a slot: the step makes at most one handle live, that one differs from the dead
handle in its generation, and two handles with equal halves are the same word.

The same module proves what the answers say. A refusal is right about its handle (`ErrorsExact`): a guard with
the index of a current handle has that handle as its key, and a slot on the free list is at a
generation not given out. `register` fails only at capacity (`CapacityUsed`): with an empty free list, each slot
has an object, or a guard that does, or is retired, by `NoSlotLost`.

`RawTrackerProofs` proves all invariants of `RawTracker`, for every set of objects and addresses. They are
inductive together with `OneAddress`, that two objects of a type with a size are never at one
address at a time, which `NewBox` has from the allocator and which the drop of a box keeps. With it an address in the map
cannot be that of an object the caller still owns, so `register` succeeds (`RegisterSucceeds`). `RawAssumption`
says that `None` and the null pointer are no objects and no addresses.

Both modules prove the refinement of `Tracker` (`Refinement`). The map of `Tracker` has an object under a
handle when its slot is at the handle's generation, or a guard has the key; the proof
is that a step about one slot changes this map at one key, for which the invariants above say that no other slot and no other
guard has it. A refusal, and a step of the caller, leaves the map as it is.

`TrackerLockProofs` has two inductive invariants. `IInv` says what each statement of each method relies on: exactly the thread
between lock and unlock owns the mutex (`Mutex`), the key and the box of each call are what its statement needs
(`CallOK`), the slot that a call works on is vacant, of that call alone and not on the free list (`FreeOK`, `PointOK`), and every box is in one slot, one
frame or lost (`BoxOK`). With it come `TypeCorrect` and `Ownership`, for any number of threads, and whatever loggers and
boundaries do. The second, `Hist`, relates what the other threads can see to what the holder of the mutex has done: `committed`
differs from the state by the change to the holder's one slot and by nothing else (`CommitOK`), a lent slot stays at the
generation of its key (`PinOK`), a slot that is free or is being filled has never given out its present handle (`FreshOK`,
`Given`), a key that is being refused does not resolve (`RefusalOK`), and a box is lost only when the
mutex is poisoned (`Poison`), after which no thread has it. Then each statement is one of three: it changes nothing `Tracker`
can see; it makes or drops a box; or it unlocks, and is the step of `Tracker` of that method, with the answer that the call goes on to
give. This is what allows `OpaqueTracker` its one action per method.

`CVecProofs` proves, for any structs, blocks and elements, and any limits of the length type, the capacity type and slices
(`CVecAssumption`), that a struct is valid whenever user code can see it (`StructsValid`), that blocks and elements have one owner
(`BlockOwnership`; `ElementOwnership`, by `AllMade`: what was made is what is in some place), and that a push is refused only at a limit (`RefusalsJustified`). The invariant speaks of a struct and of a clear that has taken its fields as one owner, which
has one block, its elements, and the indices still to be dropped; so a clear that a drop's panic unwinds needs no case
of its own for what it owns. `LayoutsMatch` assumes `EmptyBlock = 1`, that a block C gives with capacity 0 has the size of
one element: the run `c_vec_empty_block` shows that it is false otherwise. The refinement of `Vec` assumes a finite set of elements, because both modules bound
the contents of a block that C gives by the number of elements there are.

`CBufProofs` proves first, of every integer type, every word width and every size of an element, what the code takes
for granted with `unwrap` and `expect`: a converted length comes back unchanged (`RoundTrip`), `MAX`
converts and nothing above it does (`MaximumValue`), a length within `max_slice_len` has a layout
(`LayoutArraySucceeds`), and the first capacity of a vector fits every type and has a layout
(`FirstCapacityFits`). These assume `CBufLenAssumption`, on the widths of `usize` and `isize`, and rest on one
lemma on integer division. Then it proves the invariants of the buffers, for any number of fields, boxes, blocks and clones under way. Its `IInv`
says of each place what its pointer and length mean (`PlaceOK`; a boxed slice that has a block has elements), of each clone how far its block is
filled and that its source is unchanged (`CloneOK`), and that a block is of one place or one clone (`OneBlock`). A step touches a few places, at most
one clone and a few blocks, on which nobody else has a claim (`Local`); so an action is proved for what it touches (`Mine`), and one
lemma, `Frame`, has the invariant for all the rest. That no view goes past its block (`ViewInBlock`) is from the panics: a length that
passes them is one that `PlaceOK` has for the block.

`CLikeAllocProofs` has the same argument with slots and addresses: what each slot holds (`SlotOK`), one slot per block (`OneSlot`),
nothing allocated that no slot has, but for `hollow` (`NoLeak`), and no misuse. That the alignment that C guarantees for a size serves every
alignment of that size or less (`AlignOfIsGreatest`) is a greatest element of a bounded set of numbers, which exists because `<` on the natural numbers is
well-founded. The refinement of `Allocator` follows from what `Frame` says of the other slots: their users see no change.

**Assumptions.** They are the named ASSUMEs at the head of each module, and TLC evaluates them in its runs. Those on `None`,
`Null`, `Dangling`, `Raw`, `Gone` and `Junk` say that a mark is none of the values that it stands beside, as the variants of a Rust `enum` differ. The others are the
code's: a word has halves of at least two values (`HalfAssumption`), the first capacity is within the slice limit and the capacity
type (`CVecAssumption`), an element has a size
(`CBufAssumption`; the crate refuses other types when it is compiled, `src/c_buf.rs:91`; what C and boxed slices allocate is bounded by what a length can say), `MALLOC_ALIGN` and 1 are alignments
(`CLikeAllocAssumption`). `TrackerLockAssumption` has only the names of what loggers and boundaries may do.

**Not proved.** Liveness, `ClearCompletes` and `CallsReturn`, is outside what TLAPS can prove and stays with TLC, as do the
three runs that show a violation.

## Not modelled

* The slices: reading and writing elements in place does not change what the models keep. (That what is
  read is there is `NoFault` in `CBuf`.)
* Capacity fields in `CBuf`: pushes through them are in `CVec`, whose structs C does not corrupt. The assertions of
  `as_vec_mut_with_cap` are there as guards.
* Allocation failure inside the trackers (a `push` on `entries`): it aborts the process.
* `TrackingAlloc` of `src/testing.rs`, which counts the calls of the C allocator, and the examples
  `raw_tracker` and `c_buf_ptr_with_capacity`, which make calls that `RawTracker` and `CVec` have for any caller.
* `CStrRef` (a pointer with a lifetime), the crate root and the guide.
* Send and Sync, formatting, logging text, and `Handle`'s phantom type: the compiler's business.

## Plan

1. `Handle`, `Tracker`, `OpaqueTracker`, their runs and the first theorems: done.
2. `RawTracker`, `Vec`/`CVec`, `CBuf`, `Allocator`/`CLikeAlloc` and their runs: done.
3. `TrackerLock`: the mutex with its poison flag, threads, a logger that panics or calls back: done.
4. `CBufLen`: the conversions of each C integer type, with theorems: done.
5. Proofs about `RawTracker`, and those of `ErrorKind` and `CapacityExceededOnlyAtCapacity`: done.
6. Proofs about `TrackerLock`, `CVec`, `CBuf` and `CLikeAlloc`, each from an inductive invariant: done.
7. The refinements of `Tracker`, `Vec` and `Allocator`, step by step: done.
8. Left: the exact conditions of the two violations of the trackers as theorems (a dead handle is answered
   `AlreadyBorrowedMutably` only at the last generation; `register` fails with no live object only when all slots are
   retired); lemmas on `NewCap` and `max_slice_len` shared by `CVec` and `CBuf`; shorter proofs of the long action lemmas.
