----------------------------- MODULE HandlePool -----------------------------
(***************************************************************************)
(* The generational handle pool bbb_DEFINE_HANDLE_POOL expands to, and the *)
(* builtins codegen.c compiles to it: handle-alloc (always without initial *)
(* data), handle-deref, handle-valid?, handle-free.                        *)
(*                                                                         *)
(* The program may pass any handle it was ever given, and the zero handle. *)
(* Handles are plain values, so it may keep copies for as long as it likes.*)
(***************************************************************************)
EXTENDS Integers, Sequences, FiniteSets

CONSTANTS PoolCapacity,  \* the pool's capacity; slot 0 is never handed out
          GenSize,   \* generations are u32: GenSize = 2^32 in the code
          PoolValues, ZeroObject,  \* what an object holds, and the all-zero object
          MaxFrees   \* bound: how often a slot is freed

ASSUME CapacityAssumption == PoolCapacity \in Nat \ {0}
ASSUME GenSizeAssumption == GenSize \in Nat /\ GenSize >= 2
ASSUME ZeroAssumption == ZeroObject \in PoolValues
ASSUME MaxFreesAssumption == MaxFrees \in Nat

PoolSlots == 1 .. PoolCapacity - 1
Gens == 0 .. GenSize - 1
Handle == [index : Nat, generation : Nat]
NullHandle == [index |-> 0, generation |-> 0]
\* generation++ on a u32.
NextGen(g) == IF g + 1 = GenSize THEN 0 ELSE g + 1

VARIABLES data, generation,  \* per slot
          freeList,          \* free_list[0 .. free_count-1], popped at its end
          count,             \* live objects
          issued, alive,      \* history: handles handed out, and not yet freed
          frees              \* history: how often each slot was freed

poolVars == <<data, generation, freeList, count, issued, alive, frees>>

\* pool_init: the free list is filled so that pops give 1, 2, 3, ...
PoolInit ==
  /\ data = [s \in PoolSlots |-> ZeroObject]
  /\ generation = [s \in PoolSlots |-> 1]
  /\ freeList = [i \in 1 .. PoolCapacity - 1 |-> PoolCapacity - i]
  /\ count = 0
  /\ issued = {} /\ alive = {}
  /\ frees = [s \in PoolSlots |-> 0]

\* pool_get: the slot of a handle that is good, nothing for any other.
Resolves(h) == h.index \in PoolSlots /\ generation[h.index] = h.generation

FreeCount == Len(freeList)

\* Mutant: the slot is looked at but stays on the free list.
PoolAllocKeepsSlot ==
  LET idx == freeList[FreeCount]
      h == [index |-> idx, generation |-> generation[idx]]
  IN  /\ FreeCount # 0
      /\ count' = count + 1
      /\ issued' = issued \cup {h} /\ alive' = alive \cup {h}
      /\ UNCHANGED <<data, generation, freeList, frees>>

\* pool_alloc on a pool with a free slot.
PoolAlloc ==
  LET idx == freeList[FreeCount]
      h == [index |-> idx, generation |-> generation[idx]]
  IN  /\ FreeCount # 0
      /\ freeList' = SubSeq(freeList, 1, FreeCount - 1)
      /\ count' = count + 1
      /\ issued' = issued \cup {h} /\ alive' = alive \cup {h}
      /\ UNCHANGED <<data, generation, frees>>

\* pool_alloc on a full pool reports it and returns the zero handle.
PoolAllocFull == FreeCount = 0 /\ UNCHANGED poolVars

\* A store through the pointer handle-deref returned.
Store(h, v) ==
  /\ Resolves(h)
  /\ data' = [data EXCEPT ![h.index] = v]
  /\ UNCHANGED <<generation, freeList, count, issued, alive, frees>>

\* Mutant: the generation stays, so that copies of the handle stay good.
PoolFreeKeepsGeneration(h) ==
  /\ Resolves(h)
  /\ frees[h.index] < MaxFrees
  /\ data' = [data EXCEPT ![h.index] = ZeroObject]
  /\ freeList' = Append(freeList, h.index)
  /\ count' = count - 1
  /\ alive' = alive \ {h}
  /\ frees' = [frees EXCEPT ![h.index] = frees[h.index] + 1]
  /\ UNCHANGED <<generation, issued>>

\* pool_free of a good handle.
PoolFree(h) ==
  /\ Resolves(h)
  /\ frees[h.index] < MaxFrees
  /\ data' = [data EXCEPT ![h.index] = ZeroObject]
  /\ generation' = [generation EXCEPT ![h.index] = NextGen(generation[h.index])]
  /\ freeList' = Append(freeList, h.index)
  /\ count' = count - 1
  /\ alive' = alive \ {h}
  /\ frees' = [frees EXCEPT ![h.index] = frees[h.index] + 1]
  /\ UNCHANGED issued

\* pool_free of any other handle changes nothing and returns false.
PoolFreeRejected(h) == ~Resolves(h) /\ UNCHANGED poolVars

Held == issued \cup {NullHandle}

PoolNext ==
  \/ PoolAlloc \/ PoolAllocFull
  \/ \E h \in Held :
       PoolFree(h) \/ PoolFreeRejected(h) \/ \E v \in PoolValues : Store(h, v)

PoolSpec == PoolInit /\ [][PoolNext]_poolVars

-----------------------------------------------------------------------------
OnFreeList(s) == \E i \in 1 .. FreeCount : freeList[i] = s

\* Types; generations fit their 32 bits and count never goes below zero.
PoolTypeOK ==
  /\ data \in [PoolSlots -> PoolValues]
  /\ generation \in [PoolSlots -> Gens]
  /\ freeList \in Seq(PoolSlots)
  /\ count \in Nat
  /\ issued \in SUBSET Handle /\ alive \in SUBSET issued
  /\ frees \in [PoolSlots -> 0 .. MaxFrees]

\* pool_get, and with it handle-deref, handle-valid? and handle-free, accepts
\* exactly the handles whose object is still there: "invalidate all existing
\* handles" in pool_free, and nothing but them.
ResolvesExactlyLive == \A h \in Held : Resolves(h) <=> h \in alive

\* Two handles that are both good never share a slot, and a slot that is on
\* the free list, which it is at most once, belongs to no good handle.
SlotsExclusive ==
  /\ \A g, h \in alive : g.index = h.index => g = h
  /\ \A h \in alive : ~OnFreeList(h.index)
  /\ \A i, j \in 1 .. FreeCount : freeList[i] = freeList[j] => i = j

\* The pool leaks nothing: what is not live can still be allocated, and the
\* pool reports "full" exactly when PoolCapacity - 1 objects are live.
NothingLeaks ==
  /\ count = Cardinality(alive)
  /\ count + FreeCount = PoolCapacity - 1

\* handle-alloc always passes no data and relies on the slot being zeroed
\* already, by pool_init or by the pool_free before it.
FreeSlotsAreZero == \A s \in PoolSlots : OnFreeList(s) => data[s] = ZeroObject

\* A handle is one object's name: no handle is handed out twice.
Named == INSTANCE HandleTable
         WITH Values <- PoolValues, Zero <- ZeroObject, live <- alive,
              Handles <- [index : PoolSlots, generation : Gens],
              table <- [h \in {g \in issued : Resolves(g)} |-> data[h.index]]

\* The pool implements the table of handles.
ImplementsTable == Named!Spec

-----------------------------------------------------------------------------
(* The inductive invariant behind the properties above, for pools none of  *)
(* whose slots is freed GenSize times.                                     *)

\* How many frees before a slot has generation g, as long as it has not come
\* round: 1, 2, ..., GenSize - 1, 0.
Age(g) == IF g = 0 THEN GenSize - 1 ELSE g - 1

\* A slot's generation is its age; the handles of a slot are its past ages,
\* the good one its present age.
AgeInv ==
  /\ \A s \in PoolSlots : Age(generation[s]) = frees[s]
  /\ \A h \in issued :
       /\ h.index \in PoolSlots /\ h.generation \in Gens
       /\ Age(h.generation) <= frees[h.index]
       /\ h \in alive <=> Age(h.generation) = frees[h.index]

\* What every step of the pool preserves.
PoolInv ==
  /\ PoolTypeOK /\ AgeInv /\ SlotsExclusive /\ FreeSlotsAreZero
  /\ NothingLeaks /\ IsFiniteSet(alive)

=============================================================================
