-------------------------- MODULE HandlePoolProofs --------------------------
(***************************************************************************)
(* Proofs for HandlePool: on a pool none of whose slots is freed as often  *)
(* as there are generations, a handle is accepted exactly while its object *)
(* is there.                                                               *)
(***************************************************************************)
EXTENDS HandlePool, FiniteSetTheorems, SequenceTheorems, TLAPS

\* Counting the frees of a slot and its generation go in step until the
\* generation comes round.
LEMMA AgeOfNext ==
  ASSUME NEW g \in Gens, Age(g) < GenSize - 1
  PROVE  NextGen(g) \in Gens /\ Age(NextGen(g)) = Age(g) + 1
BY GenSizeAssumption DEF Gens, Age, NextGen

\* A generation is known by its age.
LEMMA AgeInjective ==
  ASSUME NEW g \in Gens, NEW h \in Gens, Age(g) = Age(h)
  PROVE  g = h
BY GenSizeAssumption DEF Gens, Age

\* Under the invariant the handles pool_get accepts are the live ones.
LEMMA LiveResolve ==
  ASSUME PoolInv
  PROVE  ResolvesExactlyLive
<1> SUFFICES ASSUME NEW h \in Held PROVE Resolves(h) <=> h \in alive
  BY DEF ResolvesExactlyLive
<1>1. CASE h \in issued
  <2>1. h.index \in PoolSlots /\ h.generation \in Gens
    BY <1>1 DEF PoolInv, AgeInv
  <2>2. generation[h.index] \in Gens
    BY <2>1 DEF PoolInv, PoolTypeOK
  <2>3. Age(generation[h.index]) = frees[h.index]
    BY <2>1 DEF PoolInv, AgeInv
  <2>4. Resolves(h) <=> Age(h.generation) = frees[h.index]
    BY <2>1, <2>2, <2>3, AgeInjective DEF Resolves
  <2> QED BY <1>1, <2>4 DEF PoolInv, AgeInv
<1>2. CASE h \notin issued
  <2>1. h.index = 0
    BY <1>2 DEF Held, NullHandle
  <2>2. ~Resolves(h)
    BY <2>1, CapacityAssumption DEF Resolves, PoolSlots
  <2>3. h \notin alive
    BY <1>2 DEF PoolInv, PoolTypeOK
  <2> QED BY <2>2, <2>3
<1> QED BY <1>1, <1>2

\* pool_init makes a pool the invariant holds of.
LEMMA InitInv == PoolInit => PoolInv
<1> SUFFICES ASSUME PoolInit PROVE PoolInv OBVIOUS
<1>1. freeList \in Seq(PoolSlots) /\ FreeCount = PoolCapacity - 1
  BY CapacityAssumption DEF PoolInit, PoolSlots, FreeCount
<1>2. PoolTypeOK
  BY <1>1, ZeroAssumption, GenSizeAssumption, MaxFreesAssumption DEF PoolInit, PoolTypeOK, Gens
<1>3. AgeInv
  BY GenSizeAssumption DEF PoolInit, AgeInv, Age
<1>4. SlotsExclusive
  BY <1>1, CapacityAssumption DEF PoolInit, SlotsExclusive, OnFreeList
<1>5. FreeSlotsAreZero
  BY DEF PoolInit, FreeSlotsAreZero
<1>6. IsFiniteSet(alive) /\ Cardinality(alive) = 0
  BY FS_EmptySet DEF PoolInit
<1>7. NothingLeaks
  BY <1>1, <1>6, CapacityAssumption DEF PoolInit, NothingLeaks
<1> QED BY <1>2, <1>3, <1>4, <1>5, <1>6, <1>7 DEF PoolInv

\* pool_alloc keeps the invariant, and its handle is a new one.
LEMMA AllocInv ==
  ASSUME PoolInv, PoolAlloc,
         NEW idx, idx = freeList[FreeCount],
         NEW h, h = [index |-> idx, generation |-> generation[idx]]
  PROVE  PoolInv' /\ h \notin issued /\ idx \in PoolSlots
<1>1. /\ FreeCount \in Nat \ {0} /\ idx \in PoolSlots
      /\ freeList \in Seq(PoolSlots)
      /\ freeList' = SubSeq(freeList, 1, FreeCount - 1)
      /\ issued' = issued \cup {h} /\ alive' = alive \cup {h}
      /\ count' = count + 1
      /\ UNCHANGED <<data, generation, frees>>
  BY DEF PoolInv, PoolTypeOK, PoolAlloc, FreeCount
<1>2. /\ freeList' \in Seq(PoolSlots) /\ FreeCount' = FreeCount - 1
      /\ \A i \in 1 .. FreeCount' : freeList'[i] = freeList[i]
  <2>1. \A i \in 1 .. FreeCount - 1 : freeList[i] \in PoolSlots
    BY <1>1 DEF FreeCount
  <2>2. /\ SubSeq(freeList, 1, FreeCount - 1) \in Seq(PoolSlots)
        /\ Len(SubSeq(freeList, 1, FreeCount - 1)) = FreeCount - 1
        /\ \A i \in 1 .. FreeCount - 1 : SubSeq(freeList, 1, FreeCount - 1)[i] = freeList[i]
    BY <1>1, <2>1, SubSeqProperties
  <2> QED BY <1>1, <2>2 DEF FreeCount
<1>3. /\ h.index = idx /\ h.generation = generation[idx]
      /\ h.generation \in Gens /\ Age(h.generation) = frees[idx]
      /\ h \in Handle /\ frees[idx] \in 0 .. MaxFrees
  <2>1. generation[idx] \in Gens /\ frees[idx] \in 0 .. MaxFrees
    BY <1>1 DEF PoolInv, PoolTypeOK
  <2>2. Age(generation[idx]) = frees[idx]
    BY <1>1 DEF PoolInv, AgeInv
  <2>3. idx \in Nat /\ generation[idx] \in Nat
    BY <1>1, <2>1, CapacityAssumption, GenSizeAssumption DEF PoolSlots, Gens
  <2> QED BY <2>1, <2>2, <2>3 DEF Handle
<1>4. OnFreeList(idx)
  <2>1. FreeCount \in 1 .. FreeCount
    BY <1>1
  <2> QED BY <2>1 DEF OnFreeList
<1>5. \A g \in alive : g.index # idx
  BY <1>4 DEF PoolInv, SlotsExclusive
<1>6. h \notin issued
  BY <1>3, <1>5 DEF PoolInv, AgeInv
<1>7. PoolTypeOK'
  BY <1>1, <1>2, <1>3 DEF PoolInv, PoolTypeOK
<1>8. AgeInv'
  <2>1. \A s \in PoolSlots : Age(generation'[s]) = frees'[s]
    BY <1>1 DEF PoolInv, AgeInv
  <2>2. ASSUME NEW g \in issued'
        PROVE  /\ g.index \in PoolSlots /\ g.generation \in Gens
               /\ Age(g.generation) <= frees'[g.index]
               /\ g \in alive' <=> Age(g.generation) = frees'[g.index]
    <3>1. CASE g = h
      BY <3>1, <1>1, <1>3, MaxFreesAssumption
    <3>2. CASE g \in issued /\ g # h
      BY <3>2, <1>1 DEF PoolInv, AgeInv
    <3> QED BY <2>2, <1>1, <3>1, <3>2
  <2> QED BY <2>1, <2>2 DEF AgeInv
<1>9. SlotsExclusive'
  <2>1. \A i, j \in 1 .. FreeCount' : freeList'[i] = freeList'[j] => i = j
    BY <1>1, <1>2 DEF PoolInv, SlotsExclusive
  <2>2. \A g, k \in alive' : g.index = k.index => g = k
    BY <1>1, <1>3, <1>5 DEF PoolInv, SlotsExclusive
  <2>3. ASSUME NEW g \in alive' PROVE ~OnFreeList(g.index)'
    <3>1. CASE g = h
      BY <3>1, <1>1, <1>2, <1>3 DEF OnFreeList, PoolInv, SlotsExclusive
    <3>2. CASE g \in alive
      BY <3>2, <1>1, <1>2 DEF OnFreeList, PoolInv, SlotsExclusive
    <3> QED BY <2>3, <1>1, <3>1, <3>2
  <2> QED BY <2>1, <2>2, <2>3 DEF SlotsExclusive
<1>10. FreeSlotsAreZero'
  BY <1>1, <1>2 DEF PoolInv, FreeSlotsAreZero, OnFreeList
<1>11. IsFiniteSet(alive') /\ NothingLeaks'
  <2>1. h \notin alive
    BY <1>6 DEF PoolInv, PoolTypeOK
  <2>2. IsFiniteSet(alive') /\ Cardinality(alive') = Cardinality(alive) + 1
    BY <1>1, <2>1, FS_AddElement DEF PoolInv
  <2> QED BY <1>1, <1>2, <2>2, CapacityAssumption DEF PoolInv, PoolTypeOK, NothingLeaks
<1> QED BY <1>1, <1>6, <1>7, <1>8, <1>9, <1>10, <1>11 DEF PoolInv

\* pool_free of a good handle keeps the invariant.
LEMMA FreeInv ==
  ASSUME MaxFrees < GenSize, PoolInv, NEW h \in Held, PoolFree(h)
  PROVE  PoolInv' /\ h \in alive /\ h.index \in PoolSlots
<1> DEFINE s == h.index
<1>1. h \in alive /\ h \in issued /\ s \in PoolSlots /\ h.generation \in Gens
  BY LiveResolve DEF ResolvesExactlyLive, PoolFree, PoolInv, PoolTypeOK, AgeInv
<1>2. /\ frees[s] \in Nat /\ frees[s] < MaxFrees
      /\ generation[s] \in Gens /\ generation[s] = h.generation
      /\ Age(generation[s]) = frees[s]
      /\ freeList \in Seq(PoolSlots) /\ FreeCount \in Nat
  BY <1>1, MaxFreesAssumption DEF PoolFree, Resolves, PoolInv, PoolTypeOK, AgeInv, FreeCount
<1>3. NextGen(generation[s]) \in Gens /\ Age(NextGen(generation[s])) = frees[s] + 1
  BY <1>2, AgeOfNext, MaxFreesAssumption, GenSizeAssumption
<1>4. /\ data' = [data EXCEPT ![s] = ZeroObject]
      /\ generation' = [generation EXCEPT ![s] = NextGen(generation[s])]
      /\ frees' = [frees EXCEPT ![s] = frees[s] + 1]
      /\ freeList' = Append(freeList, s)
      /\ alive' = alive \ {h} /\ issued' = issued /\ count' = count - 1
  BY DEF PoolFree
<1>5. /\ freeList' \in Seq(PoolSlots) /\ FreeCount' = FreeCount + 1
      /\ freeList'[FreeCount'] = s
      /\ \A i \in 1 .. FreeCount : freeList'[i] = freeList[i]
  BY <1>1, <1>2, <1>4 DEF FreeCount
<1>6. ~OnFreeList(s) /\ \A g \in alive : g.index = s => g = h
  BY <1>1 DEF PoolInv, SlotsExclusive
<1>7. IsFiniteSet(alive') /\ Cardinality(alive') = Cardinality(alive) - 1 /\ count \in Nat \ {0}
  <2>1. IsFiniteSet(alive') /\ Cardinality(alive') = Cardinality(alive) - 1
    BY <1>1, <1>4, FS_RemoveElement DEF PoolInv
  <2>2. Cardinality(alive') \in Nat
    BY <2>1, FS_CardinalityType
  <2> QED BY <2>1, <2>2 DEF PoolInv, PoolTypeOK, NothingLeaks
<1>8. PoolTypeOK'
  <2>1. data' \in [PoolSlots -> PoolValues] /\ generation' \in [PoolSlots -> Gens]
    BY <1>1, <1>3, <1>4, ZeroAssumption DEF PoolInv, PoolTypeOK
  <2>2. frees' \in [PoolSlots -> 0 .. MaxFrees]
    BY <1>1, <1>2, <1>4, MaxFreesAssumption DEF PoolInv, PoolTypeOK
  <2>3. issued' \in SUBSET Handle /\ alive' \in SUBSET issued' /\ count' \in Nat
    BY <1>4, <1>7 DEF PoolInv, PoolTypeOK
  <2> QED BY <2>1, <2>2, <2>3, <1>5 DEF PoolTypeOK
<1>9. AgeInv'
  <2>1. \A t \in PoolSlots : Age(generation'[t]) = frees'[t]
    BY <1>1, <1>3, <1>4 DEF PoolInv, PoolTypeOK, AgeInv
  <2>2. ASSUME NEW g \in issued'
        PROVE  /\ g.index \in PoolSlots /\ g.generation \in Gens
               /\ Age(g.generation) <= frees'[g.index]
               /\ g \in alive' <=> Age(g.generation) = frees'[g.index]
    <3>1. /\ g.index \in PoolSlots /\ g.generation \in Gens
          /\ Age(g.generation) <= frees[g.index]
          /\ g \in alive <=> Age(g.generation) = frees[g.index]
          /\ frees[g.index] \in Nat
      BY <2>2, <1>4, MaxFreesAssumption DEF PoolInv, PoolTypeOK, AgeInv
    <3>2. Age(g.generation) \in Int
      BY <3>1, GenSizeAssumption DEF Age, Gens
    <3>3. CASE g.index = s
      <4>1. frees'[g.index] = frees[g.index] + 1
        BY <3>3, <1>1, <1>4 DEF PoolInv, PoolTypeOK
      <4>2. g \notin alive'
        BY <3>3, <1>4, <1>6
      <4> QED BY <3>1, <3>2, <4>1, <4>2
    <3>4. CASE g.index # s
      <4>1. frees'[g.index] = frees[g.index]
        BY <3>1, <3>4, <1>4 DEF PoolInv, PoolTypeOK
      <4>2. g \in alive' <=> g \in alive
        BY <3>4, <1>4
      <4> QED BY <3>1, <4>1, <4>2
    <3> QED BY <3>3, <3>4
  <2> QED BY <2>1, <2>2 DEF AgeInv
<1>10. SlotsExclusive'
  <2>1. \A g, k \in alive' : g.index = k.index => g = k
    BY <1>4 DEF PoolInv, SlotsExclusive
  <2>2. ASSUME NEW g \in alive' PROVE ~OnFreeList(g.index)'
    <3>1. g \in alive /\ g.index # s /\ ~OnFreeList(g.index)
      BY <2>2, <1>4, <1>6 DEF PoolInv, SlotsExclusive
    <3> QED BY <3>1, <1>2, <1>5 DEF OnFreeList
  <2>3. \A i, j \in 1 .. FreeCount' : freeList'[i] = freeList'[j] => i = j
    BY <1>2, <1>5, <1>6 DEF PoolInv, SlotsExclusive, OnFreeList
  <2> QED BY <2>1, <2>2, <2>3 DEF SlotsExclusive
<1>11. FreeSlotsAreZero'
  <2> SUFFICES ASSUME NEW t \in PoolSlots, OnFreeList(t)' PROVE data'[t] = ZeroObject
    BY DEF FreeSlotsAreZero
  <2>1. CASE t = s
    BY <2>1, <1>1, <1>4 DEF PoolInv, PoolTypeOK
  <2>2. CASE t # s
    <3>1. OnFreeList(t)
      <4>1. PICK i \in 1 .. FreeCount' : freeList'[i] = t
        BY DEF OnFreeList
      <4>2. i \in 1 .. FreeCount
        BY <2>2, <4>1, <1>2, <1>5
      <4> QED BY <4>1, <4>2, <1>5 DEF OnFreeList
    <3> QED BY <3>1, <2>2, <1>4 DEF PoolInv, PoolTypeOK, FreeSlotsAreZero
  <2> QED BY <2>1, <2>2
<1>12. NothingLeaks'
  BY <1>2, <1>4, <1>5, <1>7, CapacityAssumption DEF PoolInv, NothingLeaks
<1> QED BY <1>1, <1>7, <1>8, <1>9, <1>10, <1>11, <1>12 DEF PoolInv

\* A store through a good handle keeps the invariant: it never reaches a slot
\* that is on the free list.
LEMMA StoreInv ==
  ASSUME PoolInv, NEW h \in Held, NEW v \in PoolValues, Store(h, v)
  PROVE  PoolInv' /\ h \in alive
<1>1. h \in alive /\ h.index \in PoolSlots
  BY LiveResolve DEF ResolvesExactlyLive, Store, Resolves
<1>2. ~OnFreeList(h.index)
  BY <1>1 DEF PoolInv, SlotsExclusive
<1>3. /\ data' = [data EXCEPT ![h.index] = v]
      /\ UNCHANGED <<generation, freeList, count, issued, alive, frees>>
  BY DEF Store
<1>4. PoolTypeOK'
  BY <1>1, <1>3 DEF PoolInv, PoolTypeOK
<1>5. AgeInv' /\ SlotsExclusive' /\ NothingLeaks' /\ IsFiniteSet(alive')
  BY <1>3 DEF PoolInv, AgeInv, SlotsExclusive, OnFreeList, FreeCount, NothingLeaks
<1>6. FreeSlotsAreZero'
  BY <1>1, <1>2, <1>3 DEF PoolInv, PoolTypeOK, FreeSlotsAreZero, OnFreeList, FreeCount
<1> QED BY <1>1, <1>4, <1>5, <1>6 DEF PoolInv

\* Every step of the pool keeps the invariant.
LEMMA StepInv ==
  ASSUME MaxFrees < GenSize, PoolInv, [PoolNext]_poolVars
  PROVE  PoolInv'
<1>1. CASE PoolAlloc
  BY <1>1, AllocInv
<1>2. ASSUME NEW h \in Held, PoolFree(h) PROVE PoolInv'
  BY <1>2, FreeInv
<1>3. ASSUME NEW h \in Held, NEW v \in PoolValues, Store(h, v) PROVE PoolInv'
  BY <1>3, StoreInv
<1>4. CASE UNCHANGED poolVars
  BY <1>4 DEF poolVars, PoolInv, PoolTypeOK, AgeInv, SlotsExclusive, OnFreeList, FreeCount,
              FreeSlotsAreZero, NothingLeaks
<1>5. CASE PoolAllocFull \/ \E h \in Held : PoolFreeRejected(h)
  BY <1>5, <1>4 DEF PoolAllocFull, PoolFreeRejected
<1> QED BY <1>1, <1>2, <1>3, <1>4, <1>5 DEF PoolNext

\* bbb_handle.h keeps PoolInv for every capacity, as long as no slot is freed
\* GenSize times.
THEOREM PoolInvariance ==
  ASSUME MaxFrees < GenSize
  PROVE  PoolSpec => []PoolInv
<1>1. PoolInv /\ [PoolNext]_poolVars => PoolInv'
  BY StepInv
<1> QED BY InitInv, <1>1, PTL DEF PoolSpec

\* handle-deref, handle-valid? and handle-free accept exactly the handles
\* whose object is still there.
THEOREM HandlesAreSafe ==
  ASSUME MaxFrees < GenSize
  PROVE  PoolSpec => []ResolvesExactlyLive
BY PoolInvariance, LiveResolve, PTL

\* No slot serves two good handles, or one while it is on the free list.
THEOREM SlotsAreExclusive ==
  ASSUME MaxFrees < GenSize
  PROVE  PoolSpec => []SlotsExclusive
<1>1. PoolInv => SlotsExclusive
  BY DEF PoolInv
<1> QED BY PoolInvariance, <1>1, PTL

\* Every slot that is not live can be handed out again.
THEOREM PoolDoesNotLeak ==
  ASSUME MaxFrees < GenSize
  PROVE  PoolSpec => []NothingLeaks
<1>1. PoolInv => NothingLeaks
  BY DEF PoolInv
<1> QED BY PoolInvariance, <1>1, PTL

\* The objects of the good handles, as HandleTable keeps them.
Objects == [h \in alive |-> data[h.index]]

\* They are what the refinement mapping of HandlePool!Table gives.
MappedToObjects == [h \in {g \in issued : Resolves(g)} |-> data[h.index]] = Objects

\* The refinement mapping of HandlePool!Table in terms of the live handles.
LEMMA TableIsObjects == PoolInv => MappedToObjects
<1> SUFFICES ASSUME PoolInv PROVE MappedToObjects OBVIOUS
<1>1. {g \in issued : Resolves(g)} = alive
  BY LiveResolve DEF ResolvesExactlyLive, Held, PoolInv, PoolTypeOK
<1> QED BY <1>1 DEF Objects, MappedToObjects

\* Every step of the pool is a step of the table of handles.
LEMMA TableStep ==
  ASSUME MaxFrees < GenSize, PoolInv, PoolInv', [PoolNext]_poolVars
  PROVE  [Named!Next]_(Named!vars)
<1> DEFINE t == [h \in {g \in issued : Resolves(g)} |-> data[h.index]]
<1>1. t = Objects
  BY TableIsObjects DEF MappedToObjects
<1>2. t' = Objects'
  <2>1. MappedToObjects'
    BY TableIsObjects, PTL
  <2> QED BY <2>1 DEF MappedToObjects
<1>3. CASE PoolAlloc
  <2> DEFINE idx == freeList[FreeCount]
             h == [index |-> idx, generation |-> generation[idx]]
  <2>1. h \notin issued /\ idx \in PoolSlots
    BY <1>3, AllocInv
  <2>2. generation[idx] \in Gens /\ ~(h \in alive) /\ OnFreeList(idx)
    <3>1. FreeCount \in 1 .. FreeCount
      BY <1>3 DEF PoolAlloc, PoolInv, PoolTypeOK, FreeCount
    <3> QED BY <2>1, <3>1 DEF PoolInv, PoolTypeOK, OnFreeList
  <2>3. data[idx] = ZeroObject
    BY <2>1, <2>2 DEF PoolInv, FreeSlotsAreZero
  <2>4. h \in [index : PoolSlots, generation : Gens] \ issued /\ h.index = idx
    BY <2>1, <2>2
  <2>5. issued' = issued \cup {h} /\ alive' = alive \cup {h} /\ data' = data
    BY <1>3 DEF PoolAlloc
  <2> HIDE DEF h, idx
  <2>6. Objects' = [g \in DOMAIN Objects \cup {h} |-> IF g = h THEN ZeroObject ELSE Objects[g]]
    BY <2>2, <2>3, <2>4, <2>5 DEF Objects
  <2>7. Named!Alloc(h)
    BY <1>1, <1>2, <2>4, <2>5, <2>6 DEF Named!Alloc
  <2>8. h \in [index : PoolSlots, generation : Gens]
    BY <2>4
  <2>9. Named!Next
    BY <2>7, <2>8 DEF Named!Next, Named!Alloc
  <2> QED BY <2>9
<1>4. ASSUME NEW h \in Held, PoolFree(h) PROVE Named!Next
  <2>1. h \in alive /\ h.index \in PoolSlots /\ h.generation \in Gens /\ h \in Handle
    BY <1>4, FreeInv DEF PoolInv, PoolTypeOK, AgeInv
  <2>2. h \in [index : PoolSlots, generation : Gens]
    BY <2>1 DEF Handle
  <2>3. issued' = issued /\ alive' = alive \ {h} /\ data' = [data EXCEPT ![h.index] = ZeroObject]
    BY <1>4 DEF PoolFree
  <2>4. \A g \in alive' : g.index # h.index /\ g.index \in PoolSlots
    BY <2>1, <2>3 DEF PoolInv, PoolTypeOK, AgeInv, SlotsExclusive
  <2>5. Objects' = [g \in DOMAIN Objects \ {h} |-> Objects[g]]
    BY <2>3, <2>4 DEF Objects, PoolInv, PoolTypeOK
  <2>6. Named!Free(h)
    BY <1>1, <1>2, <2>1, <2>3, <2>5 DEF Named!Free, Objects
  <2> QED BY <2>2, <2>6 DEF Named!Next
<1>5. ASSUME NEW h \in Held, NEW v \in PoolValues, Store(h, v) PROVE Named!Next
  <2>1. h \in alive /\ h.index \in PoolSlots /\ h.generation \in Gens /\ h \in Handle
    BY <1>5, StoreInv DEF PoolInv, PoolTypeOK, AgeInv
  <2>2. h \in [index : PoolSlots, generation : Gens]
    BY <2>1 DEF Handle
  <2>3. issued' = issued /\ alive' = alive /\ data' = [data EXCEPT ![h.index] = v]
    BY <1>5 DEF Store
  <2>4. \A g \in alive : g.index \in PoolSlots /\ (g.index = h.index => g = h)
    BY <2>1 DEF PoolInv, PoolTypeOK, AgeInv, SlotsExclusive
  <2>5. Objects' = [Objects EXCEPT ![h] = v]
    BY <2>1, <2>3, <2>4 DEF Objects, PoolInv, PoolTypeOK
  <2>6. Named!Store(h, v)
    BY <1>1, <1>2, <2>1, <2>3, <2>5 DEF Named!Store, Objects
  <2> QED BY <2>2, <2>6 DEF Named!Next
<1>6. CASE UNCHANGED poolVars
  BY <1>1, <1>2, <1>6 DEF poolVars, Objects, Named!vars
<1>7. CASE PoolAllocFull \/ \E h \in Held : PoolFreeRejected(h)
  BY <1>6, <1>7 DEF PoolAllocFull, PoolFreeRejected
<1> QED BY <1>3, <1>4, <1>5, <1>6, <1>7 DEF PoolNext

\* A handle of bbb_handle.h is one object's name for ever: the pool implements
\* the table of handles.
THEOREM PoolImplementsTable ==
  ASSUME MaxFrees < GenSize
  PROVE  PoolSpec => ImplementsTable
<1>1. PoolInit => Named!Init
  BY DEF PoolInit, Named!Init, Resolves
<1>2. PoolInv /\ PoolInv' /\ [PoolNext]_poolVars => [Named!Next]_(Named!vars)
  BY TableStep
<1> QED BY PoolInvariance, <1>1, <1>2, PTL DEF PoolSpec, ImplementsTable, Named!Spec

=============================================================================
