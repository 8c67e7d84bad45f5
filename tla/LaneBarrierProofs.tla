-------------------------- MODULE LaneBarrierProofs --------------------------
(***************************************************************************)
(* The barrier is correct for every number of lanes and every width of the *)
(* generation counter that can tell two rounds apart.                      *)
(***************************************************************************)
EXTENDS LaneBarrier, FiniteSetTheorems, TLAPS

\* The increment moves the generation, wrapping or not, and keeps its type.
LEMMA NextGenDiffers ==
  \A g \in 0 .. GenSize - 1 : NextGen(g) \in 0 .. GenSize - 1 /\ NextGen(g) # g
  BY GenSizeAssumption DEF NextGen

\* The count of the open round, before and after a lane joins it.
LEMMA OpenRoundCount ==
  ASSUME BarrierInv, NEW l \in Lanes, pc[l] = "out"
  PROVE  /\ l \notin InOpenRound
         /\ Cardinality(InOpenRound \cup {l}) = waiting + 1
         /\ waiting + 1 = LaneCount => InOpenRound \cup {l} = Lanes
<1>1. l \notin InOpenRound
  BY DEF BarrierInv, LaneInv, TypeOK, InOpenRound
<1>2. waiting = Cardinality(InOpenRound)
  BY DEF BarrierInv
<1>3. IsFiniteSet(Lanes) /\ Cardinality(Lanes) = LaneCount
  <2>1. IsFiniteSet(0 .. LaneCount - 1) /\ Cardinality(0 .. LaneCount - 1) = LaneCount
    BY FS_Interval, LaneCountAssumption
  <2>. QED  BY <2>1 DEF Lanes
<1>4. InOpenRound \cup {l} \in SUBSET Lanes
  BY DEF InOpenRound
<1>5. IsFiniteSet(InOpenRound)
  BY <1>3, <1>4, FS_Subset
<1>6. Cardinality(InOpenRound \cup {l}) = waiting + 1
  BY <1>1, <1>2, <1>5, FS_AddElement
<1>7. waiting + 1 = LaneCount => InOpenRound \cup {l} = Lanes
  BY <1>3, <1>4, <1>6, FS_Subset
<1>. QED  BY <1>1, <1>6, <1>7

\* barrier_alloc makes a barrier the invariant holds of.
LEMMA BarrierInit == Init => BarrierInv
<1>. SUFFICES ASSUME Init PROVE BarrierInv
  OBVIOUS
<1>1. TypeOK /\ LaneInv
  BY LaneCountAssumption, GenSizeAssumption DEF Init, TypeOK, LaneInv, Lanes
<1>2. InOpenRound = {}
  BY DEF Init, InOpenRound
<1>3. waiting = Cardinality(InOpenRound)
  BY <1>2, FS_EmptySet DEF Init
<1>. QED  BY <1>1, <1>3 DEF BarrierInv

\* No step of bbb_barrier_wait breaks the invariant.
LEMMA BarrierStep == BarrierInv /\ [Next]_vars => BarrierInv'
<1>. SUFFICES ASSUME BarrierInv, [Next]_vars PROVE BarrierInv'
  OBVIOUS
<1>. USE LaneCountAssumption, GenSizeAssumption
<1>1. ASSUME NEW l \in Lanes, ArriveEarly(l) PROVE BarrierInv'
  <2>1. /\ Cardinality(InOpenRound \cup {l}) = waiting + 1
        /\ l \notin InOpenRound
    BY <1>1, OpenRoundCount DEF ArriveEarly, Enter
  <2>2. TypeOK'
    BY <1>1 DEF BarrierInv, TypeOK, ArriveEarly, Enter
  <2>3. LaneInv'
    BY <1>1 DEF BarrierInv, TypeOK, LaneInv, ArriveEarly, Enter
  <2>4. InOpenRound' = InOpenRound \cup {l}
    BY <1>1 DEF BarrierInv, TypeOK, LaneInv, InOpenRound, ArriveEarly, Enter
  <2>5. waiting' = Cardinality(InOpenRound')
    BY <1>1, <2>1, <2>4 DEF ArriveEarly
  <2>. QED  BY <2>2, <2>3, <2>5 DEF BarrierInv
<1>2. ASSUME NEW l \in Lanes, ArriveLast(l) PROVE BarrierInv'
  <2>1. InOpenRound \cup {l} = Lanes
    BY <1>2, OpenRoundCount DEF ArriveLast, Enter
  <2>2. TypeOK'
    BY <1>2, NextGenDiffers DEF BarrierInv, TypeOK, ArriveLast, Enter
  <2>3. \A m \in Lanes : m # l => arrivals[m] = rounds + 1 /\ pc[m] \in {"asleep", "woken"}
                                  /\ departures[m] = rounds /\ gen[m] = generation
    BY <2>1 DEF BarrierInv, TypeOK, LaneInv, InOpenRound
  <2>4. LaneInv'
    <3>. SUFFICES ASSUME NEW m \in Lanes
                  PROVE  /\ (pc[m] = "out")' => (arrivals[m] = rounds /\ departures[m] = rounds)'
                         /\ (pc[m] # "asleep")'
                         /\ (pc[m] = "woken")' =>
                              /\ (arrivals[m] = rounds /\ departures[m] + 1 = rounds)'
                              /\ (generation = NextGen(gen[m]))'
                         /\ (pc[m] = "leaving")' =>
                              (arrivals[m] = rounds /\ departures[m] + 1 = rounds)'
      BY DEF LaneInv
    <3>1. CASE m = l
      BY <1>2, <3>1 DEF BarrierInv, TypeOK, LaneInv, ArriveLast, Enter
    <3>2. CASE m # l
      <4>1. pc'[m] = "woken" /\ arrivals'[m] = rounds + 1 /\ departures'[m] = rounds
            /\ gen'[m] = generation
        BY <1>2, <2>3, <3>2 DEF BarrierInv, TypeOK, ArriveLast, Enter
      <4>2. generation' = NextGen(generation) /\ rounds' = rounds + 1
        BY <1>2 DEF ArriveLast
      <4>3. NextGen(gen[m])' = NextGen(generation)
        BY <4>1 DEF NextGen
      <4>. QED  BY <4>1, <4>2, <4>3 DEF BarrierInv, TypeOK
    <3>. QED  BY <3>1, <3>2
  <2>5. InOpenRound' = {}
    BY <1>2, <2>3 DEF BarrierInv, TypeOK, LaneInv, InOpenRound, ArriveLast, Enter
  <2>6. waiting' = Cardinality(InOpenRound')
    BY <1>2, <2>5, FS_EmptySet DEF ArriveLast
  <2>. QED  BY <2>2, <2>4, <2>6 DEF BarrierInv
<1>3. ASSUME NEW l \in Lanes, SpuriousWakeup(l) \/ Recheck(l) \/ Leave(l) PROVE BarrierInv'
  <2>1. TypeOK'
    BY <1>3 DEF BarrierInv, TypeOK, SpuriousWakeup, Recheck, Leave, history
  <2>2. LaneInv'
    BY <1>3, NextGenDiffers
    DEF BarrierInv, TypeOK, LaneInv, SpuriousWakeup, Recheck, Leave, history, NextGen
  <2>3. InOpenRound' = InOpenRound /\ waiting' = waiting
    BY <1>3 DEF InOpenRound, SpuriousWakeup, Recheck, Leave, history
  <2>. QED  BY <2>1, <2>2, <2>3 DEF BarrierInv
<1>4. CASE UNCHANGED vars
  BY <1>4 DEF vars, history, BarrierInv, TypeOK, LaneInv, InOpenRound, NextGen
<1>. QED  BY <1>1, <1>2, <1>3, <1>4 DEF Next, LaneStep, Finished

\* The invariant of bbb_barrier_wait: `waiting` counts the lanes of the open
\* round and no lane is two rounds behind, for any lane count and any counter
\* width.
THEOREM BarrierInvariance == Spec => []BarrierInv
  BY BarrierInit, BarrierStep, PTL DEF Spec

\* The types hold, in particular `waiting` never reaches the lane count at a
\* point where another lane could see it.
THEOREM BarrierTypes == Spec => []TypeOK
<1>1. BarrierInv => TypeOK
  BY DEF BarrierInv
<1>. QED  BY <1>1, BarrierInvariance, PTL

-----------------------------------------------------------------------------
\* A new barrier is a new abstract barrier.
LEMMA RefineInit == Init => Abstract!Init
  BY DEF Init, Abstract!Init

\* Every step of bbb_barrier_wait is a step of the abstract barrier or none.
LEMMA RefineStep == BarrierInv /\ [Next]_vars => [Abstract!Next]_Abstract!barrierVars
<1>. SUFFICES ASSUME BarrierInv, [Next]_vars
              PROVE  [Abstract!Next]_Abstract!barrierVars
  OBVIOUS
<1>. USE DEF Abstract!barrierVars
<1>1. ASSUME NEW l \in Lanes, ArriveEarly(l) \/ ArriveLast(l)
      PROVE  Abstract!Next
  <2>1. Abstract!Arrive(l)
    BY <1>1 DEF BarrierInv, LaneInv, ArriveEarly, ArriveLast, Enter, Abstract!Arrive
  <2>. QED  BY <2>1 DEF Abstract!Next
<1>2. ASSUME NEW l \in Lanes, Leave(l)
      PROVE  Abstract!Next
  <2>1. departures[l] < arrivals[l] /\ arrivals[l] = rounds
    BY <1>2 DEF BarrierInv, TypeOK, LaneInv, Leave
  <2>2. \A m \in Lanes : arrivals[m] >= rounds
    BY DEF BarrierInv, TypeOK, LaneInv
  <2>3. Abstract!Depart(l)
    BY <1>2, <2>1, <2>2 DEF Leave, Abstract!Depart
  <2>. QED  BY <2>3 DEF Abstract!Next
<1>3. ASSUME NEW l \in Lanes, SpuriousWakeup(l) \/ Recheck(l)
      PROVE  UNCHANGED <<arrivals, departures>>
  BY <1>3 DEF SpuriousWakeup, Recheck, history
<1>4. CASE UNCHANGED vars
  BY <1>4 DEF vars, history
<1>. QED  BY <1>1, <1>2, <1>3, <1>4 DEF Next, LaneStep, Finished

\* bbb_barrier_wait implements the abstract barrier: no lane returns from its
\* k-th call before every lane has made its k-th call, whatever wakes it and
\* however far the generation has wrapped.
THEOREM BarrierRefinement == Spec => ImplementsBarrier
<1>. QED  BY RefineInit, RefineStep, BarrierInvariance, PTL
          DEF Spec, ImplementsBarrier, Abstract!SafeSpec

=============================================================================
