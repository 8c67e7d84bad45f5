--------------------------- MODULE LanePoolProofs ---------------------------
(***************************************************************************)
(* The lane pool's safety for every number of cores, every number of       *)
(* phases, and with or without timed-out waits.  The invariant is IndInv;  *)
(* there is one lemma per part of it, and in each lemma one step per group *)
(* of actions that go together in the code.                                *)
(***************************************************************************)
EXTENDS LanePool, FiniteSetTheorems, TLAPS

\* The groups: main preparing a phase, waking the lanes, awaiting the phase,
\* stopping the pool; a lane waiting for work, leaving the wait, running the
\* body, publishing the completion.  Launch, StoreGeneration, LeaveParallel
\* and LaneCountDone stand alone.

Prepare == EnterParallel \/ StoreFn \/ StoreCount
Wake == LockStart \/ SignalStart
Await == LockWait \/ CheckDone \/ SleepDone \/ DoneTimeout \/ DropWait
Stop == RaiseExit \/ LockExit \/ SignalExit \/ Join
Idle(l) == LaneLock(l) \/ LaneCheckGeneration(l) \/ LaneCheckExit(l) \/ LaneSleep(l) \/ LaneTimeout(l)
Start(l) == LaneDrop(l) \/ LaneTestExit(l) \/ LaneLoadGeneration(l)
RunBody(l) == LaneLoadFn(l) \/ LaneEnterBody(l) \/ LaneLeaveBody(l)
Publish(l) == LaneLockDone(l) \/ LaneStoreCompleted(l) \/ LaneSignalDone(l)

\* The lanes of a pool of n can be counted, and a set of lanes that has n
\* elements is all of them (the test `done == lane_count`).
LEMMA LaneSetCount ==
  ASSUME NEW n \in Nat, NEW S \in SUBSET (0 .. n - 1)
  PROVE  /\ IsFiniteSet(S)
         /\ Cardinality(S) \in 0 .. n
         /\ Cardinality(S) = n => S = 0 .. n - 1
<1>1. IsFiniteSet(0 .. n - 1) /\ Cardinality(0 .. n - 1) = n
  BY FS_Interval
<1>2. /\ IsFiniteSet(S)
      /\ Cardinality(S) <= Cardinality(0 .. n - 1)
      /\ Cardinality(0 .. n - 1) = Cardinality(S) => 0 .. n - 1 = S
  BY <1>1, FS_Subset
<1>3. Cardinality(S) \in Nat
  BY <1>2, FS_CardinalityType
<1>. QED  BY <1>1, <1>2, <1>3

\* One more lane in the set is one more in the count (the fetch-and-add of a
\* lane that was not counted yet).
LEMMA LaneSetAdd ==
  ASSUME NEW n \in Nat, NEW S \in SUBSET (0 .. n - 1),
         NEW l \in 0 .. n - 1, l \notin S
  PROVE  Cardinality(S \cup {l}) = Cardinality(S) + 1
<1>1. IsFiniteSet(S)
  BY LaneSetCount
<1>. QED  BY <1>1, FS_AddElement

\* Facts about the thread identifiers.
LEMMA LaneFacts ==
  /\ LaneCount \in Nat \ {0} /\ Null = 0
  /\ Main \in Threads /\ Main \notin Lanes /\ NoThread \notin Lanes /\ Main # NoThread
  /\ \A l \in Lanes : l \in Nat /\ l \in Threads /\ l # Main /\ l # NoThread
  /\ \A l \in Lanes : l < LaneCount
  /\ \A i \in Nat : i < LaneCount => i \in Lanes
  BY CoresAssumption DEF LaneCount, Lanes, Main, NoThread, Threads, Null

\* A full count means that no lane is still at work (done == lane_count).
LEMMA AllCounted ==
  ASSUME CountInv, InPhase, doneCount = LaneCount
  PROVE  \A l \in Lanes : lastSeen[l] = generation /\ ~Working(l)
<1>1. Counted \in SUBSET (0 .. LaneCount - 1) /\ LaneCount \in Nat
  BY LaneFacts DEF Counted, Lanes
<1>2. Cardinality(Counted) = LaneCount
  BY DEF CountInv
<1>3. Counted = Lanes
  BY <1>1, <1>2, LaneSetCount DEF Lanes
<1>. QED  BY <1>3 DEF Counted

\* A lane that is about to count itself is not counted yet, so the count has
\* room for it and the phase is not complete.
LEMMA NotYetCounted ==
  ASSUME TypeOK, LaneInv, CountInv, NEW l \in Lanes, lanePc[l] = "count"
  PROVE  /\ InPhase /\ lastSeen[l] = generation
         /\ Cardinality(Counted \cup {l}) = doneCount + 1
         /\ doneCount < LaneCount /\ completed # generation
<1>1. InPhase /\ lastSeen[l] = generation /\ Working(l)
  BY DEF LaneInv, Working
<1>2. Counted \in SUBSET (0 .. LaneCount - 1) /\ LaneCount \in Nat /\ l \in 0 .. LaneCount - 1
  BY LaneFacts DEF Counted, Lanes
<1>3. l \notin Counted /\ doneCount = Cardinality(Counted)
  BY <1>1 DEF Counted, CountInv
<1>4. Cardinality(Counted \cup {l}) = doneCount + 1
  BY <1>2, <1>3, LaneSetAdd
<1>5. Counted \cup {l} \in SUBSET (0 .. LaneCount - 1)
  BY <1>2
<1>6. doneCount + 1 \in 0 .. LaneCount
  BY <1>2, <1>4, <1>5, LaneSetCount
<1>7. doneCount \in Nat
  BY DEF TypeOK
<1>. QED  BY <1>1, <1>2, <1>4, <1>6, <1>7 DEF CountInv

-----------------------------------------------------------------------------
\* The pool as async_threads_init leaves it satisfies the invariant.
LEMMA IndInit == Init => IndInv
<1>. SUFFICES ASSUME Init PROVE IndInv
  OBVIOUS
<1>. USE LaneFacts DEF Init
<1>1. TypeOK
  <2>1. doneCount \in 0 .. LaneCount /\ idx \in 0 .. LaneCount
    OBVIOUS
  <2>2. mutex \in Threads \cup {NoThread} /\ startQ \in SUBSET Lanes
    OBVIOUS
  <2>. QED  BY <2>1, <2>2 DEF TypeOK, MainPcs, LanePcs
<1>2. MutexInv /\ MainInv
  BY DEF MutexInv, MainInv, InPhase
<1>3. LaneInv /\ CountInv /\ PublishInv /\ WakeupInv
  BY DEF LaneInv, CountInv, PublishInv, WakeupInv, InPhase, Working, Publishing
<1>. QED  BY <1>1, <1>2, <1>3 DEF IndInv

\* The types are kept.
LEMMA TypeOKStep == IndInv /\ [Next]_vars => TypeOK'
<1>. SUFFICES ASSUME TypeOK, MutexInv, MainInv, LaneInv, CountInv, PublishInv, WakeupInv,
                    [Next]_vars
              PROVE  TypeOK'
  BY DEF IndInv
<1>. USE LaneFacts DEF shared, sync, job, main, laneLocals, MainAt, LaneAt, Take, Drop, BroadcastStart,
            TypeOK, MainPcs, LanePcs, MainInv
<1>1. CASE Launch
  BY <1>1 DEF Launch
<1>2. CASE Prepare
  BY <1>2 DEF Prepare, EnterParallel, StoreFn, StoreCount
<1>3. CASE StoreGeneration
  BY <1>3 DEF StoreGeneration
<1>4. CASE Wake
  BY <1>4 DEF Wake, LockStart, SignalStart
<1>5. CASE Await
  BY <1>5 DEF Await, LockWait, CheckDone, SleepDone, DoneTimeout, DropWait
<1>6. CASE LeaveParallel
  BY <1>6 DEF LeaveParallel
<1>7. CASE Stop
  <2>1. CASE RaiseExit
    BY <2>1 DEF RaiseExit
  <2>2. CASE LockExit
    BY <2>2 DEF LockExit
  <2>3. CASE SignalExit
    BY <2>3 DEF SignalExit
  <2>4. CASE Join
    BY <2>4 DEF Join
  <2>. QED  BY <1>7, <2>1, <2>2, <2>3, <2>4 DEF Stop
<1>9. ASSUME NEW l \in Lanes, LaneCountDone(l) PROVE TypeOK'
  <2>1. InPhase /\ doneCount < LaneCount /\ completed # generation
    BY <1>9, NotYetCounted DEF LaneCountDone
  <2>. QED  BY <1>9, <2>1 DEF LaneCountDone
<1>10. ASSUME NEW l \in Lanes, Idle(l) PROVE TypeOK'
  BY <1>10 DEF Idle, LaneLock, LaneCheckGeneration, LaneCheckExit, LaneSleep, LaneTimeout
<1>11. ASSUME NEW l \in Lanes, Start(l) PROVE TypeOK'
  BY <1>11 DEF Start, LaneDrop, LaneTestExit, LaneLoadGeneration
<1>12. ASSUME NEW l \in Lanes, RunBody(l) PROVE TypeOK'
  BY <1>12 DEF RunBody, LaneLoadFn, LaneEnterBody, LaneLeaveBody
<1>13. ASSUME NEW l \in Lanes, Publish(l) PROVE TypeOK'
  <2>1. CASE LaneLockDone(l)
    BY <2>1 DEF LaneLockDone
  <2>2. CASE LaneStoreCompleted(l)
    BY <2>2 DEF LaneStoreCompleted
  <2>3. CASE LaneSignalDone(l)
    BY <2>3 DEF LaneSignalDone
  <2>. QED  BY <1>13, <2>1, <2>2, <2>3 DEF Publish
<1>8. CASE UNCHANGED vars
  BY <1>8 DEF vars
<1>. QED  BY <1>1, <1>2, <1>3, <1>4, <1>5, <1>6, <1>7, <1>9, <1>10, <1>11, <1>12, <1>13, <1>8
          DEF Next, MainStep, LaneStep, Released, Prepare, Wake, Await, Stop, Idle, Start, RunBody, Publish

\* The mutex is held exactly between a take and a drop.
LEMMA MutexInvStep == IndInv /\ [Next]_vars => MutexInv'
<1>. SUFFICES ASSUME TypeOK, MutexInv, MainInv, LaneInv, CountInv, PublishInv, WakeupInv,
                    [Next]_vars
              PROVE  MutexInv'
  BY DEF IndInv
<1>. USE LaneFacts DEF shared, sync, job, main, laneLocals, MainAt, LaneAt, Take, Drop, BroadcastStart,
            TypeOK, MutexInv
<1>1. CASE Launch
  BY <1>1 DEF Launch, LaneInv, MainInv
<1>2. CASE Prepare
  BY <1>2 DEF Prepare, EnterParallel, StoreFn, StoreCount
<1>3. CASE StoreGeneration
  BY <1>3 DEF StoreGeneration
<1>4. CASE Wake
  BY <1>4 DEF Wake, LockStart, SignalStart
<1>5. CASE Await
  BY <1>5 DEF Await, LockWait, CheckDone, SleepDone, DoneTimeout, DropWait
<1>6. CASE LeaveParallel
  BY <1>6 DEF LeaveParallel
<1>7. CASE Stop
  BY <1>7 DEF Stop, RaiseExit, LockExit, SignalExit, Join
<1>9. ASSUME NEW l \in Lanes, LaneCountDone(l) PROVE MutexInv'
  BY <1>9 DEF LaneCountDone
<1>10. ASSUME NEW l \in Lanes, Idle(l) PROVE MutexInv'
  BY <1>10 DEF Idle, LaneLock, LaneCheckGeneration, LaneCheckExit, LaneSleep, LaneTimeout
<1>11. ASSUME NEW l \in Lanes, Start(l) PROVE MutexInv'
  BY <1>11 DEF Start, LaneDrop, LaneTestExit, LaneLoadGeneration
<1>12. ASSUME NEW l \in Lanes, RunBody(l) PROVE MutexInv'
  BY <1>12 DEF RunBody, LaneLoadFn, LaneEnterBody, LaneLeaveBody
<1>13. ASSUME NEW l \in Lanes, Publish(l) PROVE MutexInv'
  BY <1>13 DEF Publish, LaneLockDone, LaneStoreCompleted, LaneSignalDone
<1>8. CASE UNCHANGED vars
  BY <1>8 DEF vars
<1>. QED  BY <1>1, <1>2, <1>3, <1>4, <1>5, <1>6, <1>7, <1>9, <1>10, <1>11, <1>12, <1>13, <1>8
          DEF Next, MainStep, LaneStep, Released, Prepare, Wake, Await, Stop, Idle, Start, RunBody, Publish

\* What main has published follows from where it is.
LEMMA MainInvStep == IndInv /\ [Next]_vars => MainInv'
<1>. SUFFICES ASSUME TypeOK, MutexInv, MainInv, LaneInv, CountInv, PublishInv, WakeupInv,
                    [Next]_vars
              PROVE  MainInv'
  BY DEF IndInv
<1>. USE LaneFacts DEF shared, sync, job, main, laneLocals, MainAt, LaneAt, Take, Drop, BroadcastStart,
            TypeOK, MainInv, MutexInv, InPhase
<1>1. CASE Launch
  BY <1>1 DEF Launch
<1>2. CASE Prepare
  BY <1>2 DEF Prepare, EnterParallel, StoreFn, StoreCount
<1>3. CASE StoreGeneration
  BY <1>3 DEF StoreGeneration
<1>4. CASE Wake
  BY <1>4 DEF Wake, LockStart, SignalStart
<1>5. CASE Await
  BY <1>5 DEF Await, LockWait, CheckDone, SleepDone, DoneTimeout, DropWait
<1>6. CASE LeaveParallel
  BY <1>6 DEF LeaveParallel
<1>7. CASE Stop
  BY <1>7 DEF Stop, RaiseExit, LockExit, SignalExit, Join
<1>9. ASSUME NEW l \in Lanes, LaneCountDone(l) PROVE MainInv'
  <2>1. InPhase /\ doneCount < LaneCount /\ completed # generation
    BY <1>9, NotYetCounted DEF LaneCountDone
  <2>. QED  BY <1>9, <2>1 DEF LaneCountDone
<1>10. ASSUME NEW l \in Lanes, Idle(l) PROVE MainInv'
  BY <1>10 DEF Idle, LaneLock, LaneCheckGeneration, LaneCheckExit, LaneSleep, LaneTimeout
<1>11. ASSUME NEW l \in Lanes, Start(l) PROVE MainInv'
  BY <1>11 DEF Start, LaneDrop, LaneTestExit, LaneLoadGeneration
<1>12. ASSUME NEW l \in Lanes, RunBody(l) PROVE MainInv'
  BY <1>12 DEF RunBody, LaneLoadFn, LaneEnterBody, LaneLeaveBody
<1>13. ASSUME NEW l \in Lanes, Publish(l) PROVE MainInv'
  BY <1>13 DEF Publish, LaneLockDone, LaneStoreCompleted, LaneSignalDone
<1>8. CASE UNCHANGED vars
  BY <1>8 DEF vars
<1>. QED  BY <1>1, <1>2, <1>3, <1>4, <1>5, <1>6, <1>7, <1>9, <1>10, <1>11, <1>12, <1>13, <1>8
          DEF Next, MainStep, LaneStep, Released, Prepare, Wake, Await, Stop, Idle, Start, RunBody, Publish

\* How far a lane is follows from where it is.
LEMMA LaneInvStep == IndInv /\ [Next]_vars => LaneInv'
<1>. SUFFICES ASSUME TypeOK, MutexInv, MainInv, LaneInv, CountInv, PublishInv, WakeupInv,
                    [Next]_vars
              PROVE  LaneInv'
  BY DEF IndInv
<1>. USE LaneFacts DEF shared, sync, job, main, laneLocals, MainAt, LaneAt, Take, Drop, BroadcastStart,
            TypeOK, MainInv, LaneInv, MutexInv, InPhase, Working, Publishing
<1>1. CASE Launch
  BY <1>1 DEF Launch
<1>2. CASE Prepare
  BY <1>2 DEF Prepare, EnterParallel, StoreFn, StoreCount
<1>3. CASE StoreGeneration
  BY <1>3 DEF StoreGeneration, PublishInv
<1>4. CASE Wake
  BY <1>4 DEF Wake, LockStart, SignalStart
<1>5. CASE Await
  BY <1>5 DEF Await, LockWait, CheckDone, SleepDone, DoneTimeout, DropWait
<1>6. CASE LeaveParallel
  <2>1. \A l \in Lanes : lastSeen[l] = generation /\ lanePc[l] \notin {"loadFn", "call", "body", "count"}
    BY <1>6, AllCounted DEF LeaveParallel, CountInv
  <2>. QED  BY <1>6, <2>1 DEF LeaveParallel
<1>7. CASE Stop
  BY <1>7 DEF Stop, RaiseExit, LockExit, SignalExit, Join
<1>9. ASSUME NEW l \in Lanes, LaneCountDone(l) PROVE LaneInv'
  BY <1>9 DEF LaneCountDone
<1>10. ASSUME NEW l \in Lanes, Idle(l) PROVE LaneInv'
  BY <1>10 DEF Idle, LaneLock, LaneCheckGeneration, LaneCheckExit, LaneSleep, LaneTimeout
<1>11. ASSUME NEW l \in Lanes, Start(l) PROVE LaneInv'
  BY <1>11 DEF Start, LaneDrop, LaneTestExit, LaneLoadGeneration
<1>12. ASSUME NEW l \in Lanes, RunBody(l) PROVE LaneInv'
  BY <1>12 DEF RunBody, LaneLoadFn, LaneEnterBody, LaneLeaveBody
<1>13. ASSUME NEW l \in Lanes, Publish(l) PROVE LaneInv'
  BY <1>13 DEF Publish, LaneLockDone, LaneStoreCompleted, LaneSignalDone
<1>8. CASE UNCHANGED vars
  BY <1>8 DEF vars
<1>. QED  BY <1>1, <1>2, <1>3, <1>4, <1>5, <1>6, <1>7, <1>9, <1>10, <1>11, <1>12, <1>13, <1>8
          DEF Next, MainStep, LaneStep, Released, Prepare, Wake, Await, Stop, Idle, Start, RunBody, Publish

\* One lane publishes.
LEMMA PublishInvStep == IndInv /\ [Next]_vars => PublishInv'
<1>. SUFFICES ASSUME TypeOK, MutexInv, MainInv, LaneInv, CountInv, PublishInv, WakeupInv,
                    [Next]_vars
              PROVE  PublishInv'
  BY DEF IndInv
<1>. USE LaneFacts DEF shared, sync, job, main, laneLocals, MainAt, LaneAt, Take, Drop, BroadcastStart,
            TypeOK, MutexInv, CountInv, PublishInv, InPhase, Publishing
<1>1. CASE Launch
  BY <1>1 DEF Launch
<1>2. CASE Prepare
  BY <1>2 DEF Prepare, EnterParallel, StoreFn, StoreCount
<1>3. CASE StoreGeneration
  BY <1>3 DEF StoreGeneration
<1>4. CASE Wake
  BY <1>4 DEF Wake, LockStart, SignalStart
<1>5. CASE Await
  BY <1>5 DEF Await, LockWait, CheckDone, SleepDone, DoneTimeout, DropWait
<1>6. CASE LeaveParallel
  BY <1>6 DEF LeaveParallel
<1>7. CASE Stop
  BY <1>7 DEF Stop, RaiseExit, LockExit, SignalExit, Join
<1>9. ASSUME NEW l \in Lanes, LaneCountDone(l) PROVE PublishInv'
  <2>1. InPhase /\ doneCount < LaneCount /\ completed # generation
    BY <1>9, NotYetCounted DEF LaneCountDone
  <2>. QED  BY <1>9, <2>1 DEF LaneCountDone
<1>10. ASSUME NEW l \in Lanes, Idle(l) PROVE PublishInv'
  BY <1>10 DEF Idle, LaneLock, LaneCheckGeneration, LaneCheckExit, LaneSleep, LaneTimeout
<1>11. ASSUME NEW l \in Lanes, Start(l) PROVE PublishInv'
  BY <1>11 DEF Start, LaneDrop, LaneTestExit, LaneLoadGeneration
<1>12. ASSUME NEW l \in Lanes, RunBody(l) PROVE PublishInv'
  BY <1>12 DEF RunBody, LaneLoadFn, LaneEnterBody, LaneLeaveBody
<1>13. ASSUME NEW l \in Lanes, Publish(l) PROVE PublishInv'
  BY <1>13 DEF LaneInv, Publish, LaneLockDone, LaneStoreCompleted, LaneSignalDone
<1>8. CASE UNCHANGED vars
  BY <1>8 DEF vars
<1>. QED  BY <1>1, <1>2, <1>3, <1>4, <1>5, <1>6, <1>7, <1>9, <1>10, <1>11, <1>12, <1>13, <1>8
          DEF Next, MainStep, LaneStep, Released, Prepare, Wake, Await, Stop, Idle, Start, RunBody, Publish

\* No lane sleeps through a broadcast.
LEMMA WakeupInvStep == IndInv /\ [Next]_vars => WakeupInv'
<1>. SUFFICES ASSUME TypeOK, MutexInv, MainInv, LaneInv, CountInv, PublishInv, WakeupInv,
                    [Next]_vars
              PROVE  WakeupInv'
  BY DEF IndInv
<1>. USE LaneFacts DEF shared, sync, job, main, laneLocals, MainAt, LaneAt, Take, Drop, BroadcastStart,
            TypeOK, MutexInv, MainInv, LaneInv, WakeupInv, InPhase
<1>1. CASE Launch
  BY <1>1 DEF Launch
<1>2. CASE Prepare
  BY <1>2 DEF Prepare, EnterParallel, StoreFn, StoreCount
<1>3. CASE StoreGeneration
  BY <1>3 DEF StoreGeneration
<1>4. CASE Wake
  BY <1>4 DEF Wake, LockStart, SignalStart
<1>5. CASE Await
  BY <1>5 DEF Await, LockWait, CheckDone, SleepDone, DoneTimeout, DropWait
<1>6. CASE LeaveParallel
  BY <1>6 DEF LeaveParallel
<1>7. CASE Stop
  BY <1>7 DEF Stop, RaiseExit, LockExit, SignalExit, Join
<1>9. ASSUME NEW l \in Lanes, LaneCountDone(l) PROVE WakeupInv'
  BY <1>9 DEF LaneCountDone
<1>10. ASSUME NEW l \in Lanes, Idle(l) PROVE WakeupInv'
  BY <1>10 DEF Idle, LaneLock, LaneCheckGeneration, LaneCheckExit, LaneSleep, LaneTimeout
<1>11. ASSUME NEW l \in Lanes, Start(l) PROVE WakeupInv'
  BY <1>11 DEF Start, LaneDrop, LaneTestExit, LaneLoadGeneration
<1>12. ASSUME NEW l \in Lanes, RunBody(l) PROVE WakeupInv'
  BY <1>12 DEF RunBody, LaneLoadFn, LaneEnterBody, LaneLeaveBody
<1>13. ASSUME NEW l \in Lanes, Publish(l) PROVE WakeupInv'
  BY <1>13 DEF Publish, LaneLockDone, LaneStoreCompleted, LaneSignalDone
<1>8. CASE UNCHANGED vars
  BY <1>8 DEF vars
<1>. QED  BY <1>1, <1>2, <1>3, <1>4, <1>5, <1>6, <1>7, <1>9, <1>10, <1>11, <1>12, <1>13, <1>8
          DEF Next, MainStep, LaneStep, Released, Prepare, Wake, Await, Stop, Idle, Start, RunBody, Publish

-----------------------------------------------------------------------------
\* The steps that leave the set of counted lanes alone: all but the one that
\* opens a new generation and the one that counts a lane.
LEMMA CountedSame ==
  ASSUME TypeOK, MutexInv, MainInv, LaneInv, NEW l \in Lanes,
         \/ Launch \/ Prepare \/ Wake \/ Await \/ LeaveParallel \/ Stop
         \/ Idle(l) \/ Start(l) \/ RunBody(l) \/ Publish(l)
  PROVE  Counted' = Counted
<1>. USE LaneFacts DEF shared, sync, job, main, laneLocals, MainAt, LaneAt, BroadcastStart,
            TypeOK, LaneInv, Working, Counted
<1>1. CASE Launch \/ LeaveParallel
  BY <1>1 DEF Launch, LeaveParallel, MainInv
<1>2. CASE Prepare \/ Wake
  BY <1>2 DEF Prepare, EnterParallel, StoreFn, StoreCount, Wake, LockStart, SignalStart, MutexInv
<1>3. CASE Await
  BY <1>3 DEF Await, LockWait, CheckDone, SleepDone, DoneTimeout, DropWait
<1>4. CASE Stop
  BY <1>4 DEF Stop, RaiseExit, LockExit, SignalExit, Join, MutexInv
<1>5. CASE Idle(l)
  BY <1>5 DEF Idle, LaneLock, LaneCheckGeneration, LaneCheckExit, LaneSleep, LaneTimeout
<1>6. CASE Start(l)
  BY <1>6 DEF Start, LaneDrop, LaneTestExit, LaneLoadGeneration
<1>7. CASE RunBody(l)
  BY <1>7 DEF RunBody, LaneLoadFn, LaneEnterBody, LaneLeaveBody
<1>8. CASE Publish(l)
  BY <1>8 DEF Publish, LaneLockDone, LaneStoreCompleted, LaneSignalDone
<1>. QED  BY <1>1, <1>2, <1>3, <1>4, <1>5, <1>6, <1>7, <1>8

\* The done count is the number of lanes that are through with the phase.
LEMMA CountInvStep == IndInv /\ [Next]_vars => CountInv'
<1>. SUFFICES ASSUME TypeOK, MutexInv, MainInv, LaneInv, CountInv, PublishInv, WakeupInv,
                    [Next]_vars
              PROVE  CountInv'
  BY DEF IndInv
<1>0. PICK k \in Lanes : TRUE
  BY LaneFacts
<1>. USE LaneFacts DEF shared, sync, job, main, laneLocals, MainAt, LaneAt, Take, Drop, BroadcastStart,
            TypeOK, MutexInv, MainInv, LaneInv, CountInv, PublishInv, InPhase, Publishing
<1>1. CASE Launch
  <2>1. Counted' = Counted
    BY <1>1, <1>0, CountedSame
  <2>. QED  BY <1>1, <2>1 DEF Launch
<1>2. CASE Prepare
  <2>1. Counted' = Counted
    BY <1>2, <1>0, CountedSame
  <2>. QED  BY <1>2, <2>1 DEF Prepare, EnterParallel, StoreFn, StoreCount
<1>3. CASE StoreGeneration
  <2>1. Counted' = {}
    BY <1>3 DEF Counted, StoreGeneration
  <2>2. Cardinality(Counted') = 0
    BY <2>1, FS_EmptySet
  <2>. QED  BY <1>3, <2>2 DEF StoreGeneration
<1>4. CASE Wake
  <2>1. Counted' = Counted
    BY <1>4, <1>0, CountedSame
  <2>. QED  BY <1>4, <2>1 DEF Wake, LockStart, SignalStart
<1>5. CASE Await
  <2>1. Counted' = Counted
    BY <1>5, <1>0, CountedSame
  <2>. QED  BY <1>5, <2>1 DEF Await, LockWait, CheckDone, SleepDone, DoneTimeout, DropWait
<1>6. CASE LeaveParallel
  <2>1. Counted' = Counted
    BY <1>6, <1>0, CountedSame
  <2>. QED  BY <1>6, <2>1 DEF LeaveParallel
<1>7. CASE Stop
  <2>1. Counted' = Counted
    BY <1>7, <1>0, CountedSame
  <2>. QED  BY <1>7, <2>1 DEF Stop, RaiseExit, LockExit, SignalExit, Join
<1>9. ASSUME NEW l \in Lanes, LaneCountDone(l) PROVE CountInv'
  <2>1. /\ InPhase /\ lastSeen[l] = generation /\ completed # generation
        /\ Cardinality(Counted \cup {l}) = doneCount + 1
    BY <1>9, NotYetCounted DEF LaneCountDone
  <2>2. Counted' = Counted \cup {l}
    BY <1>9, <2>1 DEF Counted, Working, LaneCountDone
  <2>. QED  BY <1>9, <2>1, <2>2 DEF LaneCountDone
<1>10. ASSUME NEW l \in Lanes, Idle(l) PROVE CountInv'
  <2>1. Counted' = Counted
    BY <1>10, CountedSame
  <2>. QED  BY <1>10, <2>1 DEF Idle, LaneLock, LaneCheckGeneration, LaneCheckExit, LaneSleep, LaneTimeout
<1>11. ASSUME NEW l \in Lanes, Start(l) PROVE CountInv'
  <2>1. Counted' = Counted
    BY <1>11, CountedSame
  <2>. QED  BY <1>11, <2>1 DEF Start, LaneDrop, LaneTestExit, LaneLoadGeneration
<1>12. ASSUME NEW l \in Lanes, RunBody(l) PROVE CountInv'
  <2>1. Counted' = Counted
    BY <1>12, CountedSame
  <2>. QED  BY <1>12, <2>1 DEF RunBody, LaneLoadFn, LaneEnterBody, LaneLeaveBody
<1>13. ASSUME NEW l \in Lanes, Publish(l) PROVE CountInv'
  <2>1. Counted' = Counted
    BY <1>13, CountedSame
  <2>. QED  BY <1>13, <2>1 DEF Publish, LaneLockDone, LaneStoreCompleted, LaneSignalDone
<1>8. CASE UNCHANGED vars
  BY <1>8 DEF vars, Counted, Working
<1>. QED  BY <1>1, <1>2, <1>3, <1>4, <1>5, <1>6, <1>7, <1>9, <1>10, <1>11, <1>12, <1>13, <1>8
          DEF Next, MainStep, LaneStep, Released, Prepare, Wake, Await, Stop, Idle, Start, RunBody, Publish

-----------------------------------------------------------------------------
\* The inductive invariant of the pool, for every number of cores and phases.
THEOREM PoolInvariance == Spec => []IndInv
<1>1. IndInv /\ [Next]_vars => IndInv'
  BY TypeOKStep, MutexInvStep, MainInvStep, LaneInvStep, CountInvStep, PublishInvStep,
     WakeupInvStep DEF IndInv
<1>. QED  BY IndInit, <1>1, PTL DEF Spec

\* Types: in particular the done count never passes lane_count.
THEOREM PoolTypes == Spec => []TypeOK
<1>1. IndInv => TypeOK
  BY DEF IndInv
<1>. QED  BY <1>1, PoolInvariance, PTL

\* The assertion at the head of async_run_phase never fails.
THEOREM PhasesDoNotOverlap == Spec => []PreviousPhaseComplete
<1>1. IndInv => PreviousPhaseComplete
  BY DEF IndInv, TypeOK, PreviousPhaseComplete, LaneInv, CountInv, PublishInv, InPhase,
         Working, Publishing
<1>. QED  BY <1>1, PoolInvariance, PTL

\* No lane runs a phase body on captures that have left main's stack, or on
\* the captures of another phase.
THEOREM CapturesOutliveBodies == Spec => []BodyUsesLiveCaptures
<1>1. IndInv => BodyUsesLiveCaptures
  BY LaneFacts DEF IndInv, TypeOK, BodyUsesLiveCaptures, MainInv, LaneInv, Working
<1>. QED  BY <1>1, PoolInvariance, PTL

\* No thread is left asleep on a condition that holds: the timeouts of the
\* condition waits are never what makes the pool advance.
THEOREM WakeupsAreNotLost == Spec => []NoLostWakeup
<1>1. IndInv => NoLostWakeup
  BY DEF IndInv, TypeOK, NoLostWakeup, MutexInv, PublishInv, WakeupInv
<1>. QED  BY <1>1, PoolInvariance, PTL

-----------------------------------------------------------------------------
\* No phase has run on a new pool.
LEMMA ForkJoinInit == Init => FJ!Init
  BY DEF Init, InPhase, FJ!Init

\* Every step of main or of a lane is a fork, a run of a body, a join, or
\* invisible at that level.
LEMMA ForkJoinStep == IndInv /\ [Next]_vars => [FJ!Next]_FJ!vars
<1>. SUFFICES ASSUME TypeOK, MutexInv, MainInv, LaneInv, CountInv, [Next]_vars
              PROVE  [FJ!Next]_FJ!vars
  BY DEF IndInv
<1>. USE LaneFacts DEF shared, sync, job, main, laneLocals, MainAt, LaneAt, FJ!vars, InPhase
<1>1. CASE StoreGeneration
  <2>1. FJ!Fork
    BY <1>1 DEF StoreGeneration, FJ!Fork
  <2>. QED  BY <2>1 DEF FJ!Next
<1>2. CASE LeaveParallel
  <2>1. \A l \in Lanes : lastSeen[l] = generation /\ ~Working(l)
    BY <1>2, AllCounted DEF LeaveParallel, CountInv
  <2>2. \A l \in Lanes : ran[l] = generation
    BY <2>1 DEF LaneInv, Working
  <2>3. FJ!JoinAll
    BY <1>2, <2>2 DEF LeaveParallel, FJ!JoinAll
  <2>. QED  BY <2>3 DEF FJ!Next
<1>3. ASSUME NEW l \in Lanes, LaneLeaveBody(l) PROVE FJ!Next
  <2>1. InPhase /\ ran[l] + 1 = generation
    BY <1>3 DEF LaneLeaveBody, LaneInv, MainInv, Working, TypeOK
  <2>2. FJ!Run(l)
    BY <1>3, <2>1 DEF LaneLeaveBody, FJ!Run
  <2>. QED  BY <2>2 DEF FJ!Next
<1>4. CASE Launch \/ Prepare \/ Wake \/ Await \/ Stop
  BY <1>4 DEF Launch, Prepare, EnterParallel, StoreFn, StoreCount, Wake, LockStart, SignalStart,
              Await, LockWait, CheckDone, SleepDone, DoneTimeout, DropWait,
              Stop, RaiseExit, LockExit, SignalExit, Join
<1>5. ASSUME NEW l \in Lanes,
             Idle(l) \/ Start(l) \/ LaneLoadFn(l) \/ LaneEnterBody(l) \/ LaneCountDone(l)
      PROVE  UNCHANGED FJ!vars
  BY <1>5 DEF Idle, LaneLock, LaneCheckGeneration, LaneCheckExit, LaneSleep, LaneTimeout,
              Start, LaneDrop, LaneTestExit, LaneLoadGeneration, LaneLoadFn, LaneEnterBody,
              LaneCountDone
<1>6. ASSUME NEW l \in Lanes, Publish(l) PROVE UNCHANGED FJ!vars
  BY <1>6 DEF Publish, LaneLockDone, LaneStoreCompleted, LaneSignalDone, MutexInv
<1>7. CASE UNCHANGED vars
  BY <1>7 DEF vars
<1>. QED  BY <1>1, <1>2, <1>3, <1>4, <1>5, <1>6, <1>7
          DEF Next, MainStep, LaneStep, Released, Prepare, Wake, Await, Stop, Idle, Start, RunBody,
              Publish

\* The pool implements fork/join: every lane runs every phase exactly once,
\* and main leaves a block only after all lanes have.
THEOREM PoolRefinement == Spec => ImplementsForkJoin
<1>. QED  BY ForkJoinInit, ForkJoinStep, PoolInvariance, PTL
          DEF Spec, ImplementsForkJoin, FJ!SafeSpec

=============================================================================
