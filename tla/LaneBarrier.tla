----------------------------- MODULE LaneBarrier -----------------------------
(***************************************************************************)
(* bbb_barrier_wait (runtime/bbb_thread.c; os_barrier_wait in base/base.c  *)
(* is the same algorithm): the hand-written barrier a `parallel` body      *)
(* reaches through lane_sync.                                              *)
(*                                                                         *)
(* Every access to the barrier is made with its mutex held, so a critical  *)
(* section is one step: from the lock, or from the return of a             *)
(* pthread_cond_wait, to the next wait or to the unlock.                   *)
(***************************************************************************)
EXTENDS Naturals, FiniteSets

CONSTANTS LaneCount,  \* the count the barrier is allocated with
          GenSize,    \* the generation is a u32: GenSize = 2^32 in the code
          MaxRounds   \* bound: how often each lane waits

ASSUME LaneCountAssumption == LaneCount \in Nat \ {0}
ASSUME GenSizeAssumption == GenSize \in Nat /\ GenSize >= 2
ASSUME MaxRoundsAssumption == MaxRounds \in Nat

Lanes == 0 .. LaneCount - 1

VARIABLES waiting, generation,   \* the barrier's own fields
          pc,                    \* each lane: out, asleep, woken or leaving
          gen,                   \* each lane's local: the generation it saw
          arrivals, departures,  \* history: calls made and calls returned
          rounds                 \* history: rounds closed so far

history == <<arrivals, departures, rounds>>
vars == <<waiting, generation, pc, gen, history>>

\* The u32 increment.
NextGen(g) == IF g + 1 = GenSize THEN 0 ELSE g + 1

Init ==
  /\ waiting = 0 /\ generation = 0
  /\ pc = [l \in Lanes |-> "out"]
  /\ gen = [l \in Lanes |-> 0]
  /\ arrivals = [l \in Lanes |-> 0]
  /\ departures = [l \in Lanes |-> 0]
  /\ rounds = 0

Enter(l) ==
  /\ pc[l] = "out"
  /\ arrivals[l] < MaxRounds
  /\ gen' = [gen EXCEPT ![l] = generation]
  /\ arrivals' = [arrivals EXCEPT ![l] = arrivals[l] + 1]
  /\ UNCHANGED departures

\* An arrival that is not the last goes to sleep.
ArriveEarly(l) ==
  /\ Enter(l)
  /\ waiting + 1 # LaneCount
  /\ waiting' = waiting + 1
  /\ pc' = [pc EXCEPT ![l] = "asleep"]
  /\ UNCHANGED <<generation, rounds>>

\* The last arrival resets the barrier for its next use, starts the next
\* generation, and wakes everyone.
ArriveLast(l) ==
  /\ Enter(l)
  /\ waiting + 1 = LaneCount
  /\ waiting' = 0
  /\ generation' = NextGen(generation)
  /\ rounds' = rounds + 1
  /\ pc' = [m \in Lanes |-> IF m = l THEN "leaving"
                            ELSE IF pc[m] = "asleep" THEN "woken" ELSE pc[m]]

\* A condition wait may return for no reason.
SpuriousWakeup(l) ==
  /\ pc[l] = "asleep"
  /\ pc' = [pc EXCEPT ![l] = "woken"]
  /\ UNCHANGED <<waiting, generation, gen, history>>

\* Mutant: `if` in place of `while`, so that any wakeup lets the lane through.
RecheckSkipped(l) ==
  /\ pc[l] = "woken"
  /\ pc' = [pc EXCEPT ![l] = "leaving"]
  /\ UNCHANGED <<waiting, generation, gen, history>>

\* Mutant: the test looks at the number of waiters, which the next round's
\* first arrival has already raised again.
RecheckWaiting(l) ==
  /\ pc[l] = "woken"
  /\ pc' = [pc EXCEPT ![l] = IF waiting # 0 THEN "asleep" ELSE "leaving"]
  /\ UNCHANGED <<waiting, generation, gen, history>>

\* The loop around the wait compares with the generation seen on arrival.
Recheck(l) ==
  /\ pc[l] = "woken"
  /\ pc' = [pc EXCEPT ![l] = IF generation = gen[l] THEN "asleep" ELSE "leaving"]
  /\ UNCHANGED <<waiting, generation, gen, history>>

Leave(l) ==
  /\ pc[l] = "leaving"
  /\ pc' = [pc EXCEPT ![l] = "out"]
  /\ departures' = [departures EXCEPT ![l] = departures[l] + 1]
  /\ UNCHANGED <<waiting, generation, gen, arrivals, rounds>>

\* All lanes have returned from their last wait.
Finished ==
  /\ \A l \in Lanes : pc[l] = "out" /\ arrivals[l] = MaxRounds
  /\ UNCHANGED vars

LaneStep(l) == ArriveEarly(l) \/ ArriveLast(l) \/ Recheck(l) \/ Leave(l)

Next == Finished \/ \E l \in Lanes : LaneStep(l) \/ SpuriousWakeup(l)

\* Lanes are scheduled, and every lane makes the same number of waits.
Spec == Init /\ [][Next]_vars /\ \A l \in Lanes : WF_vars(LaneStep(l))

-----------------------------------------------------------------------------
Abstract == INSTANCE AbstractBarrier

\* Steps of the barrier are arrivals, departures of lanes all lanes have
\* caught up with, or invisible: neither a spurious wakeup nor a fast lane
\* that is already in the next round lets a lane fall through early.
ImplementsBarrier == Abstract!SafeSpec

\* ... and a lane everyone has caught up with does return, even when the
\* others race ahead and the 32-bit generation wraps around.
ImplementsFairBarrier == Abstract!Spec

\* The lanes that have arrived in the round that is still open.
InOpenRound == {l \in Lanes : arrivals[l] = rounds + 1}

\* Types; in particular the waiter count stays below the lane count, so the
\* last arrival's test for equality cannot be jumped over.
TypeOK ==
  /\ waiting \in 0 .. LaneCount - 1
  /\ generation \in 0 .. GenSize - 1
  /\ pc \in [Lanes -> {"out", "asleep", "woken", "leaving"}]
  /\ gen \in [Lanes -> 0 .. GenSize - 1]
  /\ arrivals \in [Lanes -> Nat]
  /\ departures \in [Lanes -> Nat]
  /\ rounds \in Nat

\* Where a lane is says how many rounds it has been through.  A woken lane of
\* the last closed round remembers the generation just before the current
\* one: no lane is two rounds behind, so the wrap of the 32-bit generation
\* cannot make an old one look current.
LaneInv ==
  \A l \in Lanes :
    /\ pc[l] = "out" => arrivals[l] = rounds /\ departures[l] = rounds
    /\ pc[l] = "asleep" =>
         arrivals[l] = rounds + 1 /\ departures[l] = rounds /\ gen[l] = generation
    /\ pc[l] = "woken" =>
         \/ arrivals[l] = rounds + 1 /\ departures[l] = rounds /\ gen[l] = generation
         \/ /\ arrivals[l] = rounds /\ departures[l] + 1 = rounds
            /\ generation = NextGen(gen[l])
    /\ pc[l] = "leaving" => arrivals[l] = rounds /\ departures[l] + 1 = rounds

\* The inductive invariant: bbb_barrier_wait's `waiting` is the number of
\* lanes in the open round, and every lane is in the open round or in the one
\* before it.
BarrierInv ==
  /\ TypeOK
  /\ LaneInv
  /\ waiting = Cardinality(InOpenRound)

=============================================================================
