--------------------------- MODULE LaneCollectives ---------------------------
(***************************************************************************)
(* The collective operations base/base.c builds on the barrier: lane_sync, *)
(* lane_sync_u64 (one lane's value goes to all) and lane_reduce_sum_u64    *)
(* (one lane gets the sum).  They communicate through one shared buffer    *)
(* that is reused by every call, with plain loads and stores.              *)
(*                                                                         *)
(* The barrier is the abstract one, which LaneBarrier implements.  All     *)
(* lanes run the same program, a sequence of collective calls chosen at    *)
(* the start.                                                              *)
(***************************************************************************)
EXTENDS Naturals, Functions

CONSTANTS LaneCount, ProgramLength

ASSUME CollectiveAssumption == LaneCount \in Nat \ {0} /\ ProgramLength \in Nat \ {0}

Lanes == 0 .. LaneCount - 1

Ops == [kind : {"sync"}, root : {0}] \cup [kind : {"broadcast", "reduce"}, root : Lanes]

VARIABLES program,               \* the calls every lane makes, in order
          step, pc,              \* which call a lane is in, and where
          value,                 \* the u64 each lane passes by pointer
          buffer,                \* LaneCtx.broadcast, one cell per lane
          arrivals, departures,  \* the barrier
          before                 \* history: each lane's value as it made a call

vars == <<program, step, pc, value, buffer, arrivals, departures, before>>

Barrier == INSTANCE AbstractBarrier

Init ==
  /\ program \in [1 .. ProgramLength -> Ops]
  /\ step = [l \in Lanes |-> 1]
  /\ pc = [l \in Lanes |-> "enter"]
  /\ value = [l \in Lanes |-> 2 ^ l]
  /\ buffer = [l \in Lanes |-> 0]
  /\ before = [i \in 1 .. ProgramLength |-> [l \in Lanes |-> 0]]
  /\ Barrier!Init

Op(l) == program[step[l]]
Goto(l, to) == pc' = [pc EXCEPT ![l] = to]

\* Before the first barrier: the source of a broadcast fills the first cell
\* (the copy is clamped to eight bytes), every lane of a reduction its own.
Enter(l) ==
  /\ pc[l] = "enter"
  /\ step[l] <= ProgramLength
  /\ before' = [before EXCEPT ![step[l]][l] = value[l]]
  /\ buffer' = IF Op(l).kind = "broadcast" /\ l = Op(l).root THEN [buffer EXCEPT ![0] = value[l]]
               ELSE IF Op(l).kind = "reduce" THEN [buffer EXCEPT ![l] = value[l]]
               ELSE buffer
  /\ Goto(l, "arrive1")
  /\ UNCHANGED <<program, step, value, arrivals, departures>>

Arrive(l) ==
  /\ \/ pc[l] = "arrive1" /\ Goto(l, "depart1")
     \/ pc[l] = "arrive2" /\ Goto(l, "depart2")
  /\ Barrier!Arrive(l)
  /\ UNCHANGED <<program, step, value, buffer, before>>

Depart(l) ==
  /\ \/ pc[l] = "depart1" /\ Goto(l, "use")
     \/ pc[l] = "depart2" /\ Goto(l, "return")
  /\ Barrier!Depart(l)
  /\ UNCHANGED <<program, step, value, buffer, before>>

\* Between the barriers: the others take the first cell, the destination of a
\* reduction adds the cells up; then the second barrier, or none.
UseBuffer(l, oneBarrier) ==
  /\ pc[l] = "use"
  /\ value' = IF Op(l).kind = "broadcast" /\ l # Op(l).root THEN [value EXCEPT ![l] = buffer[0]]
              ELSE IF Op(l).kind = "reduce" /\ l = Op(l).root THEN [value EXCEPT ![l] = SumFunction(buffer)]
              ELSE value
  /\ Goto(l, IF oneBarrier THEN "return" ELSE "arrive2")
  /\ UNCHANGED <<program, step, buffer, arrivals, departures, before>>

\* Mutant: lane_sync_u64 returns without the second barrier.
UseNoSecondBarrier(l) == UseBuffer(l, Op(l).kind # "reduce")

\* Mutant: lane_reduce_sum_u64 returns without the second barrier.
UseReduceReturnsEarly(l) == UseBuffer(l, Op(l).kind # "broadcast")

\* Mutant: only the lanes that copied take the second barrier.
UseRootSkipsBarrier(l) ==
  UseBuffer(l, Op(l).kind = "sync" \/ (Op(l).kind = "broadcast" /\ l = Op(l).root))

\* lane_sync is lane_barrier_wait without a pointer: it has one barrier only.
Use(l) == UseBuffer(l, Op(l).kind = "sync")

Return(l) ==
  /\ pc[l] = "return"
  /\ step' = [step EXCEPT ![l] = step[l] + 1]
  /\ Goto(l, "enter")
  /\ UNCHANGED <<program, value, buffer, arrivals, departures, before>>

\* All lanes have made all their calls.
Finished == (\A l \in Lanes : step[l] > ProgramLength) /\ UNCHANGED vars

LaneStep(l) == Enter(l) \/ Arrive(l) \/ Use(l) \/ Depart(l) \/ Return(l)

Next == Finished \/ \E l \in Lanes : LaneStep(l)

\* Lanes are scheduled.
Spec == Init /\ [][Next]_vars /\ \A l \in Lanes : WF_vars(LaneStep(l))

-----------------------------------------------------------------------------
\* Every lane is somewhere in the program and passes the barrier at most
\* twice per call.
TypeOK ==
  /\ program \in [1 .. ProgramLength -> Ops]
  /\ step \in [Lanes -> 1 .. ProgramLength + 1]
  /\ pc \in [Lanes -> {"enter", "arrive1", "depart1", "use", "arrive2", "depart2", "return"}]
  /\ value \in [Lanes -> Nat] /\ buffer \in [Lanes -> Nat]
  /\ \A l \in Lanes : departures[l] \in 0 .. 2 * ProgramLength

\* What the call does, by its contract.
Expected(i, l) ==
  IF program[i].kind = "broadcast" THEN before[i][program[i].root]
  ELSE IF program[i].kind = "reduce" /\ l = program[i].root THEN SumFunction(before[i])
  ELSE before[i][l]

\* lane_sync_u64 hands every lane the source's value and lane_reduce_sum_u64
\* the sum of all to the destination, although the buffer is shared by all
\* calls and a fast lane may be in the next call already.
CollectivesCorrect ==
  \A l \in Lanes : pc[l] = "return" => value[l] = Expected(step[l], l)

Inside(l) == step[l] <= ProgramLength

\* The buffer cells a lane is about to write, and to read.
Writes(l) ==
  IF pc[l] # "enter" \/ ~Inside(l) THEN {}
  ELSE IF Op(l).kind = "broadcast" /\ l = Op(l).root THEN {0}
  ELSE IF Op(l).kind = "reduce" THEN {l}
  ELSE {}

Reads(l) ==
  IF pc[l] # "use" THEN {}
  ELSE IF Op(l).kind = "broadcast" /\ l # Op(l).root THEN {0}
  ELSE IF Op(l).kind = "reduce" /\ l = Op(l).root THEN Lanes
  ELSE {}

\* The plain accesses to the broadcast buffer never race: the barriers of
\* lane_barrier_wait and lane_reduce_sum_u64 order every write of one call
\* against every read of the call before it.
NoBufferRace ==
  \A l, m \in Lanes : l # m => Writes(l) \cap (Reads(m) \cup Writes(m)) = {}

\* No mix of the one-barrier and the two-barrier calls leaves a lane behind.
AllReturn == \A l \in Lanes : <>(step[l] > ProgramLength)

-----------------------------------------------------------------------------
(* The inductive invariant.  A lane's place is the arrival it makes next,  *)
(* << call, barrier >>; lanes that have arrived equally often are at the   *)
(* same place, and one that is an arrival ahead is one place ahead.        *)

TwoBarriers(i) == i <= ProgramLength /\ program[i].kind # "sync"

\* The next arrival of a lane, and the one that follows an arrival.
Place(l) ==
  IF pc[l] \in {"enter", "arrive1"} THEN <<step[l], 1>>
  ELSE IF pc[l] \in {"depart1", "use", "arrive2"} /\ TwoBarriers(step[l]) THEN <<step[l], 2>>
  ELSE <<step[l] + 1, 1>>
PlaceAfter(a) == IF a[2] = 1 /\ TwoBarriers(a[1]) THEN <<a[1], 2>> ELSE <<a[1] + 1, 1>>

\* The types the argument needs; a value may be anything.
Typed ==
  /\ program \in [1 .. ProgramLength -> Ops]
  /\ step \in [Lanes -> 1 .. ProgramLength + 1]
  /\ pc \in [Lanes -> {"enter", "arrive1", "depart1", "use", "arrive2", "depart2", "return"}]
  /\ value = [l \in Lanes |-> value[l]] /\ buffer = [l \in Lanes |-> buffer[l]]
  /\ before = [i \in 1 .. ProgramLength |-> [l \in Lanes |-> before[i][l]]]
  /\ arrivals \in [Lanes -> Nat] /\ departures \in [Lanes -> Nat]
  /\ \A l \in Lanes : pc[l] # "enter" => Inside(l)
  /\ \A l \in Lanes : pc[l] \in {"arrive2", "depart2"} => TwoBarriers(step[l])

\* The barrier holds lanes back, and a lane waits in it exactly at its departs.
InStep ==
  /\ \A l \in Lanes :
       arrivals[l] = IF pc[l] \in {"depart1", "depart2"} THEN departures[l] + 1 ELSE departures[l]
  /\ \A l, m \in Lanes :
       /\ departures[l] <= arrivals[m]
       /\ arrivals[l] = arrivals[m] => Place(l) = Place(m)
       /\ arrivals[l] = arrivals[m] + 1 => Place(l) = PlaceAfter(Place(m))

\* Lane m has made its i-th call.
Entered(m, i) == step[m] > i \/ (step[m] = i /\ pc[m] # "enter")

\* As long as a lane has not arrived at the second barrier of its call, the
\* cells hold what the lanes that made the call passed to it.
CellsHold ==
  \A l \in Lanes : pc[l] \in {"arrive1", "depart1", "use", "arrive2"} =>
    /\ Op(l).kind = "broadcast" /\ Entered(Op(l).root, step[l]) =>
         buffer[0] = before[step[l]][Op(l).root]
    /\ Op(l).kind = "reduce" =>
         \A m \in Lanes : Entered(m, step[l]) => buffer[m] = before[step[l]][m]

\* A lane's value is what it passed before the exchange, and what the call
\* promises after it.
ValuesHold ==
  \A l \in Lanes :
    /\ pc[l] \in {"arrive1", "depart1", "use"} => value[l] = before[step[l]][l]
    /\ pc[l] \in {"arrive2", "depart2", "return"} => value[l] = Expected(step[l], l)

CollectiveInv == Typed /\ InStep /\ CellsHold /\ ValuesHold

=============================================================================
