------------------------ MODULE LaneCollectivesProofs ------------------------
(***************************************************************************)
(* The collective operations are correct and free of races for every       *)
(* number of lanes and every program of collective calls.  Nothing is      *)
(* assumed about sums: the destination adds up cells that are shown to be  *)
(* the values the lanes passed.                                            *)
(***************************************************************************)
EXTENDS LaneCollectives, TLAPS

PcSet == {"enter", "arrive1", "depart1", "use", "arrive2", "depart2", "return"}

\* The calls of a program: their kinds, and a root that is a lane.
LEMMA OpFacts ==
  ASSUME Typed, NEW i \in 1 .. ProgramLength
  PROVE  /\ program[i].kind \in {"sync", "broadcast", "reduce"}
         /\ program[i].root \in Lanes
         /\ 0 \in Lanes
  BY CollectiveAssumption DEF Typed, Ops, Lanes

\* What a lane's counters, step and pc may be.
LEMMA LaneTypes ==
  ASSUME Typed, NEW l \in Lanes
  PROVE  /\ arrivals[l] \in Nat /\ departures[l] \in Nat /\ pc[l] \in PcSet
         /\ step[l] \in Nat /\ step[l] >= 1 /\ step[l] <= ProgramLength + 1
         /\ pc[l] # "enter" => step[l] \in 1 .. ProgramLength
         /\ ProgramLength \in Nat
  BY CollectiveAssumption DEF Typed, Inside, PcSet

\* No two lanes are more than one arrival apart.
LEMMA ArrivalsApart ==
  ASSUME Typed, InStep, NEW l \in Lanes, NEW m \in Lanes
  PROVE  /\ departures[l] <= arrivals[m] /\ departures[m] <= arrivals[l]
         /\ arrivals[l] = departures[l] + 1 <=> pc[l] \in {"depart1", "depart2"}
         /\ arrivals[l] = departures[l] <=> pc[l] \notin {"depart1", "depart2"}
         /\ arrivals[l] = arrivals[m] \/ arrivals[l] = arrivals[m] + 1 \/ arrivals[m] = arrivals[l] + 1
<1>1. /\ arrivals[l] \in Nat /\ departures[l] \in Nat
      /\ arrivals[m] \in Nat /\ departures[m] \in Nat
  BY LaneTypes
<1>2. /\ arrivals[l] = IF pc[l] \in {"depart1", "depart2"} THEN departures[l] + 1 ELSE departures[l]
      /\ arrivals[m] = IF pc[m] \in {"depart1", "depart2"} THEN departures[m] + 1 ELSE departures[m]
      /\ departures[l] <= arrivals[m] /\ departures[m] <= arrivals[l]
  BY DEF InStep
<1>. QED  BY <1>1, <1>2

\* A lane that is about to make its call has passed every barrier before it,
\* so every lane is in that call or behind the last barrier before it.
LEMMA WhereOthersAre ==
  ASSUME Typed, InStep, NEW l \in Lanes, pc[l] \in {"enter", "arrive1"}, NEW m \in Lanes
  PROVE  \/ Place(m) = <<step[l], 1>> /\ arrivals[m] = arrivals[l]
         \/ Place(m) = PlaceAfter(<<step[l], 1>>) /\ arrivals[m] = arrivals[l] + 1
<1>1. /\ arrivals[l] \in Nat /\ arrivals[m] \in Nat
      /\ arrivals[l] = departures[l] /\ departures[l] <= arrivals[m]
  BY LaneTypes, ArrivalsApart
<1>2. arrivals[m] = arrivals[l] \/ arrivals[m] = arrivals[l] + 1
  BY <1>1, ArrivalsApart
<1>3. Place(l) = <<step[l], 1>>
  BY DEF Place
<1>. QED  BY <1>2, <1>3 DEF InStep

\* A lane between the barriers of a call is held there until every lane has
\* made the call.
LEMMA AllEntered ==
  ASSUME Typed, InStep, NEW l \in Lanes,
         pc[l] \in {"use", "arrive2", "depart2", "return"}, NEW m \in Lanes
  PROVE  Entered(m, step[l])
<1>1. /\ step[l] \in 1 .. ProgramLength /\ ProgramLength \in Nat
      /\ step[m] \in Nat /\ step[m] >= 1 /\ step[m] <= ProgramLength + 1
      /\ pc[m] \in PcSet /\ (pc[m] # "enter" => step[m] <= ProgramLength)
      /\ pc[l] \in {"arrive2", "depart2"} => TwoBarriers(step[l])
  BY LaneTypes DEF Typed
<1>2. CASE arrivals[m] = arrivals[l]
  <2>1. Place(m) = Place(l)
    BY <1>2 DEF InStep
  <2>. QED  BY <1>1, <2>1 DEF Place, Entered, TwoBarriers, PcSet
<1>3. CASE arrivals[m] = arrivals[l] + 1
  <2>1. Place(m) = PlaceAfter(Place(l))
    BY <1>3 DEF InStep
  <2>. QED  BY <1>1, <2>1 DEF Place, PlaceAfter, Entered, TwoBarriers, PcSet
<1>4. CASE pc[l] = "depart2" /\ arrivals[l] = arrivals[m] + 1
  <2>1. Place(l) = PlaceAfter(Place(m)) /\ TwoBarriers(step[l])
    BY <1>1, <1>4 DEF InStep
  <2>. QED  BY <1>1, <1>4, <2>1 DEF Place, PlaceAfter, Entered, TwoBarriers, PcSet
<1>5. pc[l] # "depart2" => arrivals[l] = departures[l] /\ departures[l] <= arrivals[m]
  BY ArrivalsApart
<1>6. arrivals[l] \in Nat /\ arrivals[m] \in Nat
  BY LaneTypes
<1>. QED  BY <1>2, <1>3, <1>4, <1>5, <1>6, ArrivalsApart

-----------------------------------------------------------------------------
\* The calls as they begin satisfy the invariant.
LEMMA CollectiveInit == Init => CollectiveInv
<1>. SUFFICES ASSUME Init PROVE CollectiveInv
  OBVIOUS
<1>1. Typed
  BY CollectiveAssumption DEF Init, Barrier!Init, Typed, Inside, TwoBarriers
<1>2. InStep
  BY DEF Init, Barrier!Init, InStep, Place
<1>3. CellsHold /\ ValuesHold
  BY DEF Init, CellsHold, ValuesHold
<1>. QED  BY <1>1, <1>2, <1>3 DEF CollectiveInv

\* The types are kept.
LEMMA TypedStep ==
  ASSUME Typed, NEW l \in Lanes, LaneStep(l)
  PROVE  Typed'
<1>. USE CollectiveAssumption DEF Goto
<1>1. program' = program /\ program \in [1 .. ProgramLength -> Ops]
  BY DEF Typed, LaneStep, Enter, Arrive, Depart, Use, UseBuffer, Return
<1>2. /\ step' \in [Lanes -> 1 .. ProgramLength + 1] /\ pc' \in [Lanes -> PcSet]
      /\ \A m \in Lanes : pc'[m] # "enter" => step'[m] <= ProgramLength
  <2>. USE DEF Typed, Inside, PcSet
  <2>1. CASE Enter(l)
    BY <2>1 DEF Enter
  <2>2. CASE Arrive(l) \/ Depart(l)
    BY <2>2 DEF Arrive, Depart
  <2>3. CASE Use(l)
    BY <2>3 DEF Use, UseBuffer
  <2>4. CASE Return(l)
    BY <2>4 DEF Return
  <2>. QED  BY <2>1, <2>2, <2>3, <2>4 DEF LaneStep
<1>3. \A m \in Lanes : pc'[m] \in {"arrive2", "depart2"} => step'[m] <= ProgramLength /\ program[step'[m]].kind # "sync"
  BY DEF Typed, Inside, TwoBarriers, Op, LaneStep, Enter, Arrive, Depart, Use, UseBuffer, Return
<1>4. value' = [m \in Lanes |-> value'[m]]
  BY DEF Typed, LaneStep, Enter, Arrive, Depart, Use, UseBuffer, Return
<1>5. buffer' = [m \in Lanes |-> buffer'[m]]
  BY DEF Typed, LaneStep, Enter, Arrive, Depart, Use, UseBuffer, Return
<1>6. before' = [i \in 1 .. ProgramLength |-> [m \in Lanes |-> before'[i][m]]]
  <2>1. CASE before' = before
    BY <2>1 DEF Typed
  <2>2. CASE Enter(l)
    BY <2>2 DEF Typed, Enter
  <2>. QED  BY <2>1, <2>2 DEF LaneStep, Arrive, Depart, Use, UseBuffer, Return
<1>7. arrivals' \in [Lanes -> Nat] /\ departures' \in [Lanes -> Nat]
  <2>1. CASE Arrive(l)
    BY <2>1 DEF Typed, Arrive, Barrier!Arrive
  <2>2. CASE Depart(l)
    BY <2>2 DEF Typed, Depart, Barrier!Depart
  <2>. QED  BY <2>1, <2>2 DEF Typed, LaneStep, Enter, Use, UseBuffer, Return
<1>. QED  BY <1>1, <1>2, <1>3, <1>4, <1>5, <1>6, <1>7 DEF Typed, Inside, TwoBarriers, PcSet

\* A step moves one lane; it moves on to the next place when it arrives, and
\* stays where it is otherwise.
LEMMA PlaceStep ==
  ASSUME Typed, NEW l \in Lanes, LaneStep(l)
  PROVE  /\ program' = program
         /\ \A m \in Lanes : m # l => /\ Place(m)' = Place(m) /\ pc'[m] = pc[m] /\ step'[m] = step[m]
                                      /\ arrivals'[m] = arrivals[m] /\ departures'[m] = departures[m]
         /\ Arrive(l) => Place(l)' = PlaceAfter(Place(l))
         /\ ~Arrive(l) => Place(l)' = Place(l)
<1>. USE DEF Typed, Inside, Goto
<1>1. program' = program
  BY DEF LaneStep, Enter, Arrive, Depart, Use, UseBuffer, Return
<1>2. \A m \in Lanes : m # l => pc'[m] = pc[m] /\ step'[m] = step[m]
                                /\ arrivals'[m] = arrivals[m] /\ departures'[m] = departures[m]
  BY DEF LaneStep, Enter, Arrive, Barrier!Arrive, Depart, Barrier!Depart, Use, UseBuffer, Return
<1>3. \A m \in Lanes : m # l => Place(m)' = Place(m)
  BY <1>1, <1>2 DEF Place, TwoBarriers
<1>4. ASSUME Arrive(l) PROVE Place(l)' = PlaceAfter(Place(l))
  <2>1. CASE pc[l] = "arrive1"
    <3>1. pc'[l] = "depart1" /\ step'[l] = step[l]
      BY <1>4, <2>1 DEF Arrive
    <3>. QED  BY <1>1, <2>1, <3>1 DEF Place, PlaceAfter, TwoBarriers
  <2>2. CASE pc[l] = "arrive2"
    <3>1. pc'[l] = "depart2" /\ step'[l] = step[l] /\ TwoBarriers(step[l])
      BY <1>4, <2>2 DEF Arrive
    <3>2. Place(l) = <<step[l], 2>> /\ Place(l)' = <<step[l] + 1, 1>>
      BY <1>1, <2>2, <3>1 DEF Place, TwoBarriers
    <3>. QED  BY <3>2 DEF PlaceAfter
  <2>. QED  BY <1>4, <2>1, <2>2 DEF Arrive
<1>5. ASSUME Enter(l) \/ Return(l) PROVE Place(l)' = Place(l)
  BY <1>1, <1>5 DEF Enter, Return, Place
<1>6. ASSUME Depart(l) PROVE Place(l)' = Place(l)
  <2>1. /\ step'[l] = step[l]
        /\ \/ pc[l] = "depart1" /\ pc'[l] = "use"
           \/ pc[l] = "depart2" /\ pc'[l] = "return"
    BY <1>6 DEF Depart
  <2>. QED  BY <1>1, <2>1 DEF Place, TwoBarriers
<1>7. ASSUME Use(l) PROVE Place(l)' = Place(l)
  <2>1. /\ step'[l] = step[l] /\ pc[l] = "use"
        /\ pc'[l] = IF program[step[l]].kind = "sync" THEN "return" ELSE "arrive2"
    BY <1>7 DEF Use, UseBuffer, Op
  <2>. QED  BY <1>1, <2>1 DEF Place, TwoBarriers
<1>. QED  BY <1>1, <1>2, <1>3, <1>4, <1>5, <1>6, <1>7 DEF LaneStep

\* The lanes stay in step.
LEMMA InStepStep ==
  ASSUME Typed, InStep, NEW l \in Lanes, LaneStep(l)
  PROVE  InStep'
<1>1. Typed'
  BY TypedStep
<1>2. \A m \in Lanes : arrivals[m] \in Nat /\ departures[m] \in Nat
  BY LaneTypes
<1>3. \A a : PlaceAfter(a)' = PlaceAfter(a)
  BY PlaceStep DEF PlaceAfter, TwoBarriers
<1>4. \A m \in Lanes : m # l => /\ Place(m)' = Place(m) /\ pc'[m] = pc[m]
                                /\ arrivals'[m] = arrivals[m] /\ departures'[m] = departures[m]
  BY PlaceStep
<1>5. /\ \A m \in Lanes : arrivals[m] = IF pc[m] \in {"depart1", "depart2"} THEN departures[m] + 1 ELSE departures[m]
      /\ \A k, m \in Lanes : /\ departures[k] <= arrivals[m]
                             /\ arrivals[k] = arrivals[m] => Place(k) = Place(m)
                             /\ arrivals[k] = arrivals[m] + 1 => Place(k) = PlaceAfter(Place(m))
  BY DEF InStep
<1>. SUFFICES /\ \A m \in Lanes : arrivals'[m] = IF pc'[m] \in {"depart1", "depart2"} THEN departures'[m] + 1 ELSE departures'[m]
              /\ \A k, m \in Lanes : /\ departures'[k] <= arrivals'[m]
                                     /\ arrivals'[k] = arrivals'[m] => Place(k)' = Place(m)'
                                     /\ arrivals'[k] = arrivals'[m] + 1 => Place(k)' = PlaceAfter(Place(m)')
  BY PlaceStep DEF InStep, PlaceAfter, TwoBarriers
<1>6. CASE Arrive(l)
  <2>1. /\ arrivals[l] = departures[l] /\ arrivals'[l] = arrivals[l] + 1 /\ departures'[l] = departures[l]
        /\ pc'[l] \in {"depart1", "depart2"} /\ Place(l)' = PlaceAfter(Place(l))
    BY <1>6, PlaceStep DEF Arrive, Barrier!Arrive, Goto, Typed
  <2>2. \A m \in Lanes : arrivals[m] = arrivals[l] \/ arrivals[m] = arrivals[l] + 1
    BY <1>2, <1>5, <2>1
  <2>. QED  BY <1>2, <1>4, <1>5, <2>1, <2>2
<1>7. CASE Depart(l)
  <2>1. /\ departures'[l] = departures[l] + 1 /\ arrivals'[l] = arrivals[l] /\ Place(l)' = Place(l)
        /\ arrivals[l] = departures[l] + 1 /\ pc'[l] \notin {"depart1", "depart2"}
        /\ \A m \in Lanes : arrivals[m] >= arrivals[l]
    <3>1. ~Arrive(l)
      BY <1>7 DEF Arrive, Depart
    <3>. QED  BY <1>5, <1>7, <3>1, PlaceStep DEF Depart, Barrier!Depart, Goto, Typed
  <2>. QED  BY <1>2, <1>4, <1>5, <2>1
<1>8. CASE Enter(l) \/ Use(l) \/ Return(l)
  <2>1. /\ departures'[l] = departures[l] /\ arrivals'[l] = arrivals[l] /\ Place(l)' = Place(l)
        /\ pc[l] \notin {"depart1", "depart2"} /\ pc'[l] \notin {"depart1", "depart2"}
    <3>1. ~Arrive(l)
      BY <1>8 DEF Arrive, Enter, Use, UseBuffer, Return
    <3>. QED  BY <1>8, <3>1, PlaceStep DEF Enter, Use, UseBuffer, Return, Goto, Typed
  <2>. QED  BY <1>2, <1>4, <1>5, <2>1
<1>. QED  BY <1>6, <1>7, <1>8 DEF LaneStep

\* Only making a call counts as having made it.
LEMMA EnteredKept ==
  ASSUME Typed, NEW l \in Lanes, LaneStep(l), ~Enter(l), NEW m \in Lanes, NEW i \in Nat
  PROVE  Entered(m, i)' <=> Entered(m, i)
<1>1. step[m] \in Nat /\ step[l] \in Nat
  BY LaneTypes
<1>2. CASE m # l
  BY <1>2, PlaceStep DEF Entered
<1>3. CASE m = l /\ Return(l)
  BY <1>1, <1>3 DEF Entered, Return, Goto, Typed
<1>4. CASE m = l /\ (Arrive(l) \/ Depart(l) \/ Use(l))
  <2>1. step' = step /\ pc[l] # "enter" /\ pc'[l] # "enter"
    BY <1>4 DEF Arrive, Depart, Use, UseBuffer, Goto, Typed
  <2>. QED  BY <1>4, <2>1 DEF Entered
<1>. QED  BY <1>2, <1>3, <1>4 DEF LaneStep

\* Whoever is about to make a call finds nobody before the second barrier of
\* another call that uses the buffer.
LEMMA EnterSeesOneCall ==
  ASSUME Typed, InStep, NEW l \in Lanes, pc[l] = "enter", Inside(l), NEW k \in Lanes,
         pc[k] \in {"arrive1", "depart1", "use", "arrive2"}, Op(k).kind # "sync"
  PROVE  step[k] = step[l]
<1>1. /\ step[k] \in 1 .. ProgramLength /\ step[l] \in Nat /\ ProgramLength \in Nat
  BY LaneTypes
<1>2. TwoBarriers(step[k])
  BY <1>1 DEF TwoBarriers, Op
<1>4. Place(k) = <<step[l], 1>> \/ Place(k) = PlaceAfter(<<step[l], 1>>)
  BY WhereOthersAre
<1>5. CASE pc[k] = "arrive1"
  <2>1. Place(k) = <<step[k], 1>>
    BY <1>5 DEF Place
  <2>2. arrivals[k] = departures[k] /\ arrivals[l] = departures[l]
    BY <1>5, ArrivalsApart
  <2>3. arrivals[k] = arrivals[l]
    BY <2>2, LaneTypes, ArrivalsApart
  <2>4. Place(k) = Place(l) /\ Place(l) = <<step[l], 1>>
    BY <2>3 DEF InStep, Place
  <2>. QED  BY <2>1, <2>4
<1>6. CASE pc[k] # "arrive1"
  <2>1. Place(k) = <<step[k], 2>>
    BY <1>2, <1>6 DEF Place
  <2>. QED  BY <1>4, <2>1 DEF PlaceAfter
<1>. QED  BY <1>5, <1>6

\* Whoever has made the call that a lane is about to make, if it uses the
\* buffer, has not arrived at its second barrier.
LEMMA EnteredIsBeforeSecond ==
  ASSUME Typed, InStep, NEW l \in Lanes, pc[l] = "enter", Inside(l), Op(l).kind # "sync",
         NEW m \in Lanes, Entered(m, step[l])
  PROVE  step[m] = step[l] /\ pc[m] \in {"arrive1", "depart1", "use", "arrive2"}
<1>1. /\ step[l] \in Nat /\ step[m] \in Nat /\ pc[m] \in PcSet
      /\ (pc[m] # "enter" => step[m] \in 1 .. ProgramLength) /\ ProgramLength \in Nat
  BY LaneTypes
<1>2. TwoBarriers(step[l])
  BY DEF TwoBarriers, Op, Inside
<1>3. Place(m) = <<step[l], 1>> \/ Place(m) = <<step[l], 2>>
  BY <1>2, WhereOthersAre DEF PlaceAfter
<1>. QED  BY <1>1, <1>3 DEF Place, Entered, PcSet

\* The cells are not overwritten too early.
LEMMA CellsStep ==
  ASSUME Typed, InStep, CellsHold, NEW l \in Lanes, LaneStep(l)
  PROVE  CellsHold'
<1>. SUFFICES ASSUME NEW k \in Lanes, pc'[k] \in {"arrive1", "depart1", "use", "arrive2"}
              PROVE  LET now(m) == step'[m] > step'[k] \/ (step'[m] = step'[k] /\ pc'[m] # "enter")
                         op == program[step'[k]]
                     IN  /\ op.kind = "broadcast" /\ now(op.root) => buffer'[0] = before'[step'[k]][op.root]
                         /\ op.kind = "reduce" =>
                              \A m \in Lanes : now(m) => buffer'[m] = before'[step'[k]][m]
  BY PlaceStep DEF CellsHold, Op, Entered
<1>. DEFINE now(m) == step'[m] > step'[k] \/ (step'[m] = step'[k] /\ pc'[m] # "enter")
<1>1. CASE ~Enter(l)
  <2>1. buffer' = buffer /\ before' = before /\ program' = program
    BY <1>1 DEF LaneStep, Arrive, Depart, Use, UseBuffer, Return
  <2>2. step'[k] = step[k] /\ pc[k] \in {"arrive1", "depart1", "use", "arrive2"}
    <3>1. CASE k # l
      BY <3>1, PlaceStep
    <3>2. CASE k = l
      BY <1>1, <3>2 DEF LaneStep, Arrive, Depart, Use, UseBuffer, Return, Goto, Typed
    <3>. QED  BY <3>1, <3>2
  <2>3. step[k] \in 1 .. ProgramLength /\ step[k] \in Nat
    BY <2>2, LaneTypes
  <2>4. program[step[k]].root \in Lanes
    BY <2>3, OpFacts
  <2>5. \A m \in Lanes : now(m) <=> Entered(m, step[k])
    BY <1>1, <2>2, <2>3, EnteredKept DEF Entered
  <2>. HIDE DEF now
  <2>. QED  BY <2>1, <2>2, <2>4, <2>5 DEF CellsHold, Op, now
<1>2. CASE Enter(l)
  <2>1. /\ pc[l] = "enter" /\ Inside(l) /\ step' = step /\ program' = program
        /\ step[l] \in 1 .. ProgramLength /\ step[l] \in Nat
    BY <1>2, LaneTypes DEF Enter, Inside
  <2>2. /\ before'[step[l]][l] = value[l]
        /\ \A i \in 1 .. ProgramLength, m \in Lanes : i # step[l] \/ m # l => before'[i][m] = before[i][m]
    BY <1>2, <2>1 DEF Enter, Typed
  <2>3. \A m \in Lanes : m # l => (now(m) <=> Entered(m, step[k]))
    BY <2>1, PlaceStep DEF Entered
  <2>4. CASE Op(k).kind = "sync"
    BY <2>1, <2>4 DEF Op
  <2>5. CASE Op(k).kind # "sync"
    <3>1. step[k] = step[l]
      <4>1. CASE k = l
        BY <4>1
      <4>2. CASE k # l
        BY <2>1, <2>5, <4>2, EnterSeesOneCall, PlaceStep
      <4>. QED  BY <4>1, <4>2
    <3>2. Op(l) = Op(k) /\ Op(l).root \in Lanes /\ 0 \in Lanes
      BY <2>1, <3>1, OpFacts DEF Op
    <3>3. \A m \in Lanes : Entered(m, step[l]) => pc[m] \in {"arrive1", "depart1", "use", "arrive2"} /\ step[m] = step[l]
      BY <2>1, <2>5, <3>2, EnteredIsBeforeSecond
    <3>4. CASE Op(l).kind = "broadcast"
      <4>1. CASE l = Op(l).root
        BY <1>2, <2>1, <2>2, <3>1, <3>2, <3>4, <4>1 DEF Enter, Typed, Op
      <4>2. CASE l # Op(l).root
        <5>1. buffer' = buffer
          BY <1>2, <3>4, <4>2 DEF Enter
        <5>2. Entered(Op(l).root, step[l]) => buffer[0] = before[step[l]][Op(l).root]
          BY <3>2, <3>3, <3>4 DEF CellsHold, Op
        <5>3. now(Op(l).root) <=> Entered(Op(l).root, step[l])
          BY <2>3, <3>1, <3>2, <4>2
        <5>. QED  BY <2>1, <2>2, <3>1, <3>2, <3>4, <4>2, <5>1, <5>2, <5>3 DEF Op
      <4>. QED  BY <4>1, <4>2
    <3>5. CASE Op(l).kind = "reduce"
      <4>1. buffer'[l] = value[l] /\ \A m \in Lanes : m # l => buffer'[m] = buffer[m]
        BY <1>2, <3>5 DEF Enter, Typed
      <4>2. \A m \in Lanes : Entered(m, step[l]) => buffer[m] = before[step[l]][m]
        BY <3>3, <3>5 DEF CellsHold, Op
      <4>3. \A m \in Lanes : m # l => (now(m) <=> Entered(m, step[l]))
        BY <2>3, <3>1
      <4>. QED  BY <2>1, <2>2, <3>1, <3>2, <3>5, <4>1, <4>2, <4>3 DEF Op
    <3>. QED  BY <2>1, <2>5, <3>2, <3>4, <3>5, OpFacts DEF Op
  <2>. QED  BY <2>4, <2>5
<1>. QED  BY <1>1, <1>2

\* What a call promises does not change once its first barrier is passed.
LEMMA ValuesStep ==
  ASSUME Typed, InStep, CellsHold, ValuesHold, NEW l \in Lanes, LaneStep(l)
  PROVE  ValuesHold'
<1>. SUFFICES ASSUME NEW k \in Lanes
              PROVE  /\ pc'[k] \in {"arrive1", "depart1", "use"} => value'[k] = before'[step'[k]][k]
                     /\ pc'[k] \in {"arrive2", "depart2", "return"} =>
                          LET op == program[step'[k]]
                          IN  value'[k] = IF op.kind = "broadcast" THEN before'[step'[k]][op.root]
                                          ELSE IF op.kind = "reduce" /\ k = op.root THEN SumFunction(before'[step'[k]])
                                          ELSE before'[step'[k]][k]
  BY PlaceStep DEF ValuesHold, Expected
<1>. USE DEF Goto
<1>1. CASE Enter(l)
  <2>1. /\ pc[l] = "enter" /\ step' = step /\ value' = value /\ pc'[l] = "arrive1"
        /\ step[l] \in 1 .. ProgramLength
        /\ before' = [before EXCEPT ![step[l]][l] = value[l]]
    BY <1>1, LaneTypes DEF Enter, Typed
  <2>2. CASE k = l
    BY <2>1, <2>2 DEF Typed
  <2>3. CASE k # l /\ pc[k] \in {"arrive1", "depart1", "use"}
    <3>1. step[k] \in 1 .. ProgramLength /\ value[k] = before[step[k]][k]
      BY <2>3, LaneTypes DEF ValuesHold
    <3>2. before'[step[k]][k] = before[step[k]][k]
      BY <2>1, <2>3, <3>1 DEF Typed
    <3>3. pc'[k] = pc[k]
      BY <2>3, PlaceStep
    <3>. QED  BY <2>1, <2>3, <3>1, <3>2, <3>3
  <2>4. CASE k # l /\ pc[k] \in {"arrive2", "depart2", "return"}
    <3>1. Entered(l, step[k])
      BY <2>4, AllEntered
    <3>2. step[k] \in 1 .. ProgramLength /\ step[l] # step[k]
      BY <2>1, <2>4, <3>1, LaneTypes DEF Entered
    <3>3. before'[step[k]] = before[step[k]]
      BY <2>1, <3>2 DEF Typed
    <3>4. value[k] = Expected(step[k], k) /\ pc'[k] = pc[k]
      BY <2>4, PlaceStep DEF ValuesHold
    <3>. QED  BY <2>1, <2>4, <3>3, <3>4 DEF Expected
  <2>5. CASE k # l /\ pc[k] = "enter"
    BY <2>5, PlaceStep
  <2>. QED  BY <2>2, <2>3, <2>4, <2>5, LaneTypes DEF PcSet
<1>2. CASE Use(l)
  <2>1. pc[l] = "use" /\ step' = step /\ before' = before /\ pc'[l] \in {"arrive2", "return"}
    BY <1>2 DEF Use, UseBuffer, Typed
  <2>2. CASE k # l
    <3>1. value'[k] = value[k] /\ pc'[k] = pc[k]
      BY <1>2, <2>2, PlaceStep DEF Use, UseBuffer, Typed
    <3>. QED  BY <2>1, <3>1 DEF ValuesHold, Expected
  <2>3. CASE k = l
    <3>1. step[l] \in 1 .. ProgramLength /\ value[l] = before[step[l]][l] /\ Op(l).root \in Lanes /\ 0 \in Lanes
      BY <2>1, LaneTypes, OpFacts DEF ValuesHold, Op
    <3>2. \A m \in Lanes : Entered(m, step[l])
      BY <2>1, AllEntered
    <3>3. CASE Op(l).kind = "broadcast"
      <4>1. buffer[0] = before[step[l]][Op(l).root]
        BY <2>1, <3>1, <3>2, <3>3 DEF CellsHold
      <4>2. value'[l] = IF l # Op(l).root THEN buffer[0] ELSE value[l]
        BY <1>2, <3>3 DEF Use, UseBuffer, Typed
      <4>. QED  BY <2>1, <2>3, <3>1, <3>3, <4>1, <4>2 DEF Op
    <3>4. CASE Op(l).kind = "reduce"
      <4>1. \A m \in Lanes : buffer[m] = before[step[l]][m]
        BY <2>1, <3>2, <3>4 DEF CellsHold
      <4>2. buffer = before[step[l]]
        BY <3>1, <4>1 DEF Typed
      <4>3. value'[l] = IF l = Op(l).root THEN SumFunction(buffer) ELSE value[l]
        BY <1>2, <3>4 DEF Use, UseBuffer, Typed
      <4>. QED  BY <2>1, <2>3, <3>1, <3>4, <4>2, <4>3 DEF Op
    <3>5. CASE Op(l).kind = "sync"
      <4>1. value' = value
        BY <1>2, <3>5 DEF Use, UseBuffer
      <4>. QED  BY <2>1, <2>3, <3>1, <3>5, <4>1 DEF Op
    <3>. QED  BY <3>1, <3>3, <3>4, <3>5, OpFacts DEF Op
  <2>. QED  BY <2>2, <2>3
<1>3. CASE Arrive(l) \/ Depart(l) \/ Return(l)
  <2>1. value' = value /\ before' = before
    BY <1>3 DEF Arrive, Depart, Return
  <2>2. CASE k # l
    BY <2>1, <2>2, PlaceStep DEF ValuesHold, Expected
  <2>3. CASE k = l /\ pc'[l] # "enter"
    <3>1. /\ step'[l] = step[l]
          /\ \/ pc[l] \in {"arrive1", "depart1"} /\ pc'[l] \in {"depart1", "use"}
             \/ pc[l] \in {"arrive2", "depart2"} /\ pc'[l] \in {"depart2", "return"}
      BY <1>3, <2>3 DEF Arrive, Depart, Return, Typed
    <3>. QED  BY <2>1, <2>3, <3>1 DEF ValuesHold, Expected
  <2>. QED  BY <2>2, <2>3
<1>. QED  BY <1>1, <1>2, <1>3 DEF LaneStep

\* No step of a collective call breaks the invariant.
LEMMA CollectiveStep == CollectiveInv /\ [Next]_vars => CollectiveInv'
<1>. SUFFICES ASSUME CollectiveInv, [Next]_vars PROVE CollectiveInv'
  OBVIOUS
<1>1. ASSUME NEW l \in Lanes, LaneStep(l) PROVE CollectiveInv'
  BY <1>1, TypedStep, InStepStep, CellsStep, ValuesStep DEF CollectiveInv
<1>2. CASE UNCHANGED vars
  <2>. USE <1>2 DEF vars, CollectiveInv
  <2>1. Typed'
    BY DEF Typed, Inside, TwoBarriers
  <2>2. InStep'
    <3>1. program' = program /\ step' = step /\ pc' = pc /\ arrivals' = arrivals /\ departures' = departures
      OBVIOUS
    <3>2. \A l \in Lanes : Place(l)' = Place(l) /\ PlaceAfter(Place(l))' = PlaceAfter(Place(l))
      BY <3>1, ZenonT(40) DEF Place, PlaceAfter, TwoBarriers
    <3>. QED  BY <3>1, <3>2 DEF InStep
  <2>3. CellsHold' /\ ValuesHold'
    BY DEF CellsHold, ValuesHold, Entered, Expected, Op
  <2>. QED  BY <2>1, <2>2, <2>3
<1>. QED  BY <1>1, <1>2 DEF Next, Finished

\* The lanes stay in step and the cells keep their values for as long as they
\* are needed, for any number of lanes and any program of collective calls.
THEOREM CollectiveInvariance == Spec => []CollectiveInv
  BY CollectiveInit, CollectiveStep, PTL DEF Spec

\* lane_sync_u64 and lane_reduce_sum_u64 keep their contracts, although all
\* calls share one buffer and a fast lane may be in the next call already.
THEOREM CollectivesAreCorrect == Spec => []CollectivesCorrect
<1>1. CollectiveInv => CollectivesCorrect
  BY DEF CollectiveInv, ValuesHold, CollectivesCorrect
<1>. QED  BY <1>1, CollectiveInvariance, PTL

\* The plain loads and stores of the broadcast buffer never race.
THEOREM BufferIsRaceFree == Spec => []NoBufferRace
<1>1. ASSUME CollectiveInv PROVE NoBufferRace
  <2>. SUFFICES ASSUME NEW l \in Lanes, NEW m \in Lanes, l # m, pc[l] = "enter", Inside(l)
                PROVE  Writes(l) \cap (Reads(m) \cup Writes(m)) = {}
    BY DEF NoBufferRace, Writes
  <2>1. Typed /\ InStep /\ step[l] \in Nat /\ step[m] \in Nat /\ pc[m] \in PcSet
    BY <1>1, LaneTypes DEF CollectiveInv
  <2>2. CASE pc[m] = "enter" /\ Inside(m)
    <3>1. arrivals[l] = arrivals[m]
      BY <2>1, <2>2, LaneTypes, ArrivalsApart
    <3>2. Place(l) = <<step[l], 1>> /\ Place(m) = <<step[m], 1>> /\ Place(l) = Place(m)
      BY <2>1, <2>2, <3>1 DEF InStep, Place
    <3>3. Op(l) = Op(m)
      BY <3>2 DEF Op
    <3>. QED  BY <2>2, <3>3 DEF Writes, Reads
  <2>3. CASE pc[m] = "use" /\ Op(m).kind # "sync"
    <3>1. arrivals[l] = arrivals[m]
      BY <2>1, <2>3, LaneTypes, ArrivalsApart
    <3>2. Place(l) = <<step[l], 1>> /\ Place(l) = Place(m)
      BY <2>1, <3>1 DEF InStep, Place
    <3>3. Place(m) = <<step[m], 2>>
      BY <2>1, <2>3, LaneTypes DEF Place, TwoBarriers, Op
    <3>. QED  BY <3>2, <3>3
  <2>4. CASE pc[m] = "use" /\ Op(m).kind = "sync"
    BY <2>4 DEF Writes, Reads
  <2>5. CASE pc[m] \notin {"enter", "use"} \/ (pc[m] = "enter" /\ ~Inside(m))
    BY <2>5 DEF Writes, Reads
  <2>. QED  BY <2>2, <2>3, <2>4, <2>5
<1>. QED  BY <1>1, CollectiveInvariance, PTL

=============================================================================
