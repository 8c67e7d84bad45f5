------------------------ MODULE ParallelCodegenProofs ------------------------
(***************************************************************************)
(* lane_range deals every item to exactly one lane, and so parallel code   *)
(* generation lays the output out as the serial loop does, for every       *)
(* number of items and of cores and every schedule of the lanes.           *)
(***************************************************************************)
EXTENDS ParallelCodegen, SequenceTheorems, TLAPS

\* A division with remainder, in the form the provers use.
LEMMA DivMod ==
  ASSUME NEW w \in Nat, NEW n \in Nat, n > 0
  PROVE  /\ w \div n \in Nat /\ w % n \in Nat /\ w % n < n
         /\ w = n * (w \div n) + (w % n)
  OBVIOUS

\* The ranges of lane_range are adjacent, start at 0 and end at the work
\* count: every item belongs to exactly one lane, in the order of the lanes,
\* also when there are fewer items than lanes.
THEOREM RangesPartition ==
  ASSUME NEW work \in Nat, NEW lanes \in Nat, lanes > 0
  PROVE  /\ RangeStart(work, lanes, 0) = 0
         /\ \A i \in 0 .. lanes - 1 :
              RangeStart(work, lanes, i) <= RangeEnd(work, lanes, i)
         /\ \A i \in 0 .. lanes - 2 :
              RangeEnd(work, lanes, i) = RangeStart(work, lanes, i + 1)
         /\ RangeEnd(work, lanes, lanes - 1) = work
<1>. DEFINE b == work \div lanes
            r == work % lanes
            S(i) == i * b + Least(i, r)
<1>1. b \in Nat /\ r \in Nat /\ r < lanes /\ work = lanes * b + r
  BY DivMod
<1>. HIDE DEF b, r
<1>2. \A i \in Nat : i <= lanes => i * b \in Nat /\ i * b <= lanes * b
  BY <1>1
<1>3. \A i \in Nat : (i + 1) * b = i * b + b
  BY <1>1
<1>4. \A i \in Nat : i <= lanes => S(i) \in Nat /\ S(i) <= work
  BY <1>1, <1>2 DEF Least
<1>5. \A i \in Nat : i < lanes => S(i) + b + (IF i < r THEN 1 ELSE 0) = S(i + 1)
  BY <1>1, <1>2, <1>3 DEF Least
<1>6. \A i \in Nat : i <= lanes => RangeStart(work, lanes, i) = S(i)
  BY <1>1, <1>4 DEF RangeStart, Least, b, r
<1>7. \A i \in Nat : i < lanes => RangeEnd(work, lanes, i) = S(i + 1)
  <2>. TAKE i \in Nat
  <2>. HAVE i < lanes
  <2>1. RangeStart(work, lanes, i) = S(i) /\ S(i + 1) \in Nat /\ S(i + 1) <= work
    BY <1>4, <1>6
  <2>2. S(i) + (b + (IF i < r THEN 1 ELSE 0)) = S(i + 1)
    BY <1>1, <1>4, <1>5
  <2>. HIDE DEF S
  <2>. QED  BY <2>1, <2>2 DEF RangeEnd, b, r
<1>8. S(0) = 0 /\ S(lanes) = work
  BY <1>1 DEF Least
<1>9. \A i \in Nat : i < lanes => S(i) <= S(i + 1)
  BY <1>1, <1>4, <1>5
<1>10. /\ lanes - 1 \in Nat /\ (lanes - 1) + 1 = lanes
       /\ \A i \in 0 .. lanes - 2 : i \in Nat /\ i < lanes /\ i + 1 <= lanes
       /\ \A i \in 0 .. lanes - 1 : i \in Nat /\ i < lanes /\ i <= lanes
  OBVIOUS
<1>. HIDE DEF S
<1>. QED  BY <1>6, <1>7, <1>8, <1>9, <1>10

\* The range of a later lane starts where an earlier one's ends, or after.
LEMMA RangesAscend ==
  ASSUME NEW work \in Nat, NEW lanes \in Nat, lanes > 0,
         NEW i \in 0 .. lanes - 1, NEW j \in 0 .. lanes - 1, i < j
  PROVE  RangeEnd(work, lanes, i) <= RangeStart(work, lanes, j)
<1>. DEFINE b == work \div lanes
            r == work % lanes
            S(k) == k * b + Least(k, r)
<1>1. b \in Nat /\ r \in Nat /\ r < lanes /\ work = lanes * b + r
  BY DivMod
<1>2. RangeEnd(work, lanes, i) = RangeStart(work, lanes, i + 1)
  BY RangesPartition
<1>. HIDE DEF b, r
<1>3. /\ (i + 1) * b \in Nat /\ j * b \in Nat
      /\ (i + 1) * b <= j * b
  BY <1>1
<1>4. S(i + 1) <= S(j) /\ S(i + 1) \in Nat /\ S(j) \in Nat
  BY <1>1, <1>3 DEF Least
<1>5. /\ RangeStart(work, lanes, i + 1) = Least(S(i + 1), work)
      /\ RangeStart(work, lanes, j) = Least(S(j), work)
  BY DEF RangeStart, b, r
<1>. HIDE DEF S
<1>. QED  BY <1>2, <1>4, <1>5 DEF Least

-----------------------------------------------------------------------------
\* The lanes are the first cells: all of them but the last, or the only one.
LEMMA CellsOfLanes ==
  /\ LaneCount \in Nat /\ LaneCount > 0 /\ LaneCount <= Cores
  /\ Lanes = 0 .. LaneCount - 1 /\ Lanes \subseteq 0 .. Cores - 1
  BY CodegenAssumption DEF LaneCount, Lanes

\* What the invariant needs of the ranges: a cell starts where the one before
\* it ended, the first at 0, and the last one ends with the items.
LEMMA CellRanges ==
  ASSUME items \in Nat
  PROVE  /\ CellStart(0) = 0 /\ CellStart(Cores) = items
         /\ \A l \in Lanes : /\ CellStart(l) = RangeStart(items, LaneCount, l)
                             /\ CellStart(l + 1) = RangeEnd(items, LaneCount, l)
                             /\ CellStart(l) <= CellStart(l + 1)
         /\ \A c \in (0 .. Cores - 1) \ Lanes : CellStart(c) = items /\ CellStart(c + 1) = items
         /\ \A c \in 0 .. Cores : CellStart(c) \in Nat
<1>0. /\ LaneCount \in Nat /\ LaneCount > 0 /\ LaneCount <= Cores /\ Cores \in Nat
      /\ Lanes = 0 .. LaneCount - 1
  BY CellsOfLanes, CodegenAssumption
<1>1. /\ RangeStart(items, LaneCount, 0) = 0
      /\ \A i \in 0 .. LaneCount - 1 : RangeStart(items, LaneCount, i) <= RangeEnd(items, LaneCount, i)
      /\ \A i \in 0 .. LaneCount - 2 : RangeEnd(items, LaneCount, i) = RangeStart(items, LaneCount, i + 1)
      /\ RangeEnd(items, LaneCount, LaneCount - 1) = items
  BY <1>0, RangesPartition
<1>2. CellStart(0) = 0
  BY <1>0, <1>1 DEF CellStart
<1>3. CellStart(Cores) = items
  BY <1>0 DEF CellStart
<1>4. ASSUME NEW l \in Lanes
      PROVE  /\ CellStart(l) = RangeStart(items, LaneCount, l)
             /\ CellStart(l + 1) = RangeEnd(items, LaneCount, l)
             /\ CellStart(l) <= CellStart(l + 1)
  <2>1. CASE l = LaneCount - 1
    BY <1>0, <1>1, <2>1 DEF CellStart
  <2>2. CASE l # LaneCount - 1
    <3>1. l \in 0 .. LaneCount - 2
      BY <1>0, <2>2
    <3>. QED  BY <1>0, <1>1, <3>1 DEF CellStart
  <2>. QED  BY <2>1, <2>2
<1>5. ASSUME NEW c \in (0 .. Cores - 1) \ Lanes
      PROVE  CellStart(c) = items /\ CellStart(c + 1) = items
  BY <1>0 DEF CellStart
<1>6. ASSUME NEW c \in 0 .. Cores PROVE CellStart(c) \in Nat
  <2>1. CASE c < LaneCount
    <3>1. /\ items \div LaneCount \in Nat /\ items % LaneCount \in Nat
      BY <1>0, DivMod
    <3>2. c * (items \div LaneCount) \in Nat
      BY <3>1
    <3>. QED  BY <2>1, <3>1, <3>2 DEF CellStart, RangeStart, Least
  <2>2. CASE ~(c < LaneCount)
    BY <2>2 DEF CellStart
  <2>. QED  BY <2>1, <2>2
<1>. QED  BY <1>2, <1>3, <1>4, <1>5, <1>6

\* The length and the elements of a run of items.
LEMMA ItemsLen ==
  ASSUME NEW x \in Nat, NEW y \in Nat, x <= y
  PROVE  ItemsFrom(x, y) \in Seq(Nat) /\ Len(ItemsFrom(x, y)) = y - x
  BY DEF ItemsFrom

LEMMA ItemsAre ==
  ASSUME NEW x \in Nat, NEW y \in Nat, x <= y, NEW i \in 1 .. y - x
  PROVE  ItemsFrom(x, y)[i] = x + (i - 1)
  BY DEF ItemsFrom

\* No items.
LEMMA NoItems ==
  ASSUME NEW x \in Nat
  PROVE  ItemsFrom(x, x) = <<>>
  BY DEF ItemsFrom

\* Appending the next item.
LEMMA ItemsAppend ==
  ASSUME NEW a \in Nat, NEW b \in Nat, a <= b
  PROVE  Append(ItemsFrom(a, b), b) = ItemsFrom(a, b + 1)
<1>. DEFINE p == ItemsFrom(a, b)
            q == ItemsFrom(a, b + 1)
<1>0. a <= b + 1 /\ b + 1 \in Nat
  OBVIOUS
<1>1. p \in Seq(Nat) /\ Len(p) = b - a
  BY ItemsLen
<1>2. q \in Seq(Nat) /\ Len(q) = b + 1 - a
  BY <1>0, ItemsLen
<1>3. \A i \in 1 .. b - a : p[i] = a + (i - 1)
  BY ItemsAre
<1>4. \A i \in 1 .. b + 1 - a : q[i] = a + (i - 1)
  BY <1>0, ItemsAre
<1>. HIDE DEF p, q
<1>5. Append(p, b) \in Seq(Nat) /\ Len(Append(p, b)) = Len(p) + 1
  BY <1>1
<1>6. Len(Append(p, b)) = Len(q)
  BY <1>1, <1>2, <1>5
<1>7. ASSUME NEW i \in 1 .. Len(q) PROVE Append(p, b)[i] = q[i]
  <2>1. q[i] = a + (i - 1) /\ i \in Nat
    BY <1>2, <1>4
  <2>2. CASE i \in 1 .. Len(p)
    <3>1. Append(p, b)[i] = p[i]
      BY <1>1, <2>2
    <3>2. p[i] = a + (i - 1)
      BY <1>1, <1>3, <2>2
    <3>. QED  BY <2>1, <3>1, <3>2
  <2>3. CASE i = Len(p) + 1
    <3>1. Append(p, b)[i] = b
      BY <1>1, <2>3
    <3>. QED  BY <1>1, <2>1, <2>3, <3>1
  <2>4. i \in 1 .. Len(p) \/ i = Len(p) + 1
    BY <1>1, <1>2
  <2>. QED  BY <2>2, <2>3, <2>4
<1>8. Append(p, b) = q
  BY <1>2, <1>5, <1>6, <1>7, SeqEqual
<1>. QED  BY <1>8 DEF p, q

\* Appending the items that follow.
LEMMA ItemsConcat ==
  ASSUME NEW a \in Nat, NEW b \in Nat, NEW c \in Nat, a <= b, b <= c
  PROVE  ItemsFrom(a, b) \o ItemsFrom(b, c) = ItemsFrom(a, c)
<1>. DEFINE p == ItemsFrom(a, b)
            q == ItemsFrom(b, c)
            pq == ItemsFrom(a, c)
<1>0. a <= c
  OBVIOUS
<1>1. p \in Seq(Nat) /\ Len(p) = b - a /\ q \in Seq(Nat) /\ Len(q) = c - b
  BY ItemsLen
<1>2. pq \in Seq(Nat) /\ Len(pq) = c - a
  BY <1>0, ItemsLen
<1>3. /\ \A i \in 1 .. b - a : p[i] = a + (i - 1)
      /\ \A i \in 1 .. c - b : q[i] = b + (i - 1)
  BY ItemsAre
<1>4. \A i \in 1 .. c - a : pq[i] = a + (i - 1)
  BY <1>0, ItemsAre
<1>. HIDE DEF p, q, pq
<1>5. p \o q \in Seq(Nat) /\ Len(p \o q) = Len(p) + Len(q)
  BY <1>1, ConcatProperties
<1>6. \A i \in 1 .. Len(p) + Len(q) : (p \o q)[i] = IF i <= Len(p) THEN p[i] ELSE q[i - Len(p)]
  BY <1>1, ConcatProperties
<1>7. Len(p \o q) = Len(pq)
  BY <1>1, <1>2, <1>5
<1>8. ASSUME NEW i \in 1 .. Len(pq) PROVE (p \o q)[i] = pq[i]
  <2>1. pq[i] = a + (i - 1) /\ i \in Nat /\ i \in 1 .. Len(p) + Len(q)
    BY <1>1, <1>2, <1>4
  <2>2. CASE i <= Len(p)
    <3>1. (p \o q)[i] = p[i] /\ i \in 1 .. b - a
      BY <1>1, <1>6, <2>1, <2>2
    <3>. QED  BY <1>3, <2>1, <3>1
  <2>3. CASE ~(i <= Len(p))
    <3>1. (p \o q)[i] = q[i - Len(p)] /\ i - Len(p) \in 1 .. c - b
      BY <1>1, <1>6, <2>1, <2>3
    <3>2. q[i - Len(p)] = b + ((i - Len(p)) - 1)
      BY <1>3, <3>1
    <3>. QED  BY <1>1, <2>1, <3>1, <3>2
  <2>. QED  BY <2>2, <2>3
<1>9. p \o q = pq
  BY <1>2, <1>5, <1>7, <1>8, SeqEqual
<1>. QED  BY <1>9 DEF p, q, pq

-----------------------------------------------------------------------------
\* The job as main sets it up satisfies the invariant.
LEMMA CodegenStart == CodegenInit => CodegenInv
<1>. SUFFICES ASSUME CodegenInit PROVE CodegenInv
  OBVIOUS
<1>. USE CodegenAssumption, CellsOfLanes DEF CodegenInit, Pool!Init
<1>1. CodegenTypeOK
  <2>1. pos \in [Lanes -> Nat] /\ stream \in [Lanes -> Seq(Nat)] /\ ran \in [Lanes -> 0 .. 1]
    OBVIOUS
  <2>2. laneTexts \in [0 .. Cores - 1 -> Seq(Nat)] /\ out \in Seq(Nat)
    OBVIOUS
  <2>3. items \in 0 .. MaxItems /\ cell \in 0 .. Cores /\ phase \in 0 .. 1
    OBVIOUS
  <2>4. running \in BOOLEAN
    BY Zenon
  <2>. QED  BY <2>1, <2>2, <2>3, <2>4 DEF CodegenTypeOK
<1>2. NothingYet /\ LanesKeepOrder
  BY DEF NothingYet, LanesKeepOrder
<1>3. MainKeepsOrder
  <2>1. CellStart(0) = 0
    BY CellRanges
  <2>2. ItemsFrom(0, 0) = <<>>
    BY NoItems
  <2>. QED  BY <2>1, <2>2 DEF MainKeepsOrder
<1>. QED  BY <1>1, <1>2, <1>3 DEF CodegenInv

\* Every turn of a lane and of main keeps the invariant.
LEMMA CodegenStep == CodegenInv /\ [CodegenNext]_codegenVars => CodegenInv'
<1>. SUFFICES ASSUME CodegenInv, [CodegenNext]_codegenVars PROVE CodegenInv'
  OBVIOUS
<1>. USE CodegenAssumption, CellsOfLanes DEF CodegenInv
<1>0. /\ items \in Nat /\ cell \in Nat /\ cell <= Cores
      /\ \A l \in Lanes : l \in 0 .. Cores /\ l + 1 \in 0 .. Cores
  BY DEF CodegenTypeOK
<1>. DEFINE First(l) == RangeStart(items, LaneCount, l)
            Last(l) == RangeEnd(items, LaneCount, l)
<1>1. ASSUME NEW l \in Lanes
      PROVE  /\ First(l) \in Nat /\ Last(l) \in Nat /\ First(l) <= Last(l)
             /\ CellStart(l) = First(l) /\ CellStart(l + 1) = Last(l)
  BY <1>0, CellRanges
<1>. HIDE DEF First, Last
<1>2. CASE StartPhase
  <2>. USE <1>2 DEF StartPhase, Pool!Fork
  <2>1. /\ phase = 0 /\ phase' = 1 /\ running' = TRUE /\ ran' = ran
        /\ pos' = [l \in Lanes |-> First(l)]
        /\ UNCHANGED <<items, stream, laneTexts, out, cell>>
    BY DEF CodegenTypeOK, First
  <2>. USE <2>1
  <2>2. CodegenTypeOK'
    <3>1. pos' \in [Lanes -> Nat]
      BY <1>1
    <3>. QED  BY <3>1 DEF CodegenTypeOK
  <2>3. NothingYet'
    BY DEF NothingYet
  <2>4. LanesKeepOrder'
    <3>. SUFFICES ASSUME NEW l \in Lanes
                  PROVE  /\ First(l) <= pos'[l] /\ pos'[l] <= Last(l)
                         /\ stream'[l] = ItemsFrom(First(l), pos'[l])
                         /\ ran'[l] # 1
      BY DEF LanesKeepOrder, First, Last
    <3>1. ItemsFrom(First(l), First(l)) = <<>>
      BY <1>1, NoItems
    <3>. QED  BY <1>1, <3>1 DEF NothingYet
  <2>5. MainKeepsOrder'
    BY DEF MainKeepsOrder, NothingYet, CellStart
  <2>. QED  BY <2>2, <2>3, <2>4, <2>5
<1>3. ASSUME NEW l \in Lanes, RenderItem(l) PROVE CodegenInv'
  <2>1. /\ running /\ ran[l] < phase /\ pos[l] < Last(l)
        /\ stream' = [stream EXCEPT ![l] = Append(stream[l], pos[l])]
        /\ pos' = [pos EXCEPT ![l] = pos[l] + 1]
        /\ UNCHANGED <<items, laneTexts, out, cell, phase, running, ran>>
    BY <1>3 DEF RenderItem, Last
  <2>2. CodegenTypeOK'
    <3>1. pos[l] \in Nat /\ stream[l] \in Seq(Nat)
      BY DEF CodegenTypeOK
    <3>2. pos[l] + 1 \in Nat /\ Append(stream[l], pos[l]) \in Seq(Nat)
      BY <3>1
    <3>3. pos' \in [Lanes -> Nat] /\ stream' \in [Lanes -> Seq(Nat)]
      BY <2>1, <3>2 DEF CodegenTypeOK
    <3>. QED  BY <2>1, <3>3 DEF CodegenTypeOK
  <2>3. phase = 1 /\ ran[l] = 0 /\ pos[l] \in Nat
    <3>1. phase \in 0 .. 1 /\ ran[l] \in 0 .. 1 /\ pos[l] \in Nat
      BY DEF CodegenTypeOK
    <3>. QED  BY <2>1, <3>1
  <2>4. NothingYet'
    BY <2>1, <2>3 DEF NothingYet
  <2>5. LanesKeepOrder'
    <3>. SUFFICES ASSUME NEW m \in Lanes
                  PROVE  /\ First(m) <= pos'[m] /\ pos'[m] <= Last(m)
                         /\ stream'[m] = ItemsFrom(First(m), pos'[m])
                         /\ ran'[m] = 1 => pos'[m] = Last(m) /\ laneTexts'[m] = stream'[m]
      BY <2>1, <2>3 DEF LanesKeepOrder, First, Last
    <3>1. /\ First(m) <= pos[m] /\ pos[m] <= Last(m)
          /\ stream[m] = ItemsFrom(First(m), pos[m])
          /\ ran[m] = 1 => pos[m] = Last(m) /\ laneTexts[m] = stream[m]
      BY <2>3 DEF LanesKeepOrder, First, Last
    <3>2. CASE m # l
      <4>1. pos'[m] = pos[m] /\ stream'[m] = stream[m]
        BY <2>1, <3>2 DEF CodegenTypeOK
      <4>. QED  BY <2>1, <3>1, <4>1
    <3>3. CASE m = l
      <4>1. pos'[m] = pos[m] + 1 /\ stream'[m] = Append(stream[m], pos[m])
        BY <2>1, <3>3 DEF CodegenTypeOK
      <4>2. Append(stream[m], pos[m]) = ItemsFrom(First(m), pos[m] + 1)
        <5>1. First(m) \in Nat /\ pos[m] \in Nat /\ First(m) <= pos[m]
          BY <1>1, <2>3, <3>1, <3>3
        <5>2. Append(ItemsFrom(First(m), pos[m]), pos[m]) = ItemsFrom(First(m), pos[m] + 1)
          BY <5>1, ItemsAppend, Zenon
        <5>. QED  BY <3>1, <5>2
      <4>3. First(m) <= pos[m] + 1 /\ pos[m] + 1 <= Last(m)
        BY <1>1, <2>1, <2>3, <3>1, <3>3
      <4>. QED  BY <2>1, <2>3, <3>3, <4>1, <4>2, <4>3
    <3>. QED  BY <3>2, <3>3
  <2>6. MainKeepsOrder'
    BY <2>1 DEF MainKeepsOrder, CellStart
  <2>. QED  BY <2>2, <2>4, <2>5, <2>6
<1>4. ASSUME NEW l \in Lanes, KeepText(l) PROVE CodegenInv'
  <2>1. /\ running /\ ran[l] + 1 = phase /\ pos[l] >= Last(l)
        /\ ran' = [ran EXCEPT ![l] = phase]
        /\ laneTexts' = [laneTexts EXCEPT ![l] = stream[l]]
        /\ UNCHANGED <<items, pos, stream, out, cell, phase, running>>
    BY <1>4 DEF KeepText, Pool!Run, Last
  <2>2. phase = 1 /\ ran[l] = 0 /\ pos[l] \in Nat
    <3>1. phase \in 0 .. 1 /\ ran[l] \in 0 .. 1 /\ pos[l] \in Nat
      BY DEF CodegenTypeOK
    <3>. QED  BY <2>1, <3>1
  <2>3. CodegenTypeOK'
    BY <2>1, <2>2 DEF CodegenTypeOK
  <2>4. NothingYet'
    BY <2>1, <2>2 DEF NothingYet, CodegenTypeOK
  <2>5. LanesKeepOrder'
    <3>. SUFFICES ASSUME NEW m \in Lanes
                  PROVE  /\ First(m) <= pos'[m] /\ pos'[m] <= Last(m)
                         /\ stream'[m] = ItemsFrom(First(m), pos'[m])
                         /\ ran'[m] = 1 => pos'[m] = Last(m) /\ laneTexts'[m] = stream'[m]
      BY <2>1, <2>2 DEF LanesKeepOrder, First, Last
    <3>1. /\ First(m) <= pos[m] /\ pos[m] <= Last(m)
          /\ stream[m] = ItemsFrom(First(m), pos[m])
          /\ ran[m] = 1 => pos[m] = Last(m) /\ laneTexts[m] = stream[m]
      BY <2>2 DEF LanesKeepOrder, First, Last
    <3>2. CASE m # l
      <4>1. ran'[m] = ran[m] /\ laneTexts'[m] = laneTexts[m]
        BY <2>1, <3>2 DEF CodegenTypeOK
      <4>. QED  BY <2>1, <3>1, <4>1
    <3>3. CASE m = l
      <4>1. laneTexts'[m] = stream[m]
        BY <2>1, <3>3 DEF CodegenTypeOK
      <4>2. pos[m] = Last(m)
        BY <1>1, <2>1, <2>2, <3>1, <3>3
      <4>. QED  BY <2>1, <3>1, <4>1, <4>2
    <3>. QED  BY <3>2, <3>3
  <2>6. MainKeepsOrder'
    BY <2>1 DEF MainKeepsOrder, CellStart
  <2>. QED  BY <2>3, <2>4, <2>5, <2>6
<1>5. CASE Join
  <2>1. /\ running /\ (\A l \in Lanes : ran[l] = phase) /\ running' = FALSE
        /\ UNCHANGED <<items, pos, stream, laneTexts, out, cell, phase, ran>>
    BY <1>5 DEF Join, Pool!JoinAll
  <2>2. CodegenTypeOK' /\ NothingYet'
    BY <2>1 DEF CodegenTypeOK, NothingYet
  <2>3. LanesKeepOrder'
    BY <2>1 DEF LanesKeepOrder
  <2>4. MainKeepsOrder'
    BY <2>1 DEF MainKeepsOrder, CellStart
  <2>. QED  BY <2>2, <2>3, <2>4
<1>6. CASE WriteCell
  <2>1. /\ phase = 1 /\ ~running /\ cell < Cores
        /\ out' = out \o laneTexts[cell] /\ cell' = cell + 1
        /\ UNCHANGED <<items, pos, stream, laneTexts, phase, running, ran>>
    BY <1>6 DEF WriteCell
  <2>2. /\ CellStart(cell) \in Nat /\ CellStart(cell + 1) \in Nat
        /\ CellStart(cell) <= CellStart(cell + 1)
        /\ laneTexts[cell] = ItemsFrom(CellStart(cell), CellStart(cell + 1))
    <3>1. CASE cell \in Lanes
      <4>1. ran[cell] = 1
        BY <2>1, <3>1 DEF MainKeepsOrder
      <4>2. laneTexts[cell] = ItemsFrom(First(cell), Last(cell))
        BY <2>1, <3>1, <4>1 DEF LanesKeepOrder, First, Last
      <4>. QED  BY <1>1, <3>1, <4>2
    <3>2. CASE cell \notin Lanes
      <4>1. cell \in (0 .. Cores - 1) \ Lanes
        BY <1>0, <2>1, <3>2
      <4>2. CellStart(cell) = items /\ CellStart(cell + 1) = items
        BY <1>0, <4>1, CellRanges
      <4>3. laneTexts[cell] = <<>>
        BY <4>1 DEF NothingYet
      <4>4. ItemsFrom(items, items) = <<>>
        BY <1>0, NoItems
      <4>. QED  BY <1>0, <4>2, <4>3, <4>4
    <3>. QED  BY <3>1, <3>2
  <2>3. out' = ItemsFrom(0, CellStart(cell + 1))
    <3>1. out = ItemsFrom(0, CellStart(cell))
      BY DEF MainKeepsOrder
    <3>2. \A a, b \in Nat : a <= b => ItemsFrom(0, a) \o ItemsFrom(a, b) = ItemsFrom(0, b)
      <4>1. \A a \in Nat : 0 \in Nat /\ 0 <= a
        OBVIOUS
      <4>. QED  BY <4>1, ItemsConcat, Zenon
    <3>. QED  BY <2>1, <2>2, <3>1, <3>2, Zenon
  <2>4. CodegenTypeOK'
    <3>1. out' \in Seq(Nat)
      BY <2>2, <2>3, ItemsLen
    <3>. QED  BY <1>0, <2>1, <3>1 DEF CodegenTypeOK
  <2>5. NothingYet' /\ LanesKeepOrder'
    BY <2>1 DEF NothingYet, LanesKeepOrder
  <2>6. MainKeepsOrder'
    BY <2>1, <2>3 DEF MainKeepsOrder, CellStart
  <2>. QED  BY <2>4, <2>5, <2>6
<1>7. CASE UNCHANGED codegenVars
  <2>. USE <1>7 DEF codegenVars
  <2>1. CodegenTypeOK' /\ NothingYet'
    BY DEF CodegenTypeOK, NothingYet
  <2>2. LanesKeepOrder' /\ MainKeepsOrder'
    BY DEF LanesKeepOrder, MainKeepsOrder, CellStart
  <2>. QED  BY <2>1, <2>2
<1>. QED  BY <1>2, <1>3, <1>4, <1>5, <1>6, <1>7 DEF CodegenNext, Finished

\* Every lane's text is the items of its range, and what main has written is
\* the items of the cells it is through with.
THEOREM CodegenInvariance == CodegenSpec => []CodegenInv
  BY CodegenStart, CodegenStep, PTL DEF CodegenSpec

\* The output of cg_program_defs_parallel is that of the serial loop.
THEOREM LayoutIsSerial == CodegenSpec => []SerialLayout
<1>1. CodegenInv => SerialLayout
  <2>. SUFFICES ASSUME CodegenInv, Done PROVE out = [i \in 1 .. items |-> i - 1]
    BY DEF SerialLayout
  <2>1. items \in Nat /\ out = ItemsFrom(0, CellStart(Cores))
    BY CodegenAssumption DEF CodegenInv, CodegenTypeOK, MainKeepsOrder, Done
  <2>2. CellStart(Cores) = items
    BY <2>1, CellRanges
  <2>. QED  BY <2>1, <2>2 DEF ItemsFrom
<1>. QED  BY <1>1, CodegenInvariance, PTL

\* No two lanes render the same item, and the later lane's items are the later.
THEOREM LanesAreDisjoint == CodegenSpec => []DisjointOrdered
<1>1. CodegenInv => DisjointOrdered
  <2>. SUFFICES ASSUME CodegenInv, NEW l \in Lanes, NEW m \in Lanes, l < m,
                       NEW i \in 1 .. Len(stream[l]), NEW j \in 1 .. Len(stream[m])
                PROVE  stream[l][i] < stream[m][j]
    BY DEF DisjointOrdered
  <2>. USE CodegenAssumption, CellsOfLanes DEF CodegenInv
  <2>. DEFINE First(k) == RangeStart(items, LaneCount, k)
              Last(k) == RangeEnd(items, LaneCount, k)
  <2>0. items \in Nat
    BY DEF CodegenTypeOK
  <2>1. /\ First(l) \in Nat /\ First(m) \in Nat /\ Last(l) \in Nat
    <3>1. l \in 0 .. Cores /\ m \in 0 .. Cores /\ l + 1 \in 0 .. Cores
      OBVIOUS
    <3>. QED  BY <2>0, <3>1, CellRanges
  <2>2. Last(l) <= First(m)
    BY <2>0, RangesAscend
  <2>. HIDE DEF First, Last
  <2>3. phase = 1
    BY DEF NothingYet, CodegenTypeOK
  <2>4. /\ First(l) <= pos[l] /\ pos[l] <= Last(l) /\ First(m) <= pos[m]
        /\ stream[l] = ItemsFrom(First(l), pos[l]) /\ stream[m] = ItemsFrom(First(m), pos[m])
        /\ pos[l] \in Nat /\ pos[m] \in Nat
    BY <2>3 DEF LanesKeepOrder, CodegenTypeOK, First, Last
  <2>5. /\ Len(stream[l]) = pos[l] - First(l) /\ Len(stream[m]) = pos[m] - First(m)
    BY <2>1, <2>4, ItemsLen
  <2>6. i \in 1 .. pos[l] - First(l) /\ j \in 1 .. pos[m] - First(m)
    BY <2>5
  <2>7. stream[l][i] = First(l) + (i - 1)
    <3>1. First(l) \in Nat /\ pos[l] \in Nat /\ First(l) <= pos[l] /\ i \in 1 .. pos[l] - First(l)
      BY <2>1, <2>4, <2>6
    <3>2. ItemsFrom(First(l), pos[l])[i] = First(l) + (i - 1)
      BY <3>1, ItemsAre, Zenon
    <3>. QED  BY <2>4, <3>2
  <2>8. stream[m][j] = First(m) + (j - 1)
    <3>1. First(m) \in Nat /\ pos[m] \in Nat /\ First(m) <= pos[m] /\ j \in 1 .. pos[m] - First(m)
      BY <2>1, <2>4, <2>6
    <3>2. ItemsFrom(First(m), pos[m])[j] = First(m) + (j - 1)
      BY <3>1, ItemsAre, Zenon
    <3>. QED  BY <2>4, <3>2
  <2>9. ASSUME NEW a \in Nat, NEW b \in Nat, NEW c \in Nat, NEW p \in Nat, NEW q \in Nat,
               p <= b, b <= c, NEW x \in 1 .. p - a, NEW y \in 1 .. q - c
        PROVE  a + (x - 1) < c + (y - 1)
    BY <2>9
  <2>10. First(l) + (i - 1) < First(m) + (j - 1)
    BY <2>1, <2>2, <2>4, <2>6, <2>9, Zenon
  <2>. HIDE CodegenAssumption, CellsOfLanes DEF CodegenInv
  <2>. QED  BY <2>7, <2>8, <2>10, Zenon
<1>. QED  BY <1>1, CodegenInvariance, PTL

=============================================================================
