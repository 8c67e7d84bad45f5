--------------------------- MODULE ParallelCodegen ---------------------------
(***************************************************************************)
(* cg_program_defs_parallel: the compiler renders the top-level items of a *)
(* package on the lane pool.  Every lane renders its range of items into a *)
(* stream of its own, stores the text in its cell of lane_texts, and when  *)
(* the phase is over main concatenates the cells.                          *)
(*                                                                         *)
(* The pool is the abstract fork/join that LanePool implements.  An item's *)
(* rendered text is represented by the item's index.                       *)
(***************************************************************************)
EXTENDS Naturals, Sequences

CONSTANTS Cores,    \* what os_get_core_count returns
          MaxItems  \* bound: the number of top-level items in the package

ASSUME CodegenAssumption == Cores \in Nat \ {0} /\ MaxItems \in Nat

VARIABLES items,         \* the number of top-level items
          pos, stream,   \* each lane's loop index and memory stream
          laneTexts,     \* CgParallelJob.lane_texts, one cell per core
          out, cell,     \* what main has written, and the cell it writes next
          phase, running, ran  \* the pool

codegenVars == <<items, pos, stream, laneTexts, out, cell, phase, running, ran>>

LaneCount == IF Cores > 1 THEN Cores - 1 ELSE 1
Lanes == 0 .. LaneCount - 1

Pool == INSTANCE ForkJoin

(***************************************************************************)
(* lane_range: how `work` items 0 .. work-1 are dealt out to the lanes of  *)
(* a pool.  Lane `lane` of `lanes` gets the half-open interval from        *)
(* RangeStart to RangeEnd; the first `work % lanes` lanes get one more.    *)
(* All products are at most `work`, so the u64 arithmetic does not wrap.   *)
(***************************************************************************)
Least(a, b) == IF a <= b THEN a ELSE b

RangeStart(work, lanes, lane) ==
  Least(lane * (work \div lanes) + Least(lane, work % lanes), work)

RangeEnd(work, lanes, lane) ==
  LET start == RangeStart(work, lanes, lane)
      size == (work \div lanes) + (IF lane < work % lanes THEN 1 ELSE 0)
  IN  IF start + size > work THEN work ELSE start + size

(***************************************************************************)
(* The compiler's phase.                                                   *)
(***************************************************************************)

CodegenInit ==
  /\ items \in 0 .. MaxItems
  /\ pos = [l \in Lanes |-> 0]
  /\ stream = [l \in Lanes |-> <<>>]
  /\ laneTexts = [c \in 0 .. Cores - 1 |-> <<>>]
  /\ out = <<>> /\ cell = 0
  /\ Pool!Init

\* Main fills in the job and starts the phase.
StartPhase ==
  /\ phase = 0
  /\ Pool!Fork
  /\ pos' = [l \in Lanes |-> RangeStart(items, LaneCount, l)]
  /\ UNCHANGED <<items, stream, laneTexts, out, cell>>

\* One turn of a lane's loop: cg_toplevel on its next item.
RenderItem(l) ==
  /\ running /\ ran[l] < phase
  /\ pos[l] < RangeEnd(items, LaneCount, l)
  /\ stream' = [stream EXCEPT ![l] = Append(stream[l], pos[l])]
  /\ pos' = [pos EXCEPT ![l] = pos[l] + 1]
  /\ UNCHANGED <<items, laneTexts, out, cell, phase, running, ran>>

\* The lane closes its stream, keeps the text, and is done with the phase.
KeepText(l) ==
  /\ pos[l] >= RangeEnd(items, LaneCount, l)
  /\ Pool!Run(l)
  /\ laneTexts' = [laneTexts EXCEPT ![l] = stream[l]]
  /\ UNCHANGED <<items, pos, stream, out, cell>>

\* async_phase_wait returns.
Join ==
  /\ Pool!JoinAll
  /\ UNCHANGED <<items, pos, stream, laneTexts, out, cell>>

\* Mutant: main writes the texts in the wrong direction.
WriteCellReversed ==
  /\ phase = 1 /\ ~running
  /\ cell < Cores
  /\ out' = out \o laneTexts[Cores - 1 - cell]
  /\ cell' = cell + 1
  /\ UNCHANGED <<items, pos, stream, laneTexts, phase, running, ran>>

\* After the join main writes the cells of all cores in ascending order; the
\* cells no lane owns are empty.
WriteCell ==
  /\ phase = 1 /\ ~running
  /\ cell < Cores
  /\ out' = out \o laneTexts[cell]
  /\ cell' = cell + 1
  /\ UNCHANGED <<items, pos, stream, laneTexts, phase, running, ran>>

Done == phase = 1 /\ ~running /\ cell = Cores

Finished == Done /\ UNCHANGED codegenVars

CodegenNext ==
  \/ StartPhase \/ Join \/ WriteCell \/ Finished
  \/ \E l \in Lanes : RenderItem(l) \/ KeepText(l)

CodegenSpec == CodegenInit /\ [][CodegenNext]_codegenVars

-----------------------------------------------------------------------------
\* Types; a lane's cell exists, although lane_texts is sized by the cores and
\* not by the lanes.
CodegenTypeOK ==
  /\ items \in 0 .. MaxItems
  /\ pos \in [Lanes -> Nat] /\ stream \in [Lanes -> Seq(Nat)]
  /\ laneTexts \in [0 .. Cores - 1 -> Seq(Nat)] /\ Lanes \subseteq 0 .. Cores - 1
  /\ out \in Seq(Nat) /\ cell \in 0 .. Cores
  /\ phase \in 0 .. 1 /\ running \in BOOLEAN /\ ran \in [Lanes -> 0 .. 1]

\* "Concatenating by ascending lane index reproduces the original
\* top-to-bottom order": the output is that of the serial loop of cg_program,
\* whatever the schedule, also with fewer items than lanes and with none.
SerialLayout == Done => out = [i \in 1 .. items |-> i - 1]

\* While they run, no two lanes ever hold the same item, and a lane only
\* holds items that come after those of the lanes before it.
DisjointOrdered ==
  \A l, m \in Lanes : l < m =>
    \A i \in 1 .. Len(stream[l]), j \in 1 .. Len(stream[m]) : stream[l][i] < stream[m][j]

-----------------------------------------------------------------------------
(* The inductive invariant. *)

\* The items from a up to b, in order.
ItemsFrom(a, b) == [i \in 1 .. b - a |-> a + (i - 1)]

\* The first item of a cell's lane; the cells past the lanes start at the end.
CellStart(c) == IF c < LaneCount THEN RangeStart(items, LaneCount, c) ELSE items

\* Before the phase there is nothing, and every cell without a lane stays so.
NothingYet ==
  /\ phase = 0 => /\ ~running /\ cell = 0
                  /\ \A l \in Lanes : stream[l] = <<>> /\ ran[l] = 0
  /\ \A c \in (0 .. Cores - 1) \ Lanes : laneTexts[c] = <<>>

\* A lane's stream holds its range up to the lane's position, and its cell the
\* whole of it once it is done.
LanesKeepOrder ==
  phase = 1 =>
    \A l \in Lanes :
      /\ RangeStart(items, LaneCount, l) <= pos[l] /\ pos[l] <= RangeEnd(items, LaneCount, l)
      /\ stream[l] = ItemsFrom(RangeStart(items, LaneCount, l), pos[l])
      /\ ran[l] = 1 => pos[l] = RangeEnd(items, LaneCount, l) /\ laneTexts[l] = stream[l]

\* Main writes only after all lanes are done, and is through with the cells
\* before the one it writes next.
MainKeepsOrder ==
  /\ phase = 1 /\ ~running => \A l \in Lanes : ran[l] = 1
  /\ running => cell = 0
  /\ out = ItemsFrom(0, CellStart(cell))

CodegenInv ==
  /\ CodegenTypeOK
  /\ NothingYet
  /\ LanesKeepOrder
  /\ MainKeepsOrder

=============================================================================
