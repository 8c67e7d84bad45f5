------------------------------- MODULE Arena -------------------------------
(***************************************************************************)
(* Arenas (base.h, and bbb_arena.c of compiled programs): memory is pushed *)
(* at the end and given back by going back to a mark.  A "vm" arena is one *)
(* reserved range whose pages are committed as the end moves; a "heap"     *)
(* arena, which the runtime of compiled programs does not have, is a list  *)
(* of blocks.                                                              *)
(*                                                                         *)
(* An address is a block and an offset in it; a vm arena has one block.    *)
(* live is what the program still holds: the ranges it pushed and has not  *)
(* given back, each with the number of temporary scopes that were open.    *)
(* Scopes nest, as base.h asks of its callers.  Sizes are bounded by what  *)
(* the arena can hold; MaxLive and MaxScopes bound the run.                *)
(***************************************************************************)
EXTENDS Integers, Sequences, SequencesExt, FiniteSets

CONSTANTS Sizes, Aligns, PageSize, Reserve, BlockSize, BlockAlign, MaxLive, MaxScopes, MaxBlocks

\* What is known of the constants; every size is representable and no alignment
\* is 0.  The bytes of a heap block start at a multiple of BlockAlign (16), so an
\* offset that is aligned is an aligned address for the alignments that divide it:
\* a larger one is a misuse that only the assertions of a debug build refuse.
ArenaConstants ==
  /\ Sizes \subseteq Nat /\ Aligns \subseteq Nat \ {0}
  /\ PageSize \in Nat \ {0} /\ Reserve \in Nat /\ BlockSize \in Nat
  /\ BlockAlign \in Nat \ {0} /\ \A a \in Aligns : BlockAlign % a = 0

VARIABLES kind,    \* "vm" or "heap"
          blocks,  \* [size, used, commit] of each block, linked in this order
          current, \* the block that is pushed to, 0 before the first
          scopes,  \* the marks of the open temporary scopes
          live,    \* [blk, lo, hi, align, depth]
          status   \* "open", "aborted" or "destroyed"

memory == << kind, blocks, current, scopes, live, status >>

AlignPow2(x, a) == ((x + a - 1) \div a) * a
Larger(a, b) == IF a > b THEN a ELSE b

\* One page more than asked for is reserved and none committed; a heap arena has no block yet.
arena_create(k) ==
  /\ kind = k
  /\ blocks = IF k = "vm" THEN << [size |-> AlignPow2(Reserve, PageSize) + PageSize, used |-> 0, commit |-> 0] >> ELSE << >>
  /\ current = IF k = "vm" THEN 1 ELSE 0
MemoryInit ==
  /\ \E k \in {"vm", "heap"} : arena_create(k)
  /\ scopes = << >> /\ live = {} /\ status = "open"

Hold(b, lo, size, align) ==
  live' = live \cup { [blk |-> b, lo |-> lo, hi |-> lo + size, align |-> align, depth |-> Len(scopes)] }

(***************************************************************************)
(* Pushing.                                                                *)
(***************************************************************************)
\* Pages are committed up to the new end.
Committed(b, next) == IF next > b.commit THEN AlignPow2(next, PageSize) ELSE b.commit
\* Mutant: the pages are counted from the old end.
arena_vm_push_short(size, align) ==
  LET b    == blocks[1]
      lo   == AlignPow2(b.used, align)
      next == lo + size
  IN  /\ kind = "vm" /\ next <= b.size
      /\ blocks' = [blocks EXCEPT ![1].used = next, ![1].commit = IF next > @ THEN AlignPow2(b.used, PageSize) ELSE @]
      /\ Hold(1, lo, size, align)
      /\ UNCHANGED << kind, current, scopes, status >>
arena_vm_push_op(size, align) ==
  LET b    == blocks[1]
      lo   == AlignPow2(b.used, align)
      next == lo + size
  IN  /\ kind = "vm" /\ next <= b.size
      /\ blocks' = [blocks EXCEPT ![1].used = next, ![1].commit = Committed(b, next)]
      /\ Hold(1, lo, size, align)
      /\ UNCHANGED << kind, current, scopes, status >>

\* A push that does not fit is reported and the program aborts.
arena_exhausted(size, align) ==
  /\ kind = "vm" /\ AlignPow2(blocks[1].used, align) + size > blocks[1].size
  /\ status' = "aborted"
  /\ UNCHANGED << kind, blocks, current, scopes, live >>

Block(min) == [size |-> Larger(min, BlockSize), used |-> 0, commit |-> Larger(min, BlockSize)]

\* A block that is full is followed by a new one; the blocks that followed it
\* are forgotten.  The bytes of a new block start on BlockAlign.
arena_heap_push_op(size, align) ==
  LET bs    == IF current = 0 THEN << Block(BlockSize) >> ELSE blocks
      cur   == IF current = 0 THEN 1 ELSE current
      lo    == AlignPow2(bs[cur].used, align)
      fits  == lo + size <= bs[cur].size
      after == Append(SubSeq(bs, 1, cur), [Block(size + align) EXCEPT !.used = size])
  IN  /\ kind = "heap"
      /\ blocks' = IF fits THEN [bs EXCEPT ![cur].used = lo + size] ELSE after
      /\ current' = IF fits THEN cur ELSE cur + 1
      /\ IF fits THEN Hold(cur, lo, size, align) ELSE Hold(cur + 1, 0, size, align)
      /\ UNCHANGED << kind, scopes, status >>

\* malloc gives no block.  Without the first one the push reads through NULL; a
\* later one that is missing makes the push return NULL, with the first block
\* kept when this very push made it.
arena_no_block(size, align) ==
  LET bs  == IF current = 0 THEN << Block(BlockSize) >> ELSE blocks
      cur == IF current = 0 THEN 1 ELSE current
  IN  /\ kind = "heap"
      /\ \/ /\ current = 0
            /\ status' = "aborted"
            /\ UNCHANGED << blocks, current >>
         \/ /\ AlignPow2(bs[cur].used, align) + size > bs[cur].size
            /\ blocks' = bs /\ current' = cur
            /\ UNCHANGED status
      /\ UNCHANGED << kind, scopes, live >>
arena_push(size, align) ==
  /\ Cardinality(live) < MaxLive /\ current < MaxBlocks
  /\ \/ arena_vm_push_op(size, align) \/ arena_exhausted(size, align)
     \/ arena_heap_push_op(size, align) \/ arena_no_block(size, align)

(***************************************************************************)
(* Marks and scopes.  A mark of an arena that has no block yet is NULL.    *)
(***************************************************************************)
arena_mark == [blk |-> current, at |-> IF current = 0 THEN 0 ELSE blocks[current].used]
arena_temp_begin ==
  /\ Len(scopes) < MaxScopes
  /\ scopes' = Append(scopes, arena_mark)
  /\ UNCHANGED << kind, blocks, current, live, status >>

Cleared(b) == [b EXCEPT !.used = 0]
arena_pop(mark) ==
  /\ blocks' = [i \in DOMAIN blocks |-> IF i < mark.blk THEN blocks[i]
                                        ELSE IF i = mark.blk THEN [blocks[i] EXCEPT !.used = mark.at]
                                        ELSE Cleared(blocks[i])]
  /\ current' = IF mark.blk # 0 THEN mark.blk ELSE IF blocks = << >> THEN 0 ELSE 1
arena_temp_end ==
  /\ scopes # << >>
  /\ arena_pop(Last(scopes))
  /\ scopes' = Front(scopes)
  /\ live' = { r \in live : r.depth < Len(scopes) }
  /\ UNCHANGED << kind, status >>

(***************************************************************************)
(* Giving everything back.                                                 *)
(***************************************************************************)
arena_reset ==
  /\ scopes = << >>
  /\ blocks' = [i \in DOMAIN blocks |-> Cleared(blocks[i])]
  /\ current' = IF blocks = << >> THEN 0 ELSE 1
  /\ live' = {}
  /\ UNCHANGED << kind, scopes, status >>

\* The pages are given back too; a heap arena does nothing.
arena_release ==
  /\ scopes = << >>
  /\ kind = "vm"
  /\ blocks' = [blocks EXCEPT ![1].used = 0, ![1].commit = 0]
  /\ live' = {}
  /\ UNCHANGED << kind, current, scopes, status >>

arena_destroy ==
  /\ scopes = << >>
  /\ status' = "destroyed" /\ blocks' = << >> /\ current' = 0 /\ live' = {}
  /\ UNCHANGED << kind, scopes >>

MemoryNext ==
  /\ status = "open"
  /\ \/ \E size \in Sizes, align \in Aligns : arena_push(size, align)
     \/ arena_temp_begin \/ arena_temp_end \/ arena_reset \/ arena_release \/ arena_destroy
MemorySpec == MemoryInit /\ [][MemoryNext]_memory

-----------------------------------------------------------------------------
\* What the program holds is its own: aligned as asked, in memory that can be
\* read and written, below the end of its block, and apart from everything
\* else it holds, whatever scopes have been opened and ended in between.
HeldIsOwn ==
  \A r \in live :
    /\ r.lo % r.align = 0
    /\ r.blk \in DOMAIN blocks /\ r.hi <= blocks[r.blk].used /\ r.hi <= blocks[r.blk].commit
    /\ r.blk <= current
    /\ \A q \in live : r # q /\ r.blk = q.blk => r.hi <= q.lo \/ q.hi <= r.lo

-----------------------------------------------------------------------------
(* The inductive invariant. *)

BlockRecords == [size : Nat, used : Nat, commit : Nat]
MarkRecords  == [blk : Nat, at : Nat]
LiveRecords  == [blk : Nat, lo : Nat, hi : Nat, align : Aligns, depth : Nat]

\* Types; a vm arena is its one block, and a heap arena has a current block as
\* soon as it has one at all.
ArenaTypes ==
  /\ kind \in {"vm", "heap"}
  /\ blocks \in Seq(BlockRecords) /\ scopes \in Seq(MarkRecords) /\ live \subseteq LiveRecords
  /\ current \in 0 .. Len(blocks) /\ (current = 0 => blocks = << >>)
  /\ kind = "vm" /\ status = "open" => Len(blocks) = 1

\* The end of a block is in its committed part, which is all of a heap block.
BlocksFit ==
  \A i \in DOMAIN blocks : /\ blocks[i].used <= blocks[i].commit
                           /\ kind = "heap" => blocks[i].commit = blocks[i].size

\* Going back to a mark never goes forward: a mark is in a block up to the
\* current one and not past its end, and inner scopes have the later marks.
MarksAscend ==
  \A k \in DOMAIN scopes :
    /\ scopes[k].blk <= current
    /\ scopes[k].blk # 0 => scopes[k].at <= blocks[scopes[k].blk].commit
    /\ scopes[k].blk # 0 /\ scopes[k].blk = current => scopes[k].at <= blocks[current].used
    /\ \A j \in DOMAIN scopes : j < k => /\ scopes[j].blk <= scopes[k].blk
                                         /\ scopes[k].blk # 0 /\ scopes[j].blk = scopes[k].blk => scopes[j].at <= scopes[k].at

\* What was pushed before a scope was opened is below the scope's mark.
HeldBelowMarks ==
  \A r \in live :
    /\ r.depth <= Len(scopes) /\ r.blk # 0
    /\ \A k \in DOMAIN scopes : r.depth < k => /\ r.blk <= scopes[k].blk
                                               /\ r.blk = scopes[k].blk => r.hi <= scopes[k].at

ArenaInv ==
  /\ ArenaTypes
  /\ BlocksFit
  /\ MarksAscend
  /\ HeldBelowMarks
  /\ HeldIsOwn

=============================================================================
