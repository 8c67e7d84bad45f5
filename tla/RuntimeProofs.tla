--------------------------- MODULE RuntimeProofs ---------------------------
(***************************************************************************)
(* Proofs about the libraries every program runs on: arenas, hash tables,  *)
(* the os package and the conversion of texts to numbers.                  *)
(***************************************************************************)
EXTENDS Arena, HashMap, OsVerbs, Numbers, SequenceTheorems, FiniteSetTheorems, WellFoundedInduction, TLAPS

(***************************************************************************)
(* Arenas.  What the program holds of an arena is its own, for every page  *)
(* and block size, any number of live ranges and any nesting of temporary  *)
(* scopes.                                                                 *)
(***************************************************************************)
\* Rounding up reaches a multiple of the alignment that is not smaller.
LEMMA AlignUp ==
  ASSUME NEW x \in Nat, NEW a \in Nat, a > 0
  PROVE  AlignPow2(x, a) \in Nat /\ AlignPow2(x, a) >= x /\ AlignPow2(x, a) % a = 0
<1>. DEFINE y == x + a - 1
            q == y \div a
<1>1. y \in Nat
  OBVIOUS
<1>. HIDE DEF y
<1>2. q \in Nat /\ y % a \in Nat /\ y % a < a /\ y = a * q + (y % a)
  BY <1>1
<1>. HIDE DEF q
<1>3. q * a \in Nat /\ q * a = a * q
  BY <1>2
<1>4. q * a >= x
  BY <1>2, <1>3 DEF y
<1>5. (q * a) % a = 0
  BY <1>2
<1>. QED  BY <1>3, <1>4, <1>5 DEF AlignPow2, q, y

-----------------------------------------------------------------------------
\* What the invariant says of the blocks, the marks and the ranges, element by
\* element.
LEMMA Elements ==
  ASSUME ArenaTypes
  PROVE  /\ Len(blocks) \in Nat /\ DOMAIN blocks = 1 .. Len(blocks)
         /\ \A i \in DOMAIN blocks : /\ blocks[i] \in BlockRecords
                                     /\ blocks[i].size \in Nat /\ blocks[i].used \in Nat
                                     /\ blocks[i].commit \in Nat
         /\ Len(scopes) \in Nat /\ DOMAIN scopes = 1 .. Len(scopes)
         /\ \A k \in DOMAIN scopes : scopes[k].blk \in Nat /\ scopes[k].at \in Nat
         /\ \A r \in live : /\ r.blk \in Nat /\ r.lo \in Nat /\ r.hi \in Nat
                            /\ r.align \in Aligns /\ r.depth \in Nat
         /\ current \in Nat /\ current <= Len(blocks)
         /\ current # 0 => current \in DOMAIN blocks
<1>1. /\ Len(blocks) \in Nat /\ DOMAIN blocks = 1 .. Len(blocks)
      /\ Len(scopes) \in Nat /\ DOMAIN scopes = 1 .. Len(scopes)
  BY DEF ArenaTypes
<1>2. \A i \in DOMAIN blocks : blocks[i] \in BlockRecords
  BY <1>1 DEF ArenaTypes
<1>3. \A k \in DOMAIN scopes : scopes[k] \in MarkRecords
  BY <1>1 DEF ArenaTypes
<1>4. \A i \in DOMAIN blocks : blocks[i].size \in Nat /\ blocks[i].used \in Nat /\ blocks[i].commit \in Nat
  BY <1>2 DEF BlockRecords
<1>5. \A k \in DOMAIN scopes : scopes[k].blk \in Nat /\ scopes[k].at \in Nat
  BY <1>3 DEF MarkRecords
<1>6. \A r \in live : /\ r.blk \in Nat /\ r.lo \in Nat /\ r.hi \in Nat
                      /\ r.align \in Aligns /\ r.depth \in Nat
  BY DEF ArenaTypes, LiveRecords
<1>7. /\ current \in Nat /\ current <= Len(blocks)
      /\ current # 0 => current \in DOMAIN blocks
  BY <1>1 DEF ArenaTypes
<1>. QED  BY <1>1, <1>2, <1>4, <1>5, <1>6, <1>7

\* A push of either kind: the range is held at the end of the block that is
\* current from now on, above everything held there, and no block below it
\* loses anything.
LEMMA PushKeeps ==
  ASSUME ArenaConstants, ArenaInv, NEW size \in Sizes, NEW align \in Aligns,
         NEW b \in Nat, NEW lo \in Nat, Hold(b, lo, size, align),
         lo % align = 0, current' = b, b # 0, current <= b, scopes' = scopes,
         blocks' \in Seq(BlockRecords), b \in DOMAIN blocks',
         kind' = kind, status' = status,
         kind = "vm" /\ status = "open" => Len(blocks') = 1,
         BlocksFit',
         \A r \in live : r.blk = b => r.hi <= lo,
         \A i \in DOMAIN blocks : i <= current =>
           /\ i \in DOMAIN blocks' /\ blocks[i].used <= blocks'[i].used
           /\ blocks[i].commit <= blocks'[i].commit,
         lo + size <= blocks'[b].used
  PROVE  ArenaInv'
<1>. USE Elements DEF ArenaInv
<1>. DEFINE new == [blk |-> b, lo |-> lo, hi |-> lo + size, align |-> align, depth |-> Len(scopes)]
<1>1. /\ size \in Nat /\ align \in Nat /\ align > 0
      /\ live' = live \cup {new}
      /\ new.blk = b /\ new.lo = lo /\ new.hi = lo + size /\ new.align = align /\ new.depth = Len(scopes)
  BY DEF ArenaConstants, Hold
<1>2. new \in LiveRecords
  BY <1>1 DEF LiveRecords
<1>. HIDE DEF new
<1>3. /\ Len(blocks') \in Nat /\ DOMAIN blocks' = 1 .. Len(blocks')
      /\ blocks'[b].used \in Nat /\ blocks'[b].commit \in Nat /\ blocks'[b].used <= blocks'[b].commit
  <2>1. blocks'[b] \in BlockRecords
    OBVIOUS
  <2>. QED  BY <2>1 DEF BlocksFit, BlockRecords
<1>4. ArenaTypes'
  <2>1. b \in 0 .. Len(blocks') /\ b # 0
    BY <1>3
  <2>. QED  BY <1>1, <1>2, <2>1 DEF ArenaTypes
<1>5. \A i \in DOMAIN blocks' : blocks'[i].used \in Nat /\ blocks'[i].commit \in Nat
  <2>1. \A i \in DOMAIN blocks' : blocks'[i] \in BlockRecords
    BY <1>3
  <2>. QED  BY <2>1 DEF BlockRecords
<1>6. MarksAscend'
  <2>. SUFFICES ASSUME NEW k \in DOMAIN scopes
                PROVE  /\ scopes[k].blk <= b
                       /\ scopes[k].blk # 0 => scopes[k].at <= blocks'[scopes[k].blk].commit
                       /\ scopes[k].blk # 0 /\ scopes[k].blk = b => scopes[k].at <= blocks'[b].used
                       /\ \A j \in DOMAIN scopes : j < k =>
                            /\ scopes[j].blk <= scopes[k].blk
                            /\ scopes[k].blk # 0 /\ scopes[j].blk = scopes[k].blk => scopes[j].at <= scopes[k].at
    BY DEF MarksAscend
  <2>1. /\ scopes[k].blk <= current
        /\ scopes[k].blk # 0 => scopes[k].at <= blocks[scopes[k].blk].commit
        /\ scopes[k].blk # 0 /\ scopes[k].blk = current => scopes[k].at <= blocks[current].used
        /\ \A j \in DOMAIN scopes : j < k =>
             /\ scopes[j].blk <= scopes[k].blk
             /\ scopes[k].blk # 0 /\ scopes[j].blk = scopes[k].blk => scopes[j].at <= scopes[k].at
    BY DEF MarksAscend
  <2>2. scopes[k].blk # 0 =>
          /\ scopes[k].blk \in DOMAIN blocks /\ scopes[k].blk \in DOMAIN blocks'
          /\ blocks[scopes[k].blk].commit <= blocks'[scopes[k].blk].commit
          /\ blocks[scopes[k].blk].used <= blocks'[scopes[k].blk].used
    BY <2>1
  <2>3. scopes[k].blk # 0 => scopes[k].at <= blocks'[scopes[k].blk].commit
    <3>. HAVE scopes[k].blk # 0
    <3>1. /\ scopes[k].at \in Nat /\ blocks[scopes[k].blk].commit \in Nat
          /\ blocks'[scopes[k].blk].commit \in Nat
      BY <1>5, <2>2
    <3>2. scopes[k].at <= blocks[scopes[k].blk].commit
      BY <2>1, Zenon
    <3>3. blocks[scopes[k].blk].commit <= blocks'[scopes[k].blk].commit
      BY <2>2, Zenon
    <3>. QED  BY <3>1, <3>2, <3>3, SMTT(30)
  <2>4. scopes[k].blk # 0 /\ scopes[k].blk = b => scopes[k].at <= blocks'[b].used
    <3>. HAVE scopes[k].blk # 0 /\ scopes[k].blk = b
    <3>1. b = current
      BY <2>1
    <3>. QED  BY <1>5, <2>1, <2>2, <3>1
  <2>5. scopes[k].blk <= b
    BY <2>1
  <2>. QED  BY <2>1, <2>3, <2>4, <2>5
<1>7. HeldBelowMarks'
  <2>. SUFFICES ASSUME NEW r \in live'
                PROVE  /\ r.depth <= Len(scopes) /\ r.blk # 0
                       /\ \A k \in DOMAIN scopes : r.depth < k =>
                            /\ r.blk <= scopes[k].blk
                            /\ r.blk = scopes[k].blk => r.hi <= scopes[k].at
    BY DEF HeldBelowMarks
  <2>1. CASE r \in live
    BY <2>1 DEF HeldBelowMarks
  <2>2. CASE r = new
    BY <1>1, <2>2
  <2>. QED  BY <1>1, <2>1, <2>2
<1>8. HeldIsOwn'
  <2>1. ASSUME NEW r \in live
        PROVE  /\ r.lo % r.align = 0
               /\ r.blk \in DOMAIN blocks' /\ r.hi <= blocks'[r.blk].used /\ r.hi <= blocks'[r.blk].commit
               /\ r.blk <= b
               /\ r.blk = b => r.hi <= lo
    <3>1. /\ r.lo % r.align = 0 /\ r.blk \in DOMAIN blocks /\ r.blk <= current
          /\ r.hi <= blocks[r.blk].used /\ r.hi <= blocks[r.blk].commit
      BY DEF HeldIsOwn
    <3>2. /\ r.blk \in DOMAIN blocks' /\ blocks[r.blk].used <= blocks'[r.blk].used
          /\ blocks[r.blk].commit <= blocks'[r.blk].commit
      BY <3>1
    <3>3. r.hi <= blocks'[r.blk].used /\ r.hi <= blocks'[r.blk].commit
      <4>1. /\ r.hi \in Nat /\ blocks[r.blk].used \in Nat /\ blocks[r.blk].commit \in Nat
            /\ blocks'[r.blk].used \in Nat /\ blocks'[r.blk].commit \in Nat
        BY <1>5, <3>1, <3>2
      <4>. DEFINE h == r.hi
                  u == blocks[r.blk].used
                  v == blocks'[r.blk].used
                  c == blocks[r.blk].commit
                  d == blocks'[r.blk].commit
      <4>2. /\ h \in Nat /\ u \in Nat /\ v \in Nat /\ c \in Nat /\ d \in Nat
            /\ h <= u /\ u <= v /\ h <= c /\ c <= d
        BY <3>1, <3>2, <4>1, Zenon
      <4>. HIDE DEF h, u, v, c, d
      <4>3. h <= v /\ h <= d
        BY <4>2
      <4>. QED  BY <4>3, Zenon DEF h, v, d
    <3>. QED  BY <3>1, <3>2, <3>3
  <2>2. /\ new.lo % new.align = 0 /\ new.blk \in DOMAIN blocks' /\ new.blk <= b
        /\ new.hi <= blocks'[new.blk].used /\ new.hi <= blocks'[new.blk].commit
    BY <1>1, <1>3
  <2>3. \A r, q \in live : r # q /\ r.blk = q.blk => r.hi <= q.lo \/ q.hi <= r.lo
    BY DEF HeldIsOwn
  <2>4. \A r \in live : r.blk = new.blk => r.hi <= new.lo
    BY <1>1, <2>1
  <2>. QED  BY <1>1, <2>1, <2>2, <2>3, <2>4 DEF HeldIsOwn
<1>. QED  BY <1>4, <1>6, <1>7, <1>8

-----------------------------------------------------------------------------
\* A new arena satisfies the invariant.
LEMMA ArenaInit ==
  ASSUME ArenaConstants, MemoryInit
  PROVE  ArenaInv
<1>. DEFINE one == [size |-> AlignPow2(Reserve, PageSize) + PageSize, used |-> 0, commit |-> 0]
<1>1. one \in BlockRecords /\ one.used = 0 /\ one.commit = 0
  BY AlignUp DEF ArenaConstants, BlockRecords
<1>2. /\ \/ kind = "vm" /\ blocks = << one >> /\ current = 1
         \/ kind = "heap" /\ blocks = << >> /\ current = 0
      /\ scopes = << >> /\ live = {} /\ status = "open"
  BY DEF MemoryInit, arena_create
<1>. HIDE DEF one
<1>3. ArenaTypes
  <2>1. CASE kind = "vm"
    <3>0. << one >> \in Seq(BlockRecords) /\ Len(<< one >>) = 1
      BY <1>1
    <3>1. blocks \in Seq(BlockRecords) /\ Len(blocks) = 1 /\ current = 1
      BY <1>2, <2>1, <3>0, Zenon
    <3>. QED  BY <1>2, <2>1, <3>1 DEF ArenaTypes
  <2>2. CASE kind = "heap"
    <3>1. blocks = << >> /\ current = 0
      BY <1>2, <2>2
    <3>. QED  BY <1>2, <2>2, <3>1 DEF ArenaTypes
  <2>. QED  BY <1>2, <2>1, <2>2
<1>4. BlocksFit
  BY <1>1, <1>2 DEF BlocksFit
<1>5. MarksAscend /\ HeldBelowMarks /\ HeldIsOwn
  BY <1>2 DEF MarksAscend, HeldBelowMarks, HeldIsOwn
<1>. QED  BY <1>3, <1>4, <1>5 DEF ArenaInv

\* The push of a vm arena commits what it hands out.
LEMMA VmPush ==
  ASSUME ArenaConstants, ArenaInv, status = "open",
         NEW size \in Sizes, NEW align \in Aligns, arena_vm_push_op(size, align)
  PROVE  ArenaInv'
<1>. DEFINE b == blocks[1]
            lo == AlignPow2(b.used, align)
            next == lo + size
<1>1. /\ Len(blocks) = 1 /\ DOMAIN blocks = {1} /\ current = 1
      /\ b \in BlockRecords /\ b.size \in Nat /\ b.used \in Nat /\ b.commit \in Nat
      /\ blocks \in Seq(BlockRecords)
  <2>1. Len(blocks) = 1 /\ current \in 0 .. Len(blocks) /\ (current = 0 => blocks = << >>)
        /\ blocks \in Seq(BlockRecords)
    BY DEF ArenaInv, ArenaTypes, arena_vm_push_op
  <2>2. DOMAIN blocks = 1 .. 1 /\ blocks # << >>
    BY <2>1
  <2>3. DOMAIN blocks = {1} /\ current = 1
    BY <2>1, <2>2
  <2>. QED  BY <2>1, <2>3, Elements DEF ArenaInv
<1>2. /\ kind = "vm" /\ next <= b.size
      /\ blocks' = [blocks EXCEPT ![1].used = next, ![1].commit = Committed(b, next)]
      /\ Hold(1, lo, size, align)
      /\ UNCHANGED << kind, current, scopes, status >>
  BY DEF arena_vm_push_op
<1>3. /\ size \in Nat /\ align \in Nat /\ align > 0 /\ PageSize \in Nat /\ PageSize > 0
  BY DEF ArenaConstants
<1>4. lo \in Nat /\ lo >= b.used /\ lo % align = 0
  BY <1>1, <1>3, AlignUp
<1>. HIDE DEF lo
<1>5. next \in Nat /\ next >= lo
  BY <1>3, <1>4
<1>6. /\ Committed(b, next) \in Nat /\ Committed(b, next) >= next /\ Committed(b, next) >= b.commit
  <2>1. AlignPow2(next, PageSize) \in Nat /\ AlignPow2(next, PageSize) >= next
    BY <1>3, <1>5, AlignUp
  <2>. QED  BY <1>1, <1>5, <2>1 DEF Committed
<1>. DEFINE b2 == [b EXCEPT !.used = next, !.commit = Committed(b, next)]
<1>7. b2 \in BlockRecords /\ b2.used = next /\ b2.commit = Committed(b, next)
  BY <1>1, <1>5, <1>6 DEF BlockRecords
<1>8. blocks' = [blocks EXCEPT ![1] = b2]
  BY <1>1, <1>2
<1>. HIDE DEF b2, next, b
<1>9. blocks' \in Seq(BlockRecords) /\ Len(blocks') = 1 /\ DOMAIN blocks' = {1} /\ blocks'[1] = b2
  <2>1. 1 \in 1 .. Len(blocks)
    BY <1>1
  <2>2. /\ blocks' \in Seq(BlockRecords) /\ Len(blocks') = Len(blocks)
        /\ blocks'[1] = b2
    <3>1. b2 \in BlockRecords /\ blocks \in Seq(BlockRecords)
      BY <1>1, <1>7
    <3>2. /\ [blocks EXCEPT ![1] = b2] \in Seq(BlockRecords)
          /\ Len([blocks EXCEPT ![1] = b2]) = Len(blocks)
      BY <2>1, <3>1, ExceptSeq
    <3>3. [blocks EXCEPT ![1] = b2][1] = b2
      BY <1>1
    <3>. QED  BY <1>8, <3>2, <3>3
  <2>3. DOMAIN blocks' = DOMAIN blocks
    BY <1>8
  <2>. QED  BY <1>1, <2>2, <2>3
<1>10. BlocksFit'
  BY <1>2, <1>6, <1>7, <1>9, <1>5 DEF BlocksFit
<1>11. \A r \in live : r.blk = 1 => r.hi <= lo
  <2>. SUFFICES ASSUME NEW r \in live, r.blk = 1 PROVE r.hi <= lo
    OBVIOUS
  <2>1. r.hi \in Nat /\ r.hi <= b.used
    BY Elements DEF ArenaInv, HeldIsOwn, b
  <2>. QED  BY <1>1, <1>4, <2>1
<1>12. \A i \in DOMAIN blocks : i <= current =>
         /\ i \in DOMAIN blocks' /\ blocks[i].used <= blocks'[i].used
         /\ blocks[i].commit <= blocks'[i].commit
  <2>1. next >= b.used
    BY <1>1, <1>4, <1>5
  <2>. QED  BY <1>1, <1>6, <1>7, <1>9, <2>1 DEF b
<1>13. lo + size <= blocks'[1].used
  BY <1>5, <1>7, <1>9 DEF next
<1>14. /\ 1 \in Nat /\ 1 # 0 /\ current' = 1 /\ current <= 1 /\ scopes' = scopes
       /\ kind' = kind /\ status' = status /\ 1 \in DOMAIN blocks'
       /\ kind = "vm" /\ status = "open" => Len(blocks') = 1
  BY <1>1, <1>2, <1>9
<1>15. Hold(1, lo, size, align) /\ lo \in Nat /\ lo % align = 0 /\ blocks' \in Seq(BlockRecords)
  BY <1>2, <1>4, <1>9
<1>. QED
  BY <1>10, <1>11, <1>12, <1>13, <1>14, <1>15, PushKeeps, Zenon

\* A block as arena_new_block makes it, and with its first range in it.
LEMMA NewBlock ==
  ASSUME ArenaConstants, NEW min \in Nat
  PROVE  /\ Block(min) \in BlockRecords
         /\ Block(min).used = 0 /\ Block(min).size >= min /\ Block(min).commit = Block(min).size
         /\ \A u \in Nat : /\ [Block(min) EXCEPT !.used = u] \in BlockRecords
                           /\ [Block(min) EXCEPT !.used = u].used = u
                           /\ [Block(min) EXCEPT !.used = u].size = Block(min).size
                           /\ [Block(min) EXCEPT !.used = u].commit = Block(min).commit
<1>1. Larger(min, BlockSize) \in Nat /\ Larger(min, BlockSize) >= min
  BY DEF ArenaConstants, Larger
<1>. QED  BY <1>1 DEF Block, BlockRecords

\* The push of a heap arena, into the current block or into a new one.
LEMMA HeapPush ==
  ASSUME ArenaConstants, ArenaInv,
         NEW size \in Sizes, NEW align \in Aligns, arena_heap_push_op(size, align)
  PROVE  ArenaInv'
<1>. DEFINE bs   == IF current = 0 THEN << Block(BlockSize) >> ELSE blocks
            cur  == IF current = 0 THEN 1 ELSE current
            lo   == AlignPow2(bs[cur].used, align)
            fits == lo + size <= bs[cur].size
            top  == [Block(size + align) EXCEPT !.used = size]
            after == Append(SubSeq(bs, 1, cur), top)
<1>0. /\ size \in Nat /\ align \in Nat /\ align > 0 /\ BlockSize \in Nat /\ size + align \in Nat
  BY DEF ArenaConstants
<1>1. /\ kind = "heap"
      /\ blocks' = IF fits THEN [bs EXCEPT ![cur].used = lo + size] ELSE after
      /\ current' = IF fits THEN cur ELSE cur + 1
      /\ IF fits THEN Hold(cur, lo, size, align) ELSE Hold(cur + 1, 0, size, align)
      /\ UNCHANGED << kind, scopes, status >>
  BY DEF arena_heap_push_op
<1>2. /\ bs \in Seq(BlockRecords) /\ cur \in 1 .. Len(bs) /\ cur \in Nat /\ cur # 0 /\ current <= cur
      /\ \A i \in 1 .. Len(bs) : bs[i].used <= bs[i].commit /\ bs[i].commit = bs[i].size
      /\ \A i \in DOMAIN blocks : i <= current => i \in 1 .. cur /\ bs[i] = blocks[i]
      /\ \A r \in live : r.blk <= cur /\ (r.blk = cur => r.hi <= bs[cur].used)
  <2>1. CASE current = 0
    <3>1. blocks = << >> /\ bs = << Block(BlockSize) >> /\ cur = 1
      BY <2>1 DEF ArenaInv, ArenaTypes
    <3>2. Block(BlockSize) \in BlockRecords /\ Block(BlockSize).used <= Block(BlockSize).commit
          /\ Block(BlockSize).commit = Block(BlockSize).size
      <4>1. Block(BlockSize) \in BlockRecords /\ Block(BlockSize).used = 0
            /\ Block(BlockSize).commit = Block(BlockSize).size
        BY <1>0, NewBlock
      <4>. QED  BY <4>1 DEF BlockRecords
    <3>3. << Block(BlockSize) >> \in Seq(BlockRecords) /\ Len(<< Block(BlockSize) >>) = 1
          /\ << Block(BlockSize) >>[1] = Block(BlockSize)
      BY <3>2
    <3>4. live = {} /\ DOMAIN blocks = {}
      BY <3>1 DEF ArenaInv, HeldIsOwn
    <3>. HIDE DEF bs, cur
    <3>5. bs \in Seq(BlockRecords) /\ Len(bs) = 1 /\ bs[1] = Block(BlockSize)
      BY <3>1, <3>3
    <3>. QED  BY <2>1, <3>1, <3>2, <3>4, <3>5
  <2>2. CASE current # 0
    <3>1. bs = blocks /\ cur = current
      BY <2>2
    <3>. HIDE DEF bs, cur
    <3>2. /\ blocks \in Seq(BlockRecords) /\ current \in 1 .. Len(blocks) /\ current \in Nat
          /\ DOMAIN blocks = 1 .. Len(blocks)
      BY <2>2, Elements DEF ArenaInv, ArenaTypes
    <3>3. \A i \in 1 .. Len(blocks) : blocks[i].used <= blocks[i].commit /\ blocks[i].commit = blocks[i].size
      BY <1>1, <3>2 DEF ArenaInv, BlocksFit
    <3>4. \A r \in live : r.blk <= current /\ (r.blk = current => r.hi <= blocks[current].used)
      BY DEF ArenaInv, HeldIsOwn
    <3>. QED  BY <2>2, <3>1, <3>2, <3>3, <3>4
  <2>. QED  BY <2>1, <2>2
<1>. HIDE DEF bs, cur
<1>3. /\ Len(bs) \in Nat /\ DOMAIN bs = 1 .. Len(bs) /\ bs[cur] \in BlockRecords
      /\ bs[cur].used \in Nat /\ bs[cur].size \in Nat /\ bs[cur].commit \in Nat
      /\ bs[cur].used <= bs[cur].commit /\ bs[cur].commit = bs[cur].size
  <2>1. Len(bs) \in Nat /\ DOMAIN bs = 1 .. Len(bs) /\ bs[cur] \in BlockRecords
    BY <1>2
  <2>. QED  BY <1>2, <2>1 DEF BlockRecords
<1>4. lo \in Nat /\ lo >= bs[cur].used /\ lo % align = 0
  BY <1>0, <1>3, AlignUp
<1>. HIDE DEF lo
<1>5. CASE fits
  <2>. DEFINE c2 == [bs[cur] EXCEPT !.used = lo + size]
  <2>1. /\ c2 \in BlockRecords /\ c2.used = lo + size /\ c2.commit = bs[cur].commit /\ c2.size = bs[cur].size
    BY <1>0, <1>3, <1>4 DEF BlockRecords
  <2>2. blocks' = [bs EXCEPT ![cur] = c2]
    BY <1>1, <1>5
  <2>. HIDE DEF c2
  <2>3. blocks' \in Seq(BlockRecords) /\ Len(blocks') = Len(bs) /\ DOMAIN blocks' = 1 .. Len(bs)
    <3>1. [bs EXCEPT ![cur] = c2] \in Seq(BlockRecords) /\ Len([bs EXCEPT ![cur] = c2]) = Len(bs)
      BY <1>2, <2>1, ExceptSeq
    <3>. QED  BY <1>3, <2>2, <3>1
  <2>4. blocks'[cur] = c2 /\ \A i \in 1 .. Len(bs) : i # cur => blocks'[i] = bs[i]
    BY <1>2, <1>3, <2>2
  <2>5. c2.used <= c2.commit /\ c2.commit = c2.size
    BY <1>3, <1>5, <2>1
  <2>6. BlocksFit'
    <3>. SUFFICES ASSUME NEW i \in 1 .. Len(bs)
                  PROVE  blocks'[i].used <= blocks'[i].commit /\ blocks'[i].commit = blocks'[i].size
      BY <2>3 DEF BlocksFit
    <3>1. CASE i = cur
      BY <2>4, <2>5, <3>1
    <3>2. CASE i # cur
      BY <1>2, <2>4, <3>2
    <3>. QED  BY <3>1, <3>2
  <2>7. \A r \in live : r.blk = cur => r.hi <= lo
    <3>. SUFFICES ASSUME NEW r \in live, r.blk = cur PROVE r.hi <= lo
      OBVIOUS
    <3>1. r.hi \in Nat /\ r.hi <= bs[cur].used
      BY <1>2, Elements DEF ArenaInv
    <3>. QED  BY <1>3, <1>4, <3>1
  <2>8. \A i \in DOMAIN blocks : i <= current =>
          /\ i \in DOMAIN blocks' /\ blocks[i].used <= blocks'[i].used
          /\ blocks[i].commit <= blocks'[i].commit
    <3>. SUFFICES ASSUME NEW i \in DOMAIN blocks, i <= current
                  PROVE  /\ i \in 1 .. Len(bs) /\ blocks[i].used <= blocks'[i].used
                         /\ blocks[i].commit <= blocks'[i].commit
      BY <2>3
    <3>1. i \in 1 .. cur /\ bs[i] = blocks[i] /\ blocks[i].used \in Nat /\ blocks[i].commit \in Nat
      BY <1>2, Elements DEF ArenaInv
    <3>2. i \in 1 .. Len(bs)
      BY <1>2, <1>3, <3>1
    <3>3. CASE i = cur
      <4>1. bs[cur].used <= lo + size
        BY <1>0, <1>3, <1>4
      <4>. QED  BY <1>3, <2>1, <2>4, <3>1, <3>2, <3>3, <4>1
    <3>4. CASE i # cur
      BY <2>4, <3>1, <3>2, <3>4
    <3>. QED  BY <3>3, <3>4
  <2>9. lo + size <= blocks'[cur].used
    BY <1>0, <1>4, <2>1, <2>4
  <2>10. /\ Hold(cur, lo, size, align) /\ current' = cur /\ scopes' = scopes /\ kind' = kind
         /\ status' = status /\ (kind = "vm" /\ status = "open" => Len(blocks') = 1)
         /\ cur \in DOMAIN blocks'
    BY <1>1, <1>2, <1>5, <2>3
  <2>. QED
    BY <1>2, <1>4, <2>3, <2>6, <2>7, <2>8, <2>9, <2>10, PushKeeps, Zenon
<1>6. CASE ~fits
  <2>1. /\ top \in BlockRecords /\ top.used = size /\ top.commit = top.size /\ top.size >= size + align
        /\ top.size \in Nat
    <3>1. /\ Block(size + align).size >= size + align
          /\ Block(size + align).commit = Block(size + align).size
          /\ top \in BlockRecords /\ top.used = size
          /\ top.size = Block(size + align).size /\ top.commit = Block(size + align).commit
      BY <1>0, NewBlock
    <3>. QED  BY <3>1 DEF BlockRecords
  <2>2. top.used <= top.commit
    BY <1>0, <2>1
  <2>. HIDE DEF top
  <2>. DEFINE low == SubSeq(bs, 1, cur)
  <2>3. low \in Seq(BlockRecords) /\ Len(low) = cur /\ \A i \in 1 .. cur : low[i] = bs[i]
    BY <1>2, <1>3
  <2>4. blocks' = Append(low, top)
    BY <1>1, <1>6
  <2>. HIDE DEF low
  <2>5. /\ blocks' \in Seq(BlockRecords) /\ Len(blocks') = cur + 1 /\ DOMAIN blocks' = 1 .. cur + 1
        /\ blocks'[cur + 1] = top /\ \A i \in 1 .. cur : blocks'[i] = bs[i]
    <3>1. /\ blocks' \in Seq(BlockRecords) /\ Len(blocks') = Len(low) + 1 /\ blocks'[Len(low) + 1] = top
          /\ \A i \in 1 .. Len(low) : blocks'[i] = low[i]
      BY <2>1, <2>3, <2>4, AppendProperties
    <3>2. DOMAIN blocks' = 1 .. Len(blocks')
      BY <3>1
    <3>. QED  BY <2>3, <3>1, <3>2
  <2>6. BlocksFit'
    <3>. SUFFICES ASSUME NEW i \in 1 .. cur + 1
                  PROVE  blocks'[i].used <= blocks'[i].commit /\ blocks'[i].commit = blocks'[i].size
      BY <2>5 DEF BlocksFit
    <3>1. CASE i = cur + 1
      BY <2>1, <2>2, <2>5, <3>1
    <3>2. CASE i # cur + 1
      <4>1. i \in 1 .. cur /\ i \in 1 .. Len(bs)
        BY <1>2, <1>3, <3>2
      <4>. QED  BY <1>2, <2>5, <4>1
    <3>. QED  BY <3>1, <3>2
  <2>7. \A r \in live : r.blk = cur + 1 => r.hi <= 0
    BY <1>2, Elements DEF ArenaInv
  <2>8. \A i \in DOMAIN blocks : i <= current =>
          /\ i \in DOMAIN blocks' /\ blocks[i].used <= blocks'[i].used
          /\ blocks[i].commit <= blocks'[i].commit
    <3>. SUFFICES ASSUME NEW i \in DOMAIN blocks, i <= current
                  PROVE  /\ i \in 1 .. cur + 1 /\ blocks[i].used <= blocks'[i].used
                         /\ blocks[i].commit <= blocks'[i].commit
      BY <2>5
    <3>1. i \in 1 .. cur /\ bs[i] = blocks[i] /\ blocks[i].used \in Nat /\ blocks[i].commit \in Nat
      BY <1>2, Elements DEF ArenaInv
    <3>2. i \in 1 .. cur + 1 /\ blocks'[i] = blocks[i]
      BY <1>2, <2>5, <3>1
    <3>. QED  BY <3>1, <3>2
  <2>9. 0 + size <= blocks'[cur + 1].used
    BY <1>0, <2>1, <2>5
  <2>10. /\ Hold(cur + 1, 0, size, align) /\ current' = cur + 1 /\ scopes' = scopes /\ kind' = kind
         /\ status' = status /\ (kind = "vm" /\ status = "open" => Len(blocks') = 1)
         /\ cur + 1 \in DOMAIN blocks' /\ cur + 1 # 0 /\ cur + 1 \in Nat /\ current <= cur + 1
    BY <1>1, <1>2, <1>6, <2>5, Elements DEF ArenaInv
  <2>11. 0 \in Nat /\ 0 % align = 0
    BY <1>0
  <2>. QED
    BY <2>5, <2>6, <2>7, <2>8, <2>9, <2>10, <2>11, PushKeeps, Zenon
<1>. QED  BY <1>5, <1>6

-----------------------------------------------------------------------------
\* A scope is opened: its mark is the end of what is held.
LEMMA ScopeOpens ==
  ASSUME ArenaInv, arena_temp_begin
  PROVE  ArenaInv'
<1>. DEFINE m == arena_mark
            n == Len(scopes)
<1>1. scopes' = Append(scopes, m) /\ UNCHANGED << kind, blocks, current, live, status >>
  BY DEF arena_temp_begin
<1>2. /\ m \in MarkRecords /\ m.blk = current
      /\ current # 0 => m.at = blocks[current].used
      /\ current \in Nat /\ m.at \in Nat
  BY Elements DEF ArenaInv, arena_mark, MarkRecords
<1>. HIDE DEF m
<1>3. /\ scopes' \in Seq(MarkRecords) /\ Len(scopes') = n + 1 /\ DOMAIN scopes' = 1 .. n + 1
      /\ scopes'[n + 1] = m /\ (\A k \in 1 .. n : scopes'[k] = scopes[k])
      /\ n \in Nat /\ DOMAIN scopes = 1 .. n
  <2>1. scopes \in Seq(MarkRecords)
    BY DEF ArenaInv, ArenaTypes
  <2>2. /\ scopes' \in Seq(MarkRecords) /\ Len(scopes') = n + 1
        /\ scopes'[n + 1] = m /\ (\A k \in 1 .. n : scopes'[k] = scopes[k])
    BY <1>1, <1>2, <2>1, AppendProperties
  <2>3. n \in Nat /\ DOMAIN scopes = 1 .. n /\ DOMAIN scopes' = 1 .. Len(scopes')
    BY <2>1, <2>2
  <2>. QED  BY <2>2, <2>3
<1>. HIDE DEF n
<1>4. ArenaTypes' /\ BlocksFit' /\ HeldIsOwn'
  BY <1>1, <1>3 DEF ArenaInv, ArenaTypes, BlocksFit, HeldIsOwn
<1>5. MarksAscend'
  <2>. SUFFICES ASSUME NEW k \in 1 .. n + 1
                PROVE  /\ scopes'[k].blk <= current
                       /\ scopes'[k].blk # 0 => scopes'[k].at <= blocks[scopes'[k].blk].commit
                       /\ scopes'[k].blk # 0 /\ scopes'[k].blk = current => scopes'[k].at <= blocks[current].used
                       /\ \A j \in 1 .. n + 1 : j < k =>
                            /\ scopes'[j].blk <= scopes'[k].blk
                            /\ scopes'[k].blk # 0 /\ scopes'[j].blk = scopes'[k].blk => scopes'[j].at <= scopes'[k].at
    BY <1>1, <1>3 DEF MarksAscend
  <2>1. ASSUME NEW i \in 1 .. n
        PROVE  /\ scopes'[i].blk <= current
               /\ scopes'[i].blk # 0 => scopes'[i].at <= blocks[scopes'[i].blk].commit
               /\ scopes'[i].blk # 0 /\ scopes'[i].blk = current => scopes'[i].at <= blocks[current].used
               /\ \A j \in 1 .. n : j < i =>
                    /\ scopes'[j].blk <= scopes'[i].blk
                    /\ scopes'[i].blk # 0 /\ scopes'[j].blk = scopes'[i].blk => scopes'[j].at <= scopes'[i].at
    BY <1>3 DEF ArenaInv, MarksAscend
  <2>2. CASE k \in 1 .. n
    <3>1. \A j \in 1 .. n + 1 : j < k => j \in 1 .. n
      BY <1>3, <2>2
    <3>. QED  BY <2>1, <2>2, <3>1
  <2>3. CASE k = n + 1
    <3>1. \A j \in 1 .. n + 1 : j < k => j \in 1 .. n
      BY <1>3, <2>3
    <3>2. current # 0 => blocks[current].used <= blocks[current].commit /\ blocks[current].used \in Nat
      BY Elements DEF ArenaInv, BlocksFit
    <3>3. current <= current
      BY <1>2
    <3>4. scopes'[k] = m
      BY <1>3, <2>3
    <3>5. current # 0 => blocks[current].used <= blocks[current].used
      BY <3>2
    <3>. QED  BY <1>2, <2>1, <3>1, <3>2, <3>3, <3>4, <3>5
  <2>4. k \in 1 .. n \/ k = n + 1
    BY <1>3
  <2>. QED  BY <2>2, <2>3, <2>4
<1>6. HeldBelowMarks'
  <2>. SUFFICES ASSUME NEW r \in live
                PROVE  /\ r.depth <= n + 1 /\ r.blk # 0
                       /\ \A k \in 1 .. n + 1 : r.depth < k =>
                            /\ r.blk <= scopes'[k].blk
                            /\ r.blk = scopes'[k].blk => r.hi <= scopes'[k].at
    BY <1>1, <1>3 DEF HeldBelowMarks
  <2>1. /\ r.depth <= n /\ r.blk # 0 /\ r.depth \in Nat
        /\ \A k \in 1 .. n : r.depth < k => /\ r.blk <= scopes[k].blk
                                            /\ r.blk = scopes[k].blk => r.hi <= scopes[k].at
    BY <1>3, Elements DEF ArenaInv, HeldBelowMarks, n
  <2>2. r.blk <= current /\ r.hi <= blocks[r.blk].used
    BY DEF ArenaInv, HeldIsOwn
  <2>3. r.depth <= n + 1
    BY <1>3, <2>1
  <2>4. ASSUME NEW k \in 1 .. n + 1, r.depth < k
        PROVE  r.blk <= scopes'[k].blk /\ (r.blk = scopes'[k].blk => r.hi <= scopes'[k].at)
    <3>1. CASE k \in 1 .. n
      <4>1. scopes'[k] = scopes[k]
        BY <1>3, <3>1
      <4>2. r.blk <= scopes[k].blk /\ (r.blk = scopes[k].blk => r.hi <= scopes[k].at)
        BY <2>1, <2>4, <3>1, Zenon
      <4>. QED  BY <4>1, <4>2
    <3>2. CASE k = n + 1
      <4>1. scopes'[k] = m
        BY <1>3, <3>2
      <4>2. r.blk = m.blk => current # 0 /\ m.at = blocks[r.blk].used
        BY <1>2, <2>1
      <4>. QED  BY <1>2, <2>2, <4>1, <4>2
    <3>3. k \in 1 .. n \/ k = n + 1
      BY <1>3
    <3>. QED  BY <3>1, <3>2, <3>3
  <2>. QED  BY <2>1, <2>3, <2>4
<1>. QED  BY <1>4, <1>5, <1>6 DEF ArenaInv

\* A scope is ended: everything pushed since is given back, and nothing else.
LEMMA ScopeEnds ==
  ASSUME ArenaInv, arena_temp_end
  PROVE  ArenaInv'
<1>. DEFINE n == Len(scopes)
            m == scopes[n]
            Popped(i) == IF i < m.blk THEN blocks[i]
                         ELSE IF i = m.blk THEN [blocks[i] EXCEPT !.used = m.at]
                         ELSE Cleared(blocks[i])
<1>1. /\ scopes \in Seq(MarkRecords) /\ n \in Nat /\ n >= 1 /\ DOMAIN scopes = 1 .. n /\ n \in DOMAIN scopes
  <2>1. scopes \in Seq(MarkRecords) /\ scopes # << >>
    BY DEF ArenaInv, ArenaTypes, arena_temp_end
  <2>2. n \in Nat \ {0} /\ DOMAIN scopes = 1 .. n
    BY <2>1, EmptySeq, LenProperties
  <2>. QED  BY <2>1, <2>2
<1>2. /\ blocks' = [i \in DOMAIN blocks |-> Popped(i)]
      /\ current' = IF m.blk # 0 THEN m.blk ELSE IF blocks = << >> THEN 0 ELSE 1
      /\ scopes' = SubSeq(scopes, 1, n - 1)
      /\ live' = {r \in live : r.depth < n}
      /\ UNCHANGED << kind, status >>
  BY DEF arena_temp_end, arena_pop, Last, Front
<1>3. /\ m.blk \in Nat /\ m.at \in Nat /\ m.blk <= current
      /\ m.blk # 0 => m.blk \in DOMAIN blocks /\ m.at <= blocks[m.blk].commit
  BY <1>1, Elements DEF ArenaInv, MarksAscend
<1>4. /\ Len(blocks) \in Nat /\ DOMAIN blocks = 1 .. Len(blocks)
      /\ \A i \in DOMAIN blocks : /\ blocks[i] \in BlockRecords /\ blocks[i].used \in Nat
                                  /\ blocks[i].commit \in Nat
  BY Elements DEF ArenaInv
<1>5. ASSUME NEW i \in DOMAIN blocks
      PROVE  /\ Popped(i) \in BlockRecords
             /\ Popped(i).used = IF i < m.blk THEN blocks[i].used ELSE IF i = m.blk THEN m.at ELSE 0
             /\ Popped(i).commit = blocks[i].commit /\ Popped(i).size = blocks[i].size
  BY <1>3, <1>4 DEF Cleared, BlockRecords
<1>. HIDE DEF Popped
<1>6. /\ blocks' \in Seq(BlockRecords) /\ Len(blocks') = Len(blocks) /\ DOMAIN blocks' = DOMAIN blocks
      /\ \A i \in DOMAIN blocks : blocks'[i] = Popped(i)
  BY <1>2, <1>4, <1>5
<1>7. /\ scopes' \in Seq(MarkRecords) /\ Len(scopes') = n - 1 /\ DOMAIN scopes' = 1 .. n - 1
      /\ \A k \in 1 .. n - 1 : scopes'[k] = scopes[k] /\ k \in DOMAIN scopes /\ k < n
  BY <1>1, <1>2
<1>. HIDE DEF n, m
<1>8. /\ current' \in Nat /\ current' <= Len(blocks) /\ m.blk <= current'
      /\ m.blk # 0 => current' = m.blk
      /\ current' = 0 => blocks = << >>
  BY <1>2, <1>3, <1>4
<1>9. ArenaTypes'
  <2>1. live' \subseteq LiveRecords
    BY <1>2 DEF ArenaInv, ArenaTypes
  <2>2. current' = 0 => blocks' = << >>
    BY <1>4, <1>6, <1>8
  <2>. QED  BY <1>2, <1>6, <1>7, <1>8, <2>1, <2>2 DEF ArenaInv, ArenaTypes
<1>10. BlocksFit'
  <2>. SUFFICES ASSUME NEW i \in DOMAIN blocks
                PROVE  /\ blocks'[i].used <= blocks'[i].commit
                       /\ kind = "heap" => blocks'[i].commit = blocks'[i].size
    BY <1>2, <1>6 DEF BlocksFit
  <2>1. /\ blocks[i].used <= blocks[i].commit
        /\ kind = "heap" => blocks[i].commit = blocks[i].size
    BY DEF ArenaInv, BlocksFit
  <2>2. /\ blocks'[i].used = IF i < m.blk THEN blocks[i].used ELSE IF i = m.blk THEN m.at ELSE 0
        /\ blocks'[i].commit = blocks[i].commit /\ blocks'[i].size = blocks[i].size
    BY <1>5, <1>6
  <2>3. i = m.blk => m.at <= blocks[i].commit
    BY <1>3, <1>4
  <2>. QED  BY <1>4, <2>1, <2>2, <2>3
<1>11. MarksAscend'
  <2>. SUFFICES ASSUME NEW k \in 1 .. n - 1
                PROVE  /\ scopes[k].blk <= current'
                       /\ scopes[k].blk # 0 => scopes[k].at <= blocks'[scopes[k].blk].commit
                       /\ scopes[k].blk # 0 /\ scopes[k].blk = current' => scopes[k].at <= blocks'[current'].used
                       /\ \A j \in 1 .. n - 1 : j < k =>
                            /\ scopes[j].blk <= scopes[k].blk
                            /\ scopes[k].blk # 0 /\ scopes[j].blk = scopes[k].blk => scopes[j].at <= scopes[k].at
    BY <1>7 DEF MarksAscend
  <2>1. /\ k \in DOMAIN scopes /\ k < n /\ scopes[k].blk \in Nat /\ scopes[k].at \in Nat
        /\ scopes[k].blk <= m.blk
        /\ m.blk # 0 /\ scopes[k].blk = m.blk => scopes[k].at <= m.at
        /\ scopes[k].blk # 0 => scopes[k].at <= blocks[scopes[k].blk].commit
    BY <1>1, <1>7, Elements DEF ArenaInv, MarksAscend, m
  <2>2. scopes[k].blk <= current'
    BY <1>3, <1>8, <2>1
  <2>3. ASSUME scopes[k].blk # 0
        PROVE  scopes[k].blk \in DOMAIN blocks /\ blocks'[scopes[k].blk].commit = blocks[scopes[k].blk].commit
    <3>1. scopes[k].blk \in DOMAIN blocks
      BY <1>4, <1>8, <2>1, <2>2, <2>3
    <3>. QED  BY <1>5, <1>6, <3>1
  <2>4. ASSUME scopes[k].blk # 0, scopes[k].blk = current'
        PROVE  scopes[k].at <= blocks'[current'].used
    <3>1. m.blk # 0 /\ current' = m.blk
      BY <1>3, <1>8, <2>1, <2>4
    <3>2. blocks'[m.blk].used = m.at
      BY <1>3, <1>5, <1>6, <3>1
    <3>. QED  BY <2>1, <2>4, <3>1, <3>2
  <2>5. \A j \in 1 .. n - 1 : j < k =>
          /\ scopes[j].blk <= scopes[k].blk
          /\ scopes[k].blk # 0 /\ scopes[j].blk = scopes[k].blk => scopes[j].at <= scopes[k].at
    BY <1>7, <2>1 DEF ArenaInv, MarksAscend
  <2>. QED  BY <2>1, <2>2, <2>3, <2>4, <2>5
<1>12. ASSUME NEW r \in live, r.depth < n
       PROVE  /\ r.blk <= m.blk /\ r.blk # 0 /\ r.blk \in Nat
              /\ r.blk = m.blk => r.hi <= m.at
  BY <1>1, <1>12, Elements DEF ArenaInv, HeldBelowMarks, m
<1>13. HeldBelowMarks'
  <2>. SUFFICES ASSUME NEW r \in live, r.depth < n
                PROVE  /\ r.depth <= n - 1 /\ r.blk # 0
                       /\ \A k \in 1 .. n - 1 : r.depth < k =>
                            /\ r.blk <= scopes[k].blk
                            /\ r.blk = scopes[k].blk => r.hi <= scopes[k].at
    BY <1>2, <1>7 DEF HeldBelowMarks
  <2>1. r.depth \in Nat
    BY Elements DEF ArenaInv
  <2>2. r.depth <= n - 1
    BY <1>1, <2>1
  <2>3. \A k \in 1 .. n - 1 : r.depth < k =>
          r.blk <= scopes[k].blk /\ (r.blk = scopes[k].blk => r.hi <= scopes[k].at)
    BY <1>7 DEF ArenaInv, HeldBelowMarks
  <2>. QED  BY <1>12, <2>2, <2>3
<1>14. HeldIsOwn'
  <2>1. ASSUME NEW r \in live, r.depth < n
        PROVE  /\ r.lo % r.align = 0 /\ r.blk \in DOMAIN blocks
               /\ r.hi <= blocks'[r.blk].used /\ r.hi <= blocks'[r.blk].commit
               /\ r.blk <= current'
    <3>1. /\ r.lo % r.align = 0 /\ r.blk \in DOMAIN blocks
          /\ r.hi <= blocks[r.blk].used /\ r.hi <= blocks[r.blk].commit
      BY DEF ArenaInv, HeldIsOwn
    <3>2. /\ blocks'[r.blk].used = IF r.blk < m.blk THEN blocks[r.blk].used
                                   ELSE IF r.blk = m.blk THEN m.at ELSE 0
          /\ blocks'[r.blk].commit = blocks[r.blk].commit
      BY <1>5, <1>6, <3>1
    <3>3. r.blk <= m.blk /\ (r.blk = m.blk => r.hi <= m.at) /\ r.blk \in Nat
      BY <1>12, <2>1
    <3>4. r.hi <= blocks'[r.blk].used
      <4>1. CASE r.blk = m.blk
        BY <3>2, <3>3, <4>1
      <4>2. CASE r.blk < m.blk
        BY <3>1, <3>2, <4>2
      <4>. QED  BY <1>3, <3>3, <4>1, <4>2
    <3>5. r.blk <= current'
      BY <1>3, <1>8, <3>3
    <3>. QED  BY <3>1, <3>2, <3>4, <3>5
  <2>2. \A r, q \in live : r # q /\ r.blk = q.blk => r.hi <= q.lo \/ q.hi <= r.lo
    BY DEF ArenaInv, HeldIsOwn
  <2>. QED  BY <1>2, <1>6, <2>1, <2>2 DEF HeldIsOwn
<1>. QED  BY <1>9, <1>10, <1>11, <1>13, <1>14 DEF ArenaInv

-----------------------------------------------------------------------------
\* Without scopes and ranges only the blocks are left to check.
LEMMA NothingHeld ==
  ASSUME ArenaTypes', BlocksFit', scopes' = << >>, live' = {}
  PROVE  ArenaInv'
  BY DEF ArenaInv, MarksAscend, HeldBelowMarks, HeldIsOwn

\* Everything is given back, the blocks are kept.
LEMMA ArenaResets ==
  ASSUME ArenaInv, arena_reset
  PROVE  ArenaInv'
<1>1. /\ Len(blocks) \in Nat /\ DOMAIN blocks = 1 .. Len(blocks)
      /\ \A i \in DOMAIN blocks : blocks[i] \in BlockRecords /\ blocks[i].commit \in Nat
  BY Elements DEF ArenaInv
<1>2. \A i \in DOMAIN blocks : /\ Cleared(blocks[i]) \in BlockRecords /\ Cleared(blocks[i]).used = 0
                               /\ Cleared(blocks[i]).commit = blocks[i].commit
                               /\ Cleared(blocks[i]).size = blocks[i].size
  BY <1>1 DEF Cleared, BlockRecords
<1>3. /\ blocks' = [i \in DOMAIN blocks |-> Cleared(blocks[i])]
      /\ current' = IF blocks = << >> THEN 0 ELSE 1
      /\ live' = {} /\ scopes' = << >>
      /\ kind' = kind /\ status' = status
  BY DEF arena_reset
<1>4. /\ blocks' \in Seq(BlockRecords) /\ Len(blocks') = Len(blocks) /\ DOMAIN blocks' = DOMAIN blocks
      /\ \A i \in DOMAIN blocks : blocks'[i] = Cleared(blocks[i])
  BY <1>1, <1>2, <1>3
<1>5. ArenaTypes'
  <2>1. blocks = << >> => blocks' = << >>
    BY <1>3
  <2>2. blocks # << >> => Len(blocks) >= 1
    BY <1>1 DEF ArenaInv, ArenaTypes
  <2>3. current' \in 0 .. Len(blocks') /\ (current' = 0 => blocks' = << >>)
    BY <1>1, <1>3, <1>4, <2>1, <2>2
  <2>. QED  BY <1>3, <1>4, <2>3 DEF ArenaInv, ArenaTypes
<1>6. BlocksFit'
  BY <1>1, <1>2, <1>3, <1>4 DEF ArenaInv, BlocksFit
<1>. QED  BY <1>3, <1>5, <1>6, NothingHeld

\* The pages of a vm arena are given back as well.
LEMMA ArenaReleases ==
  ASSUME ArenaInv, status = "open", arena_release
  PROVE  ArenaInv'
<1>. DEFINE b2 == [blocks[1] EXCEPT !.used = 0, !.commit = 0]
<1>1. /\ blocks \in Seq(BlockRecords) /\ Len(blocks) = 1 /\ 1 \in 1 .. Len(blocks)
      /\ kind = "vm" /\ blocks[1] \in BlockRecords
  <2>1. blocks \in Seq(BlockRecords) /\ Len(blocks) = 1 /\ kind = "vm"
    BY DEF ArenaInv, ArenaTypes, arena_release
  <2>2. 1 \in 1 .. Len(blocks)
    BY <2>1
  <2>. QED  BY <2>1, <2>2
<1>2. b2 \in BlockRecords /\ b2.used = 0 /\ b2.commit = 0
  BY <1>1 DEF BlockRecords
<1>3. /\ blocks' = [blocks EXCEPT ![1] = b2]
      /\ live' = {} /\ scopes' = << >>
      /\ kind' = kind /\ status' = status /\ current' = current
  BY <1>1 DEF arena_release
<1>. HIDE DEF b2
<1>4. /\ blocks' \in Seq(BlockRecords) /\ Len(blocks') = 1
      /\ \A i \in 1 .. 1 : blocks'[i] = b2
  <2>1. /\ [blocks EXCEPT ![1] = b2] \in Seq(BlockRecords)
        /\ Len([blocks EXCEPT ![1] = b2]) = Len(blocks)
        /\ \A j \in 1 .. Len(blocks) : [blocks EXCEPT ![1] = b2][j] = IF j = 1 THEN b2 ELSE blocks[j]
    BY <1>1, <1>2, ExceptSeq
  <2>. QED  BY <1>1, <1>3, <2>1
<1>5. DOMAIN blocks' = 1 .. 1
  BY <1>4
<1>6. ArenaTypes'
  <2>0. current \in 0 .. Len(blocks) /\ (current = 0 => blocks = << >>)
    BY Zenon DEF ArenaInv, ArenaTypes
  <2>1. current \in 0 .. 1 /\ current # 0
    <3>1. blocks # << >>
      BY <1>1
    <3>. QED  BY <1>1, <2>0, <3>1, Zenon
  <2>. QED  BY <1>1, <1>3, <1>4, <2>1 DEF ArenaInv, ArenaTypes
<1>7. BlocksFit'
  BY <1>1, <1>2, <1>3, <1>4, <1>5 DEF BlocksFit
<1>. QED  BY <1>3, <1>6, <1>7, NothingHeld

\* A push for which malloc has no block: at most the first block is new, and
\* nothing is held of it.
LEMMA NoBlock ==
  ASSUME ArenaConstants, ArenaInv, status = "open",
         NEW size \in Sizes, NEW align \in Aligns, arena_no_block(size, align)
  PROVE  ArenaInv'
<1>1. CASE current # 0
  <2>1. UNCHANGED memory
    BY <1>1 DEF arena_no_block, memory
  <2>. QED
    BY <2>1 DEF memory, ArenaInv, ArenaTypes, BlocksFit, MarksAscend, HeldBelowMarks, HeldIsOwn
<1>2. CASE current = 0 /\ status' = "aborted" /\ UNCHANGED << kind, blocks, current, scopes, live >>
  BY <1>2 DEF ArenaInv, ArenaTypes, BlocksFit, MarksAscend, HeldBelowMarks, HeldIsOwn
<1>3. CASE /\ current = 0 /\ kind = "heap" /\ blocks' = << Block(BlockSize) >> /\ current' = 1
           /\ UNCHANGED << kind, scopes, live, status >>
  <2>1. blocks = << >> /\ live = {}
    BY <1>3 DEF ArenaInv, ArenaTypes, HeldIsOwn
  <2>2. /\ Block(BlockSize) \in BlockRecords /\ Block(BlockSize).used = 0
        /\ Block(BlockSize).commit = Block(BlockSize).size
    BY NewBlock DEF ArenaConstants
  <2>3. /\ blocks' \in Seq(BlockRecords) /\ DOMAIN blocks' = {1} /\ Len(blocks') = 1
        /\ blocks'[1] = Block(BlockSize)
    BY <1>3, <2>2
  <2>4. ArenaTypes'
    BY <1>3, <2>1, <2>3 DEF ArenaInv, ArenaTypes
  <2>5. BlocksFit'
    BY <2>2, <2>3 DEF BlocksFit, BlockRecords
  <2>6. \A k \in DOMAIN scopes : scopes[k].blk = 0
    BY <1>3, Elements DEF ArenaInv, MarksAscend
  <2>7. MarksAscend'
    BY <1>3, <2>6 DEF MarksAscend
  <2>8. HeldBelowMarks' /\ HeldIsOwn'
    BY <1>3, <2>1 DEF HeldBelowMarks, HeldIsOwn
  <2>. QED  BY <2>4, <2>5, <2>7, <2>8 DEF ArenaInv
<1>. QED  BY <1>1, <1>2, <1>3 DEF arena_no_block

\* Every operation on an arena keeps the invariant.
LEMMA ArenaStep ==
  ASSUME ArenaConstants, ArenaInv, [MemoryNext]_memory
  PROVE  ArenaInv'
<1>1. ASSUME MemoryNext PROVE ArenaInv'
  <2>0. status = "open"
    BY <1>1 DEF MemoryNext
  <2>1. ASSUME NEW size \in Sizes, NEW align \in Aligns, arena_push(size, align) PROVE ArenaInv'
    <3>1. CASE arena_exhausted(size, align)
      <4>1. UNCHANGED << kind, blocks, current, scopes, live >> /\ status' # "open"
        BY <3>1 DEF arena_exhausted
      <4>. QED
        BY <4>1 DEF ArenaInv, ArenaTypes, BlocksFit, MarksAscend, HeldBelowMarks, HeldIsOwn
    <3>. QED  BY <2>0, <2>1, <3>1, VmPush, HeapPush, NoBlock DEF arena_push
  <2>2. CASE arena_destroy
    <3>1. /\ status' = "destroyed" /\ blocks' = << >> /\ current' = 0 /\ live' = {} /\ scopes' = << >>
          /\ kind' = kind
      BY <2>2 DEF arena_destroy
    <3>2. ArenaTypes' /\ BlocksFit'
      BY <3>1 DEF ArenaInv, ArenaTypes, BlocksFit
    <3>. QED  BY <3>1, <3>2, NothingHeld
  <2>. QED
    BY <1>1, <2>0, <2>1, <2>2, ScopeOpens, ScopeEnds, ArenaResets, ArenaReleases DEF MemoryNext
<1>2. CASE UNCHANGED memory
  BY <1>2 DEF memory, ArenaInv, ArenaTypes, BlocksFit, MarksAscend, HeldBelowMarks, HeldIsOwn
<1>. QED  BY <1>1, <1>2

\* The invariant of the arenas of base.h and bbb_arena.c, of both kinds.
THEOREM ArenaInvariance ==
  ASSUME ArenaConstants
  PROVE  MemorySpec => []ArenaInv
<1>1. MemoryInit => ArenaInv
  BY ArenaInit
<1>2. ArenaInv /\ [MemoryNext]_memory => ArenaInv'
  BY ArenaStep
<1>. QED  BY <1>1, <1>2, PTL DEF MemorySpec

\* What was pushed and not given back is aligned, committed, below the end of
\* its block and apart from everything else, whatever scopes came and went.
THEOREM HeldMemoryIsOwn ==
  ASSUME ArenaConstants
  PROVE  MemorySpec => []HeldIsOwn
<1>1. ArenaInv => HeldIsOwn
  BY DEF ArenaInv
<1>. QED  BY <1>1, ArenaInvariance, PTL

(***************************************************************************)
(* Hash tables.  They are maps, for every set of keys, every hash          *)
(* function, every first capacity and however far they grow.  t is any     *)
(* table, hash and flavour are those of the module.                        *)
(***************************************************************************)
\* A set of numbers has a least one, and Min is it.
LEMMA MinIsLeast ==
  ASSUME NEW S \in SUBSET Nat, S # {}
  PROVE  Min(S) \in S /\ \A m \in S : Min(S) <= m
<1>1. \E x \in S : \A y \in S : ~(<< y, x >> \in OpToRel(<, Nat))
  BY NatLessThanWellFounded, WFMin, Zenon
<1>2. \A x, y \in Nat : y < x => << y, x >> \in OpToRel(<, Nat)
  BY Zenon DEF OpToRel
<1>3. S \subseteq Nat
  OBVIOUS
<1>4. \E x \in S : \A y \in S : ~(y < x)
  BY <1>1, <1>2, <1>3, Zenon
<1>5. \E x \in S : \A y \in S : x <= y
  BY <1>4
<1>. QED  BY <1>5, Zenon DEF Min

\* Quotient and remainder are what they should be.
LEMMA DivMod ==
  ASSUME NEW n \in Nat, NEW c \in Nat, c > 0
  PROVE  n \div c \in Nat /\ n % c \in 0 .. c - 1 /\ n = c * (n \div c) + (n % c)
  OBVIOUS

\* A remainder is determined.
LEMMA ModIs ==
  ASSUME NEW c \in Nat, c > 0, NEW q \in Nat, NEW r \in 0 .. c - 1
  PROVE  (c * q + r) % c = r
<1>. DEFINE n == c * q + r
            p == n \div c
            s == n % c
<1>1. c * q \in Nat /\ n \in Nat
  OBVIOUS
<1>2. p \in Nat /\ s \in 0 .. c - 1 /\ n = c * p + s
  BY <1>1, DivMod
<1>3. CASE q < p
  <2>1. c * p >= c * (q + 1)
    BY <1>2, <1>3
  <2>2. c * (q + 1) = c * q + c
    OBVIOUS
  <2>. QED  BY <1>1, <1>2, <2>1, <2>2
<1>4. CASE p < q
  <2>1. c * q >= c * (p + 1)
    BY <1>2, <1>4
  <2>2. c * (p + 1) = c * p + c
    BY <1>2
  <2>. QED  BY <1>1, <1>2, <2>1, <2>2
<1>5. CASE p = q
  BY <1>1, <1>2, <1>5
<1>. QED  BY <1>2, <1>3, <1>4, <1>5

\* A probe of as many steps as there are slots visits each slot once.
LEMMA ProbeOrder ==
  ASSUME NEW h \in Nat, NEW c \in Nat, c > 0
  PROVE  /\ \A i \in 0 .. c - 1 : (h + i) % c \in 0 .. c - 1
         /\ \A i, j \in 0 .. c - 1 : (h + i) % c = (h + j) % c => i = j
         /\ \A s \in 0 .. c - 1 : \E i \in 0 .. c - 1 : (h + i) % c = s
<1>. DEFINE q == h \div c
            r == h % c
<1>1. q \in Nat /\ r \in 0 .. c - 1 /\ h = c * q + r /\ c * q \in Nat
  BY DivMod
<1>2. c * (q + 1) = c * q + c
  BY <1>1
<1>3. \A i \in 0 .. c - 1 : (h + i) % c = IF r + i < c THEN r + i ELSE r + i - c
  <2>. SUFFICES ASSUME NEW i \in 0 .. c - 1
                PROVE  (h + i) % c = IF r + i < c THEN r + i ELSE r + i - c
    OBVIOUS
  <2>1. CASE r + i < c
    <3>1. r + i \in 0 .. c - 1 /\ h + i = c * q + (r + i)
      BY <1>1, <2>1
    <3>2. (c * q + (r + i)) % c = r + i
      BY <1>1, <3>1, ModIs
    <3>. QED  BY <2>1, <3>1, <3>2
  <2>2. CASE ~(r + i < c)
    <3>1. r + i - c \in 0 .. c - 1 /\ h + i = c * (q + 1) + (r + i - c) /\ q + 1 \in Nat
      BY <1>1, <1>2, <2>2
    <3>2. (c * (q + 1) + (r + i - c)) % c = r + i - c
      BY <3>1, ModIs
    <3>. QED  BY <2>2, <3>1, <3>2
  <2>. QED  BY <2>1, <2>2
<1>. HIDE DEF q, r
<1>4. \A i \in 0 .. c - 1 : (h + i) % c \in 0 .. c - 1
  BY <1>1, <1>3
<1>5. \A i, j \in 0 .. c - 1 : (h + i) % c = (h + j) % c => i = j
  BY <1>1, <1>3
<1>6. ASSUME NEW s \in 0 .. c - 1
      PROVE  \E i \in 0 .. c - 1 : (h + i) % c = s
  <2>1. CASE s >= r
    <3>1. s - r \in 0 .. c - 1 /\ r + (s - r) < c /\ r + (s - r) = s
      BY <1>1, <2>1
    <3>. QED  BY <1>3, <3>1
  <2>2. CASE ~(s >= r)
    <3>1. s + c - r \in 0 .. c - 1 /\ ~(r + (s + c - r) < c) /\ r + (s + c - r) - c = s
      BY <1>1, <2>2
    <3>. QED  BY <1>3, <3>1
  <2>. QED  BY <2>1, <2>2
<1>. QED  BY <1>4, <1>5, <1>6

\* The same of a table's probe for a key.
LEMMA Visits ==
  ASSUME TableConstants, hash \in [Keys -> Hashes], NEW k \in Keys,
         NEW t, t.capacity \in Nat, t.capacity > 0
  PROVE  /\ \A i \in 0 .. t.capacity - 1 : At(t, k, i) \in 0 .. t.capacity - 1
         /\ \A i, j \in 0 .. t.capacity - 1 : At(t, k, i) = At(t, k, j) => i = j
         /\ \A s \in 0 .. t.capacity - 1 : \E i \in 0 .. t.capacity - 1 : At(t, k, i) = s
<1>1. hash[k] \in Nat
  BY DEF TableConstants
<1>. DEFINE h == hash[k]
            c == t.capacity
<1>2. h \in Nat /\ c \in Nat /\ c > 0
  BY <1>1
<1>. HIDE DEF h, c
<1>3. /\ \A i \in 0 .. c - 1 : (h + i) % c \in 0 .. c - 1
      /\ \A i, j \in 0 .. c - 1 : (h + i) % c = (h + j) % c => i = j
      /\ \A s \in 0 .. c - 1 : \E i \in 0 .. c - 1 : (h + i) % c = s
  BY <1>2, ProbeOrder
<1>. QED  BY <1>3, Zenon DEF At, h, c

\* Where a probe stops, if it does: at the first slot that is empty or holds
\* the key.
LEMMA FirstStop ==
  ASSUME NEW k, NEW t, t.capacity \in Nat, Stops(t, k) # {}
  PROVE  /\ Min(Stops(t, k)) \in 0 .. t.capacity - 1
         /\ \/ Slot(t, k, Min(Stops(t, k))).state = "Empty"
            \/ Holds(Slot(t, k, Min(Stops(t, k))), k)
         /\ \A i \in 0 .. Min(Stops(t, k)) - 1 :
              i \in 0 .. t.capacity - 1 /\ Slot(t, k, i).state # "Empty" /\ ~Holds(Slot(t, k, i), k)
<1>. DEFINE S == Stops(t, k)
            c == t.capacity
            P(i) == Slot(t, k, i).state = "Empty" \/ Holds(Slot(t, k, i), k)
<1>1. S = { i \in 0 .. c - 1 : P(i) } /\ c \in Nat /\ S # {}
  BY Zenon DEF Stops
<1>. HIDE DEF S, c, P
<1>2. S \in SUBSET Nat
  BY <1>1
<1>3. Min(S) \in S /\ \A m \in S : Min(S) <= m
  BY <1>1, <1>2, MinIsLeast
<1>. DEFINE m == Min(S)
<1>4. m \in 0 .. c - 1 /\ P(m)
  BY <1>1, <1>3
<1>5. ASSUME NEW i \in 0 .. m - 1
      PROVE  i \in 0 .. c - 1 /\ ~P(i)
  BY <1>1, <1>3, <1>4
<1>. QED  BY <1>4, <1>5, Zenon DEF S, c, P

\* A probe finds a key exactly if it is in the table, and where it is.
LEMMA ProbeFinds ==
  ASSUME TableConstants, hash \in [Keys -> Hashes], NEW k \in Keys,
         NEW t, TableOK(t), t.capacity > 0
  PROVE  /\ Found(t, k) => Place(t, k) \in Taken(t) /\ t.slots[Place(t, k)].key = k
         /\ \A j \in Taken(t) : t.slots[j].key = k => Found(t, k) /\ Place(t, k) = j
<1>. DEFINE c == t.capacity
            S == Stops(t, k)
            m == Min(S)
<1>1. c \in Nat /\ c > 0
  BY Zenon DEF TableOK, TableTypes
<1>2. /\ \A i \in 0 .. c - 1 : At(t, k, i) \in 0 .. c - 1
      /\ \A i, j \in 0 .. c - 1 : At(t, k, i) = At(t, k, j) => i = j
  BY <1>1, Visits
<1>3. S # {} => /\ m \in 0 .. c - 1
                /\ Slot(t, k, m).state = "Empty" \/ Holds(Slot(t, k, m), k)
                /\ \A i \in 0 .. m - 1 : ~Holds(Slot(t, k, i), k)
  BY <1>1, FirstStop, Zenon
<1>4. \A i \in 0 .. c - 1 : Holds(Slot(t, k, i), k) => At(t, k, i) \in Taken(t) /\ t.slots[At(t, k, i)].key = k
  BY <1>2, Zenon DEF Holds, Slot, Taken
<1>5. Found(t, k) => Place(t, k) \in Taken(t) /\ t.slots[Place(t, k)].key = k
  BY <1>3, <1>4, Zenon DEF Found, Place
<1>6. ASSUME NEW j \in Taken(t), t.slots[j].key = k
      PROVE  Found(t, k) /\ Place(t, k) = j
  <2>1. PICK i \in 0 .. c - 1 : At(t, k, i) = j /\ \A n \in 0 .. i - 1 : Slot(t, k, n).state # "Empty"
    BY <1>6, Zenon DEF TableOK, KeysAreReached, Reached
  <2>2. Holds(Slot(t, k, i), k)
    BY <1>6, <2>1, Zenon DEF Holds, Slot, Taken
  <2>3. i \in S
    BY <2>2, Zenon DEF Stops
  <2>4. m <= i
    <3>1. S \in SUBSET Nat /\ S # {}
      BY <1>1, <2>3 DEF Stops
    <3>. QED  BY <2>3, <3>1, MinIsLeast
  <2>5. Holds(Slot(t, k, m), k)
    <3>1. CASE m = i
      BY <2>2, <3>1
    <3>2. CASE m # i
      <4>1. m \in 0 .. i - 1
        BY <1>3, <2>3, <2>4, <3>2, <1>1
      <4>. QED  BY <1>3, <2>1, <2>3, <4>1, Zenon
    <3>. QED  BY <3>1, <3>2
  <2>6. At(t, k, m) \in Taken(t) /\ t.slots[At(t, k, m)].key = k
    BY <1>3, <1>4, <2>3, <2>5, Zenon
  <2>7. At(t, k, m) = j
    BY <1>6, <2>6, Zenon DEF TableOK, KeysAreUnique
  <2>. QED  BY <2>3, <2>5, <2>7, Zenon DEF Found, Place
<1>. QED  BY <1>5, <1>6, Zenon

\* The map a table is, key by key.
LEMMA EntriesAre ==
  ASSUME NEW t, KeysAreUnique(t)
  PROVE  /\ DOMAIN Entries(t) = { t.slots[i].key : i \in Taken(t) }
         /\ \A i \in Taken(t) : Entries(t)[t.slots[i].key] = t.slots[i].value
         /\ Entries(t) = [x \in DOMAIN Entries(t) |-> Entries(t)[x]]
<1>. DEFINE D == { t.slots[i].key : i \in Taken(t) }
            E(x) == t.slots[CHOOSE i \in Taken(t) : t.slots[i].key = x].value
<1>1. Entries(t) = [x \in D |-> E(x)]
  BY Zenon DEF Entries
<1>2. ASSUME NEW i \in Taken(t)
      PROVE  t.slots[i].key \in D /\ E(t.slots[i].key) = t.slots[i].value
  <2>1. t.slots[i].key \in D
    OBVIOUS
  <2>. DEFINE c == CHOOSE n \in Taken(t) : t.slots[n].key = t.slots[i].key
  <2>2. c \in Taken(t) /\ t.slots[c].key = t.slots[i].key
    BY Zenon
  <2>3. c = i
    BY <2>2, Zenon DEF KeysAreUnique
  <2>. QED  BY <2>1, <2>3, Zenon
<1>. HIDE DEF D, E
<1>3. DOMAIN Entries(t) = D /\ \A x \in D : Entries(t)[x] = E(x)
  BY <1>1
<1>4. \A i \in Taken(t) : Entries(t)[t.slots[i].key] = t.slots[i].value
  BY <1>2, <1>3, Zenon
<1>5. Entries(t) = [x \in DOMAIN Entries(t) |-> Entries(t)[x]]
  BY <1>1
<1>. QED  BY <1>3, <1>4, <1>5, Zenon DEF D

\* The slots in use and those that were can be counted.
LEMMA SlotsCounted ==
  ASSUME NEW t, t.capacity \in Nat
  PROVE  IsFiniteSet(Taken(t)) /\ IsFiniteSet(Dead(t)) /\ Cardinality(Taken(t)) \in Nat /\ Cardinality(Dead(t)) \in Nat
<1>1. IsFiniteSet(0 .. t.capacity - 1)
  BY FS_Interval
<1>2. Taken(t) \in SUBSET (0 .. t.capacity - 1) /\ Dead(t) \in SUBSET (0 .. t.capacity - 1)
  BY Zenon DEF Taken, Dead
<1>3. IsFiniteSet(Taken(t)) /\ IsFiniteSet(Dead(t))
  BY <1>1, <1>2, FS_Subset
<1>. QED  BY <1>3, FS_CardinalityType

\* u is t but for slot j, which is not empty in u, and for its counts.
WrittenAt(t, u, j) ==
  /\ j \in 0 .. t.capacity - 1
  /\ u = Table(t.capacity, u.slots, u.count, u.tombstones)
  /\ u.capacity = t.capacity
  /\ u.slots \in [0 .. t.capacity - 1 -> SlotRecords]
  /\ u.slots[j].state # "Empty"
  /\ \A i \in 0 .. t.capacity - 1 : i # j => u.slots[i] = t.slots[i]

\* That is what a table is in which one slot was written.
LEMMA WriteSlot ==
  ASSUME NEW t, TableTypes(t), NEW j \in 0 .. t.capacity - 1,
         NEW s \in SlotRecords, s.state # "Empty", NEW n, NEW d, NEW u,
         u = Table(t.capacity, [t.slots EXCEPT ![j] = s], n, d)
  PROVE  WrittenAt(t, u, j) /\ u.slots[j] = s /\ u.count = n /\ u.tombstones = d
<1>. DEFINE c == t.capacity
            w == [t.slots EXCEPT ![j] = s]
<1>1. w \in [0 .. c - 1 -> SlotRecords] /\ w[j] = s /\ \A i \in 0 .. c - 1 : i # j => w[i] = t.slots[i]
  BY DEF TableTypes
<1>2. u.capacity = c /\ u.slots = w /\ u.count = n /\ u.tombstones = d /\ u = Table(c, w, n, d)
  BY DEF Table
<1>. HIDE DEF w
<1>. QED  BY <1>1, <1>2, Zenon DEF WrittenAt

\* What is in use of it, and that every key that was reached still is.
LEMMA Written ==
  ASSUME TableConstants, hash \in [Keys -> Hashes],
         NEW t, t.capacity \in Nat, NEW u, NEW j, WrittenAt(t, u, j)
  PROVE  /\ Taken(u) = IF u.slots[j].state = "Occupied" THEN Taken(t) \cup {j} ELSE Taken(t) \ {j}
         /\ Dead(u) = IF u.slots[j].state = "Tombstone" THEN Dead(t) \cup {j} ELSE Dead(t) \ {j}
         /\ \A k \in Keys, i \in 0 .. t.capacity - 1 : Reached(t, k, i) => Reached(u, k, i)
<1>. DEFINE c == t.capacity
            s == u.slots[j]
<1>1. c \in Nat /\ c > 0
  BY DEF WrittenAt
<1>3. u.capacity = c
  BY Zenon DEF WrittenAt
<1>5. \A i \in 0 .. c - 1 : u.slots[i] = IF i = j THEN s ELSE t.slots[i]
  BY Zenon DEF WrittenAt
<1>4. j \in 0 .. c - 1 /\ s.state # "Empty"
  BY Zenon DEF WrittenAt
<1>. HIDE DEF s
<1>6. Taken(u) = IF s.state = "Occupied" THEN Taken(t) \cup {j} ELSE Taken(t) \ {j}
  BY <1>3, <1>4, <1>5 DEF Taken
<1>7. Dead(u) = IF s.state = "Tombstone" THEN Dead(t) \cup {j} ELSE Dead(t) \ {j}
  BY <1>3, <1>4, <1>5 DEF Dead
<1>8. ASSUME NEW k \in Keys, NEW i \in 0 .. c - 1, Reached(t, k, i)
      PROVE  Reached(u, k, i)
  <2>1. PICK p \in 0 .. c - 1 : At(t, k, p) = i /\ \A m \in 0 .. p - 1 : Slot(t, k, m).state # "Empty"
    BY <1>8, Zenon DEF Reached
  <2>2. \A m : At(u, k, m) = At(t, k, m)
    BY <1>3, Zenon DEF At
  <2>3. ASSUME NEW m \in 0 .. p - 1
        PROVE  Slot(u, k, m).state # "Empty"
    <3>1. m \in 0 .. c - 1
      BY <1>1
    <3>2. At(t, k, m) \in 0 .. c - 1
      BY <1>1, <3>1, Visits
    <3>3. u.slots[At(t, k, m)] = IF At(t, k, m) = j THEN s ELSE t.slots[At(t, k, m)]
      BY <1>5, <3>2, Zenon
    <3>4. Slot(u, k, m) = IF At(t, k, m) = j THEN s ELSE Slot(t, k, m)
      BY <2>2, <3>3, Zenon DEF Slot
    <3>. QED  BY <1>4, <2>1, <3>4, Zenon
  <2>. QED  BY <1>3, <2>1, <2>2, <2>3, Zenon DEF Reached
<1>. QED  BY <1>6, <1>7, <1>8, Zenon DEF s

\* The slot an insertion takes is free, and is reached from the key's hash.
LEMMA TargetIsFree ==
  ASSUME TableConstants, hash \in [Keys -> Hashes], NEW k \in Keys,
         NEW t, TableOK(t), t.capacity > 0, Stops(t, k) # {}, ~Found(t, k)
  PROVE  /\ Target(t, k) \in 0 .. t.capacity - 1 /\ Target(t, k) \notin Taken(t)
         /\ Tombs(t, k) # {} => Target(t, k) \in Dead(t)
         /\ Reached(t, k, Target(t, k))
<1>. DEFINE c == t.capacity
            m == Min(Stops(t, k))
            T == Tombs(t, k)
<1>1. c \in Nat /\ c > 0
  BY Zenon DEF TableOK, TableTypes
<1>2. /\ m \in 0 .. c - 1
      /\ Slot(t, k, m).state = "Empty" \/ Holds(Slot(t, k, m), k)
      /\ \A i \in 0 .. m - 1 : i \in 0 .. c - 1 /\ Slot(t, k, i).state # "Empty"
  BY <1>1, FirstStop, Zenon
<1>3. Slot(t, k, m).state = "Empty"
  BY <1>2, Zenon DEF Found
<1>4. \A i \in 0 .. c - 1 : At(t, k, i) \in 0 .. c - 1
  BY <1>1, Visits
<1>5. CASE T = {}
  <2>1. Target(t, k) = At(t, k, m)
    BY <1>5, Zenon DEF Target, Place
  <2>2. At(t, k, m) \notin Taken(t)
    BY <1>3, Zenon DEF Slot, Taken
  <2>3. Reached(t, k, At(t, k, m))
    BY <1>2, Zenon DEF Reached
  <2>. QED  BY <1>2, <1>4, <1>5, <2>1, <2>2, <2>3, Zenon
<1>6. CASE T # {}
  <2>. DEFINE p == Min(T)
  <2>0. T = { i \in 0 .. m - 1 : Slot(t, k, i).state = "Tombstone" }
    BY Zenon DEF Tombs
  <2>1. T \in SUBSET Nat
    <3>1. 0 .. m - 1 \in SUBSET Nat
      BY <1>2
    <3>. QED  BY <2>0, <3>1, Zenon
  <2>2. p \in T
    BY <1>6, <2>1, MinIsLeast, Zenon
  <2>3. p \in 0 .. m - 1 /\ Slot(t, k, p).state = "Tombstone"
    BY <2>0, <2>2, Zenon
  <2>4. Target(t, k) = At(t, k, p)
    BY <1>6, Zenon DEF Target
  <2>5. At(t, k, p) \notin Taken(t) /\ At(t, k, p) \in Dead(t)
    BY <1>2, <1>4, <2>3, Zenon DEF Slot, Taken, Dead
  <2>6. p \in 0 .. c - 1 /\ \A i \in 0 .. p - 1 : i \in 0 .. m - 1
    BY <1>1, <1>2, <2>3
  <2>7. Reached(t, k, At(t, k, p))
    BY <1>2, <2>6, Zenon DEF Reached
  <2>. QED  BY <1>4, <2>4, <2>5, <2>6, <2>7, Zenon
<1>. QED  BY <1>5, <1>6, Zenon

\* u is a proper table with one entry more than t, and no more tombstones.
Adds(t, u, k, v) ==
  /\ TableOK(u) /\ u.capacity = t.capacity /\ u.count = t.count + 1 /\ u.tombstones <= t.tombstones
  /\ k \notin DOMAIN Entries(t) /\ DOMAIN Entries(u) = DOMAIN Entries(t) \cup {k}
  /\ Entries(u)[k] = v
  /\ \A x \in DOMAIN Entries(t) : Entries(u)[x] = Entries(t)[x]

\* An insertion that does not find its key leaves a proper table, which has
\* one entry more.
LEMMA EnterKeeps ==
  ASSUME TableConstants, hash \in [Keys -> Hashes], NEW k \in Keys, NEW v \in Values,
         NEW t, TableOK(t), t.capacity > 0, Stops(t, k) # {}, ~Found(t, k)
  PROVE  Adds(t, Enter(t, k, v), k, v)
<1>. DEFINE c == t.capacity
            j == Target(t, k)
            s == Entry(k, v)
            u == Enter(t, k, v)
            n == t.count + 1
            reused == flavour = "names" /\ Tombs(t, k) # {}
            d == IF reused THEN t.tombstones - 1 ELSE t.tombstones
<1>1. c \in Nat /\ c > 0 /\ t.count \in Nat /\ t.tombstones \in Nat /\ TableTypes(t)
  BY DEF TableOK, TableTypes
<1>2. /\ j \in 0 .. c - 1 /\ j \notin Taken(t) /\ Reached(t, k, j)
      /\ Tombs(t, k) # {} => j \in Dead(t)
  BY TargetIsFree, Zenon
<1>3. /\ IsFiniteSet(Taken(t)) /\ IsFiniteSet(Dead(t)) /\ Cardinality(Taken(t)) \in Nat /\ Cardinality(Dead(t)) \in Nat
      /\ t.count = Cardinality(Taken(t)) /\ Cardinality(Dead(t)) <= t.tombstones
  BY <1>1, SlotsCounted, Zenon DEF TableOK, CountsAreHigh
<1>4. /\ IsFiniteSet(Dead(t) \ {j})
      /\ Cardinality(Dead(t) \ {j}) = IF j \in Dead(t) THEN Cardinality(Dead(t)) - 1 ELSE Cardinality(Dead(t))
  BY <1>3, FS_RemoveElement
<1>5. Cardinality(Dead(t) \ {j}) \in Nat
  BY <1>4, FS_CardinalityType
<1>6. d \in Nat /\ Cardinality(Dead(t) \ {j}) <= d
  <2>1. CASE reused
    <3>1. j \in Dead(t)
      BY <1>2, <2>1, Zenon
    <3>. HIDE DEF j, reused
    <3>. QED  BY <1>1, <1>3, <1>4, <1>5, <2>1, <3>1
  <2>2. CASE ~reused
    <3>. HIDE DEF j, reused
    <3>. QED  BY <1>1, <1>3, <1>4, <1>5, <2>2
  <2>. QED  BY <2>1, <2>2, Zenon
<1>7. n \in Nat /\ s \in SlotRecords /\ s.state = "Occupied" /\ s.state # "Empty" /\ s.state # "Tombstone" /\ s.key = k /\ s.value = v
  BY <1>1 DEF Entry, SlotRecords
<1>8. u = Table(c, [t.slots EXCEPT ![j] = s], n, d)
  BY Zenon DEF Enter
<1>. HIDE DEF j, s, u, n, d, reused
<1>9. /\ WrittenAt(t, u, j) /\ u.slots[j] = s /\ u.count = n /\ u.tombstones = d
      /\ u.capacity = c
      /\ u = Table(u.capacity, u.slots, u.count, u.tombstones)
      /\ u.slots \in [0 .. u.capacity - 1 -> SlotRecords]
      /\ \A i \in 0 .. c - 1 : i # j => u.slots[i] = t.slots[i]
      /\ Taken(u) = Taken(t) \cup {j} /\ Dead(u) = Dead(t) \ {j}
      /\ \A x \in Keys, i \in 0 .. c - 1 : Reached(t, x, i) => Reached(u, x, i)
  <2>1. WrittenAt(t, u, j) /\ u.slots[j] = s /\ u.count = n /\ u.tombstones = d
    <3>1. j \in 0 .. t.capacity - 1 /\ TableTypes(t) /\ s \in SlotRecords /\ s.state # "Empty"
      BY <1>1, <1>2, <1>7, Zenon
    <3>2. u = Table(t.capacity, [t.slots EXCEPT ![j] = s], n, d)
      BY <1>8, Zenon
    <3>. QED  BY <3>1, <3>2, WriteSlot
  <2>2. /\ u.capacity = c
        /\ u = Table(u.capacity, u.slots, u.count, u.tombstones)
        /\ u.slots \in [0 .. u.capacity - 1 -> SlotRecords]
        /\ \A i \in 0 .. c - 1 : i # j => u.slots[i] = t.slots[i]
    BY <2>1, Zenon DEF WrittenAt
  <2>3. /\ Taken(u) = IF u.slots[j].state = "Occupied" THEN Taken(t) \cup {j} ELSE Taken(t) \ {j}
        /\ Dead(u) = IF u.slots[j].state = "Tombstone" THEN Dead(t) \cup {j} ELSE Dead(t) \ {j}
        /\ \A x \in Keys, i \in 0 .. c - 1 : Reached(t, x, i) => Reached(u, x, i)
    BY <1>1, <2>1, Written, Zenon
  <2>. QED  BY <1>7, <2>1, <2>2, <2>3, Zenon
<1>10. \A i \in Taken(t) : i \in 0 .. c - 1 /\ i # j /\ u.slots[i] = t.slots[i] /\ t.slots[i].key \in Keys /\ t.slots[i].value \in Values
  BY <1>1, <1>2, <1>9, Zenon DEF Taken, TableTypes
<1>11. \A i \in Taken(t) : t.slots[i].key # k
  BY ProbeFinds, Zenon
<1>12. TableTypes(u)
  <2>1. \A i \in Taken(u) : u.slots[i].key \in Keys /\ u.slots[i].value \in Values
    BY <1>7, <1>9, <1>10, Zenon
  <2>. QED  BY <1>1, <1>6, <1>7, <1>9, <2>1, Zenon DEF TableTypes
<1>13. KeysAreUnique(u)
  <2>1. KeysAreUnique(t)
    BY DEF TableOK
  <2>2. ASSUME NEW a \in Taken(u), NEW b \in Taken(u), u.slots[a].key = u.slots[b].key
        PROVE  a = b
    <3>1. CASE a = j /\ b \in Taken(t)
      BY <1>7, <1>9, <1>10, <1>11, <2>2, <3>1, Zenon
    <3>2. CASE b = j /\ a \in Taken(t)
      BY <1>7, <1>9, <1>10, <1>11, <2>2, <3>2, Zenon
    <3>3. CASE a \in Taken(t) /\ b \in Taken(t)
      BY <1>10, <2>1, <2>2, <3>3, Zenon DEF KeysAreUnique
    <3>. QED  BY <1>9, <2>2, <3>1, <3>2, <3>3, Zenon
  <2>. QED  BY <2>2, Zenon DEF KeysAreUnique
<1>14. KeysAreReached(u)
  <2>1. ASSUME NEW i \in Taken(t)
        PROVE  Reached(u, u.slots[i].key, i)
    BY <1>9, <1>10, Zenon DEF TableOK, KeysAreReached
  <2>2. Reached(u, u.slots[j].key, j)
    BY <1>2, <1>7, <1>9, Zenon
  <2>. QED  BY <1>9, <2>1, <2>2, Zenon DEF KeysAreReached
<1>15. CountsAreHigh(u)
  <2>1. Cardinality(Taken(t) \cup {j}) = Cardinality(Taken(t)) + 1
    BY <1>2, <1>3, FS_AddElement
  <2>. QED  BY <1>3, <1>6, <1>9, <2>1, Zenon DEF CountsAreHigh, n
<1>16. TableOK(u)
  BY <1>12, <1>13, <1>14, <1>15, Zenon DEF TableOK
<1>17. u.tombstones <= t.tombstones
  BY <1>1, <1>9 DEF d
<1>18. /\ DOMAIN Entries(t) = { t.slots[i].key : i \in Taken(t) }
       /\ \A i \in Taken(t) : Entries(t)[t.slots[i].key] = t.slots[i].value
  BY EntriesAre, Zenon DEF TableOK
<1>19. /\ DOMAIN Entries(u) = { u.slots[i].key : i \in Taken(u) }
       /\ \A i \in Taken(u) : Entries(u)[u.slots[i].key] = u.slots[i].value
       /\ Entries(u) = [x \in DOMAIN Entries(u) |-> Entries(u)[x]]
  BY <1>13, EntriesAre, Zenon
<1>20. k \notin DOMAIN Entries(t)
  BY <1>11, <1>18, Zenon
<1>21. DOMAIN Entries(u) = DOMAIN Entries(t) \cup {k}
  <2>1. ASSUME NEW x \in DOMAIN Entries(u) PROVE x \in DOMAIN Entries(t) \cup {k}
    <3>1. PICK i \in Taken(u) : x = u.slots[i].key
      BY <1>19, <2>1, Zenon
    <3>2. CASE i = j
      BY <1>7, <1>9, <3>1, <3>2, Zenon
    <3>3. CASE i \in Taken(t)
      BY <1>10, <1>18, <3>1, <3>3, Zenon
    <3>. QED  BY <1>9, <3>2, <3>3, Zenon
  <2>2. ASSUME NEW x \in DOMAIN Entries(t) PROVE x \in DOMAIN Entries(u)
    <3>1. PICK i \in Taken(t) : x = t.slots[i].key
      BY <1>18, <2>2, Zenon
    <3>2. i \in Taken(u) /\ x = u.slots[i].key
      BY <1>9, <1>10, <3>1, Zenon
    <3>. QED  BY <1>19, <3>2, Zenon
  <2>3. k \in DOMAIN Entries(u)
    <3>1. j \in Taken(u) /\ k = u.slots[j].key
      BY <1>7, <1>9, Zenon
    <3>. QED  BY <1>19, <3>1, Zenon
  <2>. QED  BY <2>1, <2>2, <2>3, Zenon
<1>22. Entries(u)[k] = v
  BY <1>7, <1>9, <1>19, Zenon
<1>23. \A x \in DOMAIN Entries(t) : Entries(u)[x] = Entries(t)[x]
  <2>1. ASSUME NEW x \in DOMAIN Entries(t) PROVE Entries(u)[x] = Entries(t)[x]
    <3>1. PICK i \in Taken(t) : x = t.slots[i].key
      BY <1>18, <2>1, Zenon
    <3>2. i \in Taken(u) /\ u.slots[i] = t.slots[i]
      BY <1>9, <1>10, <3>1, Zenon
    <3>3. Entries(u)[u.slots[i].key] = u.slots[i].value
      BY <1>19, <3>2, Zenon
    <3>4. Entries(t)[t.slots[i].key] = t.slots[i].value
      BY <1>18, <3>1, Zenon
    <3>. QED  BY <3>1, <3>2, <3>3, <3>4, Zenon
  <2>. QED  BY <2>1, Zenon
<1>. QED  BY <1>9, <1>16, <1>17, <1>20, <1>21, <1>22, <1>23, Zenon DEF Adds, u, n

\* A probe stops as long as the counts leave room.
LEMMA RoomToStop ==
  ASSUME TableConstants, hash \in [Keys -> Hashes], NEW k \in Keys,
         NEW t, TableOK(t), t.capacity > 0, t.count + t.tombstones < t.capacity
  PROVE  Stops(t, k) # {}
<1>. DEFINE c == t.capacity
            U == Taken(t) \cup Dead(t)
<1>1. c \in Nat /\ t.count \in Nat /\ t.tombstones \in Nat /\ t.slots \in [0 .. c - 1 -> SlotRecords]
  BY DEF TableOK, TableTypes
<1>2. /\ IsFiniteSet(Taken(t)) /\ IsFiniteSet(Dead(t)) /\ Cardinality(Taken(t)) \in Nat /\ Cardinality(Dead(t)) \in Nat
      /\ t.count = Cardinality(Taken(t)) /\ Cardinality(Dead(t)) <= t.tombstones
  BY <1>1, SlotsCounted, Zenon DEF TableOK, CountsAreHigh
<1>3. Taken(t) \cap Dead(t) = {}
  BY DEF Taken, Dead
<1>4. Cardinality(U) = Cardinality(Taken(t)) + Cardinality(Dead(t)) - Cardinality(Taken(t) \cap Dead(t))
  BY <1>2, FS_Union
<1>5. Cardinality(U) < c
  <2>1. Cardinality(Taken(t) \cap Dead(t)) = 0
    BY <1>3, FS_EmptySet
  <2>2. t.count + t.tombstones < c
    OBVIOUS
  <2>. HIDE DEF c, U
  <2>. QED  BY <1>1, <1>2, <1>4, <2>1, <2>2
<1>. HIDE DEF c, U
<1>6. Cardinality(0 .. c - 1) = c
  BY <1>1, FS_Interval
<1>7. U # 0 .. c - 1
  BY <1>1, <1>5, <1>6
<1>8. U \subseteq 0 .. c - 1
  BY DEF Taken, Dead, U, c
<1>9. PICK s \in 0 .. c - 1 : s \notin U
  BY <1>7, <1>8
<1>10. t.slots[s].state = "Empty"
  BY <1>1, <1>9 DEF Taken, Dead, SlotRecords, U, c
<1>11. PICK i \in 0 .. c - 1 : At(t, k, i) = s
  BY <1>1, <1>9, Visits DEF c
<1>. QED  BY <1>10, <1>11, Zenon DEF Stops, Slot, c

\* u is a proper table in which k has the value v, and one without k.
Changes(t, u, k, v) ==
  /\ TableOK(u) /\ k \in DOMAIN Entries(t)
  /\ DOMAIN Entries(u) = DOMAIN Entries(t) /\ Entries(u)[k] = v
  /\ \A x \in DOMAIN Entries(t) : x # k => Entries(u)[x] = Entries(t)[x]
Drops(t, u, k) ==
  /\ TableOK(u) /\ k \in DOMAIN Entries(t)
  /\ DOMAIN Entries(u) = DOMAIN Entries(t) \ {k}
  /\ \A x \in DOMAIN Entries(u) : Entries(u)[x] = Entries(t)[x]

\* Writing a new value over the one that was found.
LEMMA OverwriteKeeps ==
  ASSUME TableConstants, hash \in [Keys -> Hashes], NEW k \in Keys, NEW v \in Values,
         NEW t, TableOK(t), t.capacity > 0, Found(t, k)
  PROVE  Changes(t, Overwrite(t, k, v), k, v)
<1>. DEFINE j == Place(t, k)
            s == Entry(k, v)
            u == Overwrite(t, k, v)
<1>1. /\ t.capacity \in Nat /\ t.count \in Nat /\ t.tombstones \in Nat /\ TableTypes(t)
      /\ KeysAreUnique(t) /\ KeysAreReached(t) /\ CountsAreHigh(t)
  BY DEF TableOK, TableTypes
<1>2. j \in Taken(t) /\ t.slots[j].key = k
  BY ProbeFinds, Zenon
<1>3. j \in 0 .. t.capacity - 1 /\ j \notin Dead(t)
  BY <1>2 DEF Taken, Dead
<1>4. s \in SlotRecords /\ s.state = "Occupied" /\ s.state # "Empty" /\ s.state # "Tombstone" /\ s.key = k /\ s.value = v
  BY DEF Entry, SlotRecords
<1>5. u = Table(t.capacity, [t.slots EXCEPT ![j] = s], t.count, t.tombstones)
  BY Zenon DEF Overwrite
<1>. HIDE DEF j, s, u
<1>6. WrittenAt(t, u, j) /\ u.slots[j] = s /\ u.count = t.count /\ u.tombstones = t.tombstones
  BY <1>1, <1>3, <1>4, <1>5, WriteSlot
<1>7. /\ u.capacity = t.capacity
      /\ u = Table(u.capacity, u.slots, u.count, u.tombstones)
      /\ u.slots \in [0 .. u.capacity - 1 -> SlotRecords]
      /\ \A i \in 0 .. t.capacity - 1 : i # j => u.slots[i] = t.slots[i]
  BY <1>6, Zenon DEF WrittenAt
<1>8. /\ Taken(u) = Taken(t) /\ Dead(u) = Dead(t)
      /\ \A x \in Keys, i \in 0 .. t.capacity - 1 : Reached(t, x, i) => Reached(u, x, i)
  <2>1. /\ Taken(u) = IF u.slots[j].state = "Occupied" THEN Taken(t) \cup {j} ELSE Taken(t) \ {j}
        /\ Dead(u) = IF u.slots[j].state = "Tombstone" THEN Dead(t) \cup {j} ELSE Dead(t) \ {j}
        /\ \A x \in Keys, i \in 0 .. t.capacity - 1 : Reached(t, x, i) => Reached(u, x, i)
    BY <1>1, <1>6, Written, Zenon
  <2>2. Taken(t) \cup {j} = Taken(t) /\ Dead(t) \ {j} = Dead(t)
    BY <1>2, <1>3, Zenon
  <2>. QED  BY <1>4, <1>6, <2>1, <2>2, Zenon
<1>9. \A i \in Taken(t) : /\ i \in 0 .. t.capacity - 1
                          /\ t.slots[i].key \in Keys /\ t.slots[i].value \in Values
                          /\ u.slots[i].key = t.slots[i].key
                          /\ i # j => u.slots[i] = t.slots[i]
  BY <1>1, <1>2, <1>4, <1>6, <1>7, Zenon DEF Taken, TableTypes
<1>10. TableTypes(u)
  <2>1. \A i \in Taken(u) : u.slots[i].key \in Keys /\ u.slots[i].value \in Values
    BY <1>4, <1>6, <1>8, <1>9, Zenon
  <2>. QED  BY <1>1, <1>6, <1>7, <2>1, Zenon DEF TableTypes
<1>11. KeysAreUnique(u)
  BY <1>1, <1>8, <1>9, Zenon DEF KeysAreUnique
<1>12. KeysAreReached(u)
  BY <1>1, <1>8, <1>9, Zenon DEF KeysAreReached
<1>13. CountsAreHigh(u)
  BY <1>1, <1>6, <1>8, Zenon DEF CountsAreHigh
<1>14. TableOK(u)
  BY <1>10, <1>11, <1>12, <1>13, Zenon DEF TableOK
<1>15. /\ DOMAIN Entries(t) = { t.slots[i].key : i \in Taken(t) }
       /\ \A i \in Taken(t) : Entries(t)[t.slots[i].key] = t.slots[i].value
  BY <1>1, EntriesAre, Zenon
<1>16. /\ DOMAIN Entries(u) = { u.slots[i].key : i \in Taken(u) }
       /\ \A i \in Taken(u) : Entries(u)[u.slots[i].key] = u.slots[i].value
       /\ Entries(u) = [x \in DOMAIN Entries(u) |-> Entries(u)[x]]
  BY <1>11, EntriesAre, Zenon
<1>17. k \in DOMAIN Entries(t)
  BY <1>2, <1>15, Zenon
<1>18. DOMAIN Entries(u) = DOMAIN Entries(t)
  BY <1>8, <1>9, <1>15, <1>16
<1>19. Entries(u)[k] = v
  BY <1>2, <1>4, <1>6, <1>8, <1>16, Zenon
<1>20. ASSUME NEW x \in DOMAIN Entries(t), x # k PROVE Entries(u)[x] = Entries(t)[x]
  <2>1. PICK i \in Taken(t) : x = t.slots[i].key
    BY <1>15, <1>20, Zenon
  <2>2. i \in Taken(u) /\ u.slots[i] = t.slots[i]
    BY <1>2, <1>8, <1>9, <1>20, <2>1, Zenon
  <2>3. Entries(u)[u.slots[i].key] = u.slots[i].value
    BY <1>16, <2>2, Zenon
  <2>4. Entries(t)[t.slots[i].key] = t.slots[i].value
    BY <1>15, <2>1, Zenon
  <2>. QED  BY <2>1, <2>2, <2>3, <2>4, Zenon
<1>. QED  BY <1>14, <1>17, <1>18, <1>19, <1>20, Zenon DEF Changes, u

\* Taking out the entry that was found: the tombstone keeps the others
\* reached.
LEMMA BuryKeeps ==
  ASSUME TableConstants, hash \in [Keys -> Hashes], NEW k \in Keys,
         NEW t, TableOK(t), t.capacity > 0, Found(t, k)
  PROVE  Drops(t, Bury(t, k), k)
<1>. DEFINE j == Place(t, k)
            s == Tombstone
            u == Bury(t, k)
            n == t.count - 1
            d == t.tombstones + 1
<1>1. /\ t.capacity \in Nat /\ t.count \in Nat /\ t.tombstones \in Nat /\ TableTypes(t)
      /\ KeysAreUnique(t) /\ KeysAreReached(t) /\ CountsAreHigh(t)
  BY DEF TableOK, TableTypes
<1>2. j \in Taken(t) /\ t.slots[j].key = k
  BY ProbeFinds, Zenon
<1>3. j \in 0 .. t.capacity - 1 /\ j \notin Dead(t)
  BY <1>2 DEF Taken, Dead
<1>4. s \in SlotRecords /\ s.state = "Tombstone" /\ s.state # "Empty" /\ s.state # "Occupied"
  BY DEF Tombstone, SlotRecords
<1>5. u = Table(t.capacity, [t.slots EXCEPT ![j] = s], n, d)
  BY Zenon DEF Bury
<1>. HIDE DEF j, s, u, n, d
<1>6. WrittenAt(t, u, j) /\ u.slots[j] = s /\ u.count = n /\ u.tombstones = d
  <2>1. j \in 0 .. t.capacity - 1 /\ TableTypes(t) /\ s \in SlotRecords /\ s.state # "Empty"
    BY <1>1, <1>3, <1>4, Zenon
  <2>. QED  BY <1>5, <2>1, WriteSlot
<1>7. /\ u.capacity = t.capacity
      /\ u = Table(u.capacity, u.slots, u.count, u.tombstones)
      /\ u.slots \in [0 .. u.capacity - 1 -> SlotRecords]
      /\ \A i \in 0 .. t.capacity - 1 : i # j => u.slots[i] = t.slots[i]
  BY <1>6, Zenon DEF WrittenAt
<1>8. /\ Taken(u) = Taken(t) \ {j} /\ Dead(u) = Dead(t) \cup {j}
      /\ \A x \in Keys, i \in 0 .. t.capacity - 1 : Reached(t, x, i) => Reached(u, x, i)
  <2>1. /\ Taken(u) = IF u.slots[j].state = "Occupied" THEN Taken(t) \cup {j} ELSE Taken(t) \ {j}
        /\ Dead(u) = IF u.slots[j].state = "Tombstone" THEN Dead(t) \cup {j} ELSE Dead(t) \ {j}
        /\ \A x \in Keys, i \in 0 .. t.capacity - 1 : Reached(t, x, i) => Reached(u, x, i)
    BY <1>1, <1>6, Written, Zenon
  <2>. QED  BY <1>4, <1>6, <2>1, Zenon
<1>9. \A i \in Taken(u) : /\ i \in 0 .. t.capacity - 1 /\ i # j /\ i \in Taken(t)
                          /\ t.slots[i].key \in Keys /\ t.slots[i].value \in Values
                          /\ u.slots[i] = t.slots[i]
  BY <1>1, <1>7, <1>8, Zenon DEF Taken, TableTypes
<1>10. n \in Nat /\ d \in Nat /\ CountsAreHigh(u)
  <2>1. /\ IsFiniteSet(Taken(t)) /\ IsFiniteSet(Dead(t)) /\ Cardinality(Taken(t)) \in Nat /\ Cardinality(Dead(t)) \in Nat
        /\ t.count = Cardinality(Taken(t)) /\ Cardinality(Dead(t)) <= t.tombstones
    BY <1>1, SlotsCounted, Zenon DEF CountsAreHigh
  <2>2. Cardinality(Taken(t) \ {j}) = Cardinality(Taken(t)) - 1 /\ IsFiniteSet(Taken(t) \ {j})
    BY <1>2, <2>1, FS_RemoveElement
  <2>3. Cardinality(Taken(t) \ {j}) \in Nat
    BY <2>2, FS_CardinalityType
  <2>4. Cardinality(Dead(t) \cup {j}) = Cardinality(Dead(t)) + 1
    BY <1>3, <2>1, FS_AddElement
  <2>5. n = Cardinality(Taken(t) \ {j}) /\ n \in Nat
    BY <2>1, <2>2, <2>3 DEF n
  <2>6. d \in Nat /\ Cardinality(Dead(t) \cup {j}) <= d
    BY <1>1, <2>1, <2>4 DEF d
  <2>. QED  BY <1>6, <1>8, <2>5, <2>6, Zenon DEF CountsAreHigh
<1>11. TableTypes(u)
  <2>1. \A i \in Taken(u) : u.slots[i].key \in Keys /\ u.slots[i].value \in Values
    BY <1>9, Zenon
  <2>. QED  BY <1>1, <1>6, <1>7, <1>10, <2>1, Zenon DEF TableTypes
<1>12. KeysAreUnique(u)
  BY <1>1, <1>9, Zenon DEF KeysAreUnique
<1>13. KeysAreReached(u)
  BY <1>1, <1>8, <1>9, Zenon DEF KeysAreReached
<1>14. TableOK(u)
  BY <1>10, <1>11, <1>12, <1>13, Zenon DEF TableOK
<1>15. /\ DOMAIN Entries(t) = { t.slots[i].key : i \in Taken(t) }
       /\ \A i \in Taken(t) : Entries(t)[t.slots[i].key] = t.slots[i].value
  BY <1>1, EntriesAre, Zenon
<1>16. /\ DOMAIN Entries(u) = { u.slots[i].key : i \in Taken(u) }
       /\ \A i \in Taken(u) : Entries(u)[u.slots[i].key] = u.slots[i].value
       /\ Entries(u) = [x \in DOMAIN Entries(u) |-> Entries(u)[x]]
  BY <1>12, EntriesAre, Zenon
<1>17. k \in DOMAIN Entries(t)
  BY <1>2, <1>15, Zenon
<1>18. \A i \in Taken(u) : t.slots[i].key # k
  BY <1>1, <1>2, <1>9, Zenon DEF KeysAreUnique
<1>19. ASSUME NEW x \in DOMAIN Entries(u)
       PROVE  x \in DOMAIN Entries(t) \ {k} /\ Entries(u)[x] = Entries(t)[x]
  <2>1. PICK i \in Taken(u) : x = u.slots[i].key
    BY <1>16, <1>19, Zenon
  <2>2. i \in Taken(t) /\ u.slots[i] = t.slots[i] /\ x # k
    BY <1>9, <1>18, <2>1, Zenon
  <2>3. Entries(u)[u.slots[i].key] = u.slots[i].value
    BY <1>16, <2>1, Zenon
  <2>4. Entries(t)[t.slots[i].key] = t.slots[i].value /\ t.slots[i].key \in DOMAIN Entries(t)
    BY <1>15, <2>2, Zenon
  <2>. QED  BY <2>1, <2>2, <2>3, <2>4, Zenon
<1>20. ASSUME NEW x \in DOMAIN Entries(t) \ {k} PROVE x \in DOMAIN Entries(u)
  <2>1. PICK i \in Taken(t) : x = t.slots[i].key
    BY <1>15, <1>20, Zenon
  <2>2. i # j
    BY <1>2, <1>20, <2>1, Zenon
  <2>3. i \in Taken(u) /\ u.slots[i] = t.slots[i]
    BY <1>8, <1>9, <2>1, <2>2, Zenon
  <2>. QED  BY <1>16, <2>1, <2>3, Zenon
<1>21. DOMAIN Entries(u) = DOMAIN Entries(t) \ {k}
  BY <1>19, <1>20, Zenon
<1>. QED  BY <1>14, <1>17, <1>19, <1>21, Zenon DEF Drops, u

-----------------------------------------------------------------------------
\* The tables resize goes through, one for each number of old slots it has
\* moved.
IsRehash(f, t, cap, c) == f = [n \in 0 .. c |-> IF n = 0 THEN EmptyTable(cap) ELSE Moved(f[n - 1], t.slots[n - 1])]

\* There is such a sequence: no number of slots is the least without one.
LEMMA RehashExists ==
  ASSUME NEW t, NEW cap, NEW c \in Nat
  PROVE  \E f : IsRehash(f, t, cap, c)
<1>. DEFINE S == { n \in Nat : ~\E f : IsRehash(f, t, cap, n) }
<1>. SUFFICES ASSUME S # {} PROVE FALSE
  BY Zenon
<1>. DEFINE m == Min(S)
<1>1. m \in S /\ \A n \in S : m <= n
  BY MinIsLeast
<1>. HIDE DEF m
<1>2. m \in Nat
  BY <1>1
<1>3. CASE m = 0
  <2>. DEFINE f == [n \in 0 .. 0 |-> EmptyTable(cap)]
  <2>1. f = [n \in 0 .. 0 |-> IF n = 0 THEN EmptyTable(cap) ELSE Moved(f[n - 1], t.slots[n - 1])]
    OBVIOUS
  <2>2. IsRehash(f, t, cap, 0)
    BY <2>1, Zenon DEF IsRehash
  <2>. QED  BY <1>1, <1>3, <2>2, Zenon
<1>4. CASE m # 0
  <2>1. m - 1 \in Nat /\ m - 1 \notin S
    BY <1>1, <1>2, <1>4
  <2>2. PICK f : IsRehash(f, t, cap, m - 1)
    BY <2>1, Zenon
  <2>. DEFINE G(n, x) == Moved(x, t.slots[n - 1])
              F == EmptyTable(cap)
  <2>3. f = [n \in 0 .. m - 1 |-> IF n = 0 THEN F ELSE G(n, f[n - 1])]
    BY <2>2, Zenon DEF IsRehash
  <2>. DEFINE g == [n \in 0 .. m |-> IF n = m THEN G(m, f[m - 1]) ELSE f[n]]
  <2>. HIDE DEF F, G
  <2>4. ASSUME NEW n \in 0 .. m
        PROVE  g[n] = IF n = 0 THEN F ELSE G(n, g[n - 1])
    <3>1. CASE n = 0
      BY <1>2, <1>4, <2>3, <3>1
    <3>2. CASE n # 0
      <4>1. n - 1 \in 0 .. m - 1 /\ n - 1 # m /\ n - 1 \in 0 .. m
        BY <1>2, <3>2
      <4>2. g[n - 1] = f[n - 1]
        BY <4>1
      <4>3. CASE n = m
        BY <3>2, <4>2, <4>3
      <4>4. CASE n # m
        <5>1. n \in 0 .. m - 1
          BY <1>2, <4>4
        <5>2. f[n] = G(n, f[n - 1])
          BY <2>3, <3>2, <5>1
        <5>. QED  BY <3>2, <4>2, <4>4, <5>2
      <4>. QED  BY <4>3, <4>4
    <3>. QED  BY <3>1, <3>2
  <2>5. g = [n \in 0 .. m |-> IF n = 0 THEN F ELSE G(n, g[n - 1])]
    BY <2>4
  <2>6. IsRehash(g, t, cap, m)
    BY <2>5, Zenon DEF IsRehash, F, G
  <2>. QED  BY <1>1, <2>6, Zenon
<1>. QED  BY <1>3, <1>4

\* The result of resize is the last of them.
LEMMA ResizeIs ==
  ASSUME NEW t, t.capacity \in Nat, NEW cap
  PROVE  \E f : IsRehash(f, t, cap, t.capacity) /\ resize(t, cap) = f[t.capacity]
<1>1. \E f : IsRehash(f, t, cap, t.capacity)
  BY RehashExists, Zenon
<1>. QED  BY <1>1, Zenon DEF resize, IsRehash

\* A new table is proper and has no entries.
LEMMA FreshIsEmpty ==
  ASSUME NEW cap \in Nat
  PROVE  /\ TableOK(EmptyTable(cap)) /\ DOMAIN Entries(EmptyTable(cap)) = {}
         /\ EmptyTable(cap).capacity = cap /\ EmptyTable(cap).count = 0 /\ EmptyTable(cap).tombstones = 0
<1>. DEFINE t == EmptyTable(cap)
            w == [i \in 0 .. cap - 1 |-> EmptySlot]
<1>1. EmptySlot \in SlotRecords /\ EmptySlot.state # "Occupied" /\ EmptySlot.state # "Tombstone"
  BY DEF EmptySlot, SlotRecords
<1>2. t = Table(cap, w, 0, 0)
  BY Zenon DEF EmptyTable
<1>3. t.capacity = cap /\ t.slots = w /\ t.count = 0 /\ t.tombstones = 0
  BY <1>2 DEF Table
<1>4. w \in [0 .. cap - 1 -> SlotRecords] /\ \A i \in 0 .. cap - 1 : w[i] = EmptySlot
  BY <1>1
<1>. HIDE DEF t, w
<1>5. Taken(t) = {} /\ Dead(t) = {}
  BY <1>1, <1>3, <1>4, Zenon DEF Taken, Dead
<1>6. TableTypes(t)
  <2>1. t = Table(t.capacity, t.slots, t.count, t.tombstones)
    BY <1>2, <1>3, Zenon
  <2>2. t.capacity \in Nat /\ t.count \in Nat /\ t.tombstones \in Nat
    BY <1>3
  <2>3. t.slots \in [0 .. t.capacity - 1 -> SlotRecords]
    BY <1>3, <1>4, Zenon
  <2>. QED  BY <1>5, <2>1, <2>2, <2>3, Zenon DEF TableTypes
<1>7. KeysAreUnique(t) /\ KeysAreReached(t)
  BY <1>5, Zenon DEF KeysAreUnique, KeysAreReached
<1>8. CountsAreHigh(t)
  BY <1>3, <1>5, FS_EmptySet DEF CountsAreHigh
<1>9. DOMAIN Entries(t) = {}
  <2>1. DOMAIN Entries(t) = { t.slots[i].key : i \in Taken(t) }
    BY <1>7, EntriesAre, Zenon
  <2>. QED  BY <1>5, <2>1, Zenon
<1>. QED  BY <1>3, <1>6, <1>7, <1>8, <1>9, Zenon DEF TableOK, t

\* x is a proper table with the entries of the first n slots of t.
Before(t, n) == { i \in Taken(t) : i < n }
Carries(x, t, n) ==
  /\ TableOK(x) /\ x.tombstones = 0 /\ x.count <= n
  /\ DOMAIN Entries(x) = { t.slots[i].key : i \in Before(t, n) }
  /\ \A k \in DOMAIN Entries(x) : Entries(x)[k] = Entries(t)[k]

\* Moving the entry of one more slot, which is never found and finds room.
LEMMA MoveKeeps ==
  ASSUME TableConstants, hash \in [Keys -> Hashes], NEW t, TableOK(t),
         NEW n \in 0 .. t.capacity - 1, NEW x, n < x.capacity, Carries(x, t, n)
  PROVE  Carries(Moved(x, t.slots[n]), t, n + 1) /\ Moved(x, t.slots[n]).capacity = x.capacity
<1>. DEFINE s == t.slots[n]
            y == Moved(x, s)
<1>1. t.capacity \in Nat /\ x.capacity \in Nat /\ x.count \in Nat /\ n \in Nat /\ n + 1 \in Nat
  BY DEF TableOK, TableTypes, Carries
<1>2. Taken(t) \subseteq Nat /\ KeysAreUnique(t)
  BY DEF Taken, TableOK
<1>3. /\ TableOK(x) /\ x.tombstones = 0 /\ x.count <= n
      /\ DOMAIN Entries(x) = { t.slots[i].key : i \in Before(t, n) }
      /\ \A k \in DOMAIN Entries(x) : Entries(x)[k] = Entries(t)[k]
  BY Zenon DEF Carries
<1>4. CASE n \notin Taken(t)
  <2>1. y = x
    BY <1>4, Zenon DEF Moved, Taken
  <2>2. Before(t, n + 1) = Before(t, n)
    BY <1>1, <1>2, <1>4 DEF Before
  <2>3. x.count <= n + 1
    BY <1>1, <1>3
  <2>4. Carries(x, t, n + 1)
    BY <1>3, <2>2, <2>3, Zenon DEF Carries
  <2>. QED  BY <2>1, <2>4, Zenon
<1>5. CASE n \in Taken(t)
  <2>. DEFINE k == s.key
              v == s.value
  <2>1. k \in Keys /\ v \in Values /\ s.state = "Occupied"
    BY <1>5, Zenon DEF TableOK, TableTypes, Taken
  <2>2. y = Enter(x, k, v)
    BY <2>1, Zenon DEF Moved
  <2>. HIDE DEF k, v, y
  <2>3. Before(t, n + 1) = Before(t, n) \cup {n} /\ n \notin Before(t, n)
    BY <1>1, <1>2, <1>5 DEF Before
  <2>4. \A i \in Before(t, n) : t.slots[i].key # k
    BY <1>2, <1>5, <2>3, Zenon DEF Before, KeysAreUnique, k
  <2>5. k \notin DOMAIN Entries(x)
    BY <1>3, <2>4, Zenon
  <2>6. ~Found(x, k)
    <3>1. SUFFICES ASSUME Found(x, k) PROVE FALSE
      OBVIOUS
    <3>2. x.capacity > 0
      BY <1>1
    <3>3. Place(x, k) \in Taken(x) /\ x.slots[Place(x, k)].key = k
      BY <1>3, <2>1, <3>1, <3>2, ProbeFinds, Zenon
    <3>4. DOMAIN Entries(x) = { x.slots[i].key : i \in Taken(x) }
      BY <1>3, EntriesAre, Zenon DEF TableOK
    <3>. QED  BY <2>5, <3>3, <3>4, Zenon
  <2>7. x.capacity > 0 /\ x.count + x.tombstones < x.capacity
    BY <1>1, <1>3
  <2>8. Stops(x, k) # {}
    BY <1>3, <2>1, <2>7, RoomToStop, Zenon
  <2>9. /\ TableOK(y) /\ y.capacity = x.capacity /\ y.count = x.count + 1 /\ y.tombstones <= x.tombstones
        /\ DOMAIN Entries(y) = DOMAIN Entries(x) \cup {k} /\ Entries(y)[k] = v
        /\ \A z \in DOMAIN Entries(x) : Entries(y)[z] = Entries(x)[z]
    <3>1. k \in Keys /\ v \in Values /\ TableOK(x) /\ x.capacity > 0 /\ Stops(x, k) # {} /\ ~Found(x, k)
      BY <1>3, <2>1, <2>6, <2>7, <2>8, Zenon
    <3>2. Adds(x, Enter(x, k, v), k, v)
      BY <3>1, EnterKeeps, Zenon
    <3>. QED  BY <2>2, <3>2, Zenon DEF Adds
  <2>10. y.count <= n + 1
    BY <1>1, <1>3, <2>9
  <2>11. y.tombstones = 0
    <3>1. y.tombstones \in Nat
      BY <2>9, Zenon DEF TableOK, TableTypes
    <3>. QED  BY <1>3, <2>9, <3>1
  <2>12. DOMAIN Entries(x) \cup {k} = { t.slots[i].key : i \in Before(t, n + 1) }
    BY <1>3, <2>3 DEF k
  <2>13. Entries(t)[k] = v
    BY <1>2, <1>5, EntriesAre, Zenon DEF k, v
  <2>14. \A z \in DOMAIN Entries(y) : Entries(y)[z] = Entries(t)[z]
    BY <1>3, <2>9, <2>13, Zenon
  <2>15. Carries(y, t, n + 1)
    BY <2>9, <2>10, <2>11, <2>12, <2>14, Zenon DEF Carries
  <2>. QED  BY <2>9, <2>15, Zenon DEF y
<1>. QED  BY <1>4, <1>5, Zenon

\* So every table on the way carries the entries of the slots moved so far.
LEMMA RehashCarries ==
  ASSUME TableConstants, hash \in [Keys -> Hashes], NEW t, TableOK(t),
         NEW cap \in Nat, t.capacity <= cap, NEW f, IsRehash(f, t, cap, t.capacity)
  PROVE  \A n \in 0 .. t.capacity : Carries(f[n], t, n) /\ f[n].capacity = cap
<1>1. t.capacity \in Nat
  BY DEF TableOK, TableTypes
<1>2. \A n \in 0 .. t.capacity : f[n] = IF n = 0 THEN EmptyTable(cap) ELSE Moved(f[n - 1], t.slots[n - 1])
  BY Zenon DEF IsRehash
<1>. DEFINE P(n) == Carries(f[n], t, n) /\ f[n].capacity = cap
            S == { n \in 0 .. t.capacity : ~P(n) }
<1>3. P(0)
  <2>1. f[0] = EmptyTable(cap)
    BY <1>1, <1>2
  <2>2. Before(t, 0) = {}
    BY DEF Before, Taken
  <2>3. /\ TableOK(EmptyTable(cap)) /\ DOMAIN Entries(EmptyTable(cap)) = {}
        /\ EmptyTable(cap).capacity = cap /\ EmptyTable(cap).count = 0 /\ EmptyTable(cap).tombstones = 0
    BY FreshIsEmpty, Zenon
  <2>4. EmptyTable(cap).count <= 0
    BY <2>3
  <2>5. Carries(EmptyTable(cap), t, 0)
    BY <2>2, <2>3, <2>4, Zenon DEF Carries
  <2>. QED  BY <2>1, <2>3, <2>5, Zenon
<1>4. ASSUME NEW n \in 0 .. t.capacity - 1, P(n) PROVE P(n + 1)
  <2>1. n + 1 \in 0 .. t.capacity /\ n + 1 # 0 /\ (n + 1) - 1 = n /\ n < cap
    BY <1>1
  <2>2. f[n + 1] = Moved(f[n], t.slots[n])
    BY <1>2, <2>1, Zenon
  <2>3. n < f[n].capacity
    BY <1>4, <2>1, Zenon
  <2>4. Carries(Moved(f[n], t.slots[n]), t, n + 1) /\ Moved(f[n], t.slots[n]).capacity = f[n].capacity
    <3>1. Carries(f[n], t, n)
      BY <1>4, Zenon
    <3>2. n \in 0 .. t.capacity - 1
      BY <1>4, Zenon
    <3>. HIDE DEF P, S
    <3>. QED  BY <2>3, <3>1, <3>2, MoveKeeps, ZenonT(40)
  <2>. QED  BY <1>4, <2>2, <2>4, Zenon
<1>. HIDE DEF P
<1>5. S = {}
  <2>. SUFFICES ASSUME S # {} PROVE FALSE
    OBVIOUS
  <2>. DEFINE m == Min(S)
  <2>1. S \in SUBSET Nat
    BY <1>1
  <2>2. m \in S /\ \A n \in S : m <= n
    BY <2>1, MinIsLeast
  <2>. HIDE DEF m
  <2>3. m # 0
    BY <1>3, <2>2, Zenon
  <2>4. m - 1 \in 0 .. t.capacity - 1 /\ m - 1 \notin S /\ m - 1 \in 0 .. t.capacity /\ (m - 1) + 1 = m
    BY <1>1, <2>2, <2>3
  <2>5. P(m - 1)
    BY <2>4, Zenon
  <2>6. P((m - 1) + 1)
    BY <1>4, <2>4, <2>5, Zenon
  <2>. QED  BY <2>2, <2>4, <2>6, Zenon
<1>. QED  BY <1>5, Zenon DEF P

\* resize calls set for every entry it moves, and set tests again whether the
\* table must grow: it never must, so that resize is not entered again in the
\* middle of a move (bc_map_resize, _resize of bbb_hashtable.h).
THEOREM ResizeSettles ==
  ASSUME TableConstants, hash \in [Keys -> Hashes], NEW t, TableOK(t),
         NEW f, IsRehash(f, t, t.capacity * 2, t.capacity), NEW n \in 0 .. t.capacity - 1
  PROVE  ~Grows(f[n])
<1>1. t.capacity \in Nat /\ t.capacity * 2 \in Nat /\ t.capacity <= t.capacity * 2 /\ n \in 0 .. t.capacity
  BY DEF TableOK, TableTypes
<1>2. Carries(f[n], t, n) /\ f[n].capacity = t.capacity * 2
  <2>1. \A i \in 0 .. t.capacity : Carries(f[i], t, i) /\ f[i].capacity = t.capacity * 2
    BY <1>1, RehashCarries
  <2>. QED  BY <1>1, <2>1, Zenon
<1>3. f[n].tombstones = 0 /\ f[n].count <= n /\ f[n].count \in Nat
  BY <1>2, Zenon DEF Carries, TableOK, TableTypes
<1>. QED  BY <1>1, <1>2, <1>3 DEF Grows

\* Growing loses nothing, adds nothing, and clears the tombstones away.
LEMMA ResizeKeeps ==
  ASSUME TableConstants, hash \in [Keys -> Hashes], NEW t, TableOK(t),
         NEW cap \in Nat, t.capacity <= cap
  PROVE  /\ TableOK(resize(t, cap)) /\ resize(t, cap).capacity = cap
         /\ resize(t, cap).count <= t.capacity /\ resize(t, cap).tombstones = 0
         /\ Entries(resize(t, cap)) = Entries(t)
<1>1. t.capacity \in Nat
  BY DEF TableOK, TableTypes
<1>2. PICK f : IsRehash(f, t, cap, t.capacity) /\ resize(t, cap) = f[t.capacity]
  BY <1>1, ResizeIs, Zenon
<1>3. Carries(f[t.capacity], t, t.capacity) /\ f[t.capacity].capacity = cap
  <2>1. t.capacity \in 0 .. t.capacity
    BY <1>1
  <2>2. \A i \in 0 .. t.capacity : Carries(f[i], t, i) /\ f[i].capacity = cap
    BY <1>2, RehashCarries
  <2>. QED  BY <2>1, <2>2, Zenon
<1>. DEFINE u == resize(t, cap)
<1>8. Carries(u, t, t.capacity) /\ u.capacity = cap
  BY <1>2, <1>3, Zenon
<1>. HIDE DEF u
<1>9. Before(t, t.capacity) = Taken(t)
  BY <1>1 DEF Before, Taken
<1>10. TableOK(u) /\ u.count <= t.capacity /\ u.tombstones = 0
  BY <1>8, Zenon DEF Carries
<1>11. /\ DOMAIN Entries(t) = { t.slots[i].key : i \in Taken(t) }
       /\ Entries(t) = [z \in DOMAIN Entries(t) |-> Entries(t)[z]]
  BY EntriesAre, Zenon DEF TableOK
<1>12. Entries(u) = [z \in DOMAIN Entries(u) |-> Entries(u)[z]]
  BY <1>10, EntriesAre, Zenon DEF TableOK
<1>13. DOMAIN Entries(u) = DOMAIN Entries(t) /\ \A z \in DOMAIN Entries(t) : Entries(u)[z] = Entries(t)[z]
  BY <1>8, <1>9, <1>11, Zenon DEF Carries
<1>14. Entries(u) = Entries(t)
  BY <1>11, <1>12, <1>13
<1>. QED  BY <1>8, <1>10, <1>14, Zenon DEF u

-----------------------------------------------------------------------------
\* A function is determined by its domain and values: u and t are one map.
LEMMA SameEntries ==
  ASSUME NEW t, NEW u, KeysAreUnique(t), KeysAreUnique(u), DOMAIN Entries(u) = DOMAIN Entries(t),
         \A x \in DOMAIN Entries(t) : Entries(u)[x] = Entries(t)[x]
  PROVE  Entries(u) = Entries(t)
<1>1. /\ Entries(t) = [x \in DOMAIN Entries(t) |-> Entries(t)[x]]
      /\ Entries(u) = [x \in DOMAIN Entries(u) |-> Entries(u)[x]]
  BY EntriesAre, Zenon
<1>. QED  BY <1>1

\* An insertion starts from a table that has the same entries and a slot to
\* stop at.
HasRoom(u, t) == TableOK(u) /\ u.capacity > 0 /\ u.count + u.tombstones < u.capacity /\ Entries(u) = Entries(t)

\* ensure_init and the growth before an insertion leave such a table.
LEMMA RoomIsMade ==
  ASSUME TableConstants, hash \in [Keys -> Hashes], NEW t, TableOK(t)
  PROVE  HasRoom(Room(ensure_init(t)), t)
<1>. DEFINE e == ensure_init(t)
            u == resize(e, e.capacity * 2)
<1>1. TableOK(e) /\ e.capacity > 0 /\ Entries(e) = Entries(t)
  <2>1. CASE t.capacity = 0
    <3>1. e = EmptyTable(InitCapacity)
      BY <2>1, Zenon DEF ensure_init
    <3>2. InitCapacity \in Nat /\ InitCapacity > 0
      BY DEF TableConstants
    <3>3. /\ TableOK(EmptyTable(InitCapacity)) /\ DOMAIN Entries(EmptyTable(InitCapacity)) = {}
          /\ EmptyTable(InitCapacity).capacity = InitCapacity
      BY <3>2, FreshIsEmpty, Zenon
    <3>4. Taken(t) = {}
      BY <2>1 DEF Taken
    <3>5. DOMAIN Entries(t) = {}
      <4>1. DOMAIN Entries(t) = { t.slots[i].key : i \in Taken(t) }
        BY EntriesAre, Zenon DEF TableOK
      <4>. QED  BY <3>4, <4>1, Zenon
    <3>6. TableOK(e) /\ DOMAIN Entries(e) = DOMAIN Entries(t) /\ e.capacity = InitCapacity
      BY <3>1, <3>3, <3>5, Zenon
    <3>7. KeysAreUnique(e) /\ KeysAreUnique(t)
      BY <3>6, Zenon DEF TableOK
    <3>8. Entries(e) = Entries(t)
      BY <3>5, <3>6, <3>7, SameEntries, Zenon
    <3>. QED  BY <3>2, <3>6, <3>8
  <2>2. CASE t.capacity # 0
    <3>1. e = t
      BY <2>2, Zenon DEF ensure_init
    <3>2. t.capacity > 0
      BY <2>2 DEF TableOK, TableTypes
    <3>. QED  BY <3>1, <3>2, Zenon
  <2>. QED  BY <2>1, <2>2, Zenon
<1>2. e.capacity \in Nat /\ e.count \in Nat /\ e.tombstones \in Nat
  BY <1>1, Zenon DEF TableOK, TableTypes
<1>. HIDE DEF e
<1>3. CASE Grows(e)
  <2>1. e.capacity * 2 \in Nat /\ e.capacity <= e.capacity * 2
    BY <1>2
  <2>2. TableOK(u) /\ u.capacity = e.capacity * 2 /\ u.count <= e.capacity /\ u.tombstones = 0 /\ Entries(u) = Entries(e)
    BY <1>1, <2>1, ResizeKeeps, Zenon
  <2>3. u.count \in Nat
    BY <2>2, Zenon DEF TableOK, TableTypes
  <2>4. Room(e) = u
    BY <1>3, Zenon DEF Room
  <2>. HIDE DEF u
  <2>5. u.capacity > 0 /\ u.count + u.tombstones < u.capacity
    BY <1>1, <1>2, <2>2, <2>3
  <2>. QED  BY <1>1, <2>2, <2>4, <2>5, Zenon DEF HasRoom, e
<1>4. CASE ~Grows(e)
  <2>1. Room(e) = e
    BY <1>4, Zenon DEF Room
  <2>2. e.count + e.tombstones < e.capacity
    BY <1>2, <1>4 DEF Grows
  <2>. QED  BY <1>1, <2>1, <2>2, Zenon DEF HasRoom, e
<1>. QED  BY <1>3, <1>4, Zenon

\* A new table satisfies the invariant.
LEMMA HashInit == ASSUME TableConstants PROVE TablesInit => HashInv
<1>. SUFFICES ASSUME TablesInit PROVE HashInv
  OBVIOUS
<1>. DEFINE cap == IF flavour = "names" THEN InitCapacity ELSE 0
<1>1. cap \in Nat
  BY DEF TableConstants
<1>2. table = EmptyTable(cap) /\ flavour \in {"map", "set", "names"} /\ hash \in [Keys -> Hashes]
  BY Zenon DEF TablesInit
<1>. HIDE DEF cap
<1>3. TableOK(EmptyTable(cap))
  BY <1>1, FreshIsEmpty, Zenon
<1>. QED  BY <1>2, <1>3, Zenon DEF HashInv

\* What an insertion makes of a table: the table, the answer, and which case
\* of the code it was.
LEMMA SetStep ==
  ASSUME TableConstants, HashInv, NEW k \in Keys, NEW v \in Values, NEW overwrite \in MayOverwrite[flavour],
         map_set(k, v, overwrite)
  PROVE  LET r == Room(ensure_init(table))
         IN  /\ HasRoom(r, table)
             /\ \/ Adds(r, table', k, v) /\ ret' = TRUE
                \/ overwrite /\ Changes(r, table', k, v) /\ ret' = TRUE
                \/ ~overwrite /\ k \in DOMAIN Entries(r) /\ table' = r /\ ret' = FALSE
<1>. DEFINE r == Room(ensure_init(table))
<1>1. hash \in [Keys -> Hashes] /\ TableOK(table)
  BY Zenon DEF HashInv
<1>2. HasRoom(r, table)
  BY <1>1, RoomIsMade, Zenon
<1>3. table' = Insert(r, k, v, overwrite)[1] /\ ret' = Insert(r, k, v, overwrite)[2]
  BY Zenon DEF map_set
<1>. HIDE DEF r
<1>4. TableOK(r) /\ r.capacity > 0 /\ r.count + r.tombstones < r.capacity
  BY <1>2, Zenon DEF HasRoom
<1>5. Stops(r, k) # {}
  BY <1>1, <1>4, RoomToStop, Zenon
<1>6. CASE ~Found(r, k)
  <2>1. Insert(r, k, v, overwrite) = << Enter(r, k, v), TRUE >>
    BY <1>5, <1>6, Zenon DEF Insert
  <2>2. table' = Enter(r, k, v) /\ ret' = TRUE
    BY <1>3, <2>1
  <2>3. Adds(r, Enter(r, k, v), k, v)
    BY <1>1, <1>4, <1>5, <1>6, EnterKeeps, Zenon
  <2>. QED  BY <1>2, <2>2, <2>3, Zenon DEF r
<1>7. CASE Found(r, k) /\ overwrite
  <2>1. Insert(r, k, v, overwrite) = << Overwrite(r, k, v), TRUE >>
    BY <1>5, <1>7, Zenon DEF Insert
  <2>2. table' = Overwrite(r, k, v) /\ ret' = TRUE
    BY <1>3, <2>1
  <2>3. Changes(r, Overwrite(r, k, v), k, v)
    BY <1>1, <1>4, <1>7, OverwriteKeeps, Zenon
  <2>. QED  BY <1>2, <1>7, <2>2, <2>3, Zenon DEF r
<1>8. CASE Found(r, k) /\ ~overwrite
  <2>1. Insert(r, k, v, overwrite) = << r, FALSE >>
    BY <1>5, <1>8, Zenon DEF Insert
  <2>2. table' = r /\ ret' = FALSE
    BY <1>3, <2>1
  <2>3. Place(r, k) \in Taken(r) /\ r.slots[Place(r, k)].key = k
    BY <1>1, <1>4, <1>8, ProbeFinds, Zenon
  <2>4. DOMAIN Entries(r) = { r.slots[i].key : i \in Taken(r) }
    BY <1>4, EntriesAre, Zenon DEF TableOK
  <2>5. k \in DOMAIN Entries(r)
    BY <2>3, <2>4, Zenon
  <2>. QED  BY <1>2, <1>8, <2>2, <2>5, Zenon DEF r
<1>. QED  BY <1>6, <1>7, <1>8, Zenon

\* A key that is not found, or a table without slots, has no entry for it.
LEMMA LookUp ==
  ASSUME TableConstants, HashInv, NEW k \in Keys
  PROVE  LET found == table.capacity > 0 /\ Found(table, k)
         IN  /\ found <=> k \in DOMAIN Entries(table)
             /\ found => table.slots[Place(table, k)].value = Entries(table)[k]
<1>. DEFINE found == table.capacity > 0 /\ Found(table, k)
<1>1. hash \in [Keys -> Hashes] /\ TableOK(table)
  BY Zenon DEF HashInv
<1>2. /\ DOMAIN Entries(table) = { table.slots[i].key : i \in Taken(table) }
      /\ \A i \in Taken(table) : Entries(table)[table.slots[i].key] = table.slots[i].value
  BY <1>1, EntriesAre, Zenon DEF TableOK
<1>3. ASSUME found
      PROVE  k \in DOMAIN Entries(table) /\ table.slots[Place(table, k)].value = Entries(table)[k]
  <2>1. Place(table, k) \in Taken(table) /\ table.slots[Place(table, k)].key = k
    BY <1>1, <1>3, ProbeFinds, Zenon
  <2>. QED  BY <1>2, <2>1, Zenon
<1>4. ASSUME k \in DOMAIN Entries(table)
      PROVE  found
  <2>1. PICK i \in Taken(table) : k = table.slots[i].key
    BY <1>2, <1>4, Zenon
  <2>2. table.capacity > 0
    BY <1>1 DEF Taken, TableOK, TableTypes
  <2>. QED  BY <1>1, <2>1, <2>2, ProbeFinds, Zenon
<1>. QED  BY <1>3, <1>4, Zenon

\* Every call leaves a proper table and does to the entries what it would do
\* to a plain map, with the same answer.
LEMMA HashStep ==
  ASSUME TableConstants, HashInv, [TablesNext]_entries
  PROVE  HashInv' /\ [Abstract!Next]_(Abstract!vars)
<1>. DEFINE map == Entries(table)
<1>1. flavour \in {"map", "set", "names"} /\ hash \in [Keys -> Hashes] /\ TableOK(table)
  BY Zenon DEF HashInv
\* hash does not change, so that a proper table is one after the step.
<1>2. ASSUME UNCHANGED << flavour, hash >>, TableOK(table')
      PROVE  HashInv'
  <2>1. hash' = hash /\ flavour' = flavour
    BY <1>2, Zenon
  <2>2. TableTypes(table)' /\ KeysAreUnique(table)' /\ CountsAreHigh(table)'
    BY <1>2, <2>1, Zenon DEF TableOK, TableTypes, KeysAreUnique, CountsAreHigh
  <2>3. KeysAreReached(table)'
    BY <1>2, <2>1, Zenon DEF TableOK, KeysAreReached, Reached, Slot, At
  <2>. QED  BY <1>1, <2>1, <2>2, <2>3, Zenon DEF HashInv, TableOK
<1>3. ASSUME NEW k \in Keys, map_get(k)
      PROVE  HashInv' /\ Abstract!Get(k)
  <2>1. UNCHANGED << flavour, hash, table >>
    BY <1>3, Zenon DEF map_get
  <2>2. table' = table /\ flavour' = flavour /\ hash' = hash
    BY <2>1, Zenon
  <2>3. TableOK(table')
    BY <1>1, <2>2, Zenon
  <2>4. ret' = IF k \in DOMAIN map THEN map[k] ELSE NoValue
    BY <1>3, LookUp, Zenon DEF map_get
  <2>5. map' = map
    BY <2>2, Zenon
  <2>6. Abstract!Get(k)
    BY <2>2, <2>4, <2>5, Zenon DEF Abstract!Get
  <2>. QED  BY <1>2, <2>2, <2>3, <2>6, Zenon
<1>4. ASSUME NEW k \in Keys, map_remove(k)
      PROVE  HashInv' /\ Abstract!Remove(k)
  <2>. DEFINE found == table.capacity > 0 /\ Found(table, k)
  <2>1. /\ table' = IF found THEN Bury(table, k) ELSE table
        /\ ret' = found /\ flavour' = flavour /\ hash' = hash
    BY <1>4, Zenon DEF map_remove
  <2>2. found <=> k \in DOMAIN map
    BY LookUp, Zenon
  <2>3. found = (k \in DOMAIN map)
    <3>1. CASE found
      <4>1. found = TRUE
        BY <3>1, Zenon
      <4>2. (k \in DOMAIN map) = TRUE
        BY <2>2, <3>1, Zenon
      <4>. QED  BY <4>1, <4>2, Zenon
    <3>2. CASE ~found
      <4>1. found = FALSE
        BY <3>2, Zenon
      <4>2. k \notin DOMAIN map
        BY <2>2, <3>2, Zenon
      <4>3. (k \in DOMAIN map) = FALSE
        BY <4>2
      <4>. QED  BY <4>1, <4>3, Zenon
    <3>. QED  BY <3>1, <3>2, Zenon
  <2>4. CASE found
    <3>1. table' = Bury(table, k)
      BY <2>1, <2>4, Zenon
    <3>2. Drops(table, Bury(table, k), k)
      BY <1>1, <2>4, BuryKeeps, Zenon
    <3>3. TableOK(table') /\ DOMAIN map' = DOMAIN map \ {k} /\ \A x \in DOMAIN map' : map'[x] = map[x]
      BY <3>1, <3>2, Zenon DEF Drops
    <3>4. map' = [x \in DOMAIN map' |-> map'[x]]
      BY <3>3, EntriesAre, Zenon DEF TableOK
    <3>. HIDE DEF map
    <3>5. map' = [x \in DOMAIN map \ {k} |-> map[x]]
      BY <3>3, <3>4
    <3>. QED  BY <1>2, <2>1, <2>3, <3>3, <3>5, Zenon DEF Abstract!Remove, map
  <2>5. CASE ~found
    <3>1. table' = table
      BY <2>1, <2>5, Zenon
    <3>2. TableOK(table') /\ map' = map
      BY <1>1, <3>1, Zenon
    <3>3. map = [x \in DOMAIN map |-> map[x]]
      BY <1>1, EntriesAre, Zenon DEF TableOK
    <3>4. DOMAIN map \ {k} = DOMAIN map
      BY <2>2, <2>5, Zenon
    <3>. HIDE DEF map
    <3>5. map' = [x \in DOMAIN map \ {k} |-> map[x]]
      BY <3>2, <3>3, <3>4
    <3>. QED  BY <1>2, <2>1, <2>3, <3>2, <3>5, Zenon DEF Abstract!Remove, map
  <2>. QED  BY <2>4, <2>5, Zenon
<1>5. ASSUME NEW k \in Keys, NEW v \in Values, NEW overwrite \in MayOverwrite[flavour],
         map_set(k, v, overwrite)
      PROVE  HashInv' /\ Abstract!Put(k, v, overwrite)
  <2>. DEFINE r == Room(ensure_init(table))
              keeps == k \in DOMAIN map /\ ~overwrite
  <2>1. flavour' = flavour /\ hash' = hash
    BY <1>5, Zenon DEF map_set
  <2>2. /\ HasRoom(r, table)
        /\ \/ Adds(r, table', k, v) /\ ret' = TRUE
           \/ overwrite /\ Changes(r, table', k, v) /\ ret' = TRUE
           \/ ~overwrite /\ k \in DOMAIN Entries(r) /\ table' = r /\ ret' = FALSE
    BY <1>5, SetStep, Zenon
  <2>. HIDE DEF r
  <2>3. TableOK(r) /\ Entries(r) = map
    BY <2>2, Zenon DEF HasRoom
  <2>4. CASE (Adds(r, table', k, v) \/ (overwrite /\ Changes(r, table', k, v))) /\ ret' = TRUE
    <3>1. TableOK(table') /\ ~keeps
      BY <2>3, <2>4, Zenon DEF Adds, Changes
    <3>2. /\ DOMAIN map' = DOMAIN map \cup {k} /\ map'[k] = v
          /\ \A x \in DOMAIN map : x # k => map'[x] = map[x]
      BY <2>3, <2>4, Zenon DEF Adds, Changes
    <3>3. map' = [x \in DOMAIN map' |-> map'[x]]
      BY <3>1, EntriesAre, Zenon DEF TableOK
    <3>. HIDE DEF map
    <3>4. map' = [x \in DOMAIN map \cup {k} |-> IF x = k THEN v ELSE map[x]]
      BY <3>2, <3>3
    <3>5. ret' = ~keeps
      BY <2>4, <3>1, Zenon
    <3>. QED  BY <1>2, <2>1, <3>1, <3>4, <3>5, Zenon DEF Abstract!Put, Abstract!With, map
  <2>5. CASE ~overwrite /\ k \in DOMAIN Entries(r) /\ table' = r /\ ret' = FALSE
    <3>1. TableOK(table') /\ keeps /\ map' = map
      BY <2>3, <2>5, Zenon
    <3>2. ret' = ~keeps
      BY <2>5, <3>1, Zenon
    <3>. QED  BY <1>2, <2>1, <3>1, <3>2, Zenon DEF Abstract!Put
  <2>. QED  BY <2>2, <2>4, <2>5, Zenon
<1>6. CASE UNCHANGED entries
  <2>1. table' = table /\ flavour' = flavour /\ hash' = hash /\ ret' = ret
    BY <1>6, Zenon DEF entries
  <2>2. TableOK(table') /\ map' = map
    BY <1>1, <2>1, Zenon
  <2>. QED  BY <1>2, <2>1, <2>2, Zenon DEF Abstract!vars
<1>7. CASE TablesNext
  <2>1. PICK k \in Keys : \/ map_get(k)
                         \/ map_remove(k)
                         \/ \E v \in Values, overwrite \in MayOverwrite[flavour] : map_set(k, v, overwrite)
    BY <1>7, Zenon DEF TablesNext
  <2>. QED  BY <1>3, <1>4, <1>5, <2>1, Zenon DEF Abstract!Next, Abstract!MayOverwrite, MayOverwrite
<1>. QED  BY <1>6, <1>7, Zenon

\* The invariant of the hash tables: no key twice, every key reached from its
\* hash, counts that leave room (bcmap.c, bbb_hashtable.h, base.c).
THEOREM HashInvariance ==
  ASSUME TableConstants
  PROVE  TablesSpec => []HashInv
<1>1. TablesInit => HashInv
  BY HashInit, Zenon
<1>2. HashInv /\ [TablesNext]_entries => HashInv'
  BY HashStep, Zenon
<1>. QED  BY <1>1, <1>2, PTL DEF TablesSpec

\* The tables implement a plain map: whatever the keys hash to, whatever was
\* removed before and whenever they grow, set, get and remove have the effect
\* and the answer they would have on one (bcmap.c, bbb_hashtable.h, base.c).
THEOREM TablesAreMaps ==
  ASSUME TableConstants
  PROVE  TablesSpec => ImplementsMap
<1>1. TablesInit => Abstract!Init
  <2>. SUFFICES ASSUME TablesInit PROVE Abstract!Init
    OBVIOUS
  <2>. DEFINE cap == IF flavour = "names" THEN InitCapacity ELSE 0
  <2>1. cap \in Nat
    BY DEF TableConstants
  <2>2. table = EmptyTable(cap) /\ flavour \in {"map", "set", "names"} /\ ret = NoValue
    BY Zenon DEF TablesInit
  <2>. HIDE DEF cap
  <2>3. TableOK(EmptyTable(cap)) /\ DOMAIN Entries(EmptyTable(cap)) = {}
    BY <2>1, FreshIsEmpty, Zenon
  <2>4. Entries(EmptyTable(cap)) = [x \in DOMAIN Entries(EmptyTable(cap)) |-> Entries(EmptyTable(cap))[x]]
    BY <2>3, EntriesAre, Zenon DEF TableOK
  <2>5. Entries(EmptyTable(cap)) = [x \in {} |-> NoValue]
    BY <2>3, <2>4
  <2>. QED  BY <2>2, <2>5, Zenon DEF Abstract!Init
<1>2. HashInv /\ [TablesNext]_entries => [Abstract!Next]_(Abstract!vars)
  BY HashStep, Zenon
<1>. QED  BY <1>1, <1>2, HashInvariance, PTL DEF TablesSpec, ImplementsMap, Abstract!Spec

(***************************************************************************)
(* The os package.  w is any world, p the name of one of its FILEs.        *)
(***************************************************************************)
FileNames == {"io", "out"}
\* The characters of files, with the ones the model adds.
Bytes == STRING \cup {"hole", "absent"}
FileRecords ==
  [mode : {"closed", "rb", "wb", "ab", "r+b"}, pos : Nat, pending : Seq(Bytes), eof : BOOLEAN, err : BOOLEAN]
IsWorld(w) ==
  /\ w = [content |-> w.content, dir |-> w.dir, fp |-> w.fp, ret |-> w.ret]
  /\ w.content \in [FileNames -> Seq(Bytes)] /\ w.fp \in [FileNames -> FileRecords] /\ w.dir \in Seq(STRING)
\* v is a world in which only the FILE p and what it is open on may differ from w.
UsesOnly(w, v, p) ==
  IsWorld(v) /\ v.dir = w.dir /\ \A q \in FileNames \ {p} : v.content[q] = w.content[q] /\ v.fp[q] = w.fp[q]

\* A world in which a FILE was used is a world, and the other FILE is as it was.
LEMMA UsedWorld ==
  ASSUME NEW w, IsWorld(w), NEW p \in FileNames, NEW c \in Seq(Bytes), NEW f \in FileRecords, NEW r
  PROVE  /\ UsesOnly(w, Used(w, p, c, f, r), p) /\ Used(w, p, c, f, r).content[p] = c
         /\ Used(w, p, c, f, r).fp[p] = f /\ Used(w, p, c, f, r).ret = r
BY DEF UsesOnly, Used, IsWorld

\* A step from w to v and one from v to u are a step from w to u.
LEMMA UsesBoth ==
  ASSUME NEW w, NEW v, NEW u, NEW p \in FileNames, UsesOnly(w, v, p), UsesOnly(v, u, p)
  PROVE  UsesOnly(w, u, p)
BY DEF UsesOnly

\* A call that only returns something leaves the FILEs alone.
LEMMA ReturnsWorld ==
  ASSUME NEW w, IsWorld(w), NEW r
  PROVE  /\ IsWorld(Returns(w, r)) /\ Returns(w, r).content = w.content /\ Returns(w, r).fp = w.fp /\ Returns(w, r).ret = r
         /\ \A p \in FileNames : UsesOnly(w, Returns(w, r), p)
<1>. DEFINE v == [content |-> w.content, dir |-> w.dir, fp |-> w.fp, ret |-> r]
<1>1. Returns(w, r) = v
  BY DEF IsWorld, Returns
<1>2. IsWorld(v) /\ v.content = w.content /\ v.fp = w.fp /\ v.ret = r /\ v.dir = w.dir
  BY DEF IsWorld
<1>. HIDE DEF v
<1>. QED  BY <1>1, <1>2 DEF UsesOnly

\* The parts of a FILE have their types.
LEMMA FileParts ==
  ASSUME NEW w, IsWorld(w), NEW p \in FileNames
  PROVE  /\ w.fp[p] \in FileRecords /\ w.content[p] \in Seq(Bytes) /\ Len(w.content[p]) \in Nat
         /\ w.fp[p].pos \in Nat /\ w.fp[p].pending \in Seq(Bytes) /\ Len(w.fp[p].pending) \in Nat
         /\ w.fp[p].eof \in BOOLEAN /\ w.fp[p].err \in BOOLEAN
         /\ Where(w, p) \in Nat
<1>1. w.fp[p] \in FileRecords /\ w.content[p] \in Seq(Bytes)
  BY DEF IsWorld
<1>. QED  BY <1>1 DEF FileRecords, Where

\* A FILE with other fields.
LEMMA FileChanges ==
  ASSUME NEW f \in FileRecords, NEW at \in Nat, NEW b \in BOOLEAN, NEW s \in Seq(Bytes)
  PROVE  /\ [f EXCEPT !.pos = at, !.eof = b] \in FileRecords /\ [f EXCEPT !.pos = at, !.pending = s] \in FileRecords
         /\ [f EXCEPT !.pending = s, !.err = b] \in FileRecords /\ [f EXCEPT !.err = b] \in FileRecords
         /\ [f EXCEPT !.pending = s] \in FileRecords
BY DEF FileRecords

\* A FILE that was just opened is at its start and has seen no end.
LEMMA NewFile ==
  Closed \in FileRecords /\ \A m \in {"rb", "wb", "ab", "r+b"} : File(m) \in FileRecords /\ File(m).mode = m
                               /\ File(m).pos = 0 /\ File(m).pending = << >> /\ File(m).eof = FALSE
<1>1. << >> \in Seq(Bytes) /\ 0 \in Nat /\ FALSE \in BOOLEAN
  OBVIOUS
<1>2. \A s \in Seq(Bytes), b \in BOOLEAN : [mode |-> "closed", pos |-> 0, pending |-> s, eof |-> b, err |-> b] \in FileRecords
  BY DEF FileRecords
<1>3. Closed \in FileRecords
  BY <1>1, <1>2 DEF Closed
<1>4. \A f \in FileRecords, m \in {"rb", "wb", "ab", "r+b"} :
        LET g == [f EXCEPT !.mode = m]
        IN  g \in FileRecords /\ g.mode = m /\ g.pos = f.pos /\ g.pending = f.pending /\ g.eof = f.eof
  BY DEF FileRecords
<1>5. Closed.pos = 0 /\ Closed.pending = << >> /\ Closed.eof = FALSE
  BY DEF Closed
<1>. QED  BY <1>3, <1>4, <1>5 DEF File

\* Writing into a file leaves a text, with holes where nothing was written.
LEMMA OverwrittenText ==
  ASSUME NEW old \in Seq(Bytes), NEW at \in Nat, NEW new \in Seq(Bytes)
  PROVE  Overwritten(old, at, new) \in Seq(Bytes)
<1>. DEFINE n == IF at + Len(new) > Len(old) THEN at + Len(new) ELSE Len(old)
            x(i) == IF i > at /\ i <= at + Len(new) THEN new[i - at] ELSE IF i <= Len(old) THEN old[i] ELSE "hole"
<1>1. n \in Nat
  OBVIOUS
<1>2. \A i \in 1 .. n : x(i) \in Bytes
  <2>. TAKE i \in 1 .. n
  <2>1. CASE i > at /\ i <= at + Len(new)
    <3>1. i - at \in 1 .. Len(new)
      BY <2>1
    <3>2. new[i - at] \in Bytes
      BY <3>1, ElementOfSeq
    <3>. QED  BY <2>1, <3>2
  <2>2. CASE ~(i > at /\ i <= at + Len(new))
    <3>1. i <= Len(old) => old[i] \in Bytes
      BY ElementOfSeq
    <3>2. "hole" \in Bytes
      BY DEF Bytes
    <3>3. CASE i <= Len(old)
      BY <2>2, <3>1, <3>3
    <3>4. CASE ~(i <= Len(old))
      BY <2>2, <3>2, <3>4
    <3>. QED  BY <3>3, <3>4
  <2>. QED  BY <2>1, <2>2
<1>3. Overwritten(old, at, new) = [i \in 1 .. n |-> x(i)]
  BY DEF Overwritten
<1>. HIDE DEF n, x
<1>4. [i \in 1 .. n |-> x(i)] \in Seq(Bytes)
  BY <1>1, <1>2
<1>. QED  BY <1>3, <1>4

\* Flushing uses the FILE alone, and does nothing when nothing waits in it.
LEMMA FlushedWorld ==
  ASSUME NEW w, IsWorld(w), NEW p \in FileNames
  PROVE  UsesOnly(w, Flushed(w, p), p) /\ (w.fp[p].pending = << >> => Flushed(w, p) = w)
<1>1. CASE w.fp[p].pending = << >>
  BY <1>1 DEF Flushed, UsesOnly
<1>0. << >> \in Seq(Bytes) /\ TRUE \in BOOLEAN
  OBVIOUS
<1>2. CASE w.fp[p].pending # << >> /\ CanFlush(w, p)
  <2>. DEFINE at == Where(w, p) + Len(w.fp[p].pending)
              c == Overwritten(w.content[p], Where(w, p), w.fp[p].pending)
              f == [w.fp[p] EXCEPT !.pos = at, !.pending = << >>]
  <2>1. c \in Seq(Bytes)
    BY FileParts, OverwrittenText
  <2>2. at \in Nat
    <3>1. \A a, b \in Nat : a + b \in Nat
      OBVIOUS
    <3>. QED  BY <3>1, FileParts, Zenon
  <2>3. Flushed(w, p) = Used(w, p, c, f, w.ret)
    BY <1>2 DEF Flushed
  <2>. HIDE DEF at, c
  <2>4. f \in FileRecords
    BY <1>0, <2>2, FileParts, FileChanges
  <2>. HIDE DEF f
  <2>. QED  BY <1>2, <2>1, <2>3, <2>4, UsedWorld
<1>3. CASE w.fp[p].pending # << >> /\ ~CanFlush(w, p)
  <2>. DEFINE f == [w.fp[p] EXCEPT !.pending = << >>, !.err = TRUE]
  <2>1. f \in FileRecords /\ w.content[p] \in Seq(Bytes)
    BY <1>0, FileParts, FileChanges
  <2>2. Flushed(w, p) = Used(w, p, w.content[p], f, w.ret)
    BY <1>3 DEF Flushed
  <2>. HIDE DEF f
  <2>. QED  BY <1>3, <2>1, <2>2, UsedWorld
<1>. QED  BY <1>1, <1>2, <1>3

\* The same of fflush.
LEMMA FlushWorld ==
  ASSUME NEW w, IsWorld(w), NEW p \in FileNames
  PROVE  /\ UsesOnly(w, fflush(w, p), p)
         /\ w.fp[p].pending = << >> => fflush(w, p).content = w.content /\ fflush(w, p).fp = w.fp
<1>. DEFINE v == Flushed(w, p)
            r == IF CanFlush(w, p) THEN 0 ELSE Error
<1>1. UsesOnly(w, v, p) /\ (w.fp[p].pending = << >> => v = w) /\ fflush(w, p) = Returns(v, r)
  BY FlushedWorld DEF fflush
<1>. HIDE DEF v, r
<1>2. IsWorld(v)
  BY <1>1 DEF UsesOnly
<1>. QED  BY <1>1, <1>2, ReturnsWorld, UsesBoth

\* Closing uses the FILE alone.
LEMMA CloseWorld ==
  ASSUME NEW w, IsWorld(w), NEW p \in FileNames
  PROVE  UsesOnly(w, fclose(w, p), p)
<1>. DEFINE v == fflush(w, p)
<1>1. UsesOnly(w, v, p) /\ fclose(w, p) = Used(v, p, v.content[p], Closed, v.ret)
  BY FlushWorld DEF fclose
<1>. HIDE DEF v
<1>2. IsWorld(v) /\ Closed \in FileRecords /\ v.content[p] \in Seq(Bytes)
  BY <1>1, FileParts, NewFile DEF UsesOnly
<1>. QED  BY <1>1, <1>2, UsedWorld, UsesBoth

\* Opening uses the FILE alone; a file opened for reading is at its start.
LEMMA OpenWorld ==
  ASSUME NEW w, IsWorld(w), NEW mode \in {"rb", "wb", "ab", "r+b"}
  PROVE  /\ UsesOnly(w, fopen(w, mode), "io")
         /\ fopen(w, mode).ret # "none" /\ mode = "rb" => fopen(w, mode).fp["io"] = File("rb")
<1>0. File(mode) \in FileRecords /\ "io" \in FileNames /\ << >> \in Seq(Bytes) /\ w.content["io"] \in Seq(Bytes)
  <2>1. "io" \in FileNames /\ << >> \in Seq(Bytes)
    BY DEF FileNames
  <2>. QED  BY <2>1, FileParts, NewFile
<1>1. CASE mode \in {"rb", "r+b"} /\ w.content["io"] = Absent
  <2>1. fopen(w, mode) = Returns(w, "none")
    BY <1>1 DEF fopen
  <2>. QED  BY <1>0, <2>1, ReturnsWorld
<1>2. CASE ~(mode \in {"rb", "r+b"} /\ w.content["io"] = Absent) /\ (mode = "wb" \/ w.content["io"] = Absent)
  <2>1. fopen(w, mode) = Used(w, "io", << >>, File(mode), "io")
    BY <1>2 DEF fopen
  <2>2. mode # "rb"
    BY <1>2
  <2>3. UsesOnly(w, Used(w, "io", << >>, File(mode), "io"), "io")
    BY <1>0, UsedWorld, Zenon
  <2>. QED  BY <2>1, <2>2, <2>3
<1>3. CASE ~(mode \in {"rb", "r+b"} /\ w.content["io"] = Absent) /\ ~(mode = "wb" \/ w.content["io"] = Absent)
  <2>1. fopen(w, mode) = Used(w, "io", w.content["io"], File(mode), "io")
    BY <1>3 DEF fopen
  <2>. QED  BY <1>0, <2>1, UsedWorld
<1>. QED  BY <1>1, <1>2, <1>3

\* Writing uses the FILE alone.
LEMMA WriteWorld ==
  ASSUME NEW w, IsWorld(w), NEW p \in FileNames, NEW text \in Seq(Bytes)
  PROVE  UsesOnly(w, fwrite(w, p, text), p)
<1>0. w.content[p] \in Seq(Bytes) /\ w.fp[p] \in FileRecords /\ w.fp[p].pending \o text \in Seq(Bytes) /\ TRUE \in BOOLEAN
  BY FileParts
<1>1. CASE w.fp[p].mode = "rb"
  <2>. DEFINE f == [w.fp[p] EXCEPT !.err = TRUE]
  <2>1. f \in FileRecords /\ fwrite(w, p, text) = Used(w, p, w.content[p], f, 0)
    BY <1>0, <1>1, FileChanges DEF fwrite
  <2>. HIDE DEF f
  <2>. QED  BY <1>0, <2>1, UsedWorld
<1>2. CASE w.fp[p].mode # "rb"
  <2>. DEFINE f == [w.fp[p] EXCEPT !.pending = w.fp[p].pending \o text]
  <2>1. f \in FileRecords /\ fwrite(w, p, text) = Used(w, p, w.content[p], f, Len(text))
    BY <1>0, <1>2, FileChanges DEF fwrite
  <2>. HIDE DEF f
  <2>. QED  BY <1>0, <2>1, UsedWorld
<1>. QED  BY <1>1, <1>2

\* A FILE that is not open for reading remembers that it was read.
LEMMA UnreadableWorld ==
  ASSUME NEW w, IsWorld(w), NEW p \in FileNames
  PROVE  UsesOnly(w, Used(w, p, w.content[p], [w.fp[p] EXCEPT !.err = TRUE], << >>), p)
<1>. DEFINE f == [w.fp[p] EXCEPT !.err = TRUE]
<1>1. f \in FileRecords /\ w.content[p] \in Seq(Bytes)
  BY FileParts, FileChanges
<1>. HIDE DEF f
<1>2. UsesOnly(w, Used(w, p, w.content[p], f, << >>), p)
  BY <1>1, UsedWorld
<1>. QED  BY <1>2 DEF f

\* Reading moves the FILE on, after what waited in it was flushed.
LEMMA MovedWorld ==
  ASSUME NEW w0, IsWorld(w0), NEW p \in FileNames, NEW at \in Nat, NEW b \in BOOLEAN, NEW r
  PROVE  LET w == Flushed(w0, p) IN UsesOnly(w0, Used(w, p, w.content[p], [w.fp[p] EXCEPT !.pos = at, !.eof = b], r), p)
<1>. DEFINE w == Flushed(w0, p)
            f == [w.fp[p] EXCEPT !.pos = at, !.eof = b]
<1>1. UsesOnly(w0, w, p)
  BY FlushedWorld
<1>. HIDE DEF w
<1>2. IsWorld(w) /\ w.content[p] \in Seq(Bytes) /\ f \in FileRecords
  BY <1>1, FileParts, FileChanges DEF UsesOnly
<1>. HIDE DEF f
<1>3. UsesOnly(w0, Used(w, p, w.content[p], f, r), p)
  BY <1>1, <1>2, UsedWorld, UsesBoth
<1>. QED  BY <1>3 DEF f, w

\* What is left of a text after a position, if anything is.
LEMMA AheadText ==
  ASSUME NEW s \in Seq(Bytes), NEW at \in Nat
  PROVE  /\ SubSeq(s, at + 1, Len(s)) \in Seq(Bytes)
         /\ Len(SubSeq(s, at + 1, Len(s))) = IF at <= Len(s) THEN Len(s) - at ELSE 0
         /\ \A i \in 1 .. Len(s) - at : SubSeq(s, at + 1, Len(s))[i] = s[at + i]
<1>1. \A i \in at + 1 .. Len(s) : s[i] \in Bytes
  BY ElementOfSeq
<1>2. at + 1 \in Int /\ Len(s) \in Int
  OBVIOUS
<1>3. /\ SubSeq(s, at + 1, Len(s)) \in Seq(Bytes)
      /\ Len(SubSeq(s, at + 1, Len(s))) = IF at + 1 <= Len(s) THEN Len(s) - (at + 1) + 1 ELSE 0
      /\ \A i \in 1 .. Len(s) - (at + 1) + 1 : SubSeq(s, at + 1, Len(s))[i] = s[at + 1 + i - 1]
  BY <1>1, <1>2, SubSeqProperties
<1>. QED  BY <1>3

\* Reading uses the FILE alone.
LEMMA ReadWorld ==
  ASSUME NEW w0, IsWorld(w0), NEW p \in FileNames, NEW n \in Nat
  PROVE  UsesOnly(w0, fread(w0, p, n), p)
<1>1. CASE ~Readable(w0, p)
  BY <1>1, UnreadableWorld DEF fread
<1>2. CASE Readable(w0, p)
  <2>. DEFINE w == Flushed(w0, p)
              some == Ahead(w, p)
              k == IF n <= Len(some) THEN n ELSE Len(some)
              at == w.fp[p].pos + k
              b == w.fp[p].eof \/ k < n
  <2>1. fread(w0, p, n) = Used(w, p, w.content[p], [w.fp[p] EXCEPT !.pos = at, !.eof = b], SubSeq(some, 1, k))
    BY <1>2 DEF fread
  <2>2. w.fp[p].pos \in Nat /\ w.content[p] \in Seq(Bytes) /\ b \in BOOLEAN
    BY FlushedWorld, FileParts DEF UsesOnly
  <2>3. Len(some) \in Nat
    <3>1. some = SubSeq(w.content[p], w.fp[p].pos + 1, Len(w.content[p]))
      BY DEF Ahead
    <3>. HIDE DEF some, w
    <3>2. some \in Seq(Bytes)
      BY <2>2, <3>1, AheadText
    <3>. QED  BY <3>2
  <2>4. at \in Nat
    <3>. HIDE DEF some, w
    <3>. QED  BY <2>2, <2>3
  <2>. HIDE DEF at, b
  <2>5. UsesOnly(w0, Used(w, p, w.content[p], [w.fp[p] EXCEPT !.pos = at, !.eof = b], SubSeq(some, 1, k)), p)
    BY <2>2, <2>4, MovedWorld
  <2>. QED  BY <2>1, <2>5
<1>. QED  BY <1>1, <1>2

\* Seeking uses the FILE alone.
LEMMA SeekWorld ==
  ASSUME NEW w0, IsWorld(w0), NEW p \in FileNames, NEW offset \in Int, NEW base
  PROVE  UsesOnly(w0, fseek(w0, p, offset, base), p)
<1>. DEFINE w == Flushed(w0, p)
            to == offset + (CASE base = "set" -> 0 [] base = "cur" -> Where(w, p) [] OTHER -> Len(w.content[p]))
<1>1. UsesOnly(w0, w, p) /\ IsWorld(w)
  BY FlushedWorld DEF UsesOnly
<1>2. fseek(w0, p, offset, base) = IF ~Seekable(p) \/ ~CanFlush(w0, p) \/ to < 0 THEN Returns(w, Error)
                                   ELSE Used(w, p, w.content[p], [w.fp[p] EXCEPT !.pos = to, !.eof = FALSE], 0)
  BY DEF fseek
<1>3. to \in Int
  <2>1. Where(w, p) \in Nat /\ Len(w.content[p]) \in Nat
    BY <1>1, FileParts
  <2>. HIDE DEF w
  <2>. QED  BY <2>1
<1>. HIDE DEF to
<1>4. CASE ~Seekable(p) \/ ~CanFlush(w0, p) \/ to < 0
  <2>. HIDE DEF w
  <2>. QED  BY <1>1, <1>2, <1>4, ReturnsWorld, UsesBoth
<1>5. CASE ~(~Seekable(p) \/ ~CanFlush(w0, p) \/ to < 0)
  <2>1. to \in Nat /\ FALSE \in BOOLEAN
    BY <1>3, <1>5
  <2>2. UsesOnly(w0, Used(w, p, w.content[p], [w.fp[p] EXCEPT !.pos = to, !.eof = FALSE], 0), p)
    BY <2>1, MovedWorld
  <2>. QED  BY <1>2, <1>5, <2>2
<1>. QED  BY <1>4, <1>5

-----------------------------------------------------------------------------
\* A line ends at the next new line, or at the end.
LEMMA UpToLine ==
  ASSUME NEW s \in Seq(Bytes)
  PROVE  \/ UpTo(s) \in 1 .. Len(s) /\ s[UpTo(s)] = "\n" /\ \A j \in 1 .. UpTo(s) - 1 : s[j] # "\n"
         \/ UpTo(s) = Len(s) /\ \A j \in 1 .. Len(s) : s[j] # "\n"
<1>0. Len(s) \in Nat /\ DOMAIN s = 1 .. Len(s)
  OBVIOUS
<1>1. CASE "\n" \in Range(s)
  <2>. DEFINE S == { i \in 1 .. Len(s) : s[i] = "\n" }
  <2>1. S \in SUBSET Nat /\ S # {}
    BY <1>0, <1>1 DEF Range
  <2>2. Min(S) \in S /\ \A m \in S : Min(S) <= m
    BY <2>1, MinIsLeast
  <2>3. \E i \in DOMAIN s : s[i] = "\n" /\ \A j \in 1 .. i - 1 : s[j] # "\n"
    <3>1. Min(S) \in 1 .. Len(s) /\ s[Min(S)] = "\n"
      BY <2>2
    <3>2. \A j \in 1 .. Min(S) - 1 : s[j] # "\n"
      <4>. TAKE j \in 1 .. Min(S) - 1
      <4>1. j \in 1 .. Len(s) /\ ~(Min(S) <= j)
        BY <1>0, <3>1
      <4>2. j \notin S
        BY <2>2, <4>1
      <4>. QED  BY <4>1, <4>2
    <3>. HIDE DEF S
    <3>. QED  BY <1>0, <3>1, <3>2
  <2>4. UpTo(s) = CHOOSE i \in DOMAIN s : s[i] = "\n" /\ \A j \in 1 .. i - 1 : s[j] # "\n"
    BY <1>1 DEF UpTo
  <2>5. UpTo(s) \in DOMAIN s /\ s[UpTo(s)] = "\n" /\ \A j \in 1 .. UpTo(s) - 1 : s[j] # "\n"
    BY <2>3, <2>4, Zenon
  <2>. QED  BY <1>0, <2>5
<1>2. CASE "\n" \notin Range(s)
  BY <1>0, <1>2 DEF UpTo, Range
<1>. QED  BY <1>1, <1>2

\* A piece of what is left of a text is a piece of the text.
LEMMA PieceAhead ==
  ASSUME NEW s \in Seq(Bytes), NEW at \in 0 .. Len(s), NEW k \in 0 .. Len(s) - at
  PROVE  SubSeq(SubSeq(s, at + 1, Len(s)), 1, k) = SubSeq(s, at + 1, at + k)
<1>. DEFINE t == SubSeq(s, at + 1, Len(s))
<1>1. Len(s) \in Nat /\ at \in Nat /\ at <= Len(s)
  OBVIOUS
<1>2. t \in Seq(Bytes) /\ Len(t) = Len(s) - at /\ \A i \in 1 .. Len(s) - at : t[i] = s[at + i]
  BY <1>1, AheadText
<1>. HIDE DEF t
<1>3. \A i \in 1 .. k : t[i] \in Bytes
  BY <1>1, <1>2, ElementOfSeq
<1>4. \A i \in at + 1 .. at + k : s[i] \in Bytes
  BY <1>1, ElementOfSeq
<1>5. /\ SubSeq(t, 1, k) \in Seq(Bytes) /\ Len(SubSeq(t, 1, k)) = IF 1 <= k THEN k - 1 + 1 ELSE 0
      /\ \A i \in 1 .. k - 1 + 1 : SubSeq(t, 1, k)[i] = t[1 + i - 1]
  BY <1>1, <1>3, SubSeqProperties
<1>6. /\ SubSeq(s, at + 1, at + k) \in Seq(Bytes)
      /\ Len(SubSeq(s, at + 1, at + k)) = IF at + 1 <= at + k THEN at + k - (at + 1) + 1 ELSE 0
      /\ \A i \in 1 .. at + k - (at + 1) + 1 : SubSeq(s, at + 1, at + k)[i] = s[at + 1 + i - 1]
  BY <1>1, <1>4, SubSeqProperties
<1>7. k \in Nat /\ Len(SubSeq(t, 1, k)) = k /\ Len(SubSeq(s, at + 1, at + k)) = k
  BY <1>1, <1>5, <1>6
<1>8. \A i \in 1 .. k : SubSeq(t, 1, k)[i] = SubSeq(s, at + 1, at + k)[i]
  <2>. TAKE i \in 1 .. k
  <2>1. SubSeq(t, 1, k)[i] = t[i] /\ SubSeq(s, at + 1, at + k)[i] = s[at + i] /\ t[i] = s[at + i]
    BY <1>1, <1>2, <1>5, <1>6, <1>7
  <2>. QED  BY <2>1
<1>. HIDE DEF t
<1>9. SubSeq(t, 1, k) = SubSeq(s, at + 1, at + k)
  BY <1>5, <1>6, <1>7, <1>8, SeqEqual
<1>. QED  BY <1>9 DEF t

\* What reading a line from a FILE open for reading does: it takes the
\* characters up to the next new line, or all that is left and sees the end.
LineEndsAt(w, v, q) ==
  LET s == w.content["io"]
      at == w.fp["io"].pos
  IN  /\ q \in at + 1 .. Len(s) /\ s[q] = "\n" /\ \A j \in at + 1 .. q - 1 : s[j] # "\n"
      /\ v.fp["io"].pos = q /\ v.fp["io"].eof = w.fp["io"].eof /\ v.ret = SubSeq(s, at + 1, q - 1)
LastLine(w, v) ==
  LET s == w.content["io"]
      at == w.fp["io"].pos
  IN  /\ \A j \in at + 1 .. Len(s) : s[j] # "\n"
      /\ v.fp["io"].pos = Len(s) /\ v.fp["io"].eof = TRUE /\ v.ret = SubSeq(s, at + 1, Len(s))
\* Reading a line uses the FILE alone.
LEMMA GetLineWorld ==
  ASSUME NEW w0, IsWorld(w0), NEW p \in FileNames
  PROVE  UsesOnly(w0, GetLine(w0, p), p)
<1>1. CASE ~Readable(w0, p)
  BY <1>1, UnreadableWorld DEF GetLine
<1>2. CASE Readable(w0, p)
  <2>. DEFINE w == Flushed(w0, p)
              some == Ahead(w, p)
              n == UpTo(some)
              nl == n > 0 /\ some[n] = "\n"
              at == w.fp[p].pos + n
              b == w.fp[p].eof \/ ~nl
              r == SubSeq(some, 1, IF nl THEN n - 1 ELSE n)
  <2>1. GetLine(w0, p) = Used(w, p, w.content[p], [w.fp[p] EXCEPT !.pos = at, !.eof = b], r)
    BY <1>2 DEF GetLine
  <2>2. w.fp[p].pos \in Nat /\ w.content[p] \in Seq(Bytes)
    BY FlushedWorld, FileParts DEF UsesOnly
  <2>3. some \in Seq(Bytes)
    BY <2>2, AheadText DEF Ahead
  <2>4. n \in Nat
    <3>1. Len(some) \in Nat
      BY <2>3
    <3>. QED  BY <2>3, <3>1, UpToLine
  <2>5. at \in Nat /\ b \in BOOLEAN
    <3>. HIDE DEF n, w
    <3>. QED  BY <2>2, <2>4
  <2>. HIDE DEF at, b, r
  <2>6. UsesOnly(w0, Used(w, p, w.content[p], [w.fp[p] EXCEPT !.pos = at, !.eof = b], r), p)
    BY <2>5, MovedWorld
  <2>. QED  BY <2>1, <2>6
<1>. QED  BY <1>1, <1>2

\* Reading a line of a file open for reading does one or the other.
LEMMA LineRead ==
  ASSUME NEW w, IsWorld(w), w.fp["io"].mode = "rb", w.fp["io"].pending = << >>, w.fp["io"].pos <= Len(w.content["io"])
  PROVE  LET v == GetLine(w, "io")
         IN  /\ v.content["io"] = w.content["io"] /\ v.fp["io"].mode = "rb" /\ v.fp["io"].pending = << >>
             /\ (\E q \in Nat : LineEndsAt(w, v, q)) \/ LastLine(w, v)
<1>. DEFINE s == w.content["io"]
            f == w.fp["io"]
            some == SubSeq(s, f.pos + 1, Len(s))
            n == UpTo(some)
            nl == n > 0 /\ some[n] = "\n"
            at == f.pos + n
            b == f.eof \/ ~nl
            r == SubSeq(some, 1, IF nl THEN n - 1 ELSE n)
            g == [f EXCEPT !.pos = at, !.eof = b]
            v == Used(w, "io", s, g, r)
<1>0. "io" \in FileNames
  BY DEF FileNames
<1>1. Flushed(w, "io") = w /\ Readable(w, "io")
  BY <1>0, FlushedWorld DEF Readable
<1>2. GetLine(w, "io") = v
  BY <1>1 DEF GetLine, Ahead
<1>3. s \in Seq(Bytes) /\ Len(s) \in Nat /\ f \in FileRecords /\ f.pos \in Nat /\ f.eof \in BOOLEAN /\ f.pos <= Len(s)
  BY <1>0, FileParts
<1>. HIDE DEF s, f
<1>4. some \in Seq(Bytes) /\ Len(some) = Len(s) - f.pos /\ \A i \in 1 .. Len(s) - f.pos : some[i] = s[f.pos + i]
  BY <1>3, AheadText
<1>. HIDE DEF some
<1>5. /\ n \in Nat /\ n <= Len(some)
      /\ \/ nl /\ \A j \in 1 .. n - 1 : some[j] # "\n"
         \/ ~nl /\ n = Len(some) /\ \A j \in 1 .. Len(some) : some[j] # "\n"
  <2>0. Len(some) \in Nat
    BY <1>4
  <2>. HIDE DEF n
  <2>1. \/ n \in 1 .. Len(some) /\ some[n] = "\n" /\ \A j \in 1 .. n - 1 : some[j] # "\n"
        \/ n = Len(some) /\ \A j \in 1 .. Len(some) : some[j] # "\n"
    BY <1>4, UpToLine DEF n
  <2>. QED  BY <2>0, <2>1
<1>. HIDE DEF n
<1>6. at \in Nat /\ b \in BOOLEAN
  BY <1>3, <1>5
<1>7. g \in FileRecords /\ g.pos = at /\ g.eof = b /\ g.mode = f.mode /\ g.pending = f.pending
  <2>. HIDE DEF at, b
  <2>. QED  BY <1>3, <1>6 DEF FileRecords
<1>. HIDE DEF g
<1>8. v.content["io"] = s /\ v.fp["io"] = g /\ v.ret = r
  <2>. HIDE DEF r
  <2>. QED  BY <1>0, <1>3, <1>7, UsedWorld DEF s
<1>. HIDE DEF v
<1>9. CASE nl
  <2>1. at \in f.pos + 1 .. Len(s) /\ s[at] = "\n"
    BY <1>3, <1>4, <1>5, <1>9
  <2>2. \A j \in f.pos + 1 .. at - 1 : s[j] # "\n"
    <3>. TAKE j \in f.pos + 1 .. at - 1
    <3>0. f.pos \in Nat /\ n \in Nat /\ Len(s) \in Nat /\ f.pos <= Len(s) /\ n <= Len(s) - f.pos
      BY <1>3, <1>4, <1>5
    <3>1. j - f.pos \in 1 .. n - 1 /\ j - f.pos \in 1 .. Len(s) - f.pos /\ f.pos + (j - f.pos) = j
      BY <3>0
    <3>2. \A i \in 1 .. n - 1 : some[i] # "\n"
      BY <1>5, <1>9
    <3>. QED  BY <1>4, <3>1, <3>2
  <2>3. b = f.eof
    BY <1>3, <1>9
  <2>4. r = SubSeq(s, f.pos + 1, at - 1)
    <3>1. n - 1 \in 0 .. Len(s) - f.pos /\ f.pos \in 0 .. Len(s) /\ f.pos + (n - 1) = at - 1
      BY <1>3, <1>4, <1>5, <1>9
    <3>2. SubSeq(some, 1, n - 1) = SubSeq(s, f.pos + 1, f.pos + (n - 1))
      BY <1>3, <3>1, PieceAhead DEF some
    <3>3. r = SubSeq(some, 1, n - 1)
      BY <1>9
    <3>. QED  BY <3>1, <3>2, <3>3
  <2>. HIDE DEF at, b, r
  <2>5. LineEndsAt(w, v, at)
    BY <1>7, <1>8, <2>1, <2>2, <2>3, <2>4 DEF LineEndsAt, s, f
  <2>. QED  BY <1>2, <1>6, <1>7, <1>8, <2>5 DEF s, f
<1>10. CASE ~nl
  <2>1. at = Len(s) /\ b = TRUE
    BY <1>3, <1>4, <1>5, <1>10
  <2>2. \A j \in f.pos + 1 .. Len(s) : s[j] # "\n"
    <3>. TAKE j \in f.pos + 1 .. Len(s)
    <3>1. j - f.pos \in 1 .. Len(some) /\ j - f.pos \in 1 .. Len(s) - f.pos /\ f.pos + (j - f.pos) = j
      BY <1>3, <1>4
    <3>2. \A i \in 1 .. Len(some) : some[i] # "\n"
      BY <1>5, <1>10
    <3>. QED  BY <1>4, <3>1, <3>2
  <2>4. r = SubSeq(s, f.pos + 1, Len(s))
    <3>1. n \in 0 .. Len(s) - f.pos /\ f.pos \in 0 .. Len(s) /\ f.pos + n = Len(s)
      BY <1>3, <1>4, <1>5, <1>10
    <3>2. SubSeq(some, 1, n) = SubSeq(s, f.pos + 1, f.pos + n)
      BY <1>3, <3>1, PieceAhead DEF some
    <3>3. r = SubSeq(some, 1, n)
      BY <1>10
    <3>. QED  BY <3>1, <3>2, <3>3
  <2>. HIDE DEF at, b, r
  <2>5. LastLine(w, v)
    BY <1>7, <1>8, <2>1, <2>2, <2>4 DEF LastLine, s, f
  <2>. QED  BY <1>2, <1>7, <1>8, <2>5 DEF s, f
<1>. QED  BY <1>9, <1>10

-----------------------------------------------------------------------------
\* g is defined step by step along a list.
Stepwise(g, V, n, b, step) == g \in [0 .. n -> V] /\ g[0] = b /\ \A i \in 1 .. n : g[i] = step[i][g[i - 1]]
\* There is such a function.
LEMMA StepByStep ==
  ASSUME NEW V, NEW n \in Nat, NEW b \in V, NEW step \in [1 .. n -> [V -> V]]
  PROVE  \E g : Stepwise(g, V, n, b, step)
<1>. DEFINE Is(g, k) == g \in [0 .. k -> V] /\ g[0] = b /\ \A i \in 1 .. k : g[i] = step[i][g[i - 1]]
            Bad == { k \in 0 .. n : ~ \E g : Is(g, k) }
<1>1. SUFFICES ASSUME Bad # {} PROVE FALSE
  <2>1. n \in 0 .. n
    OBVIOUS
  <2>2. \E g : Is(g, n)
    BY <1>1, <2>1
  <2>. QED  BY <2>2 DEF Stepwise
<1>2. Bad \in SUBSET Nat /\ Bad \subseteq 0 .. n
  OBVIOUS
<1>3. PICK k \in Bad : \A m \in Bad : k <= m
  <2>. HIDE DEF Bad
  <2>. QED  BY <1>1, <1>2, MinIsLeast
<1>4. k # 0
  <2>. DEFINE g == [i \in 0 .. 0 |-> b]
  <2>1. Is(g, 0)
    OBVIOUS
  <2>2. \E f : Is(f, 0)
    BY <2>1
  <2>. HIDE DEF Is
  <2>. QED  BY <1>3, <2>2
<1>5. k \in 1 .. n /\ k - 1 \in 0 .. n /\ k - 1 \notin Bad
  <2>. HIDE DEF Bad
  <2>. QED  BY <1>2, <1>3, <1>4
<1>6. PICK g : Is(g, k - 1)
  BY <1>5
<1>. DEFINE h == [i \in 0 .. k |-> IF i = k THEN step[k][g[k - 1]] ELSE g[i]]
<1>7. g[k - 1] \in V /\ step[k][g[k - 1]] \in V
  BY <1>5, <1>6
<1>8. h \in [0 .. k -> V]
  BY <1>5, <1>6, <1>7
<1>9. h[0] = b
  BY <1>4, <1>5, <1>6
<1>10. \A i \in 1 .. k : h[i] = step[i][h[i - 1]]
  <2>. TAKE i \in 1 .. k
  <2>1. CASE i = k
    <3>1. k - 1 \in 0 .. k /\ k - 1 # k /\ k \in 0 .. k
      BY <1>5
    <3>2. h[k] = step[k][g[k - 1]] /\ h[k - 1] = g[k - 1]
      BY <3>1
    <3>. HIDE DEF h
    <3>. QED  BY <2>1, <3>2
  <2>2. CASE i # k
    <3>1. i \in 1 .. k - 1 /\ i - 1 \in 0 .. k - 1 /\ i - 1 # k /\ i \in 0 .. k /\ i - 1 \in 0 .. k
      BY <1>5, <2>2
    <3>2. h[i] = g[i] /\ h[i - 1] = g[i - 1]
      BY <2>2, <3>1
    <3>. QED  BY <1>6, <3>1, <3>2
  <2>. QED  BY <2>1, <2>2
<1>11. Is(h, k)
  BY <1>8, <1>9, <1>10
<1>. HIDE DEF h, Is
<1>. QED  BY <1>3, <1>11

\* The two loops over a directory, entry by entry.
DirEntry == STRING \cup {""}
Buffers == [count : 0 .. ListDirMax, out : [1 .. ListDirMax -> DirEntry]]
PushNext(got, e) == IF Len(got) >= ListDirMax \/ e \in Dots THEN got ELSE Append(got, e)
FillNext(b, e) ==
  IF b.count >= ListDirMax \/ e \in Dots THEN b ELSE [count |-> b.count + 1, out |-> [b.out EXCEPT ![b.count + 1] = e]]

\* The vector and the filled part of the buffer are the same.
Alike(b, got) ==
  b \in Buffers /\ got \in Seq(DirEntry) /\ b.count = Len(got) /\ \A k \in 1 .. Len(got) : b.out[k] = got[k]
\* One more entry keeps them the same.
LEMMA NextAlike ==
  ASSUME NEW b, NEW got, Alike(b, got), NEW e \in DirEntry
  PROVE  Alike(FillNext(b, e), PushNext(got, e))
<1>0. ListDirMax \in Nat
  BY OsAssumption
<1>1. b.count \in 0 .. ListDirMax /\ b.out \in [1 .. ListDirMax -> DirEntry] /\ Len(got) \in Nat /\ b.count = Len(got)
  BY DEF Alike, Buffers
<1>2. CASE b.count >= ListDirMax \/ e \in Dots
  BY <1>1, <1>2 DEF FillNext, PushNext
<1>3. CASE ~(b.count >= ListDirMax \/ e \in Dots)
  <2>. DEFINE n == Len(got)
              o == [b.out EXCEPT ![n + 1] = e]
              t == Append(got, e)
  <2>1. n + 1 \in 0 .. ListDirMax /\ o \in [1 .. ListDirMax -> DirEntry] /\ n + 1 \in 1 .. ListDirMax
    BY <1>0, <1>1, <1>3
  <2>2. t \in Seq(DirEntry) /\ Len(t) = n + 1
    BY DEF Alike
  <2>3. \A k \in 1 .. n + 1 : o[k] = t[k]
    <3>. TAKE k \in 1 .. n + 1
    <3>1. CASE k = n + 1
      <4>1. o[n + 1] = e
        BY <1>1, <2>1
      <4>2. got \in Seq(DirEntry)
        BY DEF Alike
      <4>3. t[n + 1] = e
        BY <4>2
      <4>. QED  BY <3>1, <4>1, <4>3
    <3>2. CASE k # n + 1
      <4>1. k \in 1 .. n /\ k \in 1 .. ListDirMax
        BY <1>0, <1>1, <2>1, <3>2
      <4>2. o[k] = b.out[k] /\ t[k] = got[k]
        BY <1>1, <3>2, <4>1 DEF Alike
      <4>. QED  BY <4>1, <4>2 DEF Alike
    <3>. QED  BY <3>1, <3>2
  <2>4. FillNext(b, e) = [count |-> n + 1, out |-> o] /\ PushNext(got, e) = t
    BY <1>1, <1>3 DEF FillNext, PushNext
  <2>. HIDE DEF o, t
  <2>5. [count |-> n + 1, out |-> o] \in Buffers
    BY <2>1 DEF Buffers
  <2>. QED  BY <2>2, <2>3, <2>4, <2>5 DEF Alike
<1>. QED  BY <1>2, <1>3

NoneFilled == [count |-> 0, out |-> [k \in 1 .. ListDirMax |-> ""]]
\* They start the same.
LEMMA NoneAlike == Alike(NoneFilled, << >>)
<1>0. ListDirMax \in Nat
  BY OsAssumption
<1>1. [k \in 1 .. ListDirMax |-> ""] \in [1 .. ListDirMax -> DirEntry]
  BY DEF DirEntry
<1>2. NoneFilled \in Buffers /\ NoneFilled.count = 0
  <2>. DEFINE o == [k \in 1 .. ListDirMax |-> ""]
  <2>0. 0 \in 0 .. ListDirMax
    BY <1>0
  <2>1. o \in [1 .. ListDirMax -> DirEntry]
    BY <1>1
  <2>. HIDE DEF o
  <2>2. [count |-> 0, out |-> o] \in Buffers
    BY <2>0, <2>1 DEF Buffers
  <2>. QED  BY <2>2 DEF o, NoneFilled
<1>. QED  BY <1>2 DEF Alike

\* The vector after each entry.
LEMMA PushedSteps ==
  ASSUME NEW dir \in Seq(STRING)
  PROVE  Pushed(dir)[0] = << >> /\ \A i \in 1 .. Len(dir) : Pushed(dir)[i] = PushNext(Pushed(dir)[i - 1], dir[i])
<1>. DEFINE n == Len(dir)
            Is(g) == g = [i \in 0 .. n |-> IF i = 0 THEN << >> ELSE PushNext(g[i - 1], dir[i])]
            step == [i \in 1 .. n |-> [t \in Seq(DirEntry) |-> PushNext(t, dir[i])]]
<1>1. n \in Nat /\ << >> \in Seq(DirEntry)
  OBVIOUS
<1>2. \A i \in 1 .. n : dir[i] \in DirEntry
  BY ElementOfSeq DEF DirEntry
<1>3. step \in [1 .. n -> [Seq(DirEntry) -> Seq(DirEntry)]]
  <2>1. \A t \in Seq(DirEntry), e \in DirEntry : PushNext(t, e) \in Seq(DirEntry)
    BY DEF PushNext
  <2>2. \A i \in 1 .. n : \A t \in Seq(DirEntry) : PushNext(t, dir[i]) \in Seq(DirEntry)
    BY <1>2, <2>1
  <2>. QED  BY <2>2
<1>4. \A t \in Seq(DirEntry), i \in 1 .. n : step[i][t] = PushNext(t, dir[i])
  OBVIOUS
<1>. HIDE DEF step
<1>5. PICK g \in [0 .. n -> Seq(DirEntry)] : g[0] = << >> /\ \A i \in 1 .. n : g[i] = step[i][g[i - 1]]
  <2>. DEFINE V == Seq(DirEntry)
              b == << >>
  <2>1. b \in V /\ n \in Nat /\ step \in [1 .. n -> [V -> V]]
    BY <1>1, <1>3
  <2>. HIDE DEF n, V, b
  <2>2. \E g : Stepwise(g, V, n, b, step)
    BY <2>1, StepByStep
  <2>. QED  BY <2>2 DEF V, b, Stepwise
<1>6. \A i \in 1 .. n : i - 1 \in 0 .. n /\ i \in 0 .. n /\ i # 0
  BY <1>1
<1>7. \A i \in 0 .. n : g[i] = IF i = 0 THEN << >> ELSE PushNext(g[i - 1], dir[i])
  <2>1. \A i \in 1 .. n : g[i] = PushNext(g[i - 1], dir[i])
    BY <1>4, <1>5, <1>6
  <2>2. \A i \in 0 .. n : i = 0 \/ i \in 1 .. n
    BY <1>1
  <2>. QED  BY <1>5, <2>1, <2>2
<1>8. Is(g)
  <2>2. g = [i \in 0 .. n |-> g[i]]
    BY <1>5
  <2>. QED  BY <1>7, <2>2
<1>9. \A f : Is(f) => f[0] = << >> /\ \A i \in 1 .. n : f[i] = PushNext(f[i - 1], dir[i])
  BY <1>1, <1>6
<1>10. Pushed(dir) = CHOOSE f : Is(f)
  BY DEF Pushed, PushNext
<1>11. Is(Pushed(dir))
  <2>. HIDE DEF Is
  <2>. QED  BY <1>8, <1>10, Zenon
<1>. HIDE DEF Is
<1>. QED  BY <1>9, <1>11

\* The buffer after each entry.
LEMMA FilledSteps ==
  ASSUME NEW dir \in Seq(STRING)
  PROVE  Filled(dir)[0] = NoneFilled /\ \A i \in 1 .. Len(dir) : Filled(dir)[i] = FillNext(Filled(dir)[i - 1], dir[i])
<1>. DEFINE n == Len(dir)
            Is(g) == g = [i \in 0 .. n |-> IF i = 0 THEN NoneFilled ELSE FillNext(g[i - 1], dir[i])]
            step == [i \in 1 .. n |-> [t \in Buffers |-> FillNext(t, dir[i])]]
<1>1. n \in Nat /\ NoneFilled \in Buffers
  BY NoneAlike DEF Alike
<1>2. \A i \in 1 .. n : dir[i] \in DirEntry
  BY ElementOfSeq DEF DirEntry
<1>3. step \in [1 .. n -> [Buffers -> Buffers]]
  <2>1. \A b \in Buffers, e \in DirEntry : FillNext(b, e) \in Buffers
    <3>. TAKE b \in Buffers, e \in DirEntry
    <3>. DEFINE got == [k \in 1 .. b.count |-> b.out[k]]
    <3>1. ListDirMax \in Nat /\ b.count \in 0 .. ListDirMax /\ b.out \in [1 .. ListDirMax -> DirEntry]
      BY OsAssumption DEF Buffers
    <3>2. b.count \in Nat /\ \A k \in 1 .. b.count : k \in 1 .. ListDirMax /\ b.out[k] \in DirEntry
      BY <3>1
    <3>3. got \in Seq(DirEntry) /\ Len(got) = b.count /\ \A k \in 1 .. b.count : got[k] = b.out[k]
      BY <3>2
    <3>. HIDE DEF got
    <3>4. Alike(b, got)
      BY <3>3 DEF Alike
    <3>. QED  BY <3>4, NextAlike DEF Alike
  <2>2. \A i \in 1 .. n : \A t \in Buffers : FillNext(t, dir[i]) \in Buffers
    BY <1>2, <2>1
  <2>. QED  BY <2>2
<1>4. \A t \in Buffers, i \in 1 .. n : step[i][t] = FillNext(t, dir[i])
  OBVIOUS
<1>. HIDE DEF step
<1>5. PICK g \in [0 .. n -> Buffers] : g[0] = NoneFilled /\ \A i \in 1 .. n : g[i] = step[i][g[i - 1]]
  <2>. HIDE DEF n
  <2>1. \E g : Stepwise(g, Buffers, n, NoneFilled, step)
    BY <1>1, <1>3, StepByStep
  <2>. QED  BY <2>1 DEF Stepwise
<1>6. \A i \in 1 .. n : i - 1 \in 0 .. n /\ i \in 0 .. n /\ i # 0
  BY <1>1
<1>7. \A i \in 0 .. n : g[i] = IF i = 0 THEN NoneFilled ELSE FillNext(g[i - 1], dir[i])
  BY <1>1, <1>4, <1>5, <1>6
<1>8. Is(g)
  <2>2. g = [i \in 0 .. n |-> g[i]]
    BY <1>5
  <2>. QED  BY <1>7, <2>2
<1>9. \A f : Is(f) => f[0] = NoneFilled /\ \A i \in 1 .. n : f[i] = FillNext(f[i - 1], dir[i])
  BY <1>1, <1>6
<1>10. Filled(dir) = CHOOSE f : Is(f)
  BY DEF Filled, FillNext, NoneFilled
<1>11. Is(Filled(dir))
  <2>. HIDE DEF Is
  <2>. QED  BY <1>8, <1>10, Zenon
<1>. HIDE DEF Is
<1>. QED  BY <1>9, <1>11

\* A directory is listed alike by the runtime, which fills its caller's buffer,
\* and by the host function, which pushes onto a vector.
LEMMA ListsAlike ==
  ASSUME NEW w, IsWorld(w)
  PROVE  bbb_os_list_dir(w) = bc_os_list_dir(w)
<1>. DEFINE dir == w.dir
            n == Len(dir)
<1>0. dir \in Seq(STRING) /\ n \in Nat
  BY DEF IsWorld
<1>. HIDE DEF dir
<1>1. \A i \in 0 .. n : Alike(Filled(dir)[i], Pushed(dir)[i])
  <2>. DEFINE Bad == { i \in 0 .. n : ~Alike(Filled(dir)[i], Pushed(dir)[i]) }
  <2>1. SUFFICES ASSUME Bad # {} PROVE FALSE
    OBVIOUS
  <2>2. Bad \in SUBSET Nat /\ Bad \subseteq 0 .. n
    BY <1>0
  <2>3. PICK k \in Bad : \A m \in Bad : k <= m
    <3>. HIDE DEF Bad
    <3>. QED  BY <2>1, <2>2, MinIsLeast
  <2>4. k # 0 /\ k \in 0 .. n /\ ~Alike(Filled(dir)[k], Pushed(dir)[k])
    BY <1>0, <2>3, NoneAlike, FilledSteps, PushedSteps
  <2>5. k \in 1 .. n /\ k - 1 \in 0 .. n /\ k - 1 \notin Bad
    <3>. HIDE DEF Bad
    <3>. QED  BY <1>0, <2>2, <2>3, <2>4
  <2>6. Alike(Filled(dir)[k - 1], Pushed(dir)[k - 1])
    BY <2>5
  <2>7. dir[k] \in DirEntry
    BY <1>0, <2>5, ElementOfSeq DEF DirEntry
  <2>8. Alike(FillNext(Filled(dir)[k - 1], dir[k]), PushNext(Pushed(dir)[k - 1], dir[k]))
    BY <2>6, <2>7, NextAlike
  <2>. QED  BY <1>0, <2>4, <2>5, <2>8, FilledSteps, PushedSteps
<1>. DEFINE b == Filled(dir)[n]
            got == Pushed(dir)[n]
<1>2. Alike(b, got)
  BY <1>0, <1>1
<1>3. bbb_os_list_dir(w) = Returns(w, [k \in 1 .. b.count |-> b.out[k]]) /\ bc_os_list_dir(w) = Returns(w, got)
  BY DEF bbb_os_list_dir, bc_os_list_dir, dir
<1>. HIDE DEF b, got
<1>4. [k \in 1 .. b.count |-> b.out[k]] = got
  <2>1. got = [k \in 1 .. Len(got) |-> got[k]]
    BY <1>2 DEF Alike
  <2>. QED  BY <1>2, <2>1 DEF Alike
<1>. QED  BY <1>3, <1>4

-----------------------------------------------------------------------------
IoStream  == [file |-> "io", owned |-> TRUE]
OutStream == [file |-> "out", owned |-> FALSE]
\* The streams are different, and what they are streams of.
LEMMA StreamsDiffer ==
  /\ IoStream # Null /\ OutStream # Null /\ IoStream # OutStream /\ IoStream.file = "io" /\ OutStream.file = "out"
  /\ IoStream.owned = TRUE /\ Null.file = "none" /\ "io" \in FileNames /\ "out" \in FileNames
BY DEF IoStream, OutStream, Null, FileNames

\* The verbs on a stream use at most its FILE, and do the same in both worlds.
LEMMA StreamVerbs ==
  ASSUME NEW w, IsWorld(w), NEW s, NEW p, s = Null \/ s.file = p, p \in FileNames,
         NEW text \in Seq(Bytes), NEW n \in Nat
  PROVE  /\ bbb_stream_write(w, s, text) = bc_os_write(w, s, text) /\ UsesOnly(w, bbb_stream_write(w, s, text), p)
         /\ bbb_stream_write_string(w, s, text) = bc_os_write_string(w, s, text)
         /\ UsesOnly(w, bbb_stream_write_string(w, s, text), p)
         /\ bbb_stream_read(w, s, n) = bc_os_read(w, s, n) /\ UsesOnly(w, bbb_stream_read(w, s, n), p)
         /\ bbb_stream_read_line(w, s) = bc_os_read_line(w, s) /\ UsesOnly(w, bbb_stream_read_line(w, s), p)
         /\ bbb_stream_flush(w, s) = bc_os_flush(w, s) /\ UsesOnly(w, bbb_stream_flush(w, s), p)
         /\ bbb_stream_tell(w, s) = bc_os_tell(w, s) /\ bbb_stream_had_error(w, s) = bc_os_error(w, s)
         /\ s # Null => bbb_stream_at_end(w, s) = bc_os_at_end(w, s)
<1>0. \A r : UsesOnly(w, Returns(w, r), p)
  BY ReturnsWorld
<1>1. \A v, r : UsesOnly(w, v, p) => UsesOnly(w, Returns(v, r), p)
  BY ReturnsWorld, UsesBoth DEF UsesOnly
<1>2. bbb_stream_write(w, s, text) = bc_os_write(w, s, text) /\ UsesOnly(w, bbb_stream_write(w, s, text), p)
  BY <1>0, WriteWorld DEF bbb_stream_write, bc_os_write
<1>3. /\ bbb_stream_write_string(w, s, text) = bc_os_write_string(w, s, text)
      /\ UsesOnly(w, bbb_stream_write_string(w, s, text), p)
  BY <1>2 DEF bbb_stream_write_string, bbb_stream_write, bc_os_write_string
<1>4. bbb_stream_read(w, s, n) = bc_os_read(w, s, n) /\ UsesOnly(w, bbb_stream_read(w, s, n), p)
  BY <1>0, ReadWorld DEF bbb_stream_read, bc_os_read
<1>5. bbb_stream_read_line(w, s) = bc_os_read_line(w, s) /\ UsesOnly(w, bbb_stream_read_line(w, s), p)
  BY <1>0, <1>1, GetLineWorld DEF bbb_stream_read_line, bc_os_read_line
<1>6. bbb_stream_flush(w, s) = bc_os_flush(w, s) /\ UsesOnly(w, bbb_stream_flush(w, s), p)
  BY <1>0, <1>1, FlushWorld DEF bbb_stream_flush, bc_os_flush
<1>8. bbb_stream_tell(w, s) = bc_os_tell(w, s)
  BY DEF bbb_stream_tell, bc_os_tell
<1>9. bbb_stream_had_error(w, s) = bc_os_error(w, s)
  BY DEF bbb_stream_had_error, bc_os_error, Bool
<1>10. s # Null => bbb_stream_at_end(w, s) = bc_os_at_end(w, s)
  BY DEF bbb_stream_at_end, bc_os_at_end, Bool
<1>. QED  BY <1>2, <1>3, <1>4, <1>5, <1>6, <1>8, <1>9, <1>10

\* The same of seeking.
LEMMA SeekAlike ==
  ASSUME NEW w, IsWorld(w), NEW s, NEW p, s = Null \/ s.file = p, p \in FileNames, NEW offset \in Int, NEW origin
  PROVE  /\ bbb_stream_seek(w, s, offset, origin) = bc_os_seek(w, s, offset, origin)
         /\ UsesOnly(w, bbb_stream_seek(w, s, offset, origin), p)
<1>0. \A r : UsesOnly(w, Returns(w, r), p)
  BY ReturnsWorld
<1>1. \A v, r : UsesOnly(w, v, p) => UsesOnly(w, Returns(v, r), p)
  BY ReturnsWorld, UsesBoth DEF UsesOnly
<1>. QED  BY <1>0, <1>1, SeekWorld DEF bbb_stream_seek, bc_os_seek

\* Opening does the same in both worlds.
LEMMA OpenAlike ==
  ASSUME NEW w, IsWorld(w), NEW mode
  PROVE  LET v == bbb_stream_open(w, mode)
         IN  /\ v = bc_os_open(w, mode) /\ IsWorld(v) /\ v.ret \in {Null, IoStream}
             /\ mode = 0 /\ v.ret # Null =>
                  v.fp["io"].mode = "rb" /\ v.fp["io"].pos = 0 /\ v.fp["io"].pending = << >> /\ v.fp["io"].eof = FALSE
<1>0. bbb_stream_open(w, mode) = bc_os_open(w, mode)
  BY DEF bbb_stream_open, bc_os_open
<1>1. CASE ModeString(mode) = "none"
  <2>1. bbb_stream_open(w, mode) = Returns(w, Null)
    BY <1>1 DEF bbb_stream_open
  <2>2. IsWorld(Returns(w, Null)) /\ Returns(w, Null).ret = Null
    BY ReturnsWorld
  <2>. QED  BY <1>0, <2>1, <2>2
<1>2. CASE ModeString(mode) # "none"
  <2>. DEFINE o == fopen(w, ModeString(mode))
              r == IF o.ret = "none" THEN Null ELSE IoStream
  <2>0. ModeString(mode) \in {"rb", "wb", "ab", "r+b"} /\ (mode = 0 => ModeString(mode) = "rb")
    BY <1>2 DEF ModeString
  <2>1. bbb_stream_open(w, mode) = Returns(o, r)
    BY <1>2 DEF bbb_stream_open, IoStream
  <2>2. IsWorld(o) /\ (o.ret # "none" /\ mode = 0 => o.fp["io"] = File("rb"))
    BY <2>0, OpenWorld DEF UsesOnly
  <2>. HIDE DEF o
  <2>3. IsWorld(Returns(o, r)) /\ Returns(o, r).ret = r /\ Returns(o, r).fp = o.fp
    BY <2>2, ReturnsWorld
  <2>. QED  BY <1>0, <2>1, <2>2, <2>3, NewFile
<1>. QED  BY <1>1, <1>2

\* Closing what open returned does the same in both worlds.
LEMMA CloseAlike ==
  ASSUME NEW w, IsWorld(w), NEW s \in {Null, IoStream}
  PROVE  bbb_stream_close(w, s) = bc_os_close(w, s) /\ IsWorld(bbb_stream_close(w, s))
<1>1. CASE s = Null
  BY <1>1, ReturnsWorld DEF bbb_stream_close, bc_os_close
<1>2. CASE s = IoStream
  <2>. DEFINE c == fclose(w, "io")
              r == Bool(c.ret = 0)
  <2>1. bbb_stream_close(w, s) = Returns(c, r) /\ bc_os_close(w, s) = Returns(c, r)
    BY <1>2, StreamsDiffer DEF bbb_stream_close, bc_os_close, bc_os_stream_is_std
  <2>2. IsWorld(c)
    BY StreamsDiffer, CloseWorld DEF UsesOnly
  <2>. HIDE DEF c, r
  <2>. QED  BY <2>1, <2>2, ReturnsWorld
<1>. QED  BY <1>1, <1>2

\* So do the verbs on whole files and on the output of commands.
LEMMA FileVerbs ==
  ASSUME NEW w, IsWorld(w), NEW text \in Seq(Bytes)
  PROVE  /\ bbb_os_file_read(w) = bc_os_read_file(w) /\ bbb_os_file_exists(w) = bc_os_file_exists(w)
         /\ bbb_os_exec_capture(w, text) = bc_os_exec_capture(w, text)
         /\ bbb_os_file_write(w, text) = bc_os_write_file(w, text) /\ IsWorld(bbb_os_file_write(w, text))
<1>1. bbb_os_file_read(w) = bc_os_read_file(w)
  BY DEF bbb_os_file_read, bc_os_read_file
<1>2. bbb_os_file_exists(w) = bc_os_file_exists(w) /\ bbb_os_exec_capture(w, text) = bc_os_exec_capture(w, text)
  BY DEF bbb_os_file_exists, bc_os_file_exists, bbb_os_exec_capture, bc_os_exec_capture
<1>3. Stored(text) \in Seq(Bytes)
  <2>. DEFINE k == IF Len(text) <= Disk THEN Len(text) ELSE Disk
  <2>1. k \in Nat /\ k <= Len(text) /\ Len(text) \in Nat
    BY OsAssumption
  <2>2. Stored(text) = SubSeq(text, 1, k)
    BY DEF Stored
  <2>. HIDE DEF k
  <2>3. \A i \in 1 .. k : text[i] \in Bytes
    BY <2>1, ElementOfSeq
  <2>4. SubSeq(text, 1, k) \in Seq(Bytes)
    BY <2>1, <2>3, SubSeqProperties
  <2>. QED  BY <2>2, <2>4
<1>4. bbb_os_file_write(w, text) = bc_os_write_file(w, text) /\ IsWorld(bbb_os_file_write(w, text))
  <2>1. "io" \in FileNames /\ w.fp["io"] \in FileRecords
    BY StreamsDiffer, FileParts
  <2>2. IsWorld(Used(w, "io", Stored(text), w.fp["io"], 1))
    BY <1>3, <2>1, UsedWorld DEF UsesOnly
  <2>. QED  BY <2>2 DEF bbb_os_file_write, bc_os_write_file
<1>. QED  BY <1>1, <1>2, <1>4

-----------------------------------------------------------------------------
\* ls are the lines of the text s up to the cut end.
ReadUpTo(ls, s, end) ==
  \E cut \in [1 .. Len(ls) + 1 -> Cuts(s)] :
    /\ cut[Len(ls) + 1] = end
    /\ \A c \in Cuts(s) : c <= end => \E i \in 1 .. Len(ls) + 1 : cut[i] = c
    /\ \A i \in 1 .. Len(ls) : cut[i] < cut[i + 1] /\ ls[i] = NoReturn(SubSeq(s, cut[i] + 1, cut[i + 1] - 1))
\* A file that was just opened was read up to its start.
LEMMA NothingRead ==
  ASSUME NEW s \in Seq(Bytes)
  PROVE  ReadUpTo(<< >>, s, 0)
<1>. DEFINE cut == [i \in 1 .. 1 |-> 0]
<1>1. Len(<< >>) = 0 /\ 0 \in Cuts(s)
  BY DEF Cuts
<1>2. Cuts(s) \subseteq Nat
  BY DEF Cuts
<1>3. cut \in [1 .. Len(<< >>) + 1 -> Cuts(s)] /\ cut[1] = 0
  BY <1>1
<1>. HIDE DEF cut
<1>4. \A c \in Cuts(s) : c <= 0 => cut[1] = c
  BY <1>2, <1>3
<1>. QED  BY <1>1, <1>3, <1>4 DEF ReadUpTo

\* The text up to the next cut is the next line.
LEMMA ReadOneMore ==
  ASSUME NEW T, NEW ls \in Seq(T), NEW s \in Seq(Bytes), NEW a \in Nat, NEW b \in Cuts(s), ReadUpTo(ls, s, a), a < b,
         \A c \in Cuts(s) : ~(a < c /\ c < b), NEW l \in T, l = NoReturn(SubSeq(s, a + 1, b - 1))
  PROVE  ReadUpTo(Append(ls, l), s, b)
<1>. DEFINE n == Len(ls)
            more == Append(ls, l)
<1>1. n \in Nat /\ Len(more) = n + 1 /\ Cuts(s) \subseteq Nat
  BY DEF Cuts
<1>2. PICK cut \in [1 .. n + 1 -> Cuts(s)] :
        /\ cut[n + 1] = a
        /\ \A c \in Cuts(s) : c <= a => \E i \in 1 .. n + 1 : cut[i] = c
        /\ \A i \in 1 .. n : cut[i] < cut[i + 1] /\ ls[i] = NoReturn(SubSeq(s, cut[i] + 1, cut[i + 1] - 1))
  BY DEF ReadUpTo
<1>. DEFINE d == [i \in 1 .. n + 2 |-> IF i = n + 2 THEN b ELSE cut[i]]
<1>3. d[n + 2] = b /\ \A i \in 1 .. n + 1 : d[i] = cut[i]
  BY <1>1
<1>4. d \in [1 .. n + 2 -> Cuts(s)]
  BY <1>1, <1>2
<1>. HIDE DEF d
<1>5. \A c \in Cuts(s) : c <= b => \E i \in 1 .. n + 2 : d[i] = c
  <2>. SUFFICES ASSUME NEW c \in Cuts(s), c <= b PROVE \E i \in 1 .. n + 2 : d[i] = c
    OBVIOUS
  <2>1. c <= a \/ c = b
    BY <1>1
  <2>2. CASE c <= a
    <3>1. PICK i \in 1 .. n + 1 : cut[i] = c
      BY <1>2, <2>2
    <3>2. i \in 1 .. n + 2 /\ d[i] = c
      BY <1>1, <1>3, <3>1
    <3>. QED  BY <3>2
  <2>3. CASE c = b
    <3>1. n + 2 \in 1 .. n + 2
      BY <1>1
    <3>. QED  BY <1>3, <2>3, <3>1
  <2>. QED  BY <2>1, <2>2, <2>3
<1>6. \A i \in 1 .. n + 1 : d[i] < d[i + 1] /\ more[i] = NoReturn(SubSeq(s, d[i] + 1, d[i + 1] - 1))
  <2>. TAKE i \in 1 .. n + 1
  <2>1. CASE i = n + 1
    <3>1. more[n + 1] = l /\ (n + 1) + 1 = n + 2 /\ n + 1 \in 1 .. n + 1
      BY <1>1
    <3>2. d[n + 1] = a /\ d[(n + 1) + 1] = b
      BY <1>2, <1>3, <3>1
    <3>. QED  BY <2>1, <3>1, <3>2
  <2>2. CASE i # n + 1
    <3>1. i \in 1 .. n /\ i + 1 \in 1 .. n + 1
      BY <1>1, <2>2
    <3>2. more[i] = ls[i]
      BY <3>1
    <3>. QED  BY <1>2, <1>3, <3>1, <3>2
  <2>. QED  BY <2>1, <2>2
<1>7. n + 1 = Len(more) /\ n + 2 = Len(more) + 1
  BY <1>1
<1>8. ReadUpTo(more, s, b)
  <2>1. d \in [1 .. Len(more) + 1 -> Cuts(s)] /\ d[Len(more) + 1] = b
    BY <1>3, <1>4, <1>7, Zenon
  <2>2. \A c \in Cuts(s) : c <= b => \E i \in 1 .. Len(more) + 1 : d[i] = c
    BY <1>5, <1>7, Zenon
  <2>3. \A i \in 1 .. Len(more) : d[i] < d[i + 1] /\ more[i] = NoReturn(SubSeq(s, d[i] + 1, d[i + 1] - 1))
    BY <1>6, <1>7, Zenon
  <2>. HIDE DEF more
  <2>. QED  BY <2>1, <2>2, <2>3, Zenon DEF ReadUpTo
<1>. QED  BY <1>8 DEF more

-----------------------------------------------------------------------------
\* What a program holds: nothing, what open returned when it failed, or the file.
NotOpened == [native |-> Null, script |-> Null]
Opened    == [native |-> IoStream, script |-> IoStream]
\* While lines are counted, they are the file's up to where it was read.
LinesRead ==
  LET s == native.content["io"]
      f == native.fp["io"]
  IN  /\ f.mode = "rb" /\ f.pending = << >> /\ f.pos <= Len(s) /\ lines \in Seq(Seq(Bytes))
      /\ ReadUpTo(lines, s, IF f.eof THEN Len(s) + 1 ELSE f.pos)
\* The inductive invariant: the two worlds are one, and the program holds the
\* same in both.
OsInv ==
  /\ native = script /\ IsWorld(native)
  /\ held \in {Unheld, NotOpened, Opened}
  /\ lines # NoLines => held = Opened /\ LinesRead

\* What a program holds tells the three cases apart.
LEMMA HeldDiffer == /\ Unheld # NotOpened /\ Unheld # Opened /\ Opened # NotOpened
                    /\ NotOpened.native = Null /\ NotOpened.script = Null
                    /\ Opened.native = IoStream /\ Opened.script = IoStream
BY DEF Unheld, NotOpened, Opened, Null, IoStream

\* Standard output is the same stream in both worlds, and never what open returned.
LEMMA StdStream ==
  ASSUME OsInv
  PROVE  Std.native = OutStream /\ Std.script = OutStream /\ Std # held
<1>1. Std.native = OutStream /\ Std.script = OutStream
  BY ReturnsWorld DEF OsInv, Std, bbb_stream_std_get, bc_os_stdout_fn, OutStream
<1>. QED  BY <1>1, StreamsDiffer, HeldDiffer DEF OsInv, Unheld, OutStream

\* Nothing was done to the file.
LEMMA LinesKept ==
  ASSUME OsInv, native'.content["io"] = native.content["io"], native'.fp["io"] = native.fp["io"],
         held' = held, lines' = lines
  PROVE  lines' # NoLines => held' = Opened /\ LinesRead'
BY DEF OsInv, LinesRead

\* A stream of the program is standard output, or what open returned.
LEMMA StreamCases ==
  ASSUME OsInv, NEW st \in Streams
  PROVE  /\ st.native = st.script
         /\ \/ st # held /\ st.native = OutStream
            \/ st = held /\ st.native \in {Null, IoStream}
<1>1. CASE st = Std
  BY <1>1, StdStream
<1>2. CASE st = held
  <2>1. held \in {NotOpened, Opened}
    BY <1>2 DEF Streams, OsInv
  <2>. QED  BY <1>2, <2>1, HeldDiffer
<1>. QED  BY <1>1, <1>2 DEF Streams

\* What is left to show of a verb that may use only its stream's FILE, and
\* ends the counting of lines when that is the file.
LEMMA VerbKeeps ==
  ASSUME OsInv, NEW st \in Streams, native' = script', held' = held, lines' = Elsewhere(st),
         NEW p, st.native # Null => st.native.file = p, p \in FileNames, UsesOnly(native, native', p)
  PROVE  OsInv'
<1>0. native' = script' /\ IsWorld(native)' /\ held' \in {Unheld, NotOpened, Opened}
  BY DEF UsesOnly, OsInv
<1>1. CASE st = held
  BY <1>0, <1>1 DEF Elsewhere, OsInv, Unheld
<1>2. CASE st # held
  <2>1. p = "out" /\ lines' = lines
    BY <1>2, StreamCases, StreamsDiffer DEF Elsewhere
  <2>2. native'.content["io"] = native.content["io"] /\ native'.fp["io"] = native.fp["io"]
    BY <2>1, StreamsDiffer DEF UsesOnly
  <2>3. lines' # NoLines => held' = Opened /\ LinesRead'
    BY <2>1, <2>2, LinesKept
  <2>. QED  BY <1>0, <2>3 DEF OsInv, Unheld
<1>. QED  BY <1>1, <1>2

\* And of one that only returns something.
LEMMA ReturnKeeps ==
  ASSUME OsInv, NEW r, native' = Returns(native, r), script' = native', UNCHANGED << held, lines >>
  PROVE  OsInv'
<1>1. IsWorld(native') /\ native'.content = native.content /\ native'.fp = native.fp
  BY ReturnsWorld DEF OsInv
<1>2. lines' # NoLines => held' = Opened /\ LinesRead'
  BY <1>1, LinesKept
<1>. QED  BY <1>1, <1>2 DEF OsInv, Unheld

\* What is written is text.
LEMMA TextBytes == \A t \in Texts : t \in Seq(Bytes)
<1>1. STRING \subseteq Bytes
  BY DEF Bytes
<1>2. \A t \in Seq(STRING) : t \in Seq(Bytes)
  <2>. TAKE t \in Seq(STRING)
  <2>1. Len(t) \in Nat /\ t = [i \in 1 .. Len(t) |-> t[i]]
    OBVIOUS
  <2>2. \A i \in 1 .. Len(t) : t[i] \in STRING
    BY ElementOfSeq
  <2>3. \A i \in 1 .. Len(t) : t[i] \in Bytes
    BY <1>1, <2>2
  <2>. QED  BY <2>1, <2>3
<1>. QED  BY <1>2, OsAssumption

\* The invariant holds at first.
LEMMA OsStart == OsInit => OsInv
<1>. SUFFICES ASSUME OsInit PROVE OsInv
  OBVIOUS
<1>1. PICK text \in Texts \cup {Absent}, dir \in Listings :
        native = World(text, dir) /\ script = World(text, dir) /\ held = Unheld /\ lines = NoLines
  BY DEF OsInit
<1>2. text \in Seq(Bytes) /\ dir \in Seq(STRING) /\ << >> \in Seq(Bytes)
  <2>1. Absent \in Seq(Bytes)
    BY DEF Absent, Bytes
  <2>. QED  BY <1>1, <2>1, TextBytes, OsAssumption
<1>3. Closed \in FileRecords /\ File("ab") \in FileRecords
  BY NewFile
<1>4. World(text, dir).content \in [FileNames -> Seq(Bytes)]
  <2>1. \A t \in Seq(Bytes) : [io |-> text, out |-> t] \in [FileNames -> Seq(Bytes)]
    BY <1>2 DEF FileNames
  <2>. QED  BY <1>2, <2>1 DEF World
<1>5. World(text, dir).fp \in [FileNames -> FileRecords]
  BY <1>3 DEF World, FileNames
<1>6. IsWorld(World(text, dir))
  BY <1>2, <1>4, <1>5 DEF IsWorld, World
<1>. QED  BY <1>1, <1>6 DEF OsInv

\* Opening keeps the invariant.
LEMMA OpenStep ==
  ASSUME OsInv, NEW mode, Open(mode)
  PROVE  OsInv'
<1>1. /\ native' = script' /\ IsWorld(native') /\ native'.ret \in {Null, IoStream}
      /\ mode = 0 /\ native'.ret # Null =>
           /\ native'.fp["io"].mode = "rb" /\ native'.fp["io"].pos = 0
           /\ native'.fp["io"].pending = << >> /\ native'.fp["io"].eof = FALSE
  BY OpenAlike DEF OsInv, Open, Both
<1>2. held' = [native |-> native'.ret, script |-> native'.ret] /\ held' \in {NotOpened, Opened}
  BY <1>1 DEF Open, NotOpened, Opened
<1>3. ASSUME lines' # NoLines
      PROVE  held' = Opened /\ LinesRead'
  <2>1. mode = 0 /\ native'.ret = IoStream /\ lines' = << >>
    BY <1>1, <1>3 DEF Open
  <2>2. native'.content["io"] \in Seq(Bytes) /\ Len(native'.content["io"]) \in Nat
    BY <1>1, FileParts, StreamsDiffer
  <2>3. ReadUpTo(<< >>, native'.content["io"], 0) /\ << >> \in Seq(Seq(Bytes))
    BY <2>2, NothingRead
  <2>. QED  BY <1>1, <1>2, <2>1, <2>2, <2>3, StreamsDiffer DEF LinesRead, Opened
<1>. QED  BY <1>1, <1>2, <1>3 DEF OsInv, Unheld

\* Closing keeps the invariant.
LEMMA CloseStep ==
  ASSUME OsInv, "close-out" \notin Unusual, NEW st \in Streams, CloseStream(st)
  PROVE  OsInv'
<1>1. st = held /\ st.native = st.script /\ st.native \in {Null, IoStream}
  BY StreamCases DEF CloseStream
<1>2. native' = script' /\ IsWorld(native')
  BY <1>1, CloseAlike DEF CloseStream, Both, OsInv
<1>3. held' = Unheld /\ lines' = NoLines
  BY <1>1 DEF CloseStream, Elsewhere
<1>. QED  BY <1>2, <1>3 DEF OsInv, Unheld

\* Reading a line adds the next line of the file.
LEMMA ReadLineStep ==
  ASSUME OsInv, NEW st \in Streams, ReadLine(st)
  PROVE  OsInv'
<1>. DEFINE p == IF st = held THEN "io" ELSE "out"
<1>0. /\ st.native = st.script /\ (st.native = Null \/ st.native.file = p) /\ p \in FileNames
      /\ IsWorld(native) /\ native = script
  BY StreamCases, StreamsDiffer DEF OsInv
<1>1. native' = script' /\ UsesOnly(native, native', p) /\ native' = bbb_stream_read_line(native, st.native)
  <2>1. << >> \in Seq(Bytes) /\ 0 \in Nat /\ 0 \in Int
    OBVIOUS
  <2>2. /\ bbb_stream_read_line(native, st.native) = bc_os_read_line(native, st.native)
        /\ UsesOnly(native, bbb_stream_read_line(native, st.native), p)
    <3>. HIDE DEF p
    <3>. QED  BY <1>0, <2>1, StreamVerbs
  <2>. QED  BY <1>0, <2>2 DEF ReadLine, Both
<1>2. native' = script' /\ IsWorld(native') /\ held' = held
  BY <1>1 DEF UsesOnly, ReadLine
<1>3. CASE st # held
  <2>1. lines' = lines /\ native'.content["io"] = native.content["io"] /\ native'.fp["io"] = native.fp["io"]
    BY <1>1, <1>3, StreamsDiffer DEF UsesOnly, ReadLine
  <2>2. lines' # NoLines => held' = Opened /\ LinesRead'
    BY <1>2, <2>1, LinesKept
  <2>. QED  BY <1>2, <2>2 DEF OsInv, Unheld
<1>4. CASE st = held /\ lines = NoLines
  <2>1. lines' = NoLines
    BY <1>4 DEF ReadLine
  <2>. QED  BY <1>2, <2>1 DEF OsInv, Unheld
<1>5. CASE st = held /\ lines # NoLines
  <2>. DEFINE s == native.content["io"]
              f == native.fp["io"]
              v == GetLine(native, "io")
  <2>1. held = Opened /\ LinesRead
    BY <1>5 DEF OsInv
  <2>2. native' = Returns(v, NoReturn(v.ret))
    BY <1>1, <1>5, <2>1, HeldDiffer, StreamsDiffer DEF bbb_stream_read_line
  <2>3. s \in Seq(Bytes) /\ Len(s) \in Nat /\ f.pos \in Nat /\ f.eof \in BOOLEAN /\ f.pos <= Len(s)
        /\ lines \in Seq(Seq(Bytes)) /\ f.mode = "rb" /\ f.pending = << >>
    BY <1>0, <2>1, FileParts, StreamsDiffer DEF LinesRead
  <2>4. /\ v.content["io"] = s /\ v.fp["io"].mode = "rb" /\ v.fp["io"].pending = << >>
        /\ (\E q \in Nat : LineEndsAt(native, v, q)) \/ LastLine(native, v)
    BY <1>0, <2>3, LineRead
  <2>5. native'.content["io"] = s /\ native'.fp["io"] = v.fp["io"] /\ native'.ret = NoReturn(v.ret)
    <3>1. IsWorld(v)
      BY <1>0, GetLineWorld, StreamsDiffer DEF UsesOnly
    <3>. HIDE DEF v
    <3>. QED  BY <2>2, <2>4, <3>1, ReturnsWorld
  <2>. HIDE DEF v
  <2>6. CASE f.eof
    <3>1. lines' = lines
      BY <2>6 DEF ReadLine
    <3>2. v.fp["io"].eof = TRUE /\ v.fp["io"].pos <= Len(s)
      <4>1. f.eof = TRUE
        BY <2>3, <2>6
      <4>2. ASSUME NEW q \in Nat, LineEndsAt(native, v, q)
            PROVE  v.fp["io"].eof = TRUE /\ v.fp["io"].pos <= Len(s)
        <5>1. q \in f.pos + 1 .. Len(s) /\ v.fp["io"].pos = q /\ v.fp["io"].eof = f.eof
          BY <4>2 DEF LineEndsAt
        <5>. HIDE DEF s, f
        <5>. QED  BY <2>3, <4>1, <5>1
      <4>3. ASSUME LastLine(native, v)
            PROVE  v.fp["io"].eof = TRUE /\ v.fp["io"].pos <= Len(s)
        <5>1. v.fp["io"].pos = Len(s) /\ v.fp["io"].eof = TRUE
          BY <4>3 DEF LastLine
        <5>. QED  BY <2>3, <5>1
      <4>. QED  BY <2>4, <4>2, <4>3
    <3>3. LinesRead'
      BY <2>1, <2>3, <2>4, <2>5, <2>6, <3>1, <3>2 DEF LinesRead
    <3>. QED  BY <1>2, <2>1, <3>3 DEF OsInv, Unheld
  <2>7. CASE ~f.eof
    <3>1. lines' = Append(lines, native'.ret)
      BY <1>2, <1>5, <2>7 DEF ReadLine
    <3>2. ReadUpTo(lines, s, f.pos)
      BY <2>1, <2>7 DEF LinesRead
    <3>. DEFINE l == native'.ret
    <3>3. l = NoReturn(v.ret)
      BY <2>5
    <3>4. ASSUME v.ret \in Seq(Bytes)
          PROVE  l \in Seq(Bytes)
      <4>1. CASE v.ret # << >> /\ Last(v.ret) = "\r"
        <5>1. Len(v.ret) - 1 \in Nat /\ Len(v.ret) \in Nat
          BY <3>4, <4>1, EmptySeq
        <5>2. \A i \in 1 .. Len(v.ret) - 1 : v.ret[i] \in Bytes
          BY <3>4, <5>1, ElementOfSeq
        <5>3. SubSeq(v.ret, 1, Len(v.ret) - 1) \in Seq(Bytes)
          BY <5>1, <5>2, SubSeqProperties
        <5>. QED  BY <3>3, <4>1, <5>3 DEF NoReturn, Front
      <4>2. CASE ~(v.ret # << >> /\ Last(v.ret) = "\r")
        BY <3>3, <3>4, <4>2 DEF NoReturn
      <4>. QED  BY <4>1, <4>2
    <3>. HIDE DEF l
    <3>5. \A a \in Nat, b \in Int : b <= Len(s) => SubSeq(s, a + 1, b) \in Seq(Bytes)
      <4>. SUFFICES ASSUME NEW a \in Nat, NEW b \in Int, b <= Len(s) PROVE SubSeq(s, a + 1, b) \in Seq(Bytes)
        OBVIOUS
      <4>1. \A i \in a + 1 .. b : s[i] \in Bytes
        BY <2>3, ElementOfSeq
      <4>. HIDE DEF s
      <4>. QED  BY <4>1, SubSeqProperties
    <3>6. Cuts(s) = {0, Len(s) + 1} \cup { i \in 1 .. Len(s) : s[i] = "\n" }
      BY <2>3 DEF Cuts
    <3>7. ASSUME NEW q \in Nat, LineEndsAt(native, v, q)
          PROVE  LinesRead'
      <4>1. /\ q \in f.pos + 1 .. Len(s) /\ s[q] = "\n" /\ (\A j \in f.pos + 1 .. q - 1 : s[j] # "\n")
            /\ v.fp["io"].pos = q /\ v.fp["io"].eof = f.eof /\ v.ret = SubSeq(s, f.pos + 1, q - 1)
        BY <3>7 DEF LineEndsAt
      <4>2. l \in Seq(Bytes) /\ l = NoReturn(SubSeq(s, f.pos + 1, q - 1))
        BY <2>3, <3>3, <3>4, <3>5, <4>1
      <4>3. q \in Cuts(s) /\ f.pos < q /\ \A c \in Cuts(s) : ~(f.pos < c /\ c < q)
        <5>. HIDE DEF s, f
        <5>1. q \in Cuts(s) /\ f.pos < q
          BY <2>3, <3>6, <4>1
        <5>2. \A c \in Cuts(s) : c = 0 \/ c = Len(s) + 1 \/ (c \in 1 .. Len(s) /\ s[c] = "\n")
          BY <3>6
        <5>3. ASSUME NEW c \in Cuts(s), f.pos < c, c < q PROVE FALSE
          <6>1. f.pos \in Nat /\ q <= Len(s) /\ Len(s) \in Nat /\ q \in Nat
            BY <2>3, <4>1
          <6>2. c # 0 /\ c # Len(s) + 1
            BY <5>3, <6>1
          <6>3. c \in 1 .. Len(s) /\ s[c] = "\n"
            BY <5>2, <6>2
          <6>4. c \in f.pos + 1 .. q - 1
            BY <5>3, <6>1, <6>3
          <6>. QED  BY <4>1, <6>3, <6>4
        <5>. QED  BY <5>1, <5>3
      <4>4. ReadUpTo(Append(lines, l), s, q)
        <5>. HIDE DEF s, f
        <5>. QED  BY <2>3, <3>2, <4>2, <4>3, ReadOneMore
      <4>5. Append(lines, l) \in Seq(Seq(Bytes)) /\ q <= Len(s)
        BY <2>3, <4>1, <4>2
      <4>. QED  BY <2>4, <2>5, <2>7, <3>1, <4>1, <4>4, <4>5 DEF LinesRead, l
    <3>8. ASSUME LastLine(native, v)
          PROVE  LinesRead'
      <4>1. /\ \A j \in f.pos + 1 .. Len(s) : s[j] # "\n"
            /\ v.fp["io"].pos = Len(s) /\ v.fp["io"].eof = TRUE /\ v.ret = SubSeq(s, f.pos + 1, Len(s))
        BY <3>8 DEF LastLine
      <4>. DEFINE q == Len(s) + 1
      <4>2. l \in Seq(Bytes) /\ l = NoReturn(SubSeq(s, f.pos + 1, q - 1))
        <5>1. q - 1 = Len(s)
          BY <2>3
        <5>. QED  BY <2>3, <3>3, <3>4, <3>5, <4>1, <5>1
      <4>3. q \in Cuts(s) /\ f.pos < q /\ \A c \in Cuts(s) : ~(f.pos < c /\ c < q)
        <5>. HIDE DEF s, f
        <5>1. q \in Cuts(s) /\ f.pos < q
          BY <2>3, <3>6, <4>1
        <5>2. \A c \in Cuts(s) : c = 0 \/ c = Len(s) + 1 \/ (c \in 1 .. Len(s) /\ s[c] = "\n")
          BY <3>6
        <5>3. ASSUME NEW c \in Cuts(s), f.pos < c, c < q PROVE FALSE
          <6>1. f.pos \in Nat /\ q = Len(s) + 1 /\ Len(s) \in Nat
            BY <2>3
          <6>2. c # 0 /\ c # Len(s) + 1
            BY <5>3, <6>1
          <6>3. c \in 1 .. Len(s) /\ s[c] = "\n"
            BY <5>2, <6>2
          <6>4. c \in f.pos + 1 .. q - 1
            BY <5>3, <6>1, <6>3
          <6>. QED  BY <4>1, <6>3, <6>4
        <5>. QED  BY <5>1, <5>3
      <4>4. ReadUpTo(Append(lines, l), s, q)
        <5>. HIDE DEF s, f, q
        <5>. QED  BY <2>3, <3>2, <4>2, <4>3, ReadOneMore
      <4>5. Append(lines, l) \in Seq(Seq(Bytes))
        BY <2>3, <4>2
      <4>. QED  BY <2>3, <2>4, <2>5, <3>1, <4>1, <4>4, <4>5 DEF LinesRead, l
    <3>9. LinesRead'
      BY <2>4, <3>7, <3>8
    <3>. QED  BY <1>2, <2>1, <3>9 DEF OsInv, Unheld
  <2>. QED  BY <2>6, <2>7
<1>. QED  BY <1>3, <1>4, <1>5

\* Every call keeps the invariant.
LEMMA OsStep == Unusual = {} /\ OsInv /\ [OsNext]_osvars => OsInv'
<1>. SUFFICES ASSUME Unusual = {}, OsInv, [OsNext]_osvars PROVE OsInv'
  OBVIOUS
<1>0. IsWorld(native) /\ native = script /\ << >> \in Seq(Bytes) /\ 0 \in Nat /\ 0 \in Int
  BY DEF OsInv
<1>1. ASSUME NEW mode \in 0 .. 4, Open(mode) PROVE OsInv'
  BY <1>1, OpenStep
<1>2. ASSUME NEW st \in Streams,
             \/ CloseStream(st) \/ ReadLine(st) \/ Flush(st) \/ Tell(st) \/ AtEnd(st) \/ HadError(st)
             \/ \E text \in Texts : WriteString(st, text) \/ Write(st, text)
             \/ \E size \in ReadSizes : Read(st, size)
             \/ \E offset \in SeekOffsets, origin \in 0 .. 3 : Seek(st, offset, origin)
      PROVE  OsInv'
  <2>. DEFINE p == IF st = held THEN "io" ELSE "out"
              z == st.native
  <2>0. z = st.script /\ (z = Null \/ z.file = p) /\ p \in FileNames
    BY <1>2, StreamCases, StreamsDiffer
  <2>. HIDE DEF p
  <2>1. CASE CloseStream(st)
    BY <2>1, CloseStep
  <2>2. CASE ReadLine(st)
    BY <2>2, ReadLineStep
  <2>3. CASE Flush(st)
    <3>1. /\ bbb_stream_flush(native, z) = bc_os_flush(native, z) /\ UsesOnly(native, bbb_stream_flush(native, z), p)
      BY <1>0, <2>0, StreamVerbs
    <3>2. native' = script' /\ IsWorld(native') /\ UsesOnly(native, native', p) /\ held' = held /\ lines' = lines
          /\ native' = bbb_stream_flush(native, z)
      BY <1>0, <2>0, <2>3, <3>1 DEF Flush, Both, UsesOnly
    <3>3. CASE st # held
      <4>1. lines' = Elsewhere(st)
        BY <3>2, <3>3 DEF Elsewhere
      <4>. QED  BY <2>0, <3>2, <4>1, VerbKeeps
    <3>4. CASE st = held /\ lines = NoLines
      BY <3>2, <3>4 DEF OsInv, Unheld
    <3>5. CASE st = held /\ lines # NoLines
      <4>. DEFINE v == fflush(native, "io")
                  r == Bool(v.ret = 0)
      <4>1. held = Opened /\ native.fp["io"].pending = << >>
        BY <3>5 DEF OsInv, LinesRead
      <4>2. z = IoStream /\ native' = Returns(v, r)
        BY <3>2, <3>5, <4>1, HeldDiffer, StreamsDiffer DEF bbb_stream_flush
      <4>3. IsWorld(v) /\ v.content = native.content /\ v.fp = native.fp
        BY <1>0, <4>1, FlushWorld, StreamsDiffer DEF UsesOnly
      <4>. HIDE DEF v, r
      <4>4. native'.content = native.content /\ native'.fp = native.fp
        BY <4>2, <4>3, ReturnsWorld
      <4>5. lines' # NoLines => held' = Opened /\ LinesRead'
        BY <3>2, <4>4, LinesKept
      <4>. QED  BY <3>2, <4>5 DEF OsInv, Unheld
    <3>. QED  BY <3>3, <3>4, <3>5
  <2>4. CASE Tell(st)
    <3>1. bbb_stream_tell(native, z) = bc_os_tell(native, z)
      BY <1>0, <2>0, StreamVerbs
    <3>2. \E r : bbb_stream_tell(native, z) = Returns(native, r)
      BY DEF bbb_stream_tell, ftell
    <3>. QED  BY <1>0, <2>0, <2>4, <3>1, <3>2, ReturnKeeps DEF Tell, Both
  <2>5. CASE AtEnd(st)
    <3>1. z # Null
      BY <2>5 DEF AtEnd
    <3>2. bbb_stream_at_end(native, z) = bc_os_at_end(native, z)
      BY <1>0, <2>0, <3>1, StreamVerbs
    <3>3. \E r : bbb_stream_at_end(native, z) = Returns(native, r)
      BY DEF bbb_stream_at_end
    <3>. QED  BY <1>0, <2>0, <2>5, <3>2, <3>3, ReturnKeeps DEF AtEnd, Both
  <2>6. CASE HadError(st)
    <3>1. bbb_stream_had_error(native, z) = bc_os_error(native, z)
      BY <1>0, <2>0, StreamVerbs
    <3>2. \E r : bbb_stream_had_error(native, z) = Returns(native, r)
      BY DEF bbb_stream_had_error
    <3>. QED  BY <1>0, <2>0, <2>6, <3>1, <3>2, ReturnKeeps DEF HadError, Both
  <2>7. ASSUME NEW text \in Texts, WriteString(st, text) \/ Write(st, text) PROVE OsInv'
    <3>1. text \in Seq(Bytes)
      BY TextBytes
    <3>2. /\ bbb_stream_write(native, z, text) = bc_os_write(native, z, text)
          /\ UsesOnly(native, bbb_stream_write(native, z, text), p)
          /\ bbb_stream_write_string(native, z, text) = bc_os_write_string(native, z, text)
          /\ UsesOnly(native, bbb_stream_write_string(native, z, text), p)
      BY <1>0, <2>0, <3>1, StreamVerbs
    <3>3. native' = script' /\ UsesOnly(native, native', p) /\ held' = held /\ lines' = Elsewhere(st)
      BY <1>0, <2>0, <2>7, <3>2 DEF WriteString, Write, Both
    <3>. QED  BY <2>0, <3>3, VerbKeeps
  <2>8. ASSUME NEW size \in ReadSizes, Read(st, size) PROVE OsInv'
    <3>1. size \in Nat
      BY OsAssumption
    <3>2. bbb_stream_read(native, z, size) = bc_os_read(native, z, size) /\ UsesOnly(native, bbb_stream_read(native, z, size), p)
      BY <1>0, <2>0, <3>1, StreamVerbs
    <3>3. native' = script' /\ UsesOnly(native, native', p) /\ held' = held /\ lines' = Elsewhere(st)
      BY <1>0, <2>0, <2>8, <3>2 DEF Read, Both
    <3>. QED  BY <2>0, <3>3, VerbKeeps
  <2>9. ASSUME NEW offset \in SeekOffsets, NEW origin \in 0 .. 3, Seek(st, offset, origin) PROVE OsInv'
    <3>1. offset \in Int
      BY OsAssumption
    <3>2. /\ bbb_stream_seek(native, z, offset, origin) = bc_os_seek(native, z, offset, origin)
          /\ UsesOnly(native, bbb_stream_seek(native, z, offset, origin), p)
      BY <1>0, <2>0, <3>1, SeekAlike
    <3>3. native' = script' /\ UsesOnly(native, native', p) /\ held' = held /\ lines' = Elsewhere(st)
      BY <1>0, <2>0, <2>9, <3>2 DEF Seek, Both
    <3>. QED  BY <2>0, <3>3, VerbKeeps
  <2>. QED  BY <1>2, <2>1, <2>2, <2>3, <2>4, <2>5, <2>6, <2>7, <2>8, <2>9
<1>3. ASSUME NEW text \in Texts, WriteFile(text) PROVE OsInv'
  <2>1. native' = script' /\ IsWorld(native')
    BY <1>0, <1>3, TextBytes, FileVerbs DEF WriteFile, Both
  <2>2. lines' = NoLines /\ held' = held
    BY <1>3, HeldDiffer DEF WriteFile, OsInv
  <2>. QED  BY <2>1, <2>2 DEF OsInv, Unheld
<1>4. ASSUME NEW text \in Texts, ExecCapture(text) PROVE OsInv'
  <2>1. bbb_os_exec_capture(native, text) = bc_os_exec_capture(native, text)
    BY <1>0, TextBytes, FileVerbs
  <2>2. \E r : bbb_os_exec_capture(native, text) = Returns(native, r)
    BY DEF bbb_os_exec_capture
  <2>. QED  BY <1>0, <1>4, <2>1, <2>2, ReturnKeeps DEF ExecCapture, Both
<1>5. ASSUME ReadFile PROVE OsInv'
  <2>1. bbb_os_file_read(native) = bc_os_read_file(native)
    BY <1>0, FileVerbs
  <2>2. \E r : bbb_os_file_read(native) = Returns(native, r)
    BY DEF bbb_os_file_read
  <2>. QED  BY <1>0, <1>5, <2>1, <2>2, ReturnKeeps DEF ReadFile, Both
<1>6. ASSUME FileExists PROVE OsInv'
  <2>1. bbb_os_file_exists(native) = bc_os_file_exists(native)
    BY <1>0, FileVerbs
  <2>2. \E r : bbb_os_file_exists(native) = Returns(native, r)
    BY DEF bbb_os_file_exists
  <2>. QED  BY <1>0, <1>6, <2>1, <2>2, ReturnKeeps DEF FileExists, Both
<1>7. ASSUME ListDir PROVE OsInv'
  <2>1. bbb_os_list_dir(native) = bc_os_list_dir(native)
    BY <1>0, ListsAlike
  <2>2. \E r : bbb_os_list_dir(native) = Returns(native, r)
    BY DEF bbb_os_list_dir
  <2>. QED  BY <1>0, <1>7, <2>1, <2>2, ReturnKeeps DEF ListDir, Both
<1>8. CASE UNCHANGED osvars
  BY <1>8 DEF osvars, OsInv, LinesRead, Unheld
<1>. QED  BY <1>1, <1>2, <1>3, <1>4, <1>5, <1>6, <1>7, <1>8 DEF OsNext

\* The invariant implies that the verbs agree.
LEMMA OsInvSays == OsInv => OsVerbsAgree
<1>. SUFFICES ASSUME OsInv PROVE OsVerbsAgree
  OBVIOUS
<1>1. native.ret = script.ret /\ Left(native) = Left(script)
  BY DEF OsInv
<1>2. ASSUME lines # NoLines, script.fp["io"].eof
      PROVE  AreLinesOf(lines, script.content["io"])
  <2>. DEFINE s == native.content["io"]
  <2>1. s \in Seq(Bytes) /\ Len(s) \in Nat /\ lines \in Seq(Seq(Bytes)) /\ ReadUpTo(lines, s, Len(s) + 1)
    BY <1>2, FileParts, StreamsDiffer DEF OsInv, LinesRead
  <2>2. \A c \in Cuts(s) : c <= Len(s) + 1
    <3>. HIDE DEF s
    <3>. QED  BY <2>1 DEF Cuts
  <2>3. DOMAIN lines = 1 .. Len(lines)
    BY <2>1
  <2>. HIDE DEF s
  <2>4. AreLinesOf(lines, s)
    BY <2>1, <2>2, <2>3 DEF AreLinesOf, ReadUpTo
  <2>. QED  BY <2>4 DEF s, OsInv
<1>. QED  BY <1>1, <1>2 DEF OsVerbsAgree

\* The os package is the same for compiled programs and for scripts (bbb_file.c
\* and bcosprims.c): however many calls a program makes, whatever it writes,
\* however large the disk and the buffer for listings are, the results and what
\* it leaves behind are the same, and the loop that reads lines until at-end?
\* reads the file's lines.  The two calls on which the code is known to differ
\* are left out.
THEOREM OsPackagesAgree == Unusual = {} /\ OsSpec => []OsVerbsAgree
<1>1. Unusual = {} /\ OsInit => OsInv /\ Unusual = {}
  BY OsStart
<1>2. OsInv /\ Unusual = {} /\ [OsNext]_osvars => (OsInv /\ Unusual = {})'
  BY OsStep
<1>3. OsInv /\ Unusual = {} => OsVerbsAgree
  BY OsInvSays
<1>. QED  BY <1>1, <1>2, <1>3, PTL DEF OsSpec

(***************************************************************************)
(* Numbers.  A text is parsed as the decimal number it says, for every     *)
(* width of the types and any length of the text.                          *)
(***************************************************************************)
\* Induction along a list.
LEMMA EachInTurn ==
  ASSUME NEW n \in Nat, NEW S, 0 \in S, \A i \in 1 .. n : i - 1 \in S => i \in S
  PROVE  \A i \in 0 .. n : i \in S
<1>. DEFINE Bad == { i \in 0 .. n : i \notin S }
<1>1. SUFFICES ASSUME Bad # {} PROVE FALSE
  OBVIOUS
<1>2. Bad \in SUBSET Nat
  OBVIOUS
<1>3. PICK k \in Bad : \A m \in Bad : k <= m
  <2>. HIDE DEF Bad
  <2>. QED  BY <1>1, <1>2, MinIsLeast
<1>4. k \in 1 .. n /\ k - 1 \in 0 .. n /\ k \notin S
  BY <1>3
<1>5. k - 1 \notin Bad
  <2>. HIDE DEF Bad
  <2>. QED  BY <1>3, <1>4
<1>. QED  BY <1>4, <1>5

\* What a digit is worth.
LEMMA DigitWorth ==
  ASSUME NEW c \in DOMAIN Digit
  PROVE  Digit[c] \in Nat /\ Digit[c] <= 9
<1>1. c \in {"0", "1", "2", "3", "4", "5", "6", "7", "8", "9"}
  BY DEF Digit
<1>2. /\ Digit["0"] = 0 /\ Digit["1"] = 1 /\ Digit["2"] = 2 /\ Digit["3"] = 3 /\ Digit["4"] = 4
      /\ Digit["5"] = 5 /\ Digit["6"] = 6 /\ Digit["7"] = 7 /\ Digit["8"] = 8 /\ Digit["9"] = 9
  BY DEF Digit
<1>. QED  BY <1>1, <1>2

\* The parts of a text: what follows the sign is a text.
LEMMA TextParts ==
  ASSUME NEW s \in Seq(STRING), NEW signs
  PROVE  AfterSign(s, signs) \in Seq(STRING)
<1>1. s # << >> => Tail(s) \in Seq(STRING)
  OBVIOUS
<1>. QED  BY <1>1 DEF AfterSign, Signed

\* The loops' variables.
Sums == [ok : BOOLEAN, mag : Nat, n : Nat]
Wraps == [ok : BOOLEAN, value : Nat]

\* The magnitude after each symbol.
LEMMA MagnitudeSteps ==
  ASSUME NEW s \in Seq(STRING)
  PROVE  /\ Magnitudes(s)[0] = [ok |-> s # << >>, mag |-> 0, n |-> 0]
         /\ \A i \in 1 .. Len(s) : Magnitudes(s)[i] = SignedStep(Magnitudes(s)[i - 1], s[i])
         /\ \A i \in 0 .. Len(s) : Magnitudes(s)[i] \in Sums
<1>. DEFINE n == Len(s)
            b == [ok |-> s # << >>, mag |-> 0, n |-> 0]
            Is(g) == g = [i \in 0 .. n |-> IF i = 0 THEN b ELSE SignedStep(g[i - 1], s[i])]
            step == [i \in 1 .. n |-> [t \in Sums |-> SignedStep(t, s[i])]]
<1>1. n \in Nat /\ b \in Sums
  BY DEF Sums
<1>3. step \in [1 .. n -> [Sums -> Sums]]
  <2>1. \A t \in Sums : \A c : SignedStep(t, c) \in Sums
    <3>. TAKE t \in Sums
    <3>. TAKE c
    <3>1. [t EXCEPT !.ok = FALSE] \in Sums /\ t.mag \in Nat /\ t.n \in Nat
      BY DEF Sums
    <3>2. c \in DOMAIN Digit => [ok |-> TRUE, mag |-> t.mag * 10 + Digit[c], n |-> t.n + 1] \in Sums
      BY <3>1, DigitWorth DEF Sums
    <3>. QED  BY <3>1, <3>2 DEF SignedStep
  <2>. QED  BY <2>1
<1>4. \A t \in Sums, i \in 1 .. n : step[i][t] = SignedStep(t, s[i])
  OBVIOUS
<1>. HIDE DEF step, b
<1>5. PICK g \in [0 .. n -> Sums] : g[0] = b /\ \A i \in 1 .. n : g[i] = step[i][g[i - 1]]
  <2>. HIDE DEF n
  <2>2. \E g : Stepwise(g, Sums, n, b, step)
    BY <1>1, <1>3, StepByStep
  <2>. QED  BY <2>2 DEF Stepwise
<1>6. \A i \in 1 .. n : i - 1 \in 0 .. n /\ i \in 0 .. n /\ i # 0
  BY <1>1
<1>7. \A i \in 0 .. n : g[i] = IF i = 0 THEN b ELSE SignedStep(g[i - 1], s[i])
  <2>1. \A i \in 1 .. n : g[i] = SignedStep(g[i - 1], s[i])
    BY <1>4, <1>5, <1>6
  <2>2. \A i \in 0 .. n : i = 0 \/ i \in 1 .. n
    BY <1>1
  <2>. QED  BY <1>5, <2>1, <2>2
<1>8. Is(g)
  <2>2. g = [i \in 0 .. n |-> g[i]]
    BY <1>5
  <2>. QED  BY <1>7, <2>2
<1>9. \A f : Is(f) => f[0] = b /\ \A i \in 1 .. n : f[i] = SignedStep(f[i - 1], s[i])
  BY <1>1, <1>6
<1>10. Magnitudes(s) = CHOOSE f : Is(f)
  BY DEF Magnitudes, b
<1>11. Is(Magnitudes(s))
  <2>. HIDE DEF Is
  <2>. QED  BY <1>8, <1>10, Zenon
<1>12. \A i \in 0 .. n : Magnitudes(s)[i] \in Sums
  <2>. DEFINE F == Magnitudes(s)
              In == { i \in 0 .. n : F[i] \in Sums }
  <2>1. F[0] = b /\ \A i \in 1 .. n : F[i] = step[i][F[i - 1]] \/ F[i - 1] \notin Sums
    <3>. HIDE DEF Is
    <3>. QED  BY <1>4, <1>9, <1>11
  <2>. HIDE DEF F
  <2>2. 0 \in In /\ \A i \in 1 .. n : i - 1 \in In => i \in In
    BY <1>1, <1>3, <1>6, <2>1
  <2>3. \A i \in 0 .. n : i \in In
    <3>. HIDE DEF In, n
    <3>. QED  BY <1>1, <2>2, EachInTurn
  <2>. QED  BY <2>3 DEF F
<1>. HIDE DEF Is
<1>. QED  BY <1>9, <1>11, <1>12 DEF b

\* The unsigned value after each symbol.
LEMMA WrappingSteps ==
  ASSUME NEW s \in Seq(STRING)
  PROVE  /\ Wrapping(s)[0] = [ok |-> s # << >>, value |-> 0]
         /\ \A i \in 1 .. Len(s) : Wrapping(s)[i] = UnsignedStep(Wrapping(s)[i - 1], s[i])
         /\ \A i \in 0 .. Len(s) : Wrapping(s)[i] \in Wraps
<1>. DEFINE n == Len(s)
            b == [ok |-> s # << >>, value |-> 0]
            Is(g) == g = [i \in 0 .. n |-> IF i = 0 THEN b ELSE UnsignedStep(g[i - 1], s[i])]
            step == [i \in 1 .. n |-> [t \in Wraps |-> UnsignedStep(t, s[i])]]
<1>1. n \in Nat /\ b \in Wraps
  BY DEF Wraps
<1>3. step \in [1 .. n -> [Wraps -> Wraps]]
  <2>1. \A t \in Wraps : \A c : UnsignedStep(t, c) \in Wraps
    <3>. TAKE t \in Wraps
    <3>. TAKE c
    <3>1. Rejected \in Wraps /\ t.value \in Nat
      BY DEF Wraps, Rejected
    <3>2. c \in DOMAIN Digit => [ok |-> TRUE, value |-> (t.value * 10 + Digit[c]) % (2 * Limit64)] \in Wraps
      <4>. SUFFICES ASSUME c \in DOMAIN Digit PROVE (t.value * 10 + Digit[c]) % (2 * Limit64) \in Nat
        BY DEF Wraps
      <4>1. t.value * 10 + Digit[c] \in Nat /\ 2 * Limit64 \in Nat /\ 2 * Limit64 > 0
        BY <3>1, DigitWorth, WidthsAssumption
      <4>. QED  BY <4>1
    <3>. QED  BY <3>1, <3>2 DEF UnsignedStep
  <2>. QED  BY <2>1
<1>4. \A t \in Wraps, i \in 1 .. n : step[i][t] = UnsignedStep(t, s[i])
  OBVIOUS
<1>. HIDE DEF step, b
<1>5. PICK g \in [0 .. n -> Wraps] : g[0] = b /\ \A i \in 1 .. n : g[i] = step[i][g[i - 1]]
  <2>. HIDE DEF n
  <2>2. \E g : Stepwise(g, Wraps, n, b, step)
    BY <1>1, <1>3, StepByStep
  <2>. QED  BY <2>2 DEF Stepwise
<1>6. \A i \in 1 .. n : i - 1 \in 0 .. n /\ i \in 0 .. n /\ i # 0
  BY <1>1
<1>7. \A i \in 0 .. n : g[i] = IF i = 0 THEN b ELSE UnsignedStep(g[i - 1], s[i])
  <2>1. \A i \in 1 .. n : g[i] = UnsignedStep(g[i - 1], s[i])
    BY <1>4, <1>5, <1>6
  <2>2. \A i \in 0 .. n : i = 0 \/ i \in 1 .. n
    BY <1>1
  <2>. QED  BY <1>5, <2>1, <2>2
<1>8. Is(g)
  <2>2. g = [i \in 0 .. n |-> g[i]]
    BY <1>5
  <2>. QED  BY <1>7, <2>2
<1>9. \A f : Is(f) => f[0] = b /\ \A i \in 1 .. n : f[i] = UnsignedStep(f[i - 1], s[i])
  BY <1>1, <1>6
<1>10. Wrapping(s) = CHOOSE f : Is(f)
  BY DEF Wrapping, b
<1>11. Is(Wrapping(s))
  <2>. HIDE DEF Is
  <2>. QED  BY <1>8, <1>10, Zenon
<1>12. \A i \in 0 .. n : Wrapping(s)[i] \in Wraps
  <2>. DEFINE F == Wrapping(s)
              In == { i \in 0 .. n : F[i] \in Wraps }
  <2>1. F[0] = b /\ \A i \in 1 .. n : F[i] = step[i][F[i - 1]] \/ F[i - 1] \notin Wraps
    <3>. HIDE DEF Is
    <3>. QED  BY <1>4, <1>9, <1>11
  <2>. HIDE DEF F
  <2>2. 0 \in In /\ \A i \in 1 .. n : i - 1 \in In => i \in In
    BY <1>1, <1>3, <1>6, <2>1
  <2>3. \A i \in 0 .. n : i \in In
    <3>. HIDE DEF In, n
    <3>. QED  BY <1>1, <2>2, EachInTurn
  <2>. QED  BY <2>3 DEF F
<1>. HIDE DEF Is
<1>. QED  BY <1>9, <1>11, <1>12 DEF b

\* The decimal value after each digit.
LEMMA DecimalSteps ==
  ASSUME NEW s \in Seq(STRING), IsNumeral(s)
  PROVE  /\ Decimal(s)[0] = 0
         /\ \A i \in 1 .. Len(s) : Decimal(s)[i] = Decimal(s)[i - 1] * 10 + Digit[s[i]]
         /\ \A i \in 0 .. Len(s) : Decimal(s)[i] \in Nat
         /\ NumeralValue(s) = Decimal(s)[Len(s)] /\ NumeralValue(s) \in Nat
<1>. DEFINE n == Len(s)
            Is(g) == g = [i \in 0 .. n |-> IF i = 0 THEN 0 ELSE g[i - 1] * 10 + Digit[s[i]]]
            step == [i \in 1 .. n |-> [t \in Nat |-> t * 10 + Digit[s[i]]]]
<1>1. n \in Nat /\ 0 \in Nat
  OBVIOUS
<1>2. \A i \in 1 .. n : Digit[s[i]] \in Nat
  BY DigitWorth DEF IsNumeral
<1>3. step \in [1 .. n -> [Nat -> Nat]]
  <2>1. \A i \in 1 .. n : \A t \in Nat : t * 10 + Digit[s[i]] \in Nat
    BY <1>2
  <2>. QED  BY <2>1
<1>4. \A t \in Nat, i \in 1 .. n : step[i][t] = t * 10 + Digit[s[i]]
  OBVIOUS
<1>. HIDE DEF step
<1>5. PICK g \in [0 .. n -> Nat] : g[0] = 0 /\ \A i \in 1 .. n : g[i] = step[i][g[i - 1]]
  <2>. HIDE DEF n
  <2>2. \E g : Stepwise(g, Nat, n, 0, step)
    BY <1>1, <1>3, StepByStep
  <2>. QED  BY <2>2 DEF Stepwise
<1>6. \A i \in 1 .. n : i - 1 \in 0 .. n /\ i \in 0 .. n /\ i # 0
  BY <1>1
<1>7. \A i \in 0 .. n : g[i] = IF i = 0 THEN 0 ELSE g[i - 1] * 10 + Digit[s[i]]
  <2>1. \A i \in 1 .. n : g[i] = g[i - 1] * 10 + Digit[s[i]]
    BY <1>4, <1>5, <1>6
  <2>2. \A i \in 0 .. n : i = 0 \/ i \in 1 .. n
    BY <1>1
  <2>. QED  BY <1>5, <2>1, <2>2
<1>8. Is(g)
  <2>2. g = [i \in 0 .. n |-> g[i]]
    BY <1>5
  <2>. QED  BY <1>7, <2>2
<1>9. \A f : Is(f) => f[0] = 0 /\ \A i \in 1 .. n : f[i] = f[i - 1] * 10 + Digit[s[i]]
  BY <1>1, <1>6
<1>10. Decimal(s) = CHOOSE f : Is(f)
  BY DEF Decimal
<1>11. Is(Decimal(s))
  <2>. HIDE DEF Is
  <2>. QED  BY <1>8, <1>10, Zenon
<1>12. \A i \in 0 .. n : Decimal(s)[i] \in Nat
  <2>. DEFINE F == Decimal(s)
              In == { i \in 0 .. n : F[i] \in Nat }
  <2>1. F[0] = 0 /\ \A i \in 1 .. n : F[i] = step[i][F[i - 1]] \/ F[i - 1] \notin Nat
    <3>1. F[0] = 0 /\ \A i \in 1 .. n : F[i] = F[i - 1] * 10 + Digit[s[i]]
      <4>. HIDE DEF Is, F
      <4>1. Is(F)
        BY <1>11 DEF F
      <4>. QED  BY <1>9, <4>1
    <3>. HIDE DEF F, n
    <3>. QED  BY <1>4, <3>1
  <2>. HIDE DEF F
  <2>2. 0 \in In /\ \A i \in 1 .. n : i - 1 \in In => i \in In
    <3>1. \A i \in 1 .. n : \A t \in Nat : step[i][t] \in Nat
      BY <1>3
    <3>2. \A i \in 1 .. n : F[i - 1] \in Nat => F[i] \in Nat
      BY <2>1, <3>1
    <3>3. 0 \in 0 .. n
      BY <1>1
    <3>. QED  BY <1>1, <1>6, <2>1, <3>2, <3>3
  <2>3. \A i \in 0 .. n : i \in In
    <3>. HIDE DEF In, n
    <3>. QED  BY <1>1, <2>2, EachInTurn
  <2>. QED  BY <2>3 DEF F
<1>. HIDE DEF Is
<1>13. n \in 0 .. n
  BY <1>1
<1>. QED  BY <1>9, <1>11, <1>12, <1>13 DEF NumeralValue

\* A signed number that has been accepted so far consists of digits, and is
\* not too long.
LEMMA SignedDigits ==
  ASSUME NEW s \in Seq(STRING)
  PROVE  \A i \in 0 .. Len(s) :
           Magnitudes(s)[i].ok => s # << >> /\ \A j \in 1 .. i : s[j] \in DOMAIN Digit
<1>. DEFINE F == Magnitudes(s)
            n == Len(s)
            In == { i \in 0 .. n : F[i].ok => s # << >> /\ \A j \in 1 .. i : s[j] \in DOMAIN Digit }
<1>1. n \in Nat
  OBVIOUS
<1>2. /\ F[0].ok => s # << >>
      /\ \A i \in 1 .. n : F[i] = SignedStep(F[i - 1], s[i])
      /\ \A i \in 0 .. n : F[i] \in Sums
  <2>1. F[0] = [ok |-> s # << >>, mag |-> 0, n |-> 0]
    BY MagnitudeSteps
  <2>2. s = << >> => F[0] = [ok |-> FALSE, mag |-> 0, n |-> 0]
    <3>. HIDE DEF F
    <3>. QED  BY <2>1, Zenon
  <2>3. s = << >> => ~F[0].ok
    <3>. HIDE DEF F
    <3>. QED  BY <2>2
  <2>. QED  BY <2>3, MagnitudeSteps
<1>. HIDE DEF F
<1>3. \A i \in 1 .. n : F[i].ok => F[i - 1].ok /\ s[i] \in DOMAIN Digit
  <2>. TAKE i \in 1 .. n
  <2>1. i - 1 \in 0 .. n
    BY <1>1
  <2>2. ~ [F[i - 1] EXCEPT !.ok = FALSE].ok
    BY <1>2, <2>1 DEF Sums
  <2>. QED  BY <1>2, <2>2 DEF SignedStep
<1>4. 0 \in In
  BY <1>1, <1>2
<1>5. ASSUME NEW i \in 1 .. n, i - 1 \in In PROVE i \in In
  <2>1. \A j \in 1 .. i : j \in 1 .. i - 1 \/ j = i
    BY <1>1
  <2>2. i \in 0 .. n
    BY <1>1
  <2>. QED  BY <1>3, <1>5, <2>1, <2>2
<1>6. \A i \in 0 .. n : i \in In
  <2>. HIDE DEF In, n
  <2>. QED  BY <1>1, <1>4, <1>5, EachInTurn
<1>. QED  BY <1>6 DEF F

\* Bounding the magnitude before the multiplication bounds it after.
LEMMA BoundedFirst ==
  ASSUME NEW m \in Nat, NEW d \in Nat, d <= 9
  PROVE  m <= (Limit64 - d) \div 10 <=> m * 10 + d <= Limit64
<1>. DEFINE r == Limit64 - d
<1>1. r \in Nat
  BY WidthsAssumption
<1>. HIDE DEF r
<1>2. m <= r \div 10 <=> m * 10 <= r
  BY <1>1
<1>3. m * 10 <= r <=> m * 10 + d <= Limit64
  BY WidthsAssumption DEF r
<1>. QED  BY <1>2, <1>3 DEF r

\* After each digit the magnitude is accepted when the digits so far are not
\* too many and say no more than the limit, and then it is what they say.
LEMMA SignedSums ==
  ASSUME NEW s \in Seq(STRING), IsNumeral(s)
  PROVE  \A i \in 0 .. Len(s) :
           /\ Magnitudes(s)[i].ok <=> i <= MaxDigits /\ Decimal(s)[i] <= Limit64
           /\ Magnitudes(s)[i].ok => Magnitudes(s)[i].mag = Decimal(s)[i] /\ Magnitudes(s)[i].n = i
<1>. DEFINE F == Magnitudes(s)
            V == Decimal(s)
            n == Len(s)
            Right(i) == /\ F[i].ok <=> i <= MaxDigits /\ V[i] <= Limit64
                        /\ F[i].ok => F[i].mag = V[i] /\ F[i].n = i
            In == { i \in 0 .. n : Right(i) }
<1>1. n \in Nat /\ Limit64 \in Nat /\ MaxDigits \in Nat
  BY WidthsAssumption
<1>2. /\ F[0] = [ok |-> TRUE, mag |-> 0, n |-> 0]
      /\ \A i \in 1 .. n : F[i] = SignedStep(F[i - 1], s[i])
      /\ \A i \in 0 .. n : F[i] \in Sums
  BY MagnitudeSteps DEF IsNumeral
<1>3. /\ V[0] = 0
      /\ \A i \in 1 .. n : V[i] = V[i - 1] * 10 + Digit[s[i]]
      /\ \A i \in 0 .. n : V[i] \in Nat
  BY DecimalSteps
<1>4. \A i \in 1 .. n : s[i] \in DOMAIN Digit /\ Digit[s[i]] \in Nat /\ Digit[s[i]] <= 9
  BY DigitWorth DEF IsNumeral
<1>. HIDE DEF F, V
<1>5. 0 \in In
  BY <1>1, <1>2, <1>3
<1>6. ASSUME NEW i \in 1 .. n, i - 1 \in In PROVE i \in In
  <2>. DEFINE acc == F[i - 1]
              d == Digit[s[i]]
              x == V[i - 1]
  <2>1. i \in 0 .. n /\ i - 1 \in 0 .. n /\ i \in Nat
    BY <1>1
  <2>2. /\ acc \in Sums /\ F[i] = SignedStep(acc, s[i]) /\ V[i] = x * 10 + d
        /\ x \in Nat /\ d \in Nat /\ d <= 9 /\ s[i] \in DOMAIN Digit
    BY <1>2, <1>3, <1>4, <2>1
  <2>3. /\ acc.ok <=> i - 1 <= MaxDigits /\ x <= Limit64
        /\ acc.ok => acc.mag = x /\ acc.n = i - 1
    BY <1>6
  <2>. HIDE DEF acc, x
  <2>4. CASE acc.ok /\ i - 1 < MaxDigits /\ x * 10 + d <= Limit64
    <3>1. F[i] = [ok |-> TRUE, mag |-> x * 10 + d, n |-> i - 1 + 1]
      BY <2>2, <2>3, <2>4, BoundedFirst DEF SignedStep
    <3>. QED  BY <1>1, <2>1, <2>2, <2>4, <3>1
  <2>5. CASE ~(acc.ok /\ i - 1 < MaxDigits /\ x * 10 + d <= Limit64)
    <3>1. F[i] = [acc EXCEPT !.ok = FALSE]
      BY <2>2, <2>3, <2>5, BoundedFirst DEF SignedStep
    <3>2. ~F[i].ok
      BY <2>2, <3>1 DEF Sums
    <3>3. ~(i <= MaxDigits /\ x * 10 + d <= Limit64)
      <4>. HIDE DEF d
      <4>. QED  BY <1>1, <2>1, <2>2, <2>3, <2>5
    <3>. QED  BY <2>1, <2>2, <3>2, <3>3
  <2>. QED  BY <2>4, <2>5
<1>7. \A i \in 0 .. n : i \in In
  <2>. HIDE DEF In, n
  <2>. QED  BY <1>1, <1>5, <1>6, EachInTurn
<1>. QED  BY <1>7 DEF F, V

\* An unsigned number that has been accepted so far consists of digits.
LEMMA UnsignedDigits ==
  ASSUME NEW s \in Seq(STRING)
  PROVE  \A i \in 0 .. Len(s) :
           Wrapping(s)[i].ok => s # << >> /\ \A j \in 1 .. i : s[j] \in DOMAIN Digit
<1>. DEFINE F == Wrapping(s)
            n == Len(s)
            In == { i \in 0 .. n : F[i].ok => s # << >> /\ \A j \in 1 .. i : s[j] \in DOMAIN Digit }
<1>1. n \in Nat
  OBVIOUS
<1>2. /\ F[0].ok => s # << >>
      /\ \A i \in 1 .. n : F[i] = UnsignedStep(F[i - 1], s[i])
  <2>1. F[0] = [ok |-> s # << >>, value |-> 0]
    BY WrappingSteps
  <2>2. s = << >> => F[0] = [ok |-> FALSE, value |-> 0]
    <3>. HIDE DEF F
    <3>. QED  BY <2>1, Zenon
  <2>3. s = << >> => ~F[0].ok
    <3>. HIDE DEF F
    <3>. QED  BY <2>2
  <2>. QED  BY <2>3, WrappingSteps
<1>. HIDE DEF F
<1>3. \A i \in 1 .. n : F[i].ok => F[i - 1].ok /\ s[i] \in DOMAIN Digit
  <2>1. ~Rejected.ok
    BY DEF Rejected
  <2>2. \A acc, c : UnsignedStep(acc, c).ok => acc.ok /\ c \in DOMAIN Digit
    BY <2>1, Zenon DEF UnsignedStep
  <2>. QED  BY <1>2, <2>2
<1>4. 0 \in In
  BY <1>1, <1>2
<1>5. ASSUME NEW i \in 1 .. n, i - 1 \in In PROVE i \in In
  <2>1. \A j \in 1 .. i : j \in 1 .. i - 1 \/ j = i
    BY <1>1
  <2>2. i \in 0 .. n
    BY <1>1
  <2>. QED  BY <1>3, <1>5, <2>1, <2>2
<1>6. \A i \in 0 .. n : i \in In
  <2>. HIDE DEF In, n
  <2>. QED  BY <1>1, <1>4, <1>5, EachInTurn
<1>. QED  BY <1>6 DEF F

\* There is one remainder.
LEMMA OneRemainder ==
  ASSUME NEW M \in Nat, M > 0, NEW k \in Nat, NEW e \in Nat, e < M
  PROVE  (M * k + e) % M = e
<1>. DEFINE a == M * k + e
            q == a \div M
            r == a % M
<1>1. a \in Nat
  OBVIOUS
<1>2. a = M * k + e
  OBVIOUS
<1>. HIDE DEF a
<1>3. q \in Nat /\ r \in Nat /\ r < M /\ a = M * q + r
  BY <1>1
<1>. HIDE DEF q, r
<1>4. M * k + e = M * q + r
  BY <1>2, <1>3
<1>5. ~ k < q
  <2>. SUFFICES ASSUME k < q PROVE FALSE
    OBVIOUS
  <2>1. k + 1 <= q
    BY <1>3
  <2>2. M * (k + 1) <= M * q
    BY <1>3, <2>1
  <2>3. M * (k + 1) = M * k + M /\ M * k \in Nat /\ M * q \in Nat
    BY <1>3
  <2>. QED  BY <1>3, <1>4, <2>2, <2>3
<1>6. ~ q < k
  <2>. SUFFICES ASSUME q < k PROVE FALSE
    OBVIOUS
  <2>1. q + 1 <= k
    BY <1>3
  <2>2. M * (q + 1) <= M * k
    BY <1>3, <2>1
  <2>3. M * (q + 1) = M * q + M /\ M * k \in Nat /\ M * q \in Nat
    BY <1>3
  <2>. QED  BY <1>3, <1>4, <2>2, <2>3
<1>7. q = k
  BY <1>3, <1>5, <1>6
<1>8. r = e
  <2>1. M * k \in Nat
    OBVIOUS
  <2>. QED  BY <1>3, <1>4, <1>7, <2>1
<1>. QED  BY <1>8 DEF r, a

\* A digit is appended to a remainder as to the number itself.
LEMMA DigitAfterWrap ==
  ASSUME NEW M \in Nat, M > 0, NEW x \in Nat, NEW d \in Nat
  PROVE  ((x % M) * 10 + d) % M = (x * 10 + d) % M
<1>. DEFINE q == x \div M
            r == x % M
            y == r * 10 + d
            k == y \div M
            e == y % M
<1>1. q \in Nat /\ r \in Nat /\ r < M /\ x = M * q + r
  OBVIOUS
<1>. HIDE DEF q, r
<1>2. y \in Nat
  BY <1>1
<1>3. y = r * 10 + d
  OBVIOUS
<1>. HIDE DEF y
<1>4. k \in Nat /\ e \in Nat /\ e < M /\ y = M * k + e
  BY <1>2
<1>. HIDE DEF k, e
<1>5. x * 10 + d = M * (10 * q + k) + e
  <2>1. x * 10 = 10 * (M * q) + r * 10 /\ M * q \in Nat /\ M * k \in Nat
    BY <1>1, <1>4
  <2>2. M * (10 * q + k) = 10 * (M * q) + M * k
    BY <1>1, <1>4
  <2>. QED  BY <1>1, <1>3, <1>4, <2>1, <2>2
<1>6. (M * (10 * q + k) + e) % M = e
  <2>1. 10 * q + k \in Nat
    BY <1>1, <1>4
  <2>. QED  BY <1>4, <2>1, OneRemainder
<1>. QED  BY <1>5, <1>6 DEF e, y, r

\* After each digit an unsigned number is what the digits say but for
\* multiples of the width, and it is accepted as long as they fit.
LEMMA UnsignedSums ==
  ASSUME NEW s \in Seq(STRING), IsNumeral(s)
  PROVE  \A i \in 0 .. Len(s) :
           /\ Wrapping(s)[i].ok => Wrapping(s)[i].value = Decimal(s)[i] % (2 * Limit64)
           /\ Decimal(s)[i] < 2 * Limit64 => Wrapping(s)[i].ok
<1>. DEFINE F == Wrapping(s)
            V == Decimal(s)
            M == 2 * Limit64
            n == Len(s)
            Right(i) == (F[i].ok => F[i].value = V[i] % M) /\ (V[i] < M => F[i].ok)
            In == { i \in 0 .. n : Right(i) }
<1>1. n \in Nat /\ M \in Nat /\ M > 0
  BY WidthsAssumption
<1>2. /\ F[0] = [ok |-> TRUE, value |-> 0]
      /\ \A i \in 1 .. n : F[i] = UnsignedStep(F[i - 1], s[i])
      /\ \A i \in 0 .. n : F[i] \in Wraps
  BY WrappingSteps DEF IsNumeral
<1>3. /\ V[0] = 0
      /\ \A i \in 1 .. n : V[i] = V[i - 1] * 10 + Digit[s[i]]
      /\ \A i \in 0 .. n : V[i] \in Nat
  BY DecimalSteps
<1>4. \A i \in 1 .. n : s[i] \in DOMAIN Digit /\ Digit[s[i]] \in Nat
  BY DigitWorth DEF IsNumeral
<1>5. \A t, c : UnsignedStep(t, c) = IF t.ok /\ c \in DOMAIN Digit /\ (t.value * 10 + Digit[c]) % M >= t.value
                                     THEN [ok |-> TRUE, value |-> (t.value * 10 + Digit[c]) % M] ELSE Rejected
  BY DEF UnsignedStep
<1>6. \A x \in Nat : x < M => x % M = x
  <2>. TAKE x \in Nat
  <2>. HIDE DEF M
  <2>1. x < M => (M * 0 + x) % M = x
    BY <1>1, OneRemainder
  <2>. QED  BY <1>1, <2>1
<1>. HIDE DEF F, V, M
<1>7. 0 \in In
  BY <1>1, <1>2, <1>3, <1>6
<1>8. ASSUME NEW i \in 1 .. n, i - 1 \in In PROVE i \in In
  <2>. DEFINE acc == F[i - 1]
              d == Digit[s[i]]
              x == V[i - 1]
              next == (acc.value * 10 + d) % M
  <2>1. i \in 0 .. n /\ i - 1 \in 0 .. n
    BY <1>1
  <2>2. /\ acc \in Wraps /\ V[i] = x * 10 + d /\ x \in Nat /\ d \in Nat /\ s[i] \in DOMAIN Digit
        /\ F[i] = IF acc.ok /\ next >= acc.value THEN [ok |-> TRUE, value |-> next] ELSE Rejected
    BY <1>2, <1>3, <1>4, <1>5, <2>1
  <2>3. (acc.ok => acc.value = x % M) /\ (x < M => acc.ok)
    BY <1>8
  <2>. HIDE DEF acc, x, d, next
  <2>4. acc.ok => next = V[i] % M
    <3>1. acc.ok => next = ((x % M) * 10 + d) % M
      BY <2>3, Zenon DEF next
    <3>2. ((x % M) * 10 + d) % M = (x * 10 + d) % M
      BY <1>1, <2>2, DigitAfterWrap
    <3>. QED  BY <2>2, <3>1, <3>2, Zenon
  <2>5. F[i].ok => F[i].value = V[i] % M
    BY <2>2, <2>4 DEF Rejected
  <2>6. ASSUME V[i] < M PROVE F[i].ok
    <3>1. x < M /\ V[i] \in Nat /\ V[i] >= x
      BY <1>1, <2>2, <2>6
    <3>2. acc.ok /\ acc.value = x /\ next = V[i]
      BY <1>6, <2>2, <2>3, <2>4, <2>6, <3>1
    <3>. QED  BY <2>2, <3>1, <3>2
  <2>. QED  BY <2>1, <2>5, <2>6
<1>9. \A i \in 0 .. n : i \in In
  <2>. HIDE DEF In, n
  <2>. QED  BY <1>1, <1>7, <1>8, EachInTurn
<1>. QED  BY <1>9 DEF F, V, M

\* A 64 bit signed number is parsed exactly.
LEMMA SignedParse ==
  ASSUME NEW s \in Seq(STRING)
  PROVE  SignedExact(s, "i64", bc_parse_i64(s))
<1>. DEFINE ds == AfterSign(s, {"-", "+"})
            neg == Signed(s, {"-"})
            r == Magnitudes(ds)[Len(ds)]
            x == NumeralValue(ds)
            v == IF neg THEN -x ELSE x
<1>1. ds \in Seq(STRING)
  BY TextParts
<1>2. bc_parse_i64(s) = WithSign(r, neg)
  BY DEF bc_parse_i64
<1>3. SignedExact(s, "i64", bc_parse_i64(s)) <=>
        IF IsNumeral(ds) /\ Len(ds) <= MaxDigits /\ InRange(v, "i64")
        THEN WithSign(r, neg) = [ok |-> TRUE, value |-> v] ELSE WithSign(r, neg) = Rejected
  BY <1>2 DEF SignedExact
<1>4. InRange(v, "i64") <=> -Limit64 <= v /\ v < Limit64
  BY DEF InRange
<1>. HIDE DEF ds, neg
<1>5. Len(ds) \in 0 .. Len(ds) /\ Len(ds) \in Nat
  BY <1>1
<1>6. CASE ~IsNumeral(ds)
  <2>1. ~r.ok
    BY <1>1, <1>5, <1>6, SignedDigits DEF IsNumeral
  <2>. QED  BY <1>3, <1>6, <2>1 DEF WithSign
<1>7. CASE IsNumeral(ds)
  <2>1. x \in Nat /\ Limit64 \in Nat /\ Limit64 >= 9
    BY <1>1, <1>7, DecimalSteps, WidthsAssumption
  <2>2. (r.ok <=> Len(ds) <= MaxDigits /\ x <= Limit64) /\ (r.ok => r.mag = x)
    BY <1>1, <1>5, <1>7, SignedSums DEF NumeralValue
  <2>. HIDE DEF r, x
  <2>3. CASE neg
    <3>1. v = -x /\ (InRange(v, "i64") <=> x <= Limit64)
      BY <1>4, <2>1, <2>3
    <3>2. WithSign(r, neg) = IF ~r.ok THEN Rejected ELSE [ok |-> TRUE, value |-> -r.mag]
      BY <2>3 DEF WithSign
    <3>. HIDE DEF v
    <3>. QED  BY <1>3, <1>7, <2>2, <3>1, <3>2
  <2>4. CASE ~neg
    <3>1. v = x /\ (InRange(v, "i64") <=> x < Limit64)
      BY <1>4, <2>1, <2>4
    <3>2. WithSign(r, neg) = IF ~r.ok \/ r.mag > Limit64 - 1 THEN Rejected ELSE [ok |-> TRUE, value |-> r.mag]
      BY <2>4 DEF WithSign
    <3>3. x > Limit64 - 1 <=> ~(x < Limit64)
      BY <2>1
    <3>4. x < Limit64 => x <= Limit64
      BY <2>1
    <3>. HIDE DEF v
    <3>. QED  BY <1>3, <1>7, <2>2, <3>1, <3>2, <3>3, <3>4
  <2>. QED  BY <2>3, <2>4
<1>. QED  BY <1>6, <1>7

\* So is a 32 bit one.
LEMMA SignedParseNarrow ==
  ASSUME NEW s \in Seq(STRING)
  PROVE  SignedExact(s, "i32", Narrowed(bc_parse_i64(s), -Limit32, Limit32 - 1))
<1>. DEFINE ds == AfterSign(s, {"-", "+"})
            p == bc_parse_i64(s)
            v == IF Signed(s, {"-"}) THEN -NumeralValue(ds) ELSE NumeralValue(ds)
            q == Narrowed(p, -Limit32, Limit32 - 1)
            Short == IsNumeral(ds) /\ Len(ds) <= MaxDigits
<1>1. ds \in Seq(STRING)
  BY TextParts
<1>2. IF Short /\ InRange(v, "i64") THEN p = [ok |-> TRUE, value |-> v] ELSE p = Rejected
  BY SignedParse DEF SignedExact
<1>3. SignedExact(s, "i32", q) <=> IF Short /\ InRange(v, "i32") THEN q = [ok |-> TRUE, value |-> v] ELSE q = Rejected
  BY DEF SignedExact
<1>4. (InRange(v, "i64") <=> -Limit64 <= v /\ v < Limit64) /\ (InRange(v, "i32") <=> -Limit32 <= v /\ v < Limit32)
  BY DEF InRange
<1>5. Short => v \in Int
  <2>1. IsNumeral(ds) => NumeralValue(ds) \in Nat
    BY <1>1, DecimalSteps
  <2>. HIDE DEF ds
  <2>. QED  BY <2>1
<1>. HIDE DEF v, ds, p, Short
<1>6. /\ Limit64 \in Nat /\ Limit32 \in Nat /\ Limit32 <= Limit64
      /\ ~Rejected.ok
  BY WidthsAssumption DEF Rejected
<1>7. q = IF p.ok /\ p.value \in -Limit32 .. Limit32 - 1 THEN p ELSE Rejected
  BY DEF Narrowed
<1>. HIDE DEF q
<1>8. ASSUME Short, InRange(v, "i64") PROVE SignedExact(s, "i32", q)
  <2>1. p.ok /\ p.value = v /\ v \in Int
    BY <1>2, <1>5, <1>8
  <2>2. v \in -Limit32 .. Limit32 - 1 <=> InRange(v, "i32")
    BY <1>4, <1>6, <2>1
  <2>. QED  BY <1>2, <1>3, <1>8, <1>7, <2>1, <2>2
<1>9. ASSUME ~(Short /\ InRange(v, "i64")) PROVE SignedExact(s, "i32", q)
  <2>1. p = Rejected
    BY <1>2, <1>9
  <2>2. q = Rejected
    BY <1>6, <1>7, <2>1
  <2>3. ~(Short /\ InRange(v, "i32"))
    BY <1>4, <1>5, <1>6, <1>9
  <2>. QED  BY <1>3, <2>2, <2>3
<1>. QED  BY <1>8, <1>9 DEF p, q

\* An unsigned number that has been accepted so far never got smaller as it
\* wrapped.
LEMMA UnsignedClimbs ==
  ASSUME NEW s \in Seq(STRING), IsNumeral(s)
  PROVE  \A i \in 0 .. Len(s) :
           Wrapping(s)[i].ok =>
             \A j \in 1 .. i : Decimal(s)[j] % (2 * Limit64) >= Decimal(s)[j - 1] % (2 * Limit64)
<1>. DEFINE F == Wrapping(s)
            W(i) == Decimal(s)[i] % (2 * Limit64)
            n == Len(s)
            In == { i \in 0 .. n : F[i].ok => \A j \in 1 .. i : W(j) >= W(j - 1) }
<1>1. n \in Nat
  OBVIOUS
<1>2. \A i \in 0 .. n : F[i].ok => F[i].value = W(i)
  BY UnsignedSums
<1>3. \A i \in 1 .. n : F[i] = UnsignedStep(F[i - 1], s[i])
  BY WrappingSteps
<1>. HIDE DEF F, W
<1>4. \A i \in 1 .. n : F[i].ok => F[i - 1].ok /\ F[i].value >= F[i - 1].value
  <2>1. ~Rejected.ok
    BY DEF Rejected
  <2>2. ASSUME NEW acc, NEW c, UnsignedStep(acc, c).ok
        PROVE  acc.ok /\ UnsignedStep(acc, c).value >= acc.value
    <3>. DEFINE next == (acc.value * 10 + Digit[c]) % (2 * Limit64)
    <3>1. UnsignedStep(acc, c) = IF acc.ok /\ c \in DOMAIN Digit /\ next >= acc.value
                                 THEN [ok |-> TRUE, value |-> next] ELSE Rejected
      BY DEF UnsignedStep
    <3>. HIDE DEF next
    <3>. QED  BY <2>1, <2>2, <3>1
  <2>. QED  BY <1>3, <2>2
<1>5. 0 \in In
  BY <1>1
<1>6. ASSUME NEW i \in 1 .. n, i - 1 \in In PROVE i \in In
  <2>1. \A j \in 1 .. i : j \in 1 .. i - 1 \/ j = i
    BY <1>1
  <2>2. i \in 0 .. n /\ i - 1 \in 0 .. n
    BY <1>1
  <2>3. F[i].ok => W(i) >= W(i - 1)
    BY <1>2, <1>4, <2>2
  <2>. QED  BY <1>4, <1>6, <2>1, <2>2, <2>3
<1>7. \A i \in 0 .. n : i \in In
  <2>. HIDE DEF In, n
  <2>. QED  BY <1>1, <1>5, <1>6, EachInTurn
<1>. QED  BY <1>7 DEF F, W

\* What an unsigned parse returns for any text at all: a number that fits is
\* accepted, and what is accepted is right modulo the width.
UnsignedSound(s, k, r) ==
  LET ds == AfterSign(s, {"+"})
  IN  /\ IsNumeral(ds) /\ InRange(NumeralValue(ds), k) => r = [ok |-> TRUE, value |-> NumeralValue(ds)]
      /\ r.ok => IsNumeral(ds) /\ InRange(r.value, k) /\ r.value = NumeralValue(ds) % (2 * Limit64)
      /\ ~r.ok => r = Rejected

\* A 64 bit unsigned number is parsed soundly.
LEMMA UnsignedParse ==
  ASSUME NEW s \in Seq(STRING)
  PROVE  UnsignedSound(s, "u64", bc_parse_u64(s))
<1>. DEFINE ds == AfterSign(s, {"+"})
            r == Wrapping(ds)[Len(ds)]
            x == NumeralValue(ds)
            M == 2 * Limit64
<1>1. ds \in Seq(STRING)
  BY TextParts
<1>2. bc_parse_u64(s) = r
  BY DEF bc_parse_u64
<1>3. UnsignedSound(s, "u64", r) <=>
        /\ IsNumeral(ds) /\ InRange(x, "u64") => r = [ok |-> TRUE, value |-> x]
        /\ r.ok => IsNumeral(ds) /\ InRange(r.value, "u64") /\ r.value = x % M
        /\ ~r.ok => r = Rejected
  BY DEF UnsignedSound
<1>4. \A v : InRange(v, "u64") <=> 0 <= v /\ v < M
  BY DEF InRange
<1>5. Len(ds) \in 0 .. Len(ds) /\ Len(ds) \in Nat /\ M \in Nat /\ M > 0
  BY <1>1, WidthsAssumption
<1>6. r \in Wraps
  BY <1>1, <1>5, WrappingSteps
<1>7. ~r.ok => r = Rejected
  <2>1. CASE Len(ds) = 0
    <3>1. ds = << >>
      BY <1>1, <2>1
    <3>2. r = [ok |-> ds # << >>, value |-> 0]
      BY <1>1, <2>1, WrappingSteps
    <3>. HIDE DEF r
    <3>. QED  BY <3>1, <3>2, Zenon DEF Rejected
  <2>2. CASE Len(ds) # 0
    <3>1. Len(ds) \in 1 .. Len(ds)
      BY <1>5, <2>2
    <3>2. r = UnsignedStep(Wrapping(ds)[Len(ds) - 1], ds[Len(ds)])
      BY <1>1, <3>1, WrappingSteps
    <3>3. \A t, c : ~UnsignedStep(t, c).ok => UnsignedStep(t, c) = Rejected
      <4>. TAKE t, c
      <4>. DEFINE y == (t.value * 10 + Digit[c]) % M
      <4>1. UnsignedStep(t, c) = [ok |-> TRUE, value |-> y] \/ UnsignedStep(t, c) = Rejected
        BY DEF UnsignedStep
      <4>. HIDE DEF y
      <4>. QED  BY <4>1
    <3>. QED  BY <3>2, <3>3
  <2>. QED  BY <2>1, <2>2
<1>8. r.ok => IsNumeral(ds)
  BY <1>1, <1>5, UnsignedDigits DEF IsNumeral
<1>9. IsNumeral(ds) => x \in Nat /\ (r.ok => r.value = x % M) /\ (x < M => r.ok)
  BY <1>1, <1>5, DecimalSteps, UnsignedSums
<1>. HIDE DEF ds, r, x, M
<1>10. \A y \in Nat : y % M \in Nat /\ y % M < M /\ (y < M => y % M = y)
  <2>. TAKE y \in Nat
  <2>1. y < M => (M * 0 + y) % M = y
    BY <1>5, OneRemainder
  <2>. QED  BY <1>5, <2>1
<1>11. r.ok => IsNumeral(ds) /\ InRange(r.value, "u64") /\ r.value = x % M
  BY <1>4, <1>5, <1>8, <1>9, <1>10
<1>12. IsNumeral(ds) /\ InRange(x, "u64") => r = [ok |-> TRUE, value |-> x]
  <2>. SUFFICES ASSUME IsNumeral(ds), InRange(x, "u64") PROVE r = [ok |-> TRUE, value |-> x]
    OBVIOUS
  <2>1. r.ok /\ r.value = x
    BY <1>4, <1>9, <1>10
  <2>2. r.ok = TRUE
    BY <1>6, <2>1 DEF Wraps
  <2>. QED  BY <1>6, <2>1, <2>2 DEF Wraps
<1>. QED  BY <1>2, <1>3, <1>7, <1>11, <1>12

\* So is a 32 bit one.
LEMMA UnsignedParseNarrow ==
  ASSUME NEW s \in Seq(STRING)
  PROVE  UnsignedSound(s, "u32", Narrowed(bc_parse_u64(s), 0, 2 * Limit32 - 1))
<1>. DEFINE ds == AfterSign(s, {"+"})
            p == bc_parse_u64(s)
            x == NumeralValue(ds)
            q == Narrowed(p, 0, 2 * Limit32 - 1)
            M == 2 * Limit64
<1>1. ds \in Seq(STRING)
  BY TextParts
<1>2. /\ IsNumeral(ds) /\ InRange(x, "u64") => p = [ok |-> TRUE, value |-> x]
      /\ p.ok => IsNumeral(ds) /\ InRange(p.value, "u64") /\ p.value = x % M
      /\ ~p.ok => p = Rejected
  BY UnsignedParse DEF UnsignedSound
<1>3. UnsignedSound(s, "u32", q) <=>
        /\ IsNumeral(ds) /\ InRange(x, "u32") => q = [ok |-> TRUE, value |-> x]
        /\ q.ok => IsNumeral(ds) /\ InRange(q.value, "u32") /\ q.value = x % M
        /\ ~q.ok => q = Rejected
  BY DEF UnsignedSound
<1>4. \A v : (InRange(v, "u64") <=> 0 <= v /\ v < M) /\ (InRange(v, "u32") <=> 0 <= v /\ v < 2 * Limit32)
  BY DEF InRange
<1>5. IsNumeral(ds) => x \in Nat
  BY <1>1, DecimalSteps
<1>6. Limit64 \in Nat /\ Limit32 \in Nat /\ Limit32 <= Limit64 /\ M \in Nat /\ M > 0 /\ ~Rejected.ok
  BY WidthsAssumption DEF Rejected
<1>. HIDE DEF ds, p, x
<1>7. q = IF p.ok /\ p.value \in 0 .. 2 * Limit32 - 1 THEN p ELSE Rejected
  BY DEF Narrowed
<1>8. p.ok => p.value \in Nat
  BY <1>2, <1>5, <1>6
<1>. HIDE DEF q, M
<1>9. q.ok => IsNumeral(ds) /\ InRange(q.value, "u32") /\ q.value = x % M
  <2>. SUFFICES ASSUME q.ok PROVE IsNumeral(ds) /\ InRange(q.value, "u32") /\ q.value = x % M
    OBVIOUS
  <2>1. q = p /\ p.ok /\ p.value \in 0 .. 2 * Limit32 - 1
    BY <1>6, <1>7
  <2>. QED  BY <1>2, <1>4, <1>6, <2>1
<1>10. ~q.ok => q = Rejected
  BY <1>7
<1>11. IsNumeral(ds) /\ InRange(x, "u32") => q = [ok |-> TRUE, value |-> x]
  <2>. SUFFICES ASSUME IsNumeral(ds), InRange(x, "u32") PROVE q = [ok |-> TRUE, value |-> x]
    OBVIOUS
  <2>1. InRange(x, "u64") /\ x \in 0 .. 2 * Limit32 - 1
    BY <1>4, <1>5, <1>6 DEF M
  <2>2. p = [ok |-> TRUE, value |-> x]
    BY <1>2, <2>1
  <2>. QED  BY <1>7, <2>1, <2>2
<1>. QED  BY <1>3, <1>9, <1>10, <1>11 DEF q, p

\* A wrap that is not seen is the only way for a number that does not fit to
\* be accepted, at either width.
LEMMA UnsignedParseExact ==
  ASSUME NEW s \in Seq(STRING), ~WrapsUnseen(s)
  PROVE  /\ UnsignedExact(s, "u64", bc_parse_u64(s))
         /\ UnsignedExact(s, "u32", Narrowed(bc_parse_u64(s), 0, 2 * Limit32 - 1))
<1>. DEFINE ds == AfterSign(s, {"+"})
            p == bc_parse_u64(s)
            q == Narrowed(p, 0, 2 * Limit32 - 1)
            x == NumeralValue(ds)
            M == 2 * Limit64
<1>1. ds \in Seq(STRING) /\ Len(ds) \in Nat /\ Len(ds) \in 0 .. Len(ds)
  BY TextParts
<1>2. p = Wrapping(ds)[Len(ds)]
  BY DEF bc_parse_u64
<1>3. p.ok => IsNumeral(ds) /\ p.value = x % M /\ x \in Nat /\ x < M
  <2>. SUFFICES ASSUME p.ok PROVE IsNumeral(ds) /\ p.value = x % M /\ x \in Nat /\ x < M
    OBVIOUS
  <2>1. IsNumeral(ds) /\ p.value = x % M
    BY UnsignedParse DEF UnsignedSound
  <2>2. x \in Nat /\ M \in Nat
    BY <1>1, <2>1, DecimalSteps, WidthsAssumption
  <2>3. \A i \in 1 .. Len(ds) : Decimal(ds)[i] % M >= Decimal(ds)[i - 1] % M
    BY <1>1, <1>2, <2>1, UnsignedClimbs
  <2>4. ~(x >= M)
    BY <2>1, <2>3 DEF WrapsUnseen
  <2>. QED  BY <2>1, <2>2, <2>4
<1>4. /\ \A v : InRange(v, "u64") <=> 0 <= v /\ v < M
      /\ \A v : InRange(v, "u32") <=> 0 <= v /\ v < 2 * Limit32
  BY DEF InRange
<1>5. /\ IsNumeral(ds) /\ InRange(x, "u64") => p = [ok |-> TRUE, value |-> x]
      /\ ~p.ok => p = Rejected
  BY UnsignedParse DEF UnsignedSound
<1>6. /\ IsNumeral(ds) /\ InRange(x, "u32") => q = [ok |-> TRUE, value |-> x]
      /\ q.ok => InRange(q.value, "u32")
      /\ ~q.ok => q = Rejected
  BY UnsignedParseNarrow DEF UnsignedSound
<1>7. UnsignedExact(s, "u64", p) <=>
        IF IsNumeral(ds) /\ InRange(x, "u64") THEN p = [ok |-> TRUE, value |-> x] ELSE p = Rejected
  BY DEF UnsignedExact
<1>8. UnsignedExact(s, "u32", q) <=>
        IF IsNumeral(ds) /\ InRange(x, "u32") THEN q = [ok |-> TRUE, value |-> x] ELSE q = Rejected
  BY DEF UnsignedExact
<1>9. q = p \/ q = Rejected
  BY DEF Narrowed
<1>. HIDE DEF ds, p, q, x, M
<1>10. p.ok => IsNumeral(ds) /\ InRange(x, "u64")
  BY <1>3, <1>4
<1>11. q.ok => IsNumeral(ds) /\ InRange(x, "u32")
  <2>. SUFFICES ASSUME q.ok PROVE IsNumeral(ds) /\ InRange(x, "u32")
    OBVIOUS
  <2>1. q = p /\ p.ok
    BY <1>9 DEF Rejected
  <2>2. p = [ok |-> TRUE, value |-> x]
    BY <1>5, <1>10, <2>1
  <2>. QED  BY <1>6, <1>10, <2>1, <2>2
<1>. QED  BY <1>5, <1>6, <1>7, <1>8, <1>10, <1>11 DEF p, q

\* The text is never changed, and what has been parsed is what the four
\* functions return for it.
NumbersInv ==
  /\ numeral \in Seq(STRING)
  /\ parsed \in { Unparsed, [k \in IntKinds |-> bc_parse_number(numeral, k)] }

\* string-to-i32, -i64, -u32 and -u64 (bbb_string.c and bcvm.c) are right for
\* every text, whatever the widths of the types are: a signed number is parsed
\* exactly, without the loop ever passing its limit unnoticed, and so is an
\* unsigned one unless it wraps without getting smaller.
THEOREM NumbersParseRight == NumbersSpec => []NumbersParse
<1>1. NumbersInit => NumbersInv
  BY WidthsAssumption DEF NumbersInit, NumbersInv
<1>2. NumbersInv /\ [ParseNumber]_numbers => NumbersInv'
  BY DEF NumbersInv, ParseNumber, numbers
<1>3. NumbersInv => NumbersParse
  <2>. SUFFICES ASSUME NumbersInv, parsed # Unparsed PROVE NumbersParse
    BY DEF NumbersParse
  <2>1. numeral \in Seq(STRING) /\ parsed = [k \in IntKinds |-> bc_parse_number(numeral, k)]
    BY DEF NumbersInv
  <2>2. /\ parsed["i64"] = bc_parse_number(numeral, "i64") /\ parsed["i32"] = bc_parse_number(numeral, "i32")
        /\ parsed["u64"] = bc_parse_number(numeral, "u64") /\ parsed["u32"] = bc_parse_number(numeral, "u32")
    BY <2>1 DEF IntKinds
  <2>3. /\ bc_parse_number(numeral, "i64") = bc_parse_i64(numeral)
        /\ bc_parse_number(numeral, "i32") = Narrowed(bc_parse_i64(numeral), -Limit32, Limit32 - 1)
        /\ bc_parse_number(numeral, "u64") = bc_parse_u64(numeral)
        /\ bc_parse_number(numeral, "u32") = Narrowed(bc_parse_u64(numeral), 0, 2 * Limit32 - 1)
    BY DEF bc_parse_number
  <2>4. SignedExact(numeral, "i64", parsed["i64"]) /\ SignedExact(numeral, "i32", parsed["i32"])
    BY <2>1, <2>2, <2>3, SignedParse, SignedParseNarrow
  <2>5. ~WrapsUnseen(numeral) => UnsignedExact(numeral, "u64", parsed["u64"]) /\ UnsignedExact(numeral, "u32", parsed["u32"])
    BY <2>1, <2>2, <2>3, UnsignedParseExact
  <2>. QED  BY <2>4, <2>5 DEF NumbersParse
<1>. QED  BY <1>1, <1>2, <1>3, PTL DEF NumbersSpec
=============================================================================
