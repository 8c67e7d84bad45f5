------------------------------- MODULE BcGen -------------------------------
(***************************************************************************)
(* The bytecode compiler (bcgen.c).  fc is the function being compiled:    *)
(* the code emitted so far, the next free register, the locals in scope,   *)
(* the jumps of break and continue that still need a target, the scratch   *)
(* scopes that are open and how many of them were open where the innermost *)
(* loop began.  Expr(fc, n) returns the context after compiling node n;    *)
(* its field r is the register that holds the value, the result of         *)
(* bc_compile_expr.  Constants stand in the instruction itself instead of  *)
(* in the chunk's table, and float operations are left out.                *)
(***************************************************************************)
EXTENDS Lang, SequencesExt

VARIABLE hosts       \* the names of the host functions registered, BcHostImportTable

FnCtx(kind, addrTaken) ==
  [kind |-> kind, code |-> << >>, next_reg |-> 0, locals |-> << >>, brk |-> << >>, cont |-> << >>,
   scr |-> << >>, loop_scr |-> 0, taken |-> addrTaken, failed |-> FALSE, r |-> 0]

Ins(op, a, b, c)  == [op |-> op, a |-> a, b |-> b, c |-> c, w |-> "i64"]
InsW(op, ty, a, b, c) == [op |-> op, a |-> a, b |-> b, c |-> c, w |-> ty]

Here(fc) == Len(fc.code)
bc_alloc_reg(fc) == [fc EXCEPT !.next_reg = @ + 1, !.r = fc.next_reg]
bc_emit(fc, ins) == [fc EXCEPT !.code = Append(@, ins)]
PatchA(fc, at, target) == [fc EXCEPT !.code[at + 1].a = target]
PatchB(fc, at, target) == [fc EXCEPT !.code[at + 1].b = target]

(* Emit op into a register of its own, which becomes the result. *)
Into(fc, op, b, c) ==
  LET f == bc_alloc_reg(fc) IN bc_emit(f, Ins(op, f.r, b, c))
LoadConst(fc, v) == Into(fc, "LoadConst", v, 0)
Load(fc, ty, base, off) ==
  LET f == bc_alloc_reg(fc) IN bc_emit(f, InsW("LoadField", ty, f.r, base, off))
Store(fc, ty, base, off, val) == bc_emit(fc, InsW("StoreField", ty, base, off, val))
Result(fc, reg) == [fc EXCEPT !.r = reg]

(* A run of instructions, of which the operands are known: n registers more, the result in reg. *)
Code(fc, n, ins, reg) == [fc EXCEPT !.code = @ \o ins, !.next_reg = @ + n, !.r = reg]

(***************************************************************************)
(* Locals, innermost last; a name whose address the program takes lives in *)
(* memory and its local holds the address.                                 *)
(***************************************************************************)
bc_bind_local(fc, x, reg) ==
  [fc EXCEPT !.locals = Append(@, [name |-> x, reg |-> reg, mem |-> FALSE])]
bc_local_try_lookup(fc, x) ==
  LET is == {i \in DOMAIN fc.locals : fc.locals[i].name = x}
  IN  IF is = {} THEN [reg |-> -1, mem |-> FALSE]
      ELSE fc.locals[CHOOSE i \in is : \A j \in is : j <= i]
PopLocals(fc, mark) == [fc EXCEPT !.locals = SubSeq(@, 1, mark)]

(* The names the program takes the address of, wherever it does. *)
RECURSIVE AddrTaken(_)
AddrTakenIn(ns) == UNION {AddrTaken(ns[i]) : i \in DOMAIN ns}
AddrTaken(n) ==
  (IF n.k = "UnaryAddr" /\ n.a.k = "Identifier" THEN {n.a.name} ELSE {})
    \cup UNION {AddrTaken(n[f]) : f \in DOMAIN n \cap {"a", "b", "c", "target", "arena"}}
    \cup UNION {AddrTakenIn(n[f]) : f \in DOMAIN n \cap {"body", "args"}}
bc_scan_address_taken_names(p) ==
  UNION {AddrTakenIn(p.fns[i].body) : i \in DOMAIN p.fns}

bc_field_is_embedded(ty) == ty \in {"S", "A"}

bc_bind_local_typed(fc, x, ty, val) ==
  IF x \in fc.taken /\ ~bc_field_is_embedded(ty)
  THEN LET s == Into(fc, "Alloc", layout_of(ty), 0)
           t == Store(s, ty, s.r, 0, val)
       IN  [t EXCEPT !.locals = Append(@, [name |-> x, reg |-> s.r, mem |-> TRUE])]
  ELSE Result(bc_bind_local(fc, x, val), val)

(***************************************************************************)
(* The tables a name is looked up in: an index, or 0 where it is absent.   *)
(***************************************************************************)
IndexIn(names, x) == SelectInSeq(names, LAMBDA y : y = x)
GlobalSlot(x) == SelectInSeq(prog.globals, LAMBDA g : g.name = x)
CmpChunk   == "S#cmp"
InitChunk  == "#init_globals"
FnTable(kind) == << CmpChunk >> \o NamesOf(kind)
bc_fn_table_try_lookup(fc, x) == IndexIn(FnTable(fc.kind), x)
bc_module_table_try_lookup(x) == IndexIn(NamesOf("module"), x)
bc_host_import_try_lookup(x)  == IndexIn(hosts, x)

(* The error path: the program is not compiled. *)
bc_unsupported(fc) == [fc EXCEPT !.failed = TRUE]

(***************************************************************************)
(* Loops and scratch scopes.                                               *)
(***************************************************************************)
bc_loop_begin(fc) == [fc EXCEPT !.loop_scr = Len(fc.scr)]
bc_loop_end(fc, outer) == [fc EXCEPT !.loop_scr = outer.loop_scr]

PatchAll(fc, jumps, target) ==
  [fc EXCEPT !.code = [i \in DOMAIN @ |->
     IF i - 1 \in jumps THEN [@[i] EXCEPT !.a = target] ELSE @[i]]]
FixupsFrom(fixups, mark) == {fixups[i] : i \in {j \in DOMAIN fixups : j > mark}}
PatchContinue(fc, outer, target) ==
  [PatchAll(fc, FixupsFrom(fc.cont, Len(outer.cont)), target)
     EXCEPT !.cont = SubSeq(@, 1, Len(outer.cont))]
PatchBreak(fc, outer) ==
  [PatchAll(fc, FixupsFrom(fc.brk, Len(outer.brk)), Here(fc))
     EXCEPT !.brk = SubSeq(@, 1, Len(outer.brk))]

\* Mutant: only the innermost scope is closed.
UnwindInnermost(fc, floor) ==
  IF Len(fc.scr) = floor THEN fc
  ELSE bc_emit(fc, Ins("ArenaPop", Last(fc.scr).arena, Last(fc.scr).mark, 0))

bc_unwind_scratch_scopes(fc, floor) ==
  FoldLeft(LAMBDA f, s : bc_emit(f, Ins("ArenaPop", s.arena, s.mark, 0)),
           fc, Reverse(SubSeq(fc.scr, floor + 1, Len(fc.scr))))

(***************************************************************************)
(* Values that are embedded are represented by their address, and copied   *)
(* cell by cell where a copy is meant.                                     *)
(***************************************************************************)
bc_copy_struct_bytes(fc, base, off, src, size) ==
  FoldLeft(LAMBDA f, i : LET v == Load(f, "i64", src, i)
                         IN  Store(v, "i64", base, off + i, v.r),
           fc, [i \in 1..size |-> i - 1])
bc_compile_value_copy(fc, ty, src) ==
  LET d == Into(fc, "Alloc", layout_of(ty), 0)
  IN  Result(bc_copy_struct_bytes(d, d.r, 0, src, layout_of(ty)), d.r)
CopyIfEmbedded(fc, ty) ==
  IF bc_field_is_embedded(ty) THEN bc_compile_value_copy(fc, ty, fc.r) ELSE fc
bc_store_value(fc, base, off, ty, val) ==
  IF bc_field_is_embedded(ty) THEN bc_copy_struct_bytes(fc, base, off, val, layout_of(ty))
  ELSE Store(fc, ty, base, off, val)
bc_compile_zero_value(fc, ty) ==
  IF bc_field_is_embedded(ty) THEN Into(fc, "Alloc", layout_of(ty), 0) ELSE LoadConst(fc, 0)

(* What follows an operation that may leave the range of a narrow type. *)
bc_narrow_arith_result(fc, ty, reg) ==
  IF ty \in IntTypes /\ BitsOf(ty) < WordBits
  THEN Result(bc_emit(fc, InsW("Narrow", ty, reg, reg, 0)), reg) ELSE Result(fc, reg)
bc_compile_int_narrow(fc, ty, src) ==
  IF ty \in IntTypes /\ BitsOf(ty) < WordBits
  THEN LET f == bc_alloc_reg(fc) IN bc_emit(f, InsW("Narrow", ty, f.r, src, 0))
  ELSE Result(fc, src)

Comparisons == {"Eq", "Neq", "Lt", "Le", "Gt", "Ge"}
bc_int_op_for_kind(op, unsigned) ==
  IF ~unsigned THEN op
  ELSE CASE op = "Div" -> "DivU" [] op = "Mod" -> "ModU" [] op = "Lt" -> "LtU"
         [] op = "Le" -> "LeU" [] op = "Gt" -> "GtU" [] op = "Ge" -> "GeU" [] OTHER -> op
bc_type_needs_unsigned_ops(ty) == ty = "u64"
IntOp(ty, op) == bc_int_op_for_kind(op, bc_type_needs_unsigned_ops(ty))

(* dst = cond ? a : b *)
bc_compile_select(fc, cond, a, b) ==
  LET d == fc.next_reg
      l == Here(fc)
  IN  Code(fc, 1, << Ins("JumpIfFalse", cond, l + 3, 0), Ins("Move", d, a, 0), Ins("Jump", l + 4, 0, 0),
                     Ins("Move", d, b, 0) >>, d)

RECURSIVE Expr(_, _)
ExprAll(fc, ns) == FoldLeft(LAMBDA f, n : Expr(f, n), fc, ns)

bc_compile_block(fc, stmts) ==
  PopLocals(ExprAll(Result(fc, 0), stmts), Len(fc.locals))

bc_compile_truthy(fc, n) ==
  LET v == Expr(fc, n)
      z == LoadConst(v, 0)
  IN  Into(z, "Neq", v.r, z.r)

GenIdentifier(fc, n) ==
  LET loc == bc_local_try_lookup(fc, n.name)
  IN  IF loc.reg = -1 THEN Into(fc, "LoadGlobal", GlobalSlot(n.name), 0)
      ELSE IF loc.mem THEN Load(fc, n.t, loc.reg, 0)
      ELSE Result(fc, loc.reg)

(***************************************************************************)
(* Ordering of two values at two addresses: a struct's is a call of the    *)
(* chunk that the compiler makes for it.                                   *)
(***************************************************************************)
bc_compile_value_cmp(fc, ty, aAddr, bAddr) ==
  IF ty = "S"
  THEN LET f == [fc EXCEPT !.next_reg = @ + 2]
           x == bc_emit(f, Ins("Move", fc.next_reg, aAddr, 0))
           y == bc_emit(x, Ins("Move", fc.next_reg + 1, bAddr, 0))
       IN  Into(y, "Call", bc_fn_table_try_lookup(fc, CmpChunk), fc.next_reg)
  ELSE LET x  == Load(fc, ty, aAddr, 0)
           y  == Load(x, ty, bAddr, 0)
           lt == Into(y, "Lt", x.r, y.r)
           gt == Into(lt, "Gt", x.r, y.r)
       IN  Into(gt, "Sub", gt.r, lt.r)

GenBinary(fc, n) ==
  LET x == Expr(fc, n.a)
      y == Expr(x, n.b)
      d == bc_alloc_reg(y)
      op == IntOp(n.a.t, n.op)
  IN  IF bc_field_is_embedded(n.a.t)
      THEN LET c == bc_compile_value_cmp(d, n.a.t, x.r, y.r)
               z == LoadConst(c, 0)
           IN  Result(bc_emit(z, Ins(n.op, d.r, c.r, z.r)), d.r)
      ELSE bc_narrow_arith_result(bc_emit(d, Ins(op, d.r, x.r, y.r)), n.t, d.r)

GenUnary(fc, n) ==
  LET x == Expr(fc, n.a)
      z == LoadConst(x, 0)
  IN  IF n.op = "Neg"
      THEN LET d == Into(z, "Sub", z.r, x.r) IN bc_narrow_arith_result(d, n.t, d.r)
      ELSE IF n.op = "BitNot"
      THEN LET d == Into(x, "BitNot", x.r, 0) IN bc_narrow_arith_result(d, n.t, d.r)
      ELSE Into(z, "Eq", x.r, z.r)                                  \* LogicalNot

GenCast(fc, n) ==
  LET v == Expr(fc, n.a)
  IN  IF n.t \in {"void", n.a.t} THEN v
      ELSE IF n.t = "bool" THEN LET z == LoadConst(v, 0) IN Into(z, "Neq", v.r, z.r)
      ELSE bc_compile_int_narrow(v, n.t, v.r)

GenLogical(fc, n) ==
  LET d  == bc_alloc_reg(fc)
      x  == Expr(d, n.a)
      jf == bc_emit(x, Ins("JumpIfFalse", x.r, 0, 0))
      short == LoadConst(jf, IF n.op = "Or" THEN 1 ELSE 0)
      first == IF n.op = "Or" THEN bc_emit(short, Ins("Move", d.r, short.r, 0))
               ELSE LET t == bc_compile_truthy(jf, n.b) IN bc_emit(t, Ins("Move", d.r, t.r, 0))
      je == PatchB(bc_emit(first, Ins("Jump", 0, 0, 0)), Here(x), Here(first) + 1)
      second == IF n.op = "Or"
                THEN LET t == bc_compile_truthy(je, n.b) IN bc_emit(t, Ins("Move", d.r, t.r, 0))
                ELSE LET z == LoadConst(je, 0) IN bc_emit(z, Ins("Move", d.r, z.r, 0))
  IN  Result(PatchA(second, Here(first), Here(second)), d.r)

GenIf(fc, n) ==
  LET d  == bc_alloc_reg(fc)
      c  == Expr(d, n.c)
      jf == bc_emit(c, Ins("JumpIfFalse", c.r, 0, 0))
      t  == Expr(jf, n.a)
      mt == bc_emit(t, Ins("Move", d.r, t.r, 0))
      je == PatchB(bc_emit(mt, Ins("Jump", 0, 0, 0)), Here(c), Here(mt) + 1)
      e  == Expr(je, n.b)
      me == IF n.b.k = "TYPED_NIL" THEN je ELSE bc_emit(e, Ins("Move", d.r, e.r, 0))
  IN  Result(PatchA(me, Here(mt), Here(me)), d.r)

GenBreakContinue(fc, n) ==
  LET u == bc_unwind_scratch_scopes(fc, fc.loop_scr)
      j == bc_emit(u, Ins("Jump", 0, 0, 0))
      f == IF n.k = "BreakExpr" THEN [j EXCEPT !.brk = Append(@, Here(u))]
                                ELSE [j EXCEPT !.cont = Append(@, Here(u))]
  IN  bc_alloc_reg(f)

(* The end of every loop: jump back, and let the exits land behind it. *)
LoopClose(body, start, jf, outer, popTo) ==
  LET back == bc_emit(body, Ins("Jump", start, 0, 0))
      out  == PatchBreak(PatchB(back, jf, Here(back)), outer)
  IN  bc_alloc_reg(PopLocals(bc_loop_end(out, outer), popTo))

GenWhile(fc, n) ==
  LET s == bc_loop_begin(fc)
      c == Expr(s, n.c)
      b == bc_compile_block(bc_emit(c, Ins("JumpIfFalse", c.r, 0, 0)), n.body)
  IN  LoopClose(PatchContinue(b, fc, Here(s)), Here(s), Here(c), fc, Len(fc.locals))

GenForC(fc, n) ==
  LET i == Expr(fc, n.a)
      s == bc_loop_begin(bc_bind_local(i, n.name, i.r))
      c == Expr(s, n.c)
      b == bc_compile_block(bc_emit(c, Ins("JumpIfFalse", c.r, 0, 0)), n.body)
      e == Expr(b, n.b)
  IN  LoopClose(PatchContinue(e, fc, Here(s)), Here(s), Here(c), fc, Len(fc.locals))

\* Mutant: continue goes to the condition instead of to the step.
GenForRangeSkipsStep(fc, n) ==
  LET i  == Expr(fc, n.a)
      s  == bc_loop_begin(bc_bind_local(i, n.name, i.r))
      e  == Expr(s, n.b)
      c  == Into(e, IntOp(n.a.t, "Lt"), i.r, e.r)
      b  == bc_compile_block(bc_emit(c, Ins("JumpIfFalse", c.r, 0, 0)), n.body)
      st == Expr(PatchContinue(b, fc, Here(s)), n.c)
      ad == bc_narrow_arith_result(bc_emit(st, Ins("Add", i.r, i.r, st.r)), n.a.t, i.r)
  IN  LoopClose(ad, Here(s), Here(c), fc, Len(fc.locals))

GenForRange(fc, n) ==
  LET i  == Expr(fc, n.a)
      s  == bc_loop_begin(bc_bind_local(i, n.name, i.r))
      e  == Expr(s, n.b)
      c  == Into(e, IntOp(n.a.t, "Lt"), i.r, e.r)
      b  == bc_compile_block(bc_emit(c, Ins("JumpIfFalse", c.r, 0, 0)), n.body)
      st == Expr(PatchContinue(b, fc, Here(b)), n.c)
      ad == bc_narrow_arith_result(bc_emit(st, Ins("Add", i.r, i.r, st.r)), n.a.t, i.r)
  IN  LoopClose(ad, Here(s), Here(c), fc, Len(fc.locals))

(* Counting up to a bound that is in a register, as for-each and parallel-for do. *)
CountedLoop(fc, outer, var, bound, ty, body(_)) ==
  LET s  == bc_loop_begin(fc)
      c  == Into(s, IntOp(ty, "Lt"), var, bound)
      b  == body(bc_emit(c, Ins("JumpIfFalse", c.r, 0, 0)))
      on == LoadConst(PatchContinue(b, outer, Here(b)), 1)
      ad == bc_narrow_arith_result(bc_emit(on, Ins("Add", var, var, on.r)), ty, var)
  IN  LoopClose(ad, Here(s), Here(c), outer, Len(outer.locals))

ElemAddr(fc, base, idx, ty) ==
  LET st == LoadConst(fc, layout_of(ty))
      of == Into(st, "Mul", idx, st.r)
  IN  Into(of, "Add", base, of.r)
LoadUnlessEmbedded(fc, ty, addr) ==
  IF bc_field_is_embedded(ty) THEN Result(fc, addr) ELSE Load(fc, ty, addr, 0)

GenForEach(fc, n) ==
  LET c  == Expr(fc, n.a)
      i  == LoadConst(c, 0)
      ix == IF n.index = "" THEN i ELSE bc_bind_local(i, n.index, i.r)
      ct == IF n.a.t = "A" THEN LoadConst(ix, ArrayCount) ELSE Into(ix, "DynCount", c.r, 0)
      Body(f) == LET a == ElemAddr(f, c.r, i.r, "i32")
                     e == LoadUnlessEmbedded(a, "i32", a.r)
                 IN  bc_compile_block(bc_bind_local(e, n.name, e.r), n.body)
  IN  CountedLoop(ct, fc, i.r, ct.r, "i64", Body)

(* A lane of one: the script interpreter runs the iterations in order. *)
GenParallelFor(fc, n) ==
  LET ct == Expr(fc, n.a)
      v  == LoadConst(ct, 0)
      Body(f) == bc_compile_block(f, n.body)
  IN  CountedLoop(bc_bind_local(v, n.name, v.r), fc, v.r, ct.r, n.a.t, Body)

(* The captures are locals of the function, and the body is compiled in place. *)
GenParallel(fc, n) ==
  LET Capture(c, i) == Strictly(CopyIfEmbedded(Expr(c, n.args[i]), n.args[i].t),
                                LAMBDA v : bc_bind_local_typed(v, n.names[i], n.args[i].t, v.r))
      b == bc_compile_block(FoldLeft(Capture, fc, [i \in DOMAIN n.args |-> i]), n.body)
  IN  bc_alloc_reg(PopLocals(b, Len(fc.locals)))

\* Mutant: a struct or an array is bound without a copy of it being made.
GenLetShares(fc, n) ==
  LET i == Expr(fc, n.a)
  IN  PopLocals(bc_compile_block(bc_bind_local_typed(i, n.name, n.a.t, i.r), n.body), Len(fc.locals))

GenLet(fc, n) ==
  LET i == Expr(fc, n.a)
      b == bc_bind_local_typed(CopyIfEmbedded(i, n.a.t), n.name, n.a.t, CopyIfEmbedded(i, n.a.t).r)
  IN  PopLocals(bc_compile_block(b, n.body), Len(fc.locals))

GenScratch(fc, n) ==
  LET ar == Into(fc, "LoadScratchArena", 0, 0)
      mk == Into(ar, "ArenaMark", ar.r, 0)
      op == [bc_bind_local(mk, n.name, ar.r) EXCEPT
               !.scr = Append(@, [arena |-> ar.r, mark |-> mk.r])]
      b  == bc_compile_block(op, n.body)
      cl == [bc_emit(b, Ins("ArenaPop", ar.r, mk.r, 0)) EXCEPT !.scr = Front(@)]
  IN  Result(PopLocals(cl, Len(fc.locals)), b.r)

GenPushAlloc(fc, n) ==
  LET a  == Expr(fc, n.a)
      ct == Expr(a, n.b)
      st == LoadConst(ct, layout_of(ElemType(n.t)))
      sz == Into(st, "Mul", st.r, ct.r)
  IN  Into(sz, "ArenaPush", a.r, sz.r)

(* Room for one more, read before the value is: count, capacity and whether it is full. *)
EnsureRoom(fc, p, size) ==
  LET ct == fc.next_reg
  IN  Code(fc, 3, << Ins("DynCount", ct, p, 0), Ins("DynCapacity", ct + 1, p, 0), Ins("Ge", ct + 2, ct, ct + 1),
                     Ins("JumpIfFalse", ct + 2, Here(fc) + 5, 0), Ins("DynGrow", p, fc.r, size) >>, ct)
StoreLast(fc, p, ct, ty) ==
  LET e  == ElemAddr(fc, p, ct, ty)
      sv == bc_store_value(e, e.r, 0, ty, fc.r)
      t  == sv.next_reg
  IN  Code(sv, 3, << Ins("LoadConst", t, 1, 0), Ins("Add", t + 1, ct, t), Ins("DynSetCount", p, 0, t + 1) >>, t + 2)
GenDynPush(fc, n) ==
  LET a  == Expr(fc, n.arena)
      p  == bc_local_try_lookup(fc, n.name).reg
      rm == EnsureRoom(a, p, layout_of(n.a.t))
  IN  StoreLast(Expr(rm, n.a), p, rm.r, n.a.t)

GenReturn(fc, n) ==
  LET v == Expr(fc, n.a)
  IN  bc_alloc_reg(
        IF n.a.k = "TYPED_NIL" THEN bc_emit(bc_unwind_scratch_scopes(fc, 0), Ins("ReturnVoid", 0, 0, 0))
        ELSE bc_emit(bc_unwind_scratch_scopes(v, 0), Ins("Return", v.r, 0, 0)))

(* A literal's fields or elements, stored one by one into fresh memory. *)
GenLiteral(fc, n) ==
  LET d == Into(fc, "Alloc", layout_of(n.t), 0)
      ty(i) == IF n.t = "S" THEN FieldsOf[i].t ELSE "i32"
      FillOne(f, i) == LET v == Expr(f, n.args[i]) IN Store(v, ty(i), d.r, i - 1, v.r)
  IN  Result(FoldLeft(FillOne, d, [i \in DOMAIN n.args |-> i]), d.r)

(* The register with the address of a place, and the place's offset in it. *)
bc_resolve_field_access(fc, n) == Expr(fc, n.a)
bc_resolve_index_access(fc, n) ==
  LET b == Expr(fc, n.a)
      i == Expr(b, n.b)
  IN  ElemAddr(i, b.r, i.r, "i32")

GenFieldAccess(fc, n) ==
  LET b == bc_resolve_field_access(fc, n) IN Load(b, n.t, b.r, FieldOffset(n.field))
GenIndexAccess(fc, n) ==
  LET a == bc_resolve_index_access(fc, n) IN LoadUnlessEmbedded(a, n.t, a.r)
GenDeref(fc, n) == LET a == Expr(fc, n.a) IN LoadUnlessEmbedded(a, n.t, a.r)

GenAddr(fc, n) ==
  LET o == n.a
  IN  CASE o.k = "FieldAccess" -> LET b == bc_resolve_field_access(fc, o)
                                  IN  Into(b, "FieldAddr", b.r, FieldOffset(o.field))
        [] o.k = "IndexAccess" -> bc_resolve_index_access(fc, o)
        [] o.k = "UnaryDeref"  -> Expr(fc, o.a)
        [] OTHER -> IF bc_field_is_embedded(o.t) THEN Expr(fc, o)
                    ELSE Result(fc, bc_local_try_lookup(fc, o.name).reg)

(* Store a register into a local or a global. *)
WriteName(fc, x, ty, val) ==
  LET loc == bc_local_try_lookup(fc, x)
  IN  IF loc.reg = -1 THEN bc_emit(fc, Ins("StoreGlobal", GlobalSlot(x), val, 0))
      ELSE IF loc.mem THEN Store(fc, ty, loc.reg, 0, val)
      ELSE bc_emit(fc, Ins("Move", loc.reg, val, 0))

(* The place first, then the value, then the store; a plain name needs no place. *)
GenSet(fc, n) ==
  LET o  == n.target
      pl == CASE o.k = "FieldAccess" -> bc_resolve_field_access(fc, o)
              [] o.k = "IndexAccess" -> bc_resolve_index_access(fc, o)
              [] o.k = "UnaryDeref"  -> Expr(fc, o.a)
              [] OTHER -> fc
      v  == Expr(pl, n.a)
  IN  Result(IF o.k = "Identifier" THEN WriteName(v, o.name, n.t, v.r)
             ELSE bc_store_value(v, pl.r, IF o.k = "FieldAccess" THEN FieldOffset(o.field) ELSE 0,
                                 n.t, v.r),
             v.r)

bc_compile_lvalue_write(fc, o, ty, val) ==
  LET pl == CASE o.k = "FieldAccess" -> bc_resolve_field_access(fc, o)
              [] o.k = "IndexAccess" -> bc_resolve_index_access(fc, o)
              [] o.k = "UnaryDeref"  -> Expr(fc, o.a)
              [] OTHER -> fc
  IN  IF o.k = "Identifier" THEN WriteName(fc, o.name, ty, val)
      ELSE bc_store_value(pl, pl.r, IF o.k = "FieldAccess" THEN FieldOffset(o.field) ELSE 0, ty, val)

GenVarDecl(fc, n) ==
  LET i == IF n.a.k = "TYPED_NIL" THEN bc_compile_zero_value(fc, n.vt)
           ELSE CopyIfEmbedded(Expr(fc, n.a), n.a.t)
  IN  Result(bc_bind_local_typed(i, n.name, n.vt, i.r), i.r)

(***************************************************************************)
(* Built-in calls.                                                         *)
(***************************************************************************)
GenSwap(fc, a, b) ==
  IF bc_field_is_embedded(a.t)
  THEN LET x == Expr(fc, a)
           y == Expr(x, b)
           t == bc_compile_value_copy(y, a.t, x.r)
           u == bc_copy_struct_bytes(t, x.r, 0, y.r, layout_of(a.t))
       IN  bc_alloc_reg(bc_copy_struct_bytes(u, y.r, 0, t.r, layout_of(a.t)))
  ELSE LET xr == Expr(fc, a)
           x  == Into(xr, "Move", xr.r, 0)
           yr == Expr(x, b)
           y  == Into(yr, "Move", yr.r, 0)
           w  == bc_compile_lvalue_write(y, a, a.t, y.r)
       IN  bc_alloc_reg(bc_compile_lvalue_write(w, b, a.t, x.r))

CountOf(fc, ty, base) ==
  IF ty = "A" THEN LoadConst(fc, ArrayCount) ELSE Into(fc, "DynCount", base, 0)

GenLen(fc, a) == LET x == Expr(fc, a) IN CountOf(x, a.t, x.r)

(* An address, or null: ct, in range, the result, the stride, the offset. *)
NthAddr(fc, base, x) ==
  LET ct == fc.r
      ok == fc.next_reg
      rs == ok + 1
      l  == Here(fc)
  IN  Code(fc, 4, << Ins("Lt", ok, x, ct), Ins("JumpIfFalse", ok, l + 6, 0), Ins("LoadConst", ok + 2, layout_of("i32"), 0),
                     Ins("Mul", ok + 3, x, ok + 2), Ins("Add", rs, base, ok + 3), Ins("Jump", l + 7, 0, 0),
                     Ins("LoadConst", rs, 0, 0) >>, rs)
GenNthChecked(fc, a, i) ==
  LET b == Expr(fc, a)
      x == Expr(b, i)
  IN  NthAddr(CountOf(x, a.t, b.r), b.r, x.r)

GenVectorClear(fc, a) ==
  LET v  == Expr(fc, a)
      jf == bc_emit(v, Ins("JumpIfFalse", v.r, 0, 0))
      z  == LoadConst(jf, 0)
      s  == bc_emit(z, Ins("DynSetCount", v.r, 0, z.r))
  IN  bc_alloc_reg(PatchB(s, Here(v), Here(s)))

(* The instructions that move the element at register from over the one at register to, and use
   seven registers from t on. *)
MoveElem(t, base, to, from) ==
  << Ins("LoadConst", t, layout_of("i32"), 0), Ins("Mul", t + 1, to, t), Ins("Add", t + 2, base, t + 1),
     Ins("LoadConst", t + 3, layout_of("i32"), 0), Ins("Mul", t + 4, from, t + 3), Ins("Add", t + 5, base, t + 4),
     InsW("LoadField", "i32", t + 6, t + 5, 0), InsW("StoreField", "i32", t + 2, 0, t + 6) >>

(* In range: close the gap, with the last element or by moving those behind it, and count one less.
   The registers: ct, ok, one, last, and in the loop j, j + 1 and whether there is more. *)
RemoveElem(fc, swap, v, x) ==
  LET ct == fc.next_reg
      l  == Here(fc)
      head(end) == << Ins("DynCount", ct, v, 0), Ins("Lt", ct + 1, x, ct), Ins("JumpIfFalse", ct + 1, end, 0),
                      Ins("LoadConst", ct + 2, 1, 0), Ins("Sub", ct + 3, ct, ct + 2) >>
      shift == << Ins("Move", ct + 4, x, 0), Ins("Add", ct + 5, ct + 4, ct + 2), Ins("Lt", ct + 6, ct + 5, ct),
                  Ins("JumpIfFalse", ct + 6, l + 19, 0) >> \o MoveElem(ct + 7, v, ct + 4, ct + 5)
               \o << Ins("Move", ct + 4, ct + 5, 0), Ins("Jump", l + 6, 0, 0) >>
      less == << Ins("DynSetCount", v, 0, ct + 3) >>
  IN  IF swap THEN Code(fc, 11, head(l + 14) \o MoveElem(ct + 4, v, x, ct + 3) \o less, ct + 1)
      ELSE Code(fc, 14, head(l + 20) \o shift \o less, ct + 1)
GenVectorRemove(fc, swap, a, i) ==
  LET v == Expr(fc, a)
      x == Expr(v, i)
  IN  RemoveElem(x, swap, v.r, x.r)

(* vector-contains? and vector-index-of: found, and where.  The registers: ct, the index, found, the
   place found, the loop's condition, one, the element's stride, offset, address and value, whether it
   is equal, and the next index. *)
FindElem(fc, v, needle, wantIndex) ==
  LET ct == fc.next_reg
      ix == ct + 1
      fd == ct + 2
      at == ct + 3
      l  == Here(fc)
  IN  Code(fc, 12, << Ins("DynCount", ct, v, 0), Ins("LoadConst", ix, 0, 0), Ins("LoadConst", fd, 0, 0),
                      Ins("Move", at, ct, 0), Ins("Lt", ct + 4, ix, ct), Ins("JumpIfFalse", ct + 4, l + 19, 0),
                      Ins("LoadConst", ct + 5, 1, 0), Ins("LoadConst", ct + 6, layout_of("i32"), 0),
                      Ins("Mul", ct + 7, ix, ct + 6), Ins("Add", ct + 8, v, ct + 7),
                      InsW("LoadField", "i32", ct + 9, ct + 8, 0), Ins("Eq", ct + 10, ct + 9, needle),
                      Ins("JumpIfFalse", ct + 10, l + 16, 0), Ins("Move", fd, ct + 5, 0), Ins("Move", at, ix, 0),
                      Ins("Jump", l + 19, 0, 0), Ins("Add", ct + 11, ix, ct + 5), Ins("Move", ix, ct + 11, 0),
                      Ins("Jump", l + 4, 0, 0) >>, IF wantIndex THEN at ELSE fd)
GenVectorFind(fc, a, needle, wantIndex) ==
  LET v  == Expr(fc, a)
      nd == Expr(v, needle)
  IN  FindElem(nd, v.r, nd.r, wantIndex)

GenMinMax(fc, f, args) ==
  LET ty == args[1].t
      x  == Expr(fc, args[1])
      z  == LoadConst(x, 0)
      ng == Into(z, IntOp(ty, "Lt"), x.r, z.r)
      ne == Into(ng, IntOp(ty, "Sub"), z.r, x.r)
      b  == Expr(x, args[2])
      hi == Expr(b, args[3])
      gt == Into(hi, IntOp(ty, "Gt"), x.r, hi.r)
      in == bc_compile_select(gt, gt.r, hi.r, x.r)
      lt == Into(in, IntOp(ty, "Lt"), x.r, b.r)
      cm == Into(b, IntOp(ty, IF f = "min" THEN "Lt" ELSE "Gt"), x.r, b.r)
  IN  CASE f = "abs"   -> bc_compile_select(ne, ng.r, ne.r, x.r)
        [] f = "clamp" -> bc_compile_select(lt, lt.r, b.r, in.r)
        [] OTHER       -> bc_compile_select(cm, cm.r, x.r, b.r)

(* Every value is put in a register of its own before anything is printed. *)
GenPrint(fc, args) ==
  LET Snap(acc, n) == LET v == Expr(acc.fc, n)
                          m == Into(v, "Move", v.r, 0)
                      IN  [fc |-> m, regs |-> Append(acc.regs, m.r)]
      vs == FoldLeft(Snap, [fc |-> fc, regs |-> << >>], args)
      Op(ty) == IF ty = "bool" THEN "PrintBool" ELSE IF Unsigned(ty) THEN "PrintU64" ELSE "PrintI64"
      PrintOne(f, i) == bc_emit(f, Ins(Op(args[i].t), vs.regs[i], 0, 0))
  IN  bc_alloc_reg(FoldLeft(PrintOne, vs.fc, [i \in DOMAIN args |-> i]))

(* Arguments go to consecutive fresh registers; structs are copied, arrays are not. *)
GenUserCall(fc, n) ==
  LET first == fc.next_reg
      slots == [fc EXCEPT !.next_reg = @ + Len(n.args)]
      PassOne(f, i) ==
        LET v == Expr(f, n.args[i])
            c == IF n.args[i].t = "S" THEN bc_compile_value_copy(v, "S", v.r) ELSE v
        IN  bc_emit(c, Ins("Move", first + i - 1, c.r, 0))
      as == FoldLeft(PassOne, slots, [i \in DOMAIN n.args |-> i])
      own    == bc_fn_table_try_lookup(fc, n.callee)
      module == bc_module_table_try_lookup(n.callee)
      host   == bc_host_import_try_lookup(n.callee)
  IN  CASE own # 0    -> Into(as, "Call", own, first)
        [] module # 0 -> Into(as, "CallModule", module, first)
        [] host # 0   -> Into(as, "CallHost", host, first)
        [] OTHER      -> bc_unsupported(as)

GenCall(fc, n) ==
  CASE n.callee = "swap"  -> GenSwap(fc, n.args[1], n.args[2])
    [] n.callee = "len"   -> GenLen(fc, n.args[1])
    [] n.callee \in {"lane-index", "lane-count"} -> LoadConst(fc, IF n.callee = "lane-index" THEN 0 ELSE 1)
    [] n.callee = "lane-sync" -> bc_alloc_reg(fc)          \* a barrier of one
    [] n.callee = "nth-checked" -> GenNthChecked(fc, n.args[1], n.args[2])
    [] n.callee = "vector-clear" -> GenVectorClear(fc, n.args[1])
    [] n.callee \in {"vector-swap-remove", "vector-remove-at"} ->
         GenVectorRemove(fc, n.callee = "vector-swap-remove", n.args[1], n.args[2])
    [] n.callee \in {"vector-contains?", "vector-index-of"} ->
         GenVectorFind(fc, n.args[1], n.args[2], n.callee = "vector-index-of")
    [] n.callee \in {"abs", "min", "max", "clamp"} -> GenMinMax(fc, n.callee, n.args)
    [] n.callee = "print" -> GenPrint(fc, n.args)
    [] OTHER -> GenUserCall(fc, n)

Node(fc, n) ==
  CASE n.k \in {"IntLiteral", "Literal"} -> LoadConst(fc, n.v)
    [] n.k = "Identifier"  -> GenIdentifier(fc, n)
    [] n.k = "Binary"      -> GenBinary(fc, n)
    [] n.k = "Unary"       -> GenUnary(fc, n)
    [] n.k = "BinaryCast"  -> GenCast(fc, n)
    [] n.k = "Logical"     -> GenLogical(fc, n)
    [] n.k = "IfExpr"      -> GenIf(fc, n)
    [] n.k \in {"BreakExpr", "ContinueExpr"} -> GenBreakContinue(fc, n)
    [] n.k = "WhileExpr"   -> GenWhile(fc, n)
    [] n.k = "ForCExpr"    -> GenForC(fc, n)
    [] n.k = "ForRangeExpr" -> GenForRange(fc, n)
    [] n.k = "ForEachExpr" -> GenForEach(fc, n)
    [] n.k = "ParallelForExpr" -> GenParallelFor(fc, n)
    [] n.k = "ParallelExpr" -> GenParallel(fc, n)
    [] n.k = "LetExpr"     -> GenLet(fc, n)
    [] n.k = "ScratchExpr" -> GenScratch(fc, n)
    [] n.k = "PushAlloc"   -> GenPushAlloc(fc, n)
    [] n.k = "DynPush"     -> GenDynPush(fc, n)
    [] n.k = "ReturnExpr"  -> GenReturn(fc, n)
    [] n.k = "Block"       -> bc_compile_block(fc, n.body)
    [] n.k \in {"StructLiteral", "ArrayLiteral"} -> GenLiteral(fc, n)
    [] n.k = "FieldAccess" -> GenFieldAccess(fc, n)
    [] n.k = "IndexAccess" -> GenIndexAccess(fc, n)
    [] n.k = "UnaryDeref"  -> GenDeref(fc, n)
    [] n.k = "UnaryAddr"   -> GenAddr(fc, n)
    [] n.k = "SetExpr"     -> GenSet(fc, n)
    [] n.k \in Declarations -> GenVarDecl(fc, n)
    [] n.k = "Call"        -> GenCall(fc, n)
    [] n.k = "TYPED_NIL"   -> fc
Expr(fc, n) == Strictly(fc, LAMBDA f : Node(f, n))

(***************************************************************************)
(* A function becomes a chunk; parameters are its first registers, and the *)
(* value of the last statement is returned unless that statement diverges. *)
(***************************************************************************)
Chunk(name, fc, params) ==
  [name |-> name, code |-> fc.code, num_registers |-> fc.next_reg, param_count |-> params,
   failed |-> fc.failed]

TrailingReturn(f, st) ==
  IF f.ret = "void" THEN bc_emit(st, Ins("ReturnVoid", 0, 0, 0))
  ELSE IF Last(f.body).t = "Unresolved" THEN st
  ELSE bc_emit(st, Ins("Return", st.r, 0, 0))
bc_compile_function(f, taken) ==
  LET ps == [FnCtx(f.kind, taken) EXCEPT !.next_reg = Len(f.params)]
      bd == FoldLeft(LAMBDA c, i : bc_bind_local_typed(c, f.params[i].name, f.params[i].t, i - 1),
                     ps, [i \in DOMAIN f.params |-> i])
  IN  Chunk(f.name, TrailingReturn(f, ExprAll(bd, f.body)), Len(f.params))

(* The chunk that orders two structs: the first field that differs decides. *)
FieldCmp(fc, i) ==
  LET a == Into(fc, "FieldAddr", 0, i - 1)
      b == Into(a, "FieldAddr", 1, i - 1)
      c == bc_compile_value_cmp(b, FieldsOf[i].t, a.r, b.r)
  IN  Code(c, 2, << Ins("LoadConst", c.next_reg, 0, 0), Ins("Neq", c.next_reg + 1, c.r, c.next_reg),
                    Ins("JumpIfFalse", c.next_reg + 1, Here(c) + 4, 0), Ins("Return", c.r, 0, 0) >>, c.r)
bc_compile_struct_cmp_chunk(kind) ==
  LET in  == [FnCtx(kind, {}) EXCEPT !.next_reg = 2]
      end == LoadConst(FoldLeft(FieldCmp, in, [i \in DOMAIN FieldsOf |-> i]), 0)
  IN  Chunk(CmpChunk, bc_emit(end, Ins("Return", end.r, 0, 0)), 2)

(* The chunk that gives every global its first value; the other module has no globals. *)
bc_compile_global_init_chunk(kind) ==
  LET InitOne(fc, i) == LET v == LoadConst(fc, prog.globals[i].v)
                        IN  bc_emit(v, Ins("StoreGlobal", i, v.r, 0))
      slots == IF kind = "own" THEN [i \in DOMAIN prog.globals |-> i] ELSE << >>
      fc    == FoldLeft(InitOne, FnCtx(kind, {}), slots)
  IN  Chunk(InitChunk, bc_emit(fc, Ins("ReturnVoid", 0, 0, 0)), 0)

(* The comparators, the functions of a module, and last the initialiser of its globals. *)
bc_compile_program(kind) ==
  LET fs == SelectSeq(prog.fns, LAMBDA f : f.kind = kind)
  IN  << bc_compile_struct_cmp_chunk(kind) >>
        \o [i \in DOMAIN fs |-> bc_compile_function(fs[i], bc_scan_address_taken_names(prog))]
        \o << bc_compile_global_init_chunk(kind) >>
Compiled(cs) == \A i \in DOMAIN cs : ~cs[i].failed
bc_program_find_fn(cs, x) == SelectInSeq(cs, LAMBDA c : c.name = x)
=============================================================================
