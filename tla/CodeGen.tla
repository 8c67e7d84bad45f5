------------------------------ MODULE CodeGen ------------------------------
(***************************************************************************)
(* The C code generator (codegen.c): from the checked program to the C     *)
(* term it prints.  cg is the generator's state: the names in scope with   *)
(* the C name each was given, the counter that makes C names distinct, how *)
(* many scratch scopes are open and how many were open where the innermost *)
(* loop's body began.  cg_expr(cg, n) is the state after printing node n;  *)
(* its field c is the C term.  A C name is a pair: what the program calls  *)
(* the variable, and 0 or the number that tells it from an earlier one.    *)
(***************************************************************************)
EXTENDS CSem

Codegen == [scope |-> << >>, next_disambig_id |-> 1, scratch_depth |-> 0,
            loop_scratch_depth |-> 0, c |-> CVoid]
Out(cg, c) == [cg EXCEPT !.c = c]

(***************************************************************************)
(* Names.  A name reserved is not in scope before it is registered.        *)
(***************************************************************************)
cg_scope_reserve(cg, x) ==
  IF \E i \in DOMAIN cg.scope : cg.scope[i].c_name = << x, 0 >>
  THEN [cg EXCEPT !.next_disambig_id = @ + 1, !.c = << x, cg.next_disambig_id >>]
  ELSE Out(cg, << x, 0 >>)
cg_scope_register(cg, x, c_name) ==
  [cg EXCEPT !.scope = Append(@, [source_name |-> x, c_name |-> c_name])]
cg_scope_lookup(cg, x) ==
  LET is == {i \in DOMAIN cg.scope : cg.scope[i].source_name = x}
  IN  IF is = {} THEN << x, 0 >>                       \* cg_symbol_name of a global
      ELSE cg.scope[CHOOSE i \in is : \A j \in is : j <= i].c_name
cg_scope_pop_to(cg, mark) == [cg EXCEPT !.scope = SubSeq(@, 1, mark)]

Temp(x) == CVar("u64", << x, -1 >>)                  \* a name no program can spell
ScratchTemp(d) == << "_3b_scratch_temp", d >>

cg_unwind_scratch_scopes(cg, floor) ==
  [i \in 1..(cg.scratch_depth - floor) |->
     CRuntime("void", "arena_pop", << CVar("u64", ScratchTemp(cg.scratch_depth - i)) >>)]
cg_zero_value_for_type(ty) ==
  IF ty = "void" THEN CVoid ELSE IF ty = "S" THEN CBraces("S", << CLit("i32", 0), CLit("i32", 0) >>)
  ELSE CLit("i32", 0)

RECURSIVE cg_expr(_, _)

(* Print the nodes one after the other: the state, and the terms. *)
AddTerm(acc, e) == [cg |-> e, cs |-> Append(acc.cs, e.c)]
cg_all(cg, ns) ==
  FoldLeft(LAMBDA acc, n : AddTerm(acc, cg_expr(acc.cg, n)), [cg |-> cg, cs |-> << >>], ns)

(***************************************************************************)
(* Declarations and statements.                                            *)
(***************************************************************************)
Declared(ty, c_name, e) == Out(e, CDecl(ty, c_name, e.c))
cg_declare_and_init(cg, ty, c_name, init) ==
  IF init.k = "TYPED_NIL" THEN Out(cg, CDecl(ty, c_name, CNoInit))
  ELSE Declared(ty, c_name, cg_expr(cg, init))
DeclareAs(r, ty, x, init) == cg_scope_register(cg_declare_and_init(r, ty, r.c, init), x, r.c)
cg_declare_named(cg, ty, x, init) == DeclareAs(cg_scope_reserve(cg, x), ty, x, init)
cg_stmt(cg, n) == IF n.k \in Declarations THEN cg_declare_named(cg, n.vt, n.name, n.a) ELSE cg_expr(cg, n)
cg_stmts(cg, ns) ==
  FoldLeft(LAMBDA acc, n : AddTerm(acc, cg_stmt(acc.cg, n)), [cg |-> cg, cs |-> << >>], ns)

cg_block_as_expr(cg, ns) ==
  LET b == cg_stmts(cg, ns) IN Out(cg_scope_pop_to(b.cg, Len(cg.scope)), CSeq(b.cs))

cg_let_expr(cg, n) ==
  LET d == cg_declare_named(cg, n.a.t, n.name, n.a)
      b == cg_stmts(d, n.body)
  IN  Out(cg_scope_pop_to(b.cg, Len(cg.scope)), CSeq(<< d.c >> \o b.cs))

(* A branch that jumps away in an if whose value is wanted gets a value nobody reads. *)
cg_if_branch(cg, n, if_ty) ==
  LET e == cg_expr(cg, n)
  IN  IF n.t # "Unresolved" \/ if_ty \in {"Unresolved", "void"} THEN e
      ELSE Out(e, CSeq(<< e.c, cg_zero_value_for_type(if_ty) >>))
cg_if_expr(cg, n) ==
  LET c == cg_expr(cg, n.c)
      a == cg_if_branch(c, n.a, n.t)
      b == IF n.b.k = "TYPED_NIL" THEN Out(a, CVoid) ELSE cg_if_branch(a, n.b, n.t)
  IN  Out(b, CCond(c.c, a.c, b.c))

(***************************************************************************)
(* Scratch scopes, loops and jumps out of them.                            *)
(***************************************************************************)
cg_scratch_expr(cg, n) ==
  LET d   == cg.scratch_depth
      r   == cg_scope_reserve(cg, n.name)
      in  == [cg_scope_register(r, n.name, r.c) EXCEPT !.scratch_depth = d + 1]
      b   == cg_stmts(in, n.body)
      out == [cg_scope_pop_to(b.cg, Len(cg.scope)) EXCEPT !.scratch_depth = d]
      begin == << CDecl("u64", ScratchTemp(d), CRuntime("u64", "arena_mark", << >>)),
                  CDecl("i32", r.c, CLit("i32", 1)) >>
      end   == CRuntime("void", "arena_pop", << CVar("u64", ScratchTemp(d)) >>)
      res   == << "_3b_scratch_result", -1 >>
  IN  Out(out, CSeq(begin \o
        IF n.t \in {"void", "Unresolved"} THEN b.cs \o << end, CVoid >>
        ELSE << CDecl(n.t, res, CSeq(b.cs)), end, CVar(n.t, res) >>))

cg_loop_body_block(cg, ns) ==
  LET b == cg_stmts([cg EXCEPT !.loop_scratch_depth = cg.scratch_depth], ns)
  IN  Out([cg_scope_pop_to(b.cg, Len(cg.scope)) EXCEPT !.loop_scratch_depth = cg.loop_scratch_depth],
          CSeq(b.cs))

cg_while_expr(cg, n) ==
  LET c == cg_expr(cg, n.c)
      b == cg_loop_body_block(c, n.body)
  IN  Out(b, CLoop(c.c, CVoid, b.c))

cg_for_c_expr(cg, n) ==
  LET r == cg_scope_reserve(cg, n.name)
      i == cg_expr(r, n.a)
      c == cg_expr(i, n.c)
      e == cg_expr(c, n.b)
      b == cg_loop_body_block(cg_scope_register(e, n.name, r.c), n.body)
  IN  Out(cg_scope_pop_to(b, Len(cg.scope)), CSeq(<< CDecl(n.a.t, r.c, i.c), CLoop(c.c, e.c, b.c) >>))

(* x += e *)
AddTo(x, e) == CAssign(x, CBin("Add", x, e))
cg_for_range_expr(cg, n) ==
  LET r == cg_scope_reserve(cg, n.name)
      x == CVar(n.a.t, r.c)
      i == cg_expr(r, n.a)
      e == cg_expr(i, n.b)
      s == cg_expr(e, n.c)
      b == cg_loop_body_block(cg_scope_register(s, n.name, r.c), n.body)
  IN  Out(cg_scope_pop_to(b, Len(cg.scope)),
          CSeq(<< CDecl(n.a.t, r.c, i.c), CLoop(CBin("Lt", x, e.c), AddTo(x, s.c), b.c) >>))

Decay(ty, c) == IF ty = "A" THEN CAddr("p", c) ELSE c
cg_foreach_expr(cg, n) ==
  LET ir == IF n.index = "" THEN Out(cg, << "_3b_foreach_i", -1 >>) ELSE cg_scope_reserve(cg, n.index)
      i  == CVar("u64", ir.c)
      cl == cg_expr(ir, n.a)
      xs == << "_3b_foreach_coll", -1 >>
      ct == IF n.a.t = "A" THEN CLit("u32", ArrayCount)
            ELSE CRuntime("u64", "dyn_count", << CVar("p", xs) >>)
      re == IF n.index = "" THEN cl ELSE cg_scope_register(cl, n.index, ir.c)
      er == cg_scope_reserve(re, n.name)
      b  == cg_stmts([cg_scope_register(er, n.name, er.c) EXCEPT !.loop_scratch_depth = cg.scratch_depth], n.body)
      el == CDecl("i32", er.c, CIndex("i32", CVar("p", xs), i))
  IN  Out([cg_scope_pop_to(b.cg, Len(cg.scope)) EXCEPT !.loop_scratch_depth = cg.loop_scratch_depth],
          CSeq(<< CDecl("p", xs, Decay(n.a.t, cl.c)), CDecl("u64", ir.c, CLit("i32", 0)),
                  CLoop(CBin("Lt", i, ct), AddTo(i, CLit("i32", 1)), CSeq(<< el >> \o b.cs)) >>))

(* bbb_lane_range outside a parallel block is the whole range.             *)
cg_parallel_for_expr(cg, n) ==
  LET r == cg_scope_reserve(cg, n.name)
      x == CVar(n.a.t, r.c)
      m == cg_expr(r, n.a)
      b == cg_loop_body_block(cg_scope_register(m, n.name, r.c), n.body)
      max == << "__pr.max", -1 >>
  IN  Out(cg_scope_pop_to(b, Len(cg.scope)),
          CSeq(<< CDecl("u64", max, CCast("u64", m.c)), CDecl(n.a.t, r.c, CLit("i32", 0)),
                  CLoop(CBin("Lt", x, CCast(n.a.t, CVar("u64", max))), AddTo(x, CLit("i32", 1)), b.c) >>))

(* The body becomes a function that sees the captures, and no other local; here one lane runs it. *)
CaptureName(i) == << "__cap", i >>
cg_parallel_expr(cg, n) ==
  LET es == cg_all(cg, n.args)
      in == FoldLeft(LAMBDA c, i : cg_scope_register(c, n.names[i], CaptureName(i)),
                     [es.cg EXCEPT !.scope = << >>, !.scratch_depth = 0], [i \in DOMAIN n.args |-> i])
      b  == cg_stmts(in, n.body)
  IN  Out([b.cg EXCEPT !.scope = cg.scope, !.scratch_depth = cg.scratch_depth],
          CLane([i \in DOMAIN n.args |-> CDecl(n.args[i].t, CaptureName(i), es.cs[i])], b.cs))

cg_jump(cg, n) ==
  Out(cg, CSeq(cg_unwind_scratch_scopes(cg, cg.loop_scratch_depth)
                 \o << CJump(IF n.k = "BreakExpr" THEN "break" ELSE "continue") >>))

cg_return(cg, n) ==
  LET e   == cg_expr(cg, n.a)
      tmp == << "_3b_ret_value", -1 >>
      uw  == cg_unwind_scratch_scopes(cg, 0)
  IN  CASE n.a.k = "TYPED_NIL"   -> Out(cg, CSeq(uw \o << CReturn(CVoid) >>))
        [] cg.scratch_depth # 0  -> Out(e, CSeq(<< CDecl(n.a.t, tmp, e.c) >> \o uw
                                                 \o << CReturn(CVar(n.a.t, tmp)) >>))
        [] OTHER                 -> Out(e, CReturn(e.c))

(***************************************************************************)
(* Expressions.                                                            *)
(***************************************************************************)
(* The generated comparators: the first field that differs decides. *)
Sign(x, y) == CCond(CBin("Lt", x, y), CLit("i32", -1), CCond(CBin("Gt", x, y), CLit("i32", 1), CLit("i32", 0)))
cg_emit_struct_comparators(op, a, b) ==
  LET x == CVar("S", << "a", -1 >>)
      y == CVar("S", << "b", -1 >>)
      c == CVar("i32", << "c", -1 >>)
  IN  CSeq(<< CDecl("S", << "a", -1 >>, a), CDecl("S", << "b", -1 >>, b),
              CDecl("i32", << "c", -1 >>, Sign(CField(x, "a"), CField(y, "a"))),
              CBin(op, CCond(CBin("Neq", c, CLit("i32", 0)), c, Sign(CField(x, "b"), CField(y, "b"))),
                   CLit("i32", 0)) >>)

cg_binary(cg, n) ==
  LET a == cg_expr(cg, n.a)
      b == cg_expr(a, n.b)
  IN  Out(b, IF n.a.t = "S" THEN cg_emit_struct_comparators(n.op, a.c, b.c)
             ELSE IF n.k = "Logical" THEN CLogic(n.op, a.c, b.c) ELSE CBin(n.op, a.c, b.c))

(* The suffix of an integer literal depends on its type only for the 64-bit ones. *)
cg_int_literal(cg, n) == Out(cg, CLit(IF BitsOf(n.t) = WordBits THEN n.t ELSE "i32", n.v))

cg_set_target_lvalue(cg, o, ty) ==
  IF o.k = "Identifier" THEN Out(cg, CVar(ty, cg_scope_lookup(cg, o.name))) ELSE cg_expr(cg, o)
cg_set(cg, n) ==
  LET l == cg_set_target_lvalue(cg, n.target, n.t)
      v == cg_expr(l, n.a)
  IN  Out(v, CAssign(l.c, v.c))

cg_index_access(cg, n) ==
  LET a == cg_expr(cg, n.a)
      i == cg_expr(a, n.b)
  IN  Out(i, CIndex(n.t, a.c, i.c))

cg_push_alloc(cg, n) ==
  LET a == cg_expr(cg, n.a)
      m == cg_expr(a, n.b)
  IN  Out(m, CRuntime(n.t, "arena_push", << CBin("Mul", m.c, CLit("i32", layout_of(ElemType(n.t)))) >>))

(* bbb_dyn_push: the count and the capacity are read before the value is. *)
cg_dyn_push(cg, n) ==
  LET a   == cg_expr(cg, n.arena)
      arr == CVar("p", cg_scope_lookup(a, n.name))
      v   == cg_expr(a, n.a)
      c   == Temp("_c")
  IN  Out(v, CSeq(<<
        CDecl("u64", c.n, CRuntime("u64", "dyn_count", << arr >>)),
        CCond(CBin("Ge", c, CRuntime("u64", "dyn_capacity", << arr >>)),
              CAssign(arr, CRuntime("p", "dyn_grow", << arr, CLit("i32", layout_of(n.a.t)) >>)), arr),
        CAssign(CIndex(n.a.t, arr, c), v.c),
        CRuntime("void", "dyn_set_count", << arr, CBin("Add", c, CLit("i32", 1)) >>) >>))

(***************************************************************************)
(* Calls: the built-ins are macros and statement expressions.              *)
(***************************************************************************)
cg_swap(cg, as) ==
  LET a == cg_expr(cg, as[1])
      b == cg_expr(a, as[2])
      t == << "t__", -1 >>
  IN  Out(b, CSeq(<< CDecl(as[1].t, t, a.c), CAssign(a.c, b.c), CAssign(b.c, CVar(as[1].t, t)) >>))

(* bbb_Min, bbb_Max, bbb_Clamp, bbb_Abs: an argument is evaluated each time it appears. *)
cg_minmax(cg, f, as) ==
  LET es == cg_all(cg, as)
      x  == es.cs[1]
      y  == es.cs[2]
  IN  Out(es.cg,
        CASE f = "min" -> CCond(CBin("Lt", x, y), x, y)
          [] f = "max" -> CCond(CBin("Gt", x, y), x, y)
          [] f = "abs" -> CCond(CBin("Lt", x, CLit("i32", 0)), CUn("Neg", x), x)
          [] f = "clamp" -> CCond(CBin("Lt", x, y), y, CCond(CBin("Gt", x, es.cs[3]), es.cs[3], x)))

CountC(ty, c) == IF ty = "A" THEN CLit("u64", ArrayCount) ELSE CRuntime("u64", "dyn_count", << c >>)
cg_len(cg, a) == LET x == cg_expr(cg, a) IN Out(x, CountC(a.t, x.c))

cg_nth_checked(cg, as) ==
  LET i == cg_expr(cg, as[2])
      b == cg_expr(i, as[1])
      n == Temp("_3b_i")
      base == << "_3b_base", -1 >>
  IN  Out(b, CSeq(<< CDecl("u64", n.n, CCast("u64", i.c)), CDecl("p", base, Decay(as[1].t, b.c)),
                     CCond(CBin("Lt", n, CountC(as[1].t, CVar("p", base))),
                           CAddr("p", CIndex("i32", CVar("p", base), n)), CLit("p", 0)) >>))

cg_vector_clear(cg, as) ==
  LET v == cg_expr(cg, as[1])
      x == CVar("p", << "_3b_v", -1 >>)
  IN  Out(v, CSeq(<< CDecl("p", x.n, v.c),
                     CCond(x, CRuntime("void", "dyn_set_count", << x, CLit("i32", 0) >>), CVoid) >>))

cg_vector_remove(cg, is_swap, as) ==
  LET v == cg_expr(cg, as[1])
      i == cg_expr(v, as[2])
      x == CVar("p", << "_3b_v", -1 >>)
      k == Temp("_3b_i")
      n == Temp("_3b_n")
      j == Temp("_3b_j")
      one == CLit("i32", 1)
      ok  == CVar("i32", << "_3b_ok", -1 >>)
      At(e) == CIndex("i32", x, e)
      gap == IF is_swap THEN CAssign(At(k), At(CBin("Sub", n, one)))
             ELSE CSeq(<< CDecl("u64", j.n, k),
                          CLoop(CBin("Lt", CBin("Add", j, one), n), AddTo(j, one),
                                CAssign(At(j), At(CBin("Add", j, one)))) >>)
  IN  Out(i, CSeq(<< CDecl("p", x.n, v.c), CDecl("u64", k.n, CCast("u64", i.c)),
                     CDecl("u64", n.n, CRuntime("u64", "dyn_count", << x >>)),
                     CDecl("i32", ok.n, CBin("Lt", k, n)),
                     CCond(ok, CSeq(<< gap, CRuntime("void", "dyn_set_count", << x, CBin("Sub", n, one) >>) >>), CVoid),
                     ok >>))

cg_vector_find(cg, wantIndex, as) ==
  LET v == cg_expr(cg, as[1])
      d == cg_expr(v, as[2])
      x == CVar("p", << "_3b_v", -1 >>)
      y == CVar("i32", << "_3b_needle", -1 >>)
      n == Temp("_3b_n")
      i == Temp("_3b_i")
      at == Temp("_3b_idx")
      found == CVar("i32", << "_3b_found", -1 >>)
      hit == CSeq(<< CAssign(found, CLit("i32", 1)), CAssign(at, i), CJump("break") >>)
  IN  Out(d, CSeq(<< CDecl("p", x.n, v.c), CDecl("i32", y.n, d.c),
                     CDecl("u64", n.n, CRuntime("u64", "dyn_count", << x >>)), CDecl("u64", at.n, n),
                     CDecl("i32", found.n, CLit("i32", 0)), CDecl("u64", i.n, CLit("i32", 0)),
                     CLoop(CBin("Lt", i, n), AddTo(i, CLit("i32", 1)),
                           CCond(CBin("Eq", CIndex("i32", x, i), y), hit, CVoid)),
                     IF wantIndex THEN at ELSE found >>))

(* cg_print_hoist_args: every value into a variable of its type, then one printf. *)
cg_print(cg, as) ==
  LET es == cg_all(cg, as)
      pval(i) == << "__3b_pval", -i >>
  IN  Out(es.cg, CSeq([i \in DOMAIN as |-> CDecl(as[i].t, pval(i), es.cs[i])]
                        \o << CPrintf([i \in DOMAIN as |-> CVar(as[i].t, pval(i))]) >>))

ByRef(ty) == ty \in {"A", "V"}            \* array parameters decay, vectors are passed as T**
cg_user_call(cg, n) ==
  LET es == cg_all(cg, n.args)
  IN  Out(es.cg, CCall(n.t, SelectInSeq(prog.fns, LAMBDA f : f.name = n.callee),
                       [i \in DOMAIN n.args |-> IF ByRef(n.args[i].t) THEN CAddr("p", es.cs[i]) ELSE es.cs[i]]))

cg_call(cg, n) ==
  CASE n.callee = "swap"  -> cg_swap(cg, n.args)
    [] n.callee = "len"   -> cg_len(cg, n.args[1])
    [] n.callee \in {"lane-index", "lane-count", "lane-sync"} -> Out(cg, CRuntime(n.t, n.callee, << >>))
    [] n.callee = "nth-checked" -> cg_nth_checked(cg, n.args)
    [] n.callee = "vector-clear" -> cg_vector_clear(cg, n.args)
    [] n.callee \in {"vector-swap-remove", "vector-remove-at"} ->
         cg_vector_remove(cg, n.callee = "vector-swap-remove", n.args)
    [] n.callee \in {"vector-contains?", "vector-index-of"} ->
         cg_vector_find(cg, n.callee = "vector-index-of", n.args)
    [] n.callee \in {"abs", "min", "max", "clamp"} -> cg_minmax(cg, n.callee, n.args)
    [] n.callee = "print" -> cg_print(cg, n.args)
    [] OTHER -> cg_user_call(cg, n)

cg_node(cg, n) ==
  CASE n.k = "IntLiteral"  -> cg_int_literal(cg, n)
    [] n.k = "Literal"     -> Out(cg, CLit(n.t, n.v))
    [] n.k = "Identifier"  -> Out(cg, CVar(n.t, cg_scope_lookup(cg, n.name)))
    [] n.k \in {"Binary", "Logical"} -> cg_binary(cg, n)
    [] n.k = "Unary"       -> LET e == cg_expr(cg, n.a) IN Out(e, CUn(n.op, e.c))
    [] n.k = "BinaryCast"  -> LET e == cg_expr(cg, n.a) IN Out(e, CCast(n.t, e.c))
    [] n.k = "IfExpr"      -> cg_if_expr(cg, n)
    [] n.k \in {"BreakExpr", "ContinueExpr"} -> cg_jump(cg, n)
    [] n.k = "WhileExpr"   -> cg_while_expr(cg, n)
    [] n.k = "ForCExpr"    -> cg_for_c_expr(cg, n)
    [] n.k = "ForRangeExpr" -> cg_for_range_expr(cg, n)
    [] n.k = "ForEachExpr" -> cg_foreach_expr(cg, n)
    [] n.k = "ParallelForExpr" -> cg_parallel_for_expr(cg, n)
    [] n.k = "ParallelExpr" -> cg_parallel_expr(cg, n)
    [] n.k = "LetExpr"     -> cg_let_expr(cg, n)
    [] n.k = "ScratchExpr" -> cg_scratch_expr(cg, n)
    [] n.k = "PushAlloc"   -> cg_push_alloc(cg, n)
    [] n.k = "DynPush"     -> cg_dyn_push(cg, n)
    [] n.k = "ReturnExpr"  -> cg_return(cg, n)
    [] n.k = "Block"       -> cg_block_as_expr(cg, n.body)
    [] n.k \in {"StructLiteral", "ArrayLiteral"} ->
         LET es == cg_all(cg, n.args) IN Out(es.cg, CBraces(n.t, es.cs))
    [] n.k = "FieldAccess" -> LET e == cg_expr(cg, n.a) IN Out(e, CField(e.c, n.field))
    [] n.k = "IndexAccess" -> cg_index_access(cg, n)
    [] n.k = "UnaryDeref"  -> LET e == cg_expr(cg, n.a) IN Out(e, CDeref(n.t, e.c))
    [] n.k = "UnaryAddr"   -> LET e == cg_expr(cg, n.a) IN Out(e, CAddr(n.t, e.c))
    [] n.k = "SetExpr"     -> cg_set(cg, n)
    [] n.k \in Declarations -> cg_declare_named(cg, n.vt, n.name, n.a)
    [] n.k = "Call"        -> cg_call(cg, n)
    [] n.k = "TYPED_NIL"   -> Out(cg, CLit("i32", 0))
cg_expr(cg, n) == Strictly(cg, LAMBDA g : cg_node(g, n))

(***************************************************************************)
(* Functions.  The last statement of a function that returns a value is    *)
(* printed behind "return", and in main the context is freed before it.    *)
(***************************************************************************)
WithReturn(f, cs) ==
  LET last == Last(f.body)
      returns == f.ret # "void" /\ last.k \notin Declarations /\ last.t # "Unresolved"
      free == IF f.name = "main" THEN << CRuntime("void", "ctx_free", << >>) >> ELSE << >>
  IN  IF returns THEN Front(cs) \o free \o << CReturn(Last(cs)) >> ELSE cs
cg_function_body_stmts(cg, f) == WithReturn(f, cg_stmts(cg, f.body).cs)

cg_function(f) ==
  LET Param(acc, p) == LET r == cg_scope_reserve(acc.cg, p.name)
                       IN  [cg |-> cg_scope_register(r, p.name, r.c),
                            ps |-> Append(acc.ps, [n |-> r.c, t |-> p.t, byref |-> ByRef(p.t)])]
      in == FoldLeft(Param, [cg |-> Codegen, ps |-> << >>], f.params)
  IN  [params |-> in.ps, body |-> cg_function_body_stmts(in.cg, f)]

cg_program ==
  [fns |-> [i \in DOMAIN prog.fns |-> cg_function(prog.fns[i])],
   globals |-> [x \in {<< prog.globals[i].name, 0 >> : i \in DOMAIN prog.globals} |->
                  CStackBase + SelectInSeq(prog.globals, LAMBDA g : g.name = x[1]) - 1]]

(* What the compiled program does when it is run: main, with the globals initialised. *)
RunMain(p) ==
  Ev(p, Machine(p.globals, [i \in DOMAIN prog.globals |-> prog.globals[i].v]), CCall("i32", 1, << >>))
RunNativeProgram == RunMain(cg_program)
=============================================================================
