-------------------------------- MODULE CSem --------------------------------
(***************************************************************************)
(* The part of C that generated programs use: its terms, and what they     *)
(* compute.  This is the language the C compiler implements, not code of   *)
(* the repository.  A term's field k is its kind and t its C type.  s is   *)
(* the machine: memory mem, the scratch arena scr, env from C names to     *)
(* addresses, printed values out, how control left the last term (ctl) and *)
(* its value v, a sequence of cells.  ctl is "ok", a jump ("break",        *)
(* "continue", "return"), "ub" when the program overflows, divides by zero *)
(* or follows a null pointer, or "crash" when the generated code uses a    *)
(* variable or an arena that is not there.                                 *)
(***************************************************************************)
EXTENDS Lang, SequencesExt

CLit(ty, v)      == [k |-> "lit", t |-> ty, v |-> v]
CVar(ty, n)      == [k |-> "var", t |-> ty, n |-> n]
CUn(op, a)       == [k |-> "un", t |-> a.t, op |-> op, a |-> a]
CCast(ty, a)     == [k |-> "cast", t |-> ty, a |-> a]
CBin(op, a, b)   == [k |-> "bin", t |-> a.t, op |-> op, a |-> a, b |-> b]
CLogic(op, a, b) == [k |-> "logic", t |-> "i32", op |-> op, a |-> a, b |-> b]
CCond(c, a, b)   == [k |-> "cond", t |-> a.t, c |-> c, a |-> a, b |-> b]
CSeq(ss)         == [k |-> "seq", t |-> IF ss = << >> THEN "void" ELSE Last(ss).t, ss |-> ss]
CDecl(ty, n, i)  == [k |-> "decl", t |-> "void", ty |-> ty, n |-> n, i |-> i]
CNoInit          == [k |-> "zero", t |-> "void"]
CAssign(l, r)    == [k |-> "assign", t |-> l.t, l |-> l, r |-> r]
CLoop(c, e, b)   == [k |-> "loop", t |-> "void", c |-> c, e |-> e, b |-> b]
CJump(kind)      == [k |-> "jump", t |-> "void", kind |-> kind]
CReturn(a)       == [k |-> "return", t |-> "void", a |-> a]
CVoid            == CLit("void", 0)
CCall(ty, f, as) == [k |-> "call", t |-> ty, f |-> f, as |-> as]
CAddr(ty, a)     == [k |-> "addr", t |-> ty, a |-> a]
CDeref(ty, a)    == [k |-> "deref", t |-> ty, a |-> a]
CField(a, f)     == [k |-> "field", t |-> FieldType(f), a |-> a, f |-> f]
CIndex(ty, a, i) == [k |-> "index", t |-> ty, a |-> a, i |-> i]
CBraces(ty, as)  == [k |-> "braces", t |-> ty, as |-> as]
CPrintf(as)      == [k |-> "printf", t |-> "void", as |-> as]
CLane(ds, b)     == [k |-> "lane", t |-> "void", ds |-> ds, b |-> b]
CRuntime(ty, f, as) == [k |-> "runtime", t |-> ty, f |-> f, as |-> as]

(* Integer promotion and the usual arithmetic conversions. *)
Promoted(ty) == IF ty \in {"i8", "u8", "bool"} THEN "i32" ELSE ty
Common(t1, t2) ==
  LET ts == {Promoted(t1), Promoted(t2)}
  IN  CASE "u64" \in ts -> "u64" [] "i64" \in ts -> "i64" [] "u32" \in ts -> "u32" [] OTHER -> "i32"
CompareOps == {"Eq", "Neq", "Lt", "Le", "Gt", "Ge"}
RECURSIVE TypeOf(_)
TypeOf(e) == CASE e.k = "bin" -> IF e.op \in CompareOps THEN "i32" ELSE Common(TypeOf(e.a), TypeOf(e.b))
               [] e.k = "un" -> IF e.op = "Not" THEN "i32" ELSE Promoted(TypeOf(e.a))
               [] e.k = "cond" /\ e.t \in IntTypes -> Common(TypeOf(e.a), TypeOf(e.b))
               [] e.k = "seq" /\ e.ss # << >> -> TypeOf(Last(e.ss))
               [] OTHER -> e.t

CStackBase   == 100
CScratchBase == 600
Indeterminate == 5000        \* the content of a cell nobody wrote

Machine(env, mem) == [mem |-> mem, scr |-> << >>, env |-> env, out |-> << >>, ctl |-> "ok",
                      v |-> << 0 >>, ctx |-> TRUE]
Leave(s, ctl) == [s EXCEPT !.ctl = ctl]
Value(s, v)   == [s EXCEPT !.v = v]
Then(s, F(_)) == IF s.ctl = "ok" THEN F(s) ELSE s

InMem(s, a) == a - CStackBase \in 0..(Len(s.mem) - 1)
InScr(s, a) == a - CScratchBase \in 0..(Len(s.scr) - 1)
CellAt(s, a) == IF InMem(s, a) THEN s.mem[a - CStackBase + 1]
                ELSE IF InScr(s, a) /\ s.ctx THEN s.scr[a - CScratchBase + 1] ELSE Indeterminate
ReadAt(s, a, n) == LET v == [i \in 1..n |-> CellAt(s, a + i - 1)]
                   IN  IF a < CStackBase THEN Leave(s, "ub")
                       ELSE IF \E i \in 1..n : v[i] = Indeterminate THEN Leave(s, "crash") ELSE Value(s, v)
PutCell(s, a, v) == IF InMem(s, a) THEN [s EXCEPT !.mem[a - CStackBase + 1] = v]
                    ELSE IF InScr(s, a) /\ s.ctx THEN [s EXCEPT !.scr[a - CScratchBase + 1] = v]
                    ELSE Leave(s, IF a < CStackBase THEN "ub" ELSE "crash")
WriteAt(s, a, v) == FoldLeft(LAMBDA m, i : PutCell(m, a + i - 1, v[i]), s, [i \in DOMAIN v |-> i])
Declare(s, n, cells) == [s EXCEPT !.mem = @ \o cells,
                                  !.env = [x \in DOMAIN @ \cup {n} |->
                                             IF x = n THEN CStackBase + Len(s.mem) ELSE @[x]]]
Cells(n, v) == [i \in 1..n |-> v]

InRange(ty, v) == Conv(ty, v) = v
Arith(s, ty, v) == IF Unsigned(ty) \/ InRange(ty, v) THEN Value(s, << Conv(ty, v) >>) ELSE Leave(s, "ub")
Truth(b) == << IF b THEN 1 ELSE 0 >>
Compare(op, x, y) == CASE op = "Eq" -> x = y [] op = "Neq" -> x # y [] op = "Lt" -> x < y
                       [] op = "Le" -> x <= y [] op = "Gt" -> x > y [] op = "Ge" -> x >= y
Operate(s, op, ty, x, y) ==
  CASE op = "Add" -> Arith(s, ty, x + y)
    [] op = "Sub" -> Arith(s, ty, x - y)
    [] op = "Mul" -> Arith(s, ty, x * y)
    [] op \in {"Div", "Mod"} /\ y = 0 -> Leave(s, "ub")
    [] op = "Div" -> Arith(s, ty, TruncDiv(x, y))
    [] op = "Mod" -> Arith(s, ty, TruncMod(x, y))
    [] OTHER -> Value(s, Truth(Compare(op, x, y)))

RECURSIVE Ev(_, _, _), Lv(_, _, _), EvAll(_, _, _), EvStmts(_, _, _), Loop(_, _, _)

(* p is the program: its functions [params, body] and the addresses of its globals. *)
EvAll(p, s, es) ==
  IF es = << >> THEN Value(s, << >>)
  ELSE Then(Ev(p, s, Head(es)), LAMBDA m :
         Then(EvAll(p, m, Tail(es)), LAMBDA q : Value(q, << m.v >> \o q.v)))
EvStmts(p, s, ss) ==
  IF ss = << >> THEN s ELSE Then(Ev(p, s, Head(ss)), LAMBDA m : EvStmts(p, m, Tail(ss)))
Scoped(m, s) == [m EXCEPT !.env = s.env]

Loop(p, s, e) ==
  Then(Ev(p, s, e.c), LAMBDA m :
    IF m.v = << 0 >> THEN Value(m, << 0 >>)
    ELSE LET b == Ev(p, m, e.b)
             n == IF b.ctl = "continue" THEN Leave(b, "ok") ELSE b
         IN  IF n.ctl = "break" THEN Leave(Scoped(n, s), "ok")
             ELSE Then(n, LAMBDA q : Then(Ev(p, Scoped(q, s), e.e), LAMBDA r : Loop(p, r, e))))

CallFn(p, s, e) ==
  LET f == p.fns[e.f]
      Pass(m, i) == IF f.params[i].byref THEN [m EXCEPT !.env = [x \in DOMAIN @ \cup {f.params[i].n} |->
                                                 IF x = f.params[i].n THEN s.v[i][1] ELSE @[x]]]
                    ELSE Declare(m, f.params[i].n,
                                 IF f.params[i].t \in IntTypes THEN << Conv(f.params[i].t, s.v[i][1]) >> ELSE s.v[i])
      in  == FoldLeft(Pass, [s EXCEPT !.env = p.globals], [i \in DOMAIN f.params |-> i])
      r   == EvStmts(p, in, f.body)
  IN  IF r.ctl \in {"ub", "crash"} THEN r
      ELSE [r EXCEPT !.env = s.env, !.ctl = "ok", !.v = IF e.t \in IntTypes THEN << Conv(e.t, @[1]) >> ELSE @]

(* The runtime's arena and growable-array functions (bbb_arena.c, bbb_arena.h). *)
DynCount(s, q) == IF q = 0 THEN Value(s, << 0 >>) ELSE ReadAt(s, q - 2, 1)
DynGrow(s, q, n) ==
  LET old == IF q = 0 THEN 0 ELSE CellAt(s, q - 1)
      cap == IF old = 0 THEN 2 ELSE 2 * old
  IN  Value([s EXCEPT !.scr = @ \o << DynCount(s, q).v[1], cap >> \o
                              [i \in 1..(cap * n) |-> IF i <= old * n THEN CellAt(s, q + i - 1) ELSE 0]],
            << CScratchBase + Len(s.scr) + 2 >>)
Runtime(s, f, v) ==
  CASE ~s.ctx -> Leave(s, "crash")
    [] f = "arena_mark" -> Value(s, << Len(s.scr) >>)
    [] f = "arena_pop"  -> [s EXCEPT !.scr = SubSeq(@, 1, v[1][1])]
    [] f = "arena_push" -> Value([s EXCEPT !.scr = @ \o Cells(v[1][1], 0)], << CScratchBase + Len(s.scr) >>)
    [] f = "dyn_count"  -> DynCount(s, v[1][1])
    [] f = "dyn_set_count" -> PutCell(s, v[1][1] - 2, v[2][1])
    [] f = "dyn_capacity" -> IF v[1][1] = 0 THEN Value(s, << 0 >>) ELSE ReadAt(s, v[1][1] - 1, 1)
    [] f = "dyn_grow"   -> DynGrow(s, v[1][1], v[2][1])
    [] f \in {"lane-index", "lane-sync"} -> Value(s, << 0 >>)        \* one lane
    [] f = "lane-count" -> Value(s, << 1 >>)
    [] f = "ctx_free"   -> [s EXCEPT !.ctx = FALSE]

Lv(p, s, e) ==
  CASE e.k = "var"   -> Value(s, << s.env[e.n] >>)
    [] e.k = "deref" -> Ev(p, s, e.a)
    [] e.k = "field" -> Then(Lv(p, s, e.a), LAMBDA m : Value(m, << m.v[1] + FieldOffset(e.f) >>))
    [] e.k = "index" -> Then(IF e.a.t = "A" THEN Lv(p, s, e.a) ELSE Ev(p, s, e.a), LAMBDA m :
                          Then(Ev(p, m, e.i), LAMBDA q :
                            Value(q, << m.v[1] + q.v[1] * layout_of(e.t) >>)))
    [] OTHER -> Then(Ev(p, s, e), LAMBDA m : Value([m EXCEPT !.mem = @ \o m.v], << CStackBase + Len(m.mem) >>))

Ev(p, s, e) ==
  CASE e.k = "lit" -> Value(s, << e.v >>)
    [] e.k \in {"var", "deref", "field", "index"} -> Then(Lv(p, s, e), LAMBDA m : ReadAt(m, m.v[1], layout_of(e.t)))
    [] e.k = "addr" -> Lv(p, s, e.a)
    [] e.k = "un" ->
         Then(Ev(p, s, e.a), LAMBDA m :
           LET ty == Promoted(TypeOf(e.a))
           IN  CASE e.op = "Neg" -> Arith(m, ty, -m.v[1])
                 [] e.op = "BitNot" -> Value(m, << Conv(ty, -1 - m.v[1]) >>)
                 [] OTHER -> Value(m, Truth(m.v[1] = 0)))
    [] e.k = "cast" -> Then(Ev(p, s, e.a), LAMBDA m : IF e.t = "void" THEN m ELSE Value(m, << Conv(e.t, m.v[1]) >>))
    [] e.k = "bin" ->
         Then(Ev(p, s, e.a), LAMBDA m : Then(Ev(p, m, e.b), LAMBDA q :
           LET ty == Common(TypeOf(e.a), TypeOf(e.b))
           IN  Operate(q, e.op, ty, Conv(ty, m.v[1]), Conv(ty, q.v[1]))))
    [] e.k = "logic" ->
         Then(Ev(p, s, e.a), LAMBDA m :
           IF (m.v[1] = 0) = (e.op = "And") THEN Value(m, Truth(m.v[1] # 0))
           ELSE Then(Ev(p, m, e.b), LAMBDA q : Value(q, Truth(q.v[1] # 0))))
    [] e.k = "cond" -> Then(Ev(p, s, e.c), LAMBDA m : Ev(p, m, IF m.v[1] # 0 THEN e.a ELSE e.b))
    [] e.k = "seq" -> LET m == EvStmts(p, s, e.ss) IN Scoped(m, s)
    [] e.k = "decl" ->         \* the name is in scope in its own initialiser
         IF e.i.k = "zero" THEN Declare(s, e.n, Cells(layout_of(e.ty), 0))
         ELSE LET d == Declare(s, e.n, Cells(layout_of(e.ty), Indeterminate))
              IN  Then(Ev(p, d, e.i), LAMBDA m :
                    WriteAt(m, d.env[e.n], IF e.ty \in IntTypes \cup {"bool"} THEN << Conv(e.ty, m.v[1]) >> ELSE m.v))
    [] e.k = "assign" ->
         Then(Lv(p, s, e.l), LAMBDA m : Then(Ev(p, m, e.r), LAMBDA q :
           LET v == IF e.t \in IntTypes \cup {"bool"} THEN << Conv(e.t, q.v[1]) >> ELSE q.v
           IN  Value(WriteAt(q, m.v[1], v), v)))
    [] e.k = "loop" -> Loop(p, s, e)
    [] e.k = "jump" -> Leave(s, e.kind)
    [] e.k = "return" -> Then(Ev(p, s, e.a), LAMBDA m : Leave(m, "return"))
    [] e.k = "braces" -> Then(EvAll(p, s, e.as), LAMBDA m :
                           Value(m, [i \in DOMAIN m.v |->
                                       Conv(IF e.t = "S" THEN FieldsOf[i].t ELSE "i32", m.v[i][1])]))
    [] e.k = "printf" -> Then(EvAll(p, s, e.as), LAMBDA m :
                           [m EXCEPT !.out = @ \o [i \in DOMAIN m.v |-> m.v[i][1]]])
    [] e.k = "runtime" -> Then(EvAll(p, s, e.as), LAMBDA m : Runtime(m, e.f, m.v))
    [] e.k = "lane" ->     \* a function that is called with the address of what ds declares
         Then(EvStmts(p, s, e.ds), LAMBDA m :
           LET own == {e.ds[i].n : i \in DOMAIN e.ds}
               in  == [x \in DOMAIN p.globals \cup own |-> IF x \in own THEN m.env[x] ELSE p.globals[x]]
               r   == EvStmts(p, [m EXCEPT !.env = in], e.b)
           IN  [r EXCEPT !.env = s.env, !.ctl = IF @ = "return" THEN "ok" ELSE @])
    [] e.k = "call" ->
         Then(EvAll(p, s, e.as), LAMBDA m : CallFn(p, m, e))
=============================================================================
