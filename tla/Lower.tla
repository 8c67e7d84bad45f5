------------------------------- MODULE Lower -------------------------------
(***************************************************************************)
(* Lowering (lower.c): the forms the parser made of the text become the    *)
(* nodes of Lang, and the shorthands of the language become the few        *)
(* constructs the checker knows.  A form is an atom, a string, a list, a   *)
(* vector or a map.  low holds the names the first passes registered.  An  *)
(* error is a node of its own, so that a program had one exactly if it     *)
(* holds such a node; texts and positions are left out.                    *)
(*                                                                         *)
(* Names of synthesized types are unique by a counter in the code; here    *)
(* such a type is its shape, and where it was made if the code makes it    *)
(* anew each time.  A let of several bindings is a let for each, one       *)
(* inside the other, which is how they are checked and compiled.           *)
(***************************************************************************)
EXTENDS Lang, SequencesExt, TLC

Untyped == "Unresolved"

(***************************************************************************)
(* Forms.                                                                  *)
(***************************************************************************)
Atom(x)      == [f |-> "atom", cls |-> "name", x |-> x, of |-> "", v |-> 0, suffix |-> << >>]
Pointer(x)   == [Atom(x) EXCEPT !.suffix = << "*" >>]
HandleOf(x)  == [Atom(x) EXCEPT !.suffix = << "^" >>]
Key(x)       == [Atom(x) EXCEPT !.cls = "key"]
Variant(e, x) == [Atom(x) EXCEPT !.cls = "slash", !.of = e]
Num(v)       == [Atom("") EXCEPT !.cls = "number", !.v = v]
Suffixed(v, ty) == [Num(v) EXCEPT !.of = ty]
Str(s)       == [f |-> "string", x |-> s]
List(xs)     == [f |-> "list", xs |-> xs]
Vect(xs)     == [f |-> "vector", xs |-> xs]
MapForm(xs)  == [f |-> "map", xs |-> xs]

IsAtom(form)     == form.f = "atom"
IsVector(form)   == form.f = "vector"
IsMap(form)      == form.f = "map"
IsWord(form, x)  == IsAtom(form) /\ form.cls = "name" /\ form.x = x /\ form.suffix = << >>
IsKey(form)      == IsAtom(form) /\ form.cls = "key"
HeadIs(form, ws) == form.f = "list" /\ form.xs # << >> /\ \E w \in ws : IsWord(form.xs[1], w)
From(c, i)       == SubSeq(c, i, Len(c))
Halves(c, h)     == [i \in 1..(Len(c) \div 2) |-> c[2 * i - 2 + h]]

Bad == [k |-> "error", t |-> Untyped]

(***************************************************************************)
(* The names registered before any form is lowered.                        *)
(***************************************************************************)
Primitives == IntTypes \cup {"bool", "void", "arena", "string", "char", "f32", "f64", "any"}
NoNames == [structs |-> << >>, enums |-> {}, handles |-> {}, aliases |-> << >>, at |-> 0, multi |-> Untyped]
Knows(names, x) == x \in DOMAIN names
is_known_struct_name(low, x) == Knows(low.structs, x)
find_alias(low, x) == Knows(low.aliases, x)
is_known_type_atom(low, a) ==
  /\ IsAtom(a) /\ a.cls = "name"
  /\ IF a.suffix = << "^" >> THEN a.x \in low.handles
     ELSE a.x \in Primitives \/ is_known_struct_name(low, a.x) \/ a.x \in low.enums \/ find_alias(low, a.x)
let_slot_looks_like_type(low, form) ==
  is_known_type_atom(low, form) \/ IsVector(form) \/ HeadIs(form, {"member-type", "fn"})

(***************************************************************************)
(* Types.                                                                  *)
(***************************************************************************)
Unresolved == [kind |-> "Unresolved"]
Ty(kind, args) == [kind |-> kind, args |-> args]
Named(kind, x) == [kind |-> kind, x |-> x]
PointerTy(t)   == Ty("Pointer", << t >>)
type_ref_from_atom(a) ==
  LET base == IF a.x \in Primitives THEN Named("Primitive", a.x) ELSE Named("Named", a.x)
  IN  FoldLeft(LAMBDA t, s : PointerTy(t), base, a.suffix)

RECURSIVE lower_type_node(_, _), MarkConst(_)
lower_types(low, fs) == [i \in DOMAIN fs |-> lower_type_node(low, fs[i])]

(* A const marks what the pointers lead to. *)
MarkConst(t) == IF t.kind = "Pointer" THEN PointerTy(MarkConst(t.args[1])) ELSE Ty("const", << t >>)

AtomType(low, a) ==
  CASE a.suffix = << "^" >> -> IF a.x \in low.handles THEN Named("Handle", a.x) ELSE Unresolved
    [] find_alias(low, a.x) -> FoldLeft(LAMBDA t, s : PointerTy(t), low.aliases[a.x], a.suffix)
    [] OTHER -> type_ref_from_atom(a)

lower_hashtable_type(is_set, args) ==
  IF /\ args[1].kind = "Primitive"
     /\ args[1].x \in IntTypes \cup {"bool", "char", "string"}
  THEN Ty(IF is_set THEN "Set" ELSE "Map", args) ELSE Unresolved

(* A struct without a name is a new type wherever it is written; the parameter `{:f t}` and the types
   of several results are the same type wherever they have the same shape. *)
FieldsOk(fs, is_map) == /\ fs # << >> /\ Len(fs) % 2 = 0
                        /\ \A i \in DOMAIN Halves(fs, 1) : IF is_map THEN IsKey(Halves(fs, 1)[i]) ELSE IsAtom(Halves(fs, 1)[i])
Shape(low, fs) == [i \in DOMAIN Halves(fs, 1) |-> << Halves(fs, 1)[i].x, lower_type_node(low, Halves(fs, 2)[i]) >>]
lower_anon_struct_type(low, form) ==
  IF ~FieldsOk(form.xs, IsMap(form)) THEN Unresolved
  ELSE [kind |-> "Anon", shape |-> Shape(low, form.xs), at |-> low.at]
lower_anon_param_struct(low, form) ==
  IF ~FieldsOk(form.xs, TRUE) THEN Unresolved ELSE [kind |-> "Shape", shape |-> Shape(low, form.xs)]
Position(i) == CASE i = 1 -> "_0" [] i = 2 -> "_1" [] OTHER -> "_2"
lower_positional_struct_from_types(ts) ==
  [kind |-> "Shape", shape |-> [i \in DOMAIN ts |-> << Position(i), ts[i] >>]]
lower_multi_return_type(low, form) == lower_positional_struct_from_types(lower_types(low, form.xs))

lower_fn_type(low, c) ==
  IF Len(c) # 3 \/ ~IsVector(c[2]) \/ Len(c[2].xs) % 2 # 0 \/ ~\A i \in DOMAIN Halves(c[2].xs, 1) : IsAtom(Halves(c[2].xs, 1)[i])
  THEN Unresolved
  ELSE LET ret == lower_type_node(low, c[3])
       IN  IF ret.kind \in {"Array", "Fn"} THEN Unresolved ELSE Ty("Fn", lower_types(low, Halves(c[2].xs, 2)) \o << ret >>)

(* (member-type S f): the type of a field, read from the declaration's form. *)
lower_member_type(low, c) ==
  IF Len(c) # 3 \/ ~IsAtom(c[2]) \/ ~IsAtom(c[3]) \/ ~is_known_struct_name(low, c[2].x) THEN Unresolved
  ELSE LET fs == low.structs[c[2].x]
           at == {i \in DOMAIN Halves(fs, 1) : IsWord(Halves(fs, 1)[i], c[3].x)}
       IN  IF at = {} THEN Unresolved ELSE lower_type_node(low, Halves(fs, 2)[Min(at)])

lower_vector_type(low, fs) ==
  CASE Len(fs) = 1 -> Ty("Vector", lower_types(low, fs))
    [] Len(fs) = 2 /\ IsAtom(fs[2]) /\ fs[2].cls = "number" /\ fs[2].v > 0 -> Ty("Array", << lower_type_node(low, fs[1]) >>)
    [] OTHER -> Unresolved
lower_map_type(low, form) ==
  CASE form.xs = << >> -> Unresolved
    [] IsKey(form.xs[1]) -> IF Len(form.xs) % 2 = 0 THEN lower_anon_struct_type(low, form) ELSE Unresolved
    [] Len(form.xs) = 1 -> lower_hashtable_type(TRUE, lower_types(low, form.xs))
    [] Len(form.xs) = 2 -> lower_hashtable_type(FALSE, lower_types(low, form.xs))
    [] OTHER -> Unresolved
TypeWords == {"member-type", "fn", "Vector", "Map", "Set", "struct", "union", "const"}
lower_list_type(low, form) ==
  LET c == form.xs
  IN  CASE HeadIs(form, {"member-type"}) -> lower_member_type(low, c)
        [] HeadIs(form, {"fn"}) -> lower_fn_type(low, c)
        [] HeadIs(form, {"Vector"}) /\ Len(c) = 2 -> Ty("Vector", << lower_type_node(low, c[2]) >>)
        [] HeadIs(form, {"Map"}) /\ Len(c) = 3 -> lower_hashtable_type(FALSE, lower_types(low, From(c, 2)))
        [] HeadIs(form, {"Set"}) /\ Len(c) = 2 -> lower_hashtable_type(TRUE, lower_types(low, From(c, 2)))
        [] HeadIs(form, {"struct", "union"}) /\ Len(c) = 2 /\ (IsMap(c[2]) \/ IsVector(c[2])) -> lower_anon_struct_type(low, c[2])
        [] HeadIs(form, {"const"}) /\ Len(c) = 2 -> MarkConst(lower_type_node(low, c[2]))
        [] OTHER -> Unresolved
lower_type_node(low, form) ==
  CASE IsAtom(form)   -> AtomType(low, form)
    [] IsVector(form) -> lower_vector_type(low, form.xs)
    [] IsMap(form)    -> lower_map_type(low, form)
    [] form.f = "list" -> lower_list_type(low, form)
    [] OTHER -> Unresolved
lower_return_type_node(low, form) ==
  IF form.f = "list" /\ ~HeadIs(form, TypeWords) /\ Len(form.xs) >= 2 THEN lower_multi_return_type(low, form)
  ELSE lower_type_node(low, form)

(* The types of Lang, which is what the nodes hold. *)
LangType(t) ==
  CASE t.kind = "Primitive" -> t.x
    [] t.kind = "Named" -> t.x
    [] t.kind = "Array" -> "A" [] t.kind = "Vector" -> "V"
    [] t.kind = "Pointer" -> IF t.args[1].kind = "Named" THEN "pS" ELSE "p"
    [] t.kind \in {"Map", "Set", "Handle", "Fn"} -> t.kind
    [] t.kind \in {"Anon", "Shape"} -> "R"
    [] OTHER -> Untyped

(***************************************************************************)
(* Expressions.  c is the children of a list, its head first.              *)
(***************************************************************************)
RECURSIVE lower_expr(_, _), DestructureMap(_, _), DestructureVector(_, _)
lower_all(low, fs) == [i \in DOMAIN fs |-> lower_expr(low, fs[i])]
Stmts(low, c, i) == lower_all(low, From(c, i))
Arity(c, n, node) == IF Len(c) = n THEN node ELSE Bad
OfType(low, form, Node(_)) ==
  LET t == lower_type_node(low, form) IN IF t = Unresolved THEN Bad ELSE Node(LangType(t))

Nil == Literal("nil", 0)
lower_atom(low, a) ==
  CASE a.cls = "slash" /\ a.of \in low.enums -> [k |-> "EnumAccess", t |-> Untyped, enum |-> a.of, variant |-> a.x]
    [] IsWord(a, "nil") -> Nil
    [] IsWord(a, "true") \/ IsWord(a, "false") -> Literal("bool", IF a.x = "true" THEN 1 ELSE 0)
    [] a.cls = "number" -> IF a.v \in -(2^(WordBits - 1))..(2^(WordBits - 1) - 1) \/ (a.of = "u64" /\ a.v \in 0..(2^WordBits - 1))
                           THEN IntLit(IF a.of = "" THEN Untyped ELSE a.of, a.v) ELSE Bad
    [] OTHER -> Id(Untyped, a.x)

lower_val_or_var(low, c, is_val) ==
  LET Decl(ty, init) == IF is_val THEN Const(ty, c[2].x, init) ELSE Var(ty, c[2].x, init)
  IN  IF Len(c) \notin 3..4 \/ ~IsAtom(c[2]) THEN Bad
      ELSE OfType(low, c[3], LAMBDA ty :
             IF Len(c) = 4 THEN Decl(ty, lower_expr(low, c[4]))
             ELSE IF ty \in {"A", "V", "Map", "Set"} THEN Decl(ty, None) ELSE Bad)

(* Destructuring: the bindings [name, t, a] a pattern makes of a source expression. *)
Binding(x, ty, init) == [name |-> x, t |-> ty, a |-> init]
BadBinding == Binding("", Untyped, Bad)
make_field_access(base, field) == [k |-> "FieldAccess", t |-> Untyped, a |-> base, field |-> field]
make_index_access(base, index) == [k |-> "IndexAccess", t |-> Untyped, a |-> base, b |-> index]
PositionalAccess(base, slot) == [k |-> "PositionalAccess", t |-> Untyped, a |-> base, slot |-> slot]
IsAddrOfName(form) == HeadIs(form, {"addr"}) /\ Len(form.xs) = 2 /\ IsAtom(form.xs[2])
lower_destructure_target(part, form) ==
  CASE IsAtom(form)       -> << Binding(form.x, Untyped, part) >>
    [] IsMap(form)        -> DestructureMap(form.xs, part)
    [] IsVector(form)     -> DestructureVector(form.xs, part)
    [] IsAddrOfName(form) -> << Binding(form.xs[2].x, Untyped, Addr(Untyped, part)) >>
    [] OTHER              -> << BadBinding >>
DestructureMap(fs, source) ==
  CASE fs = << >> -> << >>
    [] IsKey(fs[1]) /\ Len(fs) > 1 -> lower_destructure_target(make_field_access(source, fs[1].x), fs[2]) \o DestructureMap(From(fs, 3), source)
    [] IsAtom(fs[1]) /\ ~IsKey(fs[1]) -> << Binding(fs[1].x, Untyped, make_field_access(source, fs[1].x)) >> \o DestructureMap(Tail(fs), source)
    [] IsAddrOfName(fs[1]) ->
         << Binding(fs[1].xs[2].x, Untyped, Addr(Untyped, make_field_access(source, fs[1].xs[2].x))) >> \o DestructureMap(Tail(fs), source)
    [] OTHER -> << BadBinding >>
DestructureVector(fs, source) ==
  FlattenSeq([i \in DOMAIN fs |-> lower_destructure_target(PositionalAccess(source, i - 1), fs[i])])

(* A name is read again for every part; anything else is bound to a name of its own first. *)
lower_destructure_source(low, form) ==
  IF IsAtom(form) THEN [first |-> << >>, source |-> lower_expr(low, form)]
  ELSE [first |-> << Binding("__destructure_src", Untyped, lower_expr(low, form)) >>, source |-> Id(Untyped, "__destructure_src")]
Destructured(pattern, s) ==
  s.first \o (IF IsMap(pattern) THEN DestructureMap(pattern.xs, s.source) ELSE DestructureVector(pattern.xs, s.source))

RECURSIVE LetBindings(_, _)
LetBindings(low, fs) ==
  CASE fs = << >> -> << >>
    [] Len(fs) < 2 -> << BadBinding >>
    [] IsAtom(fs[1]) /\ let_slot_looks_like_type(low, fs[2]) ->
         IF Len(fs) < 3 THEN << BadBinding >>
         ELSE << Binding(fs[1].x, LangType(lower_type_node(low, fs[2])), lower_expr(low, fs[3])) >> \o LetBindings(low, From(fs, 4))
    [] IsAtom(fs[1]) -> << Binding(fs[1].x, Untyped, lower_expr(low, fs[2])) >> \o LetBindings(low, From(fs, 3))
    [] IsMap(fs[1]) \/ IsVector(fs[1]) -> Destructured(fs[1], lower_destructure_source(low, fs[2])) \o LetBindings(low, From(fs, 3))
    [] OTHER -> << BadBinding >>
LetAll(bs, body) == FoldRight(LAMBDA b, inner : << [Let(Untyped, b.name, b.a, inner) EXCEPT !.vt = b.t] >>, bs, body)[1]
lower_let(low, c) ==
  IF Len(c) < 3 \/ ~IsVector(c[2]) \/ c[2].xs = << >> THEN Bad ELSE LetAll(LetBindings(low, c[2].xs), Stmts(low, c, 3))

lower_if(low, c) ==
  IF Len(c) \notin 3..4 THEN Bad
  ELSE If(Untyped, lower_expr(low, c[2]), lower_expr(low, c[3]), IF Len(c) = 4 THEN lower_expr(low, c[4]) ELSE None)
lower_when(low, c) ==
  IF Len(c) < 2 THEN Bad ELSE If(Untyped, lower_expr(low, c[2]), Block(Untyped, Stmts(low, c, 3)), None)
lower_scratch(low, c) ==
  IF Len(c) < 3 \/ ~IsVector(c[2]) \/ Len(c[2].xs) # 1 \/ ~IsAtom(c[2].xs[1]) THEN Bad
  ELSE Scratch(Untyped, c[2].xs[1].x, Stmts(low, c, 3))
lower_parallel(low, c) ==
  IF Len(c) < 2 \/ ~IsVector(c[2]) \/ Len(c[2].xs) % 2 # 0 THEN Bad
  ELSE LET names == Halves(c[2].xs, 1)
       IN  IF \E i \in DOMAIN names : ~IsAtom(names[i]) THEN Bad
           ELSE [Parallel([i \in DOMAIN names |-> names[i].x], lower_all(low, Halves(c[2].xs, 2)), Stmts(low, c, 3)) EXCEPT !.t = Untyped]

(***************************************************************************)
(* match: the value is computed once, and each clause is an if in the else *)
(* of the one before it.  Without a last clause `else` it has no value.    *)
(***************************************************************************)
MatchValue == Id(Untyped, "__match_val")
lower_match_eq(low, pat) == Bin(Untyped, "Eq", MatchValue, lower_expr(low, pat))
lower_match_cond(low, pat) ==
  IF ~IsVector(pat) THEN lower_match_eq(low, pat)
  ELSE IF pat.xs = << >> THEN Bad
  ELSE FoldLeft(LAMBDA acc, p : [Logic("Or", acc, lower_match_eq(low, p)) EXCEPT !.t = Untyped],
                lower_match_eq(low, pat.xs[1]), Tail(pat.xs))
lower_match_void_wrap(value) == Block(Untyped, << value, Cast("void", IntLit(Untyped, 0)) >>)
RECURSIVE Clauses(_, _, _)
Clauses(low, fs, has_else) ==
  CASE fs = << >> -> None
    [] IsWord(fs[1], "else") -> IF Len(fs) = 2 THEN lower_expr(low, fs[2]) ELSE Bad
    [] OTHER -> If(Untyped, lower_match_cond(low, fs[1]),
                   IF has_else THEN lower_expr(low, fs[2]) ELSE lower_match_void_wrap(lower_expr(low, fs[2])),
                   Clauses(low, From(fs, 3), has_else))
lower_match(low, c) ==
  IF Len(c) # 3 \/ ~IsVector(c[3]) \/ c[3].xs = << >> \/ Len(c[3].xs) % 2 # 0 THEN Bad
  ELSE Let(Untyped, "__match_val", lower_expr(low, c[2]),
           << Clauses(low, c[3].xs, IsWord(c[3].xs[Len(c[3].xs) - 1], "else")) >>)

lower_while(low, c) == IF Len(c) < 2 THEN Bad ELSE [While(lower_expr(low, c[2]), Stmts(low, c, 3)) EXCEPT !.t = Untyped]
lower_foreach_clause(low, first, coll, body) ==
  CASE IsAtom(first) -> ForEach(first.x, "", lower_expr(low, coll), body)
    [] IsVector(first) /\ Len(first.xs) = 2 /\ IsAtom(first.xs[1]) /\ IsAtom(first.xs[2]) ->
         ForEach(first.xs[2].x, first.xs[1].x, lower_expr(low, coll), body)
    [] OTHER -> Bad
lower_forc_clause(low, f, body) == ForC(f[1].x, lower_expr(low, f[2]), lower_expr(low, f[3]), lower_expr(low, f[4]), body)
lower_for(low, c) ==
  IF Len(c) < 2 \/ ~IsVector(c[2]) \/ Len(c[2].xs) \notin 2..4 THEN Bad
  ELSE LET f    == c[2].xs
           body == Stmts(low, c, 3)
           node == CASE Len(f) = 2 -> lower_foreach_clause(low, f[1], f[2], body)
                     [] ~IsAtom(f[1]) -> Bad
                     [] Len(f) = 4 /\ f[3].f = "list" -> lower_forc_clause(low, f, body)
                     [] OTHER -> ForRange(f[1].x, lower_expr(low, f[2]), lower_expr(low, f[3]),
                                          IF Len(f) = 4 THEN lower_expr(low, f[4]) ELSE None, body)
       IN  [node EXCEPT !.t = Untyped]
lower_parallel_for(low, c) ==
  IF Len(c) < 2 \/ ~IsVector(c[2]) \/ Len(c[2].xs) # 2 \/ ~IsAtom(c[2].xs[1]) THEN Bad
  ELSE [ParallelFor(c[2].xs[1].x, lower_expr(low, c[2].xs[2]), Stmts(low, c, 3)) EXCEPT !.t = Untyped]

(* Several results are the fields of the struct the function returns. *)
lower_return(low, c) ==
  CASE Len(c) = 1 -> Return(Untyped, None)
    [] Len(c) = 2 -> Return(Untyped, lower_expr(low, c[2]))
    [] low.multi = Untyped -> Bad
    [] OTHER -> Return(Untyped, [StructLit(Stmts(low, c, 2)) EXCEPT !.t = low.multi])

lower_loop_jump(c, jump) == Arity(c, 1, jump)
lower_do(low, c) == Block(Untyped, Stmts(low, c, 2))
lower_void_do(low, c) == lower_match_void_wrap(lower_do(low, c))

(* An operator of many operands groups to the left. *)
Operators == "+" :> "Add" @@ "-" :> "Sub" @@ "*" :> "Mul" @@ "/" :> "Div" @@ "%" :> "Mod" @@ "bit-or" :> "BitOr" @@ "bit-and" :> "BitAnd"
          @@ "bit-xor" :> "BitXor" @@ "bit-shl" :> "Shl" @@ "bit-shr" :> "Shr" @@ "=" :> "Eq" @@ "!=" :> "Neq" @@ "<" :> "Lt"
          @@ "<=" :> "Le" @@ ">" :> "Gt" @@ ">=" :> "Ge" @@ "and" :> "And" @@ "or" :> "Or"
TwoOnly == {"bit-shl", "bit-shr", "=", "!=", "<", "<=", ">", ">="}
BinaryNode(op, a, b) == IF op \in {"And", "Or"} THEN [Logic(op, a, b) EXCEPT !.t = Untyped] ELSE Bin(Untyped, op, a, b)
lower_binary_op(low, c) ==
  IF (IF c[1].x \in TwoOnly THEN Len(c) # 3 ELSE Len(c) < 3) THEN Bad
  ELSE FoldLeft(LAMBDA acc, form : BinaryNode(Operators[c[1].x], acc, lower_expr(low, form)), lower_expr(low, c[2]), From(c, 3))
lower_unary(low, c, op) == Arity(c, 2, Un(Untyped, op, lower_expr(low, c[2])))

(* (S v w) or (S {:a v :b w}); a bare map as an argument has the type of the parameter. *)
StructOf(ty, names, args) == [StructLit(args) EXCEPT !.t = ty, !.names = names]
NamedFields(low, ty, fs) ==
  IF Len(fs) % 2 # 0 \/ \E i \in DOMAIN Halves(fs, 1) : ~IsKey(Halves(fs, 1)[i]) THEN Bad
  ELSE StructOf(ty, [i \in DOMAIN Halves(fs, 1) |-> Halves(fs, 1)[i].x], lower_all(low, Halves(fs, 2)))
lower_bare_map_literal(low, form) == NamedFields(low, Untyped, form.xs)
lower_struct_construct(low, c) ==
  LET fields == Halves(low.structs[c[1].x], 1)
  IN  IF Len(c) = 2 /\ IsMap(c[2]) THEN NamedFields(low, Untyped, c[2].xs)
      ELSE IF Len(c) - 1 # Len(fields) THEN Bad
      ELSE StructOf(Untyped, [i \in DOMAIN fields |-> fields[i].x], Stmts(low, c, 2))
lower_call(low, c) ==
  Call(Untyped, c[1].x, [i \in 1..(Len(c) - 1) |-> IF IsMap(c[i + 1]) THEN lower_bare_map_literal(low, c[i + 1]) ELSE lower_expr(low, c[i + 1])])

(* Allocation: of a type and a count, which is 1 if it is left out, or a copy of a value. *)
CountOr1(low, c, n) == IF Len(c) >= n THEN lower_expr(low, c[n]) ELSE IntLit(Untyped, 1)
lower_push(low, c) ==
  CASE Len(c) \notin 3..4 -> Bad
    [] is_known_type_atom(low, c[3]) -> Push(LangType(PointerTy(type_ref_from_atom(c[3]))), lower_expr(low, c[2]), CountOr1(low, c, 4))
    [] Len(c) = 3 /\ IsWord(c[1], "push") -> [k |-> "PushCopy", t |-> Untyped, a |-> lower_expr(low, c[2]), b |-> lower_expr(low, c[3])]
    [] OTHER -> Bad
lower_alloc(low, c) ==
  IF Len(c) \notin 2..3 \/ ~is_known_type_atom(low, c[2]) THEN Bad
  ELSE [k |-> "AllocExpr", t |-> LangType(PointerTy(type_ref_from_atom(c[2]))), a |-> CountOr1(low, c, 3)]
lower_dyn_push(low, c) ==
  IF Len(c) # 4 THEN Bad
  ELSE IF IsAtom(c[3]) THEN [DynPush(lower_expr(low, c[2]), c[3].x, lower_expr(low, c[4])) EXCEPT !.t = Untyped]
  ELSE IF HeadIs(c[3], {".", "get", "get-in"})
       THEN [k |-> "DynPushField", t |-> Untyped, arena |-> lower_expr(low, c[2]), target |-> lower_expr(low, c[3]), a |-> lower_expr(low, c[4])]
  ELSE Bad
lower_commit(low, c) == Arity(c, 3, [k |-> "CommitExpr", t |-> Untyped, a |-> lower_expr(low, c[2]), b |-> lower_expr(low, c[3])])
lower_handle_pool_init(low, c) ==
  Arity(c, 4, [k |-> "HandlePoolInit", t |-> Untyped, a |-> lower_expr(low, c[3]), b |-> lower_expr(low, c[4])])

(* Places.  An index list goes one level down for each index. *)
lower_array_literal(low, form) == [ArrayLit(lower_all(low, form.xs)) EXCEPT !.t = Untyped]
lower_nth(low, c) ==
  CASE Len(c) # 3 -> Bad
    [] ~IsVector(c[3]) -> make_index_access(lower_expr(low, c[2]), lower_expr(low, c[3]))
    [] c[3].xs = << >> -> Bad
    [] OTHER -> FoldLeft(LAMBDA cur, i : make_index_access(cur, lower_expr(low, i)), lower_expr(low, c[2]), c[3].xs)
lower_get(low, c) == IF Len(c) # 3 \/ ~IsAtom(c[3]) THEN Bad ELSE make_field_access(lower_expr(low, c[2]), c[3].x)
lower_get_in(low, c) ==
  IF Len(c) # 3 \/ ~IsVector(c[3]) \/ c[3].xs = << >> \/ \E i \in DOMAIN c[3].xs : ~IsAtom(c[3].xs[i]) THEN Bad
  ELSE FoldLeft(LAMBDA cur, f : make_field_access(cur, f.x), lower_expr(low, c[2]), c[3].xs)
lower_field_chain_core(low, base, hops) ==
  FoldLeft(LAMBDA cur, h : [k |-> "DotHop", t |-> Untyped, a |-> cur, field |-> IF IsAtom(h) THEN h.x ELSE "", b |-> lower_expr(low, h)],
           base, hops)
lower_dot(low, c) == IF Len(c) < 3 THEN Bad ELSE lower_field_chain_core(low, lower_expr(low, c[2]), From(c, 3))
lower_addr_field(low, c) == IF Len(c) < 3 THEN Bad ELSE Addr(Untyped, lower_dot(low, c))

(* An assignment; a compound one lowers its target twice, to read it and to write it. *)
lower_set_target(low, target, value) ==
  IF IsAtom(target) \/ (HeadIs(target, {"deref"}) /\ Len(target.xs) = 2)
     \/ (HeadIs(target, {"nth"}) /\ Len(target.xs) = 3) \/ HeadIs(target, {".", "get", "get-in"})
  THEN Set(Untyped, lower_expr(low, target), value)
  ELSE Bad
lower_set(low, c) == Arity(c, 3, lower_set_target(low, c[2], lower_expr(low, c[3])))
lower_compound_assign(low, target, op, value) == lower_set_target(low, target, Bin(Untyped, op, lower_expr(low, target), value))
CompoundOps == "+=" :> "Add" @@ "-=" :> "Sub" @@ "*=" :> "Mul" @@ "/=" :> "Div" @@ "%=" :> "Mod"
lower_compound_assign_op(low, c) ==
  Arity(c, 3, lower_compound_assign(low, c[2], CompoundOps[c[1].x], lower_expr(low, c[3])))
lower_incdec(low, c) ==
  Arity(c, 2, lower_compound_assign(low, c[2], IF IsWord(c[1], "++") THEN "Add" ELSE "Sub", IntLit("peer", 1)))

lower_binary_cast(low, c, kind) ==
  Arity(c, 3, [k |-> kind, t |-> LangType(lower_type_node(low, c[2])), a |-> lower_expr(low, c[3])])
lower_type_query(low, c) ==
  IF Len(c) = 2 \/ (Len(c) = 3 /\ c[1].x \in {"sizeof", "alignof"})
  THEN OfType(low, c[2], LAMBDA ty : [k |-> IF IsWord(c[1], "zero") THEN "ZeroExpr" ELSE IF IsWord(c[1], "handle-alloc") THEN "HandleAlloc"
                                           ELSE "TypeQuery", t |-> ty])
  ELSE Bad
lower_member_offset(low, c) == IF Len(c) # 3 \/ ~IsAtom(c[3]) THEN Bad ELSE OfType(low, c[2], LAMBDA ty : [k |-> "TypeQuery", t |-> "u64"])

(* What may fail gives a bool and a value. *)
Checked(ty) == lower_positional_struct_from_types(<< Named("Primitive", "bool"), Named("Primitive", ty) >>)
lower_parse_number(low, c, ty) == Arity(c, 2, [k |-> "ParseNumber", t |-> Untyped, a |-> lower_expr(low, c[2]), of |-> ty])
lower_index_of(low, c) == Arity(c, 3, Call(Untyped, c[1].x, Stmts(low, c, 2)))
lower_checked_math(low, c, n) == Arity(c, n + 1, [k |-> "CheckedMath", t |-> Untyped, args |-> Stmts(low, c, 2)])

(***************************************************************************)
(* Threading: the accumulated form becomes the first or the last argument  *)
(* of the next step; some-> stops at the first nil.                        *)
(***************************************************************************)
NoForm == List(<< >>)
thread_step(acc, step, insert_first) ==
  CASE IsAtom(step) -> List(<< step, acc >>)
    [] step.f = "list" /\ step.xs # << >> ->
         List(IF insert_first THEN << step.xs[1], acc >> \o Tail(step.xs) ELSE step.xs \o << acc >>)
    [] OTHER -> NoForm
lower_thread(low, c, insert_first) ==
  IF Len(c) < 2 THEN Bad
  ELSE lower_expr(low, FoldLeft(LAMBDA acc, s : IF acc = NoForm THEN NoForm ELSE thread_step(acc, s, insert_first), c[2], From(c, 3)))
RECURSIVE lower_some_thread_step(_, _, _)
lower_some_thread_step(low, input, steps) ==
  LET x    == "__some_thread_val"
      rest == IF steps = << >> THEN Id(Untyped, x)
              ELSE lower_some_thread_step(low, lower_expr(low, thread_step(Atom(x), steps[1], TRUE)), Tail(steps))
  IN  Let(Untyped, x, input, << If(Untyped, Bin(Untyped, "Eq", Id(Untyped, x), Nil), Nil, rest) >>)
lower_some_thread(low, c) ==
  CASE Len(c) < 2 -> Bad
    [] Len(c) = 2 -> lower_expr(low, c[2])
    [] OTHER -> lower_some_thread_step(low, lower_expr(low, c[2]), From(c, 3))

Parsers == "string-to-i32" :> "i32" @@ "string-to-i64" :> "i64" @@ "string-to-u32" :> "u32" @@ "string-to-u64" :> "u64"
        @@ "string-to-f32" :> "f32" @@ "string-to-f64" :> "f64"
lower_list(low, c) ==
  IF c = << >> \/ ~IsAtom(c[1]) THEN Bad
  ELSE LET op == c[1].x
       IN  CASE op \in {"push", "push0", "push-zero"} -> lower_push(low, c)
             [] op = "alloc" -> lower_alloc(low, c)
             [] op \in {"dyn-push", "vector-push"} -> lower_dyn_push(low, c)
             [] op = "commit" -> lower_commit(low, c)
             [] op = "handle-pool-init" -> lower_handle_pool_init(low, c)
             [] op = "val" -> lower_val_or_var(low, c, TRUE)
             [] op = "var" -> lower_val_or_var(low, c, FALSE)
             [] op = "let" -> lower_let(low, c)
             [] op = "scratch" -> lower_scratch(low, c)
             [] op = "parallel" -> lower_parallel(low, c)
             [] op = "parallel-for" -> lower_parallel_for(low, c)
             [] op = "if" -> lower_if(low, c)
             [] op = "when" -> lower_when(low, c)
             [] op = "match" -> lower_match(low, c)
             [] op = "while" -> lower_while(low, c)
             [] op = "for" -> lower_for(low, c)
             [] op = "return" -> lower_return(low, c)
             [] op = "break" -> lower_loop_jump(c, Break)
             [] op = "continue" -> lower_loop_jump(c, Continue)
             [] op = "do" -> lower_do(low, c)
             [] op = "void" -> lower_void_do(low, c)
             [] op = "set" -> lower_set(low, c)
             [] op = "deref" -> Arity(c, 2, Deref(Untyped, lower_expr(low, c[2])))
             [] op = "addr" -> Arity(c, 2, Addr(Untyped, lower_expr(low, c[2])))
             [] op \in {"cstring", "string-len"} -> Arity(c, 2, Call(Untyped, op, Stmts(low, c, 2)))
             [] op = "not" -> lower_unary(low, c, "Not")
             [] op = "bit-not" -> lower_unary(low, c, "BitNot")
             [] op = "-" /\ Len(c) = 2 -> lower_unary(low, c, "Neg")
             [] op = "+" /\ Len(c) = 2 -> lower_unary(low, c, "Pos")
             [] op \in DOMAIN Operators -> lower_binary_op(low, c)
             [] op \in DOMAIN Parsers -> lower_parse_number(low, c, Parsers[op])
             [] op \in {"sqrt-checked", "asin-checked", "acos-checked"} -> lower_checked_math(low, c, 1)
             [] op = "pow-checked" -> lower_checked_math(low, c, 2)
             [] op = "cast" -> lower_binary_cast(low, c, "BinaryCast")
             [] op = "reinterpret" -> lower_binary_cast(low, c, "Reinterpret")
             [] op = "get" -> lower_get(low, c)
             [] op = "get-in" -> lower_get_in(low, c)
             [] op = "nth" -> lower_nth(low, c)
             [] op = "vector-index-of" -> lower_index_of(low, c)
             [] op = "." -> lower_dot(low, c)
             [] op = "&" -> lower_addr_field(low, c)
             [] op \in {"++", "--"} -> lower_incdec(low, c)
             [] op \in DOMAIN CompoundOps -> lower_compound_assign_op(low, c)
             [] op \in {"sizeof", "alignof", "type-name", "zero", "handle-alloc"} -> lower_type_query(low, c)
             [] op = "member-offset" -> lower_member_offset(low, c)
             [] op = "->" -> lower_thread(low, c, TRUE)
             [] op = "->>" -> lower_thread(low, c, FALSE)
             [] op = "some->" -> lower_some_thread(low, c)
             [] is_known_struct_name(low, op) -> lower_struct_construct(low, c)
             [] OTHER -> lower_call(low, c)
lower_expr(low, form) ==
  CASE IsAtom(form)   -> lower_atom(low, form)
    [] form.f = "string" -> Literal("string", 0)
    [] form.f = "list" -> lower_list(low, form.xs)
    [] IsVector(form) -> lower_array_literal(low, form)
    [] OTHER -> Bad

(***************************************************************************)
(* Declarations.                                                           *)
(***************************************************************************)
BadDecl == [d |-> "error"]

(* The parameters: names with types, and shapes, whose fields become locals of the body. *)
AnonParam(i) == CASE i = 1 -> "__anon_param1" [] i = 3 -> "__anon_param3" [] OTHER -> "__anon_param2"
RECURSIVE LowerParams(_, _, _)
Parsed(ps, bs, err) == [params |-> ps, bindings |-> bs, err |-> err]
AndThen(p, q) == Parsed(p.params \o q.params, p.bindings \o q.bindings, p.err \/ q.err)
Param(x, t) == << [name |-> x, t |-> t] >>
AnonParameter(x, t) ==
  IF t = Unresolved THEN Parsed(Param(x, t), << >>, TRUE)
  ELSE Parsed(Param(x, t), [i \in DOMAIN t.shape |-> Binding(t.shape[i][1], Untyped, make_field_access(Id(Untyped, x), t.shape[i][1]))], FALSE)
LowerParams(low, fs, i) ==
  CASE i > Len(fs) -> Parsed(<< >>, << >>, FALSE)
    [] IsMap(fs[i]) -> AndThen(AnonParameter(AnonParam(i), lower_anon_param_struct(low, fs[i])), LowerParams(low, fs, i + 1))
    [] IsAtom(fs[i]) /\ i < Len(fs) ->
         LET t == lower_type_node(low, fs[i + 1])
         IN  AndThen(IF IsWord(fs[i + 1], "...") THEN Parsed(<< >>, << >>, TRUE) ELSE Parsed(Param(fs[i].x, t), << >>, t = Unresolved),
                     LowerParams(low, fs, i + 2))
    [] OTHER -> Parsed(<< >>, << >>, TRUE)

FnBody(low, bindings, forms) ==
  IF bindings = << >> THEN lower_all(low, forms) ELSE << LetAll(bindings, lower_all(low, forms)) >>
FnDecl(low, c, p, ret) ==
  IF p.err \/ ret.kind \in {"Array", "Unresolved"} THEN BadDecl
  ELSE [d |-> "fn", name |-> c[2].x, params |-> p.params, ret |-> ret, variadic |-> FALSE,
        body |-> FnBody([low EXCEPT !.multi = IF ret.kind = "Shape" THEN LangType(ret) ELSE Untyped], p.bindings, From(c, 5))]
lower_fn(low, c) ==
  IF Len(c) < 5 \/ ~IsAtom(c[2]) \/ ~IsVector(c[3]) THEN BadDecl
  ELSE FnDecl(low, c, LowerParams(low, c[3].xs, 1), lower_return_type_node(low, c[4]))

(* A C function has no body; `...` may follow at least one parameter. *)
lower_extern_fn(low, c) ==
  IF Len(c) # 4 \/ ~IsAtom(c[2]) \/ ~IsVector(c[3]) \/ Len(c[3].xs) % 2 # 0 THEN BadDecl
  ELSE LET n     == Len(c[3].xs) \div 2
           types == Halves(c[3].xs, 2)
           rest  == n > 1 /\ IsWord(types[n], "...")
           p     == LowerParams(low, IF rest THEN SubSeq(c[3].xs, 1, 2 * n - 2) ELSE c[3].xs, 1)
       IN  [FnDecl(low, c, p, lower_return_type_node(low, c[4])) EXCEPT !.variadic = rest]

SpelledName(c) == IsAtom(c[2]) /\ (Len(c) = 4 => c[3].f = "string" /\ c[3].x # "")
lower_struct_decl(low, c) ==
  IF Len(c) \notin 3..4 \/ ~SpelledName(c) \/ ~IsVector(c[Len(c)]) \/ ~FieldsOk(c[Len(c)].xs, FALSE) THEN BadDecl
  ELSE [d |-> "struct", name |-> c[2].x, fields |-> Shape(low, c[Len(c)].xs)]
lower_alias_decl(low, c) ==
  IF Len(c) \notin 3..4 \/ ~IsAtom(c[2]) \/ (Len(c) = 4 /\ (c[4].f # "string" \/ c[4].x = "")) THEN BadDecl
  ELSE [d |-> "alias", name |-> c[2].x, t |-> lower_type_node(low, c[3])]
lower_handle_pool_decl(c) == IF Len(c) # 2 \/ ~IsAtom(c[2]) THEN BadDecl ELSE [d |-> "handle", name |-> c[2].x]

(* The variants of an enum: [name, v], v is << >> unless a number follows the name. *)
RECURSIVE EnumVariantsOf(_)
EnumVariantsOf(fs) ==
  CASE fs = << >> -> << >>
    [] ~IsAtom(fs[1]) \/ fs[1].cls = "number" -> << [name |-> "", v |-> << >>] >> \o EnumVariantsOf(Tail(fs))
    [] Len(fs) > 1 /\ IsAtom(fs[2]) /\ fs[2].cls = "number" -> << [name |-> fs[1].x, v |-> << fs[2].v >>] >> \o EnumVariantsOf(From(fs, 3))
    [] OTHER -> << [name |-> fs[1].x, v |-> << >>] >> \o EnumVariantsOf(Tail(fs))
lower_enum_decl(c, is_flags) ==
  IF Len(c) \notin 3..4 \/ ~SpelledName(c) \/ ~IsVector(c[Len(c)]) \/ c[Len(c)].xs = << >> THEN BadDecl
  ELSE LET vs == EnumVariantsOf(c[Len(c)].xs)
       IN  IF \E i \in DOMAIN vs : vs[i].name = "" THEN BadDecl
           ELSE [d |-> "enum", name |-> c[2].x, flags |-> is_flags, variants |-> vs]

LowerDecl(low, form) ==
  CASE HeadIs(form, {"fn"}) -> lower_fn(low, form.xs)
    [] HeadIs(form, {"struct", "union"}) -> lower_struct_decl(low, form.xs)
    [] HeadIs(form, {"alias"}) -> lower_alias_decl(low, form.xs)
    [] HeadIs(form, {"handle"}) -> lower_handle_pool_decl(form.xs)
    [] HeadIs(form, {"enum"}) -> lower_enum_decl(form.xs, FALSE)
    [] HeadIs(form, {"flags"}) -> lower_enum_decl(form.xs, TRUE)
    [] OTHER -> [d |-> "other", node |-> lower_expr(low, form)]

(***************************************************************************)
(* A program: wrappers are taken off the forms they hold, then the names   *)
(* of types are registered, then the aliases in order, then every form is  *)
(* lowered, the types that this synthesizes before it.                     *)
(***************************************************************************)
Wrapped == [private |-> FALSE, extern |-> FALSE, packed |-> FALSE, align |-> 0, lane |-> FALSE]
RECURSIVE flatten_toplevel_forms(_, _)
Flattened(form, w) ==
  CASE HeadIs(form, {"private"}) -> flatten_toplevel_forms(Tail(form.xs), [w EXCEPT !.private = TRUE])
    [] HeadIs(form, {"packed"})  -> flatten_toplevel_forms(Tail(form.xs), [w EXCEPT !.packed = TRUE])
    [] HeadIs(form, {"lane-fn"}) -> flatten_toplevel_forms(Tail(form.xs), [w EXCEPT !.lane = TRUE])
    [] HeadIs(form, {"align"})   ->
         IF Len(form.xs) > 1 /\ IsAtom(form.xs[2]) /\ form.xs[2].cls = "number" /\ form.xs[2].v > 0
         THEN flatten_toplevel_forms(From(form.xs, 3), [w EXCEPT !.align = form.xs[2].v])
         ELSE << [form |-> NoForm, w |-> w] >>
    [] HeadIs(form, {"extern"})  -> [i \in 1..(Len(form.xs) - 1) |-> [form |-> form.xs[i + 1], w |-> [Wrapped EXCEPT !.private = w.private, !.extern = TRUE]]]
    [] OTHER -> << [form |-> form, w |-> w] >>
flatten_toplevel_forms(forms, w) == FlattenSeq([i \in DOMAIN forms |-> Flattened(forms[i], w)])

Registers(e, words) == ~e.w.extern /\ HeadIs(e.form, words) /\ Len(e.form.xs) >= 2 /\ IsAtom(e.form.xs[2])
StructForms(c) == IF Len(c) \in 3..4 /\ IsVector(c[Len(c)]) THEN c[Len(c)].xs ELSE << >>
RegisterNames(low, e) ==
  CASE Registers(e, {"struct", "union"}) -> [low EXCEPT !.structs = (e.form.xs[2].x :> StructForms(e.form.xs)) @@ @]
    [] Registers(e, {"enum", "flags"})   -> [low EXCEPT !.enums = @ \cup {e.form.xs[2].x}]
    [] Registers(e, {"handle"})          -> [low EXCEPT !.handles = @ \cup {e.form.xs[2].x}]
    [] OTHER -> low
lower_register_alias(low, e) ==
  IF Registers(e, {"alias"}) /\ Len(e.form.xs) \in 3..4
  THEN [low EXCEPT !.aliases = (e.form.xs[2].x :> lower_type_node(low, e.form.xs[3])) @@ @]
  ELSE low

(* The types a type is made of, inner ones first, and those among them that lowering declares. *)
RECURSIVE Parts(_)
Parts(t) == CASE t.kind \in {"Anon", "Shape"} -> FlattenSeq([i \in DOMAIN t.shape |-> Parts(t.shape[i][2])]) \o << t >>
              [] t.kind \in {"Primitive", "Named", "Handle", "Unresolved"} -> << >>
              [] OTHER -> FlattenSeq([i \in DOMAIN t.args |-> Parts(t.args[i])]) \o << t >>
Synthesized(t) == t.kind \in {"Anon", "Shape", "Map", "Set"}
RECURSIVE TypesInForm(_, _)
TypesInForm(low, form) ==
  IF form.f \in {"atom", "string"} THEN << >>
  ELSE (CASE HeadIs(form, {"val", "var"}) /\ Len(form.xs) > 2 -> << lower_type_node(low, form.xs[3]) >>
          [] HeadIs(form, DOMAIN Parsers) -> << Checked(Parsers[form.xs[1].x]) >>
          [] HeadIs(form, {"vector-index-of"}) -> << Checked("u64") >>
          [] HeadIs(form, {"sqrt-checked", "asin-checked", "acos-checked", "pow-checked"}) -> << Checked("f32"), Checked("f64") >>
          [] HeadIs(form, {"sizeof", "alignof", "zero", "type-name"}) /\ Len(form.xs) > 1 -> << lower_type_node(low, form.xs[2]) >>
          [] OTHER -> << >>)
       \o FlattenSeq([i \in DOMAIN form.xs |-> TypesInForm(low, form.xs[i])])
TypesOf(low, e, decl) ==
  CASE decl.d = "fn" -> [i \in DOMAIN decl.params |-> decl.params[i].t] \o << decl.ret >>
                        \o (IF e.w.extern THEN << >> ELSE FlattenSeq([i \in 5..Len(e.form.xs) |-> TypesInForm(low, e.form.xs[i])]))
    [] decl.d = "struct" -> [i \in DOMAIN decl.fields |-> decl.fields[i][2]]
    [] decl.d = "alias" -> << decl.t >>
    [] decl.d = "other" -> TypesInForm(low, e.form)
    [] OTHER -> << >>
Mentions(ts) == SelectSeq(FlattenSeq([i \in DOMAIN ts |-> Parts(ts[i])]), Synthesized)

(* A shape or an instance of Map or Set is declared the first time it is met, an unnamed struct each
   time it is written; what an alias stands for was made when the alias was registered. *)
NewHere(low, ts, seen) ==
  FoldLeft(LAMBDA acc, t : IF t \in seen \/ t \in ToSet(acc) \/ (t.kind = "Anon" /\ t.at # low.at) THEN acc ELSE Append(acc, t), << >>, Mentions(ts))
Misplaced(w, decl) == \/ (w.packed \/ w.align > 0) /\ decl.d # "struct"
                      \/ w.lane /\ decl.d # "fn"
Lowered(e, decl, ts, new) ==
  [new |-> new, decl |-> IF Misplaced(e.w, decl) THEN BadDecl ELSE decl, w |-> e.w, mentions |-> Mentions(ts)]
LowerToplevel(low, e) ==
  IF e.w.extern THEN IF HeadIs(e.form, {"fn"}) THEN lower_extern_fn(low, e.form.xs) ELSE BadDecl
  ELSE LowerDecl(low, e.form)
WithTypes(low, e, decl, seen) == Lowered(e, decl, TypesOf(low, e, decl), NewHere(low, TypesOf(low, e, decl), seen))
RECURSIVE LowerForms(_, _, _, _)
LowerForms(low, flat, i, seen) ==
  IF i > Len(flat) THEN << >>
  ELSE Strictly(WithTypes([low EXCEPT !.at = i], flat[i], LowerToplevel([low EXCEPT !.at = i], flat[i]), seen),
                LAMBDA r : << r >> \o LowerForms(low, flat, i + 1, seen \cup {t \in ToSet(r.new) : t.kind # "Anon"}))
AliasTypes(low) == {t \in UNION {ToSet(Mentions(<< low.aliases[x] >>)) : x \in DOMAIN low.aliases} : t.kind # "Anon"}
lower_program(forms) ==
  Strictly(flatten_toplevel_forms(forms, Wrapped), LAMBDA flat :
    Strictly(FoldLeft(lower_register_alias, FoldLeft(RegisterNames, NoNames, flat), flat), LAMBDA low :
      LowerForms(low, flat, 1, AliasTypes(low))))

(* had_error: some node of the program is an error. *)
RECURSIVE HasError(_)
HasError(n) ==
  \/ n.k = "error"
  \/ \E f \in DOMAIN n \cap {"a", "b", "c", "target", "arena"} : HasError(n[f])
  \/ \E f \in DOMAIN n \cap {"args", "body"} : \E i \in DOMAIN n[f] : HasError(n[f][i])
DeclHasError(decl) ==
  CASE decl.d = "error" -> TRUE
    [] decl.d = "fn" -> \E i \in DOMAIN decl.body : HasError(decl.body[i])
    [] decl.d = "alias" -> decl.t = Unresolved
    [] decl.d = "struct" -> \E i \in DOMAIN decl.fields : decl.fields[i][2] = Unresolved
    [] decl.d = "other" -> HasError(decl.node)
    [] OTHER -> FALSE
=============================================================================
