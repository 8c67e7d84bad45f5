------------------------------ MODULE Checker ------------------------------
(***************************************************************************)
(* The type checker (checker.c).  ck is its state: whether an error was    *)
(* reported, the scope as a stack of bindings with the part of it that the *)
(* body of a `parallel` block may not see, the loop the walk is in, and    *)
(* the function.  check_expr(ck, n) is the state after checking node n:    *)
(* its field t is the type resolved for n, "Unresolved" after an error and *)
(* for what never yields a value, and its field n is the node with its     *)
(* type and those of its parts filled in.  Error texts, positions and the  *)
(* capture of scopes for the editor are left out.                          *)
(***************************************************************************)
EXTENDS Lang, SequencesExt

U == "Unresolved"

(***************************************************************************)
(* Types.                                                                  *)
(***************************************************************************)
Floats  == {"f32", "f64"}
type_kind_is_numeric(ty) == ty \in IntTypes \cup Floats
type_kind_is_integer(ty) == ty \in IntTypes
type_ref_is_printable(ty) ==
  type_kind_is_numeric(ty) \/ ty \in {"bool", "char", "string", "pchar"}

KindOf(ty) ==
  CASE ty \in {"p", "cp", "pS", "pu64", "pchar", "pA", "nil"} -> "Pointer"
    [] ty \in {"S", "E", "R"} -> "Named"     \* a struct, an enum, what the checked operations return
    [] ty = "A" -> "Array" [] ty = "V" -> "Vector" [] ty = "F" -> "Fn"
    [] ty = "M" -> "Map" [] ty = "Z" -> "Set" [] ty = "H" -> "Handle"
    [] OTHER -> ty
Pointee(ty) ==
  CASE ty = "pS" -> "S" [] ty = "pu64" -> "u64" [] ty = "pchar" -> "char" [] ty = "pA" -> "A" [] OTHER -> "i32"
PointerTo(ty) ==
  CASE ty = "S" -> "pS" [] ty = "u64" -> "pu64" [] ty = "char" -> "pchar" [] ty = "A" -> "pA" [] OTHER -> "p"

(* A pointer to a constant is equal to a pointer, and `nil` is any pointer. *)
type_ref_equal(s, t) ==
  \/ s = t
  \/ KindOf(s) = "Pointer" /\ KindOf(t) = "Pointer" /\ ("nil" \in {s, t} \/ Pointee(s) = Pointee(t))
type_ref_const_compatible(from, to) == ~(from = "cp" /\ to = "p")
type_ref_assignable(from, to) ==
  \/ type_ref_equal(from, to) /\ type_ref_const_compatible(from, to)
  \/ from = "A" /\ to \in {"p", "cp"}                                 \* an array decays
type_ref_is_bitwise_ok(ty) == type_kind_is_numeric(ty) \/ ty = "E"
type_ref_is_comparable(ty) ==
  type_kind_is_numeric(ty) \/ ty \in {"bool", "char", "string", "S", "E", "A", "H"} \/ KindOf(ty) = "Pointer"
type_is_castable_scalar(ty) ==
  type_kind_is_numeric(ty) \/ ty \in {"bool", "char", "any", "E"} \/ KindOf(ty) = "Pointer"
type_reinterpret_byte_size(ty) ==
  CASE ty \in {"i8", "u8", "char"} -> 1 [] ty \in {"i32", "u32", "f32", "E"} -> 4
    [] ty \in {"i64", "u64", "f64", "any"} \/ KindOf(ty) = "Pointer" -> 8 [] OTHER -> 0
int_literal_fits(v, ty) ==
  IF Unsigned(ty) THEN v >= 0 /\ (BitsOf(ty) = WordBits \/ v < 2^BitsOf(ty))
  ELSE v >= -(2^(BitsOf(ty) - 1)) /\ v < 2^(BitsOf(ty) - 1)

(***************************************************************************)
(* The state.  A scope is a stack of bindings; hidden_lo and hidden_hi     *)
(* bound the part of it that a `parallel` body cannot see.                 *)
(***************************************************************************)
Checking ==
  [err |-> FALSE, scope |-> << >>, hidden_lo |-> 0, hidden_hi |-> 0, fn_scope_base |-> 0,
   loop_depth |-> 0, in_loop_header |-> FALSE, in_parallel_block |-> FALSE, in_function_body |-> FALSE,
   ret |-> "void", n |-> None]

scope_bind(ck, x, ty, mutable) ==
  [ck EXCEPT !.scope = Append(@, [name |-> x, t |-> ty, mutable |-> mutable])]
scope_mark(ck) == Len(ck.scope)
scope_pop_to(ck, mark) == [ck EXCEPT !.scope = SubSeq(@, 1, mark)]
NoEntry == [name |-> "", t |-> "", mutable |-> FALSE]
scope_lookup_entry(ck, x) ==
  LET is == {i \in DOMAIN ck.scope : ck.scope[i].name = x /\ ~(i > ck.hidden_lo /\ i <= ck.hidden_hi)}
  IN  IF is = {} THEN NoEntry ELSE ck.scope[CHOOSE i \in is : \A j \in is : j <= i]

type_error(ck, ok) == [ck EXCEPT !.err = @ \/ ~ok]
Resolve(ck, n, ty) == [ck EXCEPT !.n = [n EXCEPT !.t = ty]]

NoFn == [name |-> "", params |-> << >>, ret |-> U, kind |-> "none"]
fn_table_lookup(x) ==
  LET fs == SelectSeq(prog.fns, LAMBDA f : f.name = x) IN IF fs = << >> THEN NoFn ELSE Last(fs)

Params(f) == [i \in DOMAIN f.params |-> f.params[i].t]
EnumVariants == {"red", "green", "blue"}          \* of the enum "E"

(***************************************************************************)
(* An unsuffixed literal takes the type its context expects.               *)
(***************************************************************************)
adopt_int_literal_type(n, expected) ==
  IF n.k = "IntLiteral" /\ n.t = U /\ type_kind_is_integer(expected) THEN [n EXCEPT !.t = expected] ELSE n
RECURSIVE adopt_int_literal_in_tail(_, _)
adopt_int_literal_in_tail(n, expected) ==
  CASE n.k \in {"Block", "LetExpr", "ScratchExpr"} ->
         IF n.body = << >> THEN n
         ELSE [n EXCEPT !.body[Len(n.body)] = adopt_int_literal_in_tail(@, expected)]
    [] n.k = "IfExpr" -> [n EXCEPT !.a = adopt_int_literal_in_tail(@, expected),
                                   !.b = adopt_int_literal_in_tail(@, expected)]
    [] OTHER -> adopt_int_literal_type(n, expected)

(***************************************************************************)
(* Builtins: what each argument has to be, and the type of the call.  An   *)
(* argument of unresolved type has had its error.                          *)
(***************************************************************************)
Is(class, ty) ==
  \/ ty = U
  \/ CASE class = "numeric" -> type_kind_is_numeric(ty) [] class = "float" -> ty \in Floats
       [] class = "printable" -> type_ref_is_printable(ty)
       [] class = "counted" -> KindOf(ty) \in {"string", "Array", "Vector"}
       [] class = "indexed" -> KindOf(ty) \in {"Array", "Vector"}
       [] class = "element" -> ty = "i32"        \* of the vector, map or set of the call
       [] OTHER -> KindOf(ty) = class
Sig(args, res) == [args |-> args, res |-> res]
NoSig == Sig(<< "unknown" >>, U)
StringBuiltin(f) ==
  CASE f \in {"string-prefix", "string-skip", "string-postfix", "string-chop"} -> Sig(<< "string", "numeric" >>, "string")
    [] f = "string-substr" -> Sig(<< "string", "numeric", "numeric" >>, "string")
    [] f \in {"string-find", "string-find-reverse"} -> Sig(<< "string", "string", "numeric", "numeric" >>, "u64")
    [] f \in {"string-starts-with", "string-ends-with"} -> Sig(<< "string", "string", "numeric" >>, "bool")
    [] f = "string-cat"    -> Sig(<< "arena", "string", "string" >>, "string")
    [] f = "string-copy"   -> Sig(<< "arena", "string" >>, "string")
    [] f = "cstring-copy"  -> Sig(<< "arena", "string" >>, "pchar")
    [] OTHER -> NoSig
MemoryBuiltin(f) ==
  CASE f \in {"pow2?", "pow2-or-zero?"} -> Sig(<< "numeric" >>, "bool")
    [] f = "mem-set"       -> Sig(<< "Pointer", "numeric", "numeric" >>, "void")
    [] f = "mem-copy"      -> Sig(<< "Pointer", "Pointer", "numeric" >>, "void")
    [] f = "mem-zero"      -> Sig(<< "Pointer", "numeric" >>, "void")
    [] f = "mem-compare"   -> Sig(<< "Pointer", "Pointer", "numeric" >>, "i32")
    [] OTHER -> StringBuiltin(f)
TableBuiltin(f) ==
  CASE f = "map-set"       -> Sig(<< "arena", "Map", "element", "element" >>, "void")
    [] f = "map-get"       -> Sig(<< "Map", "element" >>, "p")
    [] f \in {"map-remove", "map-contains?"} -> Sig(<< "Map", "element" >>, "bool")
    [] f = "set-add"       -> Sig(<< "arena", "Set", "element" >>, "bool")
    [] f \in {"set-contains?", "set-remove"} -> Sig(<< "Set", "element" >>, "bool")
    [] OTHER -> MemoryBuiltin(f)
VectorBuiltin(f) ==
  CASE f = "nth-checked"   -> Sig(<< "indexed", "numeric" >>, "p")
    [] f = "len"           -> Sig(<< "counted" >>, "u64")
    [] f = "dyn-count"     -> Sig(<< "Pointer" >>, "u64")
    [] f = "vector-clear"  -> Sig(<< "Vector" >>, "void")
    [] f \in {"vector-swap-remove", "vector-remove-at"} -> Sig(<< "Vector", "numeric" >>, "bool")
    [] f = "vector-contains?" -> Sig(<< "Vector", "element" >>, "bool")
    [] f = "vector-index-of" -> Sig(<< "Vector", "element" >>, "u64")     \* the node IndexOf
    [] OTHER -> TableBuiltin(f)
LaneBuiltin(f) ==
  CASE f \in {"lane-index", "lane-count"} -> Sig(<< >>, "u32")
    [] f = "lane-sync"     -> Sig(<< >>, "void")
    [] f = "lane-arena"    -> Sig(<< >>, "arena")
    [] OTHER -> VectorBuiltin(f)
MathBuiltin(f) ==
  CASE f \in {"align-pow2", "align-down-pow2", "align-pad-pow2", "min", "max", "clamp-top", "clamp-bot"} ->
         Sig(<< "numeric", "numeric" >>, "same")
    [] f = "clamp"         -> Sig(<< "numeric", "numeric", "numeric" >>, "same")
    [] f = "abs"           -> Sig(<< "numeric" >>, "same")
    [] f \in {"sin", "sqrt", "floor"} -> Sig(<< "float" >>, "same")
    [] f \in {"atan2", "pow", "mod"} -> Sig(<< "float", "float" >>, "same")
    [] OTHER -> LaneBuiltin(f)
Builtin(f) ==
  CASE f = "create"        -> Sig(<< "numeric" >>, "arena")
    [] f \in {"destroy", "reset", "release"} -> Sig(<< "arena" >>, "void")
    [] f = "mark"          -> Sig(<< "arena" >>, "ArenaMark")
    [] f = "pop"           -> Sig(<< "arena", "ArenaMark" >>, "void")
    [] f = "string-match"  -> Sig(<< "string", "string", "numeric" >>, "bool")
    [] f = "free"          -> Sig(<< "Pointer" >>, "void")
    [] f = "handle-deref"  -> Sig(<< "Handle" >>, "pS")
    [] f = "handle-free"   -> Sig(<< "Handle" >>, "void")
    [] f = "handle-valid?" -> Sig(<< "Handle" >>, "bool")
    [] OTHER -> MathBuiltin(f)
IsBuiltin(f) == Builtin(f).res # U \/ f \in {"print", "println", "str", "swap"}

(***************************************************************************)
(* The rules, on a node whose parts have been checked: whether the node is *)
(* right, and its type.                                                    *)
(***************************************************************************)
Verdict(ok, ty) == [ok |-> ok, t |-> ty]
Gives(ok, ty) == Verdict(ok, IF ok THEN ty ELSE U)
Matching(ts, ok, ty) ==
  IF \E i \in DOMAIN ts : ts[i] = U THEN Verdict(TRUE, U)
  ELSE Gives(ok /\ \A i \in DOMAIN ts : type_ref_equal(ts[1], ts[i]), ty)
ArgTypes(n) == [i \in DOMAIN n.args |-> n.args[i].t]

IdentifierRule(ck, n) ==
  LET e == scope_lookup_entry(ck, n.name)
  IN  IF e # NoEntry THEN Verdict(TRUE, e.t) ELSE Gives(fn_table_lookup(n.name) # NoFn, "F")

BinaryRule(n) ==
  LET lt == n.a.t
      rt == n.b.t
  IN  CASE n.op \in {"Add", "Sub", "Mul", "Div"} -> Matching(<< lt, rt >>, type_kind_is_numeric(lt), lt)
        [] n.op = "Mod" -> Matching(<< lt, rt >>, type_kind_is_integer(lt), lt)
        [] n.op \in {"Eq", "Neq", "Lt", "Le", "Gt", "Ge"} -> Matching(<< lt, rt >>, type_ref_is_comparable(lt), "bool")
        [] n.op \in {"BitOr", "BitAnd", "BitXor"} -> Matching(<< lt, rt >>, type_ref_is_bitwise_ok(lt), lt)
        [] n.op \in {"Shl", "Shr"} -> IF U \in {lt, rt} THEN Verdict(TRUE, U)
                                    ELSE Gives(type_ref_is_bitwise_ok(lt) /\ type_kind_is_numeric(rt), lt)

UnaryRule(n) ==
  CASE n.op = "Not" -> Verdict(TRUE, "bool")
    [] n.op = "BitNot" -> Matching(<< n.a.t >>, type_ref_is_bitwise_ok(n.a.t), n.a.t)
    [] OTHER -> Matching(<< n.a.t >>, type_kind_is_numeric(n.a.t), n.a.t)

CastRule(n) ==
  LET ok == \/ U \in {n.t, n.a.t} \/ n.t = "void" \/ type_ref_equal(n.a.t, n.t)
            \/ type_is_castable_scalar(n.a.t) /\ type_is_castable_scalar(n.t)
  IN  Verdict(ok, n.t)
ReinterpretRule(n) ==
  Verdict(n.a.t = U \/ type_reinterpret_byte_size(n.t) \in {type_reinterpret_byte_size(n.a.t)} \ {0}, n.t)

ReturnRule(ck, n) ==
  Verdict(/\ ck.in_function_body
          /\ IF n.a = None THEN ck.ret = "void" ELSE n.a.t = U \/ type_ref_assignable(n.a.t, ck.ret), U)

IfRule(n) ==
  IF n.b = None THEN Verdict(TRUE, "void")
  ELSE IF n.a.t = U THEN Verdict(TRUE, n.b.t) ELSE IF n.b.t = U THEN Verdict(TRUE, n.a.t)
  ELSE Gives(type_ref_equal(n.a.t, n.b.t), n.a.t)

JumpRule(ck) == Verdict(~ck.in_loop_header /\ ck.loop_depth > 0, U)

(* What may be written to, and what has an address. *)
Places == {"FieldAccess", "IndexAccess", "UnaryDeref"}
swap_target_is_valid(ck, n) ==
  n.k \in Places \/ (n.k = "Identifier" /\ scope_lookup_entry(ck, n.name).mutable)
addr_operand_is_valid(n) == n.k \in Places \cup {"Identifier"}

SetRule(ck, n) ==
  LET place == IF n.target.k = "Identifier" THEN scope_lookup_entry(ck, n.target.name).t ELSE n.target.t
      open  == n.target.k # "Identifier" \/ scope_lookup_entry(ck, n.target.name).mutable
  IN  IF place = U THEN Verdict(TRUE, U) ELSE Gives(open /\ (n.a.t = U \/ type_ref_assignable(n.a.t, place)), place)

IndexRule(n) ==
  LET base == KindOf(n.a.t) \in {"Array", "Pointer", "Vector"}
  IN  Verdict((n.a.t = U \/ base) /\ Is("numeric", n.b.t), IF base THEN Pointee(n.a.t) ELSE U)
FieldRule(n) ==
  LET base == IF n.a.t = "pS" THEN "S" ELSE n.a.t      \* one pointer is followed
  IN  IF n.a.t = U THEN Verdict(TRUE, U) ELSE Gives(base = "S" /\ n.field \in {"a", "b"}, FieldType(n.field))
DerefRule(n) == IF n.a.t = U THEN Verdict(TRUE, U) ELSE Gives(KindOf(n.a.t) = "Pointer", Pointee(n.a.t))
AddrRule(n) == IF ~addr_operand_is_valid(n.a) THEN Verdict(FALSE, U)
               ELSE Verdict(TRUE, IF n.a.t = U THEN U ELSE PointerTo(n.a.t))

StructRule(n) ==
  Verdict(/\ Len(n.args) = Len(FieldsOf)
          /\ \A i \in DOMAIN n.args : n.args[i].t = U \/ type_ref_assignable(n.args[i].t, FieldsOf[i].t), "S")

PushRule(n) == Verdict(Is("arena", n.a.t) /\ Is("numeric", n.b.t), n.t)
PushCopyRule(n) == Verdict(Is("arena", n.a.t), IF n.b.t = U THEN U ELSE PointerTo(n.b.t))
DynPushRule(ck, n) ==
  LET e == scope_lookup_entry(ck, n.name)
  IN  Verdict(/\ Is("arena", n.arena.t) /\ e.mutable
              /\ \/ e.t = U
                 \/ KindOf(e.t) \in {"Pointer", "Vector"} /\ ("nil" = e.t \/ n.a.t = U \/ type_ref_equal(n.a.t, Pointee(e.t))),
              "void")
CommitRule(n) ==
  Verdict(Is("arena", n.a.t) /\ Is("Pointer", n.b.t), IF KindOf(n.b.t) = "Pointer" THEN n.b.t ELSE U)

(***************************************************************************)
(* Calls.  A call to a builtin with the wrong number of arguments has its  *)
(* fixed type all the same, if it has one.                                 *)
(***************************************************************************)
LaneOnly == {"lane-index", "lane-sync", "lane-arena"}
BuiltinRule(ck, n) ==
  LET sig == Builtin(n.callee)
      ts  == ArgTypes(n)
      arity == Len(ts) = Len(sig.args) \/ (n.callee = "create" /\ ts = << >>)
      each == arity /\ \A i \in DOMAIN ts : Is(sig.args[i], ts[i])
      place == (n.callee \in LaneOnly => ck.in_parallel_block) /\ (n.callee = "handle-free" => ~ck.in_parallel_block)
  IN  CASE sig.res = "same" -> IF ~arity THEN Verdict(FALSE, U) ELSE Matching(ts, each, ts[1])
        [] n.callee \in {"map-get", "nth-checked", "handle-deref"} ->
             Verdict(each, IF arity /\ KindOf(ts[1]) \in {"Map", "Array", "Vector", "Handle"} THEN sig.res ELSE U)
        [] OTHER -> Verdict(each /\ place, sig.res)

PrintRule(n) == Verdict(\A i \in DOMAIN n.args : Is("printable", n.args[i].t), "void")
StrRule(n) ==
  Verdict(n.args # << >> /\ Is("arena", n.args[1].t) /\ \A i \in 2..Len(n.args) : Is("printable", n.args[i].t), "string")
SwapRule(ck, n) ==
  Verdict(/\ Len(n.args) = 2 /\ \A i \in DOMAIN n.args : swap_target_is_valid(ck, n.args[i])
          /\ U \in ToSet(ArgTypes(n)) \/ (type_ref_equal(n.args[1].t, n.args[2].t) /\ n.args[1].t # "A"), "void")

ArgsFit(n, types) ==
  Len(n.args) = Len(types) /\ \A i \in DOMAIN types : n.args[i].t = U \/ type_ref_assignable(n.args[i].t, types[i])
UserCallRule(ck, n, f) ==
  IF f = NoFn THEN Verdict(FALSE, U)
  ELSE Verdict(/\ f.kind = "lane" => ck.in_parallel_block
               /\ ArgsFit(n, Params(f))
               /\ \A i \in DOMAIN f.params : f.params[i].t = "V" => addr_operand_is_valid(n.args[i]), f.ret)
CallRule(ck, n) ==
  CASE n.callee \in {"print", "println"} -> PrintRule(n)
    [] n.callee = "str"  -> StrRule(n)
    [] n.callee = "swap" -> SwapRule(ck, n)
    [] IsBuiltin(n.callee) -> BuiltinRule(ck, n)
    [] scope_lookup_entry(ck, n.callee).t = "F" -> Verdict(ArgsFit(n, << "i32" >>), "i32")   \* a local of type (fn [i32] i32)
    [] OTHER -> UserCallRule(ck, n, fn_table_lookup(n.callee))

Rule(ck, n) ==
  CASE n.k = "IntLiteral" -> LET ty == IF n.t \in {U, "peer"} THEN "i32" ELSE n.t IN Verdict(int_literal_fits(n.v, ty), ty)
    [] n.k \in {"Literal", "ZeroExpr", "TypeQuery"} -> Verdict(n.t # "void", n.t)    \* strings, floats, bools, nil; (zero T), (sizeof T)
    [] n.k = "Identifier" -> IdentifierRule(ck, n)
    [] n.k = "Binary" -> BinaryRule(n)
    [] n.k = "Unary" -> UnaryRule(n)
    [] n.k = "Logical" -> Verdict(TRUE, "bool")
    [] n.k = "BinaryCast" -> CastRule(n)
    [] n.k = "Reinterpret" -> ReinterpretRule(n)
    [] n.k = "EnumAccess" -> Gives(n.variant \in EnumVariants, "E")
    [] n.k = "ReturnExpr" -> ReturnRule(ck, n)
    [] n.k = "IfExpr" -> IfRule(n)
    [] n.k \in {"BreakExpr", "ContinueExpr"} -> JumpRule(ck)
    [] n.k = "SetExpr" -> SetRule(ck, n)
    [] n.k = "IndexAccess" -> IndexRule(n)
    [] n.k = "FieldAccess" -> FieldRule(n)
    [] n.k = "UnaryDeref" -> DerefRule(n)
    [] n.k = "UnaryAddr" -> AddrRule(n)
    [] n.k = "StructLiteral" -> StructRule(n)
    [] n.k \in {"ArrayLiteral", "VarDecl", "ConstDecl"} -> Verdict(FALSE, U)     \* allowed only where a declaration or a block expects them
    [] n.k = "PushAlloc" -> PushRule(n)
    [] n.k = "AllocExpr" -> Verdict(Is("numeric", n.a.t), n.t)
    [] n.k = "PushCopy" -> PushCopyRule(n)
    [] n.k = "DynPush" -> DynPushRule(ck, n)
    [] n.k = "CommitExpr" -> CommitRule(n)
    [] n.k = "HandleAlloc" -> Verdict(~ck.in_parallel_block, "H")
    [] n.k = "HandlePoolInit" -> Verdict(~ck.in_parallel_block /\ Is("numeric", n.a.t) /\ Is("arena", n.b.t), "void")
    [] n.k = "Call" -> CallRule(ck, n)

(***************************************************************************)
(* The walk.                                                               *)
(***************************************************************************)
RECURSIVE check_expr(_, _), check_block(_, _, _), CheckFields(_, _, _), CheckArgs(_, _, _, _)

Typed(ck, n) == LET r == Rule(ck, n) IN Resolve(type_error(ck, r.ok), n, r.t)

CheckFields(ck, n, fs) ==
  IF fs = << >> THEN [ck EXCEPT !.n = n]
  ELSE Strictly(check_expr(ck, n[Head(fs)]), LAMBDA r : CheckFields(r, [n EXCEPT ![Head(fs)] = r.n], Tail(fs)))

(* An initialiser: an array literal has the type that is declared, and a literal takes it. *)
ElementsFit(ns, ty) == \A i \in DOMAIN ns : ns[i].t = U \/ type_ref_equal(ns[i].t, ty)
check_array_literal(ck, n, declared) ==
  IF KindOf(declared) # "Array" THEN Resolve(type_error(ck, FALSE), n, U)
  ELSE Strictly(CheckArgs(ck, n, [i \in DOMAIN n.args |-> "i32"], 1), LAMBDA r :
         Resolve(type_error(r, Len(n.args) = ArrayCount /\ ElementsFit(r.n.args, "i32")), r.n, declared))
check_init_expr(ck, n, declared) ==
  CASE n = None -> [ck EXCEPT !.n = None]
    [] n.k = "ArrayLiteral" -> check_array_literal(ck, n, declared)
    [] OTHER -> check_expr(ck, adopt_int_literal_type(n, declared))

(* The arguments of a call, the fields of a struct, the elements of an array; types is what is expected. *)
Expected(types, i) == IF i <= Len(types) THEN types[i] ELSE U
CheckArgs(ck, n, types, i) ==
  IF i > Len(n.args) THEN [ck EXCEPT !.n = n]
  ELSE Strictly(IF n.k = "Call" THEN check_expr(ck, adopt_int_literal_type(n.args[i], Expected(types, i)))
                ELSE check_init_expr(ck, n.args[i], Expected(types, i)),
                LAMBDA r : CheckArgs(r, [n EXCEPT !.args[i] = r.n], types, i + 1))
ArgsExpected(ck, n) ==
  LET e == scope_lookup_entry(ck, n.callee)
  IN  IF e.t = "F" THEN << "i32" >> ELSE IF e = NoEntry THEN Params(fn_table_lookup(n.callee)) ELSE << >>

Bind(ck, n, init) ==
  LET ok == init = None \/ init.t = U \/ type_ref_assignable(init.t, n.vt)
  IN  scope_bind([type_error(ck, ok) EXCEPT !.n = [n EXCEPT !.a = init, !.t = "void"]], n.name, n.vt, n.k = "VarDecl")
check_decl_and_bind(ck, n) == Strictly(check_init_expr(ck, n.a, n.vt), LAMBDA r : Bind(r, n, r.n))

(* A block, from its i-th statement on: its type is that of its last statement. *)
check_block(ck, n, i) ==
  IF i > Len(n.body) THEN [ck EXCEPT !.n = [n EXCEPT !.t = IF n.body = << >> THEN "void" ELSE Last(n.body).t]]
  ELSE Strictly(IF n.body[i].k \in Declarations THEN check_decl_and_bind(ck, n.body[i]) ELSE check_expr(ck, n.body[i]),
                LAMBDA r : check_block(r, [n EXCEPT !.body[i] = r.n], i + 1))
Body(ck, n) == scope_pop_to(check_block(ck, n, 1), scope_mark(ck))

check_loop_header(ck, e) ==
  [check_expr([ck EXCEPT !.in_loop_header = TRUE], e) EXCEPT !.in_loop_header = ck.in_loop_header]
check_loop_body(ck, n) ==
  [Body([ck EXCEPT !.in_loop_header = FALSE, !.loop_depth = @ + 1], n)
     EXCEPT !.in_loop_header = ck.in_loop_header, !.loop_depth = ck.loop_depth]
Void(ck) == [ck EXCEPT !.n.t = "void"]
LoopFrom(ck, n, mark) == Void(scope_pop_to(check_loop_body(ck, n), mark))

CheckWhile(ck, n) == Strictly(check_loop_header(ck, n.c), LAMBDA r : LoopFrom(r, [n EXCEPT !.c = r.n], scope_mark(ck)))

CheckForC(ck, n) ==
  Strictly(check_loop_header(ck, n.a), LAMBDA i :
    Strictly(check_loop_header(scope_bind(i, n.name, i.n.t, TRUE), n.c), LAMBDA c :
      Strictly(check_loop_header(c, n.b), LAMBDA e :
        LoopFrom(e, [n EXCEPT !.a = i.n, !.c = c.n, !.b = e.n], scope_mark(ck)))))

(* A step that is not written is 1, of the type of the first bound. *)
RangeLoop(ck, n, mark) ==
  LET ty == n.a.t
      ok == \A x \in {n.b.t, n.c.t} : x = U \/ type_ref_equal(ty, x)
  IN  IF ty = U THEN Resolve(ck, n, "void")
      ELSE IF ~type_kind_is_numeric(ty) THEN Resolve(type_error(ck, FALSE), n, "void")
      ELSE LoopFrom(scope_bind(type_error(ck, ok), n.name, ty, TRUE), n, mark)
CheckForRange(ck, n) ==
  Strictly(check_loop_header(ck, n.a), LAMBDA i :
    Strictly(check_loop_header(i, n.b), LAMBDA e :
      Strictly(check_loop_header(e, IF n.c = None THEN IntLit(i.n.t, 1) ELSE n.c), LAMBDA s :
        RangeLoop(s, [n EXCEPT !.a = i.n, !.b = e.n, !.c = s.n], scope_mark(ck)))))

(* The index is bound first: a key of the map, or a position. *)
EachLoop(ck, n, mark) ==
  LET kind == KindOf(n.a.t)
      named == IF n.index = "" THEN ck ELSE scope_bind(ck, n.index, IF kind = "Map" THEN "i32" ELSE "u64", TRUE)
  IN  IF kind \in {"Array", "Vector", "Set"} \/ (kind = "Map" /\ n.index # "")
      THEN LoopFrom(scope_bind(named, n.name, Pointee(n.a.t), TRUE), n, mark)
      ELSE Resolve(type_error(ck, n.a.t = U), n, "void")
CheckForEach(ck, n) == Strictly(check_loop_header(ck, n.a), LAMBDA r : EachLoop(r, [n EXCEPT !.a = r.n], scope_mark(ck)))

ParallelLoop(ck, n, mark) ==
  IF ~type_kind_is_integer(n.a.t) THEN Resolve(type_error(ck, n.a.t = U), n, "void")
  ELSE Strictly(check_loop_body(scope_bind(ck, n.name, n.a.t, TRUE), n), LAMBDA b :
         Void(scope_pop_to(type_error(b, b.n.t \in {U, "void"}), mark)))
CheckParallelFor(ck, n) ==
  IF ~ck.in_parallel_block THEN Resolve(type_error(ck, FALSE), n, U)
  ELSE Strictly(check_loop_header(ck, n.a), LAMBDA r : ParallelLoop(r, [n EXCEPT !.a = r.n], scope_mark(ck)))

CheckLet(ck, n) ==
  Strictly(check_init_expr(ck, n.a, n.vt), LAMBDA r :
    scope_pop_to(check_block(scope_bind(type_error(r, U \in {n.vt, r.n.t} \/ type_ref_assignable(r.n.t, n.vt)),
                                        n.name, IF n.vt = U THEN r.n.t ELSE n.vt, TRUE), [n EXCEPT !.a = r.n], 1), scope_mark(ck)))

CheckScratch(ck, n) == scope_pop_to(check_block(scope_bind(ck, n.name, "arena", TRUE), n, 1), scope_mark(ck))

(* The body of `parallel` sees the captures, each checked after those before it, and the globals. *)
RECURSIVE Captures(_, _, _)
Captures(ck, n, i) ==
  IF i > Len(n.args) THEN [ck EXCEPT !.n = n]
  ELSE Strictly(check_init_expr(ck, n.args[i], U), LAMBDA r :
         Captures(scope_bind(r, n.names[i], r.n.t, TRUE), [n EXCEPT !.args[i] = r.n], i + 1))
LanesClosed(ck, b) ==
  [b EXCEPT !.in_parallel_block = FALSE, !.hidden_lo = 0, !.hidden_hi = 0,
            !.loop_depth = ck.loop_depth, !.in_loop_header = ck.in_loop_header,
            !.err = @ \/ b.n.t \notin {U, "void"}]
LanesOpened(ck, r, depth) ==
  [r EXCEPT !.in_parallel_block = TRUE, !.hidden_lo = ck.fn_scope_base, !.hidden_hi = scope_mark(ck),
            !.loop_depth = depth, !.in_loop_header = FALSE]
LanesBody(ck, depth, n) ==
  Strictly(Captures(ck, n, 1), LAMBDA r :
    Strictly(check_block(LanesOpened(ck, r, depth), r.n, 1), LAMBDA b : Void(scope_pop_to(LanesClosed(ck, b), scope_mark(ck)))))
\* Mutant: the loop around the lanes still counts inside them.
CheckParallelInLoop(ck, n) ==
  IF ck.in_parallel_block THEN Resolve(type_error(ck, FALSE), n, U) ELSE LanesBody(ck, ck.loop_depth, n)
CheckParallel(ck, n) ==
  IF ck.in_parallel_block THEN Resolve(type_error(ck, FALSE), n, U) ELSE LanesBody(ck, 0, n)

(* A literal that `++` and `--` supply has the type of the other operand. *)
PeerTyped(n, ty) == IF n.k = "IntLiteral" /\ n.t = "peer" /\ ty # U THEN [n EXCEPT !.t = ty] ELSE n
CheckBinary(ck, n) ==
  Strictly(check_expr(ck, n.a), LAMBDA r :
    Strictly(check_expr(r, PeerTyped(n.b, r.n.t)), LAMBDA s : Typed(s, [n EXCEPT !.a = r.n, !.b = s.n])))

(* A slot of a destructured array or struct, and a step of a `.` chain, become the access they stand for. *)
Accessed(r, ok, n, ty) == IF r.n.t = U THEN Resolve(r, n, U) ELSE Resolve(type_error(r, ok), n, IF ok THEN ty ELSE U)
CheckPositional(r, slot) ==
  IF KindOf(r.n.t) \in {"Array", "Pointer"}
  THEN Accessed(r, r.n.t = "A" => slot < ArrayCount, [Index(r.n, IntLit(U, slot)) EXCEPT !.t = U], Pointee(r.n.t))
  ELSE Accessed(r, r.n.t = "S" /\ slot < Len(FieldsOf), [Field(r.n, IF slot = 0 THEN "a" ELSE "b") EXCEPT !.t = U],
                IF slot = 0 THEN "i32" ELSE "u64")
CheckDotHop(r, field) == Accessed(r, r.n.t \in {"S", "pS"} /\ field \in {"a", "b"}, [Field(r.n, field) EXCEPT !.t = U], FieldType(field))

(* The parts of the nodes that open no scope. *)
FieldsToCheck(n) ==
  CASE n.k = "IfExpr" -> << "c", "a", "b" >>
    [] n.k = "SetExpr" -> << "a", "target" >>
    [] n.k = "DynPush" -> << "arena", "a" >>
    [] n.k \in {"Logical", "IndexAccess", "PushAlloc", "PushCopy", "CommitExpr", "HandlePoolInit"} -> << "a", "b" >>
    [] n.k \in {"Unary", "BinaryCast", "Reinterpret", "ReturnExpr", "FieldAccess", "UnaryDeref", "UnaryAddr", "AllocExpr"} -> << "a" >>
    [] OTHER -> << >>

check_expr(ck, n) ==
  CASE n = None -> [ck EXCEPT !.n = None]
    [] n.k = "Block" -> Body(ck, n)
    [] n.k = "LetExpr" -> CheckLet(ck, n)
    [] n.k = "ScratchExpr" -> CheckScratch(ck, n)
    [] n.k = "ParallelExpr" -> CheckParallel(ck, n)
    [] n.k = "WhileExpr" -> CheckWhile(ck, n)
    [] n.k = "ForCExpr" -> CheckForC(ck, n)
    [] n.k = "ForRangeExpr" -> CheckForRange(ck, n)
    [] n.k = "ForEachExpr" -> CheckForEach(ck, n)
    [] n.k = "ParallelForExpr" -> CheckParallelFor(ck, n)
    [] n.k = "Binary" -> CheckBinary(ck, n)
    [] n.k = "PositionalAccess" -> Strictly(check_expr(ck, n.a), LAMBDA r : CheckPositional(r, n.slot))
    [] n.k = "DotHop" -> Strictly(check_expr(ck, n.a), LAMBDA r : CheckDotHop(r, n.field))
    [] n.k = "Call" -> Strictly(CheckArgs(ck, n, ArgsExpected(ck, n), 1), LAMBDA r : Typed(r, r.n))
    [] n.k = "StructLiteral" ->
         Strictly(CheckArgs(ck, n, [i \in DOMAIN FieldsOf |-> FieldsOf[i].t], 1), LAMBDA r : Typed(r, r.n))
    [] OTHER ->
         Strictly(CheckFields(ck, IF n.k = "ReturnExpr" THEN [n EXCEPT !.a = adopt_int_literal_type(@, ck.ret)] ELSE n,
                              FieldsToCheck(n)), LAMBDA r : Typed(r, r.n))

(***************************************************************************)
(* A program: the globals are in scope everywhere, then each function with *)
(* a body is checked in turn.                                              *)
(***************************************************************************)
check_main_signature(f) == f.name = "main" => f.ret = "i32" /\ Params(f) \in {<< >>, << "i32", "pstring" >>}

FunctionOpened(ck, f) ==
  FoldLeft(LAMBDA c, p : scope_bind(c, p.name, p.t, TRUE),
           [type_error(ck, check_main_signature(f)) EXCEPT
              !.fn_scope_base = scope_mark(ck), !.ret = f.ret, !.in_function_body = TRUE,
              !.in_parallel_block = f.kind = "lane", !.loop_depth = 0], f.params)
ValueFits(f, r) == f.ret = "void" \/ r.n.t = U \/ type_ref_equal(r.n.t, f.ret)
CheckFunction(ck, f) ==
  Strictly(Body(FunctionOpened(ck, f), adopt_int_literal_in_tail(Block(U, f.body), f.ret)), LAMBDA r :
    [scope_pop_to(type_error(r, ValueFits(f, r)), scope_mark(ck)) EXCEPT !.in_function_body = FALSE, !.in_parallel_block = FALSE])

(* The program with its types filled in, and whether it has an error. *)
Globals(p) == FoldLeft(LAMBDA c, g : scope_bind(c, g.name, "i32", TRUE), Checking, p.globals)
Bodies(p, checked) ==
  [err |-> \/ Cardinality({f.name : f \in ToSet(p.fns)}) # Len(p.fns)
           \/ \E i \in DOMAIN checked : checked[i].err,
   fns |-> [i \in DOMAIN p.fns |-> IF p.fns[i].kind = "host" THEN p.fns[i]
                                    ELSE [p.fns[i] EXCEPT !.body = checked[i].n.body]]]
check_program(p) ==
  Strictly([i \in DOMAIN p.fns |-> IF p.fns[i].kind = "host" THEN Checking ELSE CheckFunction(Globals(p), p.fns[i])],
           LAMBDA checked : Bodies(p, checked))
=============================================================================
