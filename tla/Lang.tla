-------------------------------- MODULE Lang --------------------------------
(***************************************************************************)
(* The typed program that the back ends are given (3b.h): its types, their *)
(* layout, and its nodes.  A node is a record whose field k is the         *)
(* TypedNodeKind and whose field t is the type the checker resolved for    *)
(* it.  Widths are scaled down: a machine word has WordBits bits instead   *)
(* of 64, a C int IntBits instead of 32, a byte ByteBits instead of 8, and *)
(* memory is a sequence of cells, one per scalar.                          *)
(***************************************************************************)
EXTENDS Integers, Sequences

VARIABLE prog        \* the checked program, which every back end reads: [fns, globals]

WordBits == 11
IntBits  == 6
ByteBits == 4

(***************************************************************************)
(* Types: the integer kinds, the boxed kinds that are embedded by value    *)
(* (the struct "S" of two fields, the array "A" of two i32) and the kinds  *)
(* that are one pointer wide.                                              *)
(***************************************************************************)
IntTypes == {"i8", "u8", "i32", "u32", "i64", "u64"}
Unsigned(ty) == ty \in {"u8", "u32", "u64"}
BitsOf(ty) == CASE ty \in {"i8", "u8"} -> ByteBits
                [] ty \in {"i32", "u32"} -> IntBits
                [] OTHER -> WordBits

ElemType(ty) == CASE ty = "pS" -> "S" [] OTHER -> "i32"
FieldsOf == << [name |-> "a", t |-> "i32"], [name |-> "b", t |-> "u64"] >>
FieldOffset(f) == IF f = "a" THEN 0 ELSE 1
FieldType(f) == IF f = "a" THEN "i32" ELSE "u64"
ArrayCount == 2

(* layout_of: how many cells a value of a type occupies. *)
layout_of(ty) == IF ty \in {"S", "A"} THEN 2 ELSE 1

(***************************************************************************)
(* Two's complement: the value a register of the given width holds.        *)
(***************************************************************************)
WrapTo(bits, signed, v) ==
  LET m == v % 2^bits
  IN  IF signed /\ m >= 2^(bits - 1) THEN m - 2^bits ELSE m

Wrap(v)   == WrapTo(WordBits, TRUE, v)
AsU64(v)  == v % 2^WordBits
Conv(ty, v) == IF ty \in IntTypes THEN WrapTo(BitsOf(ty), ~Unsigned(ty), v)
               ELSE IF ty = "bool" THEN IF v = 0 THEN 0 ELSE 1
               ELSE Wrap(v)

(* C division and remainder truncate toward zero. *)
Abs(v) == IF v < 0 THEN -v ELSE v
TruncDiv(a, b) == LET q == Abs(a) \div Abs(b)
                  IN  IF (a < 0) = (b < 0) THEN q ELSE -q
TruncMod(a, b) == a - b * TruncDiv(a, b)

(* F(x), written so that TLC evaluates x before it evaluates F. *)
Strictly(x, F(_)) == CHOOSE r \in {F(y) : y \in {x}} : TRUE

(***************************************************************************)
(* Node constructors.                                                      *)
(***************************************************************************)
IntLit(ty, v)       == [k |-> "IntLiteral", t |-> ty, v |-> v]
Literal(ty, v)      == [k |-> "Literal", t |-> ty, v |-> v]          \* true, false, nil, a string
Id(ty, x)           == [k |-> "Identifier", t |-> ty, name |-> x]
Bin(ty, op, a, b)   == [k |-> "Binary", t |-> ty, op |-> op, a |-> a, b |-> b]
Cmp(op, a, b)       == Bin("bool", op, a, b)
Un(ty, op, a)       == [k |-> "Unary", t |-> ty, op |-> op, a |-> a]
Cast(ty, a)         == [k |-> "BinaryCast", t |-> ty, a |-> a]
Logic(op, a, b)     == [k |-> "Logical", t |-> "bool", op |-> op, a |-> a, b |-> b]
If(ty, c, a, b)     == [k |-> "IfExpr", t |-> ty, c |-> c, a |-> a, b |-> b]
None                == [k |-> "TYPED_NIL", t |-> "void"]
Block(ty, ss)       == [k |-> "Block", t |-> ty, body |-> ss]
Break               == [k |-> "BreakExpr", t |-> "Unresolved"]
Continue            == [k |-> "ContinueExpr", t |-> "Unresolved"]
Return(ty, a)       == [k |-> "ReturnExpr", t |-> "Unresolved", a |-> a]
While(c, ss)        == [k |-> "WhileExpr", t |-> "void", c |-> c, body |-> ss]
ForC(x, i, c, e, ss) == [k |-> "ForCExpr", t |-> "void", name |-> x, a |-> i,
                         c |-> c, b |-> e, body |-> ss]
ForRange(x, i, e, s, ss) == [k |-> "ForRangeExpr", t |-> "void", name |-> x, a |-> i,
                             b |-> e, c |-> s, body |-> ss]
ForEach(x, i, coll, ss) == [k |-> "ForEachExpr", t |-> "void", name |-> x, index |-> i,
                            a |-> coll, body |-> ss]
Let(ty, x, i, ss)   == [k |-> "LetExpr", t |-> ty, name |-> x, vt |-> "Unresolved", a |-> i, body |-> ss]
Var(ty, x, i)       == [k |-> "VarDecl", t |-> "void", name |-> x, vt |-> ty, a |-> i]
Const(ty, x, i)     == [Var(ty, x, i) EXCEPT !.k = "ConstDecl"]
Declarations        == {"VarDecl", "ConstDecl"}
Set(ty, target, a)  == [k |-> "SetExpr", t |-> ty, target |-> target, a |-> a]
Scratch(ty, x, ss)  == [k |-> "ScratchExpr", t |-> ty, name |-> x, body |-> ss]
Push(ty, arena, n)  == [k |-> "PushAlloc", t |-> ty, a |-> arena, b |-> n]
DynPush(arena, x, a) == [k |-> "DynPush", t |-> "void", arena |-> arena, name |-> x, a |-> a]
StructLit(fs)       == [k |-> "StructLiteral", t |-> "S", names |-> << "a", "b" >>, args |-> fs]
ArrayLit(es)        == [k |-> "ArrayLiteral", t |-> "A", args |-> es]
Field(a, f)         == [k |-> "FieldAccess", t |-> FieldType(f), a |-> a, field |-> f]
Index(a, i)         == [k |-> "IndexAccess", t |-> "i32", a |-> a, b |-> i]
Deref(ty, a)        == [k |-> "UnaryDeref", t |-> ty, a |-> a]
Addr(ty, a)         == [k |-> "UnaryAddr", t |-> ty, a |-> a]
Call(ty, f, as)     == [k |-> "Call", t |-> ty, callee |-> f, args |-> as]
ParallelFor(x, n, ss) == [k |-> "ParallelForExpr", t |-> "void", name |-> x, a |-> n,
                          body |-> ss]
Parallel(xs, is, ss) == [k |-> "ParallelExpr", t |-> "void", names |-> xs, args |-> is, body |-> ss]

(***************************************************************************)
(* A function: its parameters [name, t], its return type, its body, and    *)
(* whether it is the script's own, another module's, or a host function; a *)
(* program has its functions, the first being main, and its globals        *)
(* [name, v].                                                              *)
(***************************************************************************)
Fn(name, params, ret, body) ==
  [name |-> name, params |-> params, ret |-> ret, body |-> body, kind |-> "own"]
ModuleFn(name, params, ret, body) ==
  [Fn(name, params, ret, body) EXCEPT !.kind = "module"]
Main(body) == Fn("main", << >>, "i32", body)
NamesOf(kind) ==
  LET fs == SelectSeq(prog.fns, LAMBDA f : f.kind = kind) IN [i \in DOMAIN fs |-> fs[i].name]

(* The host functions, which the embedding program supplies: each prints its number plus its
   argument, and returns its argument. *)
HostNumber(f) == IF f = "h1" THEN 10 ELSE 20
HostFn(f) ==
  [Fn(f, << [name |-> "x", t |-> "i32"] >>, "i32",
      << Call("void", "print", << Bin("i32", "Add", Id("i32", "x"), IntLit("i32", HostNumber(f))) >>),
         Id("i32", "x") >>) EXCEPT !.kind = "host"]
=============================================================================
