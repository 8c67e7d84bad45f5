------------------------------- MODULE MCExec -------------------------------
(***************************************************************************)
(* Programs lowered, checked, compiled by both back ends and run.  Check   *)
(* lowers the program as it was written and resolves its types, or rejects *)
(* it.  Build                                                              *)
(* compiles it to C and runs that, compiles it to bytecode and writes the      *)
(* cache file, which a crash may cut short.  LoadCached is another process,*)
(* where the host registers its functions in an order of its own: it runs  *)
(* the cached program, or compiles again when the cache is refused.  Start *)
(* and Exec run the bytecode.  The programs come in families, each a       *)
(* template whose parameters Init chooses.                                 *)
(***************************************************************************)
EXTENDS Checker, Lower, BcVm, CodeGen

CONSTANT Families        \* which families of programs are explored

VARIABLES native,        \* what the compiled C program did: [ctl, v, out, scr]
          file           \* the cache file: what is on disk, and whether that is all of it

vars == << prog, hosts, vmVars, native, file >>

(***************************************************************************)
(* The families.                                                           *)
(***************************************************************************)
Program(fns)  == [fns |-> fns, globals |-> << [name |-> "g", v |-> 3] >>, torn |-> FALSE, legal |-> TRUE, text |-> << >>]
Lit(v)        == IntLit("i32", v)
I(x)          == Id("i32", x)
PrintI(e)     == Call("void", "print", << e >>)
Inc(x)        == Set("i32", I(x), Bin("i32", "Add", I(x), Lit(1)))
Stop0         == Lit(0)

(* A jump out of a loop from under d scratch scopes. *)
RECURSIVE Under(_, _)
Under(d, ss) == IF d = 0 THEN ss
                ELSE << Scratch(Last(ss).t, "s", << Push("p", Id("arena", "s"), Lit(2)) >> \o Under(d - 1, ss)) >>
JumpAt(j, k) == If("void", Cmp("Eq", I("i"), Lit(k)),
                   CASE j = "break" -> Break [] j = "continue" -> Continue
                     [] j = "return" -> Return("i32", I("i")) [] OTHER -> Lit(0), None)
LoopOf(kind, ss) ==
  CASE kind = "while"  -> << Var("i32", "i", Lit(0)),
                             While(Cmp("Lt", I("i"), Lit(3)), << Inc("i") >> \o ss) >>
    [] kind = "c"      -> << ForC("i", Lit(0), Cmp("Lt", I("i"), Lit(3)), Inc("i"), ss) >>
    [] kind = "range"  -> << ForRange("i", Lit(0), Lit(3), Lit(1), ss) >>
    [] kind = "each"   -> << Var("A", "xs", ArrayLit(<< Lit(1), Lit(2) >>)), ForEach("i", "", Id("A", "xs"), ss) >>
    [] kind = "indexed" -> << Var("A", "xs", ArrayLit(<< Lit(1), Lit(2) >>)),
                              ForEach("i", "k", Id("A", "xs"), << Call("void", "print", << Id("u64", "k") >>) >> \o ss) >>
    [] kind = "lanes"  -> << Parallel(<< "m" >>, << Lit(3) >>, << ParallelFor("i", I("m"), ss) >>) >>
LoopProgram(q) ==
  LET inner == Under(q.deep, << JumpAt(q.jump, q.at), PrintI(I("i")) >>)
      body  == IF q.nested THEN << ForRange("n", Lit(0), Lit(2), Lit(1), LoopOf(q.kind, inner)) >>
               ELSE LoopOf(q.kind, inner)
  IN  Program(<< Main(<< PrintI(Call("i32", "f", << >>)), Stop0 >>),
                 Fn("f", << >>, "i32", Under(q.around, body) \o << Lit(9) >>) >>)
\* Without C-style loops that continue (Odd.forc_continue) and lanes that return (Odd.lane_return).
LoopParams ==
  {q \in [kind : {"while", "c", "range", "each", "indexed", "lanes"}, deep : 0..2, around : 0..1,
          jump : {"none", "break", "continue", "return"}, at : {1, 2}, nested : BOOLEAN] :
     ~(q.kind = "c" /\ q.jump = "continue") /\ ~(q.kind = "lanes" /\ q.jump = "return")}

(* One operation on two values of a type, converted to another type. *)
ArithProgram(q) ==
  LET x == Id(q.t, "x")
      y == Id(q.t, "y")
  IN  Program(<< Main(<< Var(q.t, "x", Cast(q.t, Lit(q.x))), Var(q.t, "y", Cast(q.t, Lit(q.y))),
                         Call("void", "print", << Bin(q.t, q.op, x, y), Cmp(q.cmp, x, y) >>),
                         Call("void", "print", << Cast(q.to, Bin(q.t, q.op, x, y)),
                                                  Un(q.t, "Neg", x), Un(q.t, "BitNot", y) >>),
                         Call("void", "print", << Call(q.t, "min", << x, y >>), Call(q.t, "abs", << x >>),
                                                  Call(q.t, "clamp", << x, y, Cast(q.t, Lit(5)) >>) >>),
                         Stop0 >>) >>)
ArithParams ==
  {q \in [t : IntTypes, to : {"u8", "i64"}, op : {"Add", "Sub", "Mul", "Div", "Mod"},
          cmp : {"Lt", "Ge"}, x : {-3, 7}, y : {-3, 0, 2}] :
     q.to = "i64" => BitsOf(q.t) >= IntBits}

(***************************************************************************)
(* Two statements out of a list, on structs, arrays, pointers, globals and *)
(* shadowed names; then everything is printed.                             *)
(***************************************************************************)
S == Id("S", "s")
T == Id("S", "t")
XS == Id("A", "xs")
Values ==
  << Set("i32", Field(S, "a"), Lit(5)),
     Call("void", "swap", << S, T >>),
     Let("void", "u", S, << Set("i32", Field(Id("S", "u"), "a"), Lit(7)), PrintI(Field(Id("S", "u"), "a")) >>),
     PrintI(Call("i32", "mut", << T >>)),
     Set("i32", Deref("i32", Id("p", "p")), Lit(6)),
     Call("void", "print", << Cmp("Lt", S, T), Cmp("Eq", S, T) >>),
     Call("void", "swap", << I("x"), I("y") >>),
     Set("i32", Index(XS, Lit(1)), I("x")),
     Call("void", "marr", << XS >>),
     Call("void", "swap", << Field(S, "a"), Index(XS, Lit(0)) >>),
     Set("i32", I("g"), Bin("i32", "Add", I("g"), I("x"))),
     Let("void", "q", Call("p", "nth-checked", << XS, I("y") >>), << PrintI(Deref("i32", Id("p", "q"))) >>),
     Let("i32", "ys", XS, << Set("i32", Index(Id("A", "ys"), Lit(0)), Lit(4)) >>),
     Let("void", "x", Bin("i32", "Add", I("x"), Lit(1)), << Inc("x"), PrintI(I("x")) >>),
     PrintI(If("i32", Logic("Or", Cmp("Gt", I("y"), I("x")), Call("bool", "yes", << >>)), I("y"), Lit(8))),
     PrintI(If("i32", Logic("And", Un("bool", "Not", I("x")), Call("bool", "yes", << >>)), I("y"), Lit(8))),
     Let("i32", "q", Call("p", "nth-checked", << XS, I("y") >>), << Set("i32", Deref("i32", Id("p", "q")), Lit(4)) >>),
     Let("i32", "q", Addr("p", Field(S, "a")), << Set("i32", Deref("i32", Id("p", "q")), I("y")) >>) >>
ValueProgram(q) ==
  Program(<< Main(<< Var("S", "s", StructLit(<< Lit(1), IntLit("u64", 2) >>)), Var("S", "t", StructLit(<< Lit(1), IntLit("u64", 4) >>)),
                     Var("A", "xs", ArrayLit(<< Lit(2), Lit(3) >>)), Var("i32", "x", Lit(10)), Var("i32", "y", Lit(q.y)),
                     Var("p", "p", Addr("p", I("x"))), Values[q.one], Values[q.two],
                     Call("void", "print", << Field(S, "a"), Field(S, "b"), Field(T, "a"), Field(T, "b") >>),
                     Call("void", "print", << I("x"), I("y"), I("g"), Index(XS, Lit(0)), Index(XS, Lit(1)) >>), Stop0 >>),
             Fn("mut", << [name |-> "s", t |-> "S"] >>, "i32",
                << Set("i32", Field(S, "a"), Lit(8)), Return("i32", Field(S, "a")) >>),
             Fn("marr", << [name |-> "xs", t |-> "A"] >>, "void", << Set("i32", Index(XS, Lit(0)), Lit(9)) >>),
             Fn("yes", << >>, "bool", << PrintI(Lit(20)), Cmp("Eq", I("g"), I("g")) >>) >>)
ValueParams == [one : DOMAIN Values, two : DOMAIN Values, y : {1, 2}]

(***************************************************************************)
(* Three operations on a growable array, then its content.                 *)
(***************************************************************************)
V == Id("V", "v")
VectorOp(o) ==
  CASE o = "push1"  -> DynPush(Id("arena", "s"), "v", Lit(1))
    [] o = "push2"  -> DynPush(Id("arena", "s"), "v", Lit(2))
    [] o = "clear"  -> Call("void", "vector-clear", << V >>)
    [] o = "cut0"   -> Call("bool", "vector-remove-at", << V, Lit(0) >>)
    [] o = "cut1"   -> Call("bool", "vector-remove-at", << V, Lit(1) >>)
    [] o = "swap0"  -> Call("bool", "vector-swap-remove", << V, Lit(0) >>)
    [] o = "find"   -> Call("void", "print", << Call("bool", "vector-contains?", << V, Lit(2) >>),
                                               Call("u64", "vector-index-of", << V, Lit(2) >>) >>)
VectorProgram(q) ==
  Program(<< Main(<< Scratch("void", "s",
      << Var("V", "v", None) >> \o [i \in 1..Len(q) |-> VectorOp(q[i])]
      \o << Call("void", "print", << Call("u64", "len", << V >>) >>), ForEach("e", "", V, << PrintI(I("e")) >>) >>),
      Stop0 >>) >>)
VectorOps == {"push1", "push2", "clear", "cut0", "cut1", "swap0", "find"}
VectorParams == {<< "push1", "push2" >> \o t : t \in [1..3 -> VectorOps]}

(***************************************************************************)
(* Recursion, through a function of this module or of another one, that    *)
(* returns from inside a scratch scope.                                    *)
(***************************************************************************)
CallProgram(q) ==
  LET kind(f) == IF q.module THEN ModuleFn("sum", << [name |-> "n", t |-> "i32"] >>, "i32", f)
                 ELSE Fn("sum", << [name |-> "n", t |-> "i32"] >>, "i32", f)
      more == Bin("i32", "Add", Call("i32", "sum", << Bin("i32", "Sub", I("n"), Lit(1)) >>), I("n"))
  IN  Program(<< Main(<< Var("i32", "n", Lit(q.n)), PrintI(Call("i32", "sum", << I("n") >>)), PrintI(I("n")), Stop0 >>),
                 kind(Under(q.deep, << If("void", Cmp("Le", I("n"), Lit(0)), Return("i32", Lit(q.base)), None),
                                       Return("i32", IF q.tail THEN more ELSE Call("i32", "max", << more, Lit(1) >>)) >>)
                        \o << Lit(7) >>) >>)
CallParams == [n : 0..3, deep : 0..1, base : {0, 4}, module : BOOLEAN, tail : {TRUE}]

(***************************************************************************)
(* Host functions, the cache file whole or cut short anywhere.             *)
(***************************************************************************)
CacheProgram(q) ==
  LET one(f, x) == PrintI(Call("i32", f, << Lit(x) >>))
  IN  [Program(<< Main(<< one("h1", 1), one(IF q.both THEN "h2" ELSE "h1", 2),
                          IF q.module THEN one("m", 3) ELSE PrintI(I("g")), Stop0 >>),
                  HostFn("h1"), HostFn("h2"),
                  ModuleFn("m", << [name |-> "x", t |-> "i32"] >>, "i32",
                           << Bin("i32", "Add", I("x"), Lit(1)) >>) >>) EXCEPT !.torn = TRUE]
CacheParams == [both : BOOLEAN, module : BOOLEAN]

(***************************************************************************)
(* A statement at the end of a path of constructs, each inside the one     *)
(* before it.  The statement is legal or not by what encloses it; f has    *)
(* the parameter x.                                                        *)
(***************************************************************************)
RECURSIVE Nested(_, _)
Nested(path, s) ==
  IF path = << >> THEN << s >>
  ELSE LET in == Nested(Tail(path), s)
       IN  CASE Head(path) = "loop"   -> << ForRange("i", Lit(0), Lit(2), Lit(1), in) >>
             [] Head(path) = "cond"   -> << While(Block("bool", in \o << Cmp("Eq", Lit(0), Lit(1)) >>), << >>) >>
             [] Head(path) = "let"    -> << Let("void", "x", Lit(4), in \o << PrintI(I("x")) >>) >>
             [] Head(path) = "scratch" -> << Scratch("void", "s", in \o << PrintI(Lit(6)) >>) >>
             [] Head(path) = "lanes"  -> << Parallel(<< >>, << >>, in) >>
             [] Head(path) = "captured" -> << Parallel(<< "x" >>, << I("x") >>, in) >>
             [] Head(path) = "pfor"   -> << ParallelFor("k", Lit(2), in) >>
Leaf(l) == CASE l = "break" -> Break [] l = "x" -> PrintI(I("x")) [] l = "g" -> PrintI(I("g"))
             [] l = "lane" -> Block("void", << Call("void", "lane-sync", << >>), Call("void", "print",
                                << Call("u32", "lane-index", << >>), Call("u32", "lane-count", << >>) >>) >>)
PathProgram(q) ==
  [Program(<< Main(<< Call("void", "f", << Lit(8) >>), Stop0 >>),
              Fn("f", << [name |-> "x", t |-> "i32"] >>, "void", Nested(q.path, Leaf(q.leaf))) >>)
     EXCEPT !.legal = q.legal]
Lanes == {"lanes", "captured"}
IsLast(path, i, kinds) == path[i] \in kinds /\ \A j \in DOMAIN path : path[j] \in kinds => j <= i
(* Lanes do not nest, parallel-for is for lanes; a jump's innermost construct of those that bound jumps
   is a loop's body; x is seen through lanes only if they capture it or it is bound inside them. *)
LegalPath(path, leaf) ==
  /\ \A i, j \in DOMAIN path : path[i] \in Lanes /\ path[j] \in Lanes => i = j
  /\ \A i \in DOMAIN path : path[i] = "pfor" => \E j \in 1..i : path[j] \in Lanes
  /\ leaf = "break" => \E i \in DOMAIN path : path[i] \in {"loop", "pfor"}
                                             /\ IsLast(path, i, {"loop", "pfor", "cond"} \cup Lanes)
  /\ leaf = "lane" => \E i \in DOMAIN path : path[i] \in Lanes
  /\ leaf = "x" => \A i \in DOMAIN path : path[i] = "lanes" => \E j \in i..Len(path) : path[j] = "let"
SeesX(path) == \A i \in DOMAIN path : path[i] \in {"let", "captured"} => LegalPath(SubSeq(path, 1, i - 1), IF path[i] = "captured" THEN "x" ELSE "g")
Constructs == {"loop", "cond", "let", "scratch", "lanes", "captured", "pfor"}
PathParams == {[path |-> p, leaf |-> l, legal |-> LegalPath(p, l) /\ SeesX(p)] :
                 p \in UNION {[1..n -> Constructs] : n \in 0..3}, l \in {"break", "x", "g", "lane"}}

(***************************************************************************)
(* Two parameters of any two types, used together.                         *)
(***************************************************************************)
Use(op, t, u) ==
  LET x == Id(t, "x")
      y == Id(u, "y")
  IN  CASE op = "set" -> Set(t, x, y)
        [] op = "const" -> Block("void", << Const(t, "z", x), Set(t, Id(t, "z"), y) >>)
        [] op = "pass" -> Call("void", "take", << y >>)
        [] op = "if" -> If(t, Lit(1), x, y)
        [] op \in {"Lt", "Eq"} -> Call("void", "print", << Cmp(op, x, y) >>)
        [] OTHER -> Call("void", "print", << Bin(t, op, x, y) >>)
UseTypes == {"i8", "u8", "i32", "u64", "S", "p"}
UseProgram(q) ==
  LET ps == << [name |-> "x", t |-> q.t], [name |-> "y", t |-> q.u] >>
  IN  [Program(<< Main(<< Var("i8", "i8", Cast("i8", Lit(1))), Var("u8", "u8", Cast("u8", Lit(2))), Var("i32", "i32", Lit(3)),
                          Var("u64", "u64", IntLit("u64", 4)), Var("S", "S", StructLit(<< Lit(1), IntLit("u64", 2) >>)),
                          Var("p", "p", Addr("p", I("i32"))),
                          Call("void", "f", << Id(q.t, q.t), Id(q.u, q.u) >>), Stop0 >>),
                  Fn("f", ps, "void", << Use(q.op, q.t, q.u) >>),
                  Fn("take", << [name |-> "y", t |-> q.t] >>, "void", << PrintI(Lit(1)) >>) >>)
         EXCEPT !.legal = (q.t = q.u) /\ q.op # "const" /\ (q.op \in {"Add", "Mod"} => q.t \in IntTypes)]
UseParams == [op : {"set", "const", "pass", "if", "Lt", "Eq", "Add", "Mod"}, t : UseTypes, u : UseTypes]

(***************************************************************************)
(* The shorthands of the language around an expression of type i32, one    *)
(* inside the other: the form, and what it stands for.                     *)
(***************************************************************************)
Form(w, fs) == List(<< Atom(w) >> \o fs)
Plus1(n) == Bin("i32", "Add", n, Lit(1))
MV == I("__match_val")
Src == Id("S", "__destructure_src")
Some == Id("p", "__some_thread_val")
OrNil(rest) == If("nil", Cmp("Eq", Some, Nil), Nil, rest)
ShortForm(w, f) ==
  CASE w = "first"  -> Form("->", << f, Form("-", << Num(1) >>), Atom("twice") >>)
    [] w = "last"   -> Form("->>", << f, Form("-", << Num(9) >>) >>)
    [] w = "many"   -> Form("-", << f, Num(1), Atom("y") >>)
    [] w = "match"  -> Form("match", << f, Vect(<< Num(3), Num(1), Vect(<< Num(4), Num(5) >>), Atom("x"), Atom("else"), Atom("y") >>) >>)
    [] w = "cases"  -> Form("do", << Form("match", << f, Vect(<< Num(3), Form("print", << Num(1) >>), Num(4), Form("set", << Atom("x"), Num(2) >>) >>) >>), Atom("x") >>)
    [] w = "when"   -> Form("do", << Form("when", << Form(">", << f, Num(3) >>), Form("++", << Atom("x") >>), Form("print", << Atom("x") >>) >>), Atom("x") >>)
    [] w = "assign" -> Form("do", << Form("--", << Atom("x") >>), Form("*=", << Form("nth", << Atom("xs"), Vect(<< Num(0) >>) >>), f >>),
                                    Form("++", << Form(".", << Atom("s"), Atom("b") >>) >>), Form("nth", << Atom("xs"), Num(0) >>) >>)
    [] w = "fields" -> Form("let", << Vect(<< MapForm(<< Key("a"), Atom("c"), Atom("b") >>), Form("S", << MapForm(<< Key("a"), f, Key("b"), Num(2) >>) >>) >>), Atom("c") >>)
    [] w = "slots"  -> Form("let", << Vect(<< Vect(<< Atom("c"), Atom("d") >>), Atom("xs") >>), Form("+", << Atom("d"), f >>) >>)
    [] w = "place"  -> Form("let", << Vect(<< MapForm(<< Form("addr", << Atom("a") >>) >>), Atom("s") >>),
                                     Form("set", << Form("deref", << Atom("a") >>), f >>), Form("get-in", << Atom("s"), Vect(<< Atom("a") >>) >>) >>)
    [] w = "path"   -> Form("+", << Form("deref", << Form("&", << Atom("s"), Atom("a") >>) >>), f >>)
    [] w = "typed"  -> Form("let", << Vect(<< Atom("c"), Atom("i32"), Num(7), Atom("d"), f >>), Form("-", << Atom("c"), Atom("d") >>) >>)
    [] w = "some"   -> Form("do", << Form("var", << Atom("q"), Pointer("i32"), Form("some->", << Form("addr", << Atom("x") >>), Form("pick", << f >>) >>) >>),
                                    Form("deref", << Atom("q") >>) >>)
    [] w = "void"   -> Form("do", << Form("if", << Num(1), Form("void", << Form("print", << f >>) >>), Form("void", << Atom("x") >>) >>), f >>)
    [] OTHER        -> Form("let", << Vect(<< Atom("n"), Num(0) >>), Form("for", << Vect(<< Atom("i"), Num(0), f >>), Form("++", << Atom("n") >>) >>), Atom("n") >>)
ShortFor(w, n) ==
  CASE w = "first"  -> Call("i32", "twice", << Bin("i32", "Sub", n, Lit(1)) >>)
    [] w = "last"   -> Bin("i32", "Sub", Lit(9), n)
    [] w = "many"   -> Bin("i32", "Sub", Bin("i32", "Sub", n, Lit(1)), I("y"))
    [] w = "match"  -> Let("i32", "__match_val", n, << If("i32", Cmp("Eq", MV, Lit(3)), Lit(1),
                             If("i32", Logic("Or", Cmp("Eq", MV, Lit(4)), Cmp("Eq", MV, Lit(5))), I("x"), I("y"))) >>)
    [] w = "cases"  -> Block("i32", << Let("void", "__match_val", n, << If("void", Cmp("Eq", MV, Lit(3)), Block("void", << PrintI(Lit(1)), Cast("void", Lit(0)) >>),
                             If("void", Cmp("Eq", MV, Lit(4)), Block("void", << Set("i32", I("x"), Lit(2)), Cast("void", Lit(0)) >>), None)) >>), I("x") >>)
    [] w = "when"   -> Block("i32", << If("void", Cmp("Gt", n, Lit(3)), Block("void", << Inc("x"), PrintI(I("x")) >>), None), I("x") >>)
    [] w = "assign" -> Block("i32", << Set("i32", I("x"), Bin("i32", "Sub", I("x"), Lit(1))),
                             Set("i32", Index(XS, Lit(0)), Bin("i32", "Mul", Index(XS, Lit(0)), n)),
                             Set("u64", Field(S, "b"), Bin("u64", "Add", Field(S, "b"), IntLit("u64", 1))), Index(XS, Lit(0)) >>)
    [] w = "fields" -> Let("i32", "__destructure_src", StructLit(<< n, IntLit("u64", 2) >>),
                           << Let("i32", "c", Field(Src, "a"), << Let("i32", "b", Field(Src, "b"), << I("c") >>) >>) >>)
    [] w = "slots"  -> Let("i32", "c", Index(XS, IntLit(U, 0)), << Let("i32", "d", Index(XS, IntLit(U, 1)), << Bin("i32", "Add", I("d"), n) >>) >>)
    [] w = "place"  -> Let("i32", "a", Addr("p", Field(S, "a")), << Set("i32", Deref("i32", Id("p", "a")), n), Field(S, "a") >>)
    [] w = "path"   -> Bin("i32", "Add", Deref("i32", Addr("p", Field(S, "a"))), n)
    [] w = "typed"  -> [Let("i32", "c", Lit(7), << Let("i32", "d", n, << Bin("i32", "Sub", I("c"), I("d")) >>) >>) EXCEPT !.vt = "i32"]
    [] w = "some"   -> Block("i32", << Var("p", "q", Let("nil", "__some_thread_val", Addr("p", I("x")),
                             << OrNil(Let("nil", "__some_thread_val", Call("p", "pick", << Some, n >>), << OrNil(Some) >>)) >>)), Deref("i32", Id("p", "q")) >>)
    [] w = "void"   -> Block("i32", << If("void", Lit(1), Block("void", << Block("void", << PrintI(n) >>), Cast("void", Lit(0)) >>),
                                                         Block("void", << Block("i32", << I("x") >>), Cast("void", Lit(0)) >>)), n >>)
    [] OTHER        -> Let("i32", "n", Lit(0), << ForRange("i", Lit(0), n, Lit(1), << Inc("n") >>), I("n") >>)
Shorthands == {"first", "last", "many", "match", "cases", "when", "assign", "fields", "slots", "place", "path", "typed", "some", "void", "range"}
ShorthandParams == [outer : Shorthands, inner : Shorthands, x : {3, 5}]
ShorthandProgram(q) ==
  [Program(<< Main(<< Var("A", "xs", ArrayLit(<< Lit(2), Lit(3) >>)),
                      PrintI(Call("i32", "f", << Lit(q.x), Lit(4), StructLit(<< Lit(1), IntLit("u64", 2) >>), XS >>)), Stop0 >>),
              Fn("f", << [name |-> "x", t |-> "i32"], [name |-> "y", t |-> "i32"], [name |-> "s", t |-> "S"], [name |-> "xs", t |-> "A"] >>, "i32",
                 << ShortFor(q.outer, ShortFor(q.inner, I("x"))) >>),
              Fn("twice", << [name |-> "x", t |-> "i32"] >>, "i32", << Bin("i32", "Add", I("x"), I("x")) >>),
              Fn("pick", << [name |-> "q", t |-> "p"], [name |-> "k", t |-> "i32"] >>, "p",
                 << Set("i32", Deref("i32", Id("p", "q")), I("k")), Id("p", "q") >>) >>)
     EXCEPT !.text = << ShortForm(q.outer, ShortForm(q.inner, Atom("x"))) >>]

(* Forms that are not of the shape their word requires. *)
X == Atom("x")
Malformed ==
  {Form("if", << X >>), Form("if", << X, X, X, X >>), Form("let", << Vect(<< X >>), X >>), Form("let", << X, X >>),
   Form("let", << Vect(<< MapForm(<< Key("a") >>), X >>), X >>), Form("let", << Vect(<< Str("a"), X >>), X >>),
   Form("match", << X, Vect(<< Num(1) >>) >>), Form("match", << X, Vect(<< Vect(<< >>), X >>) >>), Form("scratch", << Vect(<< >>), X >>),
   Form("parallel", << Vect(<< X >>), X >>), Form("while", << >>), Form("for", << Vect(<< X >>), X >>), Form("for", << Vect(<< Str("a"), Num(0), Num(2) >>), X >>),
   Form("for", << Vect(<< Vect(<< X >>), X >>), X >>), Form("parallel-for", << Vect(<< X, X, X >>), X >>), Form("return", << X, X >>), Form("break", << X >>),
   Form("set", << Num(1) >>), Form("set", << Form("+", << X, X >>), X >>), Form("++", << X, X >>), Form("+=", << X >>), Form("<", << X, X, X >>), Form("+", << >>),
   Form("not", << X, X >>), Form("cast", << X >>), Form("get", << X, Form("do", << X >>) >>), Form("get-in", << X, Vect(<< >>) >>), Form(".", << X >>),
   Form("nth", << X, Vect(<< >>) >>), Form("&", << X >>), Form("->", << >>), Form("->", << X, Vect(<< X >>) >>), Form("some->", << >>), Form("push", << X >>),
   Form("push0", << X, X >>), Form("alloc", << X >>), Form("vector-push", << X, Num(1) >>), Form("commit", << X >>), Form("S", << X >>),
   Form("S", << MapForm(<< X, X >>) >>), Form("sizeof", << Form("const", << >>) >>), Form("var", << X, Atom("i32") >>), Form("val", << Num(1) >>),
   MapForm(<< Key("a"), X >>), List(<< >>), List(<< Num(1) >>), Num(2^(WordBits - 1)), Form("print", << MapForm(<< X >>) >>)}
MalformedProgram(form) ==
  [Program(<< Main(<< Call("void", "f", << Lit(8) >>), Stop0 >>),
              Fn("f", << [name |-> "x", t |-> "i32"] >>, "void", << PrintI(I("x")) >>) >>)
     EXCEPT !.legal = FALSE, !.text = << form >>]

(***************************************************************************)
(* Programs on which the code does not do what it says, by name.           *)
(***************************************************************************)
OneMain(ss) == Program(<< Main(ss \o << Stop0 >>) >>)
Continued == ForC("i", Lit(0), Cmp("Lt", I("i"), Lit(3)), Inc("i"),
                  << If("void", Cmp("Eq", I("i"), Lit(1)), Continue, None), PrintI(I("i")) >>)
Odd ==
  [forc_continue |-> OneMain(<< Continued >>),
   diverging_if  |-> Program(<< Main(<< PrintI(Call("i32", "f", << Lit(1) >>)), Stop0 >>),
                                Fn("f", << [name |-> "x", t |-> "i32"] >>, "i32",
                                   << If("Unresolved", I("x"), Return("i32", Lit(1)), Return("i32", Lit(2))) >>) >>),
   let_alias     |-> OneMain(<< Var("i32", "x", Lit(1)), Let("void", "y", I("x"), << Inc("y") >>), PrintI(I("x")) >>),
   set_struct    |-> OneMain(<< Var("S", "s", StructLit(<< Lit(1), IntLit("u64", 2) >>)), Var("S", "t", StructLit(<< Lit(3), IntLit("u64", 4) >>)),
                                Set("S", S, T), Set("i32", Field(S, "a"), Lit(5)), PrintI(Field(T, "a")) >>),
   let_global    |-> OneMain(<< Let("void", "g", I("g"), << PrintI(I("g")) >>) >>),
   narrow        |-> OneMain(<< Var("u8", "x", Cast("u8", Lit(15))),
                                Call("void", "print", << Cmp("Gt", Bin("u8", "Add", Id("u8", "x"), Id("u8", "x")), Id("u8", "x")) >>) >>),
   vector_param  |-> Program(<< Main(<< Scratch("void", "s", << Var("V", "v", None), Call("void", "add", << V, Id("arena", "s") >>),
                                                               Call("void", "print", << Call("u64", "len", << V >>) >>) >>), Stop0 >>),
                                Fn("add", << [name |-> "v", t |-> "V"], [name |-> "s", t |-> "arena"] >>, "void",
                                   << DynPush(Id("arena", "s"), "v", Lit(1)) >>) >>),
   nth_negative  |-> OneMain(<< Var("A", "xs", ArrayLit(<< Lit(1), Lit(2) >>)),
                                Let("void", "q", Call("p", "nth-checked", << XS, Lit(-1) >>),
                                    << Call("void", "print", << Cmp("Eq", Id("p", "q"), IntLit("p", 0)) >>) >>) >>),
   struct_u64    |-> OneMain(<< Var("S", "s", StructLit(<< Lit(1), IntLit("u64", 2^WordBits - 1) >>)), Var("S", "t", StructLit(<< Lit(1), IntLit("u64", 4) >>)),
                                Call("void", "print", << Cmp("Lt", S, T) >>) >>),
   min_twice     |-> Program(<< Main(<< PrintI(Call("i32", "min", << Call("i32", "f", << >>), Lit(9) >>)), Stop0 >>),
                                Fn("f", << >>, "i32", << PrintI(Lit(20)), Lit(5) >>) >>),
   foreach_push  |-> OneMain(<< Scratch("void", "s", << Var("V", "v", None), DynPush(Id("arena", "s"), "v", Lit(1)),
                                ForEach("e", "", V, << PrintI(I("e")), If("void", Cmp("Eq", I("e"), Lit(1)),
                                        DynPush(Id("arena", "s"), "v", Lit(2)), None) >>) >>) >>),
   main_scratch  |-> Program(<< Main(<< Scratch("i32", "s", << Push("p", Id("arena", "s"), Lit(1)), Lit(3) >>) >>) >>),
   forc_shadow   |-> OneMain(<< Var("i32", "i", Lit(2)), ForC("i", Lit(0), Cmp("Lt", I("i"), Lit(2)), Inc("i"), << PrintI(I("i")) >>) >>),
   lane_return   |-> LoopProgram([kind |-> "lanes", deep |-> 0, around |-> 0, jump |-> "return", at |-> 1, nested |-> FALSE])]

(***************************************************************************)
(* What each back end made of the program.                                 *)
(***************************************************************************)
NoFile == [items |-> << >>, whole |-> FALSE]

Init ==
  /\ \/ "shorthand" \in Families /\ \E q \in ShorthandParams : prog = ShorthandProgram(q)
     \/ "malformed" \in Families /\ \E form \in Malformed : prog = MalformedProgram(form)
     \/ "loops"   \in Families /\ \E q \in LoopParams : prog = LoopProgram(q)
     \/ "arith"   \in Families /\ \E q \in ArithParams : prog = ArithProgram(q)
     \/ "values"  \in Families /\ \E q \in ValueParams : prog = ValueProgram(q)
     \/ "vectors" \in Families /\ \E q \in VectorParams : prog = VectorProgram(q)
     \/ "calls"   \in Families /\ \E q \in CallParams : prog = CallProgram(q)
     \/ "cache"   \in Families /\ \E q \in CacheParams : prog = CacheProgram(q)
     \/ "paths"   \in Families /\ \E q \in PathParams : prog = PathProgram(q)
     \/ "uses"    \in Families /\ \E q \in UseParams : prog = UseProgram(q)
     \/ \E o \in Families \cap DOMAIN Odd : prog = Odd[o]
  /\ hosts = << "h1", "h2" >> /\ file = NoFile
  /\ chunks = << >> /\ runs = << >> /\ heap = << >> /\ scratch = << >>
  /\ globals = [i \in DOMAIN prog.globals |-> 0]
  /\ out = << >> /\ result = Outcome("new", 0)
  /\ native = [ctl |-> "none", v |-> 0, out |-> << >>, scr |-> << >>]

Observed(n) == [ctl |-> n.ctl, v |-> IF n.ctl = "ok" THEN n.v[1] ELSE 0, out |-> n.out, scr |-> n.scr]

(* The file that is on disk: all of what was written, or the part a crash left. *)
Written(whole) ==
  \E n \in {Len(whole)} \cup (IF prog.torn THEN 0..Len(whole) ELSE {}) :
    file' = [items |-> SubSeq(whole, 1, n), whole |-> n = Len(whole)]

(***************************************************************************)
(* The program as it is written: a form for every node, with no types but  *)
(* those the language has words for.  A program of the family `shorthand`  *)
(* has the body of f written in another way.                               *)
(***************************************************************************)
TypeForm(ty) == CASE ty = "p" -> Pointer("i32") [] ty = "pS" -> Pointer("S")
                  [] ty = "A" -> Vect(<< Atom("i32"), Num(ArrayCount) >>) [] ty = "V" -> Vect(<< Atom("i32") >>)
                  [] OTHER -> Atom(ty)
OpForm(op) == CHOOSE w \in DOMAIN Operators : Operators[w] = op
UnaryForm(op) == CASE op = "Not" -> "not" [] op = "BitNot" -> "bit-not" [] OTHER -> "-"
RECURSIVE Show(_)
ShowAll(ns) == [i \in DOMAIN ns |-> Show(ns[i])]
Show(n) ==
  CASE n.k = "IntLiteral"      -> Num(n.v)
    [] n.k = "Identifier"      -> Atom(n.name)
    [] n.k \in {"Binary", "Logical"} -> Form(OpForm(n.op), << Show(n.a), Show(n.b) >>)
    [] n.k = "Unary"           -> Form(UnaryForm(n.op), << Show(n.a) >>)
    [] n.k = "BinaryCast"      -> Form("cast", << TypeForm(n.t), Show(n.a) >>)
    [] n.k = "IfExpr"          -> Form("if", << Show(n.c), Show(n.a) >> \o (IF n.b = None THEN << >> ELSE << Show(n.b) >>))
    [] n.k = "Block"           -> Form("do", ShowAll(n.body))
    [] n.k = "BreakExpr"       -> Form("break", << >>)
    [] n.k = "ContinueExpr"    -> Form("continue", << >>)
    [] n.k = "ReturnExpr"      -> Form("return", << Show(n.a) >>)
    [] n.k = "WhileExpr"       -> Form("while", << Show(n.c) >> \o ShowAll(n.body))
    [] n.k = "ForCExpr"        -> Form("for", << Vect(<< Atom(n.name), Show(n.a), Show(n.c), Show(n.b) >>) >> \o ShowAll(n.body))
    [] n.k = "ForRangeExpr"    -> Form("for", << Vect(<< Atom(n.name), Show(n.a), Show(n.b), Show(n.c) >>) >> \o ShowAll(n.body))
    [] n.k = "ForEachExpr"     -> Form("for", << Vect(<< IF n.index = "" THEN Atom(n.name) ELSE Vect(<< Atom(n.index), Atom(n.name) >>), Show(n.a) >>) >> \o ShowAll(n.body))
    [] n.k = "LetExpr"         -> Form("let", << Vect(<< Atom(n.name), Show(n.a) >>) >> \o ShowAll(n.body))
    [] n.k \in Declarations    -> Form(IF n.k = "VarDecl" THEN "var" ELSE "val",
                                       << Atom(n.name), TypeForm(n.vt) >> \o (IF n.a = None THEN << >> ELSE << Show(n.a) >>))
    [] n.k = "SetExpr"         -> Form("set", << Show(n.target), Show(n.a) >>)
    [] n.k = "ScratchExpr"     -> Form("scratch", << Vect(<< Atom(n.name) >>) >> \o ShowAll(n.body))
    [] n.k = "PushAlloc"       -> Form("push", << Show(n.a), TypeForm(ElemType(n.t)), Show(n.b) >>)
    [] n.k = "DynPush"         -> Form("vector-push", << Show(n.arena), Atom(n.name), Show(n.a) >>)
    [] n.k = "StructLiteral"   -> Form("S", ShowAll(n.args))
    [] n.k = "ArrayLiteral"    -> Vect(ShowAll(n.args))
    [] n.k = "FieldAccess"     -> Form("get", << Show(n.a), Atom(n.field) >>)
    [] n.k = "IndexAccess"     -> Form("nth", << Show(n.a), Show(n.b) >>)
    [] n.k = "UnaryDeref"      -> Form("deref", << Show(n.a) >>)
    [] n.k = "UnaryAddr"       -> Form("addr", << Show(n.a) >>)
    [] n.k = "Call"            -> Form(n.callee, ShowAll(n.args))
    [] n.k = "ParallelForExpr" -> Form("parallel-for", << Vect(<< Atom(n.name), Show(n.a) >>) >> \o ShowAll(n.body))
    [] n.k = "ParallelExpr"    -> Form("parallel", << Vect(FlattenSeq([i \in DOMAIN n.names |-> << Atom(n.names[i]), Show(n.args[i]) >>])) >>
                                                   \o ShowAll(n.body))
ShowFn(f) ==
  Form("fn", << Atom(f.name), Vect(FlattenSeq([i \in DOMAIN f.params |-> << Atom(f.params[i].name), TypeForm(f.params[i].t) >>])), TypeForm(f.ret) >>
             \o (IF f.name = "f" /\ prog.text # << >> THEN prog.text ELSE ShowAll(f.body)))
Names == [NoNames EXCEPT !.structs = [S |-> << Atom("a"), Atom("i32"), Atom("b"), Atom("u64") >>]]
FnOf(f, decl) ==
  IF DeclHasError(decl) THEN BadDecl
  ELSE [f EXCEPT !.body = decl.body, !.ret = LangType(decl.ret),
                 !.params = [i \in DOMAIN decl.params |-> [decl.params[i] EXCEPT !.t = LangType(@)]]]
Source == [i \in DOMAIN prog.fns |-> IF prog.fns[i].kind = "host" THEN prog.fns[i]
                                     ELSE FnOf(prog.fns[i], lower_fn(Names, ShowFn(prog.fns[i]).xs))]
CheckedSource(fns) == IF BadDecl \in ToSet(fns) THEN [err |-> TRUE] ELSE check_program([prog EXCEPT !.fns = fns])
Check ==
  /\ result.status = "new"
  /\ \E c \in {CheckedSource(Source)} :
       /\ result' = Outcome(IF c.err THEN "rejected" ELSE "checked", 0)
       /\ prog' = IF c.err THEN prog ELSE [prog EXCEPT !.fns = c.fns]
  /\ UNCHANGED << hosts, chunks, runs, heap, scratch, globals, out, native, file >>

Build ==
  /\ result.status = "checked"
  /\ native' = Observed(RunNativeProgram)
  /\ Written(bc_program_save(bc_compile_program("own")))
  /\ hosts' \in IF prog.torn THEN {<< "h1", "h2" >>, << "h2", "h1" >>, << "h1" >>} ELSE {hosts}
  /\ result' = Outcome("saved", 0)
  /\ UNCHANGED << prog, chunks, runs, heap, scratch, globals, out >>

Loaded(cached) == IF cached.ok THEN cached.chunks ELSE bc_compile_program("own")
Have(own) == /\ chunks' = [own |-> own, module |-> bc_compile_program("module")]
             /\ result' = Outcome(IF Compiled(own) THEN "built" ELSE "refused", 0)
LoadCached ==
  /\ result.status = "saved"
  /\ Have(Loaded(bc_program_load(file.items, MaxRegisters)))
  /\ file' = NoFile
  /\ UNCHANGED << prog, hosts, runs, heap, scratch, globals, out, native >>

Done == result.status \in {"value", "void", "trap", "fault", "abort", "refused", "rejected"}

Interpret == (Start \/ Exec) /\ UNCHANGED << prog, hosts, native, file >>
Next == Check \/ Build \/ LoadCached \/ Interpret \/ (Done /\ UNCHANGED vars)

Spec == Init /\ [][Next]_vars /\ WF_vars(Interpret)

(***************************************************************************)
(* Properties.                                                             *)
(***************************************************************************)
(* The checker accepts a program exactly if it is legal by what encloses each statement and by the
   types that meet in it, and gives every node of it the type the back ends rely on (check_program of
   checker.c on what lower.c made of the source). *)
AcceptsTheLegal ==
  [][result.status = "new" => (result'.status # "rejected" <=> prog.legal) /\ prog' = prog]_vars

(* The two back ends agree: while a script runs it has printed a beginning of what the compiled
   program prints, and when it ends it has printed all of it and returns what main returns.  A
   program that overflows a signed integer, divides by zero or follows a null pointer is excused, and
   so is a script the interpreter stopped for its depth (codegen.c against bcgen.c and bcvm.c). *)
BackendsAgree ==
  (native.ctl # "none" /\ native.ctl # "ub" /\ result.status \notin {"abort", "refused"}) =>
    /\ native.ctl = "ok"
    /\ IsPrefix(out, native.out)
    /\ Done => result.status = "value" /\ out = native.out /\ result.v = native.v

(* Every scratch scope is closed when the program is over, by whatever jump it was left
   (bc_unwind_scratch_scopes and cg_unwind_scratch_scopes). *)
ScratchBalanced ==
  /\ result.status \in {"value", "void"} => scratch = << >>
  /\ native.ctl = "ok" => native.scr = << >>

(* The cache of a script is of use and of no harm: a file that is whole, read where every host function
   it names is registered, is accepted; and the program that runs is always one the compiler made of the
   source, for the host functions registered now, a file cut short being refused (bc_program_save and
   bc_program_load of bcio.c). *)
RunsWhatWasCompiled ==
  /\ result.status = "saved" /\ file.whole /\ ToSet(NamesOf("host")) \subseteq ToSet(hosts)
       => bc_program_load(file.items, MaxRegisters).ok
  /\ result.status = "built" => chunks.own = bc_compile_program("own")

(* A script that was loaded ends, as these all do when compiled to C: no jump was left with the
   wrong target (the patches of bcgen.c).  The interpreter is a loop in the calling thread, so it takes
   its next step. *)
EveryScriptEnds == result.status = "built" ~> Done
=============================================================================
