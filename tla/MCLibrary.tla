----------------------------- MODULE MCLibrary -----------------------------
(***************************************************************************)
(* The parts of the compiler and of the runtime that stand on their own,   *)
(* on small inputs.  A run takes up one of them, which job names: either a *)
(* function, applied once to the job's input with the result in answer,    *)
(* or one of the modules with a state of their own: Numbers, the three     *)
(* data structures Arena, HashMap and HandlePool, whose calls follow each  *)
(* other in any order, and ParallelCodegen, whose lanes run side by side.  *)
(***************************************************************************)
EXTENDS Format, Numbers, Arena, HashMap, HandlePool, ParallelCodegen, TLC

CONSTANTS Parts,                                     \* the parts that are taken up
          TextLength,                                \* the texts that are read
          Templates, Fillings,                       \* the texts that are formatted
          NumberSymbols, NumberLength                \* the texts that are parsed as numbers

VARIABLES job, answer
stores == << numbers, memory, entries, poolVars, codegenVars >>
vars == << job, answer, stores >>

D == INSTANCE Declarations

ASSUME PartsAssumption == ArenaConstants /\ TableConstants

None == << >>

(***************************************************************************)
(* Texts to read: all the short ones.                                      *)
(***************************************************************************)
TextSymbols == {"(", ")", "[", "]", "a", ";", "\n", "\\", "\""}
ReadJobs == { [what |-> "read", text |-> t] : t \in UNION { [1..n -> TextSymbols] : n \in 0..TextLength } }

\* A form without its lines.
RECURSIVE Shape(_)
Shape(n) == [k |-> n.k, text |-> n.text, xs |-> [i \in 1..Len(n.xs) |-> Shape(n.xs[i])]]
Joined(root) == FlattenSeq([i \in 1..Len(root.xs) |-> fmt_render_inline(root.xs[i]) \o << " " >>])
ReadAgain(ast) == [ast |-> ast, again |-> parse_program(Joined(ast.root))]
Read ==
  /\ job.what = "read" /\ answer = None
  /\ answer' = ReadAgain(parse_program(job.text))
  /\ UNCHANGED << job, stores >>

\* A reader that knows no tokens and no tree: it remembers the open brackets
\* and writes down each leaf with those around it and its line.
Scanner0 == [mode |-> "code", open |-> << >>, ok |-> TRUE, line |-> 1, atom |-> FALSE, leaves |-> << >>]
NewLeaf(s, text) == [s EXCEPT !.leaves = Append(@, [open |-> s.open, text |-> text, line |-> s.line])]
Longer(s, c) == [s EXCEPT !.leaves[Len(s.leaves)].text = Append(@, c)]
InCode(s, c) ==
  CASE c \in Openers -> [s EXCEPT !.open = Append(@, c), !.atom = FALSE]
    [] c \in Closers -> IF s.open # << >> /\ Closer[Last(s.open)] = c THEN [s EXCEPT !.open = Front(@), !.atom = FALSE]
                        ELSE [s EXCEPT !.ok = FALSE]
    [] c = "\"" -> [NewLeaf(s, << >>) EXCEPT !.mode = "string", !.atom = FALSE]
    [] c = ";"  -> [s EXCEPT !.mode = "comment", !.atom = FALSE]
    [] c \in Spaces -> [s EXCEPT !.atom = FALSE]
    [] OTHER -> [IF s.atom THEN Longer(s, c) ELSE NewLeaf(s, << c >>) EXCEPT !.atom = TRUE]
ScanOne(s, c) ==
  CASE s.mode = "code"    -> InCode(s, c)
    [] s.mode = "comment" -> IF c = "\n" THEN [s EXCEPT !.mode = "code"] ELSE s
    [] s.mode = "escape"  -> [Longer(s, Decoded(c)) EXCEPT !.mode = "string"]
    [] c = "\""           -> [s EXCEPT !.mode = "code"]
    [] c = "\\"           -> [s EXCEPT !.mode = "escape"]
    [] OTHER              -> Longer(s, c)
Counted(s, c) == [s EXCEPT !.line = IF c = "\n" THEN @ + 1 ELSE @]
Scanned(text) == FoldLeft(LAMBDA s, c : Counted(ScanOne(s, c), c), Scanner0, text)

RECURSIVE LeavesOf(_, _)
LeavesOf(n, open) ==
  IF n.k \in {"atom", "string"} THEN << [open |-> open, text |-> n.text, line |-> n.line] >>
  ELSE FlattenSeq([i \in 1..Len(n.xs) |-> LeavesOf(n.xs[i], Append(open, OpenOf(n.k)))])
TopLeaves(root) == FlattenSeq([i \in 1..Len(root.xs) |-> LeavesOf(root.xs[i], << >>)])
AsScanned(ast, again, s) ==
  /\ ast.had_error = ~(s.ok /\ s.open = << >> /\ s.mode \in {"code", "comment"})
  /\ ~ast.had_error => /\ TopLeaves(ast.root) = s.leaves
                       /\ ~again.had_error /\ Shape(again.root) = Shape(ast.root)

\* The parser reports an error exactly when a bracket or a string is not
\* closed as it was opened; otherwise the tree holds the leaves of the text in
\* its order, at their lines and within the brackets they stood in, and what
\* the formatter prints of it on one line is read as the same tree (lexer.c,
\* parser.c and render_inline of format.c).
ReadsTheText ==
  job.what = "read" /\ answer # None => AsScanned(answer.ast, answer.again, Scanned(job.text))

(***************************************************************************)
(* Programs to format.  "~" is a gap, filled with a space but for two,     *)
(* which may have a new line or comments.                                  *)
(***************************************************************************)
Template ==
 [fn     |-> << "(","fn","~","f","~","[","~","a","~","i32","~","b","~","u64","~","]","~","i32","~","(","g","~","a","~","b","~",")","~","a","~",")","~" >>,
  struct |-> << "(","struct","~","P","~","[","~","x","~","i32","~","y","~","[","2","~","i32","~","]","~","]","~",")","~","(","val","~","a","~","1","~",")" >>,
  enum   |-> << "(","enum","~","E","~","[","~","A","~","1","~","B","~","C","~","2","~","]","~",")","~","(","val","~","a","~","1",")" >>,
  let    |-> << "(","fn","~","f","~","[","~","]","~","void","~","(","let","~","[","~","x","~","i32","~","1","~","y","~","(","g","~","x","~",")","~","]","~","(","h","~","x","~","y","~",")","~",")","~",")","~" >>,
  priv   |-> << "(","private","~","(","fn","~","f","~","[","~","a","~","i32","~","]","~","void","~","(","do","~","(","g",")","~","(","h","~",")","~",")","~",")","~",")","~" >>,
  if     |-> << "(","val","~","a","~","1","~",")","~","(","fn","~","f","~","[","a","~","i32","]","~","void","~","(","if","~","(","g","~","a","~",")","~","(","h","~","[","1","~","2","~","]","~",")","~","a","~",")","~",")","~" >>,
  map    |-> << "(","g","~","{",":x","~","1","~",":y","~","(","h","~","2","~",")","~","}","~","\"","s","\"","~",")","~" >>,
  anon   |-> << "(","fn","~","f","~","[","{",":x","~","i32","~",":y","~","i32","~","}","~","b","~","u64","~","]","~","i32","~","b","~",")","~" >>,
  pin    |-> << "(","struct","~","P","~","\"","\\","\"","s","\"","~","[","~","x","~","i32","~","y","~","i32","~","]","~",")","~" >>]
Filling ==
 [sp |-> << " " >>, nl |-> << "\n" >>, behind |-> << " ", ";", "c", "\n" >>, line |-> << "\n", ";", "d", "\n" >>]
GapsOf(t) == { i \in DOMAIN Template[t] : Template[t][i] = "~" }
Filled(j) ==
  FlattenSeq([i \in DOMAIN Template[j.t] |->
     CASE i = j.i -> Filling[j.f] [] i = j.h -> Filling[j.g] [] Template[j.t][i] = "~" -> << " " >> [] OTHER -> << Template[j.t][i] >>])
FormatJobs ==
  { j \in UNION { [what : {"format"}, t : {t}, i : GapsOf(t), f : Fillings, h : GapsOf(t), g : Fillings] : t \in Templates } :
      j.i <= j.h /\ (j.i = j.h => j.f = j.g) }

Comments(text) == LET c == fmt_scan_comments(text) IN [i \in 1..Len(c) |-> c[i].text]
Formatted(src, ast, written, back, twice) ==
  [ast |-> Shape(ast.root), back |-> Shape(back.root), had_error |-> back.had_error,
   comments |-> << Comments(src), Comments(written) >>,
   passes |-> << written, twice, fmt_program(parse_program(twice).root, twice) >>]
Format3(src, ast, written, back) == Formatted(src, ast, written, back, fmt_program(back.root, written))
Format2(src, ast, written) == Format3(src, ast, written, parse_program(written))
Format1(src, ast) == Format2(src, ast, fmt_program(ast.root, src))
\* The command formats only what was read without an error.
format_file_cmd ==
  /\ job.what = "format" /\ answer = None
  /\ ~parse_program(Filled(job)).had_error
  /\ answer' = Format1(Filled(job), parse_program(Filled(job)))
  /\ UNCHANGED << job, stores >>

\* Formatting a program in place is safe: what is written is read without an
\* error as the same program, and has the same comments in the same order,
\* wherever they stood; and it settles: a program without comments is written
\* as it was found when it is formatted again, one with comments from the
\* second time on (format.c, and the promises of its test).
FormatKeepsTheProgram ==
  job.what = "format" /\ answer # None =>
    /\ answer.ast = answer.back /\ ~answer.had_error
    /\ answer.comments[1] = answer.comments[2]
    /\ answer.passes[3] = answer.passes[2]
    /\ answer.comments[1] = << >> => answer.passes[2] = answer.passes[1]

(***************************************************************************)
(* Numbers to parse.                                                       *)
(***************************************************************************)
MCNumerals == UNION { [1..n -> NumberSymbols] : n \in 0..NumberLength }
UseNumbers == job.what = "number" /\ ParseNumber /\ UNCHANGED << job, answer, memory, entries, poolVars, codegenVars >>

(***************************************************************************)
(* Packages to declare: three structs that may embed each other, tables of *)
(* them, an alias, an enumeration, a handle pool, a global and a function. *)
(* One of the structs is packed, aligned or a union, or private.           *)
(***************************************************************************)
TypesOfP == { D!Scalar("u8"), D!Named("E"), D!Named("Q"), D!Named("R"), D!ArrayOf(D!Named("R"), 2), D!MapOf(D!Named("Q")),
              D!MapOf(D!PointerTo(D!Named("P"))), D!PointerTo(D!Named("P")), D!HandleTo("R") }
TypesOfQ == { D!Scalar("u64"), D!Scalar("string"), D!Named("P"), D!Named("R"), D!ArrayOf(D!Named("R"), 3), D!MapOf(D!Named("R")) }
TypesOfR == { D!Scalar("i32"), D!PointerTo(D!Named("Q")), D!Named("Q") }
Shapes == {"plain", "packed", "aligned", "union", "private"}
DeclareJobs ==
  [what : {"declare"}, p1 : TypesOfP, p2 : TypesOfP, q : TypesOfQ, r : TypesOfR, shape : Shapes, anon : BOOLEAN]

Shaped(d, s) ==
  CASE s = "packed" -> [d EXCEPT !.packed = TRUE] [] s = "aligned" -> [d EXCEPT !.align = 16]
    [] s = "union" -> [d EXCEPT !.union = TRUE] [] s = "private" -> [d EXCEPT !.private = TRUE] [] OTHER -> d
StructDecl(name, fields) == [D!Decl("struct", name) EXCEPT !.fields = fields]
TableDecl(t) == [D!Decl("table", "") EXCEPT !.fields = << D!Field("value", t.of[1]) >>]
TablesOf(ts) == [i \in 1..Len(SelectSeq(ts, LAMBDA t : t.k = "Map")) |-> TableDecl(SelectSeq(ts, LAMBDA t : t.k = "Map")[i])]
\* A table is made once.
Once(ds) == SelectSeq([i \in DOMAIN ds |-> [d |-> ds[i], first |-> \A j \in 1..(i - 1) : ds[j] # ds[i]]], LAMBDA x : x.first)
Uses(kind_, name, t) == [D!Decl(kind_, name) EXCEPT !.fields = << D!Field("t", t) >>]
PackageOf(j) ==
  LET P == [StructDecl("P", << [D!Field("x", j.p1) EXCEPT !.anon = j.anon], D!Field("y", j.p2) >>)
              EXCEPT !.union = j.shape = "union"]
      Q == Shaped(StructDecl("Q", << D!Field("a", D!Scalar("u8")), D!Field("z", j.q) >>), j.shape)
      R == StructDecl("R", << D!Field("v", D!Scalar("i8")), D!Field("w", j.r), D!Field("f", D!Scalar("f64")) >>)
      tables == TablesOf(<< j.p1, j.p2, j.q >>)
      ds == << Uses("alias", "A", D!Scalar("u64")) >> \o tables \o << P, Uses("fn", "f", D!Named("P")) >>
            \o << Q, [Uses("global", "g", D!ArrayOf(D!Named("P"), 2)) EXCEPT !.private = TRUE], D!Decl("pool", "R"), R, D!Decl("enum", "E") >>
      once == Once(ds)
  IN  [i \in DOMAIN once |-> once[i].d]

LayoutsOf(prog) == [i \in D!StructsOf(prog) |-> D!layout_of(prog, D!Named(prog[i].name))]
FieldNames == {"x", "y", "a", "z", "v", "w", "f"}
FieldsOf(prog) ==
  [i \in D!StructsOf(prog) |-> [n \in FieldNames |-> << D!layout_find_field(prog, prog[i], n, 0), D!find_field_recursive(prog, prog[i], n) >>]]
SlotsOf(prog) ==
  [i \in { i \in DOMAIN prog : prog[i].kind = "table" } |-> D!bc_hash_slot_layout(prog, D!Scalar("i32"), prog[i].fields[1].type)]
Compiled(prog) ==
  IF D!check_struct_cycles(prog) \/ D!check_struct_decl(prog) THEN [accepted |-> FALSE]
  ELSE [accepted |-> TRUE, file |-> D!CFile(prog), layouts |-> LayoutsOf(prog), fields |-> FieldsOf(prog), slots |-> SlotsOf(prog)]
Declare ==
  /\ job.what = "declare" /\ answer = None
  /\ answer' = Compiled(PackageOf(job))
  /\ UNCHANGED << job, stores >>

\* What the language leaves to its user: a public declaration mentions no
\* private type, and no table is part of the value it holds.
RECURSIVE Mentions(_)
Mentions(t) == IF t.of = << >> THEN {t.name} ELSE Mentions(t.of[1])
ExposesNothing(prog) ==
  \A d \in { d \in Range(prog) : ~d.private } :
    \A f \in Range(d.fields) : ~\E s \in Range(prog) : s.private /\ s.name \in Mentions(f.type)
Within(prog, ids) ==
  ids \cup UNION { UNION Range(D!DependsOn(d)) : d \in { d \in Range(prog) : d.kind \in {"struct", "table"} /\ D!Identity(d) \in ids } }
TablesEnd(prog) ==
  \A d \in { d \in Range(prog) : d.kind = "table" } :
    D!Identity(d) \notin Within(prog, Within(prog, Within(prog, Within(prog, UNION Range(D!DependsOn(d))))))

\* The C a package becomes declares every type before it is used and defines
\* it before its size is needed, in header and source taken together, whatever
\* the order in the source: a struct after those it embeds, also in arrays,
\* anonymous members and tables (cg_topo_sort_structs, cg_program_header and
\* cg_program of codegen.c).
DeclaredBeforeUse ==
  job.what = "declare" /\ answer # None =>
    (answer.accepted /\ ExposesNothing(PackageOf(job)) /\ TablesEnd(PackageOf(job)) => D!InOrder(PackageOf(job), answer.file))

SeesAsC(prog, i, layout, fields) ==
  /\ layout = D!CLayout(prog, D!Named(prog[i].name))
  /\ \A c \in D!CNames(prog, prog[i], 0) :
       fields[c[1]][1] = [found |-> TRUE, at |-> c[2], type |-> c[3]] /\ fields[c[1]][2] = c[3]
\* A slot of a table is laid out as the struct bbb_hashtable.h declares.
SlotAsC(prog, t, slot) ==
  LET fls == << D!CLayout(prog, D!Scalar("i32")), D!CLayout(prog, t), D!L(4, 4) >>
      ats == D!CAts(D!Decl("struct", ""), fls)
  IN  slot = [value |-> ats[2].lo, state |-> ats[3].lo, size |-> D!COfStruct(D!Decl("struct", ""), fls).size,
              align |-> D!COfStruct(D!Decl("struct", ""), fls).align]
\* An anonymous member is written out without its attributes.
PlainAnonymous(prog) ==
  \A d, s \in Range(prog) : \A f \in Range(d.fields) : f.anon /\ s.name = f.type.name => ~s.packed /\ s.align = 0

(***************************************************************************)
(* Enumerations, and the functions of a package.                           *)
(***************************************************************************)
EnumJobs == [what : {"enum"}, flags : BOOLEAN, variants : UNION { [1..n -> {D!Auto, 0, 1, 4}] : n \in 1..4 }]
Enumerate ==
  /\ job.what = "enum" /\ answer = None
  /\ answer' = [c |-> D!cg_enum_decl(job.variants, job.flags),
                bc |-> [i \in DOMAIN job.variants |-> D!bc_enum_variant_value(job.variants, job.flags, i)]]
  /\ UNCHANGED << job, stores >>

FnNames == { << "a" >>, << "p" >>, << "a", "?" >>, << "a", "-", "p" >>, << "a", "_", "p" >>, << "b", "_", "a" >>, << "b", "-", "a" >>, D!Main }
Fns == [name : FnNames, private : BOOLEAN, body : BOOLEAN]
NameJobs == { j \in [what : {"name"}, f : Fns, g : Fns, pkg : { << >>, << "a" >>, << "b" >> }, root : BOOLEAN] : j.f.name # j.g.name }
Symbols(fns, pkg, root) ==
  IF D!check_mangled_name_collisions(fns, pkg, root) THEN None
  ELSE [f \in fns |-> D!cg_symbol_name(fns, pkg, root, f)]
NameFunctions ==
  /\ job.what = "name" /\ answer = None
  /\ answer' = [symbols |-> Symbols({job.f, job.g}, job.pkg, job.root)]
  /\ UNCHANGED << job, stores >>

\* Bytecode and C agree on data and on names.  They lay the same types out
\* alike: sizes, alignments, the offset and type of every field that can be
\* named, those of anonymous members included, and the slots of tables.  A
\* variant of an enumeration has one value in both, and functions of a package
\* that passed the check have different C names (layout.c, bcmap.c,
\* bc_enum_variant_value and mangled_c_fn_name against what codegen.c writes).
LayoutsAgree ==
  /\ job.what = "declare" /\ answer # None =>
       (answer.accepted /\ PlainAnonymous(PackageOf(job)) =>
          /\ \A i \in D!StructsOf(PackageOf(job)) : SeesAsC(PackageOf(job), i, answer.layouts[i], answer.fields[i])
          /\ \A i \in DOMAIN answer.slots : SlotAsC(PackageOf(job), PackageOf(job)[i].fields[1].type, answer.slots[i]))
  /\ job.what = "enum" /\ answer # None => answer.c = answer.bc
  /\ job.what = "name" /\ answer # None /\ answer.symbols # None => answer.symbols[job.f] # answer.symbols[job.g]

-----------------------------------------------------------------------------
JobsOf ==
  [read |-> ReadJobs, format |-> FormatJobs, declare |-> DeclareJobs, enum |-> EnumJobs, name |-> NameJobs]
NoMemory  == kind = "vm" /\ blocks = << >> /\ current = 0 /\ scopes = << >> /\ live = {} /\ status = "idle"
NoNumbers == numeral = << >> /\ parsed = Unparsed
NoEntries == flavour = "map" /\ hash = [k \in Keys |-> 0] /\ table = EmptyTable(0) /\ ret = NoValue
NoItems   == CodegenInit /\ items = 0
NoStores  == NoNumbers /\ NoMemory /\ NoEntries /\ PoolInit /\ NoItems
Init ==
  /\ answer = None
  /\ \/ job \in UNION { JobsOf[p] : p \in Parts \cap DOMAIN JobsOf } /\ NoStores
     \/ job = [what |-> "number"] /\ NumbersInit /\ NoMemory /\ NoEntries /\ PoolInit /\ NoItems
     \/ job = [what |-> "arena"] /\ NoNumbers /\ MemoryInit /\ NoEntries /\ PoolInit /\ NoItems
     \/ job = [what |-> "table"] /\ NoNumbers /\ NoMemory /\ TablesInit /\ PoolInit /\ NoItems
     \/ job = [what |-> "handles"] /\ NoStores
     \/ job = [what |-> "codegen"] /\ NoNumbers /\ NoMemory /\ NoEntries /\ PoolInit /\ CodegenInit
  /\ job.what \in Parts
UseArena == job.what = "arena" /\ MemoryNext /\ UNCHANGED << job, answer, numbers, entries, poolVars, codegenVars >>
UseTable == job.what = "table" /\ TablesNext /\ UNCHANGED << job, answer, numbers, memory, poolVars, codegenVars >>
UseHandles == job.what = "handles" /\ PoolNext /\ UNCHANGED << job, answer, numbers, memory, entries, codegenVars >>
UseLanes == job.what = "codegen" /\ CodegenNext /\ UNCHANGED << job, answer, numbers, memory, entries, poolVars >>
\* A function has been applied, or the arena is gone; nothing else may stop.
Ended ==
  /\ answer # None \/ parsed # Unparsed \/ status \in {"aborted", "destroyed"}
  /\ UNCHANGED vars
Next ==
  \/ Read \/ format_file_cmd \/ Declare \/ Enumerate \/ NameFunctions
  \/ UseNumbers \/ UseArena \/ UseTable \/ UseHandles \/ UseLanes \/ Ended
Spec == Init /\ [][Next]_vars
=============================================================================
