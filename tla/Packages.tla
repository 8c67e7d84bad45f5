------------------------------ MODULE Packages ------------------------------
(***************************************************************************)
(* The package compiler (compiler.c): a package is a directory, its files  *)
(* are read together, and it imports the packages in its sub-directories,  *)
(* each of which is compiled once.  What lexer, parser, lowering and       *)
(* checker do to a text is modelled on its own (see Reader, Lower and      *)
(* Checker); here they say where they find fault.                          *)
(***************************************************************************)
EXTENDS PackageFiles

CONSTANT MaxForms  \* how many forms a package may have: max_u16

(***************************************************************************)
(* Reading one package.                                                    *)
(***************************************************************************)
Source(env, d, b) == TextOf[env.sources[<< d, b >>]]

Diag(path, what) == [path |-> path, what |-> what]
UnknownFile == << NoDir, NoFile >>
validate_and_strip_package_form(text, name) == text.pkg = name

\* A malformed import is reported and otherwise left out.
strip_import_forms(names, text) ==
  FoldLeft(LAMBDA ns, n : IF n = BadImport \/ Contains(ns, n) THEN ns ELSE Append(ns, n), names, text.imports)

Own(path, decl) == [name |-> << decl.name >>, type |-> decl.type, uses |-> decl.uses, private |-> decl.private, extern |-> decl.extern, imported |-> FALSE, path |-> path]
\* What is read of one file: r is what was read of those before it, bad and
\* static what lowering and code generation will say of them.
ReadFile(r, path, text, name) ==
  CASE text.fault = "empty"  -> [r EXCEPT !.error = TRUE]
    [] text.fault = "syntax" -> [r EXCEPT !.error = TRUE, !.diags = Append(@, Diag(path, "syntax"))]
    [] ~validate_and_strip_package_form(text, name) -> [r EXCEPT !.error = TRUE, !.diags = Append(@, Diag(path, "package"))]
    [] OTHER -> [r EXCEPT !.imports = strip_import_forms(@, text),
                          !.diags = IF Contains(text.imports, BadImport) THEN Append(@, Diag(path, "import")) ELSE @,
                          !.lower = @ \/ text.fault = "lower",
                          !.bad = IF text.fault = "lower" THEN Append(@, Diag(path, "lower")) ELSE @,
                          !.static = IF text.fault = "codegen" THEN Append(@, Diag(path, "codegen")) ELSE @,
                          !.decls = @ \o [i \in DOMAIN text.decls |-> Own(path, text.decls[i])]]
Nothing == [diags |-> << >>, error |-> FALSE, imports |-> << >>, decls |-> << >>, lower |-> FALSE, bad |-> << >>, static |-> << >>]
ReadFiles(env, d, bases, name) == FoldLeft(LAMBDA r, b : ReadFile(r, << d, b >>, Source(env, d, b), name), Nothing, bases)

(***************************************************************************)
(* What an importer sees: the public declarations of its direct imports,   *)
(* under their qualified names and without their bodies.                   *)
(***************************************************************************)
qualify_name(pkg, name) == << pkg >> \o name
\* What a package only declares, it does not pass on.
PublicDecls(dep) == SelectSeq(dep.decls, LAMBDA x : ~x.private /\ ~x.imported /\ ~x.extern)
is_own_public_toplevel_name(dep, name) == \E i \in DOMAIN PublicDecls(dep) : PublicDecls(dep)[i].name = name
requalify_type_for_import(dep, type) == IF is_own_public_toplevel_name(dep, type) THEN qualify_name(dep.name, type) ELSE type
splice_public_decl(dep, decl) ==
  [decl EXCEPT !.name = qualify_name(dep.name, @), !.type = requalify_type_for_import(dep, @), !.uses = {}, !.imported = TRUE]
Splice(deps) == FlattenSeq([i \in DOMAIN deps |-> [j \in DOMAIN PublicDecls(deps[i]) |-> splice_public_decl(deps[i], PublicDecls(deps[i])[j])]])

\* A declaration is in error when it names what is not there.
Builtin == << "i32" >>
Wanted(decl) == (decl.uses \cup {decl.type}) \ {Builtin}
Unresolved(decls) == SelectSeq(decls, LAMBDA x : ~(Wanted(x) \subseteq { decls[i].name : i \in DOMAIN decls }))
check_program(decls) == [i \in DOMAIN Unresolved(decls) |-> Diag(Unresolved(decls)[i].path, "check")]

(***************************************************************************)
(* A package and everything it imports.  st is the registry and what has   *)
(* been reported; a build is                                               *)
(*   [dir, name, in_progress, emitted, imports, decls, texts,              *)
(*    had_check_error],                                                    *)
(* and stays in progress when it fails.  emitted: its .h and .c are        *)
(* written.  at is the build's place in the registry, 0 when there is none.*)
(***************************************************************************)
Fail(st) == [st EXCEPT !.at = 0]
find_package_build(st, canonical) == { i \in DOMAIN st.registry : st.registry[i].dir = canonical }
IsEmbedded(canonical) == canonical \in DOMAIN Embedded
NameOf(canonical) == IF IsEmbedded(canonical) THEN canonical ELSE DirName[canonical]
\* A package that has no directory may be built in; nothing is inside one that is.
Canonical(d, name) ==
  IF ~IsEmbedded(d) /\ name \in DOMAIN SubDir[d] /\ SubDir[d][name] # NoDir THEN SubDir[d][name]
  ELSE IF name \in DOMAIN Embedded THEN name ELSE NoDir

TextsOf(env, d, bases) == IF IsEmbedded(d) THEN << d >> ELSE [i \in DOMAIN bases |-> env.sources[<< d, bases[i] >>]]
ReadPackage(env, d, bases) ==
  IF IsEmbedded(d) THEN ReadFile(Nothing, << d, "embedded" >>, Embedded[d], d) ELSE ReadFiles(env, d, bases, DirName[d])
NewBuild(env, d, bases) ==
  [dir |-> d, name |-> NameOf(d), in_progress |-> TRUE, emitted |-> FALSE, imports |-> << >>, decls |-> << >>, texts |-> TextsOf(env, d, bases), had_check_error |-> FALSE]
Pushed(st, b) == [registry |-> Append(st.registry, b), diags |-> st.diags, at |-> Len(st.registry) + 1]
Reported(st, ds) == [st EXCEPT !.diags = @ \o ds]

Finish(st, at, decls, errors, deps) ==
  [st EXCEPT !.at = at, !.registry[at].in_progress = FALSE, !.registry[at].decls = decls,
             !.registry[at].imports = deps, !.registry[at].had_check_error = errors # << >>]
\* Header and source are written to their end, whatever is found on the way.
Generated(st, at, static) == Reported([st EXCEPT !.registry[at].emitted = TRUE], static)
\* Only a verbose compile generates code; a fault it finds fails the package.
Checked(env, st, at, read, decls, errors, deps) ==
  IF errors # << >> /\ ~env.tolerate THEN Fail(st)
  ELSE IF ~env.verbose THEN Finish(st, at, decls, errors, deps)
  ELSE IF read.static # << >> THEN Fail(Generated(st, at, read.static))
  ELSE Finish(Generated(st, at, << >>), at, decls, errors, deps)
CheckedWith(env, st, at, read, decls, errors, deps) == Checked(env, Reported(st, errors), at, read, decls, errors, deps)
Check(env, st, at, read, decls, deps) == CheckedWith(env, st, at, read, decls, check_program(decls), deps)
DepsOf(st, deps) == [i \in DOMAIN deps |-> st.registry[deps[i]]]
\* Too many forms are reported of no file.
LowerAndCheck(env, st, at, read, deps) ==
  IF Len(read.decls) > MaxForms THEN Fail(Reported(st, << Diag(UnknownFile, "forms") >>))
  ELSE IF read.lower THEN Fail(Reported(st, read.bad))
  ELSE Check(env, st, at, read, Splice(DepsOf(st, deps)) \o read.decls, [i \in DOMAIN deps |-> st.registry[deps[i]].name])

RECURSIVE compile_package(_, _, _), CompileImports(_, _, _, _, _, _), AfterImport(_, _, _, _, _, _), CompileRead(_, _, _, _, _)
\* Its imports first, in the order of the forms; the first that fails ends it.
AfterImport(env, st, at, read, i, deps) ==
  IF st.at = 0 THEN st ELSE CompileImports(env, st, at, read, i + 1, Append(deps, st.at))
CompileImports(env, st, at, read, i, deps) ==
  IF i > Len(read.imports) THEN LowerAndCheck(env, st, at, read, deps)
  ELSE AfterImport(env, compile_package(env, st, Canonical(st.registry[at].dir, read.imports[i])), at, read, i, deps)
CompileRead(env, st, d, bases, read) ==
  IF bases = << >> /\ ~IsEmbedded(d) THEN Fail(st)
  ELSE IF read.error THEN Fail(Reported(st, read.diags))
  ELSE CompileImports(env, Reported(st, read.diags), st.at, read, 1, << >>)
Compiling(env, st, d, bases) == CompileRead(env, Pushed(st, NewBuild(env, d, bases)), d, bases, ReadPackage(env, d, bases))
compile_package(env, st, d) ==
  IF d = NoDir THEN Fail(st)
  ELSE IF find_package_build(st, d) # {} THEN
    LET i == CHOOSE i \in find_package_build(st, d) : TRUE
    IN  IF st.registry[i].in_progress THEN Fail(st) ELSE [st EXCEPT !.at = i]
  ELSE IF find_package_build_by_name(st, NameOf(d)) # {} THEN Fail(st)
  ELSE Compiling(env, st, d, IF IsEmbedded(d) THEN << >> ELSE dir_list_files(env.sources, d))

compile_all_packages(sources, d, tolerate, verbose) ==
  compile_package([sources |-> sources, tolerate |-> tolerate, verbose |-> verbose], [registry |-> << >>, diags |-> << >>, at |-> 0], d)
=============================================================================
