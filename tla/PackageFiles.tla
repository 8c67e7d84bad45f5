---------------------------- MODULE PackageFiles ----------------------------
(***************************************************************************)
(* What the tools see of packages (compiler.h, lib3b.c): the files, the    *)
(* open documents laid over them, and what the package compiler made of    *)
(* them.                                                                   *)
(*                                                                         *)
(* A path is << directory, base name >>.  What a directory is to itself    *)
(* and to the file system (its name, the directories its imports resolve   *)
(* to, links back included) is given by the constants.  A text is a record *)
(*   fault    "none", "syntax", "empty", "lower" (the lowering refuses) or *)
(*            "codegen" (a static initialiser that C has no constant for)  *)
(*   pkg      the name in its `(package name)` form                        *)
(*   imports  names in order, BadImport for a malformed form               *)
(*   decls    [name, type, private, extern, uses]                          *)
(* A name is << n >>, and << pkg, n >> when it is qualified.               *)
(*                                                                         *)
(* Compile stands for compile_all_packages, which Packages defines: the    *)
(* tools are proved correct for every compiler whose result depends on the *)
(* sources it is given, the directory, `tolerate` and `verbose` alone.     *)
(* Without `verbose` it stops after the check, as the editor wants it;     *)
(* with it, C is written too.  Its result is [registry, diags, at]: builds *)
(*   [dir, name, in_progress, emitted, imports, decls, texts,              *)
(*    had_check_error],                                                    *)
(* what was reported, and the place of the root's build in the registry, 0 *)
(* when there is none.  A build that fails stays in progress.              *)
(***************************************************************************)
EXTENDS Integers, Sequences, SequencesExt, FiniteSets, Functions

CONSTANTS Dirs,
          Bases,      \* the base names of files, in their order
          DirName,    \* the last part of a directory's path
          SubDir,     \* [Dirs -> [import names -> Dirs and NoDir]], as realpath resolves them
          NoDir, NoFile, BadImport,
          Embedded,   \* the texts of the packages built into the compiler, by name
          Texts,
          Compile(_, _, _, _)  \* compile_all_packages, of sources, directory, tolerate and verbose

Paths == Dirs \X Range(Bases)
NoText == [fault |-> "empty", pkg |-> "", imports |-> << >>, decls |-> << >>]
TextOf == Texts @@ Embedded @@ [none |-> NoText]

\* A function with one more argument or another value for it, with one less,
\* and with those of another put over its own.
With(f, x, v) == [y \in DOMAIN f \cup {x} |-> IF y = x THEN v ELSE f[y]]
Without(f, x) == [y \in DOMAIN f \ {x} |-> f[y]]
Over(g, f)    == [y \in DOMAIN f \cup DOMAIN g |-> IF y \in DOMAIN g THEN g[y] ELSE f[y]]

(***************************************************************************)
(* Files and overlays.                                                     *)
(***************************************************************************)
\* The files on disk, by name; an open file that was never saved is none of them.
dir_list_files(disk, d) == SelectSeq(Bases, LAMBDA b : disk[<< d, b >>] # NoFile)
\* Overlays are found by base name alone, in whatever directory.
overlay_lookup(overlays, b) == b \in DOMAIN overlays
\* The text of every file that is read, its overlay's if it has one.
SourcesSeen(disk, overlays) ==
  [p \in Paths |-> IF disk[p] # NoFile /\ overlay_lookup(overlays, p[2]) THEN overlays[p[2]] ELSE disk[p]]
find_package_build_by_name(st, name) == { i \in DOMAIN st.registry : st.registry[i].name = name }

(***************************************************************************)
(* What lib3b.c makes of it.                                               *)
(***************************************************************************)
Symbol(decl) == [name |-> decl.name, path |-> decl.path]
collect_toplevel_symbols(b, include_private) ==
  { Symbol(b.decls[i]) : i \in { i \in DOMAIN b.decls : include_private \/ (~b.decls[i].private /\ ~b.decls[i].imported) } }
collect_imports(st, b) ==
  [n \in Range(b.imports) |-> UNION { collect_toplevel_symbols(st.registry[i], FALSE) : i \in find_package_build_by_name(st, n) }]
CheckResult(st) ==
  [ok |-> st.at # 0, diags |-> Range(st.diags),
   symbols |-> IF st.at = 0 THEN {} ELSE collect_toplevel_symbols(st.registry[st.at], TRUE),
   imports |-> IF st.at = 0 THEN << >> ELSE collect_imports(st, st.registry[st.at])]
lib3b_check_package_with_overlays(disk, overlays, d) == CheckResult(Compile(SourcesSeen(disk, overlays), d, FALSE, FALSE))
=============================================================================
