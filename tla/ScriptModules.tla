---------------------------- MODULE ScriptModules ----------------------------
(***************************************************************************)
(* How a script is put together and run (script.c): the files of its       *)
(* package are read as one unit, the modules built into the program that   *)
(* it imports are compiled once per process and called across program      *)
(* boundaries, and what is left is called in the host, through a table     *)
(* that every host builds for itself and may add to.                       *)
(*                                                                         *)
(* A compiled call holds an index into the host table, not a name.  A      *)
(* module is therefore shared only between tables that agree on the        *)
(* entries there were when it was compiled.  Texts and names are those of  *)
(* Packages; an entry of a host table is [name, fn].                       *)
(***************************************************************************)
EXTENDS Packages

CONSTANTS Known,          \* g_known_modules: the texts of the modules, by name
          OsVerbs,        \* bc_os_primitive_decls: the names of the os functions, in order
          HostTables,     \* the tables hosts start with
          HostEntries,    \* what they may register later
          MaxScriptSteps  \* bound

VARIABLES files,      \* the sources, [Paths -> texts and NoFile]
          modules,    \* g_module_registry: [name, key, prog]
          hostTable,  \* the table the host passes now
          slot,       \* a script kept loaded: its program and the table it was loaded with
          cacheFile,  \* its .3bc: what it calls, by name
          ran,        \* what the last run called and should have called
          steps

NotThere == [none |-> TRUE]
HostIndex(table, name) == { i \in DOMAIN table : table[i].name = name /\ \A j \in 1 .. i - 1 : table[j].name # name }

(***************************************************************************)
(* Modules.                                                                *)
(***************************************************************************)
\* Mutant: a module is identified by its name alone.
find_by_name(reg, name, table) == { i \in DOMAIN reg : reg[i].name = name }
\* One that was compiled against the first entries of this table will do.
find_compiled_module(reg, name, table) == { i \in DOMAIN reg : reg[i].name = name /\ IsPrefix(reg[i].key, table) }

\* os has no source: its functions are declared under their qualified names.
splice_native_module_fn(f) ==
  [name |-> << "os", f >>, type |-> Builtin, uses |-> {}, private |-> FALSE, extern |-> TRUE, imported |-> TRUE, path |-> << "os", f >>]
\* The public functions of a module, without their bodies.
splice_dep_into(mod) ==
  LET fns == SelectSeq(mod.decls, LAMBDA x : ~x.private /\ ~x.imported /\ ~x.extern)
  IN  [i \in DOMAIN fns |-> [fns[i] EXCEPT !.name = qualify_name(mod.name, @), !.uses = {}, !.imported = TRUE]]

\* A call goes to a function of the program, of a module it imports, or of the
\* host, in this order; bc_compile_program gives up on a name that is none.
Bodies(decls) == { i \in DOMAIN decls : ~decls[i].extern /\ ~decls[i].imported }
ModuleTable(mods) == UNION { { x.name : x \in Range(splice_dep_into(m)) } : m \in mods }
CallTo(name, decls, mods, table) ==
  IF \E i \in Bodies(decls) : decls[i].name = name THEN [to |-> "own", name |-> name]
  ELSE IF name \in ModuleTable(mods)
  THEN [to |-> "module", at |-> (CHOOSE m \in mods : name[1] = m.name).at, name |-> Tail(name)]
  ELSE IF HostIndex(table, name) # {} THEN [to |-> "host", index |-> CHOOSE i \in HostIndex(table, name) : TRUE]
  ELSE [to |-> "nowhere"]
CodeOf(decls, mods, table) ==
  [n \in { decls[i].name : i \in Bodies(decls) } |->
     { CallTo(u, decls, mods, table) : u \in UNION { decls[i].uses : i \in { j \in Bodies(decls) : decls[j].name = n } } }]
Links(code) == \A n \in DOMAIN code : \A c \in code[n] : c.to # "nowhere"
Failed(reg) == [reg |-> reg, at |-> 0, decls |-> << >>, mods |-> {}, code |-> << >>]
Compiled(reg, decls, mods, table) ==
  IF check_program(decls) # << >> \/ ~Links(CodeOf(decls, mods, table)) THEN Failed(reg)
  ELSE [reg |-> reg, at |-> Len(reg) + 1, decls |-> decls, mods |-> mods, code |-> CodeOf(decls, mods, table)]
Registered(c, name, table) ==
  IF c.at = 0 THEN c
  ELSE [c EXCEPT !.reg = Append(@, [name |-> name, key |-> table, decls |-> c.decls, code |-> c.code])]
Module(reg, at) == [name |-> reg[at].name, decls |-> reg[at].decls, at |-> at]

RECURSIVE compile_module(_, _, _), ResolveImports(_, _, _, _, _, _), AfterModule(_, _, _, _, _, _)
\* resolve_one_import for each of the names, before the unit's own declarations.
AfterModule(c, names, spliced, mods, decls, table) ==
  IF c.at = 0 THEN Failed(c.reg)
  ELSE ResolveImports(c.reg, Tail(names), spliced \o splice_dep_into(Module(c.reg, c.at)), mods \cup {Module(c.reg, c.at)}, decls, table)
ResolveImports(reg, names, spliced, mods, decls, table) ==
  IF names = << >> THEN Compiled(reg, spliced \o decls, mods, table)
  ELSE IF Head(names) = "os"
  THEN ResolveImports(reg, Tail(names), spliced \o [i \in DOMAIN OsVerbs |-> splice_native_module_fn(OsVerbs[i])], mods, decls, table)
  ELSE AfterModule(compile_module(reg, Head(names), table), names, spliced, mods, decls, table)
OwnDecls(texts) ==
  FlattenSeq([i \in DOMAIN texts |-> [j \in DOMAIN texts[i].decls |-> Own(<< "unit", i >>, texts[i].decls[j])]])
ImportsOf(texts) == FoldLeft(LAMBDA ns, t : strip_import_forms(ns, t), << >>, texts)
\* The unit is parsed file by file, then lowered, then its imports are resolved.
CompileTexts(reg, texts, table) ==
  IF \E i \in DOMAIN texts : texts[i].fault # "none" THEN Failed(reg)
  ELSE ResolveImports(reg, ImportsOf(texts), << >>, {}, OwnDecls(texts), table)
\* What failed is not remembered: the next import tries again.
compile_module(reg, name, table) ==
  LET found == find_compiled_module(reg, name, table)
  IN  IF found # {} THEN [Failed(reg) EXCEPT !.at = CHOOSE i \in found : \A j \in found : i <= j]
      ELSE IF name \notin DOMAIN Known THEN Failed(reg)
      ELSE Registered(CompileTexts(reg, << Known[name] >>, table), name, table)

(***************************************************************************)
(* The files of a script.                                                  *)
(***************************************************************************)
\* The first three tokens tell, whatever is wrong with the rest.
peek_package_name(text) == IF text.fault = "empty" THEN "" ELSE text.pkg
TextAt(d, b) == TextOf[files[<< d, b >>]]
\* A file of a package comes with the others that say they belong to it; a
\* .3bs script and a script that is kept loaded come alone.
script_compile_unit(d, b, whole_package) ==
  LET pkg == peek_package_name(TextAt(d, b))
  IN  IF ~whole_package \/ pkg = "" THEN << TextAt(d, b) >>
      ELSE LET unit == SelectSeq(dir_list_files(files, d), LAMBDA f : f = b \/ peek_package_name(TextAt(d, f)) = pkg)
           IN  [i \in DOMAIN unit |-> TextAt(d, unit[i])]
compile_script_program(d, b, whole_package) == CompileTexts(modules, script_compile_unit(d, b, whole_package), hostTable)

(***************************************************************************)
(* Running: what a function calls in the host, directly, through other     *)
(* functions and through modules.  An index past the end of the table      *)
(* would be a call of whatever lies there.                                 *)
(***************************************************************************)
RECURSIVE HostCalls(_, _, _, _)
HostCalls(reg, code, name, table) ==
  UNION { CASE c.to = "own"    -> HostCalls(reg, code, c.name, table)
            [] c.to = "module" -> HostCalls(reg, reg[c.at].code, c.name, table)
            [] c.to = "host"   -> {IF c.index \in DOMAIN table THEN table[c.index].fn ELSE "wild"} : c \in code[name] }
Main == << "main" >>
find_chunk(c, name) == c.at # 0 /\ name \in DOMAIN c.code

(***************************************************************************)
(* What it should do, by the texts alone.                                  *)
(***************************************************************************)
Defines(texts, name) == \E i \in DOMAIN texts : \E d \in Range(texts[i].decls) : << d.name >> = name /\ ~d.extern
UsesOf(texts, name) == UNION { d.uses : d \in { e \in UNION { Range(t.decls) : t \in Range(texts) } : << e.name >> = name } }
RECURSIVE ShouldCall(_, _, _)
ShouldCall(texts, name, table) ==
  UNION { IF Defines(texts, u) THEN ShouldCall(texts, u, table)
          ELSE IF Len(u) = 2 /\ u[1] \in DOMAIN Known THEN ShouldCall(<< Known[u[1]] >>, Tail(u), table)
          ELSE {table[i].fn : i \in HostIndex(table, u)} : u \in UsesOf(texts, name) }
IsDeclared(texts, u) == \E t \in Range(texts) : \E d \in Range(t.decls) : d.extern /\ << d.name >> = u
Resolves(texts, u, table) ==
  \/ Defines(texts, u)
  \/ IsDeclared(texts, u) /\ HostIndex(table, u) # {}
  \/ /\ Len(u) = 2 /\ \E t \in Range(texts) : Contains(t.imports, u[1])
     /\ IF u[1] = "os" THEN HostIndex(table, u) # {} /\ Contains(OsVerbs, u[2])
        ELSE u[1] \in DOMAIN Known /\ \E d \in Range(Known[u[1]].decls) : d.name = u[2] /\ ~d.private /\ ~d.extern
RECURSIVE IsLegal(_, _)
IsLegal(texts, table) ==
  \A t \in Range(texts) :
    /\ t.fault = "none"
    /\ \A n \in Range(t.imports) \ {"os", BadImport} : n \in DOMAIN Known /\ IsLegal(<< Known[n] >>, table)
    /\ \A d \in Range(t.decls) : \A u \in d.uses : Resolves(texts, u, table)

(***************************************************************************)
(* The host.                                                               *)
(***************************************************************************)
ScriptInit ==
  /\ modules = << >> /\ hostTable \in HostTables
  /\ slot = NotThere /\ cacheFile = NotThere /\ ran = NotThere /\ steps = 0
Step == steps < MaxScriptSteps /\ steps' = steps + 1

\* script_run_file, by `3b run` and for every translator configuration: the
\* unit is compiled and its main called.  native is what `3b dir` would read.
NativeUnit(d) == [i \in DOMAIN dir_list_files(files, d) |-> TextAt(d, dir_list_files(files, d)[i])]
script_run_file(d, b, whole_package) ==
  /\ Step /\ files[<< d, b >>] # NoFile
  /\ \E c \in {compile_script_program(d, b, whole_package)} :
       /\ modules' = c.reg
       /\ ran' = [unit |-> IF whole_package THEN NativeUnit(d) ELSE << TextAt(d, b) >>, table |-> hostTable, ok |-> find_chunk(c, Main),
                  called |-> IF find_chunk(c, Main) THEN HostCalls(c.reg, c.code, Main, hostTable) ELSE {}]
  /\ UNCHANGED << hostTable, slot, cacheFile >>

\* script_load without a usable cache: the file alone, and its names are saved.
CallNames(reg, c, table) ==
  [n \in DOMAIN c.code |->
     { CASE x.to = "own" -> [to |-> "own", name |-> x.name]
         [] x.to = "module" -> [to |-> "module", name |-> qualify_name(reg[x.at].name, x.name)]
         [] x.to = "host" -> [to |-> "host", name |-> table[x.index].name] : x \in c.code[n] }]
script_load(d, b) ==
  /\ Step /\ files[<< d, b >>] # NoFile
  /\ \E c \in {compile_script_program(d, b, FALSE)} :
       /\ modules' = c.reg
       /\ slot' = IF c.at = 0 THEN slot ELSE [code |-> c.code, table |-> hostTable, unit |-> << TextAt(d, b) >>]
       /\ cacheFile' = IF c.at = 0 THEN cacheFile ELSE [names |-> CallNames(c.reg, c, hostTable), imports |-> ModuleTable(c.mods), unit |-> << TextAt(d, b) >>]
  /\ UNCHANGED << hostTable, ran >>

\* script_load of a cache: every name is looked up again, the modules compiled
\* for the table of this process.
HostNames(f) == UNION { { c.name : c \in { x \in f.names[n] : x.to = "host" } } : n \in DOMAIN f.names }
resolve_cached_module_import(st, name) ==
  LET c == compile_module(st.reg, name[1], hostTable)
  IN  [reg |-> c.reg, ok |-> st.ok /\ c.at # 0 /\ Tail(name) \in DOMAIN c.reg[c.at].code, ats |-> st.ats @@ (name :> c.at)]
LoadedCall(st, x) ==
  CASE x.to = "own" -> x
    [] x.to = "module" -> [to |-> "module", at |-> st.ats[x.name], name |-> Tail(x.name)]
    [] x.to = "host" -> [to |-> "host", index |-> CHOOSE i \in HostIndex(hostTable, x.name) : TRUE]
LoadCache ==
  /\ Step /\ cacheFile # NotThere
  /\ \A n \in HostNames(cacheFile) : HostIndex(hostTable, n) # {}
  /\ \E st \in {FoldLeft(resolve_cached_module_import, [reg |-> modules, ok |-> TRUE, ats |-> << >>], SetToSeq(cacheFile.imports))} :
       /\ modules' = st.reg
       /\ slot' = IF ~st.ok THEN slot
                  ELSE [code |-> [n \in DOMAIN cacheFile.names |-> { LoadedCall(st, x) : x \in cacheFile.names[n] }],
                        table |-> hostTable, unit |-> cacheFile.unit]
  /\ UNCHANGED << hostTable, cacheFile, ran >>

\* script_call: the host passes the table it loaded the script with, and may
\* have added to it.
script_call ==
  /\ Step /\ slot # NotThere /\ Main \in DOMAIN slot.code /\ IsPrefix(slot.table, hostTable)
  /\ ran' = [unit |-> slot.unit, table |-> hostTable, ok |-> TRUE, called |-> HostCalls(modules, slot.code, Main, hostTable)]
  /\ UNCHANGED << modules, hostTable, slot, cacheFile >>

bc_host_import_table_add(e) ==
  /\ Step /\ ~Contains(hostTable, e) /\ hostTable' = Append(hostTable, e)
  /\ UNCHANGED << modules, slot, cacheFile, ran >>
\* Another host in the same process: a table of its own.
NewTable(t) == Step /\ hostTable' = t /\ UNCHANGED << modules, slot, cacheFile, ran >>
\* Another process: only the cache is left.
Restart(t) == Step /\ hostTable' = t /\ modules' = << >> /\ slot' = NotThere /\ ran' = NotThere /\ UNCHANGED cacheFile

ScriptNext ==
  /\ \/ \E p \in Paths : (\E whole \in BOOLEAN : script_run_file(p[1], p[2], whole)) \/ script_load(p[1], p[2])
     \/ LoadCache \/ script_call
     \/ \E e \in HostEntries : bc_host_import_table_add(e)
     \/ \E t \in HostTables : NewTable(t) \/ Restart(t)

OnePackage(unit) == \A t, u \in Range(unit) : peek_package_name(t) = peek_package_name(u)
\* A script calls in the host what it names, through however many modules and
\* whichever table they were first compiled for; it runs exactly if the names
\* it and its modules use are there, as the package `3b dir` would compile, and
\* no module is compiled again that could have been shared (find_compiled_module
\* and script_compile_unit).  A directory of several packages is left out.
ScriptCallsArrive ==
  /\ ran # NotThere /\ OnePackage(ran.unit) =>
       /\ ran.ok <=> IsLegal(ran.unit, ran.table) /\ Defines(ran.unit, Main)
       /\ ran.ok => ran.called = ShouldCall(ran.unit, Main, ran.table)
  /\ \A i, j \in DOMAIN modules : i < j /\ modules[i].name = modules[j].name => ~IsPrefix(modules[i].key, modules[j].key)
=============================================================================
