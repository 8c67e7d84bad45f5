---------------------------- MODULE BuildDriver ----------------------------
(***************************************************************************)
(* The command line (main.c) and the build driver (build.c): `3b build`    *)
(* and `3b run` compile a package and everything it imports to C, then     *)
(* hand one script to the shell, a line for each object joined by `&&`,    *)
(* the link line last, and run what was linked.  Sources and manifest may  *)
(* change between any two steps, and every line may fail or be cut off.    *)
(*                                                                         *)
(* A manifest is the sequence of its forms, [op, value, good]; code is     *)
(* what a C file holds, << package, the texts it was made of >> or         *)
(* << C source, its content >>.  MaxEdits bounds the changes, MaxCommands  *)
(* the commands.                                                           *)
(***************************************************************************)
EXTENDS PackageFiles

CONSTANTS Upwards,     \* [Dirs -> sequences of Dirs], a directory and those above it, nearest first
          Starts,      \* what the sources may be at first
          Manifests, CSources, Edits, MaxEdits, MaxCommands

(***************************************************************************)
(* What the sources may become, and what is assumed of a compiler: its     *)
(* registry is a list, and when the root was built then so was everything  *)
(* in the registry (compile_package sets in_progress to false last, after  *)
(* the code was written).                                                  *)
(***************************************************************************)
Changes == UNION { [S -> { e[2] : e \in Edits }] : S \in SUBSET { e[1] : e \in Edits } }
FilesEver == { [p \in Paths |-> IF p \in DOMAIN c THEN c[p] ELSE s[p]] : s \in Starts, c \in Changes }
IsList(s) == Len(s) \in Nat /\ DOMAIN s = 1 .. Len(s)
WellCompiled(st) == st.at # 0 => IsList(st.registry) /\ \A i \in DOMAIN st.registry : st.registry[i].emitted
ASSUME CompileAssumption == \A f \in FilesEver, d \in Dirs : WellCompiled(Compile(f, d, FALSE, TRUE))
ASSUME ProjectsAssumption ==
  /\ \A s \in Starts : s = [p \in Paths |-> s[p]]
  /\ \A d \in Dirs : Upwards[d] \in Seq(Dirs)
  /\ \A m \in Manifests : IsList(m) /\ \A i \in DOMAIN m : m[i].op = "c-sources" => m[i].value \in CSources

VARIABLES files,       \* the sources, [Paths -> texts and NoFile]
          manifest,    \* [Dirs -> sequences of forms]
          c_files,     \* [CSources -> contents], written by hand
          output,      \* << directory, package >> -> generated code
          objects,     \* << directory, object name >> -> code
          binaries,    \* << directory, name >> -> [object names -> code]
          cmd,         \* the command that is running
          executed,    \* what the last `3b run` executed, and what it should have been
          edits, commands

sources == << files, manifest, c_files, edits >>
made == << output, objects, binaries >>
bvars == << sources, made, cmd, executed, commands >>

(***************************************************************************)
(* The manifest.                                                           *)
(***************************************************************************)
Form(op, value, good) == [op |-> op, value |-> value, good |-> good]
NoConfig == [binary |-> "", kind |-> "binary", c_sources |-> << >>, pkg_config |-> << >>, libs |-> << >>, static_libs |-> << >>,
             include_first |-> << >>, ok |-> TRUE]
handle_binary(cfg, f) == [cfg EXCEPT !.binary = f.value]
handle_kind(cfg, f) == [cfg EXCEPT !.kind = f.value]
handle_string_list(cfg, f, which) == [cfg EXCEPT ![which] = Append(@, f.value)]
handle_include_first(cfg, f) == [cfg EXCEPT !.include_first = Append(@, f.value)]
cfg_error(cfg) == [cfg EXCEPT !.ok = FALSE]
\* A form that is wrong is reported and the rest still read.
ReadForm(cfg, f) ==
  IF ~f.good THEN cfg_error(cfg)
  ELSE CASE f.op = "binary"        -> handle_binary(cfg, f)
         [] f.op = "kind"          -> handle_kind(cfg, f)
         [] f.op = "c-sources"     -> handle_string_list(cfg, f, "c_sources")
         [] f.op = "pkg-config"    -> handle_string_list(cfg, f, "pkg_config")
         [] f.op = "libs"          -> handle_string_list(cfg, f, "libs")
         [] f.op = "static-libs"   -> handle_string_list(cfg, f, "static_libs")
         [] f.op = "include-first" -> handle_include_first(cfg, f)
         [] OTHER                  -> cfg_error(cfg)
build_config_read(forms) ==
  LET After[n \in 0 .. Len(forms)] == IF n = 0 THEN NoConfig ELSE ReadForm(After[n - 1], forms[n])
  IN  After[Len(forms)]
read_manifest_if_present(d) == build_config_read(manifest[d])
\* Asked for the kind alone, what was read before an error counts.
build_config_read_kind(d) == read_manifest_if_present(d).kind

(***************************************************************************)
(* One command.                                                            *)
(***************************************************************************)
Idle == [stage |-> "idle", dir |-> NoDir, run_after |-> FALSE, pkgs |-> << >>, lines |-> << >>, link |-> "", code |-> << >>]
\* The nearest directory, here or above, that has sources.
dir_has_3b_files(d) == dir_list_files(files, d) # << >>
find_project_root(cwd) ==
  LET roots == { i \in DOMAIN Upwards[cwd] : dir_has_3b_files(Upwards[cwd][i]) }
  IN  IF roots = {} THEN NoDir ELSE Upwards[cwd][CHOOSE i \in roots : \A j \in roots : i <= j]

\* The packages whose files are written, which stay so if they or the root
\* then fail.
CodeOf(st) == { i \in DOMAIN st.registry : st.registry[i].emitted }
Code(b) == << b.name >> \o b.texts
WriteCode(d, st) == [k \in { << d, st.registry[i].name >> : i \in CodeOf(st) } |->
  Code(st.registry[CHOOSE i \in CodeOf(st) : st.registry[i].name = k[2]])]
PackageNames(st) == [i \in DOMAIN st.registry |-> st.registry[i].name]

Ended == cmd' = Idle
build_project_cmd(d, run_after, no_compile, st) ==
  IF run_after /\ build_config_read_kind(d) = "library" THEN Ended /\ UNCHANGED made
  ELSE /\ output' = Over(WriteCode(d, st), output)
       /\ UNCHANGED << objects, binaries >>
       /\ IF st.at = 0 \/ no_compile THEN Ended
          ELSE cmd' = [Idle EXCEPT !.stage = "manifest", !.dir = d, !.run_after = run_after, !.pkgs = PackageNames(st),
                                   !.code = [n \in Range(PackageNames(st)) |-> WriteCode(d, st)[<< d, n >>]]]
Compiled(d) == Compile(SourcesSeen(files, << >>), d, FALSE, TRUE)
\* The command line: `run --no-compile` is refused, and so is a command that
\* finds no package.
Command(cwd, run_after, no_compile) ==
  /\ cmd.stage = "idle" /\ commands < MaxCommands /\ commands' = commands + 1
  /\ executed' = << >>
  /\ LET d == find_project_root(cwd)
     IN  IF d = NoDir \/ (run_after /\ no_compile) THEN Ended /\ UNCHANGED made
         ELSE build_project_cmd(d, run_after, no_compile, Compiled(d))
  /\ UNCHANGED sources

\* The object of a package and of a C source is named after it alone.
CompileLine(obj, from) == [obj |-> obj, from |-> from]
PackageLines(d, pkgs) == [i \in DOMAIN pkgs |-> CompileLine(pkgs[i], << "output", pkgs[i] >>)]
RuntimeLine == << CompileLine("3b_runtime", << "runtime", "3b_runtime" >>) >>
SourceLines(cs) == [i \in DOMAIN cs |-> CompileLine(cs[i], << "c", cs[i] >>)]
pkg_config_query(cfg, found) == cfg.pkg_config = << >> \/ found
\* The manifest is read again; nothing is run before all of it is known.
build_invoke_toolchain ==
  /\ cmd.stage = "manifest"
  /\ \E found \in BOOLEAN :
       LET cfg == read_manifest_if_present(cmd.dir)
       IN  cmd' = IF ~cfg.ok \/ ~pkg_config_query(cfg, found) THEN Idle
                  ELSE [cmd EXCEPT !.stage = "script", !.lines = PackageLines(cmd.dir, cmd.pkgs) \o RuntimeLine \o SourceLines(cfg.c_sources),
                                   !.link = IF cfg.kind = "library" THEN "" ELSE IF cfg.binary # "" THEN cfg.binary ELSE DirName[cmd.dir],
                                   !.pkgs = cmd.pkgs \o << "3b_runtime" >> \o cfg.c_sources]
  /\ UNCHANGED << sources, made, executed, commands >>

ContentOf(from) ==
  CASE from[1] = "output"  -> output[<< cmd.dir, from[2] >>]
    [] from[1] = "runtime" -> << "3b_runtime" >>
    [] from[1] = "c"       -> << from[2], c_files[from[2]] >>
\* Mutant: the lines are joined by `;`, so that the next runs whatever became
\* of this one.
append_script_line_semicolon(ok) == cmd' = [cmd EXCEPT !.lines = Tail(@)]
\* A line is the next thing to run only if the one before it succeeded.
append_script_line(ok) == IF ok THEN cmd' = [cmd EXCEPT !.lines = Tail(@)] ELSE Ended
ShellCompile(ok) ==
  /\ cmd.stage = "script" /\ cmd.lines # << >>
  /\ objects' = IF ok THEN With(objects, << cmd.dir, Head(cmd.lines).obj >>, ContentOf(Head(cmd.lines).from)) ELSE objects
  /\ append_script_line(ok)
  /\ UNCHANGED << sources, output, binaries, executed, commands >>
Linked == [o \in Range(cmd.pkgs) |-> IF << cmd.dir, o >> \in DOMAIN objects THEN objects[<< cmd.dir, o >>] ELSE << >>]
\* A library has no link line; a link that fails leaves what was there.
ShellLink(ok) ==
  /\ cmd.stage = "script" /\ cmd.lines = << >>
  /\ binaries' = IF cmd.link # "" /\ ok THEN With(binaries, << cmd.dir, cmd.link >>, Linked) ELSE binaries
  /\ cmd' = IF ok /\ cmd.link # "" /\ cmd.run_after THEN [cmd EXCEPT !.stage = "run"] ELSE Idle
  /\ UNCHANGED << sources, output, objects, executed, commands >>
run_shell_script ==
  /\ cmd.stage = "run"
  /\ executed' = << binaries[<< cmd.dir, cmd.link >>], cmd.code >>
  /\ Ended
  /\ UNCHANGED << sources, made, commands >>

\* Removes output/ and the binary the manifest, or the directory, names.
build_clean(d) ==
  /\ cmd.stage = "idle" /\ commands < MaxCommands /\ commands' = commands + 1
  /\ LET cfg  == read_manifest_if_present(d)
         name == IF cfg.binary # "" THEN cfg.binary ELSE DirName[d]
     IN  /\ output' = [k \in { k \in DOMAIN output : k[1] # d } |-> output[k]]
         /\ objects' = [k \in { k \in DOMAIN objects : k[1] # d } |-> objects[k]]
         /\ binaries' = [k \in DOMAIN binaries \ {<< d, name >>} |-> binaries[k]]
  /\ executed' = << >>
  /\ UNCHANGED << sources, cmd >>

Edit ==
  /\ edits < MaxEdits /\ edits' = edits + 1
  /\ \/ \E e \in Edits : files' = [files EXCEPT ![e[1]] = e[2]] /\ UNCHANGED << manifest, c_files >>
     \/ \E d \in Dirs, m \in Manifests : manifest' = [manifest EXCEPT ![d] = m] /\ UNCHANGED << files, c_files >>
     \/ \E c \in CSources : c_files' = [c_files EXCEPT ![c] = "new"] /\ UNCHANGED << files, manifest >>
  /\ UNCHANGED << made, cmd, executed, commands >>

BuildInit(start) ==
  /\ files = start /\ manifest = [d \in Dirs |-> << >>] /\ c_files = [c \in CSources |-> "old"]
  /\ output = << >> /\ objects = << >> /\ binaries = << >>
  /\ cmd = Idle /\ executed = << >> /\ edits = 0 /\ commands = 0
BuildNext ==
  \/ Edit
  \/ \E d \in Dirs, r, n \in BOOLEAN : Command(d, r, n)
  \/ build_invoke_toolchain
  \/ \E ok \in BOOLEAN : ShellCompile(ok) \/ ShellLink(ok)
  \/ run_shell_script
  \/ \E d \in Dirs : build_clean(d)
BuildSpec == (\E start \in Starts : BuildInit(start)) /\ [][BuildNext]_bvars

-----------------------------------------------------------------------------
DistinctObjects(code) == \A n \in DOMAIN code : n \notin CSources /\ n # "3b_runtime"
\* What `3b run` executes is made of exactly the code this command generated
\* for its packages, whatever was left in output/ by commands that failed, were
\* cut off or built something else (build_invoke_toolchain, run_shell_script).
\* A C source or a package that shares its name with another, or with the
\* runtime, also shares its object file (build.c:631), so such projects are left out.
RunsWhatItBuilt ==
  executed # << >> => LET ran == executed[1] code == executed[2]
                      IN  DistinctObjects(code) => \A n \in DOMAIN code : n \in DOMAIN ran /\ ran[n] = code[n]
=============================================================================
