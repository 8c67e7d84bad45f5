------------------------------ MODULE MCTools ------------------------------
(***************************************************************************)
(* The tools around the compiler for TLC: the language server with an      *)
(* editor that opens, types, saves, closes and asks, the build driver, and *)
(* hosts that run scripts.  A behaviour is one of the three, or that of an *)
(* editor that asks nothing, for which there are more files to begin with. *)
(*                                                                         *)
(* The world is a package app that imports lib (a directory below it, from *)
(* which a link leads back) and os, which is built in.                     *)
(***************************************************************************)
EXTENDS LspServer, BuildDriver, Packages

CONSTANTS Known, OsVerbs, HostTables, HostEntries, MaxScriptSteps
VARIABLES part, modules, hostTable, slot, cacheFile, ran, steps
Scripts == INSTANCE ScriptModules

Fn(name, uses) == [name |-> name, type |-> Builtin, private |-> FALSE, extern |-> FALSE, uses |-> uses]
Hidden(decl) == [decl EXCEPT !.private = TRUE]
Extern(decl) == [decl EXCEPT !.extern = TRUE]
Text(pkg, imports, decls) == [fault |-> "none", pkg |-> pkg, imports |-> imports, decls |-> decls]
Faulty(fault, text) == [text EXCEPT !.fault = fault]

MCDirs == {"app", "lib"}
MCBases == << "a.3b", "b.3b", "c.3b" >>
MCDirName == [app |-> "app", lib |-> "lib"]
MCSubDir == [app |-> [lib |-> "lib"], lib |-> [app |-> "app"]]
MCEmbedded == [os |-> Text("os", << >>, << Fn("read", {}) >>)]
MCTexts ==
  [m1 |-> Text("app", << "lib", "os" >>, << Fn("main", {<< "lib", "f" >>}), Fn("g", {<< "os", "read" >>}) >>),
   m1c |-> Text("app", << "lib", "os" >>, << Fn("main", {<< "lib", "f" >>}) >>),
   m2 |-> Faulty("syntax", Text("app", << >>, << >>)),
   m3 |-> Text("app", << "bad", "lib" >>, << Fn("main", {<< "h" >>, << "lib", "f" >>}) >>),
   m4 |-> Text("app", << >>, << Fn("main", {}) >>),
   h1 |-> Text("app", << >>, << Fn("h", {}) >>),
   l1 |-> Text("lib", << >>, << Fn("f", {}), Extern(Fn("puts", {})) >>),
   l2 |-> Text("lib", << >>, << Hidden(Fn("k", {})) >>),
   l4 |-> Faulty("codegen", Text("lib", << >>, << Fn("f", {}) >>)),
   l5 |-> Text("lib", << >>, << Fn("i", {}), Fn("j", {}) >>),
   l3 |-> Text("lib", << "app" >>, << Fn("f", {}) >>),
   s1 |-> Text("app", << "build" >>, << Fn("main", {<< "build", "sh" >>, << "h" >>}) >>),
   s2 |-> Text("app", << "config", "os" >>, << Fn("main", {<< "config", "map" >>, << "h" >>}) >>),
   s3 |-> Text("lib", << "config" >>, << Fn("main", {<< "config", "map" >>}) >>),
   s4 |-> Text("app", << "config" >>, << Fn("k", {<< "config", "map" >>}) >>)]
MCCutAt == [t \in DOMAIN MCTexts |-> IF t = "m1" THEN "m1c" ELSE t]

MCEditable == << "app", "a.3b" >> :> {"m1", "m2"} @@ << "lib", "b.3b" >> :> {"l1", "l3"}
DiskOf(fs) == fs @@ [p \in MCDirs \X Range(MCBases) |-> NoFile]
MCDisks ==
  { DiskOf(<< "app", "a.3b" >> :> "m1" @@ << "lib", "b.3b" >> :> "l1"),
    DiskOf(<< "app", "a.3b" >> :> "m3" @@ << "app", "c.3b" >> :> "h1" @@ << "lib", "a.3b" >> :> "l2" @@ << "lib", "b.3b" >> :> "l1"),
    DiskOf(<< "app", "a.3b" >> :> "m3" @@ << "lib", "b.3b" >> :> "l4" @@ << "lib", "c.3b" >> :> "l5") }
MCUpwards == [app |-> << "app" >>, lib |-> << "lib", "app" >>]
MCManifests ==
  { << Form("c-sources", "x", TRUE), Form("binary", "game", TRUE) >>,
    << Form("kind", "library", TRUE) >>,
    << Form("pkg-config", "sdl", TRUE), Form("libs", "m", TRUE), Form("static-libs", "z", TRUE), Form("include-first", "lib", TRUE) >>,
    << Form("c-sources", "lib", TRUE), Form("link", "x", TRUE) >>,
    << Form("c-sources", "lib", TRUE) >> }
MCEdits == { << << "app", "a.3b" >>, "m2" >>, << << "app", "a.3b" >>, "m4" >>, << << "lib", "b.3b" >>, "l2" >>, << << "lib", "b.3b" >>, "none" >> }
MCWorkspace == {"app", "lib"}

MCKnown ==
  [build |-> Text("build", << "os" >>, << Fn("sh", {<< "quote" >>}), Hidden(Fn("quote", {<< "os", "read" >>})) >>),
   config |-> Text("config", << "build" >>, << Extern(Fn("add", {})), Fn("map", {<< "add" >>, << "build", "sh" >>}) >>)]
MCOsVerbs == << "read", "write" >>
Entry(name, fn) == [name |-> name, fn |-> fn]
MCHostTables ==
  { << Entry(<< "os", "read" >>, "read") >>, << Entry(<< "add" >>, "add1"), Entry(<< "os", "read" >>, "read") >> }
MCHostEntries == { Entry(<< "add" >>, "add2"), Entry(<< "os", "read" >>, "other") }
MCScriptDisks ==
  { DiskOf(<< "app", "a.3b" >> :> "s1" @@ << "app", "c.3b" >> :> "h1"),
    DiskOf(<< "app", "a.3b" >> :> "s2" @@ << "app", "b.3b" >> :> "s4" @@ << "app", "c.3b" >> :> "h1" @@ << "lib", "b.3b" >> :> "s3"),
    DiskOf(<< "app", "a.3b" >> :> "m1" @@ << "app", "b.3b" >> :> "m2" @@ << "lib", "b.3b" >> :> "s3" @@ << "lib", "a.3b" >> :> "h1") }

-----------------------------------------------------------------------------
scriptVars == << modules, hostTable, slot, cacheFile, ran, steps >>
toolVars == << vars, part, bvars, scriptVars >>
NoScripts ==
  /\ modules = << >> /\ hostTable = << >> /\ slot = Scripts!NotThere
  /\ cacheFile = Scripts!NotThere /\ ran = Scripts!NotThere /\ steps = 0
MCInit ==
  /\ Init
  /\ part \in {"editor", "quiet", "build", "script"}
  /\ \/ part = "script" /\ (\E d \in MCScriptDisks : BuildInit(d)) /\ Scripts!ScriptInit
        /\ disk = CHOOSE d \in MCDisks : TRUE
     \/ part # "script" /\ (\E d \in MCDisks : BuildInit(d)) /\ NoScripts /\ files = disk
  /\ part = "editor" => disk[<< "lib", "b.3b" >>] # "l4"
  /\ part # "editor" => inbox[1].text = NoFile
MCNext ==
  /\ UNCHANGED part
  /\ \/ part = "editor" /\ EditorNext /\ UNCHANGED << bvars, scriptVars >>
     \/ part = "quiet" /\ EditorNext /\ UNCHANGED << waiting, bvars, scriptVars >>
     \/ part = "build" /\ BuildNext /\ UNCHANGED << vars, scriptVars >>
     \/ part = "script" /\ Scripts!ScriptNext /\ UNCHANGED << vars, bvars >>
     \/ Serve /\ UNCHANGED << bvars, scriptVars >>
MCSpec == MCInit /\ [][MCNext]_toolVars /\ WF_inbox(Take)

\* A script reaches the host functions it names, whatever modules it shares
\* with other scripts (ScriptModules).
ScriptCallsArrive == Scripts!ScriptCallsArrive
=============================================================================
