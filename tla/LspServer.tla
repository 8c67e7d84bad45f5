----------------------------- MODULE LspServer -----------------------------
(***************************************************************************)
(* The language server (lsp/lsp_main.c on lib3b.c) and the editor at the   *)
(* other end.  The editor holds buffers, writes them to disk, and sends    *)
(* messages; the server takes them one at a time, in order, reads what it  *)
(* needs from the open documents and from disk at that moment, and sends   *)
(* back diagnostics and answers.                                           *)
(*                                                                         *)
(* shown and waiting are what the editor made of the messages it got.      *)
(* fresh and own are history variables: the directories that were checked  *)
(* after the last change to a file or to an open document, and those of    *)
(* them on whose files no other directory had reported by then, and none   *)
(* has reported or withdrawn a report since.  MaxInbox bounds the messages *)
(* under way, MaxOpen the buffers.                                         *)
(***************************************************************************)
EXTENDS PackageFiles

CONSTANTS Editable,   \* [paths the editor opens -> names of texts it may hold]
          Workspace,  \* the directories below the root of the workspace, a set
          Requests,   \* the requests the editor sends
          CutAt,      \* [texts -> the text up to the cursor, what is open there closed]
          Disks,      \* what the files may be at first
          MaxInbox, MaxOpen, MaxWrites

Notifications == {"textDocument/didOpen", "textDocument/didChange", "textDocument/didSave", "textDocument/didClose"}
ASSUME EditorAssumption ==
  /\ DOMAIN Editable \subseteq Paths /\ Requests \cap Notifications = {}
  /\ \A p \in DOMAIN Editable : NoFile \notin Editable[p]

(***************************************************************************)
(* What the files may become, and what is assumed of a compiler: a build   *)
(* reports what a check of the same files does, up to the first package    *)
(* for which it can generate no code (compile_package goes on to codegen   *)
(* only after the check, and only when it is verbose).                     *)
(***************************************************************************)
TextsEver == (UNION { Editable[p] : p \in DOMAIN Editable }) \cup { s[p] : s \in Disks, p \in Paths }
Saves == UNION { [S -> TextsEver] : S \in SUBSET DOMAIN Editable }
DisksEver == { [p \in Paths |-> IF p \in DOMAIN w THEN w[p] ELSE s[p]] : s \in Disks, w \in Saves }
BuildResult(srcs, d) == CheckResult(Compile(srcs, d, FALSE, TRUE))
CheckOnly(srcs, d) == CheckResult(Compile(srcs, d, FALSE, FALSE))
CheckFaults(diags) == { x \in diags : x.what # "codegen" }
ChecksBeforeCodegen(build, check) ==
  /\ CheckFaults(build.diags) \subseteq check.diags
  /\ CheckFaults(build.diags) = build.diags => build.diags = check.diags
  /\ build.ok => check.ok /\ build.symbols = check.symbols
ASSUME ModesAssumption ==
  /\ \A s \in Disks : s = [p \in Paths |-> s[p]]
  /\ \A f \in DisksEver, d \in Dirs : ChecksBeforeCodegen(BuildResult(f, d), CheckOnly(f, d))

VARIABLES disk,      \* [Paths -> texts and NoFile]
          buffers,   \* the editor's open files and their texts
          inbox,     \* messages sent and not yet read by the server
          waiting,   \* requests that have no answer yet
          shown,     \* [Paths -> sets of diagnostics] on the screen
          writes,    \* how often a file was written
          docs,      \* the server's open documents
          published, \* << [dir, paths] >>, the latest directory first
          cache,     \* [dir -> [symbols, imports]] of packages that once checked
          rooted,    \* the editor named a root of the workspace
          scanned, got_shutdown, running,
          reply,     \* the last answer, [to, path, about]
          fresh, own

editor == << disk, buffers, inbox, waiting, shown, writes, reply >>
server == << docs, published, cache, rooted, scanned, got_shutdown, running >>
vars == << editor, server, fresh, own >>

(***************************************************************************)
(* The editor.                                                             *)
(***************************************************************************)
NoPath == << >>
None == [found |-> FALSE, names |-> {}]
Found(names) == [found |-> TRUE, names |-> names]
NoReply == [to |-> "", path |-> NoPath, about |-> None]
\* The editor has done with one answer when it sends again.
Send(m) == Len(inbox) < MaxInbox /\ inbox' = Append(inbox, m) /\ reply' = NoReply
Message(method, path, text) == [method |-> method, path |-> path, text |-> text]

Open(p) ==
  /\ p \notin DOMAIN buffers /\ Cardinality(DOMAIN buffers) < MaxOpen
  /\ \E t \in IF disk[p] = NoFile THEN Editable[p] ELSE {disk[p]} :
       /\ buffers' = With(buffers, p, t)
       /\ Send(Message("textDocument/didOpen", p, t))
  /\ UNCHANGED << disk, waiting, shown, writes, server, fresh, own >>
Type(p, t) ==
  /\ p \in DOMAIN buffers /\ buffers[p] # t
  /\ buffers' = [buffers EXCEPT ![p] = t]
  /\ Send(Message("textDocument/didChange", p, t))
  /\ UNCHANGED << disk, waiting, shown, writes, server, fresh, own >>
Save(p) ==
  /\ p \in DOMAIN buffers /\ writes < MaxWrites
  /\ disk' = [disk EXCEPT ![p] = buffers[p]] /\ writes' = writes + 1
  /\ Send(Message("textDocument/didSave", p, NoFile))
  /\ fresh' = {} /\ own' = {}
  /\ UNCHANGED << buffers, waiting, shown, server >>
Close(p) ==
  /\ p \in DOMAIN buffers
  /\ buffers' = Without(buffers, p)
  /\ Send(Message("textDocument/didClose", p, NoFile))
  /\ UNCHANGED << disk, waiting, shown, writes, server, fresh, own >>
\* A request may be about any file, and may lack what it should have.
Ask(r, p) ==
  /\ r \notin waiting
  /\ waiting' = waiting \cup {r}
  /\ Send(Message(r, p, NoFile))
  /\ UNCHANGED << disk, buffers, shown, writes, server, fresh, own >>
Exit ==
  /\ Send(Message("exit", NoPath, NoFile))
  /\ UNCHANGED << disk, buffers, waiting, shown, writes, server, fresh, own >>

(***************************************************************************)
(* Checking a package and publishing what was found.                       *)
(***************************************************************************)
build_overlays_for_dir(ds, d) ==
  LET mine == { p \in DOMAIN ds : p[1] = d }
  IN  [b \in { p[2] : p \in mine } |-> ds[<< d, b >>]]

DirEntry(d) == { i \in DOMAIN published : published[i].dir = d }
PublishedOf(d) == UNION { published[i].paths : i \in DirEntry(d) }
\* A directory that was never checked is put in front.
published_find_or_create(d, paths) ==
  IF DirEntry(d) = {} THEN << [dir |-> d, paths |-> paths] >> \o published
  ELSE [published EXCEPT ![CHOOSE i \in DirEntry(d) : TRUE] = [dir |-> d, paths |-> paths]]

\* Only the files of the editor's world have a screen; those of packages
\* that are built in have no file at all.
group_by_file(r, p) == { x \in r.diags : x.path = p }
Grouped(r) == { x.path : x \in r.diags }
\* Mutant: the diagnostics of a file are added to those it already has.
send_publish_adds(gone, now, r) ==
  shown' = [p \in Paths |-> IF p \in now THEN group_by_file(r, p) \cup shown[p] ELSE IF p \in gone THEN {} ELSE shown[p]]
send_publish(gone, now, r) ==
  shown' = [p \in Paths |-> IF p \in now THEN group_by_file(r, p) ELSE IF p \in gone THEN {} ELSE shown[p]]

symbol_cache_update(d, r, c) == With(c, d, [symbols |-> r.symbols, imports |-> r.imports])

\* Mutant: files that have no errors any more are not withdrawn.
check_and_publish_anew(ds, d, opened, r) ==
  LET paths == Grouped(r) \cup {opened}
  IN  /\ send_publish({}, paths, r)
      /\ published' = published_find_or_create(d, paths)
      /\ cache' = IF r.ok THEN symbol_cache_update(d, r, cache) ELSE cache
\* What was published for this directory and is no longer found is withdrawn;
\* the file it was about is always published, so that its errors disappear.
check_and_publish(ds, d, opened, r) ==
  LET paths == Grouped(r) \cup {opened}
  IN  /\ send_publish(PublishedOf(d) \ paths, paths, r)
      /\ published' = published_find_or_create(d, paths)
      /\ cache' = IF r.ok THEN symbol_cache_update(d, r, cache) ELSE cache
\* No directory but d has reported on files of d.
Alone(d) == \A i \in DOMAIN published : published[i].dir # d => \A p \in published[i].paths : p[1] # d
Disturbs(d, paths, e) == \E p \in PublishedOf(d) \cup paths : p[1] = e
CheckedNow(ds, d, paths) ==
  /\ fresh' = (IF ds = docs THEN fresh ELSE {}) \cup {d}
  /\ own' = { e \in IF ds = docs THEN own \ {d} ELSE {} : ~Disturbs(d, paths, e) } \cup { e \in {d} : Alone(d) }
handle_check_notification(ds, p) ==
  LET r == lib3b_check_package_with_overlays(disk, build_overlays_for_dir(ds, p[1]), p[1])
  IN  check_and_publish(ds, p[1], p, r) /\ CheckedNow(ds, p[1], Grouped(r) \cup {p})

(***************************************************************************)
(* The handlers.  m is the message at the head of the inbox.               *)
(***************************************************************************)
\* The editor sends its whole text with every change; the first of the
\* changes is taken.
handle_did_open(m) ==
  /\ docs' = With(docs, m.path, m.text)
  /\ handle_check_notification(docs', m.path)
  /\ UNCHANGED << waiting, reply, rooted, scanned, got_shutdown, running >>
handle_did_change(m) == handle_did_open(m)
handle_did_save(m) ==
  /\ handle_check_notification(docs, m.path)
  /\ UNCHANGED << docs, waiting, reply, rooted, scanned, got_shutdown, running >>

\* The document is forgotten and its diagnostics are withdrawn from the first
\* directory that has them; the package is not checked again.
handle_close(m) ==
  /\ docs' = Without(docs, m.path)
  /\ LET holders == { i \in DOMAIN published : m.path \in published[i].paths }
         first   == CHOOSE i \in holders : \A j \in holders : i <= j
     IN  IF holders = {} THEN UNCHANGED << shown, published >>
         ELSE /\ shown' = [shown EXCEPT ![m.path] = {}]
              /\ published' = [published EXCEPT ![first] = [dir |-> published[first].dir, paths |-> published[first].paths \ {m.path}]]
  /\ fresh' = {} /\ own' = {}
  /\ UNCHANGED << waiting, reply, cache, rooted, scanned, got_shutdown, running >>

\* Every path through a request's handler sends exactly one answer.
send_response(m, about) ==
  /\ waiting' = waiting \ {m.method}
  /\ reply' = [to |-> m.method, path |-> m.path, about |-> about]
LookingOnly == UNCHANGED << shown, docs, published, cache, rooted, scanned, got_shutdown, running, fresh, own >>

handle_initialize(m) ==
  /\ rooted' = (m.text # NoFile)
  /\ send_response(m, Found({}))
  /\ UNCHANGED << shown, docs, published, cache, scanned, got_shutdown, running, fresh, own >>

\* Hover and definition compile the package anew, open documents in place of
\* the files; the first name the file uses stands for the cursor.
compile_for_query(d) == Compile(SourcesSeen(disk, build_overlays_for_dir(docs, d)), d, FALSE, FALSE)
At(st, p) == SelectSeq(st.registry[st.at].decls, LAMBDA x : x.path = p)
Cursor(ds) == IF ds = << >> \/ ds[1].uses = {} THEN << >> ELSE CHOOSE n \in ds[1].uses : TRUE
find_toplevel_decl(st, name) == SelectSeq(st.registry[st.at].decls, LAMBDA x : x.name = name)
Defined(ds) == IF ds = << >> THEN None ELSE Found({ds[1].path})
DefinitionOf(st, p) == IF st.at = 0 THEN None ELSE Defined(find_toplevel_decl(st, Cursor(At(st, p))))
handle_definition(m) == send_response(m, DefinitionOf(compile_for_query(m.path[1]), m.path)) /\ LookingOnly
HoverOf(st, p) == IF st.at = 0 THEN None ELSE IF At(st, p) = << >> THEN None ELSE Found({Cursor(At(st, p))})
handle_hover(m) == send_response(m, HoverOf(compile_for_query(m.path[1]), m.path)) /\ LookingOnly

\* Completion compiles the open text up to the cursor, errors of the checker
\* allowed, and falls back to the last package that checked.
symbol_cache_lookup(d) == IF d \in DOMAIN cache THEN cache[d].symbols ELSE {}
symbol_cache_lookup_imports(d) == IF d \in DOMAIN cache THEN cache[d].imports ELSE << >>
NamesOf(symbols) == { x.name : x \in symbols }
lib3b_completion_context(p) ==
  CheckResult(Compile(SourcesSeen(disk, With(build_overlays_for_dir(docs, p[1]), p[2], CutAt[docs[p]])), p[1], TRUE, FALSE))
OwnNames(p, cc) == IF cc.ok THEN NamesOf(cc.symbols) ELSE NamesOf(symbol_cache_lookup(p[1]))
Completions(p, cc) == OwnNames(p, cc) \cup { << n >> : n \in DOMAIN symbol_cache_lookup_imports(p[1]) }
NoContext == [ok |-> FALSE, symbols |-> {}]
handle_completion(m) ==
  /\ send_response(m, Found(Completions(m.path, IF m.path \in DOMAIN docs THEN lib3b_completion_context(m.path) ELSE NoContext)))
  /\ LookingOnly

\* The outline of a file comes from the cache alone.
Outline(d, p) == NamesOf({ x \in symbol_cache_lookup(d) : x.path = p })
handle_document_symbol(m) == send_response(m, Found(Outline(m.path[1], m.path))) /\ LookingOnly

\* Mutant: a document that is not open gets no answer.
handle_formatting_quiet(m) ==
  /\ IF m.path \in DOMAIN docs THEN send_response(m, Found({<< docs[m.path] >>})) ELSE UNCHANGED << waiting, reply >>
  /\ LookingOnly
\* Only a document that is open, and that parses, is formatted.
handle_formatting(m) ==
  /\ send_response(m, IF m.path \notin DOMAIN docs THEN None ELSE IF TextOf[docs[m.path]].fault = "syntax" THEN None ELSE Found({<< docs[m.path] >>}))
  /\ LookingOnly

\* Once, every package below the root is checked as it is on disk.
dir_has_3b_source(d) == dir_list_files(disk, d) # << >>
discover_packages == { d \in Workspace : rooted /\ dir_has_3b_source(d) }
Scanned == [d \in discover_packages |-> lib3b_check_package_with_overlays(disk, << >>, d)]
scan_workspace_symbols(c) ==
  LET rs == Scanned
  IN  Over([d \in { d \in DOMAIN rs : rs[d].ok } |-> [symbols |-> rs[d].symbols, imports |-> rs[d].imports]], c)
handle_workspace_symbol(m) ==
  /\ scanned' = TRUE
  /\ cache' = IF scanned THEN cache ELSE scan_workspace_symbols(cache)
  /\ send_response(m, Found(UNION { NamesOf(cache'[d].symbols) : d \in DOMAIN cache' }))
  /\ UNCHANGED << shown, docs, published, rooted, got_shutdown, running, fresh, own >>
handle_shutdown(m) ==
  /\ got_shutdown' = TRUE
  /\ send_response(m, None)
  /\ UNCHANGED << shown, docs, published, cache, rooted, scanned, running, fresh, own >>
handle_exit(m) ==
  /\ running' = FALSE
  /\ UNCHANGED << waiting, shown, reply, docs, published, cache, rooted, scanned, got_shutdown, fresh, own >>
\* A method the server does not know is refused.
send_error_response(m) == send_response(m, None) /\ LookingOnly

handle_message(m) ==
  CASE m.method = "initialize"                  -> handle_initialize(m)
    [] m.method = "textDocument/didOpen"        -> handle_did_open(m)
    [] m.method = "textDocument/didChange"      -> handle_did_change(m)
    [] m.method = "textDocument/didSave"        -> handle_did_save(m)
    [] m.method = "textDocument/didClose"       -> handle_close(m)
    [] m.method = "textDocument/hover"          -> handle_hover(m)
    [] m.method = "textDocument/definition"     -> handle_definition(m)
    [] m.method = "textDocument/completion"     -> handle_completion(m)
    [] m.method = "textDocument/documentSymbol" -> handle_document_symbol(m)
    [] m.method = "textDocument/formatting"     -> handle_formatting(m)
    [] m.method = "workspace/symbol"            -> handle_workspace_symbol(m)
    [] m.method = "shutdown"                    -> handle_shutdown(m)
    [] m.method = "exit"                        -> handle_exit(m)
    [] OTHER                                    -> send_error_response(m)
\* Only the server takes messages out of the inbox.
Take == running /\ inbox # << >> /\ inbox' = Tail(inbox)
Serve ==
  /\ Take
  /\ handle_message(Head(inbox))
  /\ UNCHANGED << disk, buffers, writes >>

-----------------------------------------------------------------------------
Init ==
  /\ disk \in Disks
  /\ buffers = << >> /\ writes = 0
  /\ \E r \in {"root", NoFile} : inbox = << Message("initialize", NoPath, r) >>
  /\ waiting = {"initialize"} /\ reply = NoReply
  /\ shown = [p \in Paths |-> {}]
  /\ docs = << >> /\ published = << >> /\ cache = << >>
  /\ rooted = FALSE /\ scanned = FALSE /\ got_shutdown = FALSE /\ running = TRUE /\ fresh = {} /\ own = {}
EditorNext ==
  /\ running /\ "initialize" \notin waiting
  /\ \/ \E p \in DOMAIN Editable : Open(p) \/ Save(p) \/ Close(p) \/ \E t \in Editable[p] : Type(p, t)
     \/ \E r \in Requests, p \in DOMAIN Editable : Ask(r, p)
     \/ Exit
Next == EditorNext \/ Serve
Spec == Init /\ [][Next]_vars /\ WF_inbox(Take)

-----------------------------------------------------------------------------
\* What `3b build` reports of the files.
BuildOnDisk(d) == BuildResult(SourcesSeen(disk, << >>), d)
Saved(d) == \A p \in DOMAIN docs : p[1] = d => docs[p] = disk[p]

\* A file is never left with diagnostics on the screen that the server has
\* forgotten: whatever is shown can still be withdrawn (check_and_publish,
\* handle_close).
NoGhostDiagnostics == \A p \in Paths : shown[p] # {} => \E i \in DOMAIN published : p \in published[i].paths

NoClash(d) == \A p \in DOMAIN docs : p[1] = d => \A q \in Dirs \ {d} : disk[<< q, p[2] >>] = NoFile
\* Once the server has checked a package after the last change, and what is
\* open of it is saved, the editor shows for its files all that a build of the
\* same files reports but for the faults code generation finds; exactly that if
\* it finds none; and if the build succeeds, the symbols kept for the package
\* are those of these files (check_and_publish, the overlays and the two modes
\* of compiler.c, symbol_cache_update).  What a build prints that is of no file,
\* such as an import cycle, is no diagnostic and reaches no editor.
\* Overlays are matched by base name in imported packages too (compiler.h), so
\* files that share their base name with an open one are left out; and what the
\* check of one package says of another's files is withdrawn only by the next
\* check of the first, so files that two packages report on are left out.
EditorAndBuildAgree ==
  \A d \in fresh : Saved(d) /\ NoClash(d) =>
    LET r == BuildOnDisk(d)
    IN  /\ d \in own => \A b \in Range(Bases) :
             /\ CheckFaults(group_by_file(r, << d, b >>)) \subseteq shown[<< d, b >>]
             /\ CheckFaults(r.diags) = r.diags => shown[<< d, b >>] = group_by_file(r, << d, b >>)
        /\ r.ok => d \in DOMAIN cache /\ cache[d].symbols = r.symbols

\* Every request is answered, unless the editor makes the server exit first
\* (handle_message).
EveryRequestAnswered == \A r \in Requests : r \in waiting ~> r \notin waiting \/ ~running
=============================================================================
