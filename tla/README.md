# Verification of 3b

TLA+ models of 3b: the compiler from source text to C and to bytecode, the
interpreter with its caches, the runtime of compiled programs, and the tools
around them. TLC checks them on small instances (`*.cfg`); TLAPS proves the
main safety properties of the concurrent parts, of reloadable scripts, of the
runtime library, the language server and the build driver for every value of
the constants (`*Proofs.tla`).

    tlc -workers 2 -config LanePool.cfg LanePool
    tlc -workers 2 -config MCExec.cfg MCExec
    tlapm LanePoolProofs.tla

`PROJECT.json` lists the components, the runs with their properties, a mutant
of the code for each property, the source lines behind each definition, the
hazards the properties are aimed at, and the theorems.

## The system

3b compiles a Lisp-flavoured systems language to C. A second back end compiles
it to bytecode, for build scripts, for values shown in the editor and for
scripts that a running program reloads.

| Part | Source | State and operations | What is hard |
|---|---|---|---|
| Lane pool | `runtime/bbb_thread.c`, `base/base.c` | Atomics for a phase's generation, function and done count, a mutex, two condition variables; start a phase, wait for it, shut down | Threads, timed waits, wakeups, captures on a stack that goes away |
| Barrier, collectives | the same files | Waiter count, 32-bit generation, one broadcast buffer | Fast lanes that come round again, wrap, plain loads and stores |
| Lane ranges, parallel code generation | `bbb_lane_range`, `codegen.c` | A range of items and a text for each lane | Uneven divisions, lanes that finish in any order |
| Handle pools | `runtime/bbb_handle.h` | Generations, free list, objects; alloc, deref, valid?, free | Handles outlive their objects |
| Reloadable scripts | `script.c` | Slots, `.3bc` cache and its mapping, registry of compiled modules; load, call, poll, unload | Files edited while they are read, crashes while the cache is written, modules compiled against one host table and run with another |
| Bytecode files | `bcio.c` | Save, load, patch, verify | Files cut short or from another host |
| Interpreter | `bcvm.c` | Frames, register windows, heap, scratch arena, traps | Limits, what a trap leaves behind |
| Bytecode compiler | `bcgen.c` | Registers, locals, jump patches, scratch scopes | Cleanup on each way out of a scope; agreement with C |
| C generator | `codegen.c` | Names in scope, open scratch scopes, order of declarations | The same; what C leaves undefined |
| Lexer, parser, lowering, checker | `lexer.c`, `parser.c`, `atom.c`, `lower.c`, `checker.c` | Tokens, forms, nodes, scopes | Recovery after errors, shorthands, scoping rules |
| Struct layout | `layout.c` | Sizes, alignments, offsets | Must be what the C compiler does |
| Formatter | `format.c` | Lines and comments; rewrites files in place | A comment swallows what is put after it |
| Hash tables, arenas | `bcmap.c`, `bbb_hashtable.h`, `base/`, `bbb_arena.c` | Open addressing with tombstones; marks in a range or a list of blocks | Long histories, limits |
| Package compiler | `compiler.c` | Memoised packages, overlays of unsaved files | Cycles, failures half-way |
| Build driver | `build.c`, `main.c` | C files, objects, binaries, manifest | Lines of a shell script that fail, sources that change meanwhile |
| Language server | `lsp/`, `lib3b.c` | Open documents, published diagnostics, symbol caches | Order of messages, documents out of step with the disk |
| Header translation | `translate/`, `bcconfigprims.c` | Captured declarations, configuration, emitted wrappers | What compiles and means something else |
| Os package | `native_pkgs/os`, `bbb_file.c`, `bbb_os.c`, `bcosprims.c` | Streams and files, once for C and once for scripts | Two implementations of one promise |

How they interact: lowering and checking feed both back ends and the editor's
questions; `codegen.c` emits the calls of the lane pool around a `parallel`
block and runs a phase of its own; handle builtins become calls of a pool;
`script.c` drives front end, bytecode compiler, cache and interpreter; the
language server and the command line drive `compiler.c`; `build.c` interprets
manifests, `translate/` configurations, through scripts.

## Modules

| Module | Models |
|---|---|
| `LanePool`, `ForkJoin` (abstract), `LanePoolProofs` | The pool, one step per access to shared memory; fork and join; the proofs |
| `LaneBarrier`, `AbstractBarrier` (abstract), `LaneBarrierProofs` | `bbb_barrier_wait` |
| `LaneCollectives`, `LaneCollectivesProofs` | `lane_sync_u64`, `lane_reduce_sum_u64` over the abstract barrier |
| `ParallelCodegen`, `ParallelCodegenProofs` | `bbb_lane_range`, and `cg_program_defs_parallel` over `ForkJoin` |
| `HandlePool`, `HandleTable` (abstract), `HandlePoolProofs` | `bbb_DEFINE_HANDLE_POOL` |
| `ScriptReload`, `ScriptReloadProofs` | Slots, caches, editor, crashes |
| `Lang` | The typed program between the phases: nodes, types, widths |
| `Lower`, `Checker` | `lower.c`, `checker.c` |
| `BcGen`, `BcVm` | `bcgen.c`; `bcvm.c` and the files of `bcio.c` |
| `CodeGen`, `CSem` | `codegen.c`, and the meaning of the C it writes (external) |
| `MCExec` | Composes the five lines above: lower, check, compile twice, cache, load, run |
| `Reader`, `Format`, `Numbers`, `Declarations` | Lexer, parser, atoms; formatter; number parsing; layouts, order of declarations, enum values, C names |
| `HashMap`, `AbstractMap` (abstract) | The three hash tables |
| `Arena` | The two kinds of arena |
| `MCLibrary` | Inputs and properties of the three lines above; runs them, `HandlePool` and `ParallelCodegen` |
| `RuntimeProofs` | Proofs about `Arena`, `HashMap`, `OsVerbs` and `Numbers` |
| `PackageFiles` | The files of a workspace, overlays, what a check of a package reports; the package compiler is a parameter, `Compile` |
| `Packages` | `compiler.c`, the value MCTools gives to `Compile` |
| `LspServer`, `BuildDriver` | On top of `PackageFiles`: server and editor; `build.c` and `main.c` |
| `ScriptModules` | On top of `Packages`: units, imports and the registry of `script.c` |
| `MCTools` | A small world of packages for those three |
| `ToolsProofs` | Proofs about `LspServer` and `BuildDriver` |
| `TranslateConfig`, `HeaderWalk`, `Translate` | `config.c`, `rename.c`, `bcconfigprims.c`; `cwalk.c`; `emit.c`, `translate.c` |
| `OsVerbs`, `EditorText`, `Queries` | The os package twice; JSON, framing, URIs, positions, command words; what the editor asks about a place |
| `MCInterop` | Inputs and properties of the two lines above |

### Threads

`LanePool`: the atomics are variables of the same meaning (`generation` is
`g_phase_generation`, `completed` is `g_completed_generation`), the mutex is its
owner, a condition variable the set of its sleepers. Main goes round
`EnterParallel ... LeaveParallel`, then `RaiseExit ... Released`; a lane goes
round `LaneLock ... LaneSignalDone`. All atomics of the code are sequentially
consistent, so interleaving is the memory model. Only `base.c` has the
shutdown; the model has it. A phase's captures are its number, which is
enough to tell a stale one.

`LaneBarrier`: a critical section is one step, except that waiting gives the
mutex up; `GenSize` stands for 2^32; waits may wake without reason.
`LaneCollectives`: each access to the buffer is a step between the barriers it
lies between in the code. `ParallelCodegen`: a lane writes one item per step
into its own text; when the pool has joined, main writes the texts out, one
cell per step.

### Handles

`free_list` is a sequence popped at its end; the history (`issued`, `alive`,
`frees`) is beside it to state what handles promise. A program may use any
handle it was ever given, and the null handle. After 2^32 frees of a slot an
old handle is accepted again: the properties are stated for pools in which
that does not happen (`MaxFrees < GenSize`), and fail without it.

### Reloadable scripts

`ScriptReload`: one host thread makes one call at a time; an editor and a crash
may come between any two of its steps. A load or reload goes through `cache`,
`compile`, `save`, `write`, `replace` and `install`, one step per access to the
file system. A write ends whole (`SaveWrite`), is refused by a full disk
(`SaveFails`), or loses its end when the file is closed (`SaveWriteShort`):
`file_store` does not look at what `fclose` returns (`file.c:65-67`), takes the
short file for written, and the rename puts it in the place of the good cache.
`OldCacheStays`, the promise of `script.c:1058-1060`, is violated by that (run
`script_disk`); `CacheHoldsItsSource` says what is kept of it, when the process
crashes or a write is seen to fail. A short cache is refused by the next load,
which `RunsWhatWasCompiled` of `MCExec` is about. A crash is one of the process;
what a power loss does to a file system is left out. A content stands for its
hash; collisions of the 64-bit hash are left out. `raced` is a history variable:
the file changed between the two reads of one call (one hashed, one compiled). It is the premise of
`CacheHoldsItsSource` and `ReloadConverges`, both of which fail without it (see
the last section).

`ScriptModules` has what happens inside `compile` and `call`: the files of a
unit, the imports, the modules shared by all hosts whose tables agree, cached
imports, and tables that grow between load and call.

### From text to a run

`MCExec` starts from a program as written (forms). `Check` lowers and checks it,
`Build` compiles it to C and runs that, compiles it to bytecode and writes the
cache, which a crash may cut; `LoadCached` is another process with the host
functions in another order, which runs the cached program or compiles again;
`Start` and `Exec` run bytecode one instruction per step. Programs come in ten
families, each a template with parameters: loops left by each jump, arithmetic
at the edges of the widths, values copied and passed, growable arrays, calls,
caches, nested scopes, types that meet, shorthands, malformed forms. Words have
11, ints 6, bytes 4 bits. Programs on which the back ends are known to disagree
are in `Odd`, one program each; they are not in the families of the passing
run, and the last section names them.

`CSem` gives C's undefined behaviour as its own outcome (`ub`): a program that
overflows or follows a null pointer natively says nothing about the bytecode.

### The parts on their own

`MCLibrary` takes up one part per behaviour. A function is applied to each
small input: all texts of up to four symbols (`read`), templates filled with
spaces, line breaks and comments in every place (`format`), all numerals of
four symbols, small packages of structs, tables, enums and aliases. Arena and
hash table take calls in any order. In `Numbers`, `Limit64` and `Limit32` stand
for the code's literals 2^63 and 2^31, `MaxDigits` for its 20 digits.
`NumbersFit` is the promise of `bbb_string.h:69-73`, that what does not fit is
refused; the test for overflow misses numerals that wrap without getting
smaller (`WrapsUnseen`), and the run `numbers` shows one. `NumbersParse` is the
same for all other texts. In `Arena`, `BlockAlign` is the 16 to which the
header of a heap block is rounded up and `malloc` aligns: an alignment that
does not divide it is refused only by an assertion of debug builds, and left
out. `arena_no_block` is a `malloc` that has no block to give: a first push
then follows the null pointer, a later one returns NULL.

Handle pool and parallel code generator, each with an instance of its own, are
two more parts of this run.

### Tools

`LspServer`: the editor opens, types, saves, closes and asks; the server takes
messages in order and reads documents and disk at that moment. Two history
variables say what its answers may be compared with: `fresh`, the directories
checked since the last change, and `own`, those of them on whose files no check
of another package has reported since, nor withdrawn a report.

The package compiler has two modes. An editor's check stops after the checker
(`compiler.c:683`); a build is verbose and goes on to generate the package's code
(686-727), which may report faults of its own and fail the package. `Compile`
takes the mode as an argument, `BuildOnDisk` is what a build of the saved files
gives, and `CheckFaults` are those of its diagnostics that are not of code
generation. So the editor does not always show what a build reports:
`EditorAndBuildAgree` says that it shows everything but the faults of code
generation, and exactly the same if there are none. What a build prints itself
(a cycle, a missing package, a name taken twice, a directory without files) is
not a diagnostic and reaches no editor. `MaxForms` stands for the 65535 forms a
package may have (`compiler.c:593`). That `output/` can be opened and written to
its end is a premise, as is that editor and build take the same directory for
the root of a package (`main.c`, `lib3b.c:199`).

`BuildDriver`: a command compiles, then hands one script to the shell, a line per object;
sources and manifest may change between any two steps, and each line may fail
or be cut off. `Starts` is what the sources may be at first, `Upwards` the
directories above each, in which the root of a project is looked for. The world
of `MCTools` is a package that imports a directory below it, from which a link
leads back, and the built-in `os`. In the part `quiet` the editor works on a
third disk, on which the imported package does not come through code
generation, and sends notifications only.

### Borders

`Translate` writes the package for a small header; `MCInterop` compares it with
the C it stands for: layouts, constants, and for each function what reaches C
when the wrapper is called. Variadic function pointers, arrays without a size,
and macros that are negative or hexadecimal, also inside a call, are among the
inputs; left out are octal macros, negated unsigned ones (`-1U`)
and enumerators past the range of i64. `ConfigsAgree` compares the file and the script way
of configuring. `OsVerbs` runs the same calls in two worlds, on a disk of
`Disk` symbols, over directories `Listings`, with reads of `ReadSizes` and seeks
by `SeekOffsets`. `EditorText` and
`Queries` are functions of texts and checked packages.

## Runs

| Run | Instance | Shows |
|---|---|---|
| `pool` | 4 cores (3 lanes), 3 phases, timeouts at any moment or never | The pool implements `ForkJoin`, also with its fairness; no body uses captures that are gone; no sleeper whose condition holds is without a broadcast to come; the shutdown ends |
| `barrier` | 4 lanes, 3 rounds, generation modulo 2 | Implements `AbstractBarrier`, with fairness |
| `collectives` | 3 lanes, all programs of 2 calls | Right values, no race on the buffer, all lanes return |
| `script` | 2 paths with one cache file, 3 contents of which 2 compile, 2 edits, 1 crash, Windows rules for mapped files, writes that fail or lose their end | A live program is readable; no crash and no failure that is seen leaves a half-written cache, and caches are true to their hash; handles stay dead; polled scripts converge to their files |
| `script_disk` | The same instance | **Violated**: a disk found full when the cache file is closed leaves a short file in its place (`file.c:66`) |
| `exec` | Ten families of programs | Legal programs are accepted and typed; C and bytecode print and return the same; scratch scopes balance on each way out; a whole cache file is accepted and a file that is accepted gives the compiled program; every script ends |
| `exec_spin` | A C-style loop whose body continues | **Violated**: in bytecode `continue` goes to the condition, past the step |
| `library` | See above; pools of 3 slots, 3 generations, 2 frees each; 4 cores, up to 6 items | Texts are read and formatted without loss; numbers parse or are refused, but for `WrapsUnseen`; C sees each declaration before its use; layouts agree with C; memory handed out is nobody else's; tables implement `AbstractMap`; a handle resolves exactly while its object lives, no slot is lost, pools implement `HandleTable`; the output of parallel code generation is that of the serial loop |
| `numbers` | All numerals of four symbols | **Violated**: a numeral that does not fit is accepted with the value it wraps to (`bbb_string.c:350`, `bcvm.c:184`) |
| `format` | Maps, anonymous structs and pinned names with comments | **Violated**: the formatter writes another program |
| `tools` | One inbox message, 2 open documents, 2 edits, 2 commands, 4 script steps | Diagnostics shown can be withdrawn; the editor shows what a build of the saved files reports, up to faults of code generation; what runs is what was built; calls reach the host function they name; every request is answered |
| `interop` | Headers of one record or function, configurations of two forms, 4 os calls, short texts, 178 bodies for questions | Mirrors have the header's layout; wrapped calls reach C unchanged; configurations agree; the os package behaves alike; messages, URIs, words, positions and answers arrive as meant |

The passing runs have between 1,361 and 1.9 million distinct states; the longest
takes two and a half minutes with two workers.

Bounds. Three lanes are the fewest with a first, a middle and a last to arrive;
three phases let a lane be late by one while the next starts. The barrier needs
a round more than `GenSize` to wrap. Three slots with two frees give reuse in
every order. Two edits, one content that does not compile and one crash reach
each failure path of a reload; the second path makes the cache shared. In
`exec` the widths are the smallest that keep byte, int and word apart with
overflow in each; templates nest two loops and two scratch scopes, which every
cleanup path needs. In `library` four symbols are enough for a string with an
escape, and a table of two slots grows twice and fills with tombstones. In
`tools` two edits and two commands let a build be overtaken by a change and
repeated; one message under way is enough because the server reads them in
order.

Fairness. In the pool a thread that can go on again and again does (strong
fairness of main's and each lane's steps: the mutex is taken a few times per
phase, and the timeouts of others do not starve it); timeouts are never
assumed to happen. In the barrier and the collectives every thread that can
take a step does. The scripts' host goes on, and polls every loaded script
again and again, which is the use `script.h` describes; editors and crashes
are never assumed. The interpreter is a loop in the calling thread. The
server's loop goes on reading.

Where a property has a premise, the premise is a definition of its own:
`DistinctObjects` (no package is named like a C source or the runtime), `OnePackage`, `Saved`,
`NoClash` (no file elsewhere with the base name of an open document), `own`
(no other package's check has reported on this directory), `ExposesNothing`, `TablesEnd`,
`PlainAnonymous`, `Captures`, `HidesRecord`, `Spread`, `Unsettled`, `Unusual`,
`WrapsUnseen`.
What lies outside them is listed below.

## Proofs

Each theorem holds for every value of the constants that the named assumption
allows; TLC evaluates each assumption in a run. Each inductive invariant was
checked by TLC on the instance of its run before it was proved.

* `LanePoolProofs`. `IndInv` says where main and each lane are in the phase:
  main's place fixes the relation of `generation` and `completed`; a lane's
  place fixes how many bodies it has run; `doneCount` is the number of lanes
  past their count (`CountInv`), so exactly one publishes (`PublishInv`); whoever
  sleeps although its condition holds still has a broadcast coming
  (`WakeupInv`). None of the properties is inductive without these.
  `PhasesDoNotOverlap`, `CapturesOutliveBodies`, `WakeupsAreNotLost` and the
  refinement `PoolRefinement` follow. Assumed: a positive number of cores.
* `LaneBarrierProofs`. A lane that waits is at most one generation behind, so a
  wrap cannot be mistaken (`GenSize >= 2`); from that the refinement of
  `AbstractBarrier`.
* `LaneCollectivesProofs`. The two properties say nothing about where the other
  lanes are, which is what keeps the buffer safe. `CollectiveInv` adds it: lanes
  that have arrived at the barrier equally often are at the same place of the
  program, and one that is an arrival ahead is one place ahead (`InStep`).
  From that follow what a cell of the buffer holds while anyone may still read
  it (`CellsHold`) and what a lane's own value is before and after its call
  (`ValuesHold`). `CollectivesAreCorrect` and `BufferIsRaceFree` are its
  consequences, for any number of lanes, any values and any sequence of
  broadcasts and sums with any roots. The barrier is the abstract one;
  `BarrierRefinement` says the code's implements it.
* `ParallelCodegenProofs`. `RangesPartition`: ranges are adjacent, start at 0
  and end at the count, for every count and number of lanes. `CodegenInv`: a
  lane's text is its range up to the place it has come to, nothing is written
  out before the join, and the output is a prefix of the items that ends where
  the next lane's range starts. `LayoutIsSerial` and `LanesAreDisjoint` follow.
  Assumed: a positive number of cores.
* `HandlePoolProofs`. `AgeInv` relates a slot's generation to how often it was
  freed and the handles of a slot to its past ages; with exclusive slots it
  makes an allocated handle new. Assumed: `MaxFrees < GenSize`.
* `ScriptReloadProofs`. `ReloadInv` adds to the properties that a load or reload
  in progress is about a slot that is still alive and has its path
  (`OpIsOfItsSlot`), that what was hashed is what is compiled unless the file
  was edited between the two reads (`HashIsOfTheSource`), and that the
  temporary file about to replace the cache is either complete or one that lost
  its end unseen, and nothing else (`TmpIsWritten`).
  `LiveScriptsAreReadable`, `CachesAreOfTheirSources` and the action property
  `DeadHandlesStayDead` follow, without any fairness, for any number of files,
  edits and crashes, on Windows or not. `CachesAreOfTheirSources` does not say
  that every cache is whole: with `SaveWriteShort` that is false, and
  `OldCacheStays` is the run that shows it. Assumed (`ReloadAssumption`): what
  compiles is a content, and the marks for a missing, a torn and a short file
  are none.
* `RuntimeProofs`, arenas. `HeldIsOwn` alone is not inductive: that ending a
  scope gives back exactly what was pushed in it needs the marks of the open
  scopes in ascending order (`MarksAscend`), everything held from outside a
  scope below its mark (`HeldBelowMarks`), and blocks filled no further than
  their size and commit (`BlocksFit`). Together they are `ArenaInv`. Assumed
  (`ArenaConstants`): sizes are numbers, alignments and the page size positive.
  Alignments divide `BlockAlign`; that they are powers of two is not needed.
* `RuntimeProofs`, hash tables. `HashInv`: no key is in two slots, every key is
  reached from its hash without passing an empty slot, and `count` and
  `tombstones` are at least the numbers of such slots. The last part is what
  makes probing end at an empty slot; it is an inequality because the runtime's
  tables do not count a reused tombstone off. `ResizeSettles`: while entries are
  moved the new table never reaches half of its slots, so the test for growth in
  `set` does not start a second resize; the model's `resize` leaves it out on
  that ground. `TablesAreMaps` is the refinement of `AbstractMap`: every call has
  the effect and the answer it would have on a plain map. Assumed
  (`TableConstants`): hashes are numbers, the first capacity is positive.
* `RuntimeProofs`, the os package. `OsInv`: the two worlds are equal, which is
  more than that they look equal; the program holds the same stream in both; and
  as long as it has done nothing but read lines, those it has are the file's up
  to the read position (`LinesRead`). Each verb is shown to take one world to
  the same world in both implementations (`FileVerbs`, `ListsAlike` and the
  lemmas about streams): the buffer `bbb_os_list_dir` fills and the vector
  `bc_os_list_dir` pushes to hold the same after each entry, and a text written
  through either reaches the same files when the disk is full. Hence
  `OsPackagesAgree`, for any number of calls. Its premise `Unusual = {}` leaves
  out the two calls on which the code differs (last section). Assumed
  (`OsAssumption`): texts and listings are sequences of symbols, sizes numbers.
* `RuntimeProofs`, numbers. After each symbol the loop of the signed parser has
  accepted exactly the digits that are not too many and say no more than 2^63,
  and then holds what they say (`SignedSums`): bounding the magnitude before the
  multiplication bounds it after (`BoundedFirst`). The unsigned loop holds what
  the digits say modulo the width, and has not refused what fits
  (`UnsignedSums`). That it refuses all that does not fit is false of the code
  (run `numbers`); but whatever it accepts never got smaller on the way
  (`UnsignedClimbs`), so that all it accepts wrongly is `WrapsUnseen`
  (`UnsignedParseExact`). `NumbersParseRight` follows for every text, the narrow
  types included. Assumed (`WidthsAssumption`): 2^31 is no more than
  2^63, which is at least 9, so that `2^63 - digit` does not wrap.
* `ToolsProofs`, the language server. `LspInv` joins the two properties, which
  need each other, with the shape of the state: documents and notifications are
  about files that may be opened, `published` is a list. From it
  `GhostsNeverShown` and `EditorAgreesWithBuild`, for any workspace, any number
  of documents, messages and writes, and for every compiler `Compile` whose
  two modes go together: what the server shows agrees with what a build of the
  files on disk reports, up to the faults of code generation. The case that
  decides is the check of one package that reports on the files of another.
  Assumed (`EditorAssumption`): what the editor opens is a file of the workspace
  and has a text; (`ModesAssumption`): the check alone is the first part of a
  build. A build that finds no fault of code generation reports what the check
  does, one that succeeds has the same symbols, and one that finds such a fault
  reports nothing else that the check does not. TLC evaluates it for `Packages`
  on every disk of the run.
* `ToolsProofs`, the build driver. `RunsWhatItBuilt` is about the last step of a
  command; `BuildInv` says what holds before it: the code in `output/` is this
  command's (`Generated`), each object of a package is this command's already or
  has a line still to come that makes it from that code (`ScriptLines`), the
  binary is linked of them (`LinkedCode`). `RunsItsOwnBuild` follows, whatever
  sources, manifests, failures and interruptions come between. Assumed
  (`CompileAssumption`): the code of every package of a compile that succeeds
  has been written, which `compile_package` ensures and TLC evaluates for
  `Packages`;
  (`ProjectsAssumption`): manifests are lists and name C sources that exist.

A recursive function (the move of a table's entries, the loops over symbols,
entries and forms) is reasoned about in two steps: that a function with the
equations exists, which `StepByStep` gives for steps along a list, and a
least-counterexample argument with the formula written out (`MinIsLeast`,
`EachInTurn`), since the library's induction rules cannot be instantiated.

Three corrections came out of the proofs. `EditorAndBuildAgree` used to ask only
that no importer reports on a directory when it is looked at; on larger
instances than the run's that is false, because the check of another package
may withdraw what the directory's own check had shown, and `own` now keeps track
of it. `DistinctObjects` did not exclude a package named like the runtime's
object. Some verbs of `OsVerbs` were CASEs with overlapping guards, which TLC
reads from the top and logic does not.

Only model-checked, and why:

* Liveness is beyond the prover: `ImplementsFairForkJoin` and `ShutdownEnds` of
  the pool, `ImplementsFairBarrier`, `AllReturn`, `ReloadConverges`,
  `EveryRequestAnswered`, `EveryScriptEnds`.
* `MCExec` (`AcceptsTheLegal`, `BackendsAgree`, `ScratchBalanced`,
  `RunsWhatWasCompiled`), the translator, editor texts and queries in `MCInterop`,
  and `Reader`, `Format` and `Declarations` in `MCLibrary`: the phases recurse
  over trees, of the program or of the text. Recursive operators and induction
  over trees are out of the prover's reach.
* `ScriptCallsArrive`: `compile_module` recurses over the imports and fills the
  registry on the way. `compile_package` of `Packages` recurses in the same way;
  the theorems about its callers hold for any compiler, and so say nothing of
  its own result beyond `CompileAssumption` and `ModesAssumption`.

## Where the code, its comments and its other half differ

Shown by a run: `exec_spin` (`bcgen.c:1860`), `format` (`format.c:499`),
`script_disk` (`file.c:66`) and `numbers` (`bbb_string.c:350`, `bcvm.c:184`).

Met while modelling, and left out of the passing runs by the premises or by
`Odd`:

* Scripts. A reload hashes one read of the source and compiles another; a save
  in between leaves the new program under the old hash (`script.c:1064`), and an
  edit may be missed for good (`script.c:1175`). A cached program's initialisers
  run before its hash is compared (`bcio.c:837`). A cut cache stays mapped
  (`script.c:1035`).
* Back ends. A scalar bound to a name shares that name's register, so that `set`
  of one changes the other. `set` of a struct local moves its pointer. Sub-int
  arithmetic is narrowed in bytecode and not in C. Comparisons and index tests
  of u64 are signed (`bcgen.c:739`, 2943). A `for-each` over a vector reads the
  count once in bytecode. A trap leaves scratch scopes open. C frees the context
  before main's last expression (`codegen.c:3402`), emits a loop's head before
  its variable is registered (1036), passes vectors by reference (3497), and
  evaluates arguments of `min`, `max`, `clamp`, `abs` twice. Captures of
  `parallel` are evaluated one after another in one back end and together in
  the other; captured variables are shared natively. A `return` inside a
  `parallel` block is accepted; natively it is a return, with a value, from the
  lane's function, in bytecode it leaves the function around the block
  (`Odd.lane_return`). Calls nested deeper than the stack of windows are stopped
  by an assertion of debug builds only (`bcvm.c:962`); a run that reaches it
  says nothing.
* Checker and lowering. `(deref nil)` follows a null type; a struct that holds
  a map of itself is accepted; only functions are checked for C names that
  collide.
* Memory. A push after a pop drops later blocks of a
  heap arena (`base.h:911`), which leaks them, and sizes may wrap (789). Reused tombstones are not
  counted off in the runtime's tables, which grow earlier than they need to. Anonymous members lose their attributes
  in C; `(flags [A 2 B])` gives A and B one value.
* Tools. Overlays are matched by base name in every package of the import graph
  (`compiler.c:417`), as `compiler.h:98-100` says; objects of a
  package and of a C source may share a name (`build.c:631`); diagnostics of a
  package published by its importer stay or go with the importer; a scan of the
  workspace overwrites the symbols of unsaved documents (`lsp_main.c:1278`); an
  empty file, a cycle or an unresolved import fail without a diagnostic.
  Values of vals that need another val are computed in the wrong order for
  hovers (`lib3b.c:717`). Raw bytes above 127 are encoded twice (`json.c:220`).
* Translation. Octal macros are read as decimal (`cwalk.c:643`) and `-1U` keeps
  its sign; enumerators are printed as i64 whatever their type; a wrapper's own
  locals capture parameters named `out`, `status`, `buf` or `arena`
  (`emit.c:1397`); only offsets of fields are compared, not widths (990); a group
  spread over two forms is one entry or two.
* Os. `at-end?` of a stream that is not open is 0 in scripts and 1 natively
  (`bcosprims.c:542`), and only one of them refuses to close standard output.

## Not modelled

Floating point, print templates and string builtins of both back ends; maps,
sets and handles in bytecode (the table itself is `HashMap`); constant folding;
the spelling of C, of diagnostics, hovers and generated packages, and the
report of names of `translate`; host functions that call back into the script
interface; the packages `sort`, `rng` and `vm`; contexts of threads; the base
layer beyond the parts named above, which is taken over from another project;
vendored libraries and the examples. Programs for `exec` are templates, not
all programs: what the families do not combine is not covered.
