-------------------------------- MODULE BcVm --------------------------------
(***************************************************************************)
(* The bytecode interpreter (bcvm.c, bc_run_in_program), one instruction   *)
(* per step.  runs is the C stack of nested calls of bc_run_in_program: a  *)
(* call into another module starts a new one.  Each run has its frames,    *)
(* its register file, cut into windows, and its next free register.  The   *)
(* heap arena and the scratch arena of the thread are sequences of cells.  *)
(* At the end, the files programs are saved to and loaded from (bcio.c).   *)
(***************************************************************************)
EXTENDS BcGen

CONSTANTS MaxCallDepth,       \* BC_MAX_CALL_DEPTH
          MaxRegisters        \* BC_MAX_TOTAL_REGISTERS

VARIABLES chunks,    \* the programs: the script's own and the module's, each its chunks
          runs, heap, scratch, globals,
          out,       \* what was printed
          result     \* [status, v]: what the host knows of the script so far

vmVars == << chunks, runs, heap, scratch, globals, out, result >>

HeapBase    == 100
ScratchBase == 600
Scratch1    == 1          \* what the box of an arena holds: which arena it is

Outcome(s, v) == [status |-> s, v |-> v]

(***************************************************************************)
(* Memory: an address is in the heap, in the scratch arena, or bad.        *)
(***************************************************************************)
InHeap(a)    == a - HeapBase \in 0..(Len(heap) - 1)
InScratch(a) == a - ScratchBase \in 0..(Len(scratch) - 1)
Mapped(a)    == InHeap(a) \/ InScratch(a)
Peek(a)      == IF InHeap(a) THEN heap[a - HeapBase + 1] ELSE scratch[a - ScratchBase + 1]
Zeros(n)     == [i \in 1..n |-> 0]

Poke(a, v) ==
  /\ heap'    = IF InHeap(a) THEN [heap EXCEPT ![a - HeapBase + 1] = v] ELSE heap
  /\ scratch' = IF InScratch(a) THEN [scratch EXCEPT ![a - ScratchBase + 1] = v] ELSE scratch

dyn_count(p)    == IF p = 0 THEN 0 ELSE Peek(p - 2)
dyn_capacity(p) == IF p = 0 THEN 0 ELSE Peek(p - 1)

(***************************************************************************)
(* The running frame, its instruction and its registers.                   *)
(***************************************************************************)
Run    == Last(runs)
Frame  == Last(Run.frames)
ChunkOf(run, fn) == chunks[run.program][fn]
Cur    == ChunkOf(Run, Frame.fn).code[Frame.pc + 1]
R(i)   == Run.regs[Frame.base + i + 1]

Running == result.status \in {"init", "run"}

Goto(run, pc) == [run EXCEPT !.frames[Len(run.frames)].pc = pc]
Next1(run)    == Goto(run, Frame.pc + 1)
Write(run, i, v) == [run EXCEPT !.regs[Frame.base + i + 1] = v]
Become(run)   == runs' = [runs EXCEPT ![Len(runs)] = run]

NewRun(program, fn, args) ==
  [program |-> program,
   frames |-> << [fn |-> fn, pc |-> 0, base |-> 0, dst |-> 0] >>,
   regs |-> args \o Zeros(chunks[program][fn].num_registers - Len(args)),
   next_free |-> chunks[program][fn].num_registers]

(* The host has the globals initialised, and then calls main. *)
Start ==
  /\ \/ result.status = "built" /\ result' = Outcome("init", 0)
     \/ result.status = "ready" /\ result' = Outcome("run", 0)
  /\ runs' = << NewRun("own", bc_program_find_fn(chunks.own, IF result.status = "built" THEN InitChunk ELSE "main"),
                       << >>) >>
  /\ UNCHANGED << chunks, heap, scratch, globals, out >>

(* A trap ends this run and, one after the other, the runs that called it. *)
Stop(status, v) == /\ result' = Outcome(status, v)
                   /\ runs' = << >>

(***************************************************************************)
(* Arithmetic, comparison and movement of registers.                       *)
(***************************************************************************)
B01(b) == IF b THEN 1 ELSE 0
AluOps == {"LoadConst", "Move", "Add", "Sub", "Mul", "Div", "Mod", "DivU", "ModU", "Eq", "Neq",
           "Lt", "Le", "Gt", "Ge", "LtU", "LeU", "GtU", "GeU", "BitNot", "Narrow"}
Alu(i) ==
  LET x == R(i.b)
      y == R(i.c)
  IN CASE i.op = "LoadConst" -> Wrap(i.b)
       [] i.op = "Move" -> x
       [] i.op = "Add"  -> Wrap(x + y)
       [] i.op = "Sub"  -> Wrap(x - y)
       [] i.op = "Mul"  -> Wrap(x * y)
       [] i.op = "Div"  -> TruncDiv(x, y)
       [] i.op = "Mod"  -> IF y = -1 THEN 0 ELSE TruncMod(x, y)
       [] i.op = "DivU" -> Wrap(AsU64(x) \div AsU64(y))
       [] i.op = "ModU" -> Wrap(AsU64(x) % AsU64(y))
       [] i.op = "Eq"   -> B01(x = y)
       [] i.op = "Neq"  -> B01(x # y)
       [] i.op = "Lt"   -> B01(x < y)
       [] i.op = "Le"   -> B01(x <= y)
       [] i.op = "Gt"   -> B01(x > y)
       [] i.op = "Ge"   -> B01(x >= y)
       [] i.op = "LtU"  -> B01(AsU64(x) < AsU64(y))
       [] i.op = "LeU"  -> B01(AsU64(x) <= AsU64(y))
       [] i.op = "GtU"  -> B01(AsU64(x) > AsU64(y))
       [] i.op = "GeU"  -> B01(AsU64(x) >= AsU64(y))
       [] i.op = "BitNot" -> -1 - x
       [] i.op = "Narrow" -> Conv(i.w, x)

DivTraps(i) ==
  \/ i.op \in {"Div", "Mod", "DivU", "ModU"} /\ R(i.c) = 0
  \/ i.op = "Div" /\ R(i.b) = -(2^(WordBits - 1)) /\ R(i.c) = -1

ExecAlu ==
  /\ Running /\ Cur.op \in AluOps
  /\ ~DivTraps(Cur)
  /\ Become(Next1(Write(Run, Cur.a, Alu(Cur))))
  /\ UNCHANGED << chunks, heap, scratch, globals, out, result >>

ExecTrap ==
  /\ Running /\ Cur.op \in AluOps
  /\ DivTraps(Cur)
  /\ Stop("trap", 0)
  /\ UNCHANGED << chunks, heap, scratch, globals, out >>

ExecJump ==
  /\ Running /\ Cur.op \in {"Jump", "JumpIfFalse"}
  /\ Become(Goto(Run, IF Cur.op = "Jump" THEN Cur.a
                      ELSE IF R(Cur.a) = 0 THEN Cur.b ELSE Frame.pc + 1))
  /\ UNCHANGED << chunks, heap, scratch, globals, out, result >>

(***************************************************************************)
(* Memory: allocation, fields, arenas and growable arrays.                 *)
(***************************************************************************)
ExecAlloc ==
  /\ Running /\ Cur.op \in {"Alloc", "LoadScratchArena"}
  /\ heap' = heap \o (IF Cur.op = "Alloc" THEN Zeros(Cur.b) ELSE << Scratch1 >>)
  /\ Become(Next1(Write(Run, Cur.a, HeapBase + Len(heap))))
  /\ UNCHANGED << chunks, scratch, globals, out, result >>

ExecFieldAddr ==
  /\ Running /\ Cur.op = "FieldAddr"
  /\ Become(Next1(Write(Run, Cur.a, Wrap(R(Cur.b) + Cur.c))))
  /\ UNCHANGED << chunks, heap, scratch, globals, out, result >>

ExecLoad ==
  /\ Running /\ Cur.op = "LoadField"
  /\ Mapped(R(Cur.b) + Cur.c)
  /\ Become(Next1(Write(Run, Cur.a, Wrap(Conv(Cur.w, Peek(R(Cur.b) + Cur.c))))))
  /\ UNCHANGED << chunks, heap, scratch, globals, out, result >>

ExecStore ==
  /\ Running /\ Cur.op = "StoreField"
  /\ Mapped(R(Cur.a) + Cur.b)
  /\ Poke(R(Cur.a) + Cur.b, Conv(Cur.w, R(Cur.c)))
  /\ Become(Next1(Run))
  /\ UNCHANGED << chunks, globals, out, result >>

ExecFault ==
  /\ Running
  /\ \/ Cur.op = "LoadField" /\ ~Mapped(R(Cur.b) + Cur.c)
     \/ Cur.op = "StoreField" /\ ~Mapped(R(Cur.a) + Cur.b)
  /\ Stop("fault", 0)
  /\ UNCHANGED << chunks, heap, scratch, globals, out >>

ExecArenaMark ==
  /\ Running /\ Cur.op = "ArenaMark"
  /\ Become(Next1(Write(Run, Cur.a, Len(scratch))))
  /\ UNCHANGED << chunks, heap, scratch, globals, out, result >>

ExecArenaPop ==
  /\ Running /\ Cur.op = "ArenaPop"
  /\ scratch' = SubSeq(scratch, 1, R(Cur.b))
  /\ Become(Next1(Run))
  /\ UNCHANGED << chunks, heap, globals, out, result >>

ExecArenaPush ==
  /\ Running /\ Cur.op = "ArenaPush"
  /\ scratch' = scratch \o Zeros(R(Cur.c))
  /\ Become(Next1(Write(Run, Cur.a, ScratchBase + Len(scratch))))
  /\ UNCHANGED << chunks, heap, globals, out, result >>

ExecDynRead ==
  /\ Running /\ Cur.op \in {"DynCount", "DynCapacity"}
  /\ Become(Next1(Write(Run, Cur.a, IF Cur.op = "DynCount" THEN dyn_count(R(Cur.b))
                                    ELSE dyn_capacity(R(Cur.b)))))
  /\ UNCHANGED << chunks, heap, scratch, globals, out, result >>

ExecDynSetCount ==
  /\ Running /\ Cur.op = "DynSetCount"
  /\ Poke(R(Cur.a) - 2, R(Cur.c))
  /\ Become(Next1(Run))
  /\ UNCHANGED << chunks, globals, out, result >>

(* A block twice as large (GrowFirst cells at first), the old content copied over. *)
GrowFirst == 2
ExecDynGrow ==
  /\ Running /\ Cur.op = "DynGrow"
  /\ LET p   == R(Cur.a)
         old == dyn_capacity(p)
         cap == IF old = 0 THEN GrowFirst ELSE old * 2
         hdr == << dyn_count(p), cap >>
         els == [i \in 1..(cap * Cur.c) |-> IF i <= old * Cur.c THEN Peek(p + i - 1) ELSE 0]
     IN  /\ scratch' = scratch \o hdr \o els
         /\ Become(Next1(Write(Run, Cur.a, ScratchBase + Len(scratch) + 2)))
  /\ UNCHANGED << chunks, heap, globals, out, result >>

ExecGlobal ==
  /\ Running /\ Cur.op \in {"LoadGlobal", "StoreGlobal"}
  /\ globals' = IF Cur.op = "StoreGlobal" THEN [globals EXCEPT ![Cur.a] = R(Cur.b)] ELSE globals
  /\ Become(Next1(IF Cur.op = "LoadGlobal" THEN Write(Run, Cur.a, globals[Cur.b]) ELSE Run))
  /\ UNCHANGED << chunks, heap, scratch, out, result >>

ExecPrint ==
  /\ Running /\ Cur.op \in {"PrintI64", "PrintU64", "PrintBool"}
  /\ out' = Append(out, CASE Cur.op = "PrintU64" -> AsU64(R(Cur.a))
                          [] Cur.op = "PrintBool" -> B01(R(Cur.a) # 0)
                          [] OTHER -> R(Cur.a))
  /\ Become(Next1(Run))
  /\ UNCHANGED << chunks, heap, scratch, globals, result >>

(***************************************************************************)
(* Calls: a window above the caller's for the callee, and the way back.    *)
(***************************************************************************)
CallFits(callee) == /\ Len(Run.frames) < MaxCallDepth
                    /\ Run.next_free + ChunkOf(Run, callee).num_registers <= MaxRegisters

Args(n) == [i \in 1..n |-> R(Cur.c + i - 1)]

ExecCall ==
  /\ Running /\ Cur.op = "Call"
  /\ CallFits(Cur.b)
  /\ LET callee == ChunkOf(Run, Cur.b)
         base   == Run.next_free
     IN  Become([Run EXCEPT
                   !.frames = Append(@, [fn |-> Cur.b, pc |-> 0, base |-> base, dst |-> Frame.base + Cur.a]),
                   !.regs = SubSeq(@, 1, base) \o Args(callee.param_count)
                              \o Zeros(callee.num_registers - callee.param_count),
                   !.next_free = base + callee.num_registers])
  /\ UNCHANGED << chunks, heap, scratch, globals, out, result >>

(* The xassert on the depth and on the register file, in a build that has it. *)
ExecCallTooDeep ==
  /\ Running /\ Cur.op = "Call"
  /\ ~CallFits(Cur.b)
  /\ Stop("abort", 0)
  /\ UNCHANGED << chunks, heap, scratch, globals, out >>

ExecCallModule ==
  /\ Running /\ Cur.op = "CallModule"
  /\ LET fn == bc_program_find_fn(chunks.module, NamesOf("module")[Cur.b])
     IN  runs' = Append(runs, NewRun("module", fn, Args(chunks.module[fn].param_count)))
  /\ UNCHANGED << chunks, heap, scratch, globals, out, result >>

(* The function registered under the instruction's index, whichever that is. *)
ExecCallHost ==
  /\ Running /\ Cur.op = "CallHost"
  /\ out' = Append(out, R(Cur.c) + HostNumber(hosts[Cur.b]))
  /\ Become(Next1(Write(Run, Cur.a, R(Cur.c))))
  /\ UNCHANGED << chunks, heap, scratch, globals, result >>

IsReturn == Running /\ Cur.op \in {"Return", "ReturnVoid"}
Returned == IF Cur.op = "Return" THEN R(Cur.a) ELSE 0

ExecReturn ==
  /\ IsReturn /\ Len(Run.frames) > 1
  /\ LET back == Front(Run.frames)
     IN  Become([Run EXCEPT !.frames = [back EXCEPT ![Len(back)].pc = @ + 1],
                            !.regs[Frame.dst + 1] = Returned,
                            !.next_free = Frame.base])
  /\ UNCHANGED << chunks, heap, scratch, globals, out, result >>

(* The entry function returns: to the module that called it, or to the host. *)
ExecReturnFromRun ==
  /\ IsReturn /\ Len(Run.frames) = 1
  /\ IF Len(runs) > 1
     THEN LET outer == runs[Len(runs) - 1]
              fr    == Last(outer.frames)
              call  == ChunkOf(outer, fr.fn).code[fr.pc + 1]
          IN  /\ runs' = Append(SubSeq(runs, 1, Len(runs) - 2),
                           [outer EXCEPT !.regs[fr.base + call.a + 1] = Returned,
                                         !.frames[Len(outer.frames)].pc = @ + 1])
              /\ UNCHANGED result
     ELSE Stop(CASE result.status = "init" -> "ready"
                 [] Cur.op = "Return" -> "value" [] OTHER -> "void", Returned)
  /\ UNCHANGED << chunks, heap, scratch, globals, out >>

Exec == \/ ExecAlu \/ ExecTrap \/ ExecJump \/ ExecAlloc \/ ExecFieldAddr \/ ExecLoad \/ ExecStore
        \/ ExecFault \/ ExecArenaMark \/ ExecArenaPop \/ ExecArenaPush \/ ExecDynRead
        \/ ExecDynSetCount \/ ExecDynGrow \/ ExecGlobal \/ ExecPrint \/ ExecCall
        \/ ExecCallTooDeep \/ ExecCallModule \/ ExecCallHost \/ ExecReturn
        \/ ExecReturnFromRun

-----------------------------------------------------------------------------
(***************************************************************************)
(* Compiled programs on disk (bcio.c).  A file is a sequence of items: a   *)
(* number, a name or an instruction, whatever number of bytes each takes.  *)
(* A function index in the file may be stale by the time it is read, so    *)
(* host and module functions are written by name: the loader looks the     *)
(* host functions up again and patches the calls.                          *)
(***************************************************************************)
CacheMagic   == 33
CacheVersion == 18

(***************************************************************************)
(* Writing.                                                                *)
(***************************************************************************)
HostCalls(code) == {i \in DOMAIN code : code[i].op = "CallHost"}
SaveChunk(c) ==
  LET at == SetToSortSeq(HostCalls(c.code), <)
  IN  << c.name, c.num_registers, c.param_count, Len(c.code) >> \o c.code
        \o << Len(at) >> \o FlattenSeq([i \in DOMAIN at |-> << at[i], hosts[c.code[at[i]].b] >>])
bc_program_save(cs) ==
  << CacheMagic, CacheVersion, Len(cs), Len(prog.globals) >> \o FlattenSeq([i \in DOMAIN cs |-> SaveChunk(cs[i])])
    \o << Len(NamesOf("module")) >> \o NamesOf("module")

(***************************************************************************)
(* Reading: r is the reader, with its position, whether it ran over the    *)
(* end, and the value v it read last.                                      *)
(***************************************************************************)
BcMmapReader(file) == [file |-> file, pos |-> 0, error |-> FALSE, v |-> << >>]
bcio_mmap_ptr(r, n) ==
  IF r.error \/ r.pos + n > Len(r.file) THEN [r EXCEPT !.error = TRUE, !.v = << >>]
  ELSE [r EXCEPT !.pos = @ + n, !.v = SubSeq(r.file, r.pos + 1, r.pos + n)]
Bounded(c) == IF c.error \/ c.v[1] > Len(c.file) - c.pos THEN [c EXCEPT !.error = TRUE, !.v = << 0 >>] ELSE c
bcio_mmap_read_bounded_count(r) == Bounded(bcio_mmap_ptr(r, 1))

\* Mutant: the call keeps the index it had when the file was written.
PatchCallNot(acc, call) ==
  IF call.error \/ call.v[1] \notin DOMAIN acc.code THEN [acc EXCEPT !.r = call]
  ELSE [acc EXCEPT !.r = call, !.missing = @ \/ bc_host_import_try_lookup(call.v[2]) = 0]
(* Each recorded call gets the index its name has now; a name that is gone refuses the file. *)
PatchCall(acc, call) ==
  IF call.error \/ call.v[1] \notin DOMAIN acc.code THEN [acc EXCEPT !.r = call]
  ELSE IF bc_host_import_try_lookup(call.v[2]) = 0 THEN [acc EXCEPT !.r = call, !.missing = TRUE]
  ELSE [acc EXCEPT !.r = call, !.code[call.v[1]].b = bc_host_import_try_lookup(call.v[2])]
PatchHostCalls(r, code) ==
  FoldLeft(LAMBDA acc, k : PatchCall(acc, bcio_mmap_ptr(acc.r, 2)),
           [r |-> r, code |-> code, missing |-> FALSE], [k \in 1..r.v[1] |-> k])

(* The chunks read so far: name, registers and parameters, then the code, then its host calls. *)
Reading(r) == [r |-> r, chunks |-> << >>, missing |-> FALSE]
AddChunk(acc, header, p) ==
  [r |-> p.r, missing |-> acc.missing \/ p.missing,
   chunks |-> Append(acc.chunks, [name |-> header[1], code |-> p.code, num_registers |-> header[2],
                                  param_count |-> header[3], failed |-> FALSE])]
LoadCode(acc, header, c) == AddChunk(acc, header, PatchHostCalls(bcio_mmap_read_bounded_count(c), c.v))
LoadChunk(acc, h) == IF h.error THEN [acc EXCEPT !.r = h]
                     ELSE LoadCode(acc, h.v, bcio_mmap_ptr(h, h.v[4]))

(* What the interpreter relies on without looking: no instruction leads out of its chunk. *)
VerifyChunk(c, chunk_count, maxRegisters) ==
  /\ c.code # << >>
  /\ c.num_registers <= maxRegisters
  /\ c.param_count <= c.num_registers
  /\ \A i \in DOMAIN c.code :
       CASE c.code[i].op = "Jump"        -> c.code[i].a < Len(c.code)
         [] c.code[i].op = "JumpIfFalse" -> c.code[i].b < Len(c.code)
         [] c.code[i].op = "Call"        -> c.code[i].b <= chunk_count
         [] OTHER -> TRUE
  /\ Last(c.code).op \in {"Return", "ReturnVoid", "Jump"}
bcio_verify_loaded_code(cs, maxRegisters) ==
  /\ \A i \in DOMAIN cs : VerifyChunk(cs[i], Len(cs), maxRegisters)
  /\ bc_program_find_fn(cs, InitChunk) # 0
  /\ cs[bc_program_find_fn(cs, InitChunk)].param_count = 0

(* The program, or a refusal, upon which the caller compiles the source again. *)
Refused == [ok |-> FALSE, chunks |-> << >>]
Accept(acc, names, maxRegisters) ==
  IF acc.missing \/ \E i \in DOMAIN names.v : bc_module_table_try_lookup(names.v[i]) = 0 THEN Refused
  ELSE IF names.error \/ ~bcio_verify_loaded_code(acc.chunks, maxRegisters) THEN Refused
  ELSE [ok |-> TRUE, chunks |-> acc.chunks]
LoadImports(acc, count, maxRegisters) == Accept(acc, bcio_mmap_ptr(count, count.v[1]), maxRegisters)
LoadChunks(acc, maxRegisters) == LoadImports(acc, bcio_mmap_read_bounded_count(acc.r), maxRegisters)
LoadAfterVersion(v, counts, maxRegisters) ==
  IF v.error \/ v.v # << CacheMagic, CacheVersion >> \/ counts.error THEN Refused
  ELSE LoadChunks(FoldLeft(LAMBDA acc, k : LoadChunk(acc, bcio_mmap_ptr(acc.r, 4)),
                           Reading(counts), [k \in 1..counts.v[1] |-> k]), maxRegisters)
LoadFrom(v, maxRegisters) == LoadAfterVersion(v, bcio_mmap_ptr(v, 2), maxRegisters)
bc_program_load(file, maxRegisters) == LoadFrom(bcio_mmap_ptr(BcMmapReader(file), 2), maxRegisters)
=============================================================================
