---------------------------- MODULE ScriptReload ----------------------------
(***************************************************************************)
(* The hot-reloadable scripts of script.c and their .3bc cache files.  One *)
(* host thread loads, calls, polls and unloads scripts; meanwhile an       *)
(* editor changes the sources, and the process may crash and restart.      *)
(*                                                                         *)
(* A source is represented by its content, which stands for its hash as    *)
(* well (bc_content_hash is taken to be free of collisions), and a program *)
(* by the content it was compiled from.  Contents outside Compiles fail to *)
(* compile.                                                                *)
(***************************************************************************)
EXTENDS Naturals, Sequences

CONSTANTS Stems,      \* the script files of the host, without their extensions
          Contents, Compiles,
          Absent,     \* no such file, no program
          Torn,       \* a file that was only partly written
          Short,      \* one whose end was lost when it was closed, though its write counts as done
          Windows,    \* a mapped file cannot be replaced
          MaxSlots, MaxEdits, MaxCrashes  \* bounds

\* The extension is replaced, so that a.3b and a.3bs share one cache file.
Paths == Stems \X {".3b", ".3bs"}
cache_path_for(p) == p[1]
Caches == {cache_path_for(p) : p \in Paths}
Images == [hash : Contents, prog : Compiles]  \* a complete .3bc file
Programs == [code : Compiles, backed : BOOLEAN]  \* backed: read out of a mapping
OpSteps == {"idle", "run", "cache", "compile", "save", "write", "replace", "install"}

ASSUME ReloadAssumption ==
  /\ Compiles \subseteq Contents
  /\ Absent # Torn /\ Short \notin {Absent, Torn}
  /\ Absent \notin Contents /\ {Absent, Torn, Short} \cap Images = {}
  /\ Windows \in BOOLEAN
  /\ MaxSlots \in Nat \ {0} /\ MaxEdits \in Nat /\ MaxCrashes \in Nat

VARIABLES src,          \* the source files
          cache, tmp,   \* the .3bc and .3bc.tmp files
          slots,        \* ScriptTable.slots without the null slot
          op,           \* the API call in progress
          edits, crashes,
          raced         \* history: a file changed between its two reads

files == <<src, edits, raced>>
vars == <<files, cache, tmp, slots, op, crashes>>

Idle == [pc |-> "idle", slot |-> 0, path |-> Absent, hash |-> Absent, prog |-> Absent]

Init ==
  /\ src \in [Paths -> Compiles]
  /\ cache \in [Caches -> {Absent} \cup {[hash |-> c, prog |-> c] : c \in Compiles}]
  /\ tmp = [c \in Caches |-> Absent]
  /\ slots = <<>>
  /\ op = Idle
  /\ edits = 0 /\ crashes = 0 /\ raced = FALSE

-----------------------------------------------------------------------------
(* The environment. *)

\* The editor replaces, damages or removes a file, at any time.  A script is
\* read twice, for its hash and by the compiler.
Edit(p, x) ==
  /\ edits < MaxEdits
  /\ src[p] # x
  /\ src' = [src EXCEPT ![p] = x]
  /\ edits' = edits + 1
  /\ raced' = (raced \/ (op.pc \in {"cache", "compile"} /\ op.path = p))
  /\ UNCHANGED <<cache, tmp, slots, op, crashes>>

\* The host dies and is started again: only the files are left.
Crash ==
  /\ crashes < MaxCrashes
  /\ crashes' = crashes + 1
  /\ slots' = <<>>
  /\ op' = Idle
  /\ UNCHANGED <<files, cache, tmp>>

-----------------------------------------------------------------------------
(* script_load and script_poll_reload up to load_or_compile_script. *)

Alive(s) == s \in DOMAIN slots /\ slots[s].alive

Begin(s, p) ==
  /\ op' = [pc |-> "cache", slot |-> s, path |-> p, hash |-> src[p], prog |-> Absent]
  /\ UNCHANGED <<files, cache, tmp, slots, crashes>>

ScriptLoad(p) ==
  /\ op.pc = "idle"
  /\ Len(slots) < MaxSlots
  /\ src[p] # Absent
  /\ Begin(0, p)

\* A poll that finds the file missing or unchanged returns at once.
ScriptPollReload(s) ==
  /\ op.pc = "idle"
  /\ Alive(s)
  /\ src[slots[s].path] \notin {Absent, slots[s].hash}
  /\ Begin(s, slots[s].path)

-----------------------------------------------------------------------------
(* load_or_compile_script. *)

OpCache == cache_path_for(op.path)
Cached == cache[OpCache]
CacheComplete == Cached \notin {Absent, Torn, Short}

\* Mutant: the hash in the file is not compared.
CacheHitAnyHash ==
  /\ op.pc = "cache"
  /\ CacheComplete
  /\ op' = [op EXCEPT !.pc = "install", !.prog = [code |-> Cached.prog, backed |-> TRUE]]
  /\ UNCHANGED <<files, cache, tmp, slots, crashes>>

\* bc_program_load accepts the file, and its hash is that of the source.
CacheHit ==
  /\ op.pc = "cache"
  /\ CacheComplete /\ Cached.hash = op.hash
  /\ op' = [op EXCEPT !.pc = "install", !.prog = [code |-> Cached.prog, backed |-> TRUE]]
  /\ UNCHANGED <<files, cache, tmp, slots, crashes>>

\* Mutant: the outgoing mapping goes before the compiler has succeeded.
CacheMissUnmaps ==
  /\ op.pc = "cache"
  /\ op' = [op EXCEPT !.pc = "compile"]
  /\ slots' = IF op.slot = 0 THEN slots ELSE [slots EXCEPT ![op.slot].mapped = FALSE]
  /\ UNCHANGED <<files, cache, tmp, crashes>>

\* There is no cache file, its hash is that of another source, or
\* bc_program_load rejects it: a bad magic or version, an unknown host import
\* or module, code that fails verification.  The #init_globals of a file with
\* another hash has run by then, on globals that are dropped with it.
CacheMiss ==
  /\ op.pc = "cache"
  /\ op' = [op EXCEPT !.pc = "compile"]
  /\ UNCHANGED <<files, cache, tmp, slots, crashes>>

\* compile_script_program reads the file again.  When it succeeds, the
\* outgoing mapping is dropped.
CompileOk ==
  /\ op.pc = "compile"
  /\ src[op.path] \in Compiles
  /\ op' = [op EXCEPT !.pc = "save", !.prog = [code |-> src[op.path], backed |-> FALSE]]
  /\ slots' = IF op.slot = 0 THEN slots ELSE [slots EXCEPT ![op.slot].mapped = FALSE]
  /\ UNCHANGED <<files, cache, tmp, crashes>>

\* When it fails, a load returns; a poll remembers the hash and returns.
CompileFails ==
  /\ op.pc = "compile"
  /\ src[op.path] \notin Compiles
  /\ slots' = IF op.slot = 0 THEN slots ELSE [slots EXCEPT ![op.slot].hash = op.hash]
  /\ op' = Idle
  /\ UNCHANGED <<files, cache, tmp, crashes>>

\* bc_program_save opens the temporary file, which empties it.
SaveOpen ==
  /\ op.pc = "save"
  /\ tmp' = [tmp EXCEPT ![OpCache] = Torn]
  /\ op' = [op EXCEPT !.pc = "write"]
  /\ UNCHANGED <<files, cache, slots, crashes>>

\* Mutant: a reload saves under the hash its slot still has.
SaveWriteSlotHash ==
  /\ op.pc = "write"
  /\ LET h == IF op.slot = 0 THEN op.hash ELSE slots[op.slot].hash
     IN  tmp' = [tmp EXCEPT ![OpCache] = [hash |-> h, prog |-> op.prog.code]]
  /\ op' = [op EXCEPT !.pc = "replace"]
  /\ UNCHANGED <<files, cache, slots, crashes>>

\* It writes the program, under the hash of the first read.
SaveWrite ==
  /\ op.pc = "write"
  /\ tmp' = [tmp EXCEPT ![OpCache] = [hash |-> op.hash, prog |-> op.prog.code]]
  /\ op' = [op EXCEPT !.pc = "replace"]
  /\ UNCHANGED <<files, cache, slots, crashes>>

\* The disk turns out to be full when the buffer is flushed: file_store does
\* not look at what fclose returns, and reports the write as done.
SaveWriteShort ==
  /\ op.pc = "write"
  /\ tmp' = [tmp EXCEPT ![OpCache] = Short]
  /\ op' = [op EXCEPT !.pc = "replace"]
  /\ UNCHANGED <<files, cache, slots, crashes>>

\* A directory that is read-only, or a disk that fwrite finds full: the old
\* cache stays, and what was written of the temporary file too.
SaveFails ==
  /\ op.pc \in {"save", "write"}
  /\ op' = [op EXCEPT !.pc = "install"]
  /\ UNCHANGED <<files, cache, tmp, slots, crashes>>

Locked(c) == Windows /\ \E s \in DOMAIN slots : slots[s].mapped /\ cache_path_for(slots[s].path) = c

\* replace_file: the temporary file is renamed over the cache, or removed.
ReplaceFile ==
  /\ op.pc = "replace"
  /\ cache' = IF Locked(OpCache) THEN cache ELSE [cache EXCEPT ![OpCache] = tmp[OpCache]]
  /\ tmp' = [tmp EXCEPT ![OpCache] = Absent]
  /\ op' = [op EXCEPT !.pc = "install"]
  /\ UNCHANGED <<files, slots, crashes>>

-----------------------------------------------------------------------------
(* The end of script_load and script_poll_reload, and the other calls. *)

Slot == [alive |-> TRUE, path |-> op.path, hash |-> op.hash, prog |-> op.prog,
         mapped |-> op.prog.backed]

\* Mutant: a load takes the first dead slot.
InstallReusesSlot ==
  /\ op.pc = "install"
  /\ LET dead == {s \in DOMAIN slots : ~slots[s].alive}
     IN  slots' = IF op.slot # 0 THEN [slots EXCEPT ![op.slot] = Slot]
                  ELSE IF dead # {} THEN [slots EXCEPT ![CHOOSE s \in dead : TRUE] = Slot]
                  ELSE Append(slots, Slot)
  /\ op' = Idle
  /\ UNCHANGED <<files, cache, tmp, crashes>>

\* A load appends a slot, a poll overwrites its own in place.
Install ==
  /\ op.pc = "install"
  /\ slots' = IF op.slot = 0 THEN Append(slots, Slot) ELSE [slots EXCEPT ![op.slot] = Slot]
  /\ op' = Idle
  /\ UNCHANGED <<files, cache, tmp, crashes>>

\* script_call: bc_run_in_program on the slot's program, until it returns or
\* traps.  The host functions it calls do not call back into this API.
ScriptCall(s) ==
  /\ op.pc = "idle"
  /\ Alive(s)
  /\ op' = [Idle EXCEPT !.pc = "run", !.slot = s]
  /\ UNCHANGED <<files, cache, tmp, slots, crashes>>

ScriptReturn ==
  /\ op.pc = "run"
  /\ op' = Idle
  /\ UNCHANGED <<files, cache, tmp, slots, crashes>>

ScriptUnload(s) ==
  /\ op.pc = "idle"
  /\ s \in DOMAIN slots
  /\ slots' = [slots EXCEPT ![s].alive = FALSE, ![s].mapped = FALSE]
  /\ UNCHANGED <<files, cache, tmp, op, crashes>>

\* The calls that return false before they change anything: a load or a poll
\* of a file that cannot be read, a poll of one that is unchanged, a call or a
\* poll with a dead handle.
ReturnsFalse ==
  /\ op.pc = "idle"
  /\ \/ \E p \in Paths : src[p] = Absent
     \/ \E s \in DOMAIN slots : ~slots[s].alive \/ src[slots[s].path] = slots[s].hash
  /\ UNCHANGED vars

Host ==
  \/ CacheHit \/ CacheMiss
  \/ CompileOk \/ CompileFails
  \/ SaveOpen \/ SaveWrite \/ SaveWriteShort \/ SaveFails \/ ReplaceFile
  \/ Install \/ ScriptReturn

Next ==
  \/ Host
  \/ \E p \in Paths : ScriptLoad(p)
  \/ \E s \in DOMAIN slots : ScriptPollReload(s) \/ ScriptCall(s) \/ ScriptUnload(s)
  \/ \E p \in Paths, x \in Contents \cup {Absent} : Edit(p, x)
  \/ Crash \/ ReturnsFalse

SafeSpec == Init /\ [][Next]_vars

\* The host thread goes on, scripts return, and the main loop polls every
\* script it has loaded again and again, however often it does other things.
Spec ==
  /\ SafeSpec
  /\ WF_vars(Host)
  /\ \A s \in 1 .. MaxSlots : SF_vars(ScriptPollReload(s))

-----------------------------------------------------------------------------
MaybeImages == Images \cup {Absent, Torn, Short}

SlotRecords == [alive : BOOLEAN, path : Paths, hash : Contents, prog : Programs, mapped : BOOLEAN]

\* Types; from the compile or the cache hit on there is a program to install.
TypeOK ==
  /\ src \in [Paths -> Contents \cup {Absent}]
  /\ cache \in [Caches -> MaybeImages] /\ tmp \in [Caches -> MaybeImages]
  /\ slots \in Seq(SlotRecords) /\ Len(slots) <= MaxSlots
  /\ op \in [pc : OpSteps, slot : {0} \cup DOMAIN slots, path : Paths \cup {Absent},
             hash : Contents \cup {Absent}, prog : Programs \cup {Absent}]
  /\ op.pc \in {"save", "write", "replace", "install"} => op.prog \in Programs
  /\ edits \in Nat /\ crashes \in Nat /\ raced \in BOOLEAN

\* A live slot's program can be read: its mapping is dropped only by a reload
\* that already holds the next program, so that "the OLD, still-working
\* BcProgram is left running" when the edited source fails to compile.
RunnableIsReadable ==
  \A s \in DOMAIN slots :
    slots[s].alive /\ slots[s].prog.backed /\ ~slots[s].mapped =>
      op.slot = s /\ op.pc \in {"save", "write", "replace", "install"}

\* A handle is one script for as long as the process lives, and one that was
\* unloaded never comes back to life.
HandlesStayDead ==
  [][\A s \in DOMAIN slots : s \in DOMAIN slots' =>
       slots'[s].path = slots[s].path /\ (slots'[s].alive => slots[s].alive)]_vars

\* "A crash or a full disk partway through leaves the OLD cache intact rather
\* than a half-written one" (script.c:1058-1060, about the move of the
\* temporary file): a cache file is complete whenever there is one.
OldCacheStays == \A c \in Caches : cache[c] \in Images \cup {Absent}

\* What the code keeps of that promise, and "staleness is decided by the
\* content hash stored inside it": neither a crash at any step nor a write that
\* is seen to fail leaves a half-written cache, and the program of a complete
\* one is the one its hash speaks of, as long as no file changes between the
\* read that is hashed and the one that is compiled.  Left out is the file
\* whose end is lost when it is closed, Short, which file_store takes for
\* written (see OldCacheStays).
CacheHoldsItsSource ==
  \A c \in Caches :
    /\ cache[c] # Torn
    /\ cache[c] \in Images /\ ~raced => cache[c].hash = cache[c].prog

\* "Transparently starts running the new code": once the editor is done, the
\* scripts that are still loaded run what their files hold, if it compiles.
\* The same premise: a change between the two reads can be missed for good.
ReloadConverges ==
  \A s \in 1 .. MaxSlots :
    <>[](~raced /\ Alive(s) /\ src[slots[s].path] \in Compiles =>
           slots[s].prog.code = src[slots[s].path])

-----------------------------------------------------------------------------
(* The inductive invariant. *)

\* A load or a reload in progress is about a script that is there: a load has
\* room for its slot, and the slot of a reload stays alive, with its path.
Loading == op.pc \notin {"idle", "run"}

OpIsOfItsSlot ==
  Loading =>
    /\ op.path \in Paths /\ op.hash \in Contents
    /\ IF op.slot = 0 THEN Len(slots) < MaxSlots
                      ELSE Alive(op.slot) /\ slots[op.slot].path = op.path

\* Between the two reads the file is what was hashed, and what is saved was
\* compiled from it, unless it was edited just then.
HashIsOfTheSource ==
  ~raced =>
    /\ op.pc \in {"cache", "compile"} => src[op.path] = op.hash
    /\ op.pc \in {"save", "write", "replace"} => op.prog.code = op.hash

\* The temporary file that is about to replace the cache is complete, or was
\* cut off as it was closed.
TmpIsWritten ==
  op.pc = "replace" => tmp[OpCache] \in {[hash |-> op.hash, prog |-> op.prog.code], Short}

ReloadInv ==
  /\ TypeOK
  /\ OpIsOfItsSlot
  /\ HashIsOfTheSource
  /\ TmpIsWritten
  /\ RunnableIsReadable
  /\ CacheHoldsItsSource

=============================================================================
