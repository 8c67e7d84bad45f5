-------------------------- MODULE ScriptReloadProofs --------------------------
(***************************************************************************)
(* The safety of hot reloading, for every number of scripts, slots, edits  *)
(* and crashes, on systems that lock a mapped file and on those that do    *)
(* not.                                                                    *)
(***************************************************************************)
EXTENDS ScriptReload, TLAPS

HasProgram == {"save", "write", "replace", "install"}

\* What the types say of the slots.
LEMMA SlotTypes ==
  ASSUME TypeOK
  PROVE  /\ Len(slots) \in Nat /\ Len(slots) <= MaxSlots /\ MaxSlots \in Nat
         /\ DOMAIN slots = 1 .. Len(slots)
         /\ \A s \in DOMAIN slots : slots[s] \in SlotRecords
         /\ 0 \notin DOMAIN slots
  BY ReloadAssumption DEF TypeOK

\* A cache file stands for its script.
LEMMA CacheOfPath ==
  ASSUME NEW p \in Paths
  PROVE  cache_path_for(p) \in Caches
  BY DEF Caches

\* The fields that CompileOk, CompileFails and ScriptUnload set leave the slots
\* what they are.
LEMMA SlotUpdates ==
  ASSUME TypeOK, NEW s \in DOMAIN slots, NEW h \in Contents
  PROVE  /\ [slots EXCEPT ![s].mapped = FALSE] \in Seq(SlotRecords)
         /\ [slots EXCEPT ![s].hash = h] \in Seq(SlotRecords)
         /\ [slots EXCEPT ![s].alive = FALSE, ![s].mapped = FALSE] \in Seq(SlotRecords)
         /\ Len([slots EXCEPT ![s].mapped = FALSE]) = Len(slots)
         /\ Len([slots EXCEPT ![s].hash = h]) = Len(slots)
         /\ Len([slots EXCEPT ![s].alive = FALSE, ![s].mapped = FALSE]) = Len(slots)
<1>1. slots \in Seq(SlotRecords) /\ slots[s] \in SlotRecords /\ s \in 1 .. Len(slots)
  BY SlotTypes DEF TypeOK
<1>2. \A r \in SlotRecords : /\ [slots EXCEPT ![s] = r] \in Seq(SlotRecords)
                             /\ Len([slots EXCEPT ![s] = r]) = Len(slots)
  BY <1>1
<1>3. /\ [slots[s] EXCEPT !.mapped = FALSE] \in SlotRecords
      /\ [slots[s] EXCEPT !.hash = h] \in SlotRecords
      /\ [slots[s] EXCEPT !.alive = FALSE, !.mapped = FALSE] \in SlotRecords
  BY <1>1 DEF SlotRecords
<1>4. /\ [slots EXCEPT ![s].mapped = FALSE] = [slots EXCEPT ![s] = [slots[s] EXCEPT !.mapped = FALSE]]
      /\ [slots EXCEPT ![s].hash = h] = [slots EXCEPT ![s] = [slots[s] EXCEPT !.hash = h]]
      /\ [slots EXCEPT ![s].alive = FALSE, ![s].mapped = FALSE]
          = [slots EXCEPT ![s] = [slots[s] EXCEPT !.alive = FALSE, !.mapped = FALSE]]
  BY <1>1
<1>. QED  BY <1>2, <1>3, <1>4, Zenon

-----------------------------------------------------------------------------
LEMMA ReloadInit == Init => ReloadInv
<1>. SUFFICES ASSUME Init PROVE ReloadInv
  OBVIOUS
<1>. USE ReloadAssumption
<1>1. TypeOK
  <2>1. cache \in [Caches -> MaybeImages] /\ tmp \in [Caches -> MaybeImages]
    BY DEF Init, MaybeImages, Images
  <2>2. slots = <<>> /\ slots \in Seq(SlotRecords) /\ Len(slots) <= MaxSlots /\ DOMAIN slots = {}
    BY DEF Init
  <2>. QED  BY <2>1, <2>2 DEF Init, TypeOK, Idle, OpSteps
<1>2. OpIsOfItsSlot /\ HashIsOfTheSource /\ TmpIsWritten
  BY DEF Init, Idle, OpIsOfItsSlot, Loading, HashIsOfTheSource, TmpIsWritten
<1>3. RunnableIsReadable
  BY DEF Init, RunnableIsReadable
<1>4. CacheHoldsItsSource
  <2>. SUFFICES ASSUME NEW c \in Caches
                PROVE  cache[c] # Torn /\ (cache[c] \in Images => cache[c].hash = cache[c].prog)
    BY DEF CacheHoldsItsSource
  <2>1. cache[c] = Absent \/ \E x \in Compiles : cache[c] = [hash |-> x, prog |-> x]
    BY DEF Init
  <2>2. Torn \notin Images /\ Absent \notin Images /\ Absent # Torn
    BY Zenon
  <2>3. \A x \in Compiles : [hash |-> x, prog |-> x] \in Images
    BY DEF Images
  <2>4. CASE cache[c] = Absent
    BY <2>2, <2>4
  <2>5. ASSUME NEW x \in Compiles, cache[c] = [hash |-> x, prog |-> x]
        PROVE  cache[c] # Torn /\ (cache[c] \in Images => cache[c].hash = cache[c].prog)
    BY <2>2, <2>3, <2>5
  <2>. QED  BY <2>1, <2>4, <2>5
<1>. QED  BY <1>1, <1>2, <1>3, <1>4 DEF ReloadInv

-----------------------------------------------------------------------------
(* One step of the host, by what it writes. *)

\* The slots keep their types.
LEMMA SlotsStep ==
  ASSUME ReloadInv, Next
  PROVE  slots' \in Seq(SlotRecords) /\ Len(slots') <= MaxSlots
<1>. USE ReloadAssumption, SlotTypes DEF ReloadInv
<1>0. slots \in Seq(SlotRecords) /\ Len(slots) <= MaxSlots
  BY DEF TypeOK
<1>1. CASE slots' = slots
  BY <1>0, <1>1
<1>2. CASE Crash
  BY <1>2 DEF Crash
<1>3. CASE CompileOk
  <2>1. op.slot = 0 \/ op.slot \in DOMAIN slots
    BY DEF TypeOK
  <2>2. op.hash \in Contents
    BY <1>3 DEF CompileOk, OpIsOfItsSlot, Loading
  <2>. QED  BY <1>0, <1>3, <2>1, <2>2, SlotUpdates DEF CompileOk
<1>4. CASE CompileFails
  <2>1. op.slot = 0 \/ op.slot \in DOMAIN slots
    BY DEF TypeOK
  <2>2. op.hash \in Contents
    BY <1>4 DEF CompileFails, OpIsOfItsSlot, Loading
  <2>. QED  BY <1>0, <1>4, <2>1, <2>2, SlotUpdates DEF CompileFails
<1>5. CASE Install
  <2>1. op.prog \in Programs /\ op.path \in Paths /\ op.hash \in Contents
    BY <1>5 DEF Install, OpIsOfItsSlot, Loading, TypeOK
  <2>2. Slot \in SlotRecords
    BY <2>1 DEF Slot, SlotRecords, Programs
  <2>3. CASE op.slot = 0
    <3>1. Len(slots) < MaxSlots
      BY <1>5, <2>3 DEF Install, OpIsOfItsSlot, Loading
    <3>. QED  BY <1>0, <1>5, <2>2, <2>3, <3>1 DEF Install
  <2>4. CASE op.slot # 0
    <3>1. op.slot \in DOMAIN slots
      BY <2>4 DEF TypeOK
    <3>. QED  BY <1>0, <1>5, <2>2, <2>4, <3>1 DEF Install
  <2>. QED  BY <2>3, <2>4
<1>6. ASSUME NEW s \in DOMAIN slots, ScriptUnload(s) PROVE slots' \in Seq(SlotRecords) /\ Len(slots') <= MaxSlots
  <2>1. slots[s].hash \in Contents
    BY DEF SlotRecords
  <2>. QED  BY <1>0, <1>6, <2>1, SlotUpdates DEF ScriptUnload
<1>. QED
  BY <1>1, <1>2, <1>3, <1>4, <1>5, <1>6
     DEF Next, Host, CacheHit, CacheMiss, SaveOpen, SaveWrite, SaveWriteShort, SaveFails, ReplaceFile, ScriptReturn,
         ScriptLoad, ScriptPollReload, ScriptCall, Begin, Edit, ReturnsFalse, vars

\* The files keep their types.
LEMMA FilesStep ==
  ASSUME ReloadInv, Next
  PROVE  /\ src' \in [Paths -> Contents \cup {Absent}]
         /\ cache' \in [Caches -> MaybeImages] /\ tmp' \in [Caches -> MaybeImages]
         /\ edits' \in Nat /\ crashes' \in Nat /\ raced' \in BOOLEAN
<1>. USE ReloadAssumption DEF ReloadInv
<1>1. src' \in [Paths -> Contents \cup {Absent}] /\ edits' \in Nat /\ raced' \in BOOLEAN
  <2>1. CASE UNCHANGED files
    BY <2>1 DEF files, TypeOK
  <2>2. ASSUME NEW p \in Paths, NEW x \in Contents \cup {Absent}, Edit(p, x)
        PROVE  src' \in [Paths -> Contents \cup {Absent}] /\ edits' \in Nat /\ raced' \in BOOLEAN
    BY <2>2 DEF Edit, TypeOK
  <2>. QED
    BY <2>1, <2>2
       DEF Next, Host, CacheHit, CacheMiss, CompileOk, CompileFails, SaveOpen, SaveWrite, SaveWriteShort, SaveFails,
           ReplaceFile, Install, ScriptReturn, ScriptLoad, ScriptPollReload, ScriptCall,
           ScriptUnload, Begin, Crash, ReturnsFalse, vars
<1>2. cache' \in [Caches -> MaybeImages] /\ tmp' \in [Caches -> MaybeImages]
  <2>0. cache \in [Caches -> MaybeImages] /\ tmp \in [Caches -> MaybeImages]
    BY DEF TypeOK
  <2>1. CASE UNCHANGED <<cache, tmp>>
    BY <2>0, <2>1
  <2>2. CASE SaveOpen
    BY <2>0, <2>2 DEF SaveOpen, MaybeImages
  <2>3. CASE SaveWrite
    <3>1. op.prog \in Programs /\ op.hash \in Contents
      BY <2>3 DEF SaveWrite, TypeOK, OpIsOfItsSlot, Loading
    <3>2. [hash |-> op.hash, prog |-> op.prog.code] \in MaybeImages
      BY <3>1 DEF Programs, MaybeImages, Images
    <3>. QED  BY <2>0, <2>3, <3>2 DEF SaveWrite
  <2>5. CASE SaveWriteShort
    BY <2>0, <2>5 DEF SaveWriteShort, MaybeImages
  <2>4. CASE ReplaceFile
    <3>1. OpCache \in Caches
      BY <2>4, CacheOfPath DEF ReplaceFile, OpCache, OpIsOfItsSlot, Loading
    <3>2. tmp[OpCache] \in MaybeImages /\ Absent \in MaybeImages
      BY <2>0, <3>1 DEF MaybeImages
    <3>. QED  BY <2>0, <2>4, <3>2 DEF ReplaceFile
  <2>. QED
    BY <2>1, <2>2, <2>3, <2>4, <2>5
       DEF Next, Host, CacheHit, CacheMiss, CompileOk, CompileFails, SaveFails,
           Install, ScriptReturn, ScriptLoad, ScriptPollReload, ScriptCall,
           ScriptUnload, Begin, Edit, Crash, ReturnsFalse, vars
<1>3. crashes' = crashes \/ Crash
  BY DEF Next, Host, CacheHit, CacheMiss, CompileOk, CompileFails, SaveOpen, SaveWrite, SaveWriteShort,
         SaveFails, ReplaceFile, Install, ScriptReturn, ScriptLoad, ScriptPollReload, ScriptCall,
         ScriptUnload, Begin, Edit, ReturnsFalse, vars
<1>4. crashes' \in Nat
  BY <1>3 DEF TypeOK, Crash
<1>. QED  BY <1>1, <1>2, <1>4

\* The slots that are there stay there, except over a crash.
LEMMA SlotsStay ==
  ASSUME ReloadInv, Next, ~Crash
  PROVE  DOMAIN slots \subseteq DOMAIN slots'
<1>. USE SlotTypes DEF ReloadInv
<1>1. CASE DOMAIN slots' = DOMAIN slots
  BY <1>1
<1>2. CASE Install
  <2>1. op.slot = 0 \/ op.slot \in DOMAIN slots
    BY DEF TypeOK
  <2>2. slots \in Seq(SlotRecords)
    BY DEF TypeOK
  <2>. QED  BY <1>2, <2>1, <2>2 DEF Install
<1>3. DOMAIN slots' = DOMAIN slots \/ Install
  BY DEF Next, Host, CacheHit, CacheMiss, CompileOk, CompileFails, SaveOpen, SaveWrite, SaveWriteShort,
         SaveFails, ReplaceFile, ScriptReturn, ScriptLoad, ScriptPollReload, ScriptCall,
         ScriptUnload, Begin, Edit, ReturnsFalse, vars
<1>. QED  BY <1>1, <1>2, <1>3

\* The call in progress keeps its type.
LEMMA OpStep ==
  ASSUME ReloadInv, Next
  PROVE  /\ op' \in [pc : OpSteps, slot : {0} \cup DOMAIN slots', path : Paths \cup {Absent},
                     hash : Contents \cup {Absent}, prog : Programs \cup {Absent}]
         /\ op'.pc \in HasProgram => op'.prog \in Programs
<1>. USE ReloadAssumption, SlotTypes DEF ReloadInv
<1>. DEFINE OpRecords == [pc : OpSteps, slot : {0} \cup DOMAIN slots', path : Paths \cup {Absent},
                          hash : Contents \cup {Absent}, prog : Programs \cup {Absent}]
            Goal == op' \in OpRecords /\ (op'.pc \in HasProgram => op'.prog \in Programs)
<1>0. ~Crash => op \in OpRecords /\ (op.pc \in HasProgram => op.prog \in Programs)
  BY SlotsStay DEF TypeOK, HasProgram
<1>1. CASE op' = Idle
  BY <1>1 DEF Idle, OpSteps, HasProgram
<1>2. CASE op' = op /\ ~Crash
  BY <1>0, <1>2
<1>3. ASSUME NEW s \in {0} \cup DOMAIN slots, NEW p \in Paths, src[p] # Absent, Begin(s, p) PROVE Goal
  <2>1. src[p] \in Contents \cup {Absent}
    BY DEF TypeOK
  <2>2. slots' = slots
    BY <1>3 DEF Begin
  <2>. QED  BY <1>3, <2>1, <2>2 DEF Begin, OpSteps, HasProgram
<1>4. CASE CacheHit /\ ~Crash
  <2>1. Cached \in Images
    <3>1. OpCache \in Caches
      BY <1>4, CacheOfPath DEF CacheHit, OpCache, OpIsOfItsSlot, Loading
    <3>. QED  BY <1>4, <3>1 DEF CacheHit, CacheComplete, Cached, TypeOK, MaybeImages
  <2>2. [code |-> Cached.prog, backed |-> TRUE] \in Programs
    BY <2>1 DEF Images, Programs
  <2>. QED  BY <1>0, <1>4, <2>2 DEF CacheHit, OpSteps, HasProgram
<1>5. CASE CompileOk /\ ~Crash
  <2>1. [code |-> src[op.path], backed |-> FALSE] \in Programs
    BY <1>5 DEF CompileOk, Programs
  <2>. QED  BY <1>0, <1>5, <2>1 DEF CompileOk, OpSteps, HasProgram
<1>6. CASE (CacheMiss \/ SaveOpen \/ SaveWrite \/ SaveWriteShort \/ SaveFails \/ ReplaceFile) /\ ~Crash
  BY <1>0, <1>6 DEF CacheMiss, SaveOpen, SaveWrite, SaveWriteShort, SaveFails, ReplaceFile, OpSteps, HasProgram
<1>7. ASSUME NEW s \in DOMAIN slots, ScriptCall(s) PROVE Goal
  BY <1>7 DEF ScriptCall, Idle, OpSteps, HasProgram
<1>8. ASSUME NEW s \in DOMAIN slots, ScriptPollReload(s) PROVE Goal
  <2>1. slots[s].path \in Paths /\ src[slots[s].path] # Absent /\ Begin(s, slots[s].path)
    BY <1>8 DEF ScriptPollReload, SlotRecords
  <2>. QED  BY <1>3, <2>1
<1>9. ASSUME NEW p \in Paths, ScriptLoad(p) PROVE Goal
  BY <1>3, <1>9 DEF ScriptLoad
<1>10. CASE Crash
  BY <1>1, <1>10 DEF Crash
<1>11. CASE Host
  BY <1>1, <1>4, <1>5, <1>6, <1>10, <1>11 DEF Host, CompileFails, Install, ScriptReturn
<1>12. ASSUME \/ \E s \in DOMAIN slots : ScriptUnload(s)
              \/ \E p \in Paths, x \in Contents \cup {Absent} : Edit(p, x)
              \/ ReturnsFalse
       PROVE  op' = op
  BY <1>12 DEF ScriptUnload, Edit, ReturnsFalse, vars
<1>. QED  BY <1>2, <1>7, <1>8, <1>9, <1>10, <1>11, <1>12 DEF Next

\* The load or reload in progress stays a load with room or a reload of a slot
\* that is alive: the host thread makes no other call until it is done.
LEMMA OpSlotStep ==
  ASSUME ReloadInv, Next
  PROVE  OpIsOfItsSlot'
<1>. USE ReloadAssumption, SlotTypes DEF ReloadInv
<1>. SUFFICES ASSUME Loading'
              PROVE  /\ op'.path \in Paths /\ op'.hash \in Contents
                     /\ op'.slot = 0 => Len(slots') < MaxSlots
                     /\ op'.slot # 0 => /\ op'.slot \in DOMAIN slots' /\ slots'[op'.slot].alive
                                        /\ slots'[op'.slot].path = op'.path
  BY DEF OpIsOfItsSlot, Alive
<1>1. CASE Loading /\ op'.path = op.path /\ op'.hash = op.hash /\ op'.slot = op.slot /\ slots' = slots
  BY <1>1 DEF OpIsOfItsSlot, Alive
<1>2. CASE CacheHit \/ CacheMiss \/ SaveOpen \/ SaveWrite \/ SaveWriteShort \/ SaveFails \/ ReplaceFile
  <2>1. op'.path = op.path /\ op'.hash = op.hash /\ op'.slot = op.slot /\ slots' = slots
    BY <1>2 DEF TypeOK, CacheHit, CacheMiss, SaveOpen, SaveWrite, SaveWriteShort, SaveFails, ReplaceFile
  <2>2. Loading
    BY <1>2 DEF Loading, CacheHit, CacheMiss, SaveOpen, SaveWrite, SaveWriteShort, SaveFails, ReplaceFile
  <2>. QED  BY <1>1, <2>1, <2>2
<1>3. CASE CompileOk
  <2>1. op'.path = op.path /\ op'.hash = op.hash /\ op'.slot = op.slot /\ Loading
    BY <1>3 DEF TypeOK, CompileOk, Loading
  <2>2. CASE op.slot = 0
    BY <1>1, <1>3, <2>1, <2>2 DEF CompileOk
  <2>3. CASE op.slot # 0
    <3>1. /\ op.slot \in DOMAIN slots /\ slots[op.slot] \in SlotRecords
          /\ slots[op.slot].alive /\ slots[op.slot].path = op.path
          /\ op.path \in Paths /\ op.hash \in Contents
      BY <2>1, <2>3 DEF OpIsOfItsSlot, Alive
    <3>2. slots' = [slots EXCEPT ![op.slot].mapped = FALSE]
      BY <1>3, <2>3 DEF CompileOk
    <3>3. DOMAIN slots' = DOMAIN slots /\ slots'[op.slot] = [slots[op.slot] EXCEPT !.mapped = FALSE]
      BY <3>1, <3>2, Zenon
    <3>4. slots'[op.slot].alive /\ slots'[op.slot].path = op.path
      BY <3>1, <3>3 DEF SlotRecords
    <3>. QED  BY <2>1, <2>3, <3>1, <3>3, <3>4
  <2>. QED  BY <2>2, <2>3
<1>4. ASSUME op' = Idle PROVE FALSE
  BY <1>4 DEF Loading, Idle
<1>5. ASSUME NEW p \in Paths, ScriptLoad(p)
      PROVE  op'.path = p /\ op'.hash \in Contents /\ op'.slot = 0 /\ slots' = slots /\ Len(slots) < MaxSlots
  BY <1>5 DEF ScriptLoad, Begin, TypeOK
<1>6. ASSUME NEW s \in DOMAIN slots, ScriptPollReload(s)
      PROVE  /\ op'.path = slots[s].path /\ op'.path \in Paths
             /\ op'.hash \in Contents /\ op'.slot = s /\ slots' = slots
             /\ slots[s].alive
  <2>1. slots[s].path \in Paths
    BY DEF SlotRecords
  <2>. QED  BY <1>6, <2>1 DEF ScriptPollReload, Begin, TypeOK, Alive
<1>7. ASSUME NEW s \in DOMAIN slots, ScriptCall(s) PROVE FALSE
  BY <1>7 DEF ScriptCall, Idle, Loading
<1>8. ASSUME NEW s \in DOMAIN slots, ScriptUnload(s) PROVE FALSE
  BY <1>8 DEF ScriptUnload, Loading
<1>9. CASE UNCHANGED <<op, slots>>
  BY <1>1, <1>9 DEF Loading
<1>10. CASE Host
  BY <1>2, <1>3, <1>4, <1>10 DEF Host, CompileFails, Install, ScriptReturn
<1>11. CASE Crash
  BY <1>4, <1>11 DEF Crash
<1>12. ASSUME NEW p \in Paths, NEW x \in Contents \cup {Absent}, Edit(p, x) PROVE UNCHANGED <<op, slots>>
  BY <1>12 DEF Edit
<1>13. CASE ReturnsFalse
  BY <1>9, <1>13 DEF ReturnsFalse, vars
<1>. QED  BY <1>5, <1>6, <1>7, <1>8, <1>9, <1>10, <1>11, <1>12, <1>13 DEF Next

\* The file is what was hashed until it is compiled, or an edit raced.
LEMMA HashStep ==
  ASSUME ReloadInv, Next
  PROVE  HashIsOfTheSource'
<1>. USE DEF ReloadInv
<1>. SUFFICES ASSUME ~raced'
              PROVE  /\ op'.pc \in {"cache", "compile"} => src'[op'.path] = op'.hash
                     /\ op'.pc \in {"save", "write", "replace"} => op'.prog.code = op'.hash
  BY DEF HashIsOfTheSource
<1>1. ASSUME NEW p \in Paths, NEW x \in Contents \cup {Absent}, Edit(p, x)
      PROVE  /\ op'.pc \in {"cache", "compile"} => src'[op'.path] = op'.hash
             /\ op'.pc \in {"save", "write", "replace"} => op'.prog.code = op'.hash
  <2>1. op' = op /\ ~raced /\ ~(op.pc \in {"cache", "compile"} /\ op.path = p) /\ src' = [src EXCEPT ![p] = x]
    BY <1>1 DEF Edit
  <2>2. op.pc \in {"cache", "compile"} => op.path \in Paths
    BY DEF OpIsOfItsSlot, Loading
  <2>. QED  BY <2>1, <2>2 DEF HashIsOfTheSource, TypeOK
<1>2. CASE UNCHANGED files
  <2>0. ~raced /\ src' = src
    BY <1>2 DEF files
  <2>1. CASE op' = op
    BY <2>0, <2>1 DEF HashIsOfTheSource
  <2>2. CASE op'.pc \in {"idle", "run", "install"}
    BY <2>2
  <2>3. ASSUME NEW s, NEW p, Begin(s, p) PROVE op'.pc = "cache" /\ op'.path = p /\ op'.hash = src[p]
    BY <2>3 DEF Begin
  <2>4. CASE CacheMiss
    <3>1. op'.pc = "compile" /\ op'.path = op.path /\ op'.hash = op.hash /\ op.pc = "cache"
      BY <2>4 DEF CacheMiss, TypeOK
    <3>. QED  BY <2>0, <3>1 DEF HashIsOfTheSource
  <2>5. CASE CompileOk
    <3>1. op'.pc = "save" /\ op'.hash = op.hash /\ op'.prog.code = src[op.path] /\ op.pc = "compile"
      BY <2>5 DEF CompileOk, TypeOK
    <3>. QED  BY <2>0, <3>1 DEF HashIsOfTheSource
  <2>6. CASE SaveOpen \/ SaveWrite \/ SaveWriteShort
    <3>1. /\ op'.pc \in {"write", "replace"} /\ op'.hash = op.hash /\ op'.prog = op.prog
          /\ op.pc \in {"save", "write"}
      BY <2>6 DEF SaveOpen, SaveWrite, SaveWriteShort, TypeOK
    <3>. QED  BY <2>0, <3>1 DEF HashIsOfTheSource
  <2>7. CASE CacheHit \/ SaveFails \/ ReplaceFile
    BY <2>2, <2>7 DEF CacheHit, SaveFails, ReplaceFile, TypeOK
  <2>8. ASSUME op' = Idle PROVE op'.pc \in {"idle", "run", "install"}
    BY <2>8 DEF Idle
  <2>9. ASSUME NEW s, ScriptCall(s) PROVE op'.pc \in {"idle", "run", "install"}
    BY <2>9 DEF ScriptCall, Idle
  <2>10. CASE Host
    BY <2>2, <2>4, <2>5, <2>6, <2>7, <2>8, <2>10 DEF Host, CompileFails, Install, ScriptReturn
  <2>11. ASSUME NEW p, ScriptLoad(p) PROVE op'.pc = "cache" /\ op'.hash = src[op'.path]
    BY <2>3, <2>11 DEF ScriptLoad
  <2>12. ASSUME NEW s, ScriptPollReload(s) PROVE op'.pc = "cache" /\ op'.hash = src[op'.path]
    BY <2>3, <2>12 DEF ScriptPollReload
  <2>13. ASSUME \/ \E s \in DOMAIN slots : ScriptUnload(s)
                \/ \E p \in Paths, x \in Contents \cup {Absent} : Edit(p, x)
                \/ ReturnsFalse
         PROVE  op' = op
    BY <2>13 DEF ScriptUnload, Edit, ReturnsFalse, vars
  <2>14. CASE Crash
    BY <2>2, <2>8, <2>14 DEF Crash
  <2>. QED  BY <2>0, <2>1, <2>2, <2>9, <2>10, <2>11, <2>12, <2>13, <2>14 DEF Next
<1>. QED
  BY <1>1, <1>2
     DEF Next, Host, CacheHit, CacheMiss, CompileOk, CompileFails, SaveOpen, SaveWrite, SaveWriteShort, SaveFails,
         ReplaceFile, Install, ScriptReturn, ScriptLoad, ScriptPollReload, ScriptCall,
         ScriptUnload, Begin, Crash, ReturnsFalse, vars

\* What is about to be renamed is what was written.
LEMMA TmpStep ==
  ASSUME ReloadInv, Next
  PROVE  TmpIsWritten'
<1>. USE DEF ReloadInv
<1>. SUFFICES ASSUME op'.pc = "replace"
              PROVE  tmp'[OpCache'] \in {[hash |-> op'.hash, prog |-> op'.prog.code], Short}
  BY DEF TmpIsWritten
<1>1. CASE SaveWrite \/ SaveWriteShort
  <2>1. /\ op'.path = op.path /\ op'.hash = op.hash /\ op'.prog = op.prog
        /\ op.path \in Paths
    BY <1>1 DEF SaveWrite, SaveWriteShort, TypeOK, OpIsOfItsSlot, Loading
  <2>2. OpCache' = OpCache /\ OpCache \in Caches
    BY <2>1, CacheOfPath DEF OpCache, cache_path_for
  <2>3. \/ tmp' = [tmp EXCEPT ![OpCache] = [hash |-> op.hash, prog |-> op.prog.code]]
        \/ tmp' = [tmp EXCEPT ![OpCache] = Short]
    BY <1>1 DEF SaveWrite, SaveWriteShort
  <2>. QED  BY <2>1, <2>2, <2>3 DEF TypeOK
<1>2. CASE UNCHANGED <<op, tmp>>
  BY <1>2 DEF TmpIsWritten, OpCache
<1>3. ASSUME op' = Idle PROVE FALSE
  BY <1>3 DEF Idle
<1>4. ASSUME CacheHit \/ CacheMiss \/ CompileOk \/ SaveOpen \/ SaveFails \/ ReplaceFile PROVE FALSE
  BY <1>4 DEF CacheHit, CacheMiss, CompileOk, SaveOpen, SaveFails, ReplaceFile, TypeOK
<1>5. ASSUME NEW s, ScriptCall(s) PROVE FALSE
  BY <1>5 DEF ScriptCall, Idle
<1>6. ASSUME NEW s, NEW p, Begin(s, p) PROVE FALSE
  BY <1>6 DEF Begin
<1>7. ASSUME \/ \E s \in DOMAIN slots : ScriptUnload(s)
             \/ \E p \in Paths, x \in Contents \cup {Absent} : Edit(p, x)
             \/ ReturnsFalse
      PROVE  UNCHANGED <<op, tmp>>
  BY <1>7 DEF ScriptUnload, Edit, ReturnsFalse, vars
<1>. QED
  BY <1>1, <1>2, <1>3, <1>4, <1>5, <1>6, <1>7
     DEF Next, Host, CompileFails, Install, ScriptReturn, ScriptLoad, ScriptPollReload, Crash

\* A mapping goes only when the program that replaces it is at hand.
LEMMA ReadableStep ==
  ASSUME ReloadInv, Next
  PROVE  RunnableIsReadable'
<1>. USE SlotTypes DEF ReloadInv
<1>. SUFFICES ASSUME NEW s \in DOMAIN slots',
                     slots'[s].alive, slots'[s].prog.backed, ~slots'[s].mapped
              PROVE  op'.slot = s /\ op'.pc \in HasProgram
  BY DEF RunnableIsReadable, HasProgram
<1>1. CASE slots' = slots /\ op.pc \notin HasProgram
  BY <1>1 DEF RunnableIsReadable, HasProgram
<1>2. CASE slots' = slots /\ op'.slot = op.slot /\ op'.pc \in HasProgram
  BY <1>2 DEF RunnableIsReadable, HasProgram
<1>3. CASE CompileOk
  <2>1. op'.slot = op.slot /\ op'.pc \in HasProgram /\ op.pc \notin HasProgram
    BY <1>3 DEF CompileOk, TypeOK, HasProgram
  <2>2. CASE op.slot = 0
    BY <1>1, <1>3, <2>1, <2>2 DEF CompileOk
  <2>3. CASE op.slot # 0 /\ s # op.slot
    <3>1. slots'[s] = slots[s] /\ s \in DOMAIN slots
      BY <1>3, <2>3 DEF CompileOk
    <3>. QED  BY <2>1, <3>1 DEF RunnableIsReadable, HasProgram
  <2>. QED  BY <2>1, <2>2, <2>3
<1>4. CASE CompileFails
  <2>1. op.pc \notin HasProgram
    BY <1>4 DEF CompileFails, HasProgram
  <2>2. CASE op.slot = 0
    BY <1>1, <1>4, <2>1, <2>2 DEF CompileFails
  <2>3. CASE op.slot # 0
    <3>1. slots' = [slots EXCEPT ![op.slot].hash = op.hash] /\ s \in DOMAIN slots
      BY <1>4, <2>3 DEF CompileFails
    <3>2. /\ slots'[s].alive = slots[s].alive /\ slots'[s].prog = slots[s].prog
          /\ slots'[s].mapped = slots[s].mapped
      BY <3>1 DEF SlotRecords
    <3>. QED  BY <2>1, <3>1, <3>2 DEF RunnableIsReadable, HasProgram
  <2>. QED  BY <2>2, <2>3
<1>5. CASE Install
  <2>1. Slot.mapped = Slot.prog.backed
    BY DEF Slot
  <2>2. CASE op.slot = 0
    <3>1. slots' = Append(slots, Slot) /\ slots \in Seq(SlotRecords)
      BY <1>5, <2>2 DEF Install, TypeOK
    <3>2. s \in DOMAIN slots \/ s = Len(slots) + 1
      BY <3>1
    <3>3. CASE s \in DOMAIN slots
      <4>1. slots'[s] = slots[s] /\ s # 0
        BY <3>1, <3>3
      <4>. QED  BY <2>2, <3>3, <4>1 DEF RunnableIsReadable
    <3>4. CASE s = Len(slots) + 1
      <4>1. slots'[s] = Slot
        BY <3>1, <3>4
      <4>. QED  BY <2>1, <4>1
    <3>. QED  BY <3>2, <3>3, <3>4
  <2>3. CASE op.slot # 0
    <3>1. slots' = [slots EXCEPT ![op.slot] = Slot] /\ s \in DOMAIN slots /\ op.slot \in DOMAIN slots
      BY <1>5, <2>3 DEF Install, TypeOK
    <3>2. CASE s = op.slot
      BY <2>1, <3>1, <3>2
    <3>3. CASE s # op.slot
      <4>1. slots'[s] = slots[s]
        BY <3>1, <3>3
      <4>. QED  BY <3>1, <3>3, <4>1 DEF RunnableIsReadable
    <3>. QED  BY <3>2, <3>3
  <2>. QED  BY <2>2, <2>3
<1>6. ASSUME NEW u \in DOMAIN slots, ScriptUnload(u)
      PROVE  op'.slot = s /\ op'.pc \in HasProgram
  <2>1. /\ slots' = [slots EXCEPT ![u].alive = FALSE, ![u].mapped = FALSE]
        /\ op.pc \notin HasProgram /\ s \in DOMAIN slots
    BY <1>6 DEF ScriptUnload, HasProgram
  <2>2. CASE s = u
    <3>1. slots'[u] = [slots[u] EXCEPT !.alive = FALSE, !.mapped = FALSE]
      BY <2>1
    <3>. QED  BY <2>2, <3>1 DEF SlotRecords
  <2>3. CASE s # u
    <3>1. slots'[s] = slots[s]
      BY <2>1, <2>3
    <3>. QED  BY <2>1, <3>1 DEF RunnableIsReadable, HasProgram
  <2>. QED  BY <2>2, <2>3
<1>7. CASE Crash
  BY <1>7 DEF Crash
<1>8. CASE CacheHit \/ CacheMiss \/ ScriptReturn \/ (\E p \in Paths : ScriptLoad(p))
           \/ (\E u \in DOMAIN slots : ScriptPollReload(u) \/ ScriptCall(u))
  <2>1. slots' = slots /\ op.pc \notin HasProgram
    BY <1>8 DEF CacheHit, CacheMiss, ScriptReturn, ScriptLoad, ScriptPollReload, ScriptCall,
                Begin, HasProgram
  <2>. QED  BY <1>1, <2>1
<1>9. CASE SaveOpen \/ SaveWrite \/ SaveWriteShort \/ SaveFails \/ ReplaceFile
  <2>1. slots' = slots /\ op'.slot = op.slot /\ op'.pc \in HasProgram
    BY <1>9 DEF SaveOpen, SaveWrite, SaveWriteShort, SaveFails, ReplaceFile, TypeOK, HasProgram
  <2>. QED  BY <1>2, <2>1
<1>10. CASE UNCHANGED <<op, slots>>
  BY <1>10 DEF RunnableIsReadable, HasProgram
<1>. QED
  BY <1>3, <1>4, <1>5, <1>6, <1>7, <1>8, <1>9, <1>10 DEF Next, Host, Edit, ReturnsFalse, vars

\* A cache file is replaced by a complete one, or stays.
LEMMA CacheStep ==
  ASSUME ReloadInv, Next
  PROVE  CacheHoldsItsSource'
<1>. USE ReloadAssumption DEF ReloadInv
<1>1. ~raced' => ~raced
  BY DEF Next, Host, CacheHit, CacheMiss, CompileOk, CompileFails, SaveOpen, SaveWrite, SaveWriteShort, SaveFails,
         ReplaceFile, Install, ScriptReturn, ScriptLoad, ScriptPollReload, ScriptCall,
         ScriptUnload, Begin, Edit, Crash, ReturnsFalse, vars, files
<1>2. CASE cache' = cache
  BY <1>1, <1>2 DEF CacheHoldsItsSource
<1>3. CASE ReplaceFile /\ cache' # cache
  <2>. DEFINE img == [hash |-> op.hash, prog |-> op.prog.code]
              new == tmp[OpCache]
  <2>1. /\ op.path \in Paths /\ op.hash \in Contents /\ op.prog \in Programs
        /\ op.pc = "replace"
    BY <1>3 DEF ReplaceFile, OpIsOfItsSlot, Loading, TypeOK
  <2>2. cache' = [cache EXCEPT ![OpCache] = new] /\ new \in {img, Short}
    BY <1>3 DEF ReplaceFile, TmpIsWritten
  <2>3. img \in Images
    BY <2>1 DEF Images, Programs
  <2>4. img # Torn /\ Short # Torn /\ Short \notin Images
    BY <2>3, ReloadAssumption, Zenon
  <2>5. ~raced => img.hash = img.prog
    BY <2>1 DEF HashIsOfTheSource
  <2>. SUFFICES ASSUME NEW c \in Caches
                PROVE  cache'[c] # Torn /\ (cache'[c] \in Images /\ ~raced' => cache'[c].hash = cache'[c].prog)
    BY DEF CacheHoldsItsSource
  <2>6. CASE c = OpCache
    <3>1. cache'[c] \in {img, Short}
      BY <2>2, <2>6 DEF TypeOK
    <3>. QED  BY <1>1, <2>4, <2>5, <3>1
  <2>7. CASE c # OpCache
    <3>1. cache'[c] = cache[c]
      BY <2>2, <2>7 DEF TypeOK
    <3>. QED  BY <1>1, <3>1 DEF CacheHoldsItsSource
  <2>. QED  BY <2>6, <2>7
<1>4. cache' = cache \/ ReplaceFile
  BY DEF Next, Host, CacheHit, CacheMiss, CompileOk, CompileFails, SaveOpen, SaveWrite, SaveWriteShort, SaveFails,
         Install, ScriptReturn, ScriptLoad, ScriptPollReload, ScriptCall,
         ScriptUnload, Begin, Edit, Crash, ReturnsFalse, vars
<1>. QED  BY <1>2, <1>3, <1>4

-----------------------------------------------------------------------------
\* Every step of the host, the editor and a crash keeps the invariant.
LEMMA ReloadStep == ReloadInv /\ [Next]_vars => ReloadInv'
<1>. SUFFICES ASSUME ReloadInv, [Next]_vars PROVE ReloadInv'
  OBVIOUS
<1>1. CASE Next
  <2>1. TypeOK'
    BY <1>1, SlotsStep, FilesStep, OpStep DEF TypeOK, HasProgram
  <2>. QED
    BY <1>1, <2>1, OpSlotStep, HashStep, TmpStep, ReadableStep, CacheStep DEF ReloadInv
<1>2. CASE UNCHANGED vars
  <2>. USE <1>2 DEF vars, files, ReloadInv
  <2>1. TypeOK'
    BY DEF TypeOK
  <2>2. OpIsOfItsSlot' /\ HashIsOfTheSource' /\ TmpIsWritten'
    BY DEF OpIsOfItsSlot, Loading, Alive, HashIsOfTheSource, TmpIsWritten, OpCache
  <2>3. RunnableIsReadable' /\ CacheHoldsItsSource'
    BY DEF RunnableIsReadable, CacheHoldsItsSource
  <2>. QED  BY <2>1, <2>2, <2>3
<1>. QED  BY <1>1, <1>2

\* The invariant of hot reloading holds in every state of the host.
THEOREM ReloadInvariance == SafeSpec => []ReloadInv
  BY ReloadInit, ReloadStep, PTL DEF SafeSpec

\* A script that can be called can be read: load_or_compile_script drops the
\* mapping of the outgoing program only with its successor in hand, whatever
\* the editor does to the source in between.
THEOREM LiveScriptsAreReadable == Spec => []RunnableIsReadable
<1>1. ReloadInv => RunnableIsReadable
  BY DEF ReloadInv
<1>. QED  BY <1>1, ReloadInvariance, PTL DEF Spec

\* No crash and no write that file_store sees fail leaves a cache file that is
\* torn, and without a race with the editor the program in one that is complete
\* is the one its hash names, also after files whose end was lost as they were
\* closed have taken the cache's place.
THEOREM CachesAreOfTheirSources == Spec => []CacheHoldsItsSource
<1>1. ReloadInv => CacheHoldsItsSource
  BY DEF ReloadInv
<1>. QED  BY <1>1, ReloadInvariance, PTL DEF Spec

\* A handle keeps naming the script it was given for, and an unloaded one stays
\* dead: script_load appends, and only the slot's own reload writes it.
THEOREM DeadHandlesStayDead == Spec => HandlesStayDead
<1>. DEFINE Kept == \A s \in DOMAIN slots : s \in DOMAIN slots' =>
                      slots'[s].path = slots[s].path /\ (slots'[s].alive => slots[s].alive)
<1>1. ReloadInv /\ [Next]_vars => [Kept]_vars
  <2>. SUFFICES ASSUME ReloadInv, Next, NEW s \in DOMAIN slots, s \in DOMAIN slots'
                PROVE  slots'[s].path = slots[s].path /\ (slots'[s].alive => slots[s].alive)
    OBVIOUS
  <2>. USE SlotTypes DEF ReloadInv
  <2>1. CASE slots' = slots
    BY <2>1
  <2>2. CASE CompileOk
    <3>1. CASE op.slot = 0 \/ s # op.slot
      BY <2>2, <3>1 DEF CompileOk
    <3>2. CASE op.slot # 0 /\ s = op.slot
      <4>1. slots'[s] = [slots[s] EXCEPT !.mapped = FALSE]
        BY <2>2, <3>2 DEF CompileOk
      <4>. QED  BY <4>1 DEF SlotRecords
    <3>. QED  BY <3>1, <3>2
  <2>3. CASE CompileFails
    <3>1. CASE op.slot = 0 \/ s # op.slot
      BY <2>3, <3>1 DEF CompileFails
    <3>2. CASE op.slot # 0 /\ s = op.slot
      <4>1. slots'[s] = [slots[s] EXCEPT !.hash = op.hash]
        BY <2>3, <3>2 DEF CompileFails
      <4>. QED  BY <4>1 DEF SlotRecords
    <3>. QED  BY <3>1, <3>2
  <2>4. CASE Install
    <3>1. CASE op.slot = 0
      <4>1. slots' = Append(slots, Slot) /\ slots \in Seq(SlotRecords)
        BY <2>4, <3>1 DEF Install, TypeOK
      <4>2. slots'[s] = slots[s]
        BY <4>1
      <4>. QED  BY <4>2
    <3>2. CASE op.slot # 0
      <4>1. slots' = [slots EXCEPT ![op.slot] = Slot] /\ Alive(op.slot) /\ slots[op.slot].path = op.path
        BY <2>4, <3>2 DEF Install, OpIsOfItsSlot, Loading
      <4>2. Slot.path = op.path
        BY DEF Slot
      <4>. QED  BY <4>1, <4>2 DEF Alive
    <3>. QED  BY <3>1, <3>2
  <2>5. ASSUME NEW u \in DOMAIN slots, ScriptUnload(u)
        PROVE  slots'[s].path = slots[s].path /\ (slots'[s].alive => slots[s].alive)
    <3>1. CASE s = u
      <4>1. slots'[s] = [slots[s] EXCEPT !.alive = FALSE, !.mapped = FALSE]
        BY <2>5, <3>1 DEF ScriptUnload
      <4>. QED  BY <4>1 DEF SlotRecords
    <3>2. CASE s # u
      BY <2>5, <3>2 DEF ScriptUnload
    <3>. QED  BY <3>1, <3>2
  <2>6. CASE Crash
    BY <2>6 DEF Crash
  <2>. QED
    BY <2>1, <2>2, <2>3, <2>4, <2>5, <2>6
       DEF Next, Host, CacheHit, CacheMiss, SaveOpen, SaveWrite, SaveWriteShort, SaveFails, ReplaceFile, ScriptReturn,
           ScriptLoad, ScriptPollReload, ScriptCall, Begin, Edit, ReturnsFalse, vars
<1>. QED  BY <1>1, ReloadInvariance, PTL DEF Spec, SafeSpec, HandlesStayDead

=============================================================================
