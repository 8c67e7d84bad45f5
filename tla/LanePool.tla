------------------------------ MODULE LanePool ------------------------------
(***************************************************************************)
(* The fork/join pool behind every `parallel` block: a main thread and     *)
(* LaneCount lane threads that share two condition variables, one mutex    *)
(* and four atomics.  runtime/bbb_thread.c is the copy linked into compiled *)
(* programs, base/base.c the compiler's own, which adds the shutdown.      *)
(*                                                                         *)
(* One step is one access to shared memory, or one mutex or condition      *)
(* variable call.  The atomics are sequentially consistent (plain          *)
(* atomic_load/atomic_store), so interleaving is the whole memory model;   *)
(* bbb_g_3b_lane_job, the one plain global, is only ordered by them.       *)
(*                                                                         *)
(* A phase function and a capture struct are represented by the number of  *)
(* the phase they were made for; 0 is the null pointer.                    *)
(***************************************************************************)
EXTENDS Naturals, FiniteSets

CONSTANTS Cores,      \* what os_get_core_count returns
          MaxPhases,  \* bound: how many `parallel` blocks the program runs
          Timeouts    \* may a timed condition wait end before it is signalled?

ASSUME CoresAssumption == Cores \in Nat \ {0}
ASSUME MaxPhasesAssumption == MaxPhases \in Nat
ASSUME TimeoutsAssumption == Timeouts \in BOOLEAN

LaneCount == IF Cores > 1 THEN Cores - 1 ELSE 1
Lanes == 0 .. LaneCount - 1

\* Mutex owners besides the lanes.
Main == LaneCount
NoThread == LaneCount + 1
Threads == 0 .. LaneCount
Null == 0

VARIABLES
  generation,  \* g_phase_generation
  completed,   \* g_completed_generation
  doneCount,   \* g_phase_done_count
  phaseFn,     \* g_phase_fn
  asyncExit,   \* g_async_exit
  mutex,       \* the owner of g_phase_mutex
  startQ,      \* lanes asleep on g_phase_start_cv
  doneQ,       \* main asleep on g_phase_done_cv
  laneJob,     \* bbb_g_3b_lane_job
  liveCapture, \* the capture struct now in scope on main's stack
  mainPc, idx, \* main's place, and its loop index over the lane threads
  lanePc, lastSeen, fn, cap,  \* each lane's place and its locals
  ran          \* history: how many phase bodies each lane has finished

shared == <<generation, completed, doneCount, phaseFn, asyncExit>>
sync == <<mutex, startQ, doneQ>>
job == <<laneJob, liveCapture>>
main == <<mainPc, idx>>
laneLocals == <<lastSeen, fn, cap>>
vars == <<shared, sync, job, main, lanePc, laneLocals, ran>>

Init ==
  /\ generation = 0 /\ completed = 0 /\ doneCount = 0
  /\ phaseFn = Null /\ asyncExit = FALSE
  /\ mutex = NoThread /\ startQ = {} /\ doneQ = FALSE
  /\ laneJob = Null /\ liveCapture = Null
  /\ mainPc = "launch" /\ idx = 0
  /\ lanePc = [l \in Lanes |-> "unborn"]
  /\ lastSeen = [l \in Lanes |-> 0]
  /\ fn = [l \in Lanes |-> Null]
  /\ cap = [l \in Lanes |-> Null]
  /\ ran = [l \in Lanes |-> 0]

-----------------------------------------------------------------------------
(* The mutex and the two condition variables. *)

\* Thread t takes the mutex; it waits while another thread has it.
Take(t) == mutex = NoThread /\ mutex' = t

\* Thread t, which has the mutex, gives it back.
Drop(t) == mutex = t /\ mutex' = NoThread

\* Mutant: pthread_cond_signal in place of the broadcast.
BroadcastStartWakesOne ==
  \E woken \in {q \in SUBSET startQ : Cardinality(q) <= 1 /\ (q = {} => startQ = {})} :
    /\ startQ' = startQ \ woken
    /\ lanePc' = [l \in Lanes |-> IF l \in woken THEN "lock" ELSE lanePc[l]]

\* cond_var_broadcast(g_phase_start_cv): every sleeping lane goes back to
\* contend for the mutex.
BroadcastStart ==
  /\ startQ' = {}
  /\ lanePc' = [l \in Lanes |-> IF l \in startQ THEN "lock" ELSE lanePc[l]]

-----------------------------------------------------------------------------
(* The main thread. *)

MainAt(from, to) == mainPc = from /\ mainPc' = to

\* async_threads_init: launch the lane threads in order of their index.
Launch ==
  /\ mainPc = "launch"
  /\ lanePc' = [lanePc EXCEPT ![idx] = "lock"]
  /\ IF idx + 1 = LaneCount
     THEN mainPc' = "idle" /\ idx' = 0
     ELSE mainPc' = "launch" /\ idx' = idx + 1
  /\ UNCHANGED <<shared, sync, job, laneLocals, ran>>

\* A `parallel` block: the capture struct comes into scope on main's stack,
\* the shared job slot is pointed at it, and async_run_phase is entered.
EnterParallel ==
  /\ generation < MaxPhases
  /\ MainAt("idle", "storeFn")
  /\ liveCapture' = generation + 1
  /\ laneJob' = liveCapture'
  /\ UNCHANGED <<shared, sync, idx, lanePc, laneLocals, ran>>

\* async_run_phase publishes the function, zeroes the count, and only then
\* publishes the generation; none of this under the mutex.
StoreFn ==
  /\ MainAt("storeFn", "storeCount")
  /\ phaseFn' = generation + 1
  /\ UNCHANGED <<generation, completed, doneCount, asyncExit, sync, job, idx,
                 lanePc, laneLocals, ran>>

StoreCount ==
  /\ MainAt("storeCount", "storeGeneration")
  /\ doneCount' = 0
  /\ UNCHANGED <<generation, completed, phaseFn, asyncExit, sync, job, idx,
                 lanePc, laneLocals, ran>>

StoreGeneration ==
  /\ MainAt("storeGeneration", "lockStart")
  /\ generation' = generation + 1
  /\ UNCHANGED <<completed, doneCount, phaseFn, asyncExit, sync, job, idx,
                 lanePc, laneLocals, ran>>

LockStart ==
  /\ MainAt("lockStart", "signalStart")
  /\ Take(Main)
  /\ UNCHANGED <<shared, startQ, doneQ, job, idx, lanePc, laneLocals, ran>>

SignalStart ==
  /\ MainAt("signalStart", "lockWait")
  /\ BroadcastStart
  /\ Drop(Main)
  /\ UNCHANGED <<shared, doneQ, job, idx, laneLocals, ran>>

\* async_phase_wait: main sleeps until the completed generation has caught
\* up with the one it started (main is the only thread that starts phases,
\* so the generation it was given is still the current one).
LockWait ==
  /\ MainAt("lockWait", "checkDone")
  /\ Take(Main)
  /\ UNCHANGED <<shared, startQ, doneQ, job, idx, lanePc, laneLocals, ran>>

CheckDone ==
  /\ mainPc = "checkDone"
  /\ mainPc' = IF completed < generation THEN "sleep" ELSE "dropWait"
  /\ UNCHANGED <<shared, sync, job, idx, lanePc, laneLocals, ran>>

SleepDone ==
  /\ MainAt("sleep", "asleep")
  /\ Drop(Main)
  /\ doneQ' = TRUE
  /\ UNCHANGED <<shared, startQ, job, idx, lanePc, laneLocals, ran>>

\* Mutant: `if` in place of `while`; one timed wait and main goes on.
DoneTimeoutGivesUp ==
  /\ Timeouts
  /\ MainAt("asleep", "dropWait")
  /\ Take(Main)
  /\ doneQ' = FALSE
  /\ UNCHANGED <<shared, startQ, job, idx, lanePc, laneLocals, ran>>

DoneTimeout ==
  /\ Timeouts
  /\ MainAt("asleep", "lockWait")
  /\ doneQ' = FALSE
  /\ UNCHANGED <<shared, mutex, startQ, job, idx, lanePc, laneLocals, ran>>

DropWait ==
  /\ MainAt("dropWait", "leave")
  /\ Drop(Main)
  /\ UNCHANGED <<shared, startQ, doneQ, job, idx, lanePc, laneLocals, ran>>

\* The end of the block: the capture struct goes out of scope; the job slot
\* is left dangling.
LeaveParallel ==
  /\ MainAt("leave", "idle")
  /\ liveCapture' = Null
  /\ UNCHANGED <<shared, sync, laneJob, idx, lanePc, laneLocals, ran>>

\* async_threads_shutdown: raise the flag, wake the lanes, join them in
\* order, then release the mutex, the condition variables and the barrier.
RaiseExit ==
  /\ MainAt("idle", "lockExit")
  /\ asyncExit' = TRUE
  /\ UNCHANGED <<generation, completed, doneCount, phaseFn, sync, job, idx,
                 lanePc, laneLocals, ran>>

LockExit ==
  /\ MainAt("lockExit", "signalExit")
  /\ Take(Main)
  /\ UNCHANGED <<shared, startQ, doneQ, job, idx, lanePc, laneLocals, ran>>

SignalExit ==
  /\ MainAt("signalExit", "join")
  /\ BroadcastStart
  /\ Drop(Main)
  /\ UNCHANGED <<shared, doneQ, job, idx, laneLocals, ran>>

Join ==
  /\ mainPc = "join"
  /\ lanePc[idx] = "exited"
  /\ idx' = idx + 1
  /\ mainPc' = IF idx + 1 = LaneCount THEN "released" ELSE "join"
  /\ UNCHANGED <<shared, sync, job, lanePc, laneLocals, ran>>

\* Nothing is left to run once the pool is released.
Released == mainPc = "released" /\ UNCHANGED vars

MainStep ==
  \/ Launch \/ EnterParallel \/ StoreFn \/ StoreCount \/ StoreGeneration
  \/ LockStart \/ SignalStart \/ LockWait \/ CheckDone \/ SleepDone
  \/ DropWait \/ LeaveParallel \/ RaiseExit \/ LockExit \/ SignalExit \/ Join

-----------------------------------------------------------------------------
(* A lane thread: lane_thread_entry, lane_thread_main. *)

LaneAt(l, from, to) ==
  lanePc[l] = from /\ lanePc' = [lanePc EXCEPT ![l] = to]

\* Take the mutex, at the top of the loop and again after every wait.
LaneLock(l) ==
  /\ LaneAt(l, "lock", "checkGeneration")
  /\ Take(l)
  /\ UNCHANGED <<shared, startQ, doneQ, job, main, laneLocals, ran>>

\* The two loads of the while condition.
LaneCheckGeneration(l) ==
  /\ LaneAt(l, "checkGeneration",
            IF generation = lastSeen[l] THEN "checkExit" ELSE "drop")
  /\ UNCHANGED <<shared, sync, job, main, laneLocals, ran>>

\* Mutant: the while condition looks at the generation only.
LaneCheckExitDropped(l) ==
  /\ LaneAt(l, "checkExit", "sleep")
  /\ UNCHANGED <<shared, sync, job, main, laneLocals, ran>>

LaneCheckExit(l) ==
  /\ LaneAt(l, "checkExit", IF asyncExit THEN "drop" ELSE "sleep")
  /\ UNCHANGED <<shared, sync, job, main, laneLocals, ran>>

\* cond_var_wait gives up the mutex and falls asleep in one step.
LaneSleep(l) ==
  /\ LaneAt(l, "sleep", "asleep")
  /\ Drop(l)
  /\ startQ' = startQ \cup {l}
  /\ UNCHANGED <<shared, doneQ, job, main, laneLocals, ran>>

LaneTimeout(l) ==
  /\ Timeouts
  /\ LaneAt(l, "asleep", "lock")
  /\ startQ' = startQ \ {l}
  /\ UNCHANGED <<shared, mutex, doneQ, job, main, laneLocals, ran>>

LaneDrop(l) ==
  /\ LaneAt(l, "drop", "testExit")
  /\ Drop(l)
  /\ UNCHANGED <<shared, startQ, doneQ, job, main, laneLocals, ran>>

LaneTestExit(l) ==
  /\ LaneAt(l, "testExit", IF asyncExit THEN "exited" ELSE "loadGeneration")
  /\ UNCHANGED <<shared, sync, job, main, laneLocals, ran>>

\* Mutant: last_seen_generation is not brought up to date.
LaneLoadGenerationStale(l) ==
  /\ LaneAt(l, "loadGeneration", "loadFn")
  /\ UNCHANGED <<shared, sync, job, main, laneLocals, ran>>

\* The generation is loaded a second time, outside the mutex.
LaneLoadGeneration(l) ==
  /\ LaneAt(l, "loadGeneration", "loadFn")
  /\ lastSeen' = [lastSeen EXCEPT ![l] = generation]
  /\ UNCHANGED <<shared, sync, job, main, fn, cap, ran>>

LaneLoadFn(l) ==
  /\ LaneAt(l, "loadFn", IF phaseFn # Null THEN "call" ELSE "count")
  /\ fn' = [fn EXCEPT ![l] = phaseFn]
  /\ UNCHANGED <<shared, sync, job, main, lastSeen, cap, ran>>

\* The trampoline starts by fetching its captures from the job slot, uses
\* them for as long as the body runs, and returns.
LaneEnterBody(l) ==
  /\ LaneAt(l, "call", "body")
  /\ cap' = [cap EXCEPT ![l] = laneJob]
  /\ UNCHANGED <<shared, sync, job, main, lastSeen, fn, ran>>

LaneLeaveBody(l) ==
  /\ LaneAt(l, "body", "count")
  /\ ran' = [ran EXCEPT ![l] = ran[l] + 1]
  /\ UNCHANGED <<shared, sync, job, main, laneLocals>>

\* Whoever brings the count to lane_count publishes the completion.
LaneCountDone(l) ==
  /\ LaneAt(l, "count",
            IF doneCount + 1 = LaneCount THEN "lockDone" ELSE "lock")
  /\ doneCount' = doneCount + 1
  /\ UNCHANGED <<generation, completed, phaseFn, asyncExit, sync, job, main,
                 laneLocals, ran>>

LaneLockDone(l) ==
  /\ LaneAt(l, "lockDone", "storeCompleted")
  /\ Take(l)
  /\ UNCHANGED <<shared, startQ, doneQ, job, main, laneLocals, ran>>

LaneStoreCompleted(l) ==
  /\ LaneAt(l, "storeCompleted", "signalDone")
  /\ completed' = lastSeen[l]
  /\ UNCHANGED <<generation, doneCount, phaseFn, asyncExit, sync, job, main,
                 laneLocals, ran>>

\* Mutant: the completion is stored but nobody is told.
LaneSignalDoneSilent(l) ==
  /\ LaneAt(l, "signalDone", "lock")
  /\ Drop(l)
  /\ UNCHANGED <<shared, startQ, doneQ, job, main, laneLocals, ran>>

LaneSignalDone(l) ==
  /\ LaneAt(l, "signalDone", "lock")
  /\ Drop(l)
  /\ doneQ' = FALSE
  /\ mainPc' = IF doneQ THEN "lockWait" ELSE mainPc
  /\ UNCHANGED <<shared, startQ, job, idx, laneLocals, ran>>

LaneStep(l) ==
  \/ LaneLock(l) \/ LaneCheckGeneration(l) \/ LaneCheckExit(l)
  \/ LaneSleep(l) \/ LaneDrop(l) \/ LaneTestExit(l) \/ LaneLoadGeneration(l)
  \/ LaneLoadFn(l) \/ LaneEnterBody(l) \/ LaneLeaveBody(l)
  \/ LaneCountDone(l) \/ LaneLockDone(l) \/ LaneStoreCompleted(l)
  \/ LaneSignalDone(l)

-----------------------------------------------------------------------------
Next ==
  \/ MainStep \/ DoneTimeout \/ Released
  \/ \E l \in Lanes : LaneStep(l) \/ LaneTimeout(l)

\* Threads are scheduled, phase bodies return, and a thread that waits for
\* the mutex gets it before the others have timed out and taken it again for
\* ever (they sleep a second in between): hence strong fairness.  No step is
\* forced that ends a condition wait: the timeouts are not assumed to fire.
\* Whether to start a block or to shut down is the program's choice.
Fairness ==
  /\ SF_vars(MainStep)
  /\ \A l \in Lanes : SF_vars(LaneStep(l))

Spec == Init /\ [][Next]_vars /\ Fairness

-----------------------------------------------------------------------------
(* What the pool is for. *)

\* Main is inside a block, between the publication of the generation and
\* the end of the block.
InPhase == mainPc \in {"lockStart", "signalStart", "lockWait", "checkDone",
                       "sleep", "asleep", "dropWait", "leave"}

\* The abstract fork/join the pool implements: main forks when it publishes
\* the generation, and has joined when it leaves the block.
FJ == INSTANCE ForkJoin WITH phase <- generation, running <- InPhase

\* Steps of the pool are forks, single runs of a lane's body, joins after all
\* lanes ran, or invisible (async_run_phase, lane_thread_entry and
\* async_phase_wait together implement the block codegen.c emits).
ImplementsForkJoin == FJ!SafeSpec

\* ... and every entered block is left, with no help from the one-second
\* timeouts of the condition waits (base.c calls them a pure safety net).
ImplementsFairForkJoin == FJ!Spec

\* async_threads_shutdown always gets to the release: no lane misses the
\* exit flag, whatever it was doing when the flag was raised.
ShutdownEnds == asyncExit ~> (mainPc = "released")

MainPcs ==
  {"launch", "idle", "storeFn", "storeCount", "storeGeneration", "lockStart",
   "signalStart", "lockWait", "checkDone", "sleep", "asleep", "dropWait",
   "leave", "lockExit", "signalExit", "join", "released"}

LanePcs ==
  {"unborn", "lock", "checkGeneration", "checkExit", "sleep", "asleep", "drop",
   "testExit", "loadGeneration", "loadFn", "call", "body", "count", "lockDone",
   "storeCompleted", "signalDone", "exited"}

\* The count of finished lanes never passes lane_count, so the test for
\* equality in lane_thread_entry cannot be jumped over; every other variable
\* has its type.
TypeOK ==
  /\ generation \in Nat /\ completed \in Nat
  /\ doneCount \in 0 .. LaneCount
  /\ phaseFn \in Nat /\ asyncExit \in BOOLEAN
  /\ mutex \in Threads \cup {NoThread}
  /\ startQ \in SUBSET Lanes /\ doneQ \in BOOLEAN
  /\ laneJob \in Nat /\ liveCapture \in Nat
  /\ mainPc \in MainPcs /\ idx \in 0 .. LaneCount
  /\ lanePc \in [Lanes -> LanePcs]
  /\ lastSeen \in [Lanes -> Nat] /\ fn \in [Lanes -> Nat]
  /\ cap \in [Lanes -> Nat] /\ ran \in [Lanes -> Nat]

\* The assertion at the head of async_run_phase ("called before previous
\* phase completed") cannot fail: whenever main is about to start a phase the
\* last one is complete, and no lane is still on its way to publish it.
PreviousPhaseComplete ==
  mainPc = "idle" =>
    /\ completed = generation
    /\ \A l \in Lanes : lanePc[l] \notin {"count", "lockDone",
                                          "storeCompleted", "signalDone"}

\* A lane that runs a body runs the function of the current phase on the
\* captures of the current phase, and main has not left the block whose stack
\* frame holds them (the trampoline of cg_parallel_expr keeps only a pointer).
BodyUsesLiveCaptures ==
  \A l \in Lanes :
    lanePc[l] = "body" =>
      /\ cap[l] = liveCapture /\ liveCapture # Null
      /\ fn[l] = cap[l]

\* The safety side of "woken directly, not a polling loop": a thread is never
\* asleep on a condition that already holds, unless the thread that made it
\* hold is still on its way to the broadcast.
NoLostWakeup ==
  /\ \A l \in startQ :
       /\ lastSeen[l] # generation => mainPc \in {"lockStart", "signalStart"}
       /\ asyncExit => mainPc \in {"lockExit", "signalExit"}
  /\ doneQ /\ completed = generation
       => \E l \in Lanes : lanePc[l] = "signalDone"

-----------------------------------------------------------------------------
(* The inductive invariant behind the safety properties. *)

\* Lanes that have yet to add themselves to the done count of the phase.
Working(l) == lanePc[l] \in {"loadFn", "call", "body", "count"}

\* Lanes that have added themselves to it.
Counted == {l \in Lanes : lastSeen[l] = generation /\ ~Working(l)}

Publishing(l) == lanePc[l] \in {"lockDone", "storeCompleted", "signalDone"}

\* Who has the mutex is who is between a take and a drop.
MutexInv ==
  /\ \A l \in Lanes :
       mutex = l <=> lanePc[l] \in {"checkGeneration", "checkExit", "sleep",
                                    "drop", "storeCompleted", "signalDone"}
  /\ mutex = Main <=> mainPc \in {"signalStart", "checkDone", "sleep",
                                   "dropWait", "signalExit"}
  /\ startQ = {l \in Lanes : lanePc[l] = "asleep"}
  /\ doneQ <=> mainPc = "asleep"

\* Where main is says what it has published.
MainInv ==
  /\ mainPc = "launch" => generation = 0 /\ idx < LaneCount
  /\ mainPc \notin {"launch", "join", "released"} => idx = 0
  /\ mainPc = "join" => idx < LaneCount
  /\ asyncExit <=> mainPc \in {"lockExit", "signalExit", "join", "released"}
  /\ mainPc \in {"storeCount", "storeGeneration"} => phaseFn = generation + 1
  /\ mainPc \in {"storeFn", "storeCount", "storeGeneration"} =>
       liveCapture = generation + 1 /\ laneJob = liveCapture
  /\ mainPc = "storeGeneration" => doneCount = 0
  /\ InPhase =>
       /\ phaseFn = generation /\ generation > 0
       /\ liveCapture = generation /\ laneJob = generation

\* Where a lane is says how far it is through the current phase.
LaneInv ==
  \A l \in Lanes :
    /\ lanePc[l] = "unborn" <=> mainPc = "launch" /\ l >= idx
    /\ lastSeen[l] = generation \/ (lastSeen[l] + 1 = generation /\ InPhase)
    /\ lanePc[l] \in {"drop", "testExit"} => lastSeen[l] # generation \/ asyncExit
    /\ lanePc[l] = "loadGeneration" => lastSeen[l] # generation
    /\ Working(l) => lastSeen[l] = generation /\ InPhase
    /\ Publishing(l) => lastSeen[l] = generation
    /\ lanePc[l] \in {"call", "body", "count"} => fn[l] = generation
    /\ lanePc[l] = "body" => cap[l] = generation
    /\ ran[l] = IF lastSeen[l] # generation \/ lanePc[l] \in {"loadFn", "call", "body"}
                THEN generation - 1
                ELSE generation

\* The count, and when main may believe it.
CountInv ==
  /\ completed = generation \/ (completed + 1 = generation /\ InPhase)
  /\ InPhase => doneCount = Cardinality(Counted)
  /\ InPhase /\ completed = generation => doneCount = LaneCount
  /\ mainPc \in {"dropWait", "leave"} => completed = generation
  /\ mainPc = "sleep" => completed # generation

\* At most one lane publishes the completion, and it does so before main can
\* see it or sleep through it.
PublishInv ==
  /\ \A l \in Lanes : Publishing(l) =>
       /\ InPhase /\ doneCount = LaneCount
       /\ mainPc # "leave" /\ mainPc # "dropWait"
       /\ lanePc[l] = "signalDone" <=> completed = generation
  /\ \A l, m \in Lanes : Publishing(l) /\ Publishing(m) => l = m
  /\ mainPc = "asleep" /\ completed = generation
       => \E l \in Lanes : lanePc[l] = "signalDone"

\* No lane falls asleep on a condition that holds.
WakeupInv ==
  \A l \in Lanes :
    /\ lanePc[l] \in {"checkExit", "sleep"} /\ lastSeen[l] # generation =>
         mainPc = "lockStart"
    /\ lanePc[l] = "asleep" /\ lastSeen[l] # generation =>
         mainPc \in {"lockStart", "signalStart"}
    /\ lanePc[l] = "sleep" /\ asyncExit => mainPc = "lockExit"
    /\ lanePc[l] = "asleep" /\ asyncExit => mainPc \in {"lockExit", "signalExit"}

\* What every step of main and of the lanes preserves.
IndInv ==
  /\ TypeOK /\ MutexInv /\ MainInv /\ LaneInv
  /\ CountInv /\ PublishInv /\ WakeupInv

=============================================================================
