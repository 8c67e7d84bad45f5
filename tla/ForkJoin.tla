------------------------------ MODULE ForkJoin ------------------------------
(***************************************************************************)
(* What a `parallel` block promises, with no threads primitives in sight:  *)
(* a phase is forked, every lane runs its body exactly once, in any order, *)
(* and the block is left only after all of them have.  Then, and only      *)
(* then, the next phase may be forked.  codegen.c emits one fork and one   *)
(* join around every block.                                                *)
(***************************************************************************)
EXTENDS Naturals

CONSTANT Lanes

VARIABLES phase,    \* phases forked so far
          running,  \* is main inside a `parallel` block?
          ran       \* how many bodies each lane has finished

vars == <<phase, running, ran>>

Init == phase = 0 /\ running = FALSE /\ ran = [l \in Lanes |-> 0]

Fork == ~running /\ running' = TRUE /\ phase' = phase + 1 /\ UNCHANGED ran

Run(l) ==
  /\ running
  /\ ran[l] + 1 = phase
  /\ ran' = [ran EXCEPT ![l] = phase]
  /\ UNCHANGED <<phase, running>>

JoinAll ==
  /\ running
  /\ \A l \in Lanes : ran[l] = phase
  /\ running' = FALSE
  /\ UNCHANGED <<phase, ran>>

Next == Fork \/ JoinAll \/ \E l \in Lanes : Run(l)

\* A block that was entered is left: the bodies run and main resumes.
Spec ==
  /\ Init /\ [][Next]_vars
  /\ WF_vars(JoinAll) /\ \A l \in Lanes : WF_vars(Run(l))

\* The part of Spec that is about steps only.
SafeSpec == Init /\ [][Next]_vars

=============================================================================
