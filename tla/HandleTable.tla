---------------------------- MODULE HandleTable ----------------------------
(***************************************************************************)
(* What generational handles promise: a handle names one object, from the  *)
(* handle-alloc that made it to the handle-free that ends it, and nothing  *)
(* ever after.                                                             *)
(***************************************************************************)
CONSTANTS Handles, Values, Zero

VARIABLES issued,  \* every handle ever handed out
          live,    \* the handles the program has not freed
          table    \* what the handles that are accepted lead to

vars == <<issued, live, table>>

Init == issued = {} /\ live = {} /\ table = [h \in {} |-> Zero]

Alloc(h) ==
  /\ h \in Handles \ issued
  /\ issued' = issued \cup {h} /\ live' = live \cup {h}
  /\ table' = [g \in DOMAIN table \cup {h} |-> IF g = h THEN Zero ELSE table[g]]

Store(h, v) ==
  /\ h \in DOMAIN table
  /\ table' = [table EXCEPT ![h] = v]
  /\ UNCHANGED <<issued, live>>

Free(h) ==
  /\ h \in DOMAIN table
  /\ table' = [g \in DOMAIN table \ {h} |-> table[g]]
  /\ live' = live \ {h}
  /\ UNCHANGED issued

Next == \E h \in Handles : Alloc(h) \/ Free(h) \/ \E v \in Values : Store(h, v)

Spec == Init /\ [][Next]_vars

=============================================================================
