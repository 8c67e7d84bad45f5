--------------------------- MODULE AbstractBarrier ---------------------------
(***************************************************************************)
(* What a reusable barrier promises: a lane that has arrived for the k-th  *)
(* time departs for the k-th time only after every lane has arrived k      *)
(* times.  lane_sync, lane_sync_u64 and lane_reduce_sum_u64 rely on this   *)
(* and on nothing else.                                                    *)
(***************************************************************************)
EXTENDS Naturals

CONSTANT Lanes

VARIABLES arrivals, departures  \* per lane, how often so far

barrierVars == <<arrivals, departures>>

Init ==
  /\ arrivals = [l \in Lanes |-> 0]
  /\ departures = [l \in Lanes |-> 0]

Arrive(l) ==
  /\ arrivals[l] = departures[l]
  /\ arrivals' = [arrivals EXCEPT ![l] = arrivals[l] + 1]
  /\ UNCHANGED departures

Depart(l) ==
  /\ departures[l] < arrivals[l]
  /\ \A m \in Lanes : arrivals[m] >= arrivals[l]
  /\ departures' = [departures EXCEPT ![l] = departures[l] + 1]
  /\ UNCHANGED arrivals

Next == \E l \in Lanes : Arrive(l) \/ Depart(l)

SafeSpec == Init /\ [][Next]_barrierVars

\* When all have arrived, all get away.
Spec == SafeSpec /\ \A l \in Lanes : WF_barrierVars(Depart(l))

=============================================================================
