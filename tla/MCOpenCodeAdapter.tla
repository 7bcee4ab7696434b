--------------------------- MODULE MCOpenCodeAdapter ---------------------------
(* Instances of OpenCodeAdapter for TLC. The calls of the host share one bound, so that one instance *)
(* has every combination of a few of them.                                                          *)
EXTENDS OpenCodeAdapter

CONSTANT MaxInputs      \* bound: Sessions made or resumed, Runs, cancels, permissions, forks, closes together

Inputs ==
  Cardinality({h \in Handles : handles[h].call # "free"}) + Cardinality({r \in Runs : runs[r].open # "idle"})
  + Cardinality({r \in Runs : runs[r].cancel # "none"}) + Len(interactions)
  + Cardinality({s \in Sessions : forks[s] # "none"}) + Cardinality(closedHandles)

(* The bound holds back inputs only, and none of them is under fairness but a fork, which may fail.  *)
MCSpec == Init /\ [][Next /\ Inputs' <= MaxInputs]_vars /\ Fairness

(* Sessions have one Run and nothing uncertain is built on, permissions are settled, and a           *)
(* cancellation says what happened. providers/opencode/src/adapter.ts.                              *)
OpenCodeSound == SessionsExclusive /\ PermissionsSettled /\ CancelTruthful
================================================================================
