---------------------------- MODULE MCHermesAdapter ----------------------------
(* Instances of HermesAdapter for TLC. The calls of the host and the requests of the Provider share  *)
(* one bound.                                                                                       *)
EXTENDS HermesAdapter

CONSTANT MaxInputs      \* bound: Sessions made or resumed, Runs, cancels, approvals, answers, branches, closes together

Inputs ==
  Cardinality({h \in Handles : handles[h].call # "free"}) + Cardinality({r \in Runs : runs[r].start # "idle"})
  + Cardinality({r \in Runs : runs[r].cancel # "none" \/ runs[r].timedOut})
  + (IF approvals = <<>> THEN 0 ELSE 1)
  + Cardinality({s \in Sessions : branches[s] # "none"}) + Cardinality({h \in Handles : handles[h].closed})

(* Sessions, handles and Runs are numbers, taken in their order, and the host answers "once": which  *)
(* of them is taken makes no difference.                                                            *)
Ordered(S) == \A i \in S : i > 1 => i - 1 \in S

InOrder ==
  /\ Ordered(created) /\ Ordered({h \in Handles : handles[h].call # "free"})
  /\ Ordered({r \in Runs : runs[r].start # "idle"}) /\ \A n \in 1..MaxApprovals : responses[n].choice # "deny"

(* The bound holds back inputs only, and none of them is under fairness but a branch, which may fail. *)
MCSpec == Init /\ [][Next /\ Inputs' <= MaxInputs /\ InOrder']_vars /\ Fairness
================================================================================
