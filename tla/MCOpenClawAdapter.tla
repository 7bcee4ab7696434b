--------------------------- MODULE MCOpenClawAdapter ---------------------------
(* An instance of OpenClawAdapter for TLC. The calls of the host and the requests and events of the  *)
(* Agent share one bound, so that one instance has every combination of a few of them. Calls and     *)
(* Runs are numbered and begun in order, and identifiers are first used in order, as which is which  *)
(* makes no difference.                                                                             *)
EXTENDS OpenClawAdapter

CONSTANT MaxInputs      \* bound: calls, permission requests, events, and twice the Runs

BegunCalls == {c \in Calls : calls[c].at # "idle"}
BegunRuns == {r \in Runs : runs[r].phase # "none"}

Inputs ==
  Cardinality(BegunCalls) + 2 * Cardinality(BegunRuns)
  + Cardinality({a \in Approvals : approvals[a].told # "none"}) + sent

UsedIds == {calls[c].id : c \in Calls} \ {NoId}
InOrder(begun) == begun = 1..Cardinality(begun)

(* The bound holds back inputs only, and none of them is under fairness. *)
MCSpec ==
  /\ Init
  /\ [][/\ Next
        /\ Inputs' <= MaxInputs
        /\ InOrder(BegunCalls') /\ InOrder(BegunRuns')
        /\ InOrder(UsedIds')]_vars
  /\ Fairness

================================================================================
