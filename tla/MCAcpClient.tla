------------------------------ MODULE MCAcpClient ------------------------------
(* An instance of AcpClient for TLC: one Session, with few of the prompts, cancellations, closes and *)
(* messages of the Agent in any combination. Prompts and cancellations are numbered and taken in     *)
(* order, as which call has which number makes no difference.                                       *)
EXTENDS AcpClient

CONSTANTS
  MaxTraffic,           \* bound: prompts and messages of the Agent together
  MaxInputs             \* bound: those, cancellations and closes together

Begun(call, calls) == {c \in calls : call[c].state # "idle"}

Traffic == Cardinality(Begun(prompts, Prompts)) + received
Inputs == Traffic + Cardinality(Begun(cancels, Cancels)) + Cardinality(Begun(closes, Closes))

InOrder(begun) == begun = 1..Cardinality(begun)

(* The bounds hold back inputs only, and none of them is under fairness. *)
MCSpec ==
  /\ Init
  /\ [][/\ Next
        /\ Traffic' <= MaxTraffic /\ Inputs' <= MaxInputs
        /\ InOrder(Begun(prompts, Prompts)') /\ InOrder(Begun(cancels, Cancels)')]_vars
  /\ Fairness
================================================================================
